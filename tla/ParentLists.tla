---------------------------- MODULE ParentLists -----------------------------
(***************************************************************************)
(* The pure operations on parent lists (pkg/types/vertex.go), on any list: *)
(* parents grows one hash at a time, and Normalize rewrites it in place.   *)
(***************************************************************************)
EXTENDS Vertex

CONSTANT MaxParents     \* bound: the longest list

ASSUME ListAssumption == MaxParents \in Nat

VARIABLES parents, hadDuplicate

listVars == <<parents, hadDuplicate>>

Init == parents = << >> /\ hadDuplicate = FALSE

Append1(h) ==
    /\ Len(parents) < MaxParents
    /\ parents' = Append(parents, h)
    /\ UNCHANGED hadDuplicate

\* vertex.go:128
Normalize ==
    /\ parents' = DeduplicateAndSort(parents)
    /\ hadDuplicate' = (Len(parents') # Len(parents))

Next == Normalize \/ \E h \in Hash : Append1(h)

Spec == Init /\ [][Next]_listVars

-----------------------------------------------------------------------------
(* CheckMalformed, which looks at neighbours only, rejects exactly the     *)
(* lists that the canonicaliser would change: a list passes iff it is its  *)
(* own sorted, duplicate-free form (vertex.go:165-169).                    *)
MalformedIffNotCanonical ==
    CheckMalformed(parents) <=> DeduplicateAndSort(parents) # parents

(* The map-based HasDuplicate agrees with the set of hashes in the list,   *)
(* and a list that escapes CheckMalformed never has a duplicate, although  *)
(* that test compares neighbours only (vertex.go:177, vertex.go:192).      *)
DuplicatesNeverEscape ==
    /\ HasDuplicate(parents) <=> Cardinality(Range(parents)) < Len(parents)
    /\ HasDuplicate(parents) => CheckMalformed(parents)

(* Normalize keeps what it documents (vertex.go:121-127): the list becomes *)
(* one that the strict check accepts, it neither invents nor loses a       *)
(* parent, and the signal is true exactly when the list had a duplicate.   *)
NormalizeRepairs ==
    [][ Len(parents') <= Len(parents) =>
          /\ ~CheckMalformed(parents')
          /\ Range(parents') = Range(parents)
          /\ hadDuplicate' <=> HasDuplicate(parents) ]_listVars
=============================================================================
