------------------------- MODULE ParentListsProofs --------------------------
(***************************************************************************)
(* The operations on parent lists agree with what their comments promise,  *)
(* for lists of any length over any hashes.                                *)
(***************************************************************************)
EXTENDS ParentLists, VertexProofs

(* A list never holds anything but hashes.                                 *)
ListTypeOK == parents \in Seq(Hash) /\ hadDuplicate \in BOOLEAN

LEMMA ListsAreOfNumbers ==
    ASSUME ListTypeOK
    PROVE  parents \in Seq(Nat)
<1>1. Hash \in SUBSET Nat /\ parents \in Seq(Hash)
  BY VertexAssumption DEF ListTypeOK
<1>2. \A i \in 1 .. Len(parents) : parents[i] \in Hash
  BY <1>1
<1>3. \A i \in 1 .. Len(parents) : parents[i] \in Nat
  BY <1>1, <1>2, Zenon
<1> QED  BY <1>1, <1>3

LEMMA NormalizeTyped ==
    ASSUME ListTypeOK, Normalize
    PROVE  ListTypeOK'
<1> DEFINE t == DeduplicateAndSort(parents)
<1>1. /\ t \in Seq(Nat) /\ Range(t) = Range(parents)
  BY ListsAreOfNumbers, CanonicalForm
<1>2. Range(parents) \in SUBSET Hash
  BY DEF ListTypeOK, Range
<1>3. parents' = t /\ hadDuplicate' \in BOOLEAN
  BY DEF Normalize
<1> HIDE DEF t
<1>4. t \in Seq(Hash)
  <2>1. \A i \in 1 .. Len(t) : t[i] \in Range(t)
    BY <1>1 DEF Range
  <2>2. \A i \in 1 .. Len(t) : t[i] \in Hash
    BY <2>1, <1>1, <1>2
  <2> QED  BY <1>1, <2>2
<1> QED  BY <1>3, <1>4 DEF ListTypeOK

LEMMA ListTyped == Spec => []ListTypeOK
<1>1. Init => ListTypeOK
  <2> SUFFICES ASSUME Init PROVE ListTypeOK
    OBVIOUS
  <2>1. parents \in Seq(Hash)
    BY DEF Init
  <2>2. hadDuplicate \in BOOLEAN
    BY DEF Init
  <2> QED  BY <2>1, <2>2 DEF ListTypeOK
<1>2. ListTypeOK /\ [Next]_listVars => ListTypeOK'
  <2> SUFFICES ASSUME ListTypeOK, [Next]_listVars PROVE ListTypeOK'
    OBVIOUS
  <2>1. CASE Normalize
    BY <2>1, NormalizeTyped
  <2>2. ASSUME NEW h \in Hash, Append1(h) PROVE ListTypeOK'
    BY <2>2 DEF Append1, ListTypeOK
  <2>3. CASE UNCHANGED listVars
    BY <2>3 DEF listVars, ListTypeOK
  <2> QED  BY <2>1, <2>2, <2>3 DEF Next
<1> QED  BY <1>1, <1>2, PTL DEF Spec

(* The strict structural check rejects exactly what the canonicaliser      *)
(* would change (vertex.go:165-169).                                       *)
THEOREM StrictCheckIsCanonical == Spec => []MalformedIffNotCanonical
<1>1. ListTypeOK => MalformedIffNotCanonical
  BY ListsAreOfNumbers, CanonicalForm DEF MalformedIffNotCanonical
<1> QED  BY <1>1, ListTyped, PTL

(* Comparing neighbours is enough to catch every duplicate (vertex.go:177).*)
THEOREM NeighboursAreEnough == Spec => []DuplicatesNeverEscape
<1>1. ListTypeOK => DuplicatesNeverEscape
  BY ListsAreOfNumbers, DuplicateShrinksRange, WellFormedNoDuplicate
     DEF DuplicatesNeverEscape
<1> QED  BY <1>1, ListTyped, PTL

(* Normalize leaves a list that the strict check accepts, with the same    *)
(* hashes, and reports duplicates truthfully (vertex.go:128-138).          *)
THEOREM NormalizeAlwaysRepairs == Spec => NormalizeRepairs
<1> DEFINE Repaired == Len(parents') <= Len(parents) =>
                          /\ ~CheckMalformed(parents')
                          /\ Range(parents') = Range(parents)
                          /\ hadDuplicate' <=> HasDuplicate(parents)
<1>1. ListTypeOK /\ [Next]_listVars => [Repaired]_listVars
  <2> SUFFICES ASSUME ListTypeOK, Next PROVE Repaired
    OBVIOUS
  <2>1. CASE Normalize
    <3> DEFINE t == DeduplicateAndSort(parents)
    <3>1. /\ t \in Seq(Nat) /\ Increasing(t) /\ Range(t) = Range(parents)
          /\ Len(t) # Len(parents) <=> HasDuplicate(parents)
      BY ListsAreOfNumbers, CanonicalForm
    <3>2. parents' = t /\ hadDuplicate' = (Len(parents') # Len(parents))
      BY <2>1 DEF Normalize
    <3> HIDE DEF t
    <3>3. ~CheckMalformed(t)
      BY <3>1, WellFormedIncreasing
    <3> QED  BY <3>1, <3>2, <3>3
  <2>2. ASSUME NEW h \in Hash, Append1(h) PROVE ~(Len(parents') <= Len(parents))
    BY <2>2 DEF Append1, ListTypeOK
  <2> QED  BY <2>1, <2>2 DEF Next
<1> QED  BY <1>1, ListTyped, PTL DEF Spec, NormalizeRepairs
=============================================================================
