------------------------------- MODULE Vertex -------------------------------
(***************************************************************************)
(* Vertices and hashes (pkg/types/vertex.go, pkg/types/hash.go).           *)
(*                                                                         *)
(* SHA-256 is abstracted to what the protocol needs from it: a hash value  *)
(* names one content, so a vertex is identified with its hash and the      *)
(* fields that the hash covers are functions of it.  The signature is not  *)
(* among them, and nothing in the code verifies one: Author is whom the    *)
(* vertex names.  The 32-byte values are naturals, ordered as Hash.Compare *)
(* orders them.  Hash also contains the values that no delivered vertex    *)
(* ever carries: a parent may be unknown for ever.                         *)
(***************************************************************************)
EXTENDS Naturals, Sequences, FiniteSets, Functions

CONSTANTS
    Hash,           \* the hash values in play
    Validators,     \* node identifiers
    Parents,        \* Vertex.Parents, in the order the author wrote them
    Round,          \* Vertex.Round
    Author,         \* Vertex.Author, the validator that the vertex names
    Generation      \* see VertexAssumption

(* A content hash covers the parent hashes (CalculateHash writes them), so *)
(* a chain of parents cannot return to its start: Generation is any        *)
(* numbering that witnesses it.                                            *)
ASSUME VertexAssumption ==
    /\ Hash \subseteq Nat
    /\ IsFiniteSet(Hash)
    /\ Parents \in [Hash -> Seq(Hash)]
    /\ Round \in [Hash -> Nat]
    /\ Author \in [Hash -> Validators]
    /\ Generation \in [Hash -> Nat]
    /\ \A h \in Hash : \A i \in DOMAIN Parents[h] :
           Generation[Parents[h][i]] < Generation[h]

ParentSet(h) == Range(Parents[h])

-----------------------------------------------------------------------------
(***************************************************************************)
(* Canonical order of hashes.                                              *)
(***************************************************************************)

(* The sort itself is the library's and stands here for its contract: the  *)
(* result holds at each place the element of that rank, by the comparison  *)
(* of HashSlice.Less.  Before(s, i): the positions of s whose element      *)
(* comes before position i in the sorted slice.  sort.Sort is not stable,  *)
(* but equal hashes are interchangeable.                                   *)
Before(s, i) == {j \in DOMAIN s : s[j] < s[i] \/ (s[j] = s[i] /\ j < i)}

\* Faulty variant: the comparison of HashSlice.Less is turned round.
SortHashesDescending(s) ==
    [k \in 1 .. Len(s) |->
        s[CHOOSE i \in DOMAIN s : Cardinality(Before(s, i)) = Len(s) - k]]

\* hash.go:50, by Less (hash.go:63)
SortHashes(s) ==
    [k \in 1 .. Len(s) |->
        s[CHOOSE i \in DOMAIN s : Cardinality(Before(s, i)) = k - 1]]

\* The members of a set of numbers, in increasing order.
Ascending(S) ==
    [k \in 1 .. Cardinality(S) |->
        CHOOSE h \in S : Cardinality({g \in S : g < h}) = k - 1]

(* vertex.go:203, for vertices with distinct hashes given as a set.        *)
SortVertices(S) == Ascending(S)

(***************************************************************************)
(* Loops that copy some elements of a slice, in their order.               *)
(***************************************************************************)
\* At(s)[I]: the elements of s at the positions I.
At(s) == [I \in SUBSET DOMAIN s |->
            [k \in 1 .. Cardinality(I) |-> s[Ascending(I)[k]]]]

\* The elements of s that are in S (dag.go:187, dag.go:197, dag.go:218).
Keep(s, S) == At(s)[{i \in DOMAIN s : s[i] \in S}]

-----------------------------------------------------------------------------
(***************************************************************************)
(* Structural rules on a parent list.                                      *)
(***************************************************************************)

\* Faulty variant: duplicates are let through.
CheckMalformedOrderOnly(parents) ==
    \E i \in 1 .. Len(parents) - 1 : parents[i] > parents[i + 1]

\* vertex.go:170, with its length guard: an empty range of i for Len <= 1.
CheckMalformed(parents) ==
    \E i \in 1 .. Len(parents) - 1 :
        \/ parents[i] = parents[i + 1]
        \/ parents[i] > parents[i + 1]

\* Faulty variant: only neighbours are compared.
HasDuplicateAdjacent(elements) ==
    \E i \in 1 .. Len(elements) - 1 : elements[i] = elements[i + 1]

\* vertex.go:192
HasDuplicate(elements) ==
    \E i, j \in DOMAIN elements : i # j /\ elements[i] = elements[j]

(* The distinct hashes of s in the order of their first occurrence.        *)
Unique(s) == At(s)[{i \in DOMAIN s : \A j \in 1 .. i - 1 : s[j] # s[i]}]

\* vertex.go:143
DeduplicateAndSort(s) == IF Len(s) <= 1 THEN s ELSE SortHashes(Unique(s))

WellFormed(h) == ~CheckMalformed(Parents[h])

(***************************************************************************)
(* What causal completeness allows a ledger to contain, given the set of   *)
(* vertices that have been received: the well-formed ones all of whose     *)
(* ancestors have been received and are well formed.                       *)
(***************************************************************************)
CausallyClosed(S) == \A h \in S : ParentSet(h) \subseteq S

Resolvable(S) ==
    UNION {T \in SUBSET S : CausallyClosed(T) /\ \A h \in T : WellFormed(h)}
=============================================================================
