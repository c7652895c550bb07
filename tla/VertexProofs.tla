---------------------------- MODULE VertexProofs ----------------------------
(***************************************************************************)
(* Lemmas about the canonical order of hashes, for every slice and every   *)
(* finite set of hashes.                                                   *)
(***************************************************************************)
EXTENDS Vertex, FiniteSetTheorems, SequenceTheorems, TLAPS

(* A proper subset of a finite set has fewer elements.                     *)
LEMMA ProperSubset ==
    ASSUME NEW T, IsFiniteSet(T), NEW U \in SUBSET T, U # T
    PROVE  /\ IsFiniteSet(U) /\ Cardinality(U) \in Nat /\ Cardinality(T) \in Nat
           /\ Cardinality(U) < Cardinality(T)
<1>1. /\ IsFiniteSet(U) /\ Cardinality(U) <= Cardinality(T)
      /\ Cardinality(U) = Cardinality(T) => U = T
  BY FS_Subset
<1>2. Cardinality(U) \in Nat /\ Cardinality(T) \in Nat
  BY <1>1, FS_CardinalityType
<1> QED  BY <1>1, <1>2

(* rank tells the elements of S apart by numbers below their number.       *)
Ranks(rank, S) ==
    /\ rank \in [S -> Nat]
    /\ \A x \in S : rank[x] < Cardinality(S)
    /\ \A x, y \in S : rank[x] = rank[y] => x = y

(* Every number below their number is the rank of one of them.             *)
AllRanksUsed(rank, S) ==
    \A k \in Nat : k < Cardinality(S) => \E x \in S : rank[x] = k

(* A ranking of the n elements of S into 0 .. n - 1 that tells elements    *)
(* apart uses every rank.  Both sorting operators rest on it.              *)
LEMMA RanksAreUsed ==
    ASSUME NEW S, IsFiniteSet(S), NEW rank, Ranks(rank, S)
    PROVE  AllRanksUsed(rank, S)
<1> DEFINE T == 0 .. Cardinality(S) - 1
<1>0. /\ rank \in [S -> Nat]
      /\ \A x \in S : rank[x] < Cardinality(S)
      /\ \A x, y \in S : rank[x] = rank[y] => x = y
  BY DEF Ranks
<1>1. Cardinality(S) \in Nat
  BY FS_CardinalityType
<1>2. IsFiniteSet(T) /\ Cardinality(T) = Cardinality(S)
  <2>1. 0 \in Int /\ Cardinality(S) - 1 \in Int
    BY <1>1
  <2> QED  BY <2>1, <1>1, FS_Interval
<1>3. rank \in Injection(S, T)
  <2>1. rank \in [S -> T]
    BY <1>0, <1>1
  <2> QED  BY <2>1, <1>0 DEF Injection, IsInjective
<1>4. rank \in Surjection(S, T)
  BY <1>2, <1>3, FS_Injection
<1>5. ASSUME NEW k \in Nat, k < Cardinality(S)
      PROVE  \E x \in S : rank[x] = k
  <2>1. k \in T
    BY <1>1, <1>5
  <2> QED  BY <2>1, <1>4 DEF Surjection
<1> QED  BY <1>5 DEF AllRanksUsed

(* The elements of a finite set of hashes that are below a given one are   *)
(* fewer than all, and fewer than those below a larger one.                *)
LEMMA BelowGrows ==
    ASSUME NEW S \in SUBSET Nat, IsFiniteSet(S), NEW x \in S
    PROVE  /\ Cardinality({g \in S : g < x}) \in Nat
           /\ Cardinality({g \in S : g < x}) < Cardinality(S)
           /\ \A y \in S : x < y =>
                Cardinality({g \in S : g < x}) < Cardinality({g \in S : g < y})
<1> DEFINE B(z) == {g \in S : g < z}
<1>1. \A z \in S : IsFiniteSet(B(z)) /\ Cardinality(B(z)) \in Nat
  BY FS_Subset, FS_CardinalityType
<1>2. Cardinality(B(x)) < Cardinality(S)
  <2>1. B(x) \in SUBSET S /\ x \notin B(x)
    OBVIOUS
  <2>2. B(x) # S
    BY <2>1
  <2> HIDE DEF B
  <2> QED  BY <2>1, <2>2, ProperSubset
<1>3. ASSUME NEW y \in S, x < y
      PROVE  Cardinality(B(x)) < Cardinality(B(y))
  <2>1. /\ \A g \in S : g \in Nat
        /\ B(x) \in SUBSET B(y) /\ x \in B(y) \ B(x)
    <3>1. \A g \in S : g \in Nat
      OBVIOUS
    <3>2. x \in B(y) \ B(x)
      BY <3>1, <1>3
    <3>3. ASSUME NEW g \in B(x) PROVE g \in B(y)
      BY <3>1, <3>3, <1>3
    <3> QED  BY <3>1, <3>2, <3>3
  <2>2. B(x) # B(y)
    BY <2>1
  <2> HIDE DEF B
  <2> QED  BY <2>1, <2>2, <1>1, ProperSubset
<1> QED  BY <1>1, <1>2, <1>3

(* SortVertices lists a finite set of hashes once each, in increasing      *)
(* order: whatever map the vertices come from, the order is canonical.     *)
LEMMA SortVerticesSorts ==
    ASSUME NEW S \in SUBSET Nat, IsFiniteSet(S)
    PROVE  /\ SortVertices(S) \in Seq(S)
           /\ Len(SortVertices(S)) = Cardinality(S)
           /\ Range(SortVertices(S)) = S
           /\ \A i, j \in 1 .. Cardinality(S) :
                 i < j => SortVertices(S)[i] < SortVertices(S)[j]
<1> DEFINE n == Cardinality(S)
           rank == [h \in S |-> Cardinality({g \in S : g < h})]
           s == SortVertices(S)
<1>1. n \in Nat
  BY FS_CardinalityType
<1>2. rank \in [S -> Nat] /\ \A h \in S : rank[h] < n
  BY BelowGrows
<1>3. \A x, y \in S : rank[x] = rank[y] => x = y
  <2> SUFFICES ASSUME NEW x \in S, NEW y \in S, x < y
               PROVE  rank[x] # rank[y]
    OBVIOUS
  <2> QED  BY BelowGrows
<1>4. \A k \in 1 .. n : \E h \in S : rank[h] = k - 1
  <2> TAKE k \in 1 .. n
  <2>1. k - 1 \in Nat /\ k - 1 < n
    BY <1>1
  <2> HIDE DEF rank
  <2>2. Ranks(rank, S)
    BY <1>2, <1>3 DEF Ranks
  <2>3. AllRanksUsed(rank, S)
    BY <2>2, RanksAreUsed
  <2> QED  BY <2>1, <2>3 DEF AllRanksUsed
<1>5. \A k \in 1 .. n : s[k] \in S /\ rank[s[k]] = k - 1
  <2> TAKE k \in 1 .. n
  <2>1. s[k] = CHOOSE h \in S : rank[h] = k - 1
    BY DEF SortVertices, Ascending
  <2> QED  BY <2>1, <1>4
<1>6. s \in [1 .. n -> S]
  BY <1>5 DEF SortVertices, Ascending
<1>7. s \in Seq(S) /\ Len(s) = n /\ DOMAIN s = 1 .. n
  BY <1>1, <1>6
<1>8. Range(s) = S
  <2>1. ASSUME NEW h \in S PROVE h \in Range(s)
    <3> DEFINE k == rank[h] + 1
    <3>1. k \in 1 .. n /\ k - 1 = rank[h]
      BY <1>1, <1>2
    <3>2. s[k] = h
      BY <3>1, <1>5, <1>3
    <3> QED  BY <3>1, <3>2, <1>7 DEF Range
  <2> QED  BY <2>1, <1>5, <1>7 DEF Range
<1>9. ASSUME NEW i \in 1 .. n, NEW j \in 1 .. n, i < j
      PROVE  s[i] < s[j]
  <2>1. rank[s[i]] < rank[s[j]] /\ s[i] \in Nat /\ s[j] \in Nat
    <3>1. rank[s[i]] = i - 1 /\ rank[s[j]] = j - 1 /\ s[i] \in S /\ s[j] \in S
      BY <1>5
    <3>2. i - 1 < j - 1
      BY <1>1, <1>9
    <3> QED  BY <3>1, <3>2
  <2>2. ~(s[j] < s[i])
    <3>1. s[i] \in S /\ s[j] \in S
      BY <1>5
    <3>2. s[j] < s[i] => rank[s[j]] < rank[s[i]]
      BY <3>1, BelowGrows
    <3>3. rank[s[i]] \in Nat /\ rank[s[j]] \in Nat
      BY <3>1, <1>2
    <3> HIDE DEF rank, s
    <3> QED  BY <2>1, <3>2, <3>3
  <2>3. s[j] # s[i]
    BY <2>1, <1>2, <1>5
  <2> QED  BY <2>1, <2>2, <2>3
<1> QED  BY <1>7, <1>8, <1>9

(* It lists no member twice.                                               *)
LEMMA SortVerticesInjective ==
    ASSUME NEW S \in SUBSET Nat, IsFiniteSet(S)
    PROVE  /\ SortVertices(S) \in Seq(S) /\ Range(SortVertices(S)) = S
           /\ IsInjective(SortVertices(S))
<1> DEFINE sorted == SortVertices(S)
<1>1. /\ sorted \in Seq(S) /\ Len(sorted) = Cardinality(S) /\ Range(sorted) = S
      /\ \A i, j \in 1 .. Cardinality(S) : i < j => sorted[i] < sorted[j]
  BY SortVerticesSorts
<1> HIDE DEF sorted
<1>2. IsInjective(sorted)
  <2> SUFFICES ASSUME NEW i \in DOMAIN sorted, NEW j \in DOMAIN sorted, i # j
               PROVE  sorted[i] # sorted[j]
    BY DEF IsInjective
  <2>1. i \in 1 .. Len(sorted) /\ j \in 1 .. Len(sorted)
    BY <1>1
  <2>2. sorted[i] \in S /\ sorted[j] \in S
    BY <1>1, <2>1
  <2>3. i < j \/ j < i
    BY <2>1
  <2>4. sorted[i] < sorted[j] \/ sorted[j] < sorted[i]
    BY <2>1, <2>3, <1>1
  <2>5. sorted[i] \in Nat /\ sorted[j] \in Nat
    BY <2>2
  <2> QED  BY <2>4, <2>5
<1> QED  BY <1>1, <1>2 DEF sorted

(* A non-empty finite set of numbers has a least element.                  *)
LEMMA LeastExists ==
    ASSUME NEW S \in SUBSET Nat, IsFiniteSet(S), S # {}
    PROVE  \E x \in S : \A y \in S : x <= y
<1> DEFINE t == SortVertices(S)
           n == Cardinality(S)
<1>1. n \in Nat /\ n # 0
  BY FS_CardinalityType, FS_EmptySet
<1>2. /\ t \in Seq(S) /\ Len(t) = n /\ Range(t) = S
      /\ \A i, j \in 1 .. n : i < j => t[i] < t[j]
  BY SortVerticesSorts
<1> HIDE DEF t, n
<1>3. 1 \in 1 .. n /\ DOMAIN t = 1 .. n /\ \A i \in 1 .. n : t[i] \in Nat
  <2>1. 1 \in 1 .. n
    BY <1>1
  <2>2. DOMAIN t = 1 .. n /\ \A i \in 1 .. n : t[i] \in S
    BY <1>2
  <2> QED  BY <2>1, <2>2
<1>4. ASSUME NEW y \in S PROVE t[1] <= y
  <2>1. PICK i \in 1 .. n : y = t[i]
    BY <1>2, <1>3 DEF Range
  <2>2. i = 1 \/ 1 < i
    BY <1>1
  <2> QED  BY <2>1, <2>2, <1>2, <1>3
<1>5. t[1] \in S
  BY <1>2, <1>3 DEF Range
<1> QED  BY <1>4, <1>5

(* The members of 1 .. n below one of them.                                *)
LEMMA BelowInInterval ==
    ASSUME NEW n \in Nat, NEW h \in 1 .. n
    PROVE  Cardinality({g \in 1 .. n : g < h}) = h - 1
<1>1. h \in Nat /\ h >= 1 /\ h - 1 \in Int /\ 1 \in Int
  OBVIOUS
<1>2. {g \in 1 .. n : g < h} = 1 .. (h - 1)
  OBVIOUS
<1>3. Cardinality(1 .. (h - 1)) = IF 1 > h - 1 THEN 0 ELSE (h - 1) - 1 + 1
  BY <1>1, FS_Interval
<1>4. (IF 1 > h - 1 THEN 0 ELSE (h - 1) - 1 + 1) = h - 1
  BY <1>1
<1> QED  BY <1>2, <1>3, <1>4

LEMMA IntervalSize ==
    ASSUME NEW n \in Nat
    PROVE  IsFiniteSet(1 .. n) /\ Cardinality(1 .. n) = n
<1>1. IsFiniteSet(1 .. n) /\ Cardinality(1 .. n) = IF 1 > n THEN 0 ELSE n - 1 + 1
  BY FS_Interval
<1>2. (IF 1 > n THEN 0 ELSE n - 1 + 1) = n
  OBVIOUS
<1> QED  BY <1>1, <1>2

(* The members of 1 .. n in increasing order are 1, ..., n.                *)
LEMMA AscendingInterval ==
    ASSUME NEW n \in Nat
    PROVE  \A k \in 1 .. n : Ascending(1 .. n)[k] = k
<1> SUFFICES ASSUME NEW k \in 1 .. n
             PROVE  Ascending(1 .. n)[k] = k
  OBVIOUS
<1> DEFINE h == CHOOSE h \in 1 .. n : Cardinality({g \in 1 .. n : g < h}) = k - 1
<1>1. Ascending(1 .. n)[k] = h
  BY IntervalSize DEF Ascending
<1>2. Cardinality({g \in 1 .. n : g < k}) = k - 1
  BY BelowInInterval
<1>3. h \in 1 .. n /\ Cardinality({g \in 1 .. n : g < h}) = k - 1
  BY <1>2
<1> HIDE DEF h
<1>4. h - 1 = k - 1
  BY <1>3, BelowInInterval
<1> QED  BY <1>1, <1>3, <1>4

(***************************************************************************)
(* Loops that copy some elements of a slice.                               *)
(***************************************************************************)
(* At takes the elements at the given positions, each position once; all   *)
(* positions give the slice itself.                                        *)
LEMMA AtSelects ==
    ASSUME NEW S, NEW s \in Seq(S), NEW I \in SUBSET DOMAIN s
    PROVE  /\ At(s)[I] \in Seq(S)
           /\ Len(At(s)[I]) = Cardinality(I) /\ Cardinality(I) <= Len(s)
           /\ \A y : y \in Range(At(s)[I]) <=> \E i \in I : y = s[i]
           /\ (\A i, j \in I : s[i] = s[j] => i = j) => IsInjective(At(s)[I])
           /\ I = DOMAIN s => At(s)[I] = s
<1> DEFINE m == Cardinality(I)
           p == SortVertices(I)
           t == At(s)[I]
<1>1. /\ Len(s) \in Nat /\ DOMAIN s = 1 .. Len(s) /\ I \in SUBSET Nat
      /\ \A i \in DOMAIN s : s[i] \in S
  OBVIOUS
<1>2. IsFiniteSet(I) /\ m <= Len(s) /\ m \in Nat
  BY <1>1, IntervalSize, FS_Subset, FS_CardinalityType
<1>3. /\ p \in Seq(I) /\ Len(p) = m /\ Range(p) = I
      /\ \A i, j \in 1 .. m : i < j => p[i] < p[j]
  BY <1>1, <1>2, SortVerticesSorts
<1>4. t = [k \in 1 .. m |-> s[p[k]]]
  BY DEF At, SortVertices
<1> HIDE DEF t, p, m
<1>5. DOMAIN p = 1 .. m /\ \A k \in 1 .. m : p[k] \in I
  BY <1>2, <1>3
<1>6. \A k, l \in 1 .. m : p[k] = p[l] => k = l
  <2> SUFFICES ASSUME NEW k \in 1 .. m, NEW l \in 1 .. m, k < l
               PROVE  p[k] # p[l]
    OBVIOUS
  <2> QED  BY <1>1, <1>3, <1>5
<1>7. t \in [1 .. m -> S]
  BY <1>1, <1>4, <1>5
<1>8. t \in Seq(S) /\ Len(t) = m /\ DOMAIN t = 1 .. m
  BY <1>2, <1>7
<1>9. \A y : y \in Range(t) <=> \E i \in I : y = s[i]
  <2>1. ASSUME NEW i \in I PROVE s[i] \in Range(t)
    <3>1. PICK k \in 1 .. m : i = p[k]
      BY <1>3, <1>5 DEF Range
    <3> QED  BY <3>1, <1>4, <1>8 DEF Range
  <2>2. ASSUME NEW k \in 1 .. m PROVE \E i \in I : t[k] = s[i]
    BY <1>4, <1>5
  <2> QED  BY <2>1, <2>2, <1>8 DEF Range
<1>10. ASSUME \A i, j \in I : s[i] = s[j] => i = j
       PROVE  IsInjective(t)
  BY <1>4, <1>5, <1>6, <1>8, <1>10 DEF IsInjective
<1>11. ASSUME I = DOMAIN s PROVE t = s
  <2>1. m = Len(s)
    BY <1>1, <1>11, IntervalSize DEF m
  <2>2. \A k \in 1 .. m : p[k] = k
    BY <1>1, <1>11, <2>1, AscendingInterval DEF p, SortVertices
  <2>3. \A k \in 1 .. m : t[k] = s[k]
    BY <2>2, <1>4
  <2> QED  BY <2>1, <2>3, <1>1, <1>8
<1> QED  BY <1>2, <1>8, <1>9, <1>10, <1>11 DEF t, m

(* Keep lists the elements that are in T; a slice with no others stays as  *)
(* it is.                                                                  *)
LEMMA KeepSelects ==
    ASSUME NEW S, NEW s \in Seq(S), NEW T
    PROVE  /\ Keep(s, T) \in Seq(S) /\ Len(Keep(s, T)) <= Len(s)
           /\ Range(Keep(s, T)) = Range(s) \cap T
           /\ Range(s) \subseteq T => Keep(s, T) = s
<1>1. PICK I \in SUBSET DOMAIN s : I = {i \in DOMAIN s : s[i] \in T}
  OBVIOUS
<1>2. /\ At(s)[I] \in Seq(S) /\ Len(At(s)[I]) = Cardinality(I)
      /\ Cardinality(I) <= Len(s)
      /\ I = DOMAIN s => At(s)[I] = s
  BY AtSelects, Zenon
<1>3. \A y : y \in Range(At(s)[I]) <=> \E i \in I : y = s[i]
  BY AtSelects, SMTT(60)
<1>4. Keep(s, T) = At(s)[I]
  BY <1>1 DEF Keep
<1>5. \A y : y \in Range(s) <=> \E i \in DOMAIN s : y = s[i]
  BY DEF Range
<1>6. \A y : y \in Range(Keep(s, T)) <=> y \in Range(s) /\ y \in T
  <2>1. \A i : i \in I <=> i \in DOMAIN s /\ s[i] \in T
    BY <1>1
  <2>2. \A y : y \in Range(Keep(s, T)) <=> \E i \in I : y = s[i]
    BY <1>3, <1>4
  <2> QED  BY <2>1, <2>2, <1>5
<1>7. Range(s) \subseteq T => I = DOMAIN s
  BY <1>1, <1>5
<1> QED  BY <1>2, <1>4, <1>6, <1>7

(* SortHashes returns a permutation of any slice, in increasing order: the *)
(* hashes come out as often as they went in.                               *)
LEMMA SortHashesSortsAll ==
    ASSUME NEW s \in Seq(Nat)
    PROVE  /\ SortHashes(s) \in Seq(Range(s))
           /\ Len(SortHashes(s)) = Len(s)
           /\ Range(SortHashes(s)) = Range(s)
           /\ \E p \in Bijection(DOMAIN s, DOMAIN s) :
                 \A k \in DOMAIN s : SortHashes(s)[k] = s[p[k]]
           /\ \A i, j \in 1 .. Len(s) :
                 i < j => SortHashes(s)[i] <= SortHashes(s)[j]
<1> DEFINE n == Len(s)
           D == DOMAIN s
           rank == [i \in D |-> Cardinality(Before(s, i))]
           t == SortHashes(s)
           pick == [k \in D |->
                      CHOOSE i \in DOMAIN s : Cardinality(Before(s, i)) = k - 1]
<1>1. n \in Nat /\ D = 1 .. n /\ \A i \in D : s[i] \in Nat
  OBVIOUS
<1>2. IsFiniteSet(D) /\ Cardinality(D) = n
  <2>1. IsFiniteSet(1 .. n) /\ Cardinality(1 .. n) = IF 1 > n THEN 0 ELSE n - 1 + 1
    BY <1>1, FS_Interval
  <2>2. (IF 1 > n THEN 0 ELSE n - 1 + 1) = n
    BY <1>1
  <2> QED  BY <2>1, <2>2, <1>1
<1>3. \A i \in D : /\ Before(s, i) \in SUBSET D
                   /\ i \notin Before(s, i)
                   /\ IsFiniteSet(Before(s, i))
  BY <1>1, <1>2, FS_Subset DEF Before
<1>4. \A i \in D : rank[i] \in Nat /\ rank[i] < n
  <2> TAKE i \in D
  <2>1. Before(s, i) # D /\ Before(s, i) \in SUBSET D
    BY <1>3
  <2>2. Cardinality(Before(s, i)) \in Nat /\ Cardinality(Before(s, i)) < Cardinality(D)
    BY <2>1, <1>2, ProperSubset
  <2> QED  BY <2>2, <1>2
<1>5. \A i, j \in D : i \in Before(s, j) => rank[i] < rank[j]
  <2> SUFFICES ASSUME NEW i \in D, NEW j \in D, i \in Before(s, j)
               PROVE  rank[i] < rank[j]
    OBVIOUS
  <2>1. Before(s, i) \in SUBSET Before(s, j)
    BY <1>1 DEF Before
  <2>2. Before(s, i) # Before(s, j)
    BY <1>3
  <2>3. Cardinality(Before(s, i)) < Cardinality(Before(s, j))
    BY <2>1, <2>2, <1>3, ProperSubset
  <2> QED  BY <2>3
<1>6. \A i, j \in D : i = j \/ i \in Before(s, j) \/ j \in Before(s, i)
  BY <1>1 DEF Before
<1>7. \A i, j \in D : rank[i] = rank[j] => i = j
  BY <1>4, <1>5, <1>6
<1>8. \A k \in D : \E i \in D : rank[i] = k - 1
  <2> TAKE k \in D
  <2>1. k - 1 \in Nat /\ k - 1 < n
    BY <1>1
  <2>2. rank \in [D -> Nat]
    BY <1>4
  <2> HIDE DEF rank, n, D
  <2>3. Ranks(rank, D)
    BY <2>2, <1>2, <1>4, <1>7 DEF Ranks
  <2>4. AllRanksUsed(rank, D)
    BY <2>3, <1>2, RanksAreUsed
  <2> QED  BY <2>1, <2>4, <1>2 DEF AllRanksUsed
<1>9. \A k \in D : pick[k] \in D /\ rank[pick[k]] = k - 1 /\ t[k] = s[pick[k]]
  <2> TAKE k \in D
  <2>1. \E i \in DOMAIN s : Cardinality(Before(s, i)) = k - 1
    BY <1>8
  <2>2. pick[k] \in D /\ Cardinality(Before(s, pick[k])) = k - 1
    BY <2>1
  <2>3. t[k] = s[pick[k]]
    BY <1>1 DEF SortHashes
  <2> QED  BY <2>2, <2>3
<1>10. t \in Seq(Range(s)) /\ Len(t) = n /\ DOMAIN t = D
  <2>1. \A k \in D : t[k] \in Range(s)
    <3> TAKE k \in D
    <3>1. pick[k] \in DOMAIN s /\ t[k] = s[pick[k]]
      BY <1>9
    <3> HIDE DEF t, pick
    <3> QED  BY <3>1 DEF Range
  <2>2. t \in [D -> Range(s)]
    BY <2>1, <1>1 DEF SortHashes
  <2> QED  BY <2>2, <1>1
<1>11. Range(t) = Range(s)
  <2>1. ASSUME NEW i \in D PROVE s[i] \in Range(t)
    <3> DEFINE k == rank[i] + 1
    <3>1. k \in D /\ k - 1 = rank[i]
      BY <1>1, <1>4
    <3>2. pick[k] = i
      BY <3>1, <1>7, <1>9
    <3>3. t[k] = s[i]
      <4> HIDE DEF t, k, pick
      <4> QED  BY <3>1, <3>2, <1>9
    <3> QED  BY <3>1, <3>3, <1>10 DEF Range
  <2> QED  BY <2>1, <1>1, <1>10 DEF Range
<1>12. ASSUME NEW i \in D, NEW j \in D, i < j
       PROVE  t[i] <= t[j]
  <2> HIDE DEF rank, pick, n, t
  <2>1. rank[pick[i]] < rank[pick[j]]
    BY <1>1, <1>9, <1>12
  <2>2. pick[i] \in Before(s, pick[j])
    <3>1. pick[i] \in D /\ pick[j] \in D
      BY <1>9
    <3>2. pick[i] # pick[j] /\ pick[j] \notin Before(s, pick[i])
      BY <2>1, <3>1, <1>4, <1>5
    <3> QED  BY <3>1, <3>2, <1>6
  <2> QED  BY <2>2, <1>1, <1>9 DEF Before
<1>13. pick \in Bijection(D, D)
  <2> HIDE DEF D, n, t
  <2>1. pick \in [D -> D]
    BY <1>9
  <2> HIDE DEF pick, rank
  <2>2. \A k \in D : k \in Nat
    BY <1>1
  <2>3. ASSUME NEW k \in D, NEW l \in D, pick[k] = pick[l] PROVE k = l
    BY <2>2, <2>3, <1>9
  <2>4. ASSUME NEW i \in D PROVE \E k \in D : pick[k] = i
    <3> DEFINE r == rank[i]
    <3>1. r \in Nat /\ r < n
      BY <1>4
    <3> HIDE DEF r
    <3>2. r + 1 \in D /\ (r + 1) - 1 = r
      BY <3>1, <1>1
    <3>3. pick[r + 1] \in D /\ rank[pick[r + 1]] = r
      BY <3>2, <1>9
    <3> QED  BY <3>2, <3>3, <1>7 DEF r
  <2>5. pick \in Injection(D, D) /\ pick \in Surjection(D, D)
    BY <2>1, <2>3, <2>4 DEF Injection, IsInjective, Surjection
  <2> QED  BY <2>5 DEF Bijection
<1>14. \E p \in Bijection(D, D) : \A k \in D : t[k] = s[p[k]]
  <2> HIDE DEF D, t, pick, rank
  <2> QED  BY <1>9, <1>13
<1> HIDE DEF t
<1> QED  BY <1>1, <1>10, <1>11, <1>12, <1>14 DEF t

(* R, a set of pairs, is a strict total order on S.                        *)
StrictTotalOrder(S, R) ==
    /\ \A x \in S : <<x, x>> \notin R
    /\ \A x, y, z \in S : <<x, y>> \in R /\ <<y, z>> \in R => <<x, z>> \in R
    /\ \A x, y \in S : x = y \/ <<x, y>> \in R \/ <<y, x>> \in R

HasLargest(S, R) == \E x \in S : \A y \in S : y = x \/ <<y, x>> \in R

(* A non-empty finite set with a strict total order has a largest element: *)
(* the one of the last rank.                                               *)
LEMMA LargestExists ==
    ASSUME NEW S, IsFiniteSet(S), S # {}, NEW R, StrictTotalOrder(S, R)
    PROVE  HasLargest(S, R)
<1>0. /\ \A x \in S : <<x, x>> \notin R
      /\ \A x, y, z \in S : <<x, y>> \in R /\ <<y, z>> \in R => <<x, z>> \in R
      /\ \A x, y \in S : x = y \/ <<x, y>> \in R \/ <<y, x>> \in R
  BY DEF StrictTotalOrder
<1> DEFINE B(x) == {y \in S : <<y, x>> \in R}
           n == Cardinality(S)
           rank == [x \in S |-> Cardinality(B(x))]
<1>1. n \in Nat /\ n # 0
  BY FS_CardinalityType, FS_EmptySet
<1>2. \A x \in S : /\ IsFiniteSet(B(x)) /\ Cardinality(B(x)) \in Nat
                   /\ B(x) \in SUBSET (S \ {x})
  BY <1>0, FS_Subset, FS_CardinalityType
<1> HIDE DEF B
<1>3. \A x \in S : IsFiniteSet(S \ {x}) /\ Cardinality(S \ {x}) = n - 1
  BY FS_RemoveElement
<1>4. \A x \in S : rank[x] \in Nat /\ rank[x] < n
  <2> TAKE x \in S
  <2>1. B(x) \in SUBSET S /\ B(x) # S
    BY <1>2
  <2>2. Cardinality(B(x)) \in Nat /\ Cardinality(B(x)) < n
    BY <2>1, ProperSubset
  <2> QED  BY <2>2
<1>5. \A x, y \in S : <<x, y>> \in R => rank[x] < rank[y]
  <2> SUFFICES ASSUME NEW x \in S, NEW y \in S, <<x, y>> \in R
               PROVE  Cardinality(B(x)) < Cardinality(B(y))
    OBVIOUS
  <2>1. B(x) \in SUBSET B(y) /\ x \in B(y) /\ x \notin B(x)
    BY <1>0 DEF B
  <2>2. /\ IsFiniteSet(B(y)) /\ Cardinality(B(y)) \in Nat
        /\ Cardinality(B(x)) \in Nat
    BY <1>2
  <2>3. B(x) # B(y)
    BY <2>1
  <2> HIDE DEF B
  <2> QED  BY <2>1, <2>2, <2>3, ProperSubset
<1> HIDE DEF rank
<1>6. \A x, y \in S : rank[x] = rank[y] => x = y
  <2> SUFFICES ASSUME NEW x \in S, NEW y \in S, x # y
               PROVE  rank[x] # rank[y]
    OBVIOUS
  <2>1. rank[x] < rank[y] \/ rank[y] < rank[x]
    BY <1>0, <1>5
  <2> HIDE DEF n
  <2> QED  BY <2>1, <1>4
<1>7. PICK x \in S : rank[x] = n - 1
  <2>1. n - 1 \in Nat /\ n - 1 < n
    BY <1>1
  <2>2. rank \in [S -> Nat]
    BY <1>4 DEF rank
  <2>3. Ranks(rank, S)
    BY <2>2, <1>4, <1>6 DEF Ranks
  <2>4. AllRanksUsed(rank, S)
    BY <2>3, RanksAreUsed
  <2> QED  BY <2>1, <2>4 DEF AllRanksUsed
<1>8. B(x) = S \ {x}
  BY <1>2, <1>3, <1>7, FS_Subset DEF rank
<1> QED  BY <1>8 DEF B, HasLargest

(***************************************************************************)
(* Slices.                                                                 *)
(***************************************************************************)
(* Taking the head off a slice and appending another one.                  *)
LEMMA TailConcat ==
    ASSUME NEW S, NEW s \in Seq(S), s # << >>, NEW u \in Seq(S)
    PROVE  /\ Head(s) \in S /\ Tail(s) \o u \in Seq(S)
           /\ Range(s) = {Head(s)} \cup Range(Tail(s))
           /\ Range(Tail(s) \o u) = Range(Tail(s)) \cup Range(u)
           /\ IsInjective(s) => Head(s) \notin Range(Tail(s))
           /\ IsInjective(s) /\ IsInjective(u) /\ Range(s) \cap Range(u) = {}
                => IsInjective(Tail(s) \o u)
<1> DEFINE t == Tail(s)
           n == Len(t)
           w == t \o u
<1>1. /\ t \in Seq(S) /\ n \in Nat /\ Len(s) = n + 1 /\ Len(u) \in Nat
      /\ Head(s) = s[1] /\ s[1] \in S
      /\ \A i \in 1 .. n : t[i] = s[i + 1]
      /\ DOMAIN s = 1 .. n + 1 /\ DOMAIN t = 1 .. n /\ DOMAIN u = 1 .. Len(u)
  OBVIOUS
<1>2. /\ w \in Seq(S) /\ DOMAIN w = 1 .. n + Len(u)
      /\ \A i \in 1 .. n : w[i] = t[i]
      /\ \A i \in 1 .. Len(u) : w[n + i] = u[i]
  OBVIOUS
<1> HIDE DEF t, w, n
<1>3. Range(s) = {s[1]} \cup Range(t)
  <2>1. ASSUME NEW i \in 1 .. n + 1 PROVE s[i] \in {s[1]} \cup Range(t)
    <3>1. CASE i = 1
      BY <3>1
    <3>2. CASE i # 1
      <4>1. i - 1 \in 1 .. n /\ i = (i - 1) + 1
        BY <3>2, <1>1
      <4> QED  BY <4>1, <1>1 DEF Range
    <3> QED  BY <3>1, <3>2
  <2>2. ASSUME NEW i \in 1 .. n PROVE t[i] \in Range(s)
    <3>1. i + 1 \in 1 .. n + 1
      BY <1>1
    <3> QED  BY <3>1, <1>1 DEF Range
  <2>3. s[1] \in Range(s)
    BY <1>1 DEF Range
  <2> QED  BY <2>1, <2>2, <2>3, <1>1 DEF Range
<1>4. \A i \in 1 .. n + Len(u) :
         i \in 1 .. n \/ \E j \in 1 .. Len(u) : i = n + j
  <2> TAKE i \in 1 .. n + Len(u)
  <2>1. i \in 1 .. n \/ (i - n \in 1 .. Len(u) /\ i = n + (i - n))
    BY <1>1
  <2> QED  BY <2>1
<1>5. Range(w) = Range(t) \cup Range(u)
  <2>1. ASSUME NEW i \in 1 .. n + Len(u) PROVE w[i] \in Range(t) \cup Range(u)
    <3>1. CASE i \in 1 .. n
      BY <3>1, <1>1, <1>2 DEF Range
    <3>2. ASSUME NEW j \in 1 .. Len(u), i = n + j
          PROVE  w[i] \in Range(u)
      BY <3>2, <1>1, <1>2 DEF Range
    <3> QED  BY <3>1, <3>2, <1>4
  <2>2. ASSUME NEW i \in 1 .. n PROVE t[i] \in Range(w)
    <3>1. i \in 1 .. n + Len(u)
      BY <1>1
    <3> QED  BY <3>1, <1>2 DEF Range
  <2>3. ASSUME NEW i \in 1 .. Len(u) PROVE u[i] \in Range(w)
    <3>1. n + i \in 1 .. n + Len(u)
      BY <1>1
    <3> QED  BY <3>1, <1>2 DEF Range
  <2>4. Range(w) = {w[i] : i \in 1 .. n + Len(u)}
        /\ Range(t) = {t[i] : i \in 1 .. n}
        /\ Range(u) = {u[i] : i \in 1 .. Len(u)}
    BY <1>1, <1>2 DEF Range
  <2> QED  BY <2>1, <2>2, <2>3, <2>4
<1>6. ASSUME IsInjective(s)
      PROVE  s[1] \notin Range(t) /\ IsInjective(t)
  <2>1. \A i, j \in 1 .. n + 1 : s[i] = s[j] => i = j
    BY <1>1, <1>6 DEF IsInjective
  <2>2. ASSUME NEW i \in 1 .. n PROVE s[1] # t[i]
    <3>1. i + 1 \in 1 .. n + 1 /\ 1 \in 1 .. n + 1 /\ i + 1 # 1
      BY <1>1
    <3> QED  BY <3>1, <2>1, <1>1
  <2>3. ASSUME NEW i \in 1 .. n, NEW j \in 1 .. n, t[i] = t[j] PROVE i = j
    <3>1. i + 1 \in 1 .. n + 1 /\ j + 1 \in 1 .. n + 1
      BY <1>1
    <3>2. i + 1 = j + 1
      BY <3>1, <2>1, <2>3, <1>1
    <3> QED  BY <3>2
  <2> QED  BY <2>2, <2>3, <1>1 DEF Range, IsInjective
<1>7. ASSUME IsInjective(s), IsInjective(u), Range(s) \cap Range(u) = {}
      PROVE  IsInjective(w)
  <2> SUFFICES ASSUME NEW i \in 1 .. n + Len(u), NEW j \in 1 .. n + Len(u),
                      w[i] = w[j]
               PROVE  i = j
    BY <1>2 DEF IsInjective
  <2>1. \A k \in 1 .. n : t[k] \in Range(s)
    BY <1>1, <1>3 DEF Range
  <2>2. \A k \in 1 .. Len(u) : u[k] \in Range(u)
    BY <1>1 DEF Range
  <2>3. CASE i \in 1 .. n /\ j \in 1 .. n
    BY <2>3, <1>1, <1>2, <1>6, <1>7 DEF IsInjective
  <2>4. ASSUME NEW k \in 1 .. Len(u), NEW l \in 1 .. Len(u), i = n + k, j = n + l
        PROVE  i = j
    <3>1. u[k] = u[l]
      BY <2>4, <1>2
    <3> QED  BY <3>1, <2>4, <1>1, <1>7 DEF IsInjective
  <2>5. ~(\E k \in 1 .. Len(u) : i \in 1 .. n /\ j = n + k)
    BY <2>1, <2>2, <1>2, <1>7
  <2>6. ~(\E k \in 1 .. Len(u) : j \in 1 .. n /\ i = n + k)
    BY <2>1, <2>2, <1>2, <1>7
  <2> QED  BY <2>3, <2>4, <2>5, <2>6, <1>4
<1> QED  BY <1>1, <1>2, <1>3, <1>5, <1>6, <1>7 DEF t, w

(* Appending a new element to a slice without repetitions.                 *)
LEMMA AppendNew ==
    ASSUME NEW S, NEW s \in Seq(S), NEW x \in S
    PROVE  /\ Append(s, x) \in Seq(S)
           /\ Range(Append(s, x)) = Range(s) \cup {x}
           /\ IsInjective(s) /\ x \notin Range(s) => IsInjective(Append(s, x))
<1> DEFINE n == Len(s)
           w == Append(s, x)
<1>1. /\ n \in Nat /\ DOMAIN s = 1 .. n /\ w \in Seq(S) /\ DOMAIN w = 1 .. n + 1
      /\ w[n + 1] = x /\ \A i \in 1 .. n : w[i] = s[i]
  OBVIOUS
<1> HIDE DEF w, n
<1>2. \A i \in 1 .. n + 1 : i \in 1 .. n \/ i = n + 1
  BY <1>1
<1>3. \A i \in 1 .. n : i \in 1 .. n + 1
  BY <1>1
<1>4. n + 1 \in 1 .. n + 1
  BY <1>1
<1>5. Range(w) = Range(s) \cup {x}
  BY <1>1, <1>2, <1>3, <1>4 DEF Range
<1>6. IsInjective(s) /\ x \notin Range(s) => IsInjective(w)
  BY <1>1, <1>2 DEF IsInjective, Range
<1> QED  BY <1>1, <1>5, <1>6 DEF w

(* On a slice without repetitions, SortHashes and the sorted enumeration   *)
(* of its elements are the same: lazy sorting ends in the canonical index. *)
LEMMA SortHashesIsCanonical ==
    ASSUME NEW s \in Seq(Nat), IsInjective(s)
    PROVE  SortHashes(s) = SortVertices(Range(s))
<1> DEFINE n == Len(s)
           D == DOMAIN s
           R == Range(s)
           Below(h) == {g \in R : g < h}
<1>1. n \in Nat /\ D = 1 .. n /\ R \in SUBSET Nat /\ \A i \in D : s[i] \in R
  BY DEF Range
<1>2. IsFiniteSet(D) /\ Cardinality(D) = n
  <2>1. IsFiniteSet(1 .. n) /\ Cardinality(1 .. n) = IF 1 > n THEN 0 ELSE n - 1 + 1
    BY <1>1, FS_Interval
  <2>2. (IF 1 > n THEN 0 ELSE n - 1 + 1) = n
    BY <1>1
  <2> QED  BY <2>1, <2>2, <1>1
<1>3. ASSUME NEW A \in SUBSET D, IsFiniteSet(A)
      PROVE  /\ IsFiniteSet({s[j] : j \in A})
             /\ Cardinality({s[j] : j \in A}) = Cardinality(A)
  <2> DEFINE B == {s[j] : j \in A}
             f == [j \in A |-> s[j]]
  <2>1. f \in [A -> B] /\ f \in Injection(A, B)
    BY <1>1 DEF Injection, IsInjective
  <2>2. f \in Surjection(A, B)
    BY <2>1 DEF Surjection
  <2> QED  BY <2>1, <2>2, <1>3, FS_Surjection DEF Injection, IsInjective
<1>4. R = {s[j] : j \in D}
  BY DEF Range
<1>5. IsFiniteSet(R) /\ Cardinality(R) = n
  BY <1>2, <1>3, <1>4
<1>6. \A i \in D : Cardinality(Before(s, i)) = Cardinality(Below(s[i]))
  <2> TAKE i \in D
  <2>1. Before(s, i) \in SUBSET D /\ IsFiniteSet(Before(s, i))
    BY <1>2, FS_Subset DEF Before
  <2>2. \A j \in D : j \in Before(s, i) <=> s[j] < s[i]
    <3> TAKE j \in D
    <3>1. s[j] = s[i] => ~(j < i)
      BY <1>1 DEF IsInjective
    <3> QED  BY <3>1 DEF Before
  <2>3. Below(s[i]) = {s[j] : j \in Before(s, i)}
    BY <2>1, <2>2, <1>4
  <2> QED  BY <2>1, <2>3, <1>3
<1>7. ASSUME NEW k \in 1 .. n
      PROVE  SortHashes(s)[k] = SortVertices(R)[k]
  <2> DEFINE i == CHOOSE i \in DOMAIN s : Cardinality(Before(s, i)) = k - 1
             h == CHOOSE h \in R : Cardinality({g \in R : g < h}) = k - 1
  <2>1. SortHashes(s)[k] = s[i]
    BY DEF SortHashes
  <2>2. SortVertices(R)[k] = h
    BY <1>5 DEF SortVertices, Ascending
  <2>3. \E j \in D : Cardinality(Before(s, j)) = k - 1
    <3> DEFINE rank == [j \in D |-> Cardinality(Before(s, j))]
    <3>1. \A j \in D : rank[j] \in Nat /\ rank[j] < n
      <4> TAKE j \in D
      <4>1. Cardinality(Below(s[j])) \in Nat /\ Cardinality(Below(s[j])) < n
        BY <1>1, <1>5, BelowGrows
      <4> QED  BY <4>1, <1>6
    <3>2. \A a, b \in D : rank[a] = rank[b] => a = b
      <4> SUFFICES ASSUME NEW a \in D, NEW b \in D, a # b
                   PROVE  rank[a] # rank[b]
        OBVIOUS
      <4>1. s[a] < s[b] \/ s[b] < s[a]
        BY <1>1 DEF IsInjective
      <4>2. /\ s[a] < s[b] => Cardinality(Below(s[a])) < Cardinality(Below(s[b]))
            /\ s[b] < s[a] => Cardinality(Below(s[b])) < Cardinality(Below(s[a]))
        BY <1>1, <1>5, BelowGrows
      <4>3. Cardinality(Below(s[a])) \in Nat /\ Cardinality(Below(s[b])) \in Nat
        BY <1>1, <1>5, BelowGrows
      <4>4. rank[a] < rank[b] \/ rank[b] < rank[a]
        BY <4>1, <4>2, <1>6
      <4> QED  BY <4>3, <4>4, <3>1
    <3>3. rank \in [D -> Nat] /\ k - 1 \in Nat /\ k - 1 < n
      BY <3>1, <1>1
    <3> HIDE DEF rank, n, D
    <3>4. Ranks(rank, D)
      BY <3>1, <3>2, <3>3, <1>2 DEF Ranks
    <3>5. AllRanksUsed(rank, D)
      BY <3>4, <1>2, RanksAreUsed
    <3>6. \E j \in D : rank[j] = k - 1
      BY <3>3, <3>5, <1>2 DEF AllRanksUsed
    <3> QED  BY <3>6 DEF rank
  <2>4. i \in D /\ Cardinality(Before(s, i)) = k - 1
    BY <2>3
  <2>5. s[i] \in R /\ Cardinality(Below(s[i])) = k - 1
    BY <2>4, <1>1, <1>6
  <2>6. h \in R /\ Cardinality(Below(h)) = k - 1
    BY <2>5
  <2>7. \A a, b \in R : Cardinality(Below(a)) = Cardinality(Below(b)) => a = b
    <3> SUFFICES ASSUME NEW a \in R, NEW b \in R, a # b
                 PROVE  Cardinality(Below(a)) # Cardinality(Below(b))
      OBVIOUS
    <3>1. a < b \/ b < a
      BY <1>1
    <3>2. /\ a < b => Cardinality(Below(a)) < Cardinality(Below(b))
          /\ b < a => Cardinality(Below(b)) < Cardinality(Below(a))
          /\ Cardinality(Below(a)) \in Nat /\ Cardinality(Below(b)) \in Nat
      BY <1>1, <1>5, BelowGrows
    <3> QED  BY <3>1, <3>2
  <2>8. s[i] = h
    BY <2>5, <2>6, <2>7
  <2> QED  BY <2>1, <2>2, <2>8
<1> QED  BY <1>5, <1>7 DEF SortHashes, SortVertices, Ascending

(***************************************************************************)
(* Parent lists.                                                           *)
(***************************************************************************)
(* Parents are hashes, finitely many, and of a smaller generation.         *)
LEMMA ParentSetType ==
    ASSUME NEW h \in Hash
    PROVE  /\ ParentSet(h) \subseteq Hash
           /\ IsFiniteSet(ParentSet(h))
           /\ \A p \in ParentSet(h) : Generation[p] < Generation[h]
<1>1. Parents[h] \in Seq(Hash)
  BY VertexAssumption
<1>2. ParentSet(h) \subseteq Hash
  BY <1>1 DEF ParentSet, Range
<1>3. \A p \in ParentSet(h) : Generation[p] < Generation[h]
  BY VertexAssumption DEF ParentSet, Range
<1> QED  BY <1>2, <1>3, VertexAssumption, FS_Subset

Increasing(s) == \A i, j \in DOMAIN s : i < j => s[i] < s[j]

(* CheckMalformed compares neighbours only; that is enough: the first      *)
(* element that is not above an earlier one is not above its neighbour.    *)
LEMMA WellFormedIncreasing ==
    ASSUME NEW s \in Seq(Nat)
    PROVE  ~CheckMalformed(s) <=> Increasing(s)
<1> DEFINE n == Len(s)
<1>1. n \in Nat /\ DOMAIN s = 1 .. n /\ \A i \in 1 .. n : s[i] \in Nat
  OBVIOUS
<1>2. ~CheckMalformed(s) <=> \A i \in 1 .. n - 1 : s[i] < s[i + 1]
  <2>1. \A i \in 1 .. n - 1 : i \in 1 .. n /\ i + 1 \in 1 .. n
    BY <1>1
  <2>2. \A i \in 1 .. n - 1 : s[i] \in Nat /\ s[i + 1] \in Nat
    BY <2>1, <1>1
  <2>3. \A i \in 1 .. n - 1 :
           s[i] < s[i + 1] <=> ~(s[i] = s[i + 1] \/ s[i] > s[i + 1])
    BY <2>2
  <2> QED  BY <2>3 DEF CheckMalformed
<1>3. ASSUME \A i \in 1 .. n - 1 : s[i] < s[i + 1],
             NEW i \in 1 .. n, NEW j \in 1 .. n, i < j
      PROVE  s[i] < s[j]
  <2> DEFINE B == {k \in 1 .. n : i < k /\ ~(s[i] < s[k])}
  <2> SUFFICES ASSUME B # {} PROVE FALSE
    BY <1>3
  <2>1. B \in SUBSET Nat /\ IsFiniteSet(B)
    <3>1. B \in SUBSET (1 .. n) /\ IsFiniteSet(1 .. n)
      BY <1>1, IntervalSize
    <3> QED  BY <3>1, FS_Subset
  <2>2. PICK k \in B : \A l \in B : k <= l
    BY <2>1, LeastExists
  <2>3. /\ k \in 1 .. n /\ i < k /\ ~(s[i] < s[k])
    OBVIOUS
  <2>4. k - 1 \in 1 .. n /\ k - 1 \in 1 .. n - 1 /\ (k - 1) + 1 = k
    BY <1>1, <2>3
  <2>5. s[k - 1] < s[k]
    BY <1>3, <2>4
  <2>6. k - 1 = i \/ (i < k - 1 /\ s[i] < s[k - 1])
    <3>1. k - 1 \notin B
      BY <2>2, <2>4
    <3> QED  BY <3>1, <2>3, <2>4
  <2>7. s[i] \in Nat /\ s[k - 1] \in Nat /\ s[k] \in Nat
    BY <1>1, <2>3, <2>4
  <2> QED  BY <2>3, <2>5, <2>6, <2>7
<1>4. ASSUME Increasing(s), NEW i \in 1 .. n - 1
      PROVE  s[i] < s[i + 1]
  <2>1. i \in DOMAIN s /\ i + 1 \in DOMAIN s /\ i < i + 1
    BY <1>1
  <2> QED  BY <1>4, <2>1 DEF Increasing
<1> QED  BY <1>1, <1>2, <1>3, <1>4 DEF Increasing

LEMMA IncreasingInjective ==
    ASSUME NEW s \in Seq(Nat), Increasing(s)
    PROVE  IsInjective(s)
<1> SUFFICES ASSUME NEW i \in DOMAIN s, NEW j \in DOMAIN s, s[i] = s[j], i # j
             PROVE  FALSE
  BY DEF IsInjective
<1>1. s[i] \in Nat /\ s[j] \in Nat /\ (i < j \/ j < i)
  OBVIOUS
<1> QED  BY <1>1 DEF Increasing

(* An increasing slice is sorted to itself.                                *)
LEMMA SortHashesFixes ==
    ASSUME NEW s \in Seq(Nat), Increasing(s)
    PROVE  SortHashes(s) = s
<1> DEFINE n == Len(s)
<1>1. n \in Nat /\ DOMAIN s = 1 .. n /\ \A i \in 1 .. n : s[i] \in Nat
  OBVIOUS
<1>2. \A i \in 1 .. n : Before(s, i) = {j \in 1 .. n : j < i}
  <2> SUFFICES ASSUME NEW i \in 1 .. n, NEW j \in 1 .. n
               PROVE  (s[j] < s[i] \/ (s[j] = s[i] /\ j < i)) <=> j < i
    BY <1>1 DEF Before
  <2>1. s[i] \in Nat /\ s[j] \in Nat /\ i \in Nat /\ j \in Nat
    BY <1>1
  <2>2. (i < j => s[i] < s[j]) /\ (j < i => s[j] < s[i])
    BY <1>1 DEF Increasing
  <2>3. i = j => s[i] = s[j]
    OBVIOUS
  <2> QED  BY <2>1, <2>2, <2>3
<1>3. \A i \in 1 .. n : Cardinality(Before(s, i)) = i - 1
  BY <1>1, <1>2, BelowInInterval
<1>4. ASSUME NEW k \in 1 .. n
      PROVE  SortHashes(s)[k] = s[k]
  <2> DEFINE i == CHOOSE i \in DOMAIN s : Cardinality(Before(s, i)) = k - 1
  <2>1. SortHashes(s)[k] = s[i]
    BY DEF SortHashes
  <2>2. i \in DOMAIN s /\ Cardinality(Before(s, i)) = k - 1
    BY <1>1, <1>3
  <2> HIDE DEF i
  <2>3. i - 1 = k - 1 /\ i \in Nat /\ k \in Nat
    BY <2>2, <1>1, <1>3
  <2>4. i = k
    BY <2>3
  <2> QED  BY <2>1, <2>4
<1>5. SortHashes(s) \in Seq(Range(s)) /\ Len(SortHashes(s)) = n
  BY SortHashesSortsAll
<1> QED  BY <1>1, <1>4, <1>5

(* Unique keeps the first occurrence of everything: nothing is lost, and   *)
(* the slice gets shorter iff something occurs twice.                      *)
LEMMA UniqueSelects ==
    ASSUME NEW S, NEW s \in Seq(S)
    PROVE  /\ Unique(s) \in Seq(S) /\ Len(Unique(s)) <= Len(s)
           /\ Range(Unique(s)) = Range(s) /\ IsInjective(Unique(s))
           /\ Len(Unique(s)) = Len(s) <=> IsInjective(s)
           /\ IsInjective(s) => Unique(s) = s
<1> DEFINE n == Len(s)
<1>1. n \in Nat /\ DOMAIN s = 1 .. n
  OBVIOUS
<1>2. PICK I \in SUBSET DOMAIN s :
         I = {i \in DOMAIN s : \A j \in 1 .. i - 1 : s[j] # s[i]}
  OBVIOUS
<1>3. \A i : i \in I <=> i \in 1 .. n /\ \A j \in 1 .. i - 1 : s[j] # s[i]
  BY <1>1, <1>2
<1>4. Unique(s) = At(s)[I]
  BY <1>2 DEF Unique
<1>5. \A i, j \in I : s[i] = s[j] => i = j
  <2> SUFFICES ASSUME NEW i \in I, NEW j \in I, s[i] = s[j], i < j
               PROVE  FALSE
    BY <1>1
  <2>1. i \in 1 .. j - 1
    BY <1>1
  <2> QED  BY <2>1, <1>3
<1>6. /\ At(s)[I] \in Seq(S) /\ Len(At(s)[I]) = Cardinality(I)
      /\ Cardinality(I) <= n
      /\ I = DOMAIN s => At(s)[I] = s
  BY AtSelects, Zenon
<1>7. IsInjective(At(s)[I])
  BY <1>5, AtSelects
<1>8. \A y : y \in Range(At(s)[I]) <=> \E i \in I : y = s[i]
  BY AtSelects, SMTT(60)
<1>9. ASSUME NEW k \in 1 .. n PROVE \E i \in I : s[k] = s[i]
  <2> DEFINE B == {i \in 1 .. n : s[i] = s[k]}
  <2>1. B \in SUBSET (1 .. n) /\ B \in SUBSET Nat /\ k \in B
    OBVIOUS
  <2>2. IsFiniteSet(B)
    BY <1>1, <2>1, IntervalSize, FS_Subset
  <2>3. PICK i \in B : \A l \in B : i <= l
    BY <2>1, <2>2, LeastExists
  <2>4. ASSUME NEW j \in 1 .. i - 1 PROVE s[j] # s[i]
    <3>1. i \in 1 .. n /\ s[i] = s[k] /\ j \in 1 .. n /\ j < i
      BY <1>1
    <3>2. j \notin B
      BY <3>1, <2>3
    <3> QED  BY <3>1, <3>2
  <2>5. i \in 1 .. n /\ s[k] = s[i]
    OBVIOUS
  <2> QED  BY <2>4, <2>5, <1>3
<1>10. Range(Unique(s)) = Range(s)
  <2>1. \A y : y \in Range(s) <=> \E k \in 1 .. n : y = s[k]
    BY <1>1 DEF Range
  <2>2. \A i \in I : i \in 1 .. n
    BY <1>3
  <2>3. \A y : y \in Range(Unique(s)) <=> y \in Range(s)
    BY <1>4, <1>8, <1>9, <2>1, <2>2
  <2> QED  BY <2>3
<1>11. IsInjective(s) => I = DOMAIN s
  <2> SUFFICES ASSUME IsInjective(s), NEW i \in 1 .. n, NEW j \in 1 .. i - 1
               PROVE  s[j] # s[i]
    BY <1>1, <1>3
  <2>1. j \in DOMAIN s /\ i \in DOMAIN s /\ j # i
    BY <1>1
  <2> QED  BY <2>1 DEF IsInjective
<1>12. Cardinality(I) = n => IsInjective(s)
  <2> SUFFICES ASSUME Cardinality(I) = n PROVE I = DOMAIN s
    BY <1>5 DEF IsInjective
  <2>1. IsFiniteSet(DOMAIN s) /\ Cardinality(DOMAIN s) = n
    BY <1>1, IntervalSize
  <2> QED  BY <2>1, FS_Subset
<1>13. I = DOMAIN s => Cardinality(I) = n
  BY <1>1, IntervalSize
<1> QED  BY <1>4, <1>6, <1>7, <1>10, <1>11, <1>12, <1>13

LEMMA DuplicateNotInjective ==
    ASSUME NEW s \in Seq(Nat)
    PROVE  HasDuplicate(s) <=> ~IsInjective(s)
BY DEF HasDuplicate, IsInjective

(* A slice with a repetition has fewer different elements than positions.  *)
LEMMA DuplicateShrinksRange ==
    ASSUME NEW s \in Seq(Nat)
    PROVE  HasDuplicate(s) <=> Cardinality(Range(s)) < Len(s)
<1> DEFINE R == Range(s)
           D == DOMAIN s
<1>1. Len(s) \in Nat /\ IsFiniteSet(D) /\ Cardinality(D) = Len(s)
  BY IntervalSize
<1>2. s \in Surjection(D, R)
  BY DEF Surjection, Range
<1>3. /\ IsFiniteSet(R) /\ Cardinality(R) <= Cardinality(D)
      /\ Cardinality(R) = Cardinality(D) <=> s \in Injection(D, R)
  <2> HIDE DEF R, D
  <2> QED  BY <1>1, <1>2, FS_Surjection
<1>4. Cardinality(R) \in Nat
  BY <1>3, FS_CardinalityType
<1>5. s \in Injection(D, R) <=> IsInjective(s)
  BY DEF Injection, Range
<1> HIDE DEF R, D
<1>6. IsInjective(s) <=> Cardinality(R) = Len(s)
  BY <1>1, <1>3, <1>5
<1>7. Cardinality(R) <= Len(s)
  BY <1>1, <1>3
<1>8. HasDuplicate(s) <=> Cardinality(R) < Len(s)
  BY <1>1, <1>4, <1>6, <1>7, DuplicateNotInjective
<1> QED  BY <1>8 DEF R

(* A well-formed parent list has no duplicate.                             *)
LEMMA WellFormedNoDuplicate ==
    ASSUME NEW s \in Seq(Nat), ~CheckMalformed(s)
    PROVE  ~HasDuplicate(s)
BY WellFormedIncreasing, IncreasingInjective, DuplicateNotInjective

(* The canonical form of a list: increasing, with the same hashes, shorter *)
(* iff there was a duplicate, and the list itself iff that is well formed. *)
THEOREM CanonicalForm ==
    ASSUME NEW s \in Seq(Nat)
    PROVE  /\ DeduplicateAndSort(s) \in Seq(Nat)
           /\ Len(DeduplicateAndSort(s)) <= Len(s)
           /\ Increasing(DeduplicateAndSort(s))
           /\ Range(DeduplicateAndSort(s)) = Range(s)
           /\ Len(DeduplicateAndSort(s)) # Len(s) <=> HasDuplicate(s)
           /\ CheckMalformed(s) <=> DeduplicateAndSort(s) # s
<1> DEFINE t == DeduplicateAndSort(s)
           u == Unique(s)
<1>1. Len(s) \in Nat /\ DOMAIN s = 1 .. Len(s)
  OBVIOUS
<1>2. CASE Len(s) <= 1
  <2>1. t = s
    BY <1>2 DEF DeduplicateAndSort
  <2>2. Increasing(s)
    BY <1>1, <1>2 DEF Increasing
  <2>3. ~CheckMalformed(s) /\ ~HasDuplicate(s)
    BY <2>2, WellFormedIncreasing, WellFormedNoDuplicate
  <2> HIDE DEF t
  <2>4. /\ t \in Seq(Nat) /\ Len(t) <= Len(s) /\ Increasing(t)
        /\ Range(t) = Range(s) /\ (Len(t) # Len(s) <=> HasDuplicate(s))
        /\ (CheckMalformed(s) <=> t # s)
    BY <1>1, <2>1, <2>2, <2>3
  <2> QED  BY <2>4 DEF t
<1>3. CASE ~(Len(s) <= 1)
  <2>1. t = SortHashes(u)
    BY <1>3 DEF DeduplicateAndSort
  <2>2. /\ u \in Seq(Nat) /\ Len(u) <= Len(s) /\ Range(u) = Range(s)
        /\ IsInjective(u) /\ (Len(u) = Len(s) <=> IsInjective(s))
        /\ IsInjective(s) => u = s
    BY UniqueSelects
  <2> HIDE DEF t, u
  <2>3. /\ t \in Seq(Range(u)) /\ Len(t) = Len(u) /\ Range(t) = Range(u)
    BY <2>1, <2>2, SortHashesSortsAll
  <2>4. t = SortVertices(Range(u)) /\ Range(u) \in SUBSET Nat
    BY <2>1, <2>2, SortHashesIsCanonical DEF Range
  <2>5. IsFiniteSet(Range(u))
    <3>1. IsFiniteSet(DOMAIN u)
      BY <2>2, IntervalSize
    <3>2. u \in Surjection(DOMAIN u, Range(u))
      BY <2>2 DEF Surjection, Range
    <3> QED  BY <3>1, <3>2, FS_Surjection
  <2>6. t \in Seq(Nat)
    BY <2>3, <2>4
  <2>7. Increasing(t)
    <3>1. /\ Len(t) = Cardinality(Range(u))
          /\ \A i, j \in 1 .. Cardinality(Range(u)) : i < j => t[i] < t[j]
      BY <2>4, <2>5, SortVerticesSorts
    <3> QED  BY <3>1, <2>6 DEF Increasing
  <2>8. Increasing(s) => t = s
    BY <2>1, <2>2, IncreasingInjective, SortHashesFixes
  <2>9. CheckMalformed(s) <=> t # s
    BY <2>7, <2>8, WellFormedIncreasing
  <2>10. Len(t) # Len(s) <=> HasDuplicate(s)
    BY <2>2, <2>3, DuplicateNotInjective
  <2>11. /\ t \in Seq(Nat) /\ Len(t) <= Len(s) /\ Increasing(t)
         /\ Range(t) = Range(s) /\ (Len(t) # Len(s) <=> HasDuplicate(s))
         /\ (CheckMalformed(s) <=> t # s)
    BY <2>2, <2>3, <2>6, <2>7, <2>9, <2>10
  <2> QED  BY <2>11 DEF t
<1> QED  BY <1>2, <1>3
=============================================================================
