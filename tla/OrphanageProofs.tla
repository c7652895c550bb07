-------------------------- MODULE OrphanageProofs ---------------------------
(***************************************************************************)
(* What the operations of the Orphanage preserve, for every set of         *)
(* vertices, every capacity and every set `present' of arrived vertices.   *)
(***************************************************************************)
EXTENDS Orphanage, VertexProofs

(* findVictim returns an entry of the comparison, and one that is no       *)
(* better than any other.                                                  *)
LEMMA FindVictimType ==
    ASSUME OrphanageTypeOK, NEW vtx \in Hash, NEW n \in Nat
    PROVE  /\ FindVictim(vtx, n) \in Buffered \cup {vtx}
           /\ FindVictim(vtx, n) # vtx => n <= lostParentCount[FindVictim(vtx, n)]
<1> DEFINE S == Buffered \cup {vtx}
           M(h) == IF h = vtx THEN n ELSE lostParentCount[h]
           R == {e \in S \X S :
                   M(e[1]) < M(e[2]) \/ (M(e[1]) = M(e[2]) /\ e[1] < e[2])}
<1>1. S \subseteq Hash /\ S \subseteq Nat /\ IsFiniteSet(S) /\ S # {}
  <2>1. S \subseteq Hash /\ S # {}
    BY DEF OrphanageTypeOK
  <2>2. S \subseteq Nat
    BY <2>1, VertexAssumption
  <2>3. IsFiniteSet(S)
    <3> HIDE DEF S
    <3> QED  BY <2>1, VertexAssumption, FS_Subset
  <2> QED  BY <2>1, <2>2, <2>3
<1>2. \A h \in S : M(h) \in Nat
  BY DEF OrphanageTypeOK
<1>3. \A g, h \in S : <<g, h>> \in R <=>
                        M(g) < M(h) \/ (M(g) = M(h) /\ g < h)
  OBVIOUS
<1> HIDE DEF M, R, S
<1>4. \E h \in S : \A g \in S : g = h \/ <<g, h>> \in R
  <2>1. \A x \in S : <<x, x>> \notin R
    BY <1>1, <1>2, <1>3
  <2>2. \A x, y, z \in S : <<x, y>> \in R /\ <<y, z>> \in R => <<x, z>> \in R
    <3> SUFFICES ASSUME NEW x \in S, NEW y \in S, NEW z \in S,
                        <<x, y>> \in R, <<y, z>> \in R
                 PROVE  <<x, z>> \in R
      OBVIOUS
    <3>1. /\ x \in Nat /\ y \in Nat /\ z \in Nat
          /\ M(x) \in Nat /\ M(y) \in Nat /\ M(z) \in Nat
      BY <1>1, <1>2
    <3>2. /\ M(x) < M(y) \/ (M(x) = M(y) /\ x < y)
          /\ M(y) < M(z) \/ (M(y) = M(z) /\ y < z)
      BY <1>3
    <3>3. M(x) < M(z) \/ (M(x) = M(z) /\ x < z)
      BY <3>1, <3>2
    <3> QED  BY <3>3, <1>3
  <2>3. \A x, y \in S : x = y \/ <<x, y>> \in R \/ <<y, x>> \in R
    <3> SUFFICES ASSUME NEW x \in S, NEW y \in S, x # y
                 PROVE  <<x, y>> \in R \/ <<y, x>> \in R
      OBVIOUS
    <3>1. x \in Nat /\ y \in Nat /\ M(x) \in Nat /\ M(y) \in Nat
      BY <1>1, <1>2
    <3>2. M(x) < M(y) \/ M(y) < M(x) \/ (M(x) = M(y) /\ (x < y \/ y < x))
      BY <3>1
    <3> QED  BY <3>2, <1>3
  <2>4. StrictTotalOrder(S, R)
    BY <2>1, <2>2, <2>3 DEF StrictTotalOrder
  <2>5. HasLargest(S, R)
    BY <2>4, <1>1, LargestExists
  <2> QED  BY <2>5 DEF HasLargest
<1>5. \E h \in S : \A g \in S :
          M(g) < M(h) \/ (M(g) = M(h) /\ g <= h)
  <2>1. PICK h \in S : \A g \in S : g = h \/ <<g, h>> \in R
    BY <1>4
  <2>2. ASSUME NEW g \in S
        PROVE  M(g) < M(h) \/ (M(g) = M(h) /\ g <= h)
    <3>1. g \in Nat /\ h \in Nat
      BY <1>1
    <3>2. CASE g = h
      BY <3>1, <3>2
    <3>3. CASE <<g, h>> \in R
      <4>1. M(g) < M(h) \/ (M(g) = M(h) /\ g < h)
        BY <3>3, <1>3
      <4> QED  BY <4>1, <3>1
    <3> QED  BY <3>2, <3>3, <2>1
  <2> QED  BY <2>2
<1>6. FindVictim(vtx, n) = CHOOSE h \in S : \A g \in S :
          M(g) < M(h) \/ (M(g) = M(h) /\ g <= h)
  BY DEF FindVictim, M, S
<1> DEFINE v == FindVictim(vtx, n)
<1>7. v \in S /\ \A g \in S : M(g) < M(v) \/ (M(g) = M(v) /\ g <= v)
  BY <1>5, <1>6
<1> HIDE DEF v
<1>8. M(vtx) <= M(v)
  <2>1. vtx \in S
    BY DEF S
  <2>2. M(vtx) < M(v) \/ M(vtx) = M(v)
    BY <2>1, <1>7
  <2>3. M(vtx) \in Nat /\ M(v) \in Nat
    BY <2>1, <1>2, <1>7
  <2> QED  BY <2>2, <2>3
<1>9. v # vtx => n <= lostParentCount[v]
  BY <1>8 DEF M
<1> QED  BY <1>7, <1>9 DEF S, v

(* Registering a vertex with its missing parents keeps the three maps in   *)
(* step with each other and with the arrivals, whether or not an entry is  *)
(* evicted to make room.                                                   *)
LEMMA RegisterTracks ==
    ASSUME OrphanageTypeOK, NEW present,
           Tracks(lostParents, lostParentCount, present), orphans = Buffered,
           NEW vtx \in Hash, vtx \notin Buffered,
           ParentSet(vtx) \ present # {},
           NEW evicted \in SUBSET Buffered,
           Register(vtx, ParentSet(vtx) \ present, evicted)
    PROVE  /\ OrphanageTypeOK'
           /\ Tracks(lostParents', lostParentCount', present)
           /\ orphans' = Buffered'
           /\ orphans' = (orphans \ evicted) \cup {vtx}
<1> DEFINE missing == ParentSet(vtx) \ present
<1>1. missing \subseteq Hash /\ Cardinality(missing) \in Nat \ {0}
  BY ParentSetType, FS_Subset, FS_CardinalityType, FS_EmptySet
<1> HIDE DEF missing
<1>2. /\ lostParents' = [p \in Hash |->
            (lostParents[p] \ {h \in evicted : p \in ParentSet(h)})
              \cup {h \in {vtx} : p \in missing}]
      /\ lostParentCount' = [h \in (Buffered \ evicted) \cup {vtx} |->
            IF h = vtx THEN Cardinality(missing) ELSE lostParentCount[h]]
      /\ orphans' = (orphans \ evicted) \cup {vtx}
  BY DEF Register, missing
<1>3. Buffered' = (Buffered \ evicted) \cup {vtx}
  BY <1>2 DEF Buffered
<1>4. OrphanageTypeOK'
  <2>1. \A p \in Hash : lostParents'[p] \subseteq Hash
    BY <1>2 DEF OrphanageTypeOK
  <2>2. lostParentCount' \in [Buffered' -> Nat \ {0}]
    BY <1>1, <1>2, <1>3 DEF OrphanageTypeOK
  <2>3. Buffered' \subseteq Hash /\ orphans' \subseteq Hash
    BY <1>2, <1>3 DEF OrphanageTypeOK
  <2>4. lostParents' \in [Hash -> SUBSET Hash]
    BY <2>1, <1>2
  <2> QED  BY <2>2, <2>3, <2>4 DEF OrphanageTypeOK
<1>5. \A p \in Hash :
        lostParents'[p] = {c \in Buffered' : p \in ParentSet(c) \ present}
  <2> TAKE p \in Hash
  <2>1. lostParents[p] = {c \in Buffered : p \in ParentSet(c) \ present}
    BY DEF Tracks, Buffered
  <2>2. lostParents'[p] = (lostParents[p] \ {h \in evicted : p \in ParentSet(h)})
                            \cup {h \in {vtx} : p \in missing}
    BY <1>2
  <2> QED  BY <2>1, <2>2, <1>3 DEF missing
<1>6. \A c \in Buffered' : lostParentCount'[c] = Cardinality(ParentSet(c) \ present)
  BY <1>2, <1>3 DEF Tracks, Buffered, missing
<1> QED  BY <1>2, <1>3, <1>4, <1>5, <1>6 DEF Tracks, Buffered

(* AddOrphan keeps the buffer invariants, adds at most the vertex it is    *)
(* given, and evicts nothing while there is room.                          *)
LEMMA AddOrphanPreserves ==
    ASSUME OrphanageTypeOK, BufferSync, NEW present,
           Tracks(lostParents, lostParentCount, present),
           NEW vtx \in Hash, ParentSet(vtx) \ present # {},
           AddOrphan(vtx, ParentSet(vtx) \ present)
    PROVE  /\ OrphanageTypeOK' /\ BufferSync'
           /\ Tracks(lostParents', lostParentCount', present)
           /\ orphans' \subseteq orphans \cup {vtx}
           /\ Cardinality(orphans) < Capacity \/ vtx \in orphans
                => orphans' = orphans \cup {vtx}
<1> DEFINE missing == ParentSet(vtx) \ present
           victim  == FindVictim(vtx, Cardinality(missing))
<1>1. orphans = Buffered /\ IsFiniteSet(Buffered) /\ Cardinality(Buffered) \in Nat
      /\ Cardinality(Buffered) <= Capacity /\ Capacity \in Nat
  BY VertexAssumption, OrphanageAssumption, FS_Subset, FS_CardinalityType
     DEF OrphanageTypeOK, BufferSync
<1>2. Cardinality(missing) \in Nat
  BY ParentSetType, FS_Subset, FS_CardinalityType
<1>3. CASE UNCHANGED orphanageVars /\ (vtx \in Buffered \/ Cardinality(Buffered) >= Capacity)
  <2>1. /\ lostParents' = lostParents /\ lostParentCount' = lostParentCount
        /\ orphans' = orphans /\ Buffered' = Buffered
    BY <1>3 DEF orphanageVars, Buffered
  <2>2. OrphanageTypeOK' /\ BufferSync'
    BY <2>1 DEF OrphanageTypeOK, BufferSync
  <2>3. ~(Cardinality(orphans) < Capacity) \/ vtx \in orphans
    BY <1>1, <1>3
  <2>4. vtx \in orphans => orphans' = orphans \cup {vtx}
    BY <2>1
  <2>5. Cardinality(orphans) < Capacity => vtx \in orphans
    BY <2>3
  <2> QED  BY <2>1, <2>2, <2>4, <2>5
<1>4. CASE /\ vtx \notin Buffered /\ ~(Cardinality(Buffered) >= Capacity)
           /\ Register(vtx, missing, {})
  <2>1. /\ OrphanageTypeOK' /\ Tracks(lostParents', lostParentCount', present)
        /\ orphans' = Buffered' /\ orphans' = orphans \cup {vtx}
    BY <1>1, <1>4, RegisterTracks
  <2>2. Cardinality(orphans') <= Capacity
    <3>1. Cardinality(orphans \cup {vtx}) = Cardinality(orphans) + 1
      BY <1>1, <1>4, FS_AddElement
    <3>2. Cardinality(orphans) < Capacity
      BY <1>1, <1>4
    <3> QED  BY <3>1, <3>2, <2>1, <1>1
  <2> QED  BY <2>1, <2>2 DEF BufferSync
<1>5. CASE /\ vtx \notin Buffered /\ Cardinality(Buffered) >= Capacity
           /\ victim # vtx /\ Register(vtx, missing, {victim})
  <2>1. victim \in Buffered
    BY <1>2, <1>5, FindVictimType
  <2>2. /\ OrphanageTypeOK' /\ Tracks(lostParents', lostParentCount', present)
        /\ orphans' = Buffered' /\ orphans' = (orphans \ {victim}) \cup {vtx}
    <3>1. {victim} \in SUBSET Buffered
      BY <2>1
    <3> HIDE DEF victim
    <3> QED  BY <3>1, <1>1, <1>5, RegisterTracks
  <2>3. Cardinality(orphans') <= Capacity
    <3>1. IsFiniteSet(orphans \ {victim})
          /\ Cardinality(orphans \ {victim}) = Cardinality(orphans) - 1
      BY <2>1, <1>1, FS_RemoveElement
    <3>2. Cardinality((orphans \ {victim}) \cup {vtx}) <= Cardinality(orphans)
      <4> HIDE DEF victim
      <4>1. Cardinality((orphans \ {victim}) \cup {vtx})
              = Cardinality(orphans \ {victim}) + 1
        BY <3>1, <1>1, <1>5, FS_AddElement
      <4> QED  BY <4>1, <3>1, <1>1
    <3>3. orphans' = (orphans \ {victim}) \cup {vtx}
      BY <2>2
    <3>4. Cardinality(orphans) <= Capacity
      BY <1>1
    <3>5. Cardinality((orphans \ {victim}) \cup {vtx}) \in Nat
      BY <3>1, FS_AddElement, FS_CardinalityType
    <3> HIDE DEF victim
    <3> QED  BY <3>2, <3>3, <3>4, <3>5, <1>1
  <2> QED  BY <2>1, <2>2, <2>3, <1>1, <1>5 DEF BufferSync
<1> QED  BY <1>3, <1>4, <1>5 DEF AddOrphan

(* AddOrphan throws an entry out only of a full buffer, for a new one that *)
(* no more parents keep waiting.                                           *)
LEMMA EvictionJustified ==
    ASSUME OrphanageTypeOK, BufferSync, NEW vtx \in Hash,
           NEW missing \in SUBSET Hash, AddOrphan(vtx, missing),
           NEW c \in orphans \ orphans'
    PROVE  /\ Cardinality(orphans) = Capacity
           /\ vtx \in orphans' \ orphans
           /\ lostParentCount'[vtx] <= lostParentCount[c]
<1> DEFINE n == Cardinality(missing)
           victim == FindVictim(vtx, n)
<1>1. orphans = Buffered /\ IsFiniteSet(Buffered) /\ Cardinality(Buffered) \in Nat
      /\ Cardinality(Buffered) <= Capacity /\ Capacity \in Nat
  BY VertexAssumption, OrphanageAssumption, FS_Subset, FS_CardinalityType
     DEF OrphanageTypeOK, BufferSync
<1>2. n \in Nat
  BY VertexAssumption, FS_Subset, FS_CardinalityType
<1>3. /\ vtx \notin Buffered /\ Cardinality(Buffered) >= Capacity
      /\ victim # vtx /\ Register(vtx, missing, {victim})
  BY DEF AddOrphan, Register, orphanageVars
<1>4. n <= lostParentCount[victim]
  BY <1>2, <1>3, FindVictimType
<1> HIDE DEF victim, n
<1>5. c = victim
  BY <1>3 DEF Register
<1>6. lostParentCount'[vtx] = n
  BY <1>3 DEF Register, n
<1>7. vtx \in orphans' \ orphans
  BY <1>1, <1>3 DEF Register
<1>8. Cardinality(orphans) = Capacity
  BY <1>1, <1>3
<1> QED  BY <1>4, <1>5, <1>6, <1>7, <1>8

(* When a vertex arrives, the buffer releases exactly the children whose   *)
(* last missing parent it was, and keeps tracking the rest.                *)
LEMMA OnParentArrivalPreserves ==
    ASSUME OrphanageTypeOK, BufferSync, NEW present,
           Tracks(lostParents, lostParentCount, present),
           NEW pHash \in Hash, pHash \notin present,
           OnParentArrival(pHash)
    PROVE  /\ OrphanageTypeOK' /\ BufferSync'
           /\ Tracks(lostParents', lostParentCount', present \cup {pHash})
           /\ orphans' = orphans \ Ready(pHash)
           /\ Ready(pHash) \subseteq orphans
           /\ \A c \in Ready(pHash) : ParentSet(c) \subseteq present \cup {pHash}
<1> DEFINE waiting == lostParents[pHash]
           now == present \cup {pHash}
<1>1. waiting = {c \in Buffered : pHash \in ParentSet(c)}
  BY DEF Tracks, Buffered
<1>2. \A c \in Buffered :
        /\ IsFiniteSet(ParentSet(c) \ present)
        /\ lostParentCount[c] = Cardinality(ParentSet(c) \ present)
        /\ lostParentCount[c] \in Nat \ {0}
  BY ParentSetType, FS_Subset DEF Tracks, Buffered, OrphanageTypeOK
<1>3. \A c \in Buffered :
        Cardinality(ParentSet(c) \ now) =
          IF c \in waiting THEN lostParentCount[c] - 1 ELSE lostParentCount[c]
  <2> TAKE c \in Buffered
  <2>1. ParentSet(c) \ now = (ParentSet(c) \ present) \ {pHash}
    OBVIOUS
  <2>2. pHash \in ParentSet(c) \ present <=> c \in waiting
    BY <1>1
  <2> DEFINE missing == ParentSet(c) \ present
  <2>3. IsFiniteSet(missing) /\ lostParentCount[c] = Cardinality(missing)
    BY <1>2
  <2> HIDE DEF missing
  <2>4. CASE pHash \in missing
    <3>1. Cardinality(missing \ {pHash}) = Cardinality(missing) - 1
      BY <2>3, <2>4, FS_RemoveElement
    <3> QED  BY <3>1, <2>1, <2>2, <2>3, <2>4 DEF missing
  <2>5. CASE pHash \notin missing
    <3>1. missing \ {pHash} = missing
      BY <2>5
    <3> QED  BY <3>1, <2>1, <2>2, <2>3, <2>5 DEF missing
  <2> QED  BY <2>4, <2>5
<1>4. Ready(pHash) = {c \in waiting : lostParentCount[c] <= 1}
      /\ Ready(pHash) \subseteq Buffered
  BY <1>1 DEF Ready
<1>5. \A c \in Ready(pHash) : ParentSet(c) \subseteq now
  <2> TAKE c \in Ready(pHash)
  <2>1. c \in Buffered /\ c \in waiting /\ lostParentCount[c] = 1
    <3>1. c \in Buffered /\ c \in waiting /\ lostParentCount[c] <= 1
      BY <1>4
    <3>2. lostParentCount[c] \in Nat \ {0}
      BY <3>1, <1>2
    <3> QED  BY <3>1, <3>2
  <2>2. Cardinality(ParentSet(c) \ now) = 0 /\ IsFiniteSet(ParentSet(c) \ now)
    <3>1. IsFiniteSet(ParentSet(c) \ now)
      BY <2>1, <1>2, FS_Subset
    <3> QED  BY <3>1, <2>1, <1>3
  <2> QED  BY <2>2, FS_EmptySet
<1>6. /\ lostParents' = [lostParents EXCEPT ![pHash] = {}]
      /\ lostParentCount' = [h \in Buffered \ Ready(pHash) |->
            IF h \in waiting THEN lostParentCount[h] - 1 ELSE lostParentCount[h]]
      /\ orphans' = orphans \ Ready(pHash)
  BY DEF OnParentArrival
<1>7. Buffered' = Buffered \ Ready(pHash)
  BY <1>6 DEF Buffered
<1>8. \A c \in Buffered' : lostParentCount'[c] = Cardinality(ParentSet(c) \ now)
  BY <1>3, <1>6, <1>7
<1>9. \A c \in Buffered' : lostParentCount'[c] \in Nat \ {0}
  <2> TAKE c \in Buffered'
  <2>1. c \in Buffered /\ c \notin Ready(pHash)
    BY <1>7
  <2>2. lostParentCount[c] \in Nat \ {0}
    BY <2>1, <1>2
  <2>3. c \in waiting => ~(lostParentCount[c] <= 1)
    BY <2>1, <1>4
  <2>4. lostParentCount'[c] =
          IF c \in waiting THEN lostParentCount[c] - 1 ELSE lostParentCount[c]
    BY <2>1, <1>6
  <2> HIDE DEF waiting
  <2> QED  BY <2>2, <2>3, <2>4
<1>10. \A p \in Hash : lostParents'[p] = {c \in Buffered' : p \in ParentSet(c) \ now}
  <2> TAKE p \in Hash
  <2>1. lostParents[p] = {c \in Buffered : p \in ParentSet(c) \ present}
    BY DEF Tracks, Buffered
  <2>2. CASE p = pHash
    <3>1. lostParents'[p] = {}
      BY <2>2, <1>6 DEF OrphanageTypeOK
    <3> QED  BY <3>1, <2>2
  <2>3. CASE p # pHash
    <3>1. lostParents'[p] = lostParents[p]
      BY <2>3, <1>6 DEF OrphanageTypeOK
    <3>2. \A c \in Ready(pHash) : p \notin ParentSet(c) \ present
      BY <2>3, <1>5
    <3> QED  BY <3>1, <3>2, <2>1, <2>3, <1>7
  <2> QED  BY <2>2, <2>3
<1>11. OrphanageTypeOK'
  <2>1. lostParents' \in [Hash -> SUBSET Hash]
    BY <1>6 DEF OrphanageTypeOK
  <2>2. lostParentCount' \in [Buffered' -> Nat \ {0}]
    BY <1>6, <1>7, <1>9
  <2> QED  BY <2>1, <2>2, <1>6, <1>7 DEF OrphanageTypeOK
<1>12. BufferSync'
  <2>1. IsFiniteSet(orphans) /\ Cardinality(orphans) <= Capacity
    BY VertexAssumption, FS_Subset DEF OrphanageTypeOK, BufferSync
  <2>2. IsFiniteSet(orphans') /\ Cardinality(orphans') <= Cardinality(orphans)
    BY <2>1, <1>6, FS_Subset
  <2>3. Cardinality(orphans') <= Capacity
    BY <2>1, <2>2, OrphanageAssumption, FS_CardinalityType
  <2> QED  BY <2>3, <1>6, <1>7 DEF BufferSync
<1> QED  BY <1>4, <1>5, <1>6, <1>8, <1>10, <1>11, <1>12 DEF Tracks, Buffered, BufferSync
=============================================================================
