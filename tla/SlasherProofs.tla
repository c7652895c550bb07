--------------------------- MODULE SlasherProofs ----------------------------
(***************************************************************************)
(* The slasher's invariants, for every set of vertices and validators and  *)
(* every choice of the penalties and of the threshold.                     *)
(***************************************************************************)
EXTENDS Slasher, FiniteSetTheorems, SequenceTheorems, TLAPS

SlasherInv == SlasherTypeOK /\ ChargesAddUp /\ EvidenceInSync

(* A vertex adjudicated for the first time is one more in the name of its  *)
(* author, and changes nothing for the others.                             *)
LEMMA OneMoreCharged ==
    ASSUME processedEv \subseteq Hash, NEW h \in Hash, h \notin processedEv,
           processedEv' = processedEv \cup {h}
    PROVE  /\ \A u \in Validators \ {Author[h]} : Charged(u)' = Charged(u)
           /\ Charged(Author[h])' = Charged(Author[h]) \cup {h}
           /\ \A u \in Validators : IsFiniteSet(Charged(u))
           /\ \A u \in Validators : Cardinality(Charged(u)) \in Nat
           /\ Cardinality(Charged(Author[h])') = Cardinality(Charged(Author[h])) + 1
<1>1. /\ \A u \in Validators \ {Author[h]} : Charged(u)' = Charged(u)
      /\ Charged(Author[h])' = Charged(Author[h]) \cup {h}
      /\ h \notin Charged(Author[h])
  BY DEF Charged
<1>2. ASSUME NEW u
      PROVE  IsFiniteSet(Charged(u)) /\ Cardinality(Charged(u)) \in Nat
  <2>1. Charged(u) \subseteq Hash
    BY DEF Charged
  <2> QED  BY <2>1, VertexAssumption, FS_Subset, FS_CardinalityType
<1>3. Cardinality(Charged(Author[h]) \cup {h}) = Cardinality(Charged(Author[h])) + 1
  BY <1>1, <1>2, FS_AddElement
<1> QED  BY <1>1, <1>2, <1>3

(* One more charge, of either price, keeps an account exact.               *)
LEMMA OneMorePrice ==
    ASSUME NEW low \in Nat, NEW high \in Nat, NEW k \in Nat, NEW n \in Nat, k <= n
    PROVE  /\ (k * low + (n - k) * high) + low = (k + 1) * low + ((n + 1) - (k + 1)) * high
           /\ (k * low + (n - k) * high) + high = k * low + ((n + 1) - k) * high
<1>1. (k + 1) * low = k * low + low /\ (n + 1) - (k + 1) = n - k
  OBVIOUS
<1>2. ((n + 1) - k) * high = (n - k) * high + high
  OBVIOUS
<1>3. k * low \in Int /\ (n - k) * high \in Int
  OBVIOUS
<1> QED  BY <1>1, <1>2, <1>3

(* The vertices charged at the lower price at most.                        *)
Cheap(v) == {g \in Charged(v) : ~WellFormed(g)}

(* The account of the author stays exact when a vertex of its name is      *)
(* charged, if only a malformed one goes at the lower price.               *)
LEMMA ChargePreserves ==
    ASSUME SlasherTypeOK, ChargesAddUp, NEW h \in Hash, h \notin processedEv,
           NEW amount, amount = EquivocationPenalty
                       \/ (amount = MalformedVertexPenalty /\ ~WellFormed(h)),
           processedEv' = processedEv \cup {h},
           penaltyTable' = [penaltyTable EXCEPT ![Author[h]] = @ + amount]
    PROVE  ChargesAddUp'
<1> DEFINE v == Author[h]
           low == MalformedVertexPenalty
           high == EquivocationPenalty
<1>0. /\ v \in Validators /\ low \in Nat /\ high \in Nat
      /\ penaltyTable \in [Validators -> Nat] /\ processedEv \subseteq Hash
  BY VertexAssumption, SlasherAssumption DEF SlasherTypeOK
<1>1. /\ \A u \in Validators \ {v} : Charged(u)' = Charged(u)
      /\ Charged(v)' = Charged(v) \cup {h}
      /\ \A u \in Validators : IsFiniteSet(Charged(u))
      /\ \A u \in Validators : Cardinality(Charged(u)) \in Nat
      /\ Cardinality(Charged(v)') = Cardinality(Charged(v)) + 1
  BY <1>0, OneMoreCharged
<1>2. \A u \in Validators : \E k \in 0 .. Cardinality(Cheap(u)) :
         penaltyTable[u] = k * low + (Cardinality(Charged(u)) - k) * high
  BY DEF ChargesAddUp, Cheap
<1>3. \A u \in Validators :
         /\ IsFiniteSet(Cheap(u)) /\ Cardinality(Cheap(u)) \in Nat
         /\ Cardinality(Cheap(u)) <= Cardinality(Charged(u))
  <2>1. \A u \in Validators : Cheap(u) \subseteq Charged(u)
    BY DEF Cheap
  <2> QED  BY <2>1, <1>1, FS_Subset, FS_CardinalityType
<1>4. /\ \A u \in Validators \ {v} : Cheap(u)' = Cheap(u)
      /\ Cheap(v)' = IF WellFormed(h) THEN Cheap(v) ELSE Cheap(v) \cup {h}
      /\ h \notin Cheap(v)
  BY <1>1 DEF Cheap, Charged, WellFormed
<1>5. Cardinality(Cheap(v)') =
         IF WellFormed(h) THEN Cardinality(Cheap(v)) ELSE Cardinality(Cheap(v)) + 1
  BY <1>0, <1>3, <1>4, FS_AddElement
<1>6. ASSUME NEW u \in Validators
      PROVE  \E k \in 0 .. Cardinality(Cheap(u)') :
                penaltyTable'[u] = k * low + (Cardinality(Charged(u)') - k) * high
  <2>1. CASE u # v
    BY <2>1, <1>0, <1>1, <1>2, <1>4
  <2>2. CASE u = v
    <3>1. PICK k \in 0 .. Cardinality(Cheap(v)) :
             penaltyTable[v] = k * low + (Cardinality(Charged(v)) - k) * high
      BY <1>0, <1>2
    <3>2. PICK n \in Nat : n = Cardinality(Charged(v)) /\ Cardinality(Charged(v)') = n + 1
      BY <1>0, <1>1
    <3>3. k \in Nat /\ k <= n
      BY <1>0, <1>3, <3>1, <3>2
    <3>4. penaltyTable'[v] = penaltyTable[v] + amount
      BY <1>0
    <3> HIDE DEF v, low, high
    <3>5. /\ (k * low + (n - k) * high) + low = (k + 1) * low + ((n + 1) - (k + 1)) * high
          /\ (k * low + (n - k) * high) + high = k * low + ((n + 1) - k) * high
      BY <1>0, <3>3, OneMorePrice
    <3>6. CASE amount = high
      <4>1. k \in 0 .. Cardinality(Cheap(v)')
        BY <1>0, <1>3, <1>5, <3>1
      <4>2. penaltyTable'[v] = k * low + (Cardinality(Charged(v)') - k) * high
        BY <3>1, <3>2, <3>4, <3>5, <3>6
      <4> QED  BY <2>2, <4>1, <4>2
    <3>7. CASE amount = low /\ ~WellFormed(h)
      <4>1. k + 1 \in 0 .. Cardinality(Cheap(v)')
        BY <1>0, <1>3, <1>5, <3>1, <3>7
      <4>2. penaltyTable'[v] = (k + 1) * low + (Cardinality(Charged(v)') - (k + 1)) * high
        BY <3>1, <3>2, <3>4, <3>5, <3>7
      <4> QED  BY <2>2, <4>1, <4>2
    <3> QED  BY <3>6, <3>7 DEF low, high
  <2> QED  BY <2>1, <2>2
<1> QED  BY <1>6 DEF ChargesAddUp, Cheap

(* Charging a vertex that was not adjudicated before to the author that it *)
(* names preserves the invariant.  All three entry points come down to it. *)
LEMMA ExecutePreserves ==
    ASSUME SlasherInv, NEW h \in Hash, NEW amount \in Nat \ {0},
           amount = EquivocationPenalty
              \/ (amount = MalformedVertexPenalty /\ ~WellFormed(h)),
           NEW type \in EvidenceType, NEW p2 \in Hash \cup {NoVertex},
           h \notin processedEv, ExecuteSlasher(Author[h], amount, h, type, p2)
    PROVE  SlasherInv'
<1> DEFINE v == Author[h]
           ev == [targetID |-> v, type |-> type, proof1 |-> h, proof2 |-> p2]
<1>1. v \in Validators /\ ev \in Evidence
  BY VertexAssumption DEF Evidence
<1>2. /\ penaltyTable' = [penaltyTable EXCEPT ![v] = @ + amount]
      /\ processedEv' = processedEv \cup {h}
      /\ evidences' = [evidences EXCEPT ![v] = Append(@, ev)]
  BY DEF ExecuteSlasher
<1>3. /\ penaltyTable \in [Validators -> Nat] /\ processedEv \subseteq Hash
      /\ evidences \in [Validators -> Seq(Evidence)]
  BY DEF SlasherInv, SlasherTypeOK
<1>4. /\ evidences[v] \in Seq(Evidence)
      /\ evidences'[v] = Append(evidences[v], ev)
      /\ penaltyTable'[v] = penaltyTable[v] + amount
      /\ \A u \in Validators \ {v} : /\ evidences'[u] = evidences[u]
                                     /\ penaltyTable'[u] = penaltyTable[u]
  BY <1>1, <1>2, <1>3
<1> DEFINE n == Len(evidences[v])
<1> HIDE DEF ev, v
<1>5. /\ n \in Nat /\ DOMAIN evidences[v] = 1 .. n
      /\ DOMAIN evidences'[v] = 1 .. n + 1
      /\ \A i \in 1 .. n : evidences'[v][i] = evidences[v][i]
      /\ evidences'[v][n + 1] = ev
      /\ evidences'[v] \in Seq(Evidence)
      /\ evidences'[v] # << >>
  BY <1>1, <1>4
<1> HIDE DEF n
<1>6. SlasherTypeOK'
  <2>1. penaltyTable' \in [Validators -> Nat]
    BY <1>1, <1>2, <1>3
  <2>2. evidences' \in [Validators -> Seq(Evidence)]
    BY <1>2, <1>3, <1>4, <1>5
  <2> QED  BY <2>1, <2>2, <1>2, <1>3 DEF SlasherTypeOK
<1>7. ChargesAddUp'
  BY <1>2, ChargePreserves DEF SlasherInv, v
<1>8. ev.proof1 = h /\ Author[h] = v
  BY DEF ev, v
<1>9. ASSUME NEW u \in Validators, NEW i \in DOMAIN evidences'[u]
      PROVE  /\ evidences'[u][i].proof1 \in processedEv'
             /\ Author[evidences'[u][i].proof1] = u
             /\ \A j \in DOMAIN evidences'[u] :
                   evidences'[u][i].proof1 = evidences'[u][j].proof1 => i = j
  <2>1. \A w \in Validators : \A k \in DOMAIN evidences[w] :
          /\ evidences[w][k].proof1 \in processedEv
          /\ Author[evidences[w][k].proof1] = w
          /\ \A j \in DOMAIN evidences[w] :
                evidences[w][k].proof1 = evidences[w][j].proof1 => k = j
    BY DEF SlasherInv, EvidenceInSync
  <2>2. CASE u # v
    BY <2>1, <2>2, <1>2, <1>4
  <2>3. CASE u = v
    <3>1. \A k \in 1 .. n : /\ evidences'[v][k].proof1 \in processedEv
                            /\ Author[evidences'[v][k].proof1] = v
      BY <2>1, <1>1, <1>5
    <3>2. \A k \in 1 .. n : evidences'[v][k].proof1 # h
      BY <3>1
    <3>3. \A j, k \in 1 .. n :
             evidences'[v][k].proof1 = evidences'[v][j].proof1 => k = j
      <4>1. \A j, k \in 1 .. n :
               evidences[v][k].proof1 = evidences[v][j].proof1 => k = j
        <5>1. v \in Validators /\ DOMAIN evidences[v] = 1 .. n
          BY <1>1, <1>5
        <5> QED  BY <5>1, <2>1
      <4> QED  BY <4>1, <1>5
    <3>4. \A k \in 1 .. n + 1 : k \in 1 .. n \/ k = n + 1
      BY <1>5
    <3>5. evidences'[v][n + 1].proof1 = h
      BY <1>5, <1>8
    <3>6. h \in processedEv' /\ processedEv \subseteq processedEv'
      BY <1>2
    <3>7. i \in 1 .. n + 1 /\ DOMAIN evidences'[u] = 1 .. n + 1
      BY <2>3, <1>5, <1>9
    <3>8. \A j \in 1 .. n + 1 :
             evidences'[v][i].proof1 = evidences'[v][j].proof1 => i = j
      BY <3>2, <3>3, <3>4, <3>5, <3>7
    <3> QED  BY <2>3, <3>1, <3>4, <3>5, <3>6, <3>7, <3>8, <1>8
  <2> QED  BY <2>2, <2>3
<1>10. ASSUME NEW g \in processedEv'
       PROVE  \E i \in DOMAIN evidences'[Author[g]] :
                 evidences'[Author[g]][i].proof1 = g
  <2>1. CASE g = h
    <3>1. n + 1 \in DOMAIN evidences'[v] /\ evidences'[v][n + 1].proof1 = h
      BY <1>5, <1>8
    <3> QED  BY <2>1, <3>1, <1>8
  <2>2. CASE g # h
    <3>1. PICK i \in DOMAIN evidences[Author[g]] : evidences[Author[g]][i].proof1 = g
      BY <2>2, <1>2 DEF SlasherInv, EvidenceInSync
    <3>2. Author[g] \in Validators
      BY <2>2, <1>2, <1>3, VertexAssumption
    <3>3. CASE Author[g] = v
      <4>1. i \in 1 .. n /\ i \in 1 .. n + 1
        BY <3>1, <3>3, <1>5
      <4> QED  BY <4>1, <3>1, <3>3, <1>5
    <3>4. CASE Author[g] # v
      BY <3>1, <3>2, <3>4, <1>4
    <3> QED  BY <3>3, <3>4
  <2> QED  BY <2>1, <2>2
<1>11. ASSUME NEW u \in Validators
       PROVE  penaltyTable'[u] > 0 <=> evidences'[u] # << >>
  <2>1. CASE u = v
    BY <2>1, <1>1, <1>3, <1>4, <1>5
  <2>2. CASE u # v
    BY <2>2, <1>4 DEF SlasherInv, EvidenceInSync
  <2> QED  BY <2>1, <2>2
<1>12. EvidenceInSync'
  BY <1>9, <1>10, <1>11 DEF EvidenceInSync
<1> QED  BY <1>6, <1>7, <1>12 DEF SlasherInv

(* The early returns change nothing.                                       *)
LEMMA SlasherStutter ==
    ASSUME SlasherInv, UNCHANGED slasherVars
    PROVE  SlasherInv'
<1>1. \A v : Charged(v)' = Charged(v)
  BY DEF Charged, slasherVars
<1>2. \A v : {h \in Charged(v)' : ~WellFormed(h)} = {h \in Charged(v) : ~WellFormed(h)}
  BY <1>1
<1>3. ChargesAddUp'
  BY <1>1, <1>2 DEF SlasherInv, ChargesAddUp, slasherVars
<1>4. SlasherTypeOK' /\ EvidenceInSync'
  BY DEF SlasherInv, slasherVars, SlasherTypeOK, EvidenceInSync
<1> QED  BY <1>3, <1>4 DEF SlasherInv

(* AddDemerit, as the DAG calls it: for a malformed vertex and its author. *)
LEMMA AddDemeritPreserves ==
    ASSUME SlasherInv, NEW h \in Hash, ~WellFormed(h),
           AddDemerit(Author[h], MalformedVertexPenalty, h)
    PROVE  SlasherInv'
<1>1. CASE UNCHANGED slasherVars
  BY <1>1, SlasherStutter
<1>2. CASE /\ h \notin processedEv
           /\ ExecuteSlasher(Author[h], MalformedVertexPenalty, h,
                             "InvalidPayload", NoVertex)
  BY <1>2, ExecutePreserves, SlasherAssumption DEF EvidenceType
<1> QED  BY <1>1, <1>2 DEF AddDemerit

(* Its effect on the types alone does not depend on who is blamed.         *)
LEMMA AddDemeritTyped ==
    ASSUME SlasherTypeOK, NEW h \in Hash,
           AddDemerit(Author[h], MalformedVertexPenalty, h)
    PROVE  SlasherTypeOK'
<1>1. CASE UNCHANGED slasherVars
  BY <1>1 DEF SlasherTypeOK, slasherVars
<1>2. CASE ExecuteSlasher(Author[h], MalformedVertexPenalty, h,
                          "InvalidPayload", NoVertex)
  <2> DEFINE ev == [targetID |-> Author[h], type |-> "InvalidPayload",
                    proof1 |-> h, proof2 |-> NoVertex]
  <2>1. ev \in Evidence /\ Author[h] \in Validators
    BY VertexAssumption DEF Evidence, EvidenceType
  <2>2. /\ penaltyTable' =
              [penaltyTable EXCEPT ![Author[h]] = @ + MalformedVertexPenalty]
        /\ processedEv' = processedEv \cup {h}
        /\ evidences' = [evidences EXCEPT ![Author[h]] = Append(@, ev)]
    BY <1>2 DEF ExecuteSlasher
  <2> HIDE DEF ev
  <2>3. penaltyTable' \in [Validators -> Nat]
    BY <2>1, <2>2, SlasherAssumption DEF SlasherTypeOK
  <2>4. evidences' \in [Validators -> Seq(Evidence)]
    BY <2>1, <2>2 DEF SlasherTypeOK
  <2> QED  BY <2>2, <2>3, <2>4 DEF SlasherTypeOK
<1> QED  BY <1>1, <1>2 DEF AddDemerit

(* HandleEquivocation, whatever pair it is given.                          *)
LEMMA EquivocationPreserves ==
    ASSUME SlasherInv, NEW v1 \in Hash, NEW v2 \in Hash, HandleEquivocation(v1, v2)
    PROVE  SlasherInv'
<1>1. CASE UNCHANGED slasherVars
  BY <1>1, SlasherStutter
<1>2. CASE /\ v1 \notin processedEv
           /\ ExecuteSlasher(Author[v1], EquivocationPenalty, v1, "Vertex", v2)
  BY <1>2, ExecutePreserves, SlasherAssumption DEF EvidenceType
<1> QED  BY <1>1, <1>2 DEF HandleEquivocation

(* ProcessExternalEvidence, whatever evidence a peer makes up from         *)
(* existing vertices: IsValid ties the accused to its first proof.         *)
LEMMA ExternalEvidencePreserves ==
    ASSUME SlasherInv, NEW ev \in Evidence, ProcessExternalEvidence(ev)
    PROVE  SlasherInv'
<1>1. CASE UNCHANGED slasherVars
  BY <1>1, SlasherStutter
<1>2. CASE /\ IsValid(ev) /\ ev.proof1 \notin processedEv
           /\ ExecuteSlasher(ev.targetID, EquivocationPenalty, ev.proof1,
                             ev.type, ev.proof2)
  <2>1. /\ ev.proof1 \in Hash /\ ev.targetID = Author[ev.proof1]
        /\ ev.type \in EvidenceType /\ ev.proof2 \in Hash \cup {NoVertex}
    BY <1>2 DEF IsValid, Evidence
  <2> QED  BY <2>1, <1>2, ExecutePreserves, SlasherAssumption
<1> QED  BY <1>1, <1>2 DEF ProcessExternalEvidence

(* The empty ledger of NewSlasher satisfies the invariant.                 *)
LEMMA SlasherInitInv == SlasherInit => SlasherInv
<1> SUFFICES ASSUME SlasherInit PROVE SlasherInv
  OBVIOUS
<1>1. \A v \in Validators : Charged(v) = {} /\ penaltyTable[v] = 0
  BY DEF SlasherInit, Charged
<1>2. Cardinality({}) = 0
  BY FS_EmptySet
<1>3. ASSUME NEW v \in Validators
      PROVE  \E k \in 0 .. Cardinality({h \in Charged(v) : ~WellFormed(h)}) :
                penaltyTable[v] = k * MalformedVertexPenalty
                                  + (Cardinality(Charged(v)) - k) * EquivocationPenalty
  <2>1. {h \in Charged(v) : ~WellFormed(h)} = {}
    BY <1>1
  <2>2. 0 * MalformedVertexPenalty + (0 - 0) * EquivocationPenalty = 0
    BY SlasherAssumption
  <2>3. penaltyTable[v] = 0 /\ Cardinality(Charged(v)) = 0
    BY <1>1, <1>2
  <2>4. 0 \in 0 .. Cardinality({h \in Charged(v) : ~WellFormed(h)})
    BY <1>2, <2>1
  <2>5. penaltyTable[v] = 0 * MalformedVertexPenalty
                          + (Cardinality(Charged(v)) - 0) * EquivocationPenalty
    BY <2>2, <2>3
  <2> QED  BY <2>4, <2>5
<1>4. ChargesAddUp
  BY <1>3 DEF ChargesAddUp
<1>5. SlasherTypeOK /\ EvidenceInSync
  BY DEF SlasherInit, SlasherTypeOK, EvidenceInSync
<1> QED  BY <1>4, <1>5 DEF SlasherInv

(* The invariant of the slasher on its own: its parts support each other   *)
(* only through the types, so their conjunction is inductive as it stands. *)
THEOREM SlasherInvariant == SlasherSpec => []SlasherInv
<1>1. SlasherInv /\ [SlasherNext]_slasherVars => SlasherInv'
  BY SlasherStutter, AddDemeritPreserves, EquivocationPreserves,
     ExternalEvidencePreserves DEF SlasherNext
<1> QED  BY <1>1, SlasherInitInv, PTL DEF SlasherSpec

(* Whatever is reported, true or false, by the DAG, a local caller or a    *)
(* peer, every vertex is paid for once at most, by whom it names, and the  *)
(* accounts come out exactly (slasher.go:30-32, 58, 94, 158).              *)
THEOREM ChargesAlwaysAddUp == SlasherSpec => []ChargesAddUp
BY SlasherInvariant, PTL DEF SlasherInv

(* penaltyTable, processedEv and evidences never disagree, whatever the    *)
(* order of the reports (slasher.go:65).                                   *)
THEOREM EvidenceStaysInSync == SlasherSpec => []EvidenceInSync
BY SlasherInvariant, PTL DEF SlasherInv

(* The type invariant of the slasher.                                      *)
THEOREM SlasherTyped == SlasherSpec => []SlasherTypeOK
BY SlasherInvariant, PTL DEF SlasherInv

(* Points only ever grow, and only together with the first adjudication of *)
(* a vertex in the name of the punished validator (slasher.go:57).         *)
THEOREM NoProofCountsTwice == SlasherSpec => NoDoubleJeopardy
<1> DEFINE Fresh == \A v \in Validators : penaltyTable'[v] # penaltyTable[v] =>
              /\ penaltyTable'[v] > penaltyTable[v]
              /\ \E h \in processedEv' \ processedEv : Author[h] = v
<1>1. ASSUME SlasherTypeOK, NEW h \in Hash, NEW amount \in Nat \ {0}, NEW type,
             NEW p2, h \notin processedEv,
             ExecuteSlasher(Author[h], amount, h, type, p2)
      PROVE  Fresh
  <2> TAKE v \in Validators
  <2> HAVE penaltyTable'[v] # penaltyTable[v]
  <2>1. v = Author[h] /\ penaltyTable'[v] = penaltyTable[v] + amount
    BY <1>1 DEF ExecuteSlasher, SlasherTypeOK
  <2>2. h \in processedEv' \ processedEv
    BY <1>1 DEF ExecuteSlasher
  <2>3. penaltyTable[v] \in Nat /\ amount \in Nat \ {0}
    BY <1>1 DEF SlasherTypeOK
  <2>4. penaltyTable'[v] > penaltyTable[v]
    BY <2>1, <2>3
  <2>5. \E g \in processedEv' \ processedEv : Author[g] = v
    BY <2>1, <2>2
  <2> QED  BY <2>4, <2>5
<1>2. SlasherTypeOK /\ UNCHANGED slasherVars => Fresh
  BY DEF slasherVars
<1>3. SlasherTypeOK /\ [SlasherNext]_slasherVars => Fresh
  <2> SUFFICES ASSUME SlasherTypeOK, [SlasherNext]_slasherVars
               PROVE  Fresh
    OBVIOUS
  <2> HIDE DEF Fresh
  <2>1. ASSUME NEW h \in Hash, AddDemerit(Author[h], MalformedVertexPenalty, h)
        PROVE  Fresh
    BY <2>1, <1>1, <1>2, SlasherAssumption DEF AddDemerit
  <2>2. ASSUME NEW v1 \in Hash, NEW v2 \in Hash, HandleEquivocation(v1, v2)
        PROVE  Fresh
    BY <2>2, <1>1, <1>2, SlasherAssumption DEF HandleEquivocation
  <2>3. ASSUME NEW ev \in Evidence, ProcessExternalEvidence(ev)
        PROVE  Fresh
    <3>1. CASE UNCHANGED slasherVars
      BY <3>1, <1>2
    <3>2. CASE /\ IsValid(ev) /\ ev.proof1 \notin processedEv
               /\ ExecuteSlasher(ev.targetID, EquivocationPenalty, ev.proof1,
                                 ev.type, ev.proof2)
      <4>1. ev.proof1 \in Hash /\ ev.targetID = Author[ev.proof1]
        BY <3>2 DEF IsValid, Evidence
      <4> QED  BY <4>1, <3>2, <1>1, SlasherAssumption
    <3> QED  BY <3>1, <3>2, <2>3 DEF ProcessExternalEvidence
  <2> QED  BY <2>1, <2>2, <2>3, <1>2 DEF SlasherNext
<1>4. SlasherTypeOK /\ [SlasherNext]_slasherVars => [Fresh]_slasherVars
  BY <1>3
<1> HIDE DEF Fresh
<1>5. [][Fresh]_slasherVars => NoDoubleJeopardy
  BY PTL DEF NoDoubleJeopardy, Fresh
<1> QED  BY <1>4, <1>5, SlasherTyped, PTL DEF SlasherSpec
=============================================================================
