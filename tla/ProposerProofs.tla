--------------------------- MODULE ProposerProofs ---------------------------
(***************************************************************************)
(* The arithmetic of quorums, for every number of validators and every     *)
(* ratio of at least two thirds; then what is proposed, by any number of   *)
(* replicas and callers, over any number of rounds and restarts.           *)
(***************************************************************************)
EXTENDS Proposer, VertexProofs

(***************************************************************************)
(* Quorums.                                                                *)
(***************************************************************************)
Ratio == [num : Nat \ {0}, den : Nat \ {0}]

TwoThirds(ratio) == 3 * ratio.num >= 2 * ratio.den

(* The integer quotient by a number that is not a constant.                *)
LEMMA Quotient ==
    ASSUME NEW a \in Nat, NEW d \in Nat, d > 0
    PROVE  /\ a \div d \in Nat
           /\ d * (a \div d + 1) > a
  OBVIOUS

(* The threshold of quorumpolicy.go:95 exceeds two thirds of n.            *)
LEMMA CalcExceeds ==
    ASSUME NEW n \in Nat, NEW ratio \in Ratio, TwoThirds(ratio)
    PROVE  Calc(n, ratio) \in Nat /\ 3 * Calc(n, ratio) > 2 * n
<1> DEFINE p == ratio.num
           d == ratio.den
           q == Calc(n, ratio)
<1>1. p \in Nat /\ d \in Nat /\ d > 0 /\ 3 * p >= 2 * d
  BY DEF Ratio, TwoThirds
<1>2. n * p \in Nat
  BY <1>1
<1>3. q \in Nat /\ d * q > n * p
  BY <1>1, <1>2, Quotient DEF Calc
<1> HIDE DEF p, d, q
<1>4. n * (3 * p) >= n * (2 * d)
  BY <1>1
<1>5. d * (3 * q) > d * (2 * n)
  BY <1>1, <1>3, <1>4
<1>6. 3 * q > 2 * n
  BY <1>1, <1>3, <1>5
<1> QED  BY <1>3, <1>6 DEF q

(* Two sets within a finite set overlap by what they exceed it together.   *)
LEMMA Overlap ==
    ASSUME NEW V, IsFiniteSet(V), NEW A \in SUBSET V, NEW B \in SUBSET V
    PROVE  /\ Cardinality(A) \in Nat /\ Cardinality(B) \in Nat
           /\ Cardinality(V) \in Nat /\ Cardinality(A \cap B) \in Nat
           /\ IsFiniteSet(A \cap B)
           /\ Cardinality(A \cap B) + Cardinality(V) >= Cardinality(A) + Cardinality(B)
<1>1. IsFiniteSet(A) /\ IsFiniteSet(B) /\ IsFiniteSet(A \cap B) /\ A \cup B \subseteq V
  BY FS_Subset
<1>2. /\ Cardinality(A \cup B) = Cardinality(A) + Cardinality(B) - Cardinality(A \cap B)
      /\ Cardinality(A \cup B) <= Cardinality(V)
  BY <1>1, FS_Union, FS_Subset
<1>3. /\ Cardinality(A) \in Nat /\ Cardinality(B) \in Nat
      /\ Cardinality(V) \in Nat /\ Cardinality(A \cap B) \in Nat
  BY <1>1, FS_CardinalityType
<1> QED  BY <1>1, <1>2, <1>3

(* If fewer than a third of the validators are faulty, any two sets of the *)
(* size that quorumpolicy.go:80 asks for have a member in common that is   *)
(* not.                                                                    *)
THEOREM QuorumsIntersect ==
    ASSUME NEW V, IsFiniteSet(V), NEW F \in SUBSET V,
           3 * Cardinality(F) < Cardinality(V),
           NEW ratio \in Ratio, TwoThirds(ratio),
           NEW A \in SUBSET V, Cardinality(A) >= Calc(Cardinality(V), ratio),
           NEW B \in SUBSET V, Cardinality(B) >= Calc(Cardinality(V), ratio)
    PROVE  \E v \in A \cap B : v \notin F
<1> DEFINE n == Cardinality(V)
           q == Calc(n, ratio)
<1>1. /\ Cardinality(A) \in Nat /\ Cardinality(B) \in Nat
      /\ n \in Nat /\ Cardinality(A \cap B) \in Nat
      /\ Cardinality(A \cap B) + n >= Cardinality(A) + Cardinality(B)
  BY Overlap
<1>2. q \in Nat /\ 3 * q > 2 * n
  BY <1>1, CalcExceeds
<1>3. Cardinality(A) >= q /\ Cardinality(B) >= q
  OBVIOUS
<1>4. Cardinality(F) \in Nat /\ IsFiniteSet(F) /\ 3 * Cardinality(F) < n
  BY FS_Subset, FS_CardinalityType
<1> HIDE DEF n, q
<1>5. Cardinality(A \cap B) > Cardinality(F)
  BY <1>1, <1>2, <1>3, <1>4
<1>6. ~(A \cap B \subseteq F)
  BY <1>1, <1>4, <1>5, FS_Subset
<1> QED  BY <1>6

(* quorumpolicy.go:103-110: while one membership turns into another that   *)
(* contains it, or that it contains, a quorum of the old view and one of   *)
(* the new have a member in common that is not faulty, since both have the *)
(* stricter of the two sizes.                                              *)
THEOREM TransitionIsSafe ==
    ASSUME NEW V1, IsFiniteSet(V1), NEW V2, IsFiniteSet(V2),
           V1 \subseteq V2 \/ V2 \subseteq V1,
           NEW ratio \in Ratio, TwoThirds(ratio),
           NEW rules, rules.isTransitioning, rules.globalRatio = ratio,
           rules.oldTotalN = Cardinality(V1), rules.newTotalN = Cardinality(V2),
           NEW F \in SUBSET (V1 \cup V2),
           3 * Cardinality(F) < Cardinality(V1 \cup V2),
           NEW A \in SUBSET V1, Cardinality(A) >= QuorumSize(rules, "QCGlobal"),
           NEW B \in SUBSET V2, Cardinality(B) >= QuorumSize(rules, "QCGlobal")
    PROVE  \E v \in A \cap B : v \notin F
<1> DEFINE V == V1 \cup V2
<1>1. V = V1 \/ V = V2
  OBVIOUS
<1>2. IsFiniteSet(V) /\ Cardinality(V1) \in Nat /\ Cardinality(V2) \in Nat
  BY <1>1, FS_CardinalityType
<1>3. /\ Calc(Cardinality(V1), ratio) \in Nat
      /\ Calc(Cardinality(V2), ratio) \in Nat
  BY <1>2, CalcExceeds
<1>4. QuorumSize(rules, "QCGlobal") =
          Stricter(Calc(Cardinality(V1), ratio), Calc(Cardinality(V2), ratio))
  BY DEF QuorumSize
<1>5. Cardinality(A) \in Nat /\ Cardinality(B) \in Nat
  BY FS_Subset, FS_CardinalityType
<1>6. /\ Cardinality(A) >= Calc(Cardinality(V), ratio)
      /\ Cardinality(B) >= Calc(Cardinality(V), ratio)
  <2> DEFINE c1 == Calc(Cardinality(V1), ratio)
             c2 == Calc(Cardinality(V2), ratio)
             q  == QuorumSize(rules, "QCGlobal")
  <2>1. c1 \in Nat /\ c2 \in Nat /\ q = Stricter(c1, c2)
    BY <1>3, <1>4
  <2>2. Cardinality(A) >= q /\ Cardinality(B) >= q
    OBVIOUS
  <2>3. Calc(Cardinality(V), ratio) = c1 \/ Calc(Cardinality(V), ratio) = c2
    BY <1>1
  <2> HIDE DEF c1, c2, q
  <2>4. q \in Nat /\ q >= c1 /\ q >= c2
    BY <2>1 DEF Stricter
  <2> HIDE DEF V
  <2> QED  BY <1>5, <2>1, <2>2, <2>3, <2>4
<1>7. /\ A \in SUBSET V /\ B \in SUBSET V /\ F \in SUBSET V
      /\ 3 * Cardinality(F) < Cardinality(V)
  OBVIOUS
<1> HIDE DEF V
<1> QED  BY <1>2, <1>6, <1>7, QuorumsIntersect

(* With the ratio of config.go:96 and n = 3f + 1 validators the threshold  *)
(* is the 2f + 1 of the comments (quorumpolicy.go:78) up to f = 32 ...     *)
THEOREM TwoFPlusOne ==
    ASSUME NEW f \in 0 .. 32
    PROVE  Calc(3 * f + 1, DefaultGlobalRatio) = 2 * f + 1
BY DEF Calc, DefaultGlobalRatio

(* ... and more than the 2f + 1 that are left when f validators do not     *)
(* vote from there on: 67 of 100 voters that are not faulty are no quorum. *)
THEOREM BeyondTheHonest ==
    ASSUME NEW f \in Nat, f >= 33
    PROVE  Calc(3 * f + 1, DefaultGlobalRatio) > (3 * f + 1) - f
BY DEF Calc, DefaultGlobalRatio

-----------------------------------------------------------------------------
(***************************************************************************)
(* Proposals.                                                              *)
(***************************************************************************)
OneVoteEach(votes) == \A v, w \in votes : v.from = w.from => v = w

TrueToBallot(votes, r) ==
    \A v \in votes : v.from \in Honest => v.hash = Ballot[v.from][r]

PoolsSound ==
    \A n \in Validators : /\ OneVoteEach(votePool[n])
                          /\ TrueToBallot(votePool[n], round[n])

(* What a caller has collected stays a quorum of its round, whatever       *)
(* becomes of the pool meanwhile.                                          *)
CallsSound ==
    \A c \in Caller : pc[c] # "idle" =>
        /\ OneVoteEach(quorumVotes[c])
        /\ TrueToBallot(quorumVotes[c], votedRound[c])
        /\ Cardinality(quorumVotes[c]) >= QuorumSize(policy, qcType[c])

Living(b) == b.life = life[Home[b.caller]]

(* The mark covers what was sent in this life, or its sender will see to   *)
(* that; and one that is about to send has not sent for this round.        *)
MarksCover ==
    \A b \in broadcast :
        /\ b.life <= life[Home[b.caller]]
        /\ Living(b) => \/ b.vertex.round <= lastProposedRound[Home[b.caller]]
                        \/ /\ pc[b.caller] = "mark"
                           /\ b.vertex.round = votedRound[b.caller] + 1
        /\ Living(b) /\ pc[b.caller] = "send" =>
              b.vertex.round # votedRound[b.caller] + 1

ProposerInv ==
    /\ ProposerTypeOK /\ PoolsSound /\ CallsSound /\ MarksCover
    /\ Justified /\ AtMostOncePerCaller

-----------------------------------------------------------------------------
(***************************************************************************)
(* Evidence and parents of one vertex.                                     *)
(***************************************************************************)
(* The certificate maps every voter to what it voted for, one entry for    *)
(* each vote, so that counting signatures counts votes.                    *)
LEMMA SignaturesSound ==
    ASSUME NEW votes \in SUBSET Vote, OneVoteEach(votes)
    PROVE  /\ DOMAIN Signatures(votes) = {v.from : v \in votes}
           /\ \A v \in votes : Signatures(votes)[v.from] = v.hash
           /\ Range(Signatures(votes)) = {v.hash : v \in votes}
           /\ Signatures(votes) \in [{v.from : v \in votes} -> Hash]
           /\ {v.from : v \in votes} \in SUBSET Validators
           /\ Cardinality(DOMAIN Signatures(votes)) = Cardinality(votes)
<1> DEFINE F == {v.from : v \in votes}
           s == Signatures(votes)
           voteOf == [f \in F |-> CHOOSE v \in votes : v.from = f]
<1>1. \A f \in F : voteOf[f] \in votes /\ voteOf[f].from = f
  OBVIOUS
<1>2. \A v \in votes : v.from \in F /\ voteOf[v.from] = v
  BY <1>1 DEF OneVoteEach
<1>3. s = [f \in F |-> voteOf[f].hash]
  BY DEF Signatures
<1>4. F \in SUBSET Validators /\ \A v \in votes : v.hash \in Hash
  BY DEF Vote
<1>5. voteOf \in [F -> votes]
  BY <1>1
<1> HIDE DEF voteOf, F, s
<1>6. \A v \in votes : s[v.from] = v.hash
  BY <1>2, <1>3
<1>7. Range(s) = {v.hash : v \in votes}
  <2>1. DOMAIN s = F
    BY <1>3
  <2>2. ASSUME NEW f \in F PROVE s[f] \in {v.hash : v \in votes}
    BY <1>1, <1>3
  <2>3. ASSUME NEW v \in votes PROVE v.hash \in Range(s)
    BY <1>2, <1>6, <2>1 DEF Range
  <2> QED  BY <2>1, <2>2, <2>3 DEF Range
<1>8. Cardinality(F) = Cardinality(votes)
  <2>1. \A f, g \in F : voteOf[f] = voteOf[g] => f = g
    BY <1>1
  <2>2. \A v \in votes : \E f \in F : voteOf[f] = v
    BY <1>2
  <2>3. voteOf \in Bijection(F, votes)
    BY <1>5, <2>1, <2>2 DEF Bijection, Injection, Surjection, IsInjective
  <2>4. IsFiniteSet(F)
    BY <1>4, FS_Subset, ProposerAssumption
  <2> QED  BY <2>3, <2>4, FS_Bijection DEF ExistsBijection
<1>9. s \in [F -> Hash] /\ DOMAIN s = F
  BY <1>1, <1>3, <1>4
<1> QED  BY <1>4, <1>6, <1>7, <1>8, <1>9 DEF F, s

(* However the map of hashes is listed, the parents come out canonical.    *)
LEMMA ParentsSound ==
    ASSUME NEW S \in SUBSET Hash
    PROVE  /\ Range(SortHashes(SomeOrder(S))) = S
           /\ ~CheckMalformed(SortHashes(SomeOrder(S)))
<1> DEFINE s == SortVertices(S)
           t == SomeOrder(S)
           n == Len(s)
<1>1. S \in SUBSET Nat /\ IsFiniteSet(S)
  BY FS_Subset, VertexAssumption
<1>2. /\ s \in Seq(S) /\ Range(s) = S /\ IsInjective(s)
      /\ n = Cardinality(S)
      /\ \A i, j \in 1 .. n : i < j => s[i] < s[j]
  BY <1>1, SortVerticesSorts, SortVerticesInjective
<1> HIDE DEF s
<1>3. n \in Nat /\ DOMAIN s = 1 .. n /\ \A i \in 1 .. n : s[i] \in S
  BY <1>2
<1>4. t = [i \in 1 .. n |-> s[n + 1 - i]]
  BY DEF SomeOrder, s
<1> HIDE DEF t, n
<1>5. \A i \in 1 .. n : n + 1 - i \in 1 .. n /\ n + 1 - (n + 1 - i) = i
  BY <1>3
<1>6. t \in Seq(Nat) /\ DOMAIN t = 1 .. n
  <2>1. \A i \in 1 .. n : t[i] \in Nat
    BY <1>1, <1>3, <1>4, <1>5
  <2> QED  BY <1>3, <1>4, <2>1
<1>7. IsInjective(t)
  <2> SUFFICES ASSUME NEW i \in 1 .. n, NEW j \in 1 .. n, t[i] = t[j]
               PROVE  i = j
    BY <1>6 DEF IsInjective
  <2>1. s[n + 1 - i] = s[n + 1 - j]
    BY <1>4
  <2>2. n + 1 - i = n + 1 - j
    BY <1>2, <1>3, <1>5, <2>1 DEF IsInjective
  <2> QED  BY <1>3, <2>2
<1>8. Range(t) = S
  <2>1. ASSUME NEW i \in 1 .. n PROVE t[i] \in S
    BY <1>3, <1>4, <1>5
  <2>2. ASSUME NEW h \in S PROVE \E i \in 1 .. n : t[i] = h
    <3>1. PICK i \in 1 .. n : s[i] = h
      BY <1>2, <1>3 DEF Range
    <3>2. t[n + 1 - i] = h
      BY <1>4, <1>5, <3>1
    <3> QED  BY <1>5, <3>2
  <2> QED  BY <1>6, <2>1, <2>2 DEF Range
<1>9. SortHashes(t) = s
  BY <1>6, <1>7, <1>8, SortHashesIsCanonical DEF s
<1>10. ~CheckMalformed(s)
  <2> SUFFICES ASSUME NEW i \in 1 .. Len(s) - 1
               PROVE  s[i] # s[i + 1] /\ ~(s[i] > s[i + 1])
    BY DEF CheckMalformed
  <2>1. i \in 1 .. n /\ i + 1 \in 1 .. n /\ i < i + 1
    BY <1>3 DEF n
  <2>2. s[i] < s[i + 1] /\ s[i] \in Nat /\ s[i + 1] \in Nat
    BY <1>1, <1>2, <1>3, <2>1
  <2> QED  BY <2>2
<1> QED  BY <1>2, <1>9, <1>10 DEF t

-----------------------------------------------------------------------------
(***************************************************************************)
(* The invariant.                                                          *)
(***************************************************************************)
LEMMA InitInv == Init => ProposerInv
<1> SUFFICES ASSUME Init PROVE ProposerInv
  OBVIOUS
<1>1. MaxRound \in Nat /\ MaxRestarts \in Nat /\ 0 \in Rounds /\ "QCGlobal" \in QCType
  BY ProposerAssumption DEF Rounds, QCType
<1>2. ProposerTypeOK
  BY <1>1 DEF Init, ProposerTypeOK
<1> QED
  BY <1>2 DEF Init, ProposerInv, PoolsSound, CallsSound, MarksCover, Justified,
     AtMostOncePerCaller, OneVoteEach, TrueToBallot

(* Steps that send nothing leave what is said of the vertices sent alone.  *)
LEMMA NothingSent ==
    ASSUME broadcast' = broadcast, Justified, AtMostOncePerCaller
    PROVE  Justified' /\ AtMostOncePerCaller'
BY DEF Justified, AtMostOncePerCaller, IsQuorum

LEMMA CastVoteStep ==
    ASSUME ProposerInv, NEW n \in Validators, NEW vote \in Vote, CastVote(n, vote)
    PROVE  ProposerInv'
<1> USE DEF ProposerInv
<1>1. ProposerTypeOK'
  BY DEF CastVote, ProposerTypeOK
<1>2. PoolsSound'
  <2> SUFFICES ASSUME NEW m \in Validators
               PROVE  (OneVoteEach(votePool[m]) /\ TrueToBallot(votePool[m], round[m]))'
    BY DEF PoolsSound
  <2>1. OneVoteEach(votePool[m]) /\ TrueToBallot(votePool[m], round[m]) /\ round' = round
    BY DEF PoolsSound, CastVote
  <2>2. CASE m # n
    BY <2>1, <2>2 DEF CastVote, ProposerTypeOK, OneVoteEach, TrueToBallot
  <2>3. CASE m = n
    <3>1. votePool'[m] = votePool[m] \cup {vote}
      BY <2>3 DEF CastVote, ProposerTypeOK
    <3>2. /\ \A v \in votePool[m] : v.from # vote.from
          /\ vote.from \in Honest => vote.hash = Ballot[vote.from][round[m]]
      BY <2>3 DEF CastVote
    <3> QED  BY <2>1, <3>1, <3>2 DEF OneVoteEach, TrueToBallot
  <2> QED  BY <2>2, <2>3
<1>3. CallsSound' /\ MarksCover'
  BY DEF CastVote, CallsSound, MarksCover, Living, OneVoteEach, TrueToBallot
<1> QED  BY <1>1, <1>2, <1>3, NothingSent DEF CastVote

LEMMA AdvanceRoundStep ==
    ASSUME ProposerInv, NEW n \in Validators, AdvanceRound(n)
    PROVE  ProposerInv'
<1> USE DEF ProposerInv
<1>1. ProposerTypeOK'
  <2>1. round[n] + 1 \in Rounds
    BY ProposerAssumption DEF AdvanceRound, ProposerTypeOK, Rounds
  <2> QED  BY <2>1 DEF AdvanceRound, ProposerTypeOK
<1>2. PoolsSound'
  <2> SUFFICES ASSUME NEW m \in Validators
               PROVE  (OneVoteEach(votePool[m]) /\ TrueToBallot(votePool[m], round[m]))'
    BY DEF PoolsSound
  <2>1. OneVoteEach(votePool[m]) /\ TrueToBallot(votePool[m], round[m])
    BY DEF PoolsSound
  <2>2. CASE m # n
    <3>1. round'[m] = round[m] /\ votePool'[m] = votePool[m]
      BY <2>2 DEF AdvanceRound, ProposerTypeOK
    <3> QED  BY <2>1, <3>1 DEF OneVoteEach, TrueToBallot
  <2>3. CASE m = n
    <3>1. votePool'[m] = {}
      BY <2>3 DEF AdvanceRound, ProposerTypeOK
    <3> QED  BY <3>1 DEF OneVoteEach, TrueToBallot
  <2> QED  BY <2>2, <2>3
<1>3. CallsSound' /\ MarksCover'
  BY DEF AdvanceRound, CallsSound, MarksCover, Living, OneVoteEach, TrueToBallot
<1> QED  BY <1>1, <1>2, <1>3, NothingSent DEF AdvanceRound

LEMMA RestartStep ==
    ASSUME ProposerInv, NEW n \in Validators, Restart(n)
    PROVE  ProposerInv'
<1> USE DEF ProposerInv
<1>1. ProposerTypeOK'
  <2>1. life[n] + 1 \in 0 .. MaxRestarts /\ 0 \in Rounds /\ -1 \in -1 .. MaxRound + 1
    BY ProposerAssumption DEF Restart, ProposerTypeOK, Rounds
  <2>2. /\ round' \in [Validators -> Rounds]
        /\ lastProposedRound' \in [Validators -> -1 .. MaxRound + 1]
        /\ votePool' \in [Validators -> SUBSET Vote]
        /\ life' \in [Validators -> 0 .. MaxRestarts]
    BY <2>1 DEF Restart, ProposerTypeOK
  <2>3. /\ pc' \in [Caller -> {"idle", "guard", "send", "mark"}]
        /\ quorumVotes' \in [Caller -> SUBSET Vote]
    BY DEF Restart, ProposerTypeOK, Forget
  <2>4. votedRound' \in [Caller -> Rounds] /\ qcType' \in [Caller -> QCType]
    BY <2>1 DEF Restart, ProposerTypeOK, Forget, QCType
  <2> QED  BY <2>2, <2>3, <2>4 DEF Restart, ProposerTypeOK
<1>2. PoolsSound'
  <2> SUFFICES ASSUME NEW m \in Validators
               PROVE  (OneVoteEach(votePool[m]) /\ TrueToBallot(votePool[m], round[m]))'
    BY DEF PoolsSound
  <2>1. OneVoteEach(votePool[m]) /\ TrueToBallot(votePool[m], round[m])
    BY DEF PoolsSound
  <2>2. CASE m # n
    <3>1. round'[m] = round[m] /\ votePool'[m] = votePool[m]
      BY <2>2 DEF Restart, ProposerTypeOK
    <3> QED  BY <2>1, <3>1 DEF OneVoteEach, TrueToBallot
  <2>3. CASE m = n
    <3>1. votePool'[m] = {}
      BY <2>3 DEF Restart, ProposerTypeOK
    <3> QED  BY <3>1 DEF OneVoteEach, TrueToBallot
  <2> QED  BY <2>2, <2>3
<1>3. \A c \in Caller : IF Home[c] = n
                        THEN pc'[c] = "idle"
                        ELSE /\ pc'[c] = pc[c]
                             /\ quorumVotes'[c] = quorumVotes[c]
                             /\ votedRound'[c] = votedRound[c]
                             /\ qcType'[c] = qcType[c]
  BY DEF Restart, Forget
<1>4. CallsSound'
  BY <1>3 DEF CallsSound, OneVoteEach, TrueToBallot
<1>5. MarksCover'
  <2> SUFFICES ASSUME NEW b \in broadcast
               PROVE  (/\ b.life <= life[Home[b.caller]]
                       /\ Living(b) => \/ b.vertex.round <= lastProposedRound[Home[b.caller]]
                                       \/ /\ pc[b.caller] = "mark"
                                          /\ b.vertex.round = votedRound[b.caller] + 1
                       /\ Living(b) /\ pc[b.caller] = "send" =>
                             b.vertex.round # votedRound[b.caller] + 1)'
    BY DEF MarksCover, Restart
  <2>1. b.caller \in Caller /\ b.life \in Nat /\ Home[b.caller] \in Validators
        /\ life[Home[b.caller]] \in Nat
    BY ProposerAssumption DEF ProposerTypeOK
  <2>2. b.life <= life[Home[b.caller]]
    BY DEF MarksCover
  <2>3. CASE Home[b.caller] = n
    <3>1. life'[Home[b.caller]] = life[Home[b.caller]] + 1
      BY <2>1, <2>3 DEF Restart, ProposerTypeOK
    <3> QED  BY <2>1, <2>2, <3>1 DEF Living
  <2>4. CASE Home[b.caller] # n
    <3>1. /\ life'[Home[b.caller]] = life[Home[b.caller]]
          /\ lastProposedRound'[Home[b.caller]] = lastProposedRound[Home[b.caller]]
      BY <2>1, <2>4 DEF Restart, ProposerTypeOK
    <3> QED  BY <1>3, <2>1, <2>4, <3>1 DEF MarksCover, Living
  <2> QED  BY <2>3, <2>4
<1> QED  BY <1>1, <1>2, <1>4, <1>5, NothingSent DEF Restart

LEMMA CheckQuorumStep ==
    ASSUME ProposerInv, NEW c \in Caller, NEW type \in QCType, CheckQuorum(c, type)
    PROVE  ProposerInv'
<1> USE DEF ProposerInv
<1>1. Home[c] \in Validators
  BY ProposerAssumption
<1>2. ProposerTypeOK'
  BY <1>1 DEF CheckQuorum, ProposerTypeOK
<1>3. PoolsSound'
  BY DEF CheckQuorum, PoolsSound, OneVoteEach, TrueToBallot
<1>4. \A d \in Caller : d # c => /\ pc'[d] = pc[d]
                                 /\ quorumVotes'[d] = quorumVotes[d]
                                 /\ votedRound'[d] = votedRound[d]
                                 /\ qcType'[d] = qcType[d]
  BY DEF CheckQuorum, ProposerTypeOK
<1>5. /\ pc[c] = "idle" /\ pc'[c] = "guard"
      /\ quorumVotes'[c] = votePool[Home[c]]
      /\ votedRound'[c] = round[Home[c]]
      /\ qcType'[c] = type
      /\ Cardinality(votePool[Home[c]]) >= QuorumSize(policy, type)
  BY DEF CheckQuorum, ProposerTypeOK
<1>6. CallsSound'
  BY <1>1, <1>4, <1>5 DEF CallsSound, PoolsSound, OneVoteEach, TrueToBallot
<1>7. MarksCover'
  BY <1>4, <1>5 DEF MarksCover, Living, CheckQuorum, ProposerTypeOK
<1> QED  BY <1>2, <1>3, <1>6, <1>7, NothingSent DEF CheckQuorum

(* A caller that returns keeps nothing.                                    *)
LEMMA ReturnSound ==
    ASSUME ProposerInv, NEW c \in Caller, Return(c)
    PROVE  /\ pc' \in [Caller -> {"idle", "guard", "send", "mark"}]
           /\ quorumVotes' \in [Caller -> SUBSET Vote]
           /\ votedRound' \in [Caller -> Rounds]
           /\ qcType' \in [Caller -> QCType]
           /\ pc'[c] = "idle"
           /\ \A d \in Caller : d # c => /\ pc'[d] = pc[d]
                                         /\ quorumVotes'[d] = quorumVotes[d]
                                         /\ votedRound'[d] = votedRound[d]
                                         /\ qcType'[d] = qcType[d]
           /\ CallsSound'
<1> USE DEF ProposerInv
<1>1. 0 \in Rounds /\ "QCGlobal" \in QCType
  BY ProposerAssumption DEF Rounds, QCType
<1>2. /\ pc' \in [Caller -> {"idle", "guard", "send", "mark"}]
      /\ quorumVotes' \in [Caller -> SUBSET Vote]
      /\ votedRound' \in [Caller -> Rounds]
      /\ qcType' \in [Caller -> QCType]
  BY <1>1 DEF Return, ProposerTypeOK
<1>3. /\ pc'[c] = "idle"
      /\ \A d \in Caller : d # c => /\ pc'[d] = pc[d]
                                    /\ quorumVotes'[d] = quorumVotes[d]
                                    /\ votedRound'[d] = votedRound[d]
                                    /\ qcType'[d] = qcType[d]
  BY DEF Return, ProposerTypeOK
<1>4. CallsSound'
  BY <1>3 DEF CallsSound, OneVoteEach, TrueToBallot
<1> QED  BY <1>2, <1>3, <1>4

LEMMA GuardStep ==
    ASSUME ProposerInv, NEW c \in Caller, Guard(c)
    PROVE  ProposerInv'
<1> USE DEF ProposerInv
<1>1. PoolsSound'
  BY DEF Guard, PoolsSound, OneVoteEach, TrueToBallot
<1>2. CASE AlreadyProposed(Home[c], votedRound[c] + 1)
  <2>1. Return(c) /\ pc[c] = "guard"
    BY <1>2 DEF Guard
  <2>2. ProposerTypeOK'
    BY <2>1, ReturnSound DEF Guard, ProposerTypeOK
  <2>3. MarksCover'
    BY <2>1, ReturnSound DEF MarksCover, Living, Guard, ProposerTypeOK
  <2> QED  BY <1>1, <2>1, <2>2, <2>3, ReturnSound, NothingSent DEF Guard
<1>3. CASE ~AlreadyProposed(Home[c], votedRound[c] + 1)
  <2>1. /\ pc[c] = "guard" /\ pc' = [pc EXCEPT ![c] = "send"]
        /\ UNCHANGED <<round, lastProposedRound, votePool, quorumVotes, votedRound,
                       qcType, life, broadcast>>
    BY <1>3 DEF Guard
  <2>2. ProposerTypeOK'
    BY <2>1 DEF ProposerTypeOK
  <2>3. CallsSound'
    BY <2>1 DEF CallsSound, OneVoteEach, TrueToBallot, ProposerTypeOK
  <2>4. /\ ~(votedRound[c] + 1 <= lastProposedRound[Home[c]])
        /\ pc'[c] = "send" /\ \A d \in Caller : d # c => pc'[d] = pc[d]
    BY <1>3, <2>1 DEF AlreadyProposed, ProposerTypeOK
  <2>5. MarksCover'
    BY <2>1, <2>4 DEF MarksCover, Living, ProposerTypeOK
  <2> QED  BY <1>1, <2>1, <2>2, <2>3, <2>5, NothingSent
<1> QED  BY <1>2, <1>3

LEMMA MarkStep ==
    ASSUME ProposerInv, NEW c \in Caller, Mark(c)
    PROVE  ProposerInv'
<1> USE DEF ProposerInv
<1> DEFINE n == Home[c]
<1>1. n \in Validators /\ pc[c] = "mark" /\ Return(c)
  BY ProposerAssumption DEF Mark
<1>2. /\ lastProposedRound[n] \in -1 .. MaxRound + 1
      /\ votedRound[c] + 1 \in -1 .. MaxRound + 1
      /\ votedRound[c] + 1 \in Int
  BY <1>1, ProposerAssumption DEF ProposerTypeOK, Rounds
<1>3. /\ lastProposedRound'[n] \in -1 .. MaxRound + 1
      /\ lastProposedRound'[n] >= lastProposedRound[n]
      /\ lastProposedRound'[n] >= votedRound[c] + 1
  BY <1>1, <1>2 DEF Mark, MarkAsProposed, ProposerTypeOK
<1>4. \A m \in Validators : m # n => lastProposedRound'[m] = lastProposedRound[m]
  BY DEF Mark, ProposerTypeOK
<1>5. ProposerTypeOK'
  <2>1. lastProposedRound' \in [Validators -> -1 .. MaxRound + 1]
    BY <1>1, <1>3 DEF Mark, ProposerTypeOK
  <2> QED  BY <1>1, <2>1, ReturnSound DEF Mark, ProposerTypeOK
<1>6. PoolsSound'
  BY DEF Mark, PoolsSound, OneVoteEach, TrueToBallot
<1>7. MarksCover'
  <2> SUFFICES ASSUME NEW b \in broadcast
               PROVE  (/\ b.life <= life[Home[b.caller]]
                       /\ Living(b) => \/ b.vertex.round <= lastProposedRound[Home[b.caller]]
                                       \/ /\ pc[b.caller] = "mark"
                                          /\ b.vertex.round = votedRound[b.caller] + 1
                       /\ Living(b) /\ pc[b.caller] = "send" =>
                             b.vertex.round # votedRound[b.caller] + 1)'
    BY DEF MarksCover, Mark
  <2>1. /\ b.caller \in Caller /\ b.vertex.round \in Int
        /\ Home[b.caller] \in Validators
        /\ lastProposedRound[Home[b.caller]] \in Int
        /\ lastProposedRound'[Home[b.caller]] \in Int
        /\ life' = life
    BY <1>3, <1>4, ProposerAssumption DEF ProposerTypeOK, Mark
  <2>2. lastProposedRound'[Home[b.caller]] >= lastProposedRound[Home[b.caller]]
    BY <1>3, <1>4, <2>1
  <2>3. CASE b.caller = c
    <3>1. Living(b) => \/ b.vertex.round <= lastProposedRound[n]
                       \/ b.vertex.round = votedRound[c] + 1
      BY <2>3 DEF MarksCover
    <3>2. Living(b) => b.vertex.round <= lastProposedRound'[n]
      BY <1>2, <1>3, <2>1, <3>1
    <3> QED  BY <1>1, <2>1, <2>3, <3>2, ReturnSound DEF MarksCover, Living
  <2>4. CASE b.caller # c
    <3>1. pc'[b.caller] = pc[b.caller] /\ votedRound'[b.caller] = votedRound[b.caller]
      BY <1>1, <2>1, <2>4, ReturnSound
    <3> QED  BY <2>1, <2>2, <3>1 DEF MarksCover, Living
  <2> QED  BY <2>3, <2>4
<1> QED  BY <1>1, <1>5, <1>6, <1>7, ReturnSound, NothingSent DEF Mark

(* What is sent rests on the quorum its sender has collected.              *)
LEMMA SentJustified ==
    ASSUME ProposerInv, NEW c \in Caller, pc[c] = "send",
           NEW vote \in quorumVotes[c], NEW now
    PROVE  LET v == NewVertex(c, vote.hash, now)
           IN  /\ v.qc \in QC
               /\ v.round \in 1 .. MaxRound + 1
               /\ IsQuorum(policy, v.qc)
               /\ v.round = v.qc.round + 1
               /\ ~CheckMalformed(v.parents)
               /\ Range(v.parents) = Range(v.qc.signatures)
               /\ v.qc.vertexHash \in Range(v.parents)
               /\ \A s \in Honest \cap DOMAIN v.qc.signatures :
                      v.qc.signatures[s] = Ballot[s][v.qc.round]
<1> DEFINE votes == quorumVotes[c]
           S == {v.hash : v \in votes}
           F == {v.from : v \in votes}
           x == NewVertex(c, vote.hash, now)
<1>1. /\ votes \in SUBSET Vote /\ OneVoteEach(votes)
      /\ TrueToBallot(votes, votedRound[c])
      /\ Cardinality(votes) >= QuorumSize(policy, qcType[c])
  BY DEF ProposerInv, ProposerTypeOK, CallsSound
<1>2. S \in SUBSET Hash /\ vote.hash \in S
  BY <1>1 DEF Vote
<1>3. /\ DOMAIN Signatures(votes) = F
      /\ \A v \in votes : Signatures(votes)[v.from] = v.hash
      /\ Range(Signatures(votes)) = S
      /\ Signatures(votes) \in [F -> Hash]
      /\ F \in SUBSET Validators
      /\ Cardinality(DOMAIN Signatures(votes)) = Cardinality(votes)
  BY <1>1, SignaturesSound
<1>4. /\ x.qc = AssembleQC(c, vote.hash)
      /\ x.qc.type = qcType[c] /\ x.qc.vertexHash = vote.hash
      /\ x.qc.round = votedRound[c] /\ x.qc.signatures = Signatures(votes)
      /\ x.round = votedRound[c] + 1
      /\ x.parents = SortHashes(SomeOrder(S))
  BY DEF NewVertex, AssembleQC, ExtractHashesFromVotes
<1>5. Range(x.parents) = S /\ ~CheckMalformed(x.parents)
  BY <1>2, <1>4, ParentsSound
<1>6. votedRound[c] \in Rounds /\ qcType[c] \in QCType /\ Home[c] \in Validators
  BY ProposerAssumption DEF ProposerInv, ProposerTypeOK
<1>7. x.round \in 1 .. MaxRound + 1
  BY <1>4, <1>6, ProposerAssumption DEF Rounds
<1>8. x.qc \in QC
  <2>1. x.qc \in [type : QCType, vertexHash : Hash, round : Rounds,
                  proposerID : Validators, signatures : [F -> Hash]]
    BY <1>1, <1>2, <1>3, <1>4, <1>6 DEF AssembleQC
  <2> HIDE DEF x, F
  <2> QED  BY <1>3, <2>1 DEF QC
<1>9. ASSUME NEW s \in Honest \cap DOMAIN x.qc.signatures
      PROVE  x.qc.signatures[s] = Ballot[s][x.qc.round]
  <2>1. PICK v \in votes : v.from = s
    BY <1>3, <1>4, <1>9
  <2> QED  BY <1>1, <1>3, <1>4, <2>1 DEF TrueToBallot
<1>10. IsQuorum(policy, x.qc)
  BY <1>1, <1>3, <1>4 DEF IsQuorum
<1>11. /\ x.round = x.qc.round + 1
       /\ Range(x.parents) = Range(x.qc.signatures)
       /\ x.qc.vertexHash \in Range(x.parents)
  BY <1>2, <1>3, <1>4, <1>5
<1> HIDE DEF x
<1> QED  BY <1>5, <1>7, <1>8, <1>9, <1>10, <1>11 DEF x

LEMMA SendStep ==
    ASSUME ProposerInv, NEW c \in Caller, Send(c)
    PROVE  ProposerInv'
<1> USE DEF ProposerInv
<1>1. PICK vote \in quorumVotes[c], now \in Instant :
          broadcast' = broadcast \cup
              {[vertex |-> NewVertex(c, vote.hash, now),
                caller |-> c, life |-> life[Home[c]]]}
  BY DEF Send
<1> DEFINE x == NewVertex(c, vote.hash, now)
           e == [vertex |-> x, caller |-> c, life |-> life[Home[c]]]
<1>2. /\ x.qc \in QC
      /\ x.round \in 1 .. MaxRound + 1
      /\ IsQuorum(policy, x.qc)
      /\ x.round = x.qc.round + 1
      /\ ~CheckMalformed(x.parents)
      /\ Range(x.parents) = Range(x.qc.signatures)
      /\ x.qc.vertexHash \in Range(x.parents)
      /\ \A s \in Honest \cap DOMAIN x.qc.signatures :
             x.qc.signatures[s] = Ballot[s][x.qc.round]
  BY SentJustified DEF Send
<1>3. /\ pc[c] = "send" /\ pc' = [pc EXCEPT ![c] = "mark"]
      /\ UNCHANGED <<round, lastProposedRound, votePool, quorumVotes, votedRound,
                     qcType, life>>
  BY DEF Send
<1>4. x.round = votedRound[c] + 1
  BY DEF NewVertex
<1> HIDE DEF x
<1>5. /\ broadcast' = broadcast \cup {e} /\ e.vertex = x /\ e.caller = c
      /\ e.life = life[Home[c]]
      /\ Home[c] \in Validators /\ life[Home[c]] \in 0 .. MaxRestarts
  BY <1>1, ProposerAssumption DEF x, ProposerTypeOK
<1> HIDE DEF e
<1>6. ProposerTypeOK'
  <2>1. \A b \in broadcast' : /\ b.caller \in Caller /\ b.life \in 0 .. MaxRestarts
                              /\ b.vertex.qc \in QC
                              /\ b.vertex.round \in 1 .. MaxRound + 1
    BY <1>2, <1>5 DEF ProposerTypeOK
  <2> QED  BY <1>3, <2>1 DEF ProposerTypeOK
<1>7. PoolsSound' /\ CallsSound'
  BY <1>3 DEF PoolsSound, CallsSound, OneVoteEach, TrueToBallot, ProposerTypeOK
<1>8. pc'[c] = "mark" /\ \A d \in Caller : d # c => pc'[d] = pc[d]
  BY <1>3 DEF ProposerTypeOK
<1>9. MarksCover'
  <2> SUFFICES ASSUME NEW b \in broadcast'
               PROVE  (/\ b.life <= life[Home[b.caller]]
                       /\ Living(b) => \/ b.vertex.round <= lastProposedRound[Home[b.caller]]
                                       \/ /\ pc[b.caller] = "mark"
                                          /\ b.vertex.round = votedRound[b.caller] + 1
                       /\ Living(b) /\ pc[b.caller] = "send" =>
                             b.vertex.round # votedRound[b.caller] + 1)'
    BY DEF MarksCover
  <2>1. CASE b = e
    BY <1>3, <1>4, <1>5, <1>8, <2>1 DEF Living
  <2>2. CASE b \in broadcast
    BY <1>3, <1>8, <2>2 DEF MarksCover, Living, ProposerTypeOK
  <2> QED  BY <1>5, <2>1, <2>2
<1>10. Justified'
  <2>1. \A b \in broadcast :
            /\ IsQuorum(policy, b.vertex.qc)
            /\ b.vertex.round = b.vertex.qc.round + 1
            /\ ~CheckMalformed(b.vertex.parents)
            /\ Range(b.vertex.parents) = Range(b.vertex.qc.signatures)
            /\ b.vertex.qc.vertexHash \in Range(b.vertex.parents)
            /\ \A s \in Honest \cap DOMAIN b.vertex.qc.signatures :
                   b.vertex.qc.signatures[s] = Ballot[s][b.vertex.qc.round]
    BY DEF Justified
  <2> QED  BY <1>2, <1>5, <2>1 DEF Justified
<1>11. AtMostOncePerCaller'
  <2>1. \A b \in broadcast : b.caller = c /\ b.life = life[Home[c]] =>
                                 b.vertex.round # x.round
    BY <1>3, <1>4 DEF MarksCover, Living
  <2> QED  BY <1>5, <2>1 DEF AtMostOncePerCaller
<1> QED  BY <1>6, <1>7, <1>9, <1>10, <1>11

(* ProposerInv holds at every step.                                        *)
THEOREM ProposerInvariant == Spec => []ProposerInv
<1>1. ProposerInv /\ [Next]_vars => ProposerInv'
  <2> SUFFICES ASSUME ProposerInv, [Next]_vars PROVE ProposerInv'
    OBVIOUS
  <2>1. ASSUME NEW n \in Validators, NEW vote \in Vote, CastVote(n, vote)
        PROVE  ProposerInv'
    BY <2>1, CastVoteStep
  <2>2. ASSUME NEW n \in Validators, AdvanceRound(n) PROVE ProposerInv'
    BY <2>2, AdvanceRoundStep
  <2>3. ASSUME NEW n \in Validators, Restart(n) PROVE ProposerInv'
    BY <2>3, RestartStep
  <2>4. ASSUME NEW c \in Caller, NEW type \in QCType, CheckQuorum(c, type)
        PROVE  ProposerInv'
    BY <2>4, CheckQuorumStep
  <2>5. ASSUME NEW c \in Caller, Guard(c) PROVE ProposerInv'
    BY <2>5, GuardStep
  <2>6. ASSUME NEW c \in Caller, Send(c) PROVE ProposerInv'
    BY <2>6, SendStep
  <2>7. ASSUME NEW c \in Caller, Mark(c) PROVE ProposerInv'
    BY <2>7, MarkStep
  <2>8. CASE UNCHANGED vars
    BY <2>8 DEF vars, ProposerInv, ProposerTypeOK, PoolsSound, CallsSound, MarksCover,
       Living, Justified, AtMostOncePerCaller, OneVoteEach, TrueToBallot, IsQuorum
  <2> QED  BY <2>1, <2>2, <2>3, <2>4, <2>5, <2>6, <2>7, <2>8 DEF Next, Propose
<1> QED  BY <1>1, InitInv, PTL DEF Spec

(* The state of every replica and caller stays well typed.                 *)
THEOREM ProposerTyped == Spec => []ProposerTypeOK
<1>1. ProposerInv => ProposerTypeOK
  BY DEF ProposerInv
<1> QED  BY <1>1, ProposerInvariant, PTL

(* Every vertex sent carries a quorum for the round before it, and parents *)
(* in canonical order that are exactly what its signers voted for.         *)
THEOREM ProposalsJustified == Spec => []Justified
<1>1. ProposerInv => Justified
  BY DEF ProposerInv
<1> QED  BY <1>1, ProposerInvariant, PTL

(* However many callers race, none of them sends twice for one round in    *)
(* one life of its replica.                                                *)
THEOREM OncePerCaller == Spec => []AtMostOncePerCaller
<1>1. ProposerInv => AtMostOncePerCaller
  BY DEF ProposerInv
<1> QED  BY <1>1, ProposerInvariant, PTL

(* Whoever calls Propose at a replica signs with that replica's name.      *)
AuthoredAtHome == \A b \in broadcast : b.vertex.author = Home[b.caller]

LEMMA AuthorIsHome == Spec => []AuthoredAtHome
<1>1. Init => AuthoredAtHome
  BY DEF Init, AuthoredAtHome
<1>2. AuthoredAtHome /\ [Next]_vars => AuthoredAtHome'
  <2> SUFFICES ASSUME AuthoredAtHome, [Next]_vars PROVE AuthoredAtHome'
    OBVIOUS
  <2>1. ASSUME NEW c \in Caller, Send(c) PROVE AuthoredAtHome'
    <3>1. PICK vote \in quorumVotes[c], now \in Instant :
              broadcast' = broadcast \cup
                  {[vertex |-> NewVertex(c, vote.hash, now),
                    caller |-> c, life |-> life[Home[c]]]}
      BY <2>1 DEF Send
    <3>2. NewVertex(c, vote.hash, now).author = Home[c]
      BY DEF NewVertex
    <3>3. PICK x : x = NewVertex(c, vote.hash, now)
      OBVIOUS
    <3> QED  BY <3>1, <3>2, <3>3 DEF AuthoredAtHome
  <2>2. CASE UNCHANGED broadcast
    BY <2>2 DEF AuthoredAtHome
  <2> QED  BY <2>1, <2>2
           DEF Next, Propose, CheckQuorum, Guard, Mark, AdvanceRound, Restart, CastVote, vars
<1> QED  BY <1>1, <1>2, PTL DEF Spec

(* The promise of proposer.go:14, where it can be kept: with one goroutine *)
(* at most that proposes for a replica, and no restart, an author sends no *)
(* two vertices for one round.  Neither condition can be dropped: the run  *)
(* of ProposerEquivocation.cfg has two callers and no restart, and a mark  *)
(* that is lost with the process allows one caller the same.               *)
THEOREM OneCallerNeverEquivocates ==
    ASSUME \A c, d \in Caller : Home[c] = Home[d] => c = d,
           MaxRestarts = 0
    PROVE  Spec => []AtMostOncePerRound
<1>1. ProposerInv /\ AuthoredAtHome => AtMostOncePerRound
  <2> SUFFICES ASSUME ProposerInv, AuthoredAtHome,
                      NEW b1 \in broadcast, NEW b2 \in broadcast,
                      b1.vertex.author = b2.vertex.author,
                      b1.vertex.round = b2.vertex.round
               PROVE  b1.vertex = b2.vertex
    BY DEF AtMostOncePerRound
  <2>1. \A b \in broadcast : b.caller \in Caller /\ b.life \in 0 .. MaxRestarts
    BY DEF ProposerInv, ProposerTypeOK
  <2>2. b1.caller = b2.caller
    BY <2>1 DEF AuthoredAtHome
  <2>3. b1.life = b2.life
    BY <2>1
  <2> QED  BY <2>2, <2>3 DEF ProposerInv, AtMostOncePerCaller
<1> QED  BY <1>1, ProposerInvariant, AuthorIsHome, PTL

(* Two vertices with global quorums of one round share the vote of an      *)
(* honest validator, hence a parent: by the intersection of quorums.       *)
THEOREM EvidenceAlwaysShared == Spec => []EvidenceShared
<1>1. ProposerInv => EvidenceShared
  <2> SUFFICES ASSUME ProposerInv, NEW b1 \in broadcast, NEW b2 \in broadcast,
                      b1.vertex.qc.type = "QCGlobal", b2.vertex.qc.type = "QCGlobal",
                      b1.vertex.qc.round = b2.vertex.qc.round
               PROVE  \E s \in Honest :
                          /\ s \in DOMAIN b1.vertex.qc.signatures
                          /\ s \in DOMAIN b2.vertex.qc.signatures
                          /\ Ballot[s][b1.vertex.qc.round]
                                 \in Range(b1.vertex.parents)
                                     \cap Range(b2.vertex.parents)
    BY DEF EvidenceShared
  <2> DEFINE A == DOMAIN b1.vertex.qc.signatures
             B == DOMAIN b2.vertex.qc.signatures
             F == Validators \ Honest
  <2>1. ASSUME NEW b \in broadcast
        PROVE  DOMAIN b.vertex.qc.signatures \in SUBSET Validators
    BY DEF ProposerInv, ProposerTypeOK, QC
  <2>2. QuorumSize(policy, "QCGlobal") = Calc(Cardinality(Validators), GlobalQuorumRatio)
    BY FaultAssumption DEF policy, NewDynamicQuorumPolicy, QuorumSize
  <2>3. /\ Cardinality(A) >= Calc(Cardinality(Validators), GlobalQuorumRatio)
        /\ Cardinality(B) >= Calc(Cardinality(Validators), GlobalQuorumRatio)
    BY <2>2 DEF ProposerInv, Justified, IsQuorum
  <2>4. GlobalQuorumRatio \in Ratio /\ TwoThirds(GlobalQuorumRatio)
    BY ProposerAssumption, FaultAssumption DEF Ratio, TwoThirds, Positive
  <2>5. /\ IsFiniteSet(Validators) /\ F \in SUBSET Validators
        /\ 3 * Cardinality(F) < Cardinality(Validators)
    BY ProposerAssumption, FaultAssumption
  <2>6. A \in SUBSET Validators /\ B \in SUBSET Validators
    BY <2>1
  <2>7. PICK s \in A \cap B : s \notin F
    BY <2>3, <2>4, <2>5, <2>6, QuorumsIntersect
  <2>8. s \in Honest
    BY <2>6, <2>7
  <2>9. /\ b1.vertex.qc.signatures[s] = Ballot[s][b1.vertex.qc.round]
        /\ b2.vertex.qc.signatures[s] = Ballot[s][b1.vertex.qc.round]
    BY <2>7, <2>8 DEF ProposerInv, Justified
  <2>10. /\ Ballot[s][b1.vertex.qc.round] \in Range(b1.vertex.parents)
         /\ Ballot[s][b1.vertex.qc.round] \in Range(b2.vertex.parents)
    <3>1. /\ b1.vertex.qc.signatures[s] \in Range(b1.vertex.qc.signatures)
          /\ b2.vertex.qc.signatures[s] \in Range(b2.vertex.qc.signatures)
      BY <2>7 DEF Range
    <3>2. /\ Range(b1.vertex.parents) = Range(b1.vertex.qc.signatures)
          /\ Range(b2.vertex.parents) = Range(b2.vertex.qc.signatures)
      BY DEF ProposerInv, Justified
    <3> QED  BY <2>9, <3>1, <3>2
  <2> QED  BY <2>7, <2>8, <2>10
<1> QED  BY <1>1, ProposerInvariant, PTL
=============================================================================
