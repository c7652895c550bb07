------------------------------ MODULE Proposer ------------------------------
(***************************************************************************)
(* The proposal of vertices on the evidence of votes (consensus/proposer.go *)
(* with the state it reads and marks in replica/state.go and               *)
(* replica/consensus.go), at several replicas.                             *)
(*                                                                         *)
(* Propose takes no lock: any number of goroutines may run it at once, so  *)
(* it is split wherever another may come between.  Votes, the pool they    *)
(* are kept in and the advance of rounds are not implemented yet; they are *)
(* modelled after what Propose assumes of them: a pool holds at most one   *)
(* vote per voter and round (replica/consensus.go:39), and an honest voter *)
(* casts one vote per round, the same to everybody.  Faulty voters may     *)
(* tell every replica something else.  All that a replica knows is lost    *)
(* when it is restarted (replica/replica.go:61).                           *)
(***************************************************************************)
EXTENDS Vertex, QuorumPolicy

CONSTANTS
    TotalNodes, CommitteeNodes,                 \* config.ConsensusConfig
    GlobalQuorumRatio, CommitteeQuorumRatio,
    Honest,         \* the validators that are not faulty
    Ballot,         \* honest voter -> round -> the hash it votes for
    Caller,         \* goroutines that call Propose
    Home,           \* caller -> the replica it runs at
    Instant,        \* readings of the clock
    MaxRound,       \* bound
    MaxRestarts     \* bound

Rounds == 0 .. MaxRound

Positive == Nat \ {0}

ASSUME ProposerAssumption ==
    /\ IsFiniteSet(Validators)
    /\ TotalNodes \in Nat /\ CommitteeNodes \in Nat
    /\ GlobalQuorumRatio \in [num : Positive, den : Positive]
    /\ CommitteeQuorumRatio \in [num : Positive, den : Positive]
    /\ Honest \subseteq Validators
    /\ Ballot \in [Honest -> [Rounds -> Hash]]
    /\ Home \in [Caller -> Validators]
    /\ MaxRound \in Nat /\ MaxRestarts \in Nat

(* What the comments on thresholds suppose (config.go:94, vertex.go:34):   *)
(* fewer than a third of the nodes are faulty, and the global ratio is two *)
(* thirds at least.                                                        *)
ASSUME FaultAssumption ==
    /\ TotalNodes = Cardinality(Validators)
    /\ 3 * Cardinality(Validators \ Honest) < TotalNodes
    /\ 3 * GlobalQuorumRatio.num >= 2 * GlobalQuorumRatio.den

VARIABLES
    round,              \* Replica.round
    lastProposedRound,  \* Replica.lastProposedRound
    votePool,           \* replica -> what its pool holds for its round
    pc,                 \* where a caller is in Propose
    quorumVotes,        \* caller -> local variable of Propose
    votedRound,         \* likewise
    qcType,             \* caller -> argument of Propose
    life,               \* replica -> restarts so far
    broadcast           \* history: vertices sent, and by whom in which life

vars == <<round, lastProposedRound, votePool, pc, quorumVotes, votedRound,
          qcType, life, broadcast>>

Vote == [from : Validators, hash : Hash]

policy == NewDynamicQuorumPolicy(TotalNodes, CommitteeNodes,
                                 GlobalQuorumRatio, CommitteeQuorumRatio)

Init ==
    /\ round = [n \in Validators |-> 0]
    /\ lastProposedRound = [n \in Validators |-> -1]
    /\ votePool = [n \in Validators |-> {}]
    /\ pc = [c \in Caller |-> "idle"]
    /\ quorumVotes = [c \in Caller |-> {}]
    /\ votedRound = [c \in Caller |-> 0]
    /\ qcType = [c \in Caller |-> "QCGlobal"]
    /\ life = [n \in Validators |-> 0]
    /\ broadcast = {}

-----------------------------------------------------------------------------
(***************************************************************************)
(* The surroundings: votes arrive for the round a replica is at, in any    *)
(* order or never; the round advances, and the votes for an earlier one    *)
(* are not looked at again; the process is restarted.                      *)
(***************************************************************************)
CastVote(n, vote) ==
    /\ n \in Range(Home)
    /\ vote.from \in Honest => vote.hash = Ballot[vote.from][round[n]]
    /\ \A v \in votePool[n] : v.from # vote.from
    /\ votePool' = [votePool EXCEPT ![n] = @ \cup {vote}]
    /\ UNCHANGED <<round, lastProposedRound, pc, quorumVotes, votedRound, qcType,
                   life, broadcast>>

AdvanceRound(n) ==
    /\ n \in Range(Home) /\ round[n] < MaxRound
    /\ round' = [round EXCEPT ![n] = @ + 1]
    /\ votePool' = [votePool EXCEPT ![n] = {}]
    /\ UNCHANGED <<lastProposedRound, pc, quorumVotes, votedRound, qcType,
                   life, broadcast>>

(* The callers at n are gone with what they hold in local variables.       *)
Forget(local, n, none) == [c \in Caller |-> IF Home[c] = n THEN none ELSE local[c]]

(* replica.go:71: the round, the pool and the mark start anew.             *)
Restart(n) ==
    /\ n \in Range(Home) /\ life[n] < MaxRestarts
    /\ life' = [life EXCEPT ![n] = @ + 1]
    /\ round' = [round EXCEPT ![n] = 0]
    /\ lastProposedRound' = [lastProposedRound EXCEPT ![n] = -1]
    /\ votePool' = [votePool EXCEPT ![n] = {}]
    /\ pc' = Forget(pc, n, "idle")
    /\ quorumVotes' = Forget(quorumVotes, n, {})
    /\ votedRound' = Forget(votedRound, n, 0)
    /\ qcType' = Forget(qcType, n, "QCGlobal")
    /\ UNCHANGED broadcast

-----------------------------------------------------------------------------
(***************************************************************************)
(* Propose (proposer.go:68).                                               *)
(***************************************************************************)
(* Line 72 with replica/consensus.go:29: below the quorum nothing happens. *)
CheckQuorum(c, type) ==
    LET n == Home[c]
    IN  /\ pc[c] = "idle"
        /\ Cardinality(votePool[n]) >= QuorumSize(policy, type)
        /\ quorumVotes' = [quorumVotes EXCEPT ![c] = votePool[n]]
        /\ votedRound' = [votedRound EXCEPT ![c] = round[n]]
        /\ qcType' = [qcType EXCEPT ![c] = type]
        /\ pc' = [pc EXCEPT ![c] = "guard"]
        /\ UNCHANGED <<round, lastProposedRound, votePool, life, broadcast>>

\* state.go:69
AlreadyProposed(n, r) == r <= lastProposedRound[n]

(* The call returns, and its local variables are gone.                     *)
Return(c) ==
    /\ pc' = [pc EXCEPT ![c] = "idle"]
    /\ quorumVotes' = [quorumVotes EXCEPT ![c] = {}]
    /\ votedRound' = [votedRound EXCEPT ![c] = 0]
    /\ qcType' = [qcType EXCEPT ![c] = "QCGlobal"]

\* Line 80.
Guard(c) ==
    /\ pc[c] = "guard"
    /\ IF AlreadyProposed(Home[c], votedRound[c] + 1)
       THEN Return(c)
       ELSE /\ pc' = [pc EXCEPT ![c] = "send"]
            /\ UNCHANGED <<quorumVotes, votedRound, qcType>>
    /\ UNCHANGED <<round, lastProposedRound, votePool, life, broadcast>>

(* A signature is made over the hash that is voted for.                    *)
Signatures(votes) ==
    [s \in {v.from : v \in votes} |-> (CHOOSE v \in votes : v.from = s).hash]

\* Faulty variant: the certificate names the round of the new vertex.
AssembleQCForNext(c, representative) ==
    [type       |-> qcType[c],
     vertexHash |-> representative,
     round      |-> votedRound[c] + 1,
     proposerID |-> Home[c],
     signatures |-> Signatures(quorumVotes[c])]

(* Line 144.  The representative is that of the last vote in the pool's    *)
(* order, which means any.                                                 *)
AssembleQC(c, representative) ==
    [type       |-> qcType[c],
     vertexHash |-> representative,
     round      |-> votedRound[c],
     proposerID |-> Home[c],
     signatures |-> Signatures(quorumVotes[c])]

(* The order in which Go lists a map may be any: one that is not sorted.   *)
SomeOrder(S) ==
    LET s == SortVertices(S) IN [i \in 1 .. Len(s) |-> s[Len(s) + 1 - i]]

\* Faulty variant: the hashes are not sorted.
ExtractHashesUnsorted(votes) == SomeOrder({v.hash : v \in votes})

\* Line 111.
ExtractHashesFromVotes(votes) == SortHashes(SomeOrder({v.hash : v \in votes}))

(* Lines 85-103.  The vertex identifies its content, the hash with it      *)
(* (vertex.go:62 covers all of these fields).                              *)
NewVertex(c, representative, now) ==
    [author    |-> Home[c],
     round     |-> votedRound[c] + 1,
     parents   |-> ExtractHashesFromVotes(quorumVotes[c]),
     qc        |-> AssembleQC(c, representative),
     timestamp |-> now]

Send(c) ==
    /\ pc[c] = "send"
    /\ \E vote \in quorumVotes[c], now \in Instant :
          broadcast' = broadcast \cup
              {[vertex |-> NewVertex(c, vote.hash, now),
                caller |-> c, life |-> life[Home[c]]]}
    /\ pc' = [pc EXCEPT ![c] = "mark"]
    /\ UNCHANGED <<round, lastProposedRound, votePool, quorumVotes, votedRound, qcType,
                   life>>

\* Faulty variant: a late marker takes the mark back.
MarkLatest(last, r) == r

\* state.go:77
MarkAsProposed(last, r) == IF r > last THEN r ELSE last

\* Line 104.
Mark(c) ==
    /\ pc[c] = "mark"
    /\ lastProposedRound' = [lastProposedRound EXCEPT ![Home[c]] =
                                MarkAsProposed(@, votedRound[c] + 1)]
    /\ Return(c)
    /\ UNCHANGED <<round, votePool, life, broadcast>>

Propose(c) == (\E type \in QCType : CheckQuorum(c, type)) \/ Guard(c) \/ Send(c) \/ Mark(c)

Next ==
    \/ \E c \in Caller : Propose(c)
    \/ \E n \in Validators : AdvanceRound(n) \/ Restart(n)
    \/ \E n \in Validators, vote \in Vote : CastVote(n, vote)

Spec == Init /\ [][Next]_vars

-----------------------------------------------------------------------------
(***************************************************************************)
(* Properties.                                                             *)
(***************************************************************************)
QC == UNION {[type : QCType, vertexHash : Hash, round : Rounds,
              proposerID : Validators, signatures : [S -> Hash]] :
                S \in SUBSET Validators}

ProposerTypeOK ==
    /\ round \in [Validators -> Rounds]
    /\ lastProposedRound \in [Validators -> -1 .. MaxRound + 1]
    /\ votePool \in [Validators -> SUBSET Vote]
    /\ pc \in [Caller -> {"idle", "guard", "send", "mark"}]
    /\ quorumVotes \in [Caller -> SUBSET Vote]
    /\ votedRound \in [Caller -> Rounds]
    /\ qcType \in [Caller -> QCType]
    /\ life \in [Validators -> 0 .. MaxRestarts]
    /\ \A b \in broadcast :
          /\ b.caller \in Caller /\ b.life \in 0 .. MaxRestarts
          /\ b.vertex.qc \in QC
          /\ b.vertex.round \in 1 .. MaxRound + 1

(* proposer.go:11-13: a vertex that is sent carries a quorum of votes for  *)
(* the round before it, its parents are in canonical order, so that its    *)
(* receivers do not charge its author (vertex.go:170), and every one of    *)
(* them, and nothing else, was voted for by a signer.                      *)
Justified ==
    \A b \in broadcast :
        LET v == b.vertex
        IN  /\ IsQuorum(policy, v.qc)
            /\ v.round = v.qc.round + 1
            /\ ~CheckMalformed(v.parents)
            /\ Range(v.parents) = Range(v.qc.signatures)
            /\ v.qc.vertexHash \in Range(v.parents)
            /\ \A s \in Honest \cap DOMAIN v.qc.signatures :
                   v.qc.signatures[s] = Ballot[s][v.qc.round]

(* quorumpolicy.go:14-19: however the pools of two replicas differ, two    *)
(* vertices that rest on global quorums of the same round have a parent in *)
(* common, because some honest voter signed the evidence of both.          *)
EvidenceShared ==
    \A b1, b2 \in broadcast :
        LET q1 == b1.vertex.qc
            q2 == b2.vertex.qc
        IN  q1.type = "QCGlobal" /\ q2.type = "QCGlobal" /\ q1.round = q2.round
                => \E s \in Honest : /\ s \in DOMAIN q1.signatures
                                     /\ s \in DOMAIN q2.signatures
                                     /\ Ballot[s][q1.round]
                                            \in Range(b1.vertex.parents)
                                                \cap Range(b2.vertex.parents)

(* What the guard (proposer.go:80) does ensure: whatever other callers do, *)
(* one caller sends at most one vertex for a round between two restarts.   *)
AtMostOncePerCaller ==
    \A b1, b2 \in broadcast :
        /\ b1.caller = b2.caller /\ b1.life = b2.life
        /\ b1.vertex.round = b2.vertex.round
        => b1 = b2

(* proposer.go:14-15: "Strictly prevents equivocation by ensuring an       *)
(* author proposes at most once per round."                                *)
AtMostOncePerRound ==
    \A b1, b2 \in broadcast :
        /\ b1.vertex.author = b2.vertex.author
        /\ b1.vertex.round = b2.vertex.round
        => b1.vertex = b2.vertex
=============================================================================
