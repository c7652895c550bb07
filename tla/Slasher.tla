------------------------------ MODULE Slasher -------------------------------
(***************************************************************************)
(* The accountability ledger of a node (core/slasher.go) and the           *)
(* self-contained check of an Evidence message (pkg/types/message.go).     *)
(*                                                                         *)
(* Each exported method holds Slasher.mu from its guard to its update, so  *)
(* it is one atomic step.  The Timestamp, ReporterID and Description of an *)
(* Evidence take no part in any decision and are left out.                 *)
(***************************************************************************)
EXTENDS Vertex

CONSTANTS
    MalformedVertexPenalty, EquivocationPenalty,    \* config.SecurityConfig
    SlashThreshold,
    NoVertex                                        \* a nil *Vertex

ASSUME SlasherAssumption ==
    /\ MalformedVertexPenalty \in Nat \ {0}
    /\ EquivocationPenalty \in Nat \ {0}
    /\ SlashThreshold \in Nat
    /\ NoVertex \notin Hash

(* The message types of Evidence.Type that the code tells apart.           *)
EvidenceType == {"Vertex", "InvalidPayload"}

Evidence ==
    [targetID : Validators, type : EvidenceType,
     proof1 : Hash \cup {NoVertex}, proof2 : Hash \cup {NoVertex}]

VARIABLES
    penaltyTable,   \* Validator -> accumulated demerit points; 0 if absent
    processedEv,    \* hashes whose evidence has been adjudicated
    evidences       \* Validator -> filed evidence, oldest first

slasherVars == <<penaltyTable, processedEv, evidences>>

SlasherInit ==
    /\ penaltyTable = [v \in Validators |-> 0]
    /\ processedEv = {}
    /\ evidences = [v \in Validators |-> << >>]

-----------------------------------------------------------------------------
\* Faulty variant: the accused need not be the author of the proof.
IsValidAnyTarget(ev) ==
    /\ ev.proof1 # NoVertex
    /\ ev.proof2 # NoVertex => Author[ev.proof2] = Author[ev.proof1]
    /\ \/ /\ ev.proof2 # NoVertex
          /\ Round[ev.proof2] = Round[ev.proof1]
          /\ ev.proof2 # ev.proof1
       \/ ev.type = "InvalidPayload" /\ ~WellFormed(ev.proof1)

\* message.go:81
IsValid(ev) ==
    /\ ev.proof1 # NoVertex
    /\ Author[ev.proof1] = ev.targetID
    /\ ev.proof2 # NoVertex => Author[ev.proof2] = Author[ev.proof1]
    /\ \/ /\ ev.proof2 # NoVertex
          /\ Round[ev.proof2] = Round[ev.proof1]
          /\ ev.proof2 # ev.proof1
       \/ ev.type = "InvalidPayload" /\ ~WellFormed(ev.proof1)

\* slasher.go:145
IsSlashed(v) == penaltyTable[v] >= SlashThreshold

\* Faulty variant: the proof is not remembered.
ExecuteSlasherForgetful(target, amount, evHash, type, p2) ==
    /\ penaltyTable' = [penaltyTable EXCEPT ![target] = @ + amount]
    /\ evidences' = [evidences EXCEPT ![target] = Append(@,
          [targetID |-> target, type |-> type, proof1 |-> evHash, proof2 |-> p2])]
    /\ UNCHANGED processedEv

\* Faulty variant: the second proof is remembered instead of the first.
ExecuteSlasherSwapped(target, amount, evHash, type, p2) ==
    /\ penaltyTable' = [penaltyTable EXCEPT ![target] = @ + amount]
    /\ processedEv' = processedEv \cup {p2}
    /\ evidences' = [evidences EXCEPT ![target] = Append(@,
          [targetID |-> target, type |-> type, proof1 |-> evHash, proof2 |-> p2])]

\* slasher.go:110.  Every caller passes the hash of the first proof.
ExecuteSlasher(target, amount, evHash, type, p2) ==
    /\ penaltyTable' = [penaltyTable EXCEPT ![target] = @ + amount]
    /\ processedEv' = processedEv \cup {evHash}
    /\ evidences' = [evidences EXCEPT ![target] = Append(@,
          [targetID |-> target, type |-> type, proof1 |-> evHash, proof2 |-> p2])]

\* Faulty variant: the anti-replay check is missing.
HandleEquivocationReplayed(vtx1, vtx2) ==
    ExecuteSlasher(Author[vtx1], EquivocationPenalty, vtx1, "Vertex", vtx2)

\* slasher.go:53.  Unlike the other two, it does not look at the threshold.
HandleEquivocation(vtx1, vtx2) ==
    IF vtx1 \in processedEv
    THEN UNCHANGED slasherVars
    ELSE ExecuteSlasher(Author[vtx1], EquivocationPenalty, vtx1, "Vertex", vtx2)

\* slasher.go:81.  The amount is the same whatever the evidence proves.
ProcessExternalEvidence(ev) ==
    IF ~IsValid(ev) \/ IsSlashed(ev.targetID) \/ ev.proof1 \in processedEv
    THEN UNCHANGED slasherVars
    ELSE ExecuteSlasher(ev.targetID, EquivocationPenalty, ev.proof1, ev.type,
                        ev.proof2)

\* slasher.go:153
AddDemerit(author, amount, vtx) ==
    IF IsSlashed(author) \/ vtx \in processedEv
    THEN UNCHANGED slasherVars
    ELSE ExecuteSlasher(author, amount, vtx, "InvalidPayload", NoVertex)

-----------------------------------------------------------------------------
(***************************************************************************)
(* The ledger on its own.  A malformed vertex reaches AddDemerit through   *)
(* DAG.AddVertex, which has looked at it; HandleEquivocation, which has no *)
(* caller yet, believes whatever pair it is given; a peer may send any     *)
(* Evidence over existing vertices.                                        *)
(***************************************************************************)
SlasherNext ==
    \/ \E h \in Hash : ~WellFormed(h)
                       /\ AddDemerit(Author[h], MalformedVertexPenalty, h)
    \/ \E v1, v2 \in Hash : HandleEquivocation(v1, v2)
    \/ \E ev \in Evidence : ProcessExternalEvidence(ev)

SlasherSpec == SlasherInit /\ [][SlasherNext]_slasherVars

-----------------------------------------------------------------------------
SlasherTypeOK ==
    /\ penaltyTable \in [Validators -> Nat]
    /\ processedEv \subseteq Hash
    /\ evidences \in [Validators -> Seq(Evidence)]

(* The three maps tell one story (slasher.go:65): the adjudicated hashes   *)
(* are the first proofs of the filed evidence, each filed once and under   *)
(* its author, and a validator with points has the evidence for them.      *)
EvidenceInSync ==
    /\ \A v \in Validators : \A i \in DOMAIN evidences[v] :
          /\ evidences[v][i].proof1 \in processedEv
          /\ Author[evidences[v][i].proof1] = v
          /\ \A j \in DOMAIN evidences[v] :
                evidences[v][i].proof1 = evidences[v][j].proof1 => i = j
    /\ \A h \in processedEv :
          \E i \in DOMAIN evidences[Author[h]] : evidences[Author[h]][i].proof1 = h
    /\ \A v \in Validators : penaltyTable[v] > 0 <=> evidences[v] # << >>

(* The adjudicated vertices in the name of v.                              *)
Charged(v) == {h \in processedEv : Author[h] = v}

(* A validator owes the price of each adjudicated vertex in its name once, *)
(* whichever way, how often and in which order they were reported: the     *)
(* lower price at most for the malformed ones, and for two conflicting     *)
(* vertices, reported in both orders, twice the higher one and no more     *)
(* (slasher.go:30-32, 58, 94, 158).                                        *)
ChargesAddUp ==
    \A v \in Validators :
        \E k \in 0 .. Cardinality({h \in Charged(v) : ~WellFormed(h)}) :
            penaltyTable[v] = k * MalformedVertexPenalty
                              + (Cardinality(Charged(v)) - k) * EquivocationPenalty

(* Points are never returned, and a validator only gains points together   *)
(* with the first adjudication of a vertex in its name (slasher.go:57).    *)
NoDoubleJeopardy ==
    [][\A v \in Validators : penaltyTable'[v] # penaltyTable[v] =>
          /\ penaltyTable'[v] > penaltyTable[v]
          /\ \E h \in processedEv' \ processedEv : Author[h] = v]_slasherVars
=============================================================================
