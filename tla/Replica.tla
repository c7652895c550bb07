------------------------------ MODULE Replica -------------------------------
(***************************************************************************)
(* Replicas that close the gaps of their DAGs over a network: the router   *)
(* (replica/router.go), the fetch workers it feeds (core/fetcher.go), the  *)
(* choice of peers and the life cycle of a replica.                        *)
(*                                                                         *)
(* The parts underneath are seen through what their own modules establish: *)
(* a DAG with room in its buffer shows what is resolvable among the        *)
(* vertices it was given (module DAG, Convergent), and of the pending      *)
(* manager only the set of open windows matters, which may end at any time *)
(* (module PendingManager has the clock).  A vertex comes to exist at its  *)
(* author, and reaches others by gossip or in answer to a request.         *)
(*                                                                         *)
(* The network may lose, duplicate, alter and reorder messages.  Left out: *)
(* peerRounds, which the router writes and nothing reads.                  *)
(***************************************************************************)
EXTENDS FetchRules, Bags

CONSTANTS
    SyncTriggerThreshold,   \* config.DAGConfig
    MaxRandomPeers,         \* config.SyncConfig
    Gossiped,               \* bound: whom gossip reaches with which vertices
    MaxGaps,                \* bound: how many far-ahead ones it brings to one
    Stoppable,              \* bound: who may be stopped
    MaxFaults               \* bound: what the network may do amiss

ASSUME ReplicaAssumption ==
    /\ IsFiniteSet(Validators)
    /\ SyncTriggerThreshold \in Nat /\ MaxRandomPeers \in Nat
    /\ Gossiped \subseteq Validators \X Hash /\ Stoppable \subseteq Validators
    /\ MaxGaps \in Nat /\ MaxFaults \in Nat

VARIABLES
    phase,          \* replica -> its life cycle
    peers,          \* replica -> the peers registered
    received,       \* replica -> vertices passed to AddVertex intact
    pending,        \* replica -> hashes with an open request
    jobs,           \* replica -> its fetch workers
    handling,       \* replica -> what its router has still to do of a FETCH_RES
    network,        \* bag of messages in flight
    faults

vars == <<phase, peers, received, pending, jobs, handling, network, faults>>

(* A worker started for the missing parents of an orphan.                  *)
Job == [orphan : Hash, missing : Seq(Hash), step : 1 .. 3,
        at : {"dispatch", "wait"}]

Message ==
    [type : {"FETCH_REQ"}, from : Validators, to : Validators, hashes : Seq(Hash)]
    \cup [type : {"FETCH_RES"}, from : Validators, to : Validators,
          copies : Seq(Copy)]

(* state.go:37: nothing in this version of the code advances r.round.      *)
CurrentRound == 0

FarAhead(h) == Round[h] > CurrentRound + SyncTriggerThreshold

Ledger(n) == Resolvable(received[n])

\* dag.go:197
GetMissingHashes(n, hashes) == Keep(hashes, Hash \ Ledger(n))

\* replica.go:61
Init ==
    /\ phase = [n \in Validators |-> "created"]
    /\ peers = [n \in Validators |-> {}]
    /\ received = [n \in Validators |-> {}]
    /\ pending = [n \in Validators |-> {}]
    /\ jobs = [n \in Validators |-> {}]
    /\ handling = [n \in Validators |-> << >>]
    /\ network = EmptyBag
    /\ faults = 0

-----------------------------------------------------------------------------
(***************************************************************************)
(* Life cycle (lifecycle.go, peers.go).  Bound: a replica is started once  *)
(* it knows all its peers, and vertices come to exist when all run.        *)
(***************************************************************************)
AddPeer(n, p) ==
    /\ phase[n] = "created" /\ p # n
    /\ peers' = [peers EXCEPT ![n] = @ \cup {p}]
    /\ UNCHANGED <<phase, received, pending, jobs, handling, network, faults>>

Start(n) ==
    /\ phase[n] = "created" /\ peers[n] = Validators \ {n}
    /\ phase' = [phase EXCEPT ![n] = "running"]
    /\ UNCHANGED <<peers, received, pending, jobs, handling, network, faults>>

(* The context is cancelled and the channel of inbound messages closed.    *)
Stop(n) ==
    /\ phase[n] = "running" /\ n \in Stoppable
    /\ phase' = [phase EXCEPT ![n] = "stopping"]
    /\ UNCHANGED <<peers, received, pending, jobs, handling, network, faults>>

\* Faulty variant: the loop does not look at the context.
LoopExitsNever(n) == FALSE /\ UNCHANGED vars

(* lifecycle.go:26-36.  Until the loop sees the cancellation, it may still *)
(* take messages off the channel.                                          *)
LoopExit(n) ==
    /\ phase[n] = "stopping" /\ handling[n] = << >>
    /\ phase' = [phase EXCEPT ![n] = "ended"]
    /\ UNCHANGED <<peers, received, pending, jobs, handling, network, faults>>

Running == \A n \in Validators : phase[n] # "created"

-----------------------------------------------------------------------------
(***************************************************************************)
(* Peers and requests.                                                     *)
(***************************************************************************)
(* peers.go:55: some of the peers, all if there are no more than that.     *)
GetRandomPeers(n) ==
    IF Cardinality(peers[n]) <= MaxRandomPeers
    THEN {peers[n]}
    ELSE {S \in SUBSET peers[n] : Cardinality(S) = MaxRandomPeers}

\* Faulty variant: the last step asks the same sample as the second.
TargetsNoBroadcast(n, job) ==
    LET suspect == Author[job.orphan]
    IN  CASE job.step = 1 -> {{suspect}}
          [] job.step # 1 -> {S \ {suspect} : S \in GetRandomPeers(n)}

(* fetcher.go:112-136 and network.go:27: whom a step may ask.              *)
Targets(n, job) ==
    LET suspect == Author[job.orphan]
    IN  CASE job.step = 1 -> {{suspect}}
          [] job.step = 2 -> {S \ {suspect} : S \in GetRandomPeers(n)}
          [] job.step = 3 -> {peers[n]}

Request(n, p, hashes) ==
    [type |-> "FETCH_REQ", from |-> n, to |-> p, hashes |-> hashes]

-----------------------------------------------------------------------------
(***************************************************************************)
(* The DAG takes a vertex (dag.go:69).  An altered or malformed one leaves *)
(* no trace here; an orphan far ahead of the node starts a worker for the  *)
(* parents that are missing and not asked for already (fetcher.go:68-76).  *)
(* open: the requests under way, without the one this vertex settles.      *)
(***************************************************************************)
AddVertex(n, copy, open) ==
    LET h     == copy.hash
        seen  == Resolvable(received[n] \cup {h})
        fresh == Keep(Parents[h], Hash \ (seen \cup open))
        taken == copy.intact /\ WellFormed(h)
        sync  == taken /\ h \notin seen /\ FarAhead(h) /\ fresh # << >>
    IN  /\ received' = IF taken THEN [received EXCEPT ![n] = @ \cup {h}] ELSE received
        /\ pending' = [pending EXCEPT ![n] = IF sync THEN open \cup Range(fresh) ELSE open]
        /\ jobs' = IF ~sync THEN jobs ELSE [jobs EXCEPT ![n] = @ \cup
              {[orphan |-> h, missing |-> fresh, step |-> 1, at |-> "dispatch"]}]

(* The author of h makes it, on top of parents it has.                     *)
Create(h) ==
    LET n == Author[h]
    IN  /\ Running /\ phase[n] = "running"
        /\ h \notin received[n] /\ ParentSet(h) \subseteq Ledger(n)
        /\ AddVertex(n, [hash |-> h, intact |-> TRUE], pending[n])
        /\ UNCHANGED <<phase, peers, handling, network, faults>>

(* Somebody hands n a vertex it has not been given before.                 *)
Gossip(n, h) ==
    /\ <<n, h>> \in Gossiped /\ phase[n] = "running"
    /\ FarAhead(h) => Cardinality({g \in received[n] : FarAhead(g)}) < MaxGaps
    /\ h \in received[Author[h]] \ received[n]
    /\ AddVertex(n, [hash |-> h, intact |-> TRUE], pending[n])
    /\ UNCHANGED <<phase, peers, handling, network, faults>>

-----------------------------------------------------------------------------
(***************************************************************************)
(* Workers.                                                                *)
(***************************************************************************)
Replace(n, job, new) == jobs' = [jobs EXCEPT ![n] = (@ \ {job}) \cup new]

(* fetcher.go:83-89: what is still missing is asked for.                   *)
Dispatch(n, job) ==
    LET H == GetMissingHashes(n, job.missing)
    IN  /\ job.at = "dispatch"
        /\ \/ H = << >> /\ Replace(n, job, {}) /\ UNCHANGED network
           \/ /\ H # << >>
              /\ \E T \in Targets(n, job) :
                    network' = network (+) SetToBag({Request(n, p, H) : p \in T})
              /\ Replace(n, job, {[job EXCEPT !.missing = H, !.at = "wait"]})
        /\ UNCHANGED <<phase, peers, received, pending, handling, faults>>

\* fetcher.go:81
LastStep == 3

(* fetcher.go:90-106: by a signal or the timer, on to the next step, or,   *)
(* after the third one, the requests are given up.                         *)
Wake(n, job) ==
    LET H == GetMissingHashes(n, job.missing)
    IN  /\ job.at = "wait"
        /\ \/ H = << >> /\ Replace(n, job, {}) /\ UNCHANGED pending
           \/ /\ H # << >> /\ job.step < LastStep
              /\ Replace(n, job, {[job EXCEPT !.missing = H, !.step = @ + 1,
                                              !.at = "dispatch"]})
              /\ UNCHANGED pending
           \/ /\ H # << >> /\ job.step = LastStep
              /\ Replace(n, job, {})
              /\ pending' = [pending EXCEPT ![n] = @ \ Range(H)]
        /\ UNCHANGED <<phase, peers, received, handling, network, faults>>

\* fetcher.go:98
Cancel(n, job) ==
    /\ job.at = "wait" /\ phase[n] \in {"stopping", "ended"}
    /\ Replace(n, job, {})
    /\ UNCHANGED <<phase, peers, received, pending, handling, network, faults>>

(* The window of a request ends (pending_manager.go:185, 209).             *)
Expire(n, h) ==
    /\ h \in pending[n]
    /\ pending' = [pending EXCEPT ![n] = @ \ {h}]
    /\ UNCHANGED <<phase, peers, received, jobs, handling, network, faults>>

-----------------------------------------------------------------------------
(***************************************************************************)
(* The router (router.go:110): one message at a time, and a response one   *)
(* vertex at a time, since the workers run meanwhile.                      *)
(***************************************************************************)
Take(m) ==
    /\ phase[m.to] \in {"running", "stopping"}
    /\ handling[m.to] = << >>

\* Faulty variant: an answer is not limited to what was asked for.
AnswerWithAll(m) ==
    LET found == SortVertices(Ledger(m.to))
    IN  [i \in DOMAIN found |-> [hash |-> found[i], intact |-> TRUE]]

\* router.go:56-61
Answer(m) ==
    LET found == Keep(m.hashes, Ledger(m.to))
    IN  [i \in DOMAIN found |-> [hash |-> found[i], intact |-> TRUE]]

\* router.go:48
HandleFetchRequest(m) ==
    /\ m.type = "FETCH_REQ" /\ Take(m)
    /\ network' = IF ValidateRequest(m.hashes) /\ Answer(m) # << >>
                  THEN (network (-) SetToBag({m})) (+) SetToBag({[type |-> "FETCH_RES",
                          from |-> m.to, to |-> m.from, copies |-> Answer(m)]})
                  ELSE network (-) SetToBag({m})
    /\ UNCHANGED <<phase, peers, received, pending, jobs, handling, faults>>

Accepts(n, copies) ==
    ValidateResponse(copies, Ledger(n), pending[n], CurrentRound)

\* router.go:110-127, for a response.
HandleFetchResponse(m) ==
    /\ m.type = "FETCH_RES" /\ Take(m)
    /\ network' = network (-) SetToBag({m})
    /\ handling' = IF Accepts(m.to, m.copies)
                   THEN [handling EXCEPT ![m.to] = m.copies] ELSE handling
    /\ UNCHANGED <<phase, peers, received, pending, jobs, faults>>

(* router.go:83-93.  A vertex that the validator skipped as not asked for  *)
(* is taken like the others.                                               *)
HandleVertex(n) ==
    LET copy == Head(handling[n])
    IN  /\ handling[n] # << >>
        /\ handling' = [handling EXCEPT ![n] = Tail(@)]
        /\ IF copy.hash \in Ledger(n)
           THEN UNCHANGED <<received, pending, jobs>>
           ELSE AddVertex(n, copy, pending[n] \ {copy.hash})
        /\ UNCHANGED <<phase, peers, network, faults>>

-----------------------------------------------------------------------------
(***************************************************************************)
(* The network.                                                            *)
(***************************************************************************)
Fault(after) ==
    /\ faults < MaxFaults
    /\ faults' = faults + 1
    /\ network' = after
    /\ UNCHANGED <<phase, peers, received, pending, jobs, handling>>

Lose(m) == Fault(network (-) SetToBag({m}))

Duplicate(m) == Fault(network (+) SetToBag({m}))

Alter(m) ==
    /\ m.type = "FETCH_RES"
    /\ \E i \in DOMAIN m.copies :
          Fault((network (-) SetToBag({m}))
                (+) SetToBag({[m EXCEPT !.copies[i].intact = FALSE]}))

-----------------------------------------------------------------------------
Work(n) == \E job \in jobs[n] : Dispatch(n, job) \/ Wake(n, job)

Handle(n) ==
    \/ HandleVertex(n)
    \/ \E m \in BagToSet(network) :
          m.to = n /\ (HandleFetchRequest(m) \/ HandleFetchResponse(m))

Next ==
    \/ \E n, p \in Validators : AddPeer(n, p)
    \/ \E n \in Validators : Start(n) \/ Stop(n) \/ LoopExit(n)
    \/ \E h \in Hash : Create(h)
    \/ \E n \in Validators, h \in Hash : Gossip(n, h) \/ Expire(n, h)
    \/ \E n \in Validators : Work(n) \/ Handle(n)
    \/ \E n \in Validators : \E job \in jobs[n] : Cancel(n, job)
    \/ \E m \in BagToSet(network) : Lose(m) \/ Duplicate(m) \/ Alter(m)

Spec == Init /\ [][Next]_vars

(* Goroutines that can run do, timers fire, and a replica with messages    *)
(* under way to it gets one of them some time: workers send finitely many, *)
(* so what is not lost is delivered in the end.                            *)
FairSpec ==
    /\ Spec
    /\ \A n \in Validators :
          WF_vars(Work(n)) /\ WF_vars(Handle(n)) /\ WF_vars(LoopExit(n))

-----------------------------------------------------------------------------
(***************************************************************************)
(* Properties.                                                             *)
(***************************************************************************)
SyncTypeOK ==
    /\ phase \in [Validators -> {"created", "running", "stopping", "ended"}]
    /\ peers \in [Validators -> SUBSET Validators]
    /\ received \in [Validators -> SUBSET Hash]
    /\ pending \in [Validators -> SUBSET Hash]
    /\ jobs \in [Validators -> SUBSET Job]
    /\ handling \in [Validators -> Seq(Copy)]
    /\ BagToSet(network) \subseteq Message
    /\ faults \in 0 .. MaxFaults

(* What no answer gets through with once it was asked for: the round is    *)
(* beyond the window, which stands still, or there are no parents though   *)
(* the round is not 0 (fetch_rules.go:115, 141).                           *)
Unacceptable(p) ==
    \/ Round[p] > CurrentRound + maxFuture
    \/ Round[p] > 0 /\ Parents[p] = << >>

(* Nothing keeps an orphan from having such a parent, or a request for its *)
(* parents from being longer than an answer may be, as with the limits of  *)
(* config.go:90-91, a hundred hashes and fifty vertices (dag.go:118).      *)
Misfit(h) ==
    /\ FarAhead(h)
    /\ \/ \E p \in ParentSet(h) : Unacceptable(p)
       \/ /\ ~AtMostItems(MaxVertexCount, Parents[h])
          /\ MaxRequestHashes \notin 1 .. MaxVertexCount

(* Why an answer that nobody altered may be refused.                       *)
Refusable(m) ==
    \/ ~AtMostItems(MaxVertexCount, m.copies)
    \/ \E i \in DOMAIN m.copies :
          m.copies[i].hash \in pending[m.to] /\ Unacceptable(m.copies[i].hash)

(* Such an answer passes the validation of whoever gets it, however late,  *)
(* repeated or overtaken by other answers it is, unless it is too long or  *)
(* has something unacceptable that was asked for, and then it has to do    *)
(* with a misfit that the receiver holds.  The rules on one side otherwise *)
(* fit what the handlers send on the other (router.go:48,                  *)
(* fetch_rules.go:61).                                                     *)
AnswersFit ==
    \A m \in BagToSet(network) :
        m.type = "FETCH_RES" /\ (\A i \in DOMAIN m.copies : m.copies[i].intact)
            => \/ Accepts(m.to, m.copies)
               \/ /\ Refusable(m)
                  /\ \E h \in received[m.to], i \in DOMAIN m.copies :
                         Misfit(h) /\ m.copies[i].hash \in ParentSet(h)

(***************************************************************************)
(* What AnswersFit needs to be inductive.                                  *)
(***************************************************************************)
(* s is a part of what a far-ahead orphan of n has for parents.            *)
PartOfOrphan(n, s) ==
    \E h \in received[n] :
        FarAhead(h) /\ Range(s) \subseteq ParentSet(h) /\ Len(s) <= Len(Parents[h])

(* The vertices of an answer are parents of one far-ahead orphan h, and    *)
(* no more of them than it has.                                            *)
AnswersFor(h, copies) ==
    /\ FarAhead(h) /\ Len(copies) <= Len(Parents[h])
    /\ \A i \in DOMAIN copies : copies[i].hash \in ParentSet(h)

(* Whatever a replica looks for is the parent of an orphan it was given:   *)
(* what its workers hold, what it asks others for, and what it has open    *)
(* requests for.                                                           *)
OnlyParentsSought ==
    /\ \A n \in Validators : \A job \in jobs[n] : PartOfOrphan(n, job.missing)
    /\ \A m \in BagToSet(network) :
           m.type = "FETCH_REQ" => PartOfOrphan(m.from, m.hashes)
    /\ \A n \in Validators : \A p \in pending[n] :
           \E h \in received[n] : FarAhead(h) /\ p \in ParentSet(h)

(* Nothing malformed is taken, and an answer carries only what its sender  *)
(* was given and its receiver wants for one of its orphans, no more than   *)
(* one request may ask for.                                                *)
OnlyHadAnswered ==
    /\ \A n \in Validators : \A h \in received[n] : WellFormed(h)
    /\ \A m \in BagToSet(network) : m.type = "FETCH_RES" =>
           /\ m.copies # << >> /\ AtMostItems(MaxRequestHashes, m.copies)
           /\ \E h \in received[m.to] : AnswersFor(h, m.copies)
           /\ \A i \in DOMAIN m.copies : m.copies[i].hash \in received[m.from]

ReplicaInvariant == SyncTypeOK /\ OnlyParentsSought /\ OnlyHadAnswered

(* fetcher.go:16-17: a running replica that holds an orphan far ahead of   *)
(* it obtains the orphan's parents, if their authors run as well, though a *)
(* message is lost, repeated or altered, windows end at any time and       *)
(* answers come after the request has been given up.  This is for orphans  *)
(* that are no misfits, as long as no misfit that shares a parent with     *)
(* them is there too.                                                      *)
GapCloses ==
    \A n \in Validators : \A h \in {g \in Hash : FarAhead(g) /\ ~Misfit(g)} :
        h \in received[n]
            ~> \/ ParentSet(h) \subseteq received[n]
               \/ \E a \in {n} \cup {Author[p] : p \in ParentSet(h)} :
                      phase[a] # "running"
               \/ \E g \in received[n] :
                      Misfit(g) /\ ParentSet(g) \cap ParentSet(h) # {}

(* After Stop (lifecycle.go:41) the message loop and the workers end, even *)
(* if a response is being taken in at that moment.                         *)
StopQuiesces ==
    \A n \in Stoppable :
        phase[n] = "stopping" ~> phase[n] = "ended" /\ jobs[n] = {}
=============================================================================
