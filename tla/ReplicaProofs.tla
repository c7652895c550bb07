--------------------------- MODULE ReplicaProofs ----------------------------
(***************************************************************************)
(* What replicas ask each other and answer, for any number of replicas and *)
(* vertices, any limits, and any number of messages lost, repeated or      *)
(* altered.                                                                *)
(***************************************************************************)
EXTENDS Replica, VertexProofs

(***************************************************************************)
(* The network.                                                            *)
(***************************************************************************)
LEMMA BagPlus ==
    ASSUME NEW B, NEW S
    PROVE  BagToSet(B (+) SetToBag(S)) = BagToSet(B) \cup S
BY DEF BagToSet, SetToBag, (+)

LEMMA BagMinus ==
    ASSUME NEW B, NEW C
    PROVE  BagToSet(B (-) C) \subseteq BagToSet(B)
BY DEF BagToSet, (-)

(***************************************************************************)
(* Vertices and lists of hashes.                                           *)
(***************************************************************************)
LEMMA LedgerReceived ==
    ASSUME NEW S
    PROVE  Resolvable(S) \subseteq S
BY DEF Resolvable

(* Some elements of a part of an orphan's parents are such a part.         *)
LEMMA KeepPart ==
    ASSUME NEW n, NEW s \in Seq(Hash), NEW T
    PROVE  /\ Keep(s, T) \in Seq(Hash)
           /\ PartOfOrphan(n, s) => PartOfOrphan(n, Keep(s, T))
<1>1. /\ Keep(s, T) \in Seq(Hash) /\ Len(Keep(s, T)) <= Len(s)
      /\ Range(Keep(s, T)) = Range(s) \cap T
  BY KeepSelects
<1>2. ASSUME NEW h \in received[n], FarAhead(h),
             Range(s) \subseteq ParentSet(h), Len(s) <= Len(Parents[h]),
             Len(Parents[h]) \in Nat
      PROVE  PartOfOrphan(n, Keep(s, T))
  <2>1. Len(Keep(s, T)) <= Len(Parents[h])
    BY <1>1, <1>2
  <2> QED  BY <1>1, <1>2, <2>1 DEF PartOfOrphan
<1> QED  BY <1>1, <1>2 DEF PartOfOrphan

-----------------------------------------------------------------------------
(***************************************************************************)
(* What one step may add.  Whatever a step does, the invariant holds       *)
(* afterwards if no vertex is forgotten and everything new is in order.    *)
(***************************************************************************)
NothingForgotten ==
    \A n \in Validators : \A h \in received[n] : h \in received'[n]

Wanted(n, p) == \E h \in received[n] : FarAhead(h) /\ p \in ParentSet(h)

(* An answer as it may be sent.                                            *)
Fair(m) ==
    /\ m.copies # << >> /\ AtMostItems(MaxRequestHashes, m.copies)
    /\ \E h \in received[m.to] : AnswersFor(h, m.copies)
    /\ \A i \in DOMAIN m.copies : m.copies[i].hash \in received[m.from]

LEMMA PartKept ==
    ASSUME NothingForgotten, NEW n \in Validators, NEW s, PartOfOrphan(n, s)
    PROVE  PartOfOrphan(n, s)'
BY DEF NothingForgotten, PartOfOrphan, FarAhead, CurrentRound

LEMMA FairKept ==
    ASSUME NothingForgotten, NEW m, m.from \in Validators, m.to \in Validators,
           Fair(m)
    PROVE  Fair(m)'
BY DEF NothingForgotten, Fair, AnswersFor, FarAhead, CurrentRound, AtMostItems

LEMMA SoughtKept ==
    ASSUME SyncTypeOK, OnlyParentsSought, NothingForgotten,
           \A n \in Validators : \A job \in jobs'[n] :
              job \in jobs[n] \/ PartOfOrphan(n, job.missing)',
           \A m \in BagToSet(network') :
              m \in BagToSet(network)
              \/ (m.type = "FETCH_REQ" => PartOfOrphan(m.from, m.hashes)'),
           \A n \in Validators : \A p \in pending'[n] :
              p \in pending[n] \/ Wanted(n, p)'
    PROVE  OnlyParentsSought'
<1>1. \A n \in Validators : \A job \in jobs'[n] : PartOfOrphan(n, job.missing)'
  BY PartKept DEF OnlyParentsSought
<1>2. ASSUME NEW m \in BagToSet(network'), m.type = "FETCH_REQ"
      PROVE  PartOfOrphan(m.from, m.hashes)'
  <2>1. CASE m \in BagToSet(network)
    <3>1. m.from \in Validators
      BY <2>1, <1>2 DEF SyncTypeOK, Message
    <3> QED  BY <2>1, <3>1, <1>2, PartKept DEF OnlyParentsSought
  <2> QED  BY <2>1, <1>2
<1>3. ASSUME NEW n \in Validators, NEW p \in pending'[n]
      PROVE  Wanted(n, p)'
  <2>1. Wanted(n, p) => Wanted(n, p)'
    BY DEF Wanted, NothingForgotten, FarAhead, CurrentRound
  <2>2. p \in pending[n] => Wanted(n, p)
    BY DEF Wanted, OnlyParentsSought
  <2> QED  BY <1>3, <2>1, <2>2
<1> QED  BY <1>1, <1>2, <1>3 DEF OnlyParentsSought, Wanted

LEMMA AnsweredKept ==
    ASSUME SyncTypeOK, OnlyHadAnswered, NothingForgotten,
           \A n \in Validators : \A h \in received'[n] :
              h \in received[n] \/ WellFormed(h),
           \A m \in BagToSet(network') :
              m \in BagToSet(network) \/ (m.type = "FETCH_RES" => Fair(m)')
    PROVE  OnlyHadAnswered'
<1>1. \A n \in Validators : \A h \in received'[n] : WellFormed(h)
  BY DEF OnlyHadAnswered
<1>2. ASSUME NEW m \in BagToSet(network'), m.type = "FETCH_RES"
      PROVE  Fair(m)'
  <2>1. CASE m \in BagToSet(network)
    <3>1. m.from \in Validators /\ m.to \in Validators
      BY <2>1, <1>2 DEF SyncTypeOK, Message
    <3>2. Fair(m)
      BY <2>1, <1>2 DEF OnlyHadAnswered, Fair
    <3> QED  BY <3>1, <3>2, FairKept
  <2> QED  BY <2>1, <1>2
<1> QED  BY <1>1, <1>2 DEF OnlyHadAnswered, Fair

(* A step that leaves vertices, requests, workers and messages alone.      *)
LEMMA QuietStep ==
    ASSUME ReplicaInvariant, UNCHANGED <<received, pending, jobs, network>>, SyncTypeOK'
    PROVE  ReplicaInvariant'
<1>1. NothingForgotten
  BY DEF NothingForgotten
<1>2. OnlyParentsSought'
  BY <1>1, SoughtKept DEF ReplicaInvariant
<1>3. OnlyHadAnswered'
  BY <1>1, AnsweredKept DEF ReplicaInvariant
<1> QED  BY <1>2, <1>3 DEF ReplicaInvariant

-----------------------------------------------------------------------------
(* Peers and life cycle.                                                   *)
LEMMA LifeCycleStep ==
    ASSUME ReplicaInvariant, NEW n \in Validators,
           (\E p \in Validators : AddPeer(n, p)) \/ Start(n) \/ Stop(n) \/ LoopExit(n)
    PROVE  ReplicaInvariant'
<1> USE DEF ReplicaInvariant, SyncTypeOK
<1>1. ASSUME NEW p \in Validators, AddPeer(n, p) PROVE ReplicaInvariant'
  BY <1>1, QuietStep DEF AddPeer
<1>2. CASE Start(n)
  BY <1>2, QuietStep DEF Start
<1>3. CASE Stop(n)
  BY <1>3, QuietStep DEF Stop
<1>4. CASE LoopExit(n)
  BY <1>4, QuietStep DEF LoopExit
<1> QED  BY <1>1, <1>2, <1>3, <1>4

(* What the DAG does with a vertex.                                        *)
LEMMA AddVertexEffect ==
    ASSUME SyncTypeOK, NEW n \in Validators, NEW copy \in Copy,
           NEW open \in SUBSET pending[n], AddVertex(n, copy, open)
    PROVE  /\ received' \in [Validators -> SUBSET Hash] /\ NothingForgotten
           /\ \A u \in Validators : \A h \in received'[u] :
                 h \in received[u] \/ WellFormed(h)
           /\ pending' \in [Validators -> SUBSET Hash]
           /\ \A u \in Validators : \A p \in pending'[u] :
                 p \in pending[u] \/ Wanted(u, p)'
           /\ jobs' \in [Validators -> SUBSET Job]
           /\ \A u \in Validators : \A job \in jobs'[u] :
                 job \in jobs[u] \/ PartOfOrphan(u, job.missing)'
<1> DEFINE h     == copy.hash
           seen  == Resolvable(received[n] \cup {h})
           fresh == Keep(Parents[h], Hash \ (seen \cup open))
           taken == copy.intact /\ WellFormed(h)
           sync  == taken /\ h \notin seen /\ FarAhead(h) /\ fresh # << >>
           new   == [orphan |-> h, missing |-> fresh, step |-> 1, at |-> "dispatch"]
<1>1. /\ received' = IF taken THEN [received EXCEPT ![n] = @ \cup {h}] ELSE received
      /\ pending' = [pending EXCEPT ![n] = IF sync THEN open \cup Range(fresh) ELSE open]
      /\ jobs' = IF ~sync THEN jobs ELSE [jobs EXCEPT ![n] = @ \cup {new}]
  BY DEF AddVertex
<1>2. h \in Hash
  BY DEF Copy
<1>3. /\ received \in [Validators -> SUBSET Hash]
      /\ pending \in [Validators -> SUBSET Hash]
      /\ jobs \in [Validators -> SUBSET Job]
  BY DEF SyncTypeOK
<1>4. /\ fresh \in Seq(Hash) /\ Len(fresh) <= Len(Parents[h])
      /\ Range(fresh) \subseteq ParentSet(h) /\ Range(fresh) \subseteq Hash
  <2>1. Parents[h] \in Seq(Hash)
    BY <1>2, VertexAssumption
  <2>2. ParentSet(h) \subseteq Hash
    BY <1>2, ParentSetType
  <2>3. /\ fresh \in Seq(Hash) /\ Len(fresh) <= Len(Parents[h])
        /\ Range(fresh) = Range(Parents[h]) \cap (Hash \ (seen \cup open))
    <3> HIDE DEF seen
    <3> QED  BY <2>1, KeepSelects
  <2> HIDE DEF fresh
  <2> QED  BY <2>2, <2>3 DEF ParentSet
<1>5. new \in Job
  <2> HIDE DEF fresh
  <2> QED  BY <1>2, <1>4 DEF Job
<1>6. sync => taken /\ FarAhead(h)
  OBVIOUS
<1>7. taken => WellFormed(h)
  OBVIOUS
<1> HIDE DEF h, fresh, taken, sync
<1>8. received' \in [Validators -> SUBSET Hash] /\ NothingForgotten
  BY <1>1, <1>2, <1>3 DEF NothingForgotten
<1>9. ASSUME NEW u \in Validators, NEW g \in received'[u]
      PROVE  g \in received[u] \/ WellFormed(g)
  BY <1>1, <1>3, <1>7, <1>9
<1>10. sync => h \in received'[n]
  BY <1>1, <1>3, <1>6
<1>11. pending' \in [Validators -> SUBSET Hash]
  BY <1>1, <1>3, <1>4
<1>12. ASSUME NEW u \in Validators, NEW p \in pending'[u]
       PROVE  p \in pending[u] \/ Wanted(u, p)'
  <2>1. CASE p \notin pending[u]
    <3>1. u = n /\ sync /\ p \in Range(fresh)
      BY <1>1, <1>3, <1>12, <2>1
    <3> QED  BY <3>1, <1>4, <1>6, <1>10 DEF Wanted, FarAhead, CurrentRound
  <2> QED  BY <2>1
<1>13. jobs' \in [Validators -> SUBSET Job]
  <2> HIDE DEF new
  <2> QED  BY <1>1, <1>3, <1>5
<1>14. ASSUME NEW u \in Validators, NEW job \in jobs'[u]
       PROVE  job \in jobs[u] \/ PartOfOrphan(u, job.missing)'
  <2>1. CASE job \notin jobs[u]
    <3>1. u = n /\ sync /\ job = new
      <4> HIDE DEF new
      <4> QED  BY <1>1, <1>3, <1>14, <2>1
    <3>2. job.missing = fresh
      BY <3>1
    <3> QED  BY <3>1, <3>2, <1>4, <1>6, <1>10 DEF PartOfOrphan, FarAhead, CurrentRound
  <2> QED  BY <2>1
<1> QED  BY <1>8, <1>9, <1>11, <1>12, <1>13, <1>14

(* A vertex is handed to the DAG, whoever does it, while no message comes  *)
(* to the network.                                                         *)
LEMMA AddVertexStep ==
    ASSUME ReplicaInvariant, NEW n \in Validators, NEW copy \in Copy,
           NEW open \in SUBSET pending[n], AddVertex(n, copy, open),
           handling' \in [Validators -> Seq(Copy)],
           UNCHANGED <<phase, peers, network, faults>>
    PROVE  ReplicaInvariant'
<1>0. SyncTypeOK /\ OnlyParentsSought /\ OnlyHadAnswered
  BY DEF ReplicaInvariant
<1>1. /\ received' \in [Validators -> SUBSET Hash] /\ NothingForgotten
      /\ \A u \in Validators : \A h \in received'[u] :
            h \in received[u] \/ WellFormed(h)
      /\ pending' \in [Validators -> SUBSET Hash]
      /\ \A u \in Validators : \A p \in pending'[u] :
            p \in pending[u] \/ Wanted(u, p)'
      /\ jobs' \in [Validators -> SUBSET Job]
      /\ \A u \in Validators : \A job \in jobs'[u] :
            job \in jobs[u] \/ PartOfOrphan(u, job.missing)'
  BY <1>0, AddVertexEffect
<1>2. SyncTypeOK'
  BY <1>0, <1>1 DEF SyncTypeOK
<1>3. OnlyParentsSought'
  BY <1>0, <1>1, SoughtKept
<1>4. OnlyHadAnswered'
  BY <1>0, <1>1, AnsweredKept
<1> QED  BY <1>2, <1>3, <1>4 DEF ReplicaInvariant

LEMMA CreateStep ==
    ASSUME ReplicaInvariant, NEW h \in Hash, Create(h)
    PROVE  ReplicaInvariant'
<1>1. Author[h] \in Validators /\ [hash |-> h, intact |-> TRUE] \in Copy
  BY VertexAssumption DEF Copy
<1>2. /\ AddVertex(Author[h], [hash |-> h, intact |-> TRUE], pending[Author[h]])
      /\ UNCHANGED <<phase, peers, handling, network, faults>>
  BY DEF Create
<1>3. handling' \in [Validators -> Seq(Copy)]
  BY <1>2 DEF ReplicaInvariant, SyncTypeOK
<1> QED  BY <1>1, <1>2, <1>3, AddVertexStep

LEMMA GossipStep ==
    ASSUME ReplicaInvariant, NEW n \in Validators, NEW h \in Hash, Gossip(n, h)
    PROVE  ReplicaInvariant'
<1>1. [hash |-> h, intact |-> TRUE] \in Copy
  BY DEF Copy
<1>2. /\ AddVertex(n, [hash |-> h, intact |-> TRUE], pending[n])
      /\ UNCHANGED <<phase, peers, handling, network, faults>>
  BY DEF Gossip
<1>3. handling' \in [Validators -> Seq(Copy)]
  BY <1>2 DEF ReplicaInvariant, SyncTypeOK
<1> QED  BY <1>1, <1>2, <1>3, AddVertexStep

-----------------------------------------------------------------------------
(***************************************************************************)
(* Workers.                                                                *)
(***************************************************************************)
(* A step of a worker: it goes on with a part of what it looks for, or     *)
(* ends; some requests are given up; new messages ask for that part.       *)
LEMMA WorkerStep ==
    ASSUME ReplicaInvariant, NEW n \in Validators, NEW job \in jobs[n],
           NEW new \in SUBSET Job, Replace(n, job, new),
           \A j \in new : PartOfOrphan(n, j.missing),
           UNCHANGED <<phase, peers, received, handling, faults>>,
           pending' \in [Validators -> SUBSET Hash],
           \A u \in Validators : pending'[u] \subseteq pending[u],
           BagToSet(network') \subseteq Message,
           \A m \in BagToSet(network') :
              \/ m \in BagToSet(network)
              \/ m.type = "FETCH_REQ" /\ PartOfOrphan(m.from, m.hashes)
    PROVE  ReplicaInvariant'
<1>0. SyncTypeOK /\ OnlyParentsSought /\ OnlyHadAnswered
  BY DEF ReplicaInvariant
<1>1. NothingForgotten
  BY DEF NothingForgotten
<1>2. \A u, s : PartOfOrphan(u, s) => PartOfOrphan(u, s)'
  BY DEF PartOfOrphan, FarAhead, CurrentRound
<1>3. jobs' \in [Validators -> SUBSET Job]
  BY <1>0 DEF SyncTypeOK, Replace
<1>4. ASSUME NEW u \in Validators, NEW j \in jobs'[u]
      PROVE  j \in jobs[u] \/ PartOfOrphan(u, j.missing)'
  <2>1. j \in jobs[u] \/ (u = n /\ j \in new)
    BY <1>0, <1>4 DEF SyncTypeOK, Replace
  <2> QED  BY <2>1, <1>2
<1>5. SyncTypeOK'
  BY <1>0, <1>3 DEF SyncTypeOK
<1>6. OnlyParentsSought'
  BY <1>0, <1>1, <1>2, <1>4, SoughtKept
<1>7. OnlyHadAnswered'
  BY <1>0, <1>1, AnsweredKept
<1> QED  BY <1>5, <1>6, <1>7 DEF ReplicaInvariant

(* What is still missing of a job is part of what the job was about.       *)
LEMMA StillMissing ==
    ASSUME ReplicaInvariant, NEW n \in Validators, NEW job \in jobs[n]
    PROVE  /\ job \in Job
           /\ GetMissingHashes(n, job.missing) \in Seq(Hash)
           /\ PartOfOrphan(n, GetMissingHashes(n, job.missing))
<1>1. job \in Job /\ job.missing \in Seq(Hash) /\ PartOfOrphan(n, job.missing)
  BY DEF ReplicaInvariant, SyncTypeOK, OnlyParentsSought, Job
<1> QED  BY <1>1, KeepPart DEF GetMissingHashes

LEMMA TargetsAreReplicas ==
    ASSUME SyncTypeOK, NEW n \in Validators, NEW job \in Job, NEW T \in Targets(n, job)
    PROVE  T \subseteq Validators
<1>1. peers[n] \subseteq Validators
  BY DEF SyncTypeOK
<1>2. Author[job.orphan] \in Validators
  BY VertexAssumption DEF Job
<1>3. \A S \in GetRandomPeers(n) : S \subseteq Validators
  BY <1>1 DEF GetRandomPeers
<1>4. job.step = 1 \/ job.step = 2 \/ job.step = 3
  BY DEF Job
<1> QED  BY <1>1, <1>2, <1>3, <1>4 DEF Targets

LEMMA DispatchStep ==
    ASSUME ReplicaInvariant, NEW n \in Validators, NEW job \in jobs[n], Dispatch(n, job)
    PROVE  ReplicaInvariant'
<1>1. PICK H : H = GetMissingHashes(n, job.missing)
  OBVIOUS
<1>2. job \in Job /\ H \in Seq(Hash) /\ PartOfOrphan(n, H)
  BY <1>1, StillMissing
<1>3. SyncTypeOK /\ BagToSet(network) \subseteq Message
      /\ pending \in [Validators -> SUBSET Hash]
  BY DEF ReplicaInvariant, SyncTypeOK
<1>4. UNCHANGED <<phase, peers, received, pending, handling, faults>>
  BY DEF Dispatch
<1>5. CASE H = << >> /\ Replace(n, job, {}) /\ UNCHANGED network
  BY <1>3, <1>4, <1>5, WorkerStep
<1>6. CASE /\ \E T \in Targets(n, job) :
                  network' = network (+) SetToBag({Request(n, p, H) : p \in T})
           /\ Replace(n, job, {[job EXCEPT !.missing = H, !.at = "wait"]})
  <2>1. PICK T \in Targets(n, job) :
                network' = network (+) SetToBag({Request(n, p, H) : p \in T})
    BY <1>6
  <2>2. T \subseteq Validators
    BY <1>2, <1>3, TargetsAreReplicas
  <2>3. \A p \in T : /\ Request(n, p, H) \in Message
                     /\ Request(n, p, H).type = "FETCH_REQ"
                     /\ PartOfOrphan(Request(n, p, H).from, Request(n, p, H).hashes)
    BY <1>2, <2>2 DEF Request, Message
  <2>4. BagToSet(network') = BagToSet(network) \cup {Request(n, p, H) : p \in T}
    BY <2>1, BagPlus
  <2>5. PICK j : j = [job EXCEPT !.missing = H, !.at = "wait"]
    OBVIOUS
  <2>6. j \in Job /\ j.missing = H
    BY <1>2, <2>5 DEF Job
  <2>7. Replace(n, job, {j})
    BY <1>6, <2>5
  <2>8. BagToSet(network') \subseteq Message
    BY <1>3, <2>3, <2>4
  <2>9. \A m \in BagToSet(network') :
            \/ m \in BagToSet(network)
            \/ m.type = "FETCH_REQ" /\ PartOfOrphan(m.from, m.hashes)
    BY <2>3, <2>4
  <2>10. {j} \in SUBSET Job /\ (\A i \in {j} : PartOfOrphan(n, i.missing))
    BY <2>6, <1>2
  <2> QED  BY <1>3, <1>4, <2>7, <2>8, <2>9, <2>10, WorkerStep
<1> QED  BY <1>1, <1>5, <1>6 DEF Dispatch

LEMMA WakeStep ==
    ASSUME ReplicaInvariant, NEW n \in Validators, NEW job \in jobs[n], Wake(n, job)
    PROVE  ReplicaInvariant'
<1>1. PICK H : H = GetMissingHashes(n, job.missing)
  OBVIOUS
<1>2. job \in Job /\ H \in Seq(Hash) /\ PartOfOrphan(n, H)
  BY <1>1, StillMissing
<1>3. SyncTypeOK /\ BagToSet(network) \subseteq Message
      /\ pending \in [Validators -> SUBSET Hash]
  BY DEF ReplicaInvariant, SyncTypeOK
<1>4. UNCHANGED <<phase, peers, received, handling, network, faults>>
  BY DEF Wake
<1>5. ASSUME Replace(n, job, {}),
             UNCHANGED pending \/ pending' = [pending EXCEPT ![n] = @ \ Range(H)]
      PROVE  ReplicaInvariant'
  <2>1. /\ pending' \in [Validators -> SUBSET Hash]
        /\ \A u \in Validators : pending'[u] \subseteq pending[u]
    BY <1>3, <1>5
  <2> QED  BY <1>3, <1>4, <1>5, <2>1, WorkerStep
<1>6. CASE /\ job.step < LastStep /\ UNCHANGED pending
           /\ Replace(n, job, {[job EXCEPT !.missing = H, !.step = @ + 1,
                                           !.at = "dispatch"]})
  <2>1. PICK j : j = [job EXCEPT !.missing = H, !.step = @ + 1, !.at = "dispatch"]
    OBVIOUS
  <2>2. job.step \in 1 .. 3 /\ job.step + 1 \in 1 .. 3
    BY <1>2, <1>6 DEF Job, LastStep
  <2>3. j \in Job /\ j.missing = H
    BY <1>2, <2>1, <2>2 DEF Job
  <2>4. Replace(n, job, {j})
    BY <1>6, <2>1
  <2>5. {j} \in SUBSET Job /\ (\A i \in {j} : PartOfOrphan(n, i.missing))
    BY <2>3, <1>2
  <2> QED  BY <1>3, <1>4, <1>6, <2>4, <2>5, WorkerStep
<1> QED  BY <1>1, <1>5, <1>6 DEF Wake

LEMMA CancelStep ==
    ASSUME ReplicaInvariant, NEW n \in Validators, NEW job \in jobs[n], Cancel(n, job)
    PROVE  ReplicaInvariant'
<1>1. BagToSet(network) \subseteq Message /\ pending \in [Validators -> SUBSET Hash]
  BY DEF ReplicaInvariant, SyncTypeOK
<1> QED  BY <1>1, WorkerStep DEF Cancel

LEMMA ExpireStep ==
    ASSUME ReplicaInvariant, NEW n \in Validators, NEW h \in Hash, Expire(n, h)
    PROVE  ReplicaInvariant'
<1>0. SyncTypeOK /\ OnlyParentsSought /\ OnlyHadAnswered
  BY DEF ReplicaInvariant
<1>1. NothingForgotten
  BY DEF Expire, NothingForgotten
<1>2. /\ pending' \in [Validators -> SUBSET Hash]
      /\ \A u \in Validators : pending'[u] \subseteq pending[u]
  BY <1>0 DEF Expire, SyncTypeOK
<1>3. SyncTypeOK'
  BY <1>0, <1>2 DEF Expire, SyncTypeOK
<1>4. OnlyParentsSought'
  BY <1>0, <1>1, <1>2, SoughtKept DEF Expire
<1>5. OnlyHadAnswered'
  BY <1>0, <1>1, AnsweredKept DEF Expire
<1> QED  BY <1>3, <1>4, <1>5 DEF ReplicaInvariant

-----------------------------------------------------------------------------
(***************************************************************************)
(* The router and the network.                                             *)
(***************************************************************************)
(* Messages come and go: what comes is an answer as it may be sent.        *)
LEMMA MessageStep ==
    ASSUME ReplicaInvariant, UNCHANGED <<phase, peers, received, pending, jobs>>,
           handling' \in [Validators -> Seq(Copy)], faults' \in 0 .. MaxFaults,
           \A m \in BagToSet(network') :
              \/ m \in BagToSet(network)
              \/ m \in Message /\ m.type = "FETCH_RES" /\ Fair(m)
    PROVE  ReplicaInvariant'
<1>0. SyncTypeOK /\ OnlyParentsSought /\ OnlyHadAnswered
  BY DEF ReplicaInvariant
<1>1. NothingForgotten
  BY DEF NothingForgotten
<1>2. SyncTypeOK'
  BY <1>0 DEF SyncTypeOK
<1>3. OnlyParentsSought'
  BY <1>0, <1>1, SoughtKept
<1>4. \A m \in BagToSet(network') :
          m \in BagToSet(network) \/ (m.type = "FETCH_RES" => Fair(m)')
  BY DEF Fair, AnswersFor, FarAhead, CurrentRound, AtMostItems
<1>5. OnlyHadAnswered'
  BY <1>0, <1>1, <1>4, AnsweredKept
<1> QED  BY <1>2, <1>3, <1>5 DEF ReplicaInvariant

(* What a replica answers to a request is in order.                        *)
LEMMA AnswerIsFair ==
    ASSUME ReplicaInvariant, NEW m \in BagToSet(network), m.type = "FETCH_REQ",
           ValidateRequest(m.hashes), Answer(m) # << >>,
           NEW r, r = [type |-> "FETCH_RES", from |-> m.to, to |-> m.from,
                       copies |-> Answer(m)]
    PROVE  r \in Message /\ r.type = "FETCH_RES" /\ Fair(r)
<1>1. /\ m.from \in Validators /\ m.to \in Validators /\ m.hashes \in Seq(Hash)
      /\ received[m.to] \subseteq Hash
  BY DEF ReplicaInvariant, SyncTypeOK, Message
<1>2. PICK found : found = Keep(m.hashes, Ledger(m.to))
  OBVIOUS
<1>3. /\ found \in Seq(Hash) /\ Len(found) <= Len(m.hashes)
      /\ Range(found) = Range(m.hashes) \cap Ledger(m.to)
  BY <1>1, <1>2, KeepSelects
<1>4. Answer(m) = [i \in DOMAIN found |-> [hash |-> found[i], intact |-> TRUE]]
  BY <1>2 DEF Answer
<1>5. Answer(m) \in Seq(Copy) /\ Len(Answer(m)) = Len(found)
  <2>1. \A i \in 1 .. Len(found) : [hash |-> found[i], intact |-> TRUE] \in Copy
    BY <1>3 DEF Copy
  <2>2. DOMAIN found = 1 .. Len(found) /\ Len(found) \in Nat
    BY <1>3
  <2> QED  BY <1>4, <2>1, <2>2
<1>6. Ledger(m.to) \subseteq received[m.to]
  BY LedgerReceived DEF Ledger
<1>7. \A i \in DOMAIN Answer(m) : Answer(m)[i].hash \in received[m.to]
  BY <1>3, <1>4, <1>6 DEF Range
<1>8. PICK h \in received[m.from] :
          /\ FarAhead(h) /\ Len(m.hashes) <= Len(Parents[h])
          /\ Range(m.hashes) \subseteq ParentSet(h)
  BY DEF ReplicaInvariant, OnlyParentsSought, PartOfOrphan
<1>9. h \in Hash /\ Parents[h] \in Seq(Hash)
  BY <1>1, <1>8, VertexAssumption DEF ReplicaInvariant, SyncTypeOK
<1>10. Len(m.hashes) \in Nat /\ Len(found) \in Nat /\ Len(Parents[h]) \in Nat
  BY <1>1, <1>3, <1>9
<1>11. Len(Answer(m)) <= Len(m.hashes) /\ Len(Answer(m)) <= Len(Parents[h])
  BY <1>3, <1>5, <1>8, <1>10
<1>12. AtMostItems(MaxRequestHashes, Answer(m))
  BY <1>5, <1>10, <1>11, LimitAssumption DEF ValidateRequest, AtMostItems
<1>13. AnswersFor(h, Answer(m))
  <2>1. Range(found) \subseteq ParentSet(h)
    BY <1>3, <1>8
  <2>2. \A i \in DOMAIN Answer(m) : Answer(m)[i].hash \in ParentSet(h)
    BY <1>4, <2>1 DEF Range
  <2> QED  BY <1>8, <1>11, <2>2 DEF AnswersFor
<1>14. r.copies = Answer(m) /\ r.from = m.to /\ r.type = "FETCH_RES" /\ r.to = m.from
  OBVIOUS
<1>15. r \in Message
  BY <1>1, <1>5 DEF Message
<1>16. Fair(r)
  BY <1>7, <1>8, <1>12, <1>13, <1>14 DEF Fair
<1> QED  BY <1>14, <1>15, <1>16

LEMMA HandleFetchRequestStep ==
    ASSUME ReplicaInvariant, NEW m \in BagToSet(network), HandleFetchRequest(m)
    PROVE  ReplicaInvariant'
<1>1. /\ UNCHANGED <<phase, peers, received, pending, jobs, handling, faults>>
      /\ m.type = "FETCH_REQ"
  BY DEF HandleFetchRequest
<1>2. handling' \in [Validators -> Seq(Copy)] /\ faults' \in 0 .. MaxFaults
  BY <1>1 DEF ReplicaInvariant, SyncTypeOK
<1>3. BagToSet(network (-) SetToBag({m})) \subseteq BagToSet(network)
  BY BagMinus
<1>4. PICK r : r = [type |-> "FETCH_RES", from |-> m.to, to |-> m.from,
                    copies |-> Answer(m)]
  OBVIOUS
<1>5. CASE ValidateRequest(m.hashes) /\ Answer(m) # << >>
  <2>1. r \in Message /\ r.type = "FETCH_RES" /\ Fair(r)
    BY <1>1, <1>4, <1>5, AnswerIsFair
  <2>2. network' = (network (-) SetToBag({m})) (+) SetToBag({r})
    BY <1>4, <1>5 DEF HandleFetchRequest
  <2>3. BagToSet(network') = BagToSet(network (-) SetToBag({m})) \cup {r}
    BY <2>2, BagPlus
  <2> QED  BY <1>1, <1>2, <1>3, <2>1, <2>3, MessageStep
<1>6. CASE ~(ValidateRequest(m.hashes) /\ Answer(m) # << >>)
  <2>1. network' = network (-) SetToBag({m})
    BY <1>6 DEF HandleFetchRequest
  <2> QED  BY <1>1, <1>2, <1>3, <2>1, MessageStep
<1> QED  BY <1>5, <1>6

LEMMA HandleFetchResponseStep ==
    ASSUME ReplicaInvariant, NEW m \in BagToSet(network), HandleFetchResponse(m)
    PROVE  ReplicaInvariant'
<1>1. /\ UNCHANGED <<phase, peers, received, pending, jobs, faults>>
      /\ m.type = "FETCH_RES" /\ network' = network (-) SetToBag({m})
  BY DEF HandleFetchResponse
<1>2. /\ m.copies \in Seq(Copy) /\ handling \in [Validators -> Seq(Copy)]
      /\ faults' \in 0 .. MaxFaults
  BY <1>1 DEF ReplicaInvariant, SyncTypeOK, Message
<1>3. handling' \in [Validators -> Seq(Copy)]
  BY <1>2 DEF HandleFetchResponse
<1>4. BagToSet(network') \subseteq BagToSet(network)
  BY <1>1, BagMinus
<1> QED  BY <1>1, <1>2, <1>3, <1>4, MessageStep

LEMMA HandleVertexStep ==
    ASSUME ReplicaInvariant, NEW n \in Validators, HandleVertex(n)
    PROVE  ReplicaInvariant'
<1>1. PICK copy : copy = Head(handling[n])
  OBVIOUS
<1>2. /\ handling \in [Validators -> Seq(Copy)] /\ handling[n] # << >>
      /\ handling' = [handling EXCEPT ![n] = Tail(@)]
      /\ UNCHANGED <<phase, peers, network, faults>>
  BY DEF HandleVertex, ReplicaInvariant, SyncTypeOK
<1>3. handling[n] \in Seq(Copy)
  BY <1>2
<1>4. copy \in Copy /\ Tail(handling[n]) \in Seq(Copy)
  BY <1>1, <1>2, <1>3
<1>5. handling' \in [Validators -> Seq(Copy)]
  BY <1>2, <1>4
<1>6. CASE UNCHANGED <<received, pending, jobs>>
  <2>1. SyncTypeOK'
    BY <1>2, <1>5, <1>6 DEF ReplicaInvariant, SyncTypeOK
  <2> QED  BY <1>2, <1>6, <2>1, QuietStep
<1>7. CASE AddVertex(n, copy, pending[n] \ {copy.hash})
  BY <1>2, <1>4, <1>5, <1>7, AddVertexStep
<1> QED  BY <1>1, <1>6, <1>7 DEF HandleVertex

LEMMA NetworkStep ==
    ASSUME ReplicaInvariant, NEW m \in BagToSet(network), Lose(m) \/ Duplicate(m) \/ Alter(m)
    PROVE  ReplicaInvariant'
<1>0. /\ handling \in [Validators -> Seq(Copy)] /\ faults \in 0 .. MaxFaults
      /\ MaxFaults \in Nat /\ m \in Message
  BY ReplicaAssumption DEF ReplicaInvariant, SyncTypeOK
<1>1. ASSUME NEW after, Fault(after),
             \A x \in BagToSet(after) :
                \/ x \in BagToSet(network)
                \/ x \in Message /\ x.type = "FETCH_RES" /\ Fair(x)
      PROVE  ReplicaInvariant'
  <2>1. /\ UNCHANGED <<phase, peers, received, pending, jobs, handling>>
        /\ faults' \in 0 .. MaxFaults /\ network' = after
    BY <1>0, <1>1 DEF Fault
  <2> QED  BY <1>0, <1>1, <2>1, MessageStep
<1>2. CASE Lose(m)
  BY <1>1, <1>2, BagMinus DEF Lose
<1>3. CASE Duplicate(m)
  <2>1. BagToSet(network (+) SetToBag({m})) = BagToSet(network) \cup {m}
    BY BagPlus
  <2> QED  BY <1>1, <1>3, <2>1 DEF Duplicate
<1>4. CASE Alter(m)
  <2>0. PICK i \in DOMAIN m.copies :
            Fault((network (-) SetToBag({m}))
                  (+) SetToBag({[m EXCEPT !.copies[i].intact = FALSE]}))
    BY <1>4 DEF Alter
  <2>1. PICK x : /\ x = [m EXCEPT !.copies[i].intact = FALSE]
                 /\ Fault((network (-) SetToBag({m})) (+) SetToBag({x}))
    BY <2>0
  <2>2. m.type = "FETCH_RES" /\ m.copies \in Seq(Copy) /\ m.from \in Validators
        /\ m.to \in Validators
    BY <1>0, <1>4 DEF Alter, Message
  <2>3. PICK c : c = [m.copies EXCEPT ![i].intact = FALSE]
    OBVIOUS
  <2>4. x = [m EXCEPT !.copies = c]
    BY <2>1, <2>3
  <2>5. /\ c \in Seq(Copy) /\ Len(c) = Len(m.copies) /\ DOMAIN c = DOMAIN m.copies
        /\ \A j \in DOMAIN c : c[j].hash = m.copies[j].hash
    <3>1. m.copies[i] \in Copy /\ [m.copies[i] EXCEPT !.intact = FALSE] \in Copy
          /\ [m.copies[i] EXCEPT !.intact = FALSE].hash = m.copies[i].hash
      <4>1. m.copies[i] \in Copy
        BY <2>1, <2>2
      <4> QED  BY <4>1 DEF Copy
    <3>2. PICK d : d = [m.copies[i] EXCEPT !.intact = FALSE]
      OBVIOUS
    <3>3. c = [m.copies EXCEPT ![i] = d]
      BY <2>3, <3>2
    <3> QED  BY <2>1, <2>2, <3>1, <3>2, <3>3
  <2>6. /\ x \in Message /\ x.type = "FETCH_RES" /\ x.copies = c /\ x.from = m.from
    BY <1>0, <2>2, <2>4, <2>5 DEF Message
  <2>7. Fair(m)
    BY <2>2 DEF ReplicaInvariant, OnlyHadAnswered, Fair
  <2>8. Fair(x)
    BY <2>2, <2>4, <2>5, <2>6, <2>7 DEF Fair, AnswersFor, AtMostItems
  <2>9. BagToSet((network (-) SetToBag({m})) (+) SetToBag({x}))
            = BagToSet(network (-) SetToBag({m})) \cup {x}
    BY BagPlus
  <2>10. BagToSet(network (-) SetToBag({m})) \subseteq BagToSet(network)
    BY BagMinus
  <2> QED  BY <1>1, <2>1, <2>6, <2>8, <2>9, <2>10
<1> QED  BY <1>2, <1>3, <1>4

-----------------------------------------------------------------------------
LEMMA InitInvariant ==
    ASSUME Init
    PROVE  ReplicaInvariant
<1>1. BagToSet(network) = {}
  BY DEF Init, EmptyBag, BagToSet, SetToBag
<1>2. SyncTypeOK
  BY <1>1, ReplicaAssumption DEF Init, SyncTypeOK
<1>3. OnlyParentsSought
  BY <1>1 DEF Init, OnlyParentsSought
<1>4. OnlyHadAnswered
  BY <1>1 DEF Init, OnlyHadAnswered
<1> QED  BY <1>2, <1>3, <1>4 DEF ReplicaInvariant

LEMMA NextInvariant ==
    ASSUME ReplicaInvariant, [Next]_vars
    PROVE  ReplicaInvariant'
<1>1. CASE UNCHANGED vars
  <2>1. SyncTypeOK'
    BY <1>1 DEF vars, ReplicaInvariant, SyncTypeOK
  <2> QED  BY <1>1, <2>1, QuietStep DEF vars
<1>2. ASSUME NEW n \in Validators,
             (\E p \in Validators : AddPeer(n, p)) \/ Start(n) \/ Stop(n) \/ LoopExit(n)
      PROVE  ReplicaInvariant'
  BY <1>2, LifeCycleStep
<1>3. ASSUME NEW h \in Hash, Create(h) PROVE ReplicaInvariant'
  BY <1>3, CreateStep
<1>4. ASSUME NEW n \in Validators, NEW h \in Hash, Gossip(n, h) \/ Expire(n, h)
      PROVE  ReplicaInvariant'
  BY <1>4, GossipStep, ExpireStep
<1>5. ASSUME NEW n \in Validators, NEW job \in jobs[n],
             Dispatch(n, job) \/ Wake(n, job) \/ Cancel(n, job)
      PROVE  ReplicaInvariant'
  BY <1>5, DispatchStep, WakeStep, CancelStep
<1>6. ASSUME NEW n \in Validators, Handle(n) PROVE ReplicaInvariant'
  <2>1. CASE HandleVertex(n)
    BY <2>1, HandleVertexStep
  <2>2. ASSUME NEW m \in BagToSet(network),
               HandleFetchRequest(m) \/ HandleFetchResponse(m)
        PROVE  ReplicaInvariant'
    BY <2>2, HandleFetchRequestStep, HandleFetchResponseStep
  <2> QED  BY <1>6, <2>1, <2>2 DEF Handle
<1>7. ASSUME NEW m \in BagToSet(network), Lose(m) \/ Duplicate(m) \/ Alter(m)
      PROVE  ReplicaInvariant'
  BY <1>7, NetworkStep
<1> QED  BY <1>1, <1>2, <1>3, <1>4, <1>5, <1>6, <1>7 DEF Next, Work

(* Whatever a replica looks for, asks others for or holds a window open    *)
(* for is a parent of an orphan it was given, and no answer carries what   *)
(* its sender was not given or more than one request may ask for.          *)
THEOREM ReplicaInvariantHolds == Spec => []ReplicaInvariant
BY InitInvariant, NextInvariant, PTL DEF Spec

-----------------------------------------------------------------------------
(* What a replica was given meets the structural rules, unless it has no   *)
(* parents though its round is not 0: no replica takes what is malformed,  *)
(* and nothing lists itself (fetch_rules.go:141).                          *)
LEMMA HonestVertex ==
    ASSUME ReplicaInvariant, NEW n \in Validators, NEW p \in received[n], ~Unacceptable(p)
    PROVE  ValidateRoundRange(p, CurrentRound) /\ ValidateStructure(p)
<1>1. p \in Hash /\ WellFormed(p)
  BY DEF ReplicaInvariant, SyncTypeOK, OnlyHadAnswered
<1>2. ~HasDuplicate(Parents[p])
  <2>1. Parents[p] \in Seq(Nat)
    <3>1. Hash \subseteq Nat /\ Parents[p] \in Seq(Hash)
      BY <1>1, VertexAssumption
    <3> QED  BY <3>1, SeqMonotonic
  <2> QED  BY <1>1, <2>1, WellFormedNoDuplicate DEF WellFormed
<1>3. p \notin ParentSet(p)
  <2>1. Generation[p] \in Nat
    BY <1>1, VertexAssumption
  <2> QED  BY <1>1, <2>1, ParentSetType
<1>4. ValidateStructure(p)
  BY <1>2, <1>3 DEF Unacceptable, ValidateStructure
<1>5. Round[p] \in Nat /\ maxFuture = 10 /\ maxPast = 50 /\ CurrentRound = 0
  BY <1>1, VertexAssumption DEF maxFuture, maxPast, CurrentRound
<1>6. ValidateRoundRange(p, CurrentRound)
  BY <1>5 DEF Unacceptable, ValidateRoundRange
<1> QED  BY <1>4, <1>6

LEMMA RefusalReasons ==
    ASSUME ReplicaInvariant, NEW m \in BagToSet(network), m.type = "FETCH_RES",
           \A i \in DOMAIN m.copies : m.copies[i].intact, ~Refusable(m)
    PROVE  Accepts(m.to, m.copies)
<1>1. m.from \in Validators
  BY DEF ReplicaInvariant, SyncTypeOK, Message
<1>2. m.copies # << >> /\ \A i \in DOMAIN m.copies : m.copies[i].hash \in received[m.from]
  BY DEF ReplicaInvariant, OnlyHadAnswered
<1>3. ASSUME NEW i \in DOMAIN m.copies
      PROVE  Passes(m.copies[i], Ledger(m.to), pending[m.to], CurrentRound)
  BY <1>1, <1>2, HonestVertex DEF Passes, Refusable
<1> QED  BY <1>2, <1>3 DEF Accepts, ValidateResponse, Refusable

(* What can be held against an answer comes from a misfit: what was asked  *)
(* for is the parent of an orphan far ahead, and all that an answer brings *)
(* are parents of one.                                                     *)
LEMMA CauseIsMisfit ==
    ASSUME ReplicaInvariant, NEW m \in BagToSet(network), m.type = "FETCH_RES",
           Refusable(m)
    PROVE  \E h \in received[m.to], i \in DOMAIN m.copies :
              Misfit(h) /\ m.copies[i].hash \in ParentSet(h)
<1>1. /\ m.to \in Validators /\ m.copies \in Seq(Copy) /\ m.copies # << >>
      /\ received[m.to] \subseteq Hash
  BY DEF ReplicaInvariant, SyncTypeOK, OnlyHadAnswered, Message
<1>2. CASE ~AtMostItems(MaxVertexCount, m.copies)
  <2>1. PICK h \in received[m.to] : AnswersFor(h, m.copies)
    BY DEF ReplicaInvariant, OnlyHadAnswered
  <2>2. Len(m.copies) \in Nat /\ Len(Parents[h]) \in Nat
    <3>1. Parents[h] \in Seq(Hash)
      BY <1>1, <2>1, VertexAssumption
    <3> QED  BY <1>1, <3>1
  <2>3. AtMostItems(MaxRequestHashes, m.copies) /\ Len(m.copies) <= Len(Parents[h])
    BY <2>1 DEF ReplicaInvariant, OnlyHadAnswered, AnswersFor
  <2>4. MaxVertexCount > 0 /\ Len(m.copies) > MaxVertexCount
    BY <1>2, <2>2, LimitAssumption DEF AtMostItems
  <2>5. /\ ~AtMostItems(MaxVertexCount, Parents[h])
        /\ MaxRequestHashes \notin 1 .. MaxVertexCount
    BY <2>2, <2>3, <2>4, LimitAssumption DEF AtMostItems
  <2>6. Misfit(h)
    BY <2>1, <2>5 DEF Misfit, AnswersFor
  <2>7. 1 \in DOMAIN m.copies
    BY <1>1
  <2> QED  BY <2>1, <2>6, <2>7 DEF AnswersFor
<1>3. CASE \E i \in DOMAIN m.copies :
              m.copies[i].hash \in pending[m.to] /\ Unacceptable(m.copies[i].hash)
  <2>1. PICK i \in DOMAIN m.copies :
           m.copies[i].hash \in pending[m.to] /\ Unacceptable(m.copies[i].hash)
    BY <1>3
  <2>2. PICK h \in received[m.to] : FarAhead(h) /\ m.copies[i].hash \in ParentSet(h)
    BY <1>1, <2>1 DEF ReplicaInvariant, OnlyParentsSought
  <2> QED  BY <2>1, <2>2 DEF Misfit
<1> QED  BY <1>2, <1>3 DEF Refusable

(* An answer that nobody altered is refused for three reasons at most: it  *)
(* is too long, or a vertex of it that was asked for is too far ahead, or  *)
(* has no parents though it is not of round 0 (fetch_rules.go:61-153); and *)
(* whoever refuses it holds an orphan whose parents are like that.  This   *)
(* is for any limits and rounds, those that the code ships with included:  *)
(* it is never because a replica sends what is malformed or lists itself,  *)
(* or because the answer comes in an order that was not expected.          *)
THEOREM AnswersAlwaysFit == Spec => []AnswersFit
<1>1. ReplicaInvariant => AnswersFit
  BY RefusalReasons, CauseIsMisfit DEF AnswersFit
<1> QED  BY <1>1, ReplicaInvariantHolds, PTL
=============================================================================
