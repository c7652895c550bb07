-------------------------------- MODULE DAG ---------------------------------
(***************************************************************************)
(* The causal ledger of a node (core/dag.go), composed with the Orphanage  *)
(* it owns and the Slasher it reports to.  Several goroutines may be       *)
(* inside AddVertex at once; vertices arrive in any order, any number of   *)
(* times, intact or altered on the way (the Hash field no longer matches   *)
(* the content).                                                           *)
(*                                                                         *)
(* A step is what one goroutine does between two points where another can  *)
(* observe or change shared state.  Whoever holds DAG.mu runs the cascade  *)
(* one worklist entry per step, because the Orphanage and the Slasher have *)
(* locks of their own and stay reachable meanwhile.                        *)
(***************************************************************************)
EXTENDS Orphanage, Slasher

CONSTANTS
    Threads,                \* goroutines that call AddVertex
    NoThread, NoCall,
    NodeRound,              \* currentNodeRound, the same in every call
    SyncTriggerThreshold    \* config.DAGConfig

ASSUME DAGAssumption ==
    /\ NoThread \notin Threads
    /\ NodeRound \in Nat
    /\ SyncTriggerThreshold \in Nat

Call == [vtx : Hash, intact : BOOLEAN, missing : SUBSET Hash]

ASSUME NoCall \notin Call

VARIABLES
    vertices,       \* keys of DAG.Vertices
    roundIndex,     \* DAG.RoundIndex; an absent round is << >>
    mu,             \* holder of the write lock DAG.mu
    pc, call,       \* per goroutine: where it is in AddVertex; its arguments
    worklist,       \* locals of processInsertionLocked, whose caller holds mu
    affectedRounds,
    received,       \* history: hashes ever passed to AddVertex intact
    requested       \* history: hashes passed to Fetcher.StartSync

ledgerState == <<vertices, roundIndex, mu, worklist, affectedRounds>>
dagVars == <<ledgerState, pc, call, received, requested>>
vars == <<dagVars, orphanageVars, slasherVars>>

Rounds == Range(Round)
FarAhead(h) == Round[h] > NodeRound + SyncTriggerThreshold

\* dag.go:54
Init ==
    /\ NewOrphanage
    /\ SlasherInit
    /\ vertices = {}
    /\ roundIndex = [r \in Rounds |-> << >>]
    /\ mu = NoThread
    /\ pc = [t \in Threads |-> "idle"]
    /\ call = [t \in Threads |-> NoCall]
    /\ worklist = << >>
    /\ affectedRounds = {}
    /\ received = {}
    /\ requested = {}

Return(t) ==
    /\ pc' = [pc EXCEPT ![t] = "idle"]
    /\ call' = [call EXCEPT ![t] = NoCall]

GoTo(t, label) == pc' = [pc EXCEPT ![t] = label] /\ UNCHANGED call

\* Faulty variant: a buffered parent counts as present.
GetMissingOutsideBuffer(h) == (ParentSet(h) \ vertices) \ orphans

\* dag.go:186.  A well-formed parent list has no duplicates: a set will do.
GetMissingHashesLocked(h) == ParentSet(h) \ vertices

-----------------------------------------------------------------------------
(* dag.go:69-76.  A goroutine is given h, perhaps altered, and looks it up *)
(* under the read lock.  Nothing it has read survives the unlock.          *)
Lookup(t, h, intact) ==
    /\ pc[t] = "idle"
    /\ mu = NoThread
    /\ received' = IF intact THEN received \cup {h} ELSE received
    /\ \/ h \in vertices /\ UNCHANGED <<pc, call>>
       \/ /\ h \notin vertices
          /\ pc' = [pc EXCEPT ![t] = "screen"]
          /\ call' = [call EXCEPT ![t] =
                [vtx |-> h, intact |-> intact, missing |-> {}]]
    /\ UNCHANGED <<ledgerState, requested, orphanageVars, slasherVars>>

\* Faulty variant: the hash is not recomputed.
ScreenWithoutHash(t) ==
    LET h == call[t].vtx
    IN  /\ pc[t] = "screen"
        /\ IF WellFormed(h)
           THEN GoTo(t, "lock") /\ UNCHANGED slasherVars
           ELSE Return(t) /\ AddDemerit(Author[h], MalformedVertexPenalty, h)
        /\ UNCHANGED <<ledgerState, received, requested, orphanageVars>>

\* Faulty variant: an altered vertex is charged to the author it names.
ScreenBlamesAuthor(t) ==
    LET h == call[t].vtx
    IN  /\ pc[t] = "screen"
        /\ IF WellFormed(h) /\ call[t].intact
           THEN GoTo(t, "lock") /\ UNCHANGED slasherVars
           ELSE Return(t) /\ AddDemerit(Author[h], MalformedVertexPenalty, h)
        /\ UNCHANGED <<ledgerState, received, requested, orphanageVars>>

(* dag.go:78-96, no lock held: an altered vertex is dropped, a malformed   *)
(* one is charged to the author it names, the rest go on.                  *)
Screen(t) ==
    LET h == call[t].vtx
    IN  /\ pc[t] = "screen"
        /\ \/ /\ ~call[t].intact
              /\ Return(t)
              /\ UNCHANGED slasherVars
           \/ /\ call[t].intact /\ ~WellFormed(h)
              /\ Return(t)
              /\ AddDemerit(Author[h], MalformedVertexPenalty, h)
           \/ /\ call[t].intact /\ WellFormed(h)
              /\ GoTo(t, "lock")
              /\ UNCHANGED slasherVars
        /\ UNCHANGED <<ledgerState, received, requested, orphanageVars>>

\* Faulty variant: the early return forgets to unlock.
LockKnownKeepsLock(t) ==
    /\ call[t].vtx \in vertices
    /\ Return(t)
    /\ mu' = t
    /\ UNCHANGED <<vertices, roundIndex, worklist, affectedRounds, orphanageVars>>

\* Faulty variant: the call starts over.
LockKnownStartsOver(t) ==
    /\ call[t].vtx \in vertices
    /\ GoTo(t, "screen")
    /\ UNCHANGED <<ledgerState, orphanageVars>>

(* dag.go:102-105.  Another goroutine inserted it in the meantime.         *)
LockKnown(t) ==
    /\ call[t].vtx \in vertices
    /\ Return(t)
    /\ UNCHANGED <<ledgerState, orphanageVars>>

\* Faulty variant: off by one in the comparison with the threshold.
LockOrphanLateSync(t) ==
    LET h == call[t].vtx  missing == GetMissingHashesLocked(h)
    IN  /\ h \notin vertices /\ missing # {}
        /\ AddOrphan(h, missing)
        /\ IF Round[h] > NodeRound + SyncTriggerThreshold + 1
           THEN /\ pc' = [pc EXCEPT ![t] = "sync"]
                /\ call' = [call EXCEPT ![t].missing = missing]
           ELSE Return(t)
        /\ UNCHANGED ledgerState

(* dag.go:107-127.  Ancestors are missing: buffer the vertex, and if it is *)
(* far ahead of the node, ask for them once the lock is released.          *)
LockOrphan(t) ==
    LET h == call[t].vtx  missing == GetMissingHashesLocked(h)
    IN  /\ h \notin vertices /\ missing # {}
        /\ AddOrphan(h, missing)
        /\ IF FarAhead(h)
           THEN /\ pc' = [pc EXCEPT ![t] = "sync"]
                /\ call' = [call EXCEPT ![t].missing = missing]
           ELSE Return(t)
        /\ UNCHANGED ledgerState

(* dag.go:135, 143-144.  Complete: start the cascade, keeping the lock.    *)
LockInsert(t) ==
    /\ call[t].vtx \notin vertices
    /\ GetMissingHashesLocked(call[t].vtx) = {}
    /\ mu' = t
    /\ worklist' = <<call[t].vtx>>
    /\ affectedRounds' = {}
    /\ GoTo(t, "cascade")
    /\ UNCHANGED <<vertices, roundIndex, orphanageVars>>

\* dag.go:99-127
Lock(t) ==
    /\ pc[t] = "lock"
    /\ mu = NoThread
    /\ LockKnown(t) \/ LockOrphan(t) \/ LockInsert(t)
    /\ UNCHANGED <<received, requested, slasherVars>>

\* Faulty variant: released children are not put on the worklist.
CascadeForgetsChildren(t) ==
    LET h == Head(worklist)
    IN  /\ pc[t] = "cascade" /\ worklist # << >>
        /\ vertices' = vertices \cup {h}
        /\ roundIndex' = [roundIndex EXCEPT ![Round[h]] = Append(@, h)]
        /\ affectedRounds' = affectedRounds \cup {Round[h]}
        /\ OnParentArrival(h)
        /\ worklist' = Tail(worklist)
        /\ UNCHANGED <<mu, pc, call, received, requested, slasherVars>>

\* Faulty variant: the head stays on the worklist.
CascadeLeavesHead(t) ==
    LET h == Head(worklist)
    IN  /\ pc[t] = "cascade" /\ worklist # << >> /\ h \notin vertices
        /\ vertices' = vertices \cup {h}
        /\ roundIndex' = [roundIndex EXCEPT ![Round[h]] = Append(@, h)]
        /\ affectedRounds' = affectedRounds \cup {Round[h]}
        /\ OnParentArrival(h)
        /\ worklist' = worklist \o SortVertices(Ready(h))
        /\ UNCHANGED <<mu, pc, call, received, requested, slasherVars>>

\* Faulty variant: only the round of the last vertex is marked for sorting.
CascadeMarksLastRound(t) ==
    LET h == Head(worklist)
    IN  /\ pc[t] = "cascade" /\ worklist # << >> /\ h \notin vertices
        /\ vertices' = vertices \cup {h}
        /\ roundIndex' = [roundIndex EXCEPT ![Round[h]] = Append(@, h)]
        /\ affectedRounds' = {Round[h]}
        /\ OnParentArrival(h)
        /\ worklist' = Tail(worklist) \o SortVertices(Ready(h))
        /\ UNCHANGED <<mu, pc, call, received, requested, slasherVars>>

(* dag.go:146-170.  The next worklist entry enters the ledger, unless it   *)
(* is there already, and the orphans it completes join the worklist.       *)
Cascade(t) ==
    LET h == Head(worklist)
    IN  /\ pc[t] = "cascade" /\ worklist # << >>
        /\ IF h \in vertices
           THEN /\ worklist' = Tail(worklist)
                /\ UNCHANGED <<vertices, roundIndex, affectedRounds, orphanageVars>>
           ELSE /\ vertices' = vertices \cup {h}
                /\ roundIndex' = [roundIndex EXCEPT ![Round[h]] = Append(@, h)]
                /\ affectedRounds' = affectedRounds \cup {Round[h]}
                /\ OnParentArrival(h)
                /\ worklist' = Tail(worklist) \o SortVertices(Ready(h))
        /\ UNCHANGED <<mu, pc, call, received, requested, slasherVars>>

\* Faulty variant: this path forgets to unlock.
NormalizeKeepsLock(t) ==
    /\ pc[t] = "cascade" /\ worklist = << >>
    /\ roundIndex' = [r \in Rounds |->
          IF r \in affectedRounds THEN SortHashes(roundIndex[r])
                                  ELSE roundIndex[r]]
    /\ affectedRounds' = {}
    /\ Return(t)
    /\ UNCHANGED <<vertices, mu, worklist, received, requested, orphanageVars,
                   slasherVars>>

(* dag.go:171-181 and the unlock at line 136.                              *)
Normalize(t) ==
    /\ pc[t] = "cascade" /\ worklist = << >>
    /\ roundIndex' = [r \in Rounds |->
          IF r \in affectedRounds THEN SortHashes(roundIndex[r])
                                  ELSE roundIndex[r]]
    /\ affectedRounds' = {}
    /\ mu' = NoThread
    /\ Return(t)
    /\ UNCHANGED <<vertices, worklist, received, requested, orphanageVars,
                   slasherVars>>

(* dag.go:122-124.  Runs after the unlock, with the list computed before.  *)
StartSync(t) ==
    /\ pc[t] = "sync"
    /\ requested' = requested \cup call[t].missing
    /\ Return(t)
    /\ UNCHANGED <<ledgerState, received, orphanageVars, slasherVars>>
-----------------------------------------------------------------------------
(***************************************************************************)
(* Queries.                                                                *)
(***************************************************************************)
\* Faulty variant: a vertex is a tip if it has no parent.
GetRoots == {h \in vertices : ParentSet(h) = {}}

\* dag.go:244
GetTips == {h \in vertices : \A g \in vertices : h \notin ParentSet(g)}

\* dag.go:218
GetVerticesByRound(r) == Keep(roundIndex[r], vertices)

-----------------------------------------------------------------------------
(***************************************************************************)
(* Specification.  The Go scheduler runs every goroutine that can run, and *)
(* sync.RWMutex hands the lock to whoever waits for it long enough, even   *)
(* if others keep taking it: weak fairness for the former, strong for the  *)
(* latter.  Nothing forces a call to happen.                               *)
(***************************************************************************)
Step(t) == Screen(t) \/ Lock(t) \/ Cascade(t) \/ Normalize(t) \/ StartSync(t)

Receive(h, intact) == \E t \in Threads : Lookup(t, h, intact)

Next ==
    \/ \E h \in Hash, intact \in BOOLEAN : Receive(h, intact)
    \/ \E t \in Threads : Step(t)

Fairness ==
    \A t \in Threads :
        /\ WF_vars(Screen(t)) /\ WF_vars(Cascade(t)) /\ WF_vars(Normalize(t))
        /\ WF_vars(StartSync(t))
        /\ SF_vars(Lock(t))

Spec == Init /\ [][Next]_vars

FairSpec == Spec /\ Fairness

(* Eventual data delivery, the assumption of orphanage.go:34-36: peers     *)
(* hand over every vertex again and again.                                 *)
RedeliverySpec ==
    FairSpec /\ \A h \in Hash : SF_vars(Receive(h, TRUE))

-----------------------------------------------------------------------------
DAGTypeOK ==
    /\ OrphanageTypeOK
    /\ SlasherTypeOK
    /\ vertices \subseteq Hash
    /\ roundIndex \in [Rounds -> Seq(Hash)]
    /\ mu \in Threads \cup {NoThread}
    /\ pc \in [Threads -> {"idle", "screen", "lock", "cascade", "sync"}]
    /\ call \in [Threads -> Call \cup {NoCall}]
    /\ worklist \in Seq(Hash)
    /\ affectedRounds \subseteq Rounds
    /\ received \subseteq Hash
    /\ requested \subseteq Hash

Quiet == \A t \in Threads : pc[t] = "idle"

(* The ledger is causally closed and well formed at every moment, in the   *)
(* middle of a cascade too (dag.go:98, dag.go:8-11).                       *)
CausalClosure == CausallyClosed(vertices) /\ \A h \in vertices : WellFormed(h)

(* The Orphanage tracks the ledger step by step: its maps agree with each  *)
(* other and with what the ledger still lacks, and nothing is both waiting *)
(* and inserted (orphanage.go:8, "Zero-Count Liberation" orphanage.go:9).  *)
BufferAgrees ==
    /\ BufferSync
    /\ BufferTracks(vertices)
    /\ orphans \cap vertices = {}

(* A worklist entry is new, complete and listed once, so the skip of       *)
(* dag.go:150-152 never happens and nothing is indexed twice.              *)
WorklistFresh ==
    /\ IsInjective(worklist)
    /\ Range(worklist) \cap (vertices \cup orphans) = {}
    /\ \A h \in Range(worklist) : ParentSet(h) \subseteq vertices

(* Delivery order, duplication, alteration and concurrency leave no trace: *)
(* between calls the ledger is a function of what has been received, as    *)
(* long as the buffer cannot overflow (dag.go:8, orphanage.go:28-36).      *)
Convergent ==
    Quiet /\ Cardinality(Hash) <= Capacity => vertices = Resolvable(received)

InRound(r) == {h \in vertices : Round[h] = r}

(* The same for the index: whenever the lock is free, a round lists its    *)
(* vertices once each, in the order of their hashes (dag.go:139-141).      *)
CanonicalIndex ==
    mu = NoThread => \A r \in Rounds :
        GetVerticesByRound(r) = SortVertices(InRound(r))

(* A buffered vertex far ahead of the node never waits for an ancestor     *)
(* that nobody asked for or is about to ask for (dag.go:117-124).          *)
SyncCoverage ==
    \A c \in orphans : FarAhead(c) =>
        ParentSet(c) \ vertices \subseteq
            requested \cup
            UNION {call[t].missing : t \in {u \in Threads : pc[u] = "sync"}}

(* The tips reference, directly or not, the whole ledger: a proposer that  *)
(* builds on them leaves no vertex behind (dag.go:239-240).                *)
TipsCover ==
    \A S \in SUBSET vertices : GetTips \subseteq S /\ CausallyClosed(S) => S = vertices

(* An orphan leaves the buffer to enter the ledger, or makes way, in a     *)
(* full buffer, for one that no more parents keep waiting                  *)
(* (orphanage.go:99-103).                                                  *)
NoNeedlessEviction ==
    [][\A c \in orphans \ orphans' :
          \/ c \in Range(worklist')
          \/ /\ Cardinality(orphans) = Capacity
             /\ \E v \in orphans' \ orphans :
                   lostParentCount'[v] <= lostParentCount[c]]_vars

(* Every call of AddVertex returns, whatever the others do: the lock order *)
(* DAG.mu > Orphanage.mu leaves no way to block for ever (dag.go:22-24).   *)
CallReturns == \A t \in Threads : pc[t] # "idle" ~> pc[t] = "idle"

(* The screening charges for what came in intact and is malformed, nothing *)
(* else: not for what was altered on the way, nor for what lacks parents.  *)
(* It overlooks none of it, charges each vertex once to the validator that *)
(* it names, although two goroutines may screen it at a time, and stops at *)
(* the threshold (dag.go:80-96, slasher.go:158).                           *)
DemeritsAddUp ==
    /\ \A h \in processedEv : h \in received /\ ~WellFormed(h)
    /\ \A h \in received :
          \/ WellFormed(h) \/ h \in processedEv \/ IsSlashed(Author[h])
          \/ \E t \in Threads : pc[t] = "screen" /\ call[t].intact /\ call[t].vtx = h
    /\ \A v \in Validators :
          /\ penaltyTable[v] = Cardinality(Charged(v)) * MalformedVertexPenalty
          /\ penaltyTable[v] < SlashThreshold + MalformedVertexPenalty

(* How many steps a call has before it at most.  The lock is held for one  *)
(* insertion per vertex that is not in the ledger yet, and no more.        *)
StepsLeft(t) ==
    CASE pc[t] = "screen"  -> Cardinality(Hash) + 3
      [] pc[t] = "lock"    -> Cardinality(Hash) + 2
      [] pc[t] = "cascade" -> Cardinality(Hash \ vertices) + 1
      [] pc[t] = "sync"    -> 1
      [] pc[t] = "idle"    -> 0

(* Every step of a call brings its end nearer, and no other goroutine, by  *)
(* whatever it inserts or buffers in between, puts it off: a call never    *)
(* starts over, and a cascade feeds on nothing twice (dag.go:146-170).     *)
CallAdvances ==
    [][\A t \in Threads : pc[t] # "idle" =>
          /\ StepsLeft(t)' <= StepsLeft(t)
          /\ Step(t) => StepsLeft(t)' < StepsLeft(t)]_vars

(* With eventual delivery the ledger becomes complete and stays so,        *)
(* whatever the capacity evicted on the way (orphanage.go:28-36).          *)
EventuallyComplete == <>[](vertices = Resolvable(Hash))

(***************************************************************************)
(* What the properties above need to be inductive.                         *)
(***************************************************************************)
(* The write lock is held exactly by a goroutine inside the cascade, and   *)
(* the cascade leaves no work behind.                                      *)
LockDiscipline ==
    /\ \A t \in Threads : pc[t] = "cascade" <=> mu = t
    /\ mu = NoThread => worklist = << >> /\ affectedRounds = {}

(* Only intact, well-formed vertices get past the screening.               *)
CallsScreened ==
    \A t \in Threads : pc[t] # "idle" =>
        /\ call[t] \in Call
        /\ call[t].intact => call[t].vtx \in received
        /\ pc[t] # "screen" => call[t].intact /\ WellFormed(call[t].vtx)

Stored == vertices \cup orphans \cup Range(worklist)

StoredScreened == \A h \in Stored : WellFormed(h) /\ h \in received

(* A well-formed vertex that was received is stored, or still in the hands *)
(* of a goroutine that will store it.                                      *)
Carried(h) ==
    \E t \in Threads :
        pc[t] \in {"screen", "lock"} /\ call[t].intact /\ call[t].vtx = h

NothingDropped ==
    Cardinality(Hash) <= Capacity =>
        \A h \in received : WellFormed(h) => h \in Stored \/ Carried(h)

(* A round lists its vertices once each, and only a round touched by the   *)
(* cascade under way may be out of order.                                  *)
IndexTracks ==
    \A r \in Rounds :
        /\ IsInjective(roundIndex[r])
        /\ Range(roundIndex[r]) = InRound(r)
        /\ r \notin affectedRounds => roundIndex[r] = SortVertices(InRound(r))

InductiveInvariant ==
    /\ DAGTypeOK /\ CausalClosure /\ BufferAgrees /\ WorklistFresh
    /\ LockDiscipline /\ CallsScreened /\ StoredScreened /\ NothingDropped
    /\ IndexTracks /\ SyncCoverage

(* The ledger, seen through Vertices, is the abstract one.                 *)
Ledger == INSTANCE CausalLedger WITH ledger <- vertices, available <- received
ImplementsCausalLedger == Ledger!LedgerSpec

(* "Once missing parent data is eventually received, all nodes converge to *)
(* an identical final DAG structure" (orphanage.go:28-30), for any         *)
(* capacity: once every vertex has been received, and no call is under     *)
(* way, the ledger is complete.                                            *)
ConvergedOnReceipt == Quiet /\ received = Hash => vertices = Resolvable(Hash)
=============================================================================
