# A TLA+ model of klef

klef is a node of a DAG-based Byzantine fault tolerant ledger. What the code
implements today is the part that decides what enters the ledger: it receives
vertices in any order, buffers those whose parents are missing, inserts them in
causal order, fetches what it lacks from its peers, and charges validators for
provable misbehaviour; it can also propose vertices on a quorum of votes. Ordering,
the collection of votes and the network transport are stubs or types. The models
follow `core/`, `consensus/`, `replica/`, `pkg/types/` and the configuration; paths
below are relative to `src/`.

- [Inventory](#inventory)
- [Modules](#modules)
- [Runs](#runs)
- [Proofs](#proofs)
- [Where the code and its comments disagree](#where-the-code-and-its-comments-disagree)
- [What is not modelled](#what-is-not-modelled)
- [Plan](#plan)

## Inventory

| component | state | operations | talks to |
|---|---|---|---|
| Vertex, Hash (`pkg/types/vertex.go`, `hash.go`) | none | `CalculateHash`, `CheckMalformed`, `HasDuplicate`, `Normalize`, `SortHashes`, `SortVertices` | used by all |
| DAG (`core/dag.go`) | `Vertices`, `RoundIndex`, under `mu` | `AddVertex`, `GetMissingHashes`, `GetVertex`, `GetVerticesByRound`, `GetTips` | calls Orphanage while holding `mu`; Slasher and Fetcher without it |
| Orphanage (`core/orphanage.go`) | `lostParents`, `lostParentCount`, `orphans`, own `mu` | `AddOrphan`, `OnParentArrival`, `findVictim`, `GetOrphan`, `Size` | called by DAG |
| Slasher (`core/slasher.go`, `Evidence` in `pkg/types/message.go`) | `penaltyTable`, `processedEv`, `evidences`, own `mu` | `HandleEquivocation`, `ProcessExternalEvidence`, `AddDemerit`, `IsSlashed` | called by DAG and by any caller |
| PendingManager (`core/pending_manager.go`, heap in `internal/ds`) | `pendingRequests`, `pendingQueue`, `watchers`, own `mu` | `Add`, `Watch`, `Remove`, `IsPending`, `cleanup` | signals the fetch workers through channels |
| Fetcher (`core/fetcher.go`) | one goroutine per batch: `currentMissing`, `step`, a timer, a channel | `StartSync` | asks DAG and PendingManager through the Replica |
| Fetch rules (`core/validation/fetch_rules.go`) | none | validate a FETCH_REQ or FETCH_RES | read DAG, PendingManager, round |
| Replica (`replica/`) | the inbox, peers' rounds, context, proposal marks | message loop, router, `Start`, `Stop`, proposal context | owns all of the above |
| Proposer, QuorumPolicy (`consensus/`) | ratios and sizes, `isTransitioning` | `Propose`, `QuorumSize`, `IsQuorum` | Replica's context |
| VotePool, Mempool, Finalizer, VoteAgg, Verifier, codec | little or none | stubs | nobody |

Interactions. The router is one goroutine; `AddVertex` is also called by
whoever holds the DAG, and the tests call it concurrently. `DAG.mu` is held
across a whole insertion cascade; `Orphanage.mu` nests inside it; the lock of
the Slasher is taken with no other held. A fetch worker holds no lock between
two calls, so that everything it has read may be stale when it acts on it. The
cleanup loop of the PendingManager runs beside them all.

What is hard, and what would make each part correct:

- *DAG.* The lookup at the head of `AddVertex` is done under a read lock that
  is then dropped; hash and structure are checked without a lock; everything
  is decided again under the write lock. The ledger must be causally closed at
  every moment, independent of the delivery order, and its index canonical;
  every call must return.
- *Orphanage.* Three maps and one counter per orphan; the counter is
  decremented when a parent arrives, entries are evicted when the buffer is
  full and come back later. A stale index entry or a counter off by one
  inserts a vertex without its parents or buries it for ever.
- *Slasher.* The same misbehaviour is reported many times, along several paths
  and in two shapes. Whatever the order, the points of a validator must be
  the price of the vertices adjudicated in its name, each paid for once. The key is
  the hash of the first proof: two conflicting vertices reported in both orders
  are two cases (`slasher.go:30-32`). That only the guilty pay is
  not something this code could promise, since it verifies no signature
  ([below](#where-the-code-and-its-comments-disagree)).
- *PendingManager.* A lazy heap beside a map: stale items must neither end an
  open window nor hide an expired one. Windows must not overlap.
- *Fetcher.* Timers, arrival signals, cancellation and competing workers race;
  no hash may stay closed to requests without anyone looking for it, no waiter
  may miss its signal, every worker must end.
- *Replica, fetch rules.* Limits and windows of validators must fit what the
  handlers of the other side send, long after the request; a gap must close
  though messages are lost and answers come late; a stopped replica must come
  to rest.
- *Proposer, QuorumPolicy.* A round guard that reads and marks in two steps,
  votes copied from a pool that moves on, quorum sizes from a product rounded
  down.

The hazards, each at its line and with the properties that watch over it, are
listed in `PROJECT.json`.

## Modules

`Vertex` is extended by `Orphanage` and `Slasher`, and those two by `DAG`, which
composes them; `Fetcher` extends `PendingManager` and composes it with the
router and the ledger. `Replica` composes the router, the workers and the choice of
peers of several replicas with the rules of `FetchRules`, over a network.
`Proposer` composes `Propose` with the replica's marks, `Vertex` and
`QuorumPolicy`. `MC*` modules only give constants their values and name bounds;
`*Proofs` modules hold theorems.

**Vertex.** A hash is a number and stands for the vertex it identifies; the
fields are functions of the hash. That is collision freedom: `CalculateHash`
covers author, round, parents, certificates, timestamp and payload. It leaves out
the signature, which no model has, and a nil certificate among the others
(assumption `VertexAssumption`; its well-foundedness
`Generation` says that no vertex hashes its own descendant). `Author` is the
author that a vertex *names*; nothing in the code shows that it made the vertex. A vertex altered on
the way is a hash that comes with `intact = FALSE`. The list operations work on
sequences of numbers, as the code does on slices of hashes; the comparison of
bytes is the order of the numbers. The code leaves the sorting to Go's library,
and so `SortHashes` is what that promises and no model of how it is done: every
element is placed by its rank, the number of elements that come before it.
`Ascending` lists a finite set of numbers; `SortVertices` lists vertices with it, and `Keep`, the filter of a slice,
the positions to keep. Functions over sets take the place of recursion, so that
all of it can be proved about.

**ParentLists.** The list operations driven as code drives them: a list grows by
one hash at a time or is normalized.

**Orphanage.** The three maps under their names; an orphan is the
hash, `lostParentCount` its counter, `lostParents` the reverse index. One
action per method, atomic since each holds `mu`. `AddOrphan` covers its four
outcomes: known, room, refused, or accepted in exchange for the victim that
`findVictim` picks: the one with the most missing parents and, among equals,
the largest hash, so that the map iteration of Go leaves no trace.

**Slasher.** The three maps under their names, one action per method.
`Evidence` records only what `IsValid` inspects. `HandleEquivocation` looks at
nothing of its two vertices and has no caller in the repository, so the
model hands it any pair. Evidence comes with any accused, type and proofs, true or
not.

**CausalLedger.** The promise of the DAG: a set of available vertices that only
grows, and a causally closed set of well-formed ones that grows within it, one
vertex at a time. Nothing is said of buffers, locks or order of arrival.

**DAG.** `AddVertex` is split where another goroutine can interleave: `Lookup`
(read lock), `Screen` (no lock; hash, then structure, perhaps `AddDemerit`),
`Lock` (write lock; known, orphan or insert), `Cascade` (one worklist entry per
step, with the lock held), `Normalize` (sort the touched rounds, unlock) and
`StartSync` (after the unlock, with a list computed before it). `received` and
`requested` are history variables. `Threads` is any set of goroutines.

**PendingManager.** The map, the heap as a set of items, the watchers. Channels
have room for one signal, hence `signals` is a set. Time is counted in ticks.
Cleanup pops what the heap would: everything before the first live item, and
any stale item that ties with it. `attempts` is a history variable.

**Fetcher.** A worker's program counter follows `StartSync`: `filter` (one
`Add` per step), `check`, `arm` (timer and channel), `wait` (the three cases of
the select), `verify`, `fail` (one `Remove` per step). `Receive`, `Settle`
and `AddVertex` are the lines of `handleFetchResponse`, between which a worker
may run. What a worker sees of the DAG is a set that grows; `Complete` is the
growth by a cascade. A channel is dropped when its worker leaves the select.

**FetchRules.** The validators of FETCH_REQ and FETCH_RES as predicates. A vertex
on the wire is a `Copy`: the hash it claims and whether the content matches. As
in the code, a vertex that is known or was not asked for is passed over, and one
bad vertex refuses the whole answer.

**Replica.** Several replicas and a bag of messages. The parts underneath are
summaries that other modules justify: of the DAG, what is resolvable among the
vertices received (`DAG`, `Convergent`, proved); of the pending manager, the set of
open windows, which may end at any time (`PendingManager` has the clock). What
`Fetcher` leaves out is here: whom each step asks (suspect, sample of peers
without the suspect, everybody) and what the answers lead to. A response is taken
in one vertex per step, because workers run meanwhile. `Create` and `Gossip`
stand for the calls of `AddVertex` by whoever makes or disseminates vertices;
`Lose`, `Duplicate` and `Alter` are the network's. `SendTo` and
`Broadcast` print a line in this version; the model has them transmit, with the
loss, delay and reordering one expects of a transport.

**QuorumPolicy.** A ratio is a fraction; the floor of the `float64` product is
the integer quotient for the configured ratios and up to a million nodes.
The policy is a record with the fields of the struct.

**Proposer.** `Propose` is split where another goroutine may come between, for it
takes no lock: `CheckQuorum`, `Guard`, `Send`, `Mark`. Any number of callers run at
any number of replicas. Votes, their pool and the advance of rounds are not
implemented; they are modelled after what `Propose` assumes (one vote per voter
and round, `replica/consensus.go:39`), with faulty voters who tell every
replica something else. `Restart` forgets everything, as nothing is persisted.
The representative of the certificate is any vote's, since the last vote of the
pool decides (`proposer.go:152-162`) and the order of the pool is open.
`broadcast` is a history variable.

## Runs

Definitions called "Faulty variant" in the modules are not part of the
model. Each is one definition with a plausible bug, and each property is
violated once that definition takes the place of the right one, which shows
that the instance is large enough to tell.

| run | asks | instance |
|---|---|---|
| `parent_lists` | do the list operations agree with reference definitions | all lists of up to 4 hashes out of 4 |
| `slasher` | does every validator owe exactly the price of each adjudicated vertex in its name, once, and do the three maps agree | three validators and five vertices: one in order, two of one author and round, two malformed; every report, true or false, in every order and any number of times; 73,170 states |
| `dag` | closure, buffer, worklist, convergence, index, sync, tips, exact accounts of the slasher, refinement, inductive invariant (with the types), progress of every call | two goroutines, seven vertices, room for all orphans |
| `dag_live` | the maps under eviction and whom it hits; does every call return, and is the ledger completed in spite of eviction | two goroutines, four vertices, room for two orphans, fair scheduling and redelivery |
| `pending` | heap against map, windows | two hashes, clock to 25 ticks, up to four items in the heap |
| `fetcher` | windows have workers, waiters get their signal | two workers, two hashes |
| `fetcher_ends` | does every worker end | two workers, one hash, fair scheduling |
| `sync` | does an unaltered answer pass validation, and if not, why; is a gap closed in spite of the network; does a stopped replica come to rest | three replicas, four vertices, requests of three hashes and answers of two vertices at most, one fault of the network |
| `proposer` | is every vertex backed by a quorum, any two by a common honest voter, and does no caller send twice | four validators, one of them faulty, two callers |
| `data_loss`, `backoff_reset`, `equivocation` | does the code do what a comment says; it does not | the smallest instance with the case |

*Bounds of the DAG runs.* Seven vertices: a diamond (3 below 1 and 4, both below
2), two malformed vertices, 5 and 7, and 6 that has 5 as a parent and can never be
completed. Both malformed ones name validator 2 and one of them takes it to the
threshold, so that two goroutines may screen them at a time and the one
that comes second finds its work done. The numbers are the order of hashes and disagree with the causal
order; 1 and 4 share a round, so index and worklist need their sorting; 2 has
two missing parents that arrive separately; only 2 and 6 are far enough ahead
of the node to trigger a sync. Two goroutines are enough to have one between
lookup and lock while the other inserts; a third would meet a state that one
of the two leaves behind. The capacities are 7 (never full), 2 in `dag_live`
(the diamond alone) and 1 in `data_loss` (without 7), so that newcomers are refused and entries evicted and
redelivered. Every vertex may be delivered again at any time, intact or not.

*Bounds of the request runs.* In `pending` the first window is 5 ticks, later
ones the maximum of 10 with a jitter of 0 or 1, so that the backoff reaches its
clamp and the retry count its cap (2 for the 15 of the code) within the
`Horizon` at which the clock stops. `Bounded` leaves room for stale items of both
hashes. In `fetcher` a window and a step are one tick each and the clock stops
after one: all that matters is the order of expiry, timer and signal, which is
open in both states of the clock. At the horizon a timer is taken to fire,
otherwise a worker would wait for a clock that stands still; a window opened
there stays open, which covers the windows longer than their worker's steps.
A hash is granted at most twice between removals and the heap holds two items.
Deadlock is not reported in these runs, since the clock stops at its bound, nor in
`sync` and `proposer`, which end when everything is stopped, delivered or at
its bound. All other runs check it.

*Bounds of `sync`.* Replica 3 is the author of a genesis, replica 2 of three
vertices on top of it, of rounds 10, 11 and 12; replica 1 hears of the second or of
the third. With a threshold of 10 the last two are far ahead and trigger a
fetch. The limits are in the order of the ones shipped, where a request may have twice as many
hashes (100) as an answer vertices (50): here three and two. Vertex 3 has two
parents, which one answer can bring, and the round of one is the last that
`validateRoundRange` lets pass. Vertex 4 is a *misfit*, which is how the modules call an
orphan that no answer helps: its three parents are one too many for
an answer, and one of them, 3, is of round 11. `AnswersFit` has no
condition on limits and rounds: it says which unaltered answers are refused, and
that only a misfit is behind it. The instance has answers that
are accepted and ones refused for their length alone, for the round alone and for both.
Only the third cause is left to the theorem, a parent without parents of a round above 0.
`GapCloses` is about the orphans that are no misfits, as long as no
misfit has a parent in common with them; a misfit opens windows for its parents,
and then they are asked for and validated together. Each replica gets at most one
far-ahead vertex by gossip (`MaxGaps`).
The sample of step 2 has one peer, which may be the suspect, so that
nobody is asked. The network commits one fault, the least that takes the answer
of one step away; each of the three steps can be hit. Only replica 1 is stopped, at
any moment. Messages are reordered and delayed without bound. 52,707 distinct
states.

*Bounds of `proposer`.* Four validators and a ratio of 0.67 ask for three votes, so
that two quorums share two voters, one of whom may be the faulty one; with one vote
less they may share none. The honest voters disagree, hence pools and parents
differ. Both callers are at one replica, whose pool moves on between the copies
they take. The replica goes to the next round or is restarted, once, at any moment,
also between guard and mark. Two vertices are enough for every property, since
each compares two.

*Fairness.* A goroutine that can run is scheduled by Go in the end: weak
fairness of each of its steps. `Lock` gets strong fairness: the lock is free
again and again, not always, and a `sync.RWMutex` lets a waiting writer in
before later readers (a `Lock` call blocks new readers), and its inner mutex
passes to the longest waiter after one millisecond of starvation. No call is
forced to happen, except in `dag_live`: `orphanage.go:34-36` assumes eventual
data delivery, that is, peers deliver each vertex again and again; without
it an evicted vertex never returns (run `data_loss`). `fetcher_ends` assumes
fair scheduling of workers and a clock that advances, and nothing of
the network. `sync` assumes that workers, routers and a cancelled message loop get
to run, timers included, and that a router to which messages are under way takes
one of them some time. Since workers send finitely many, every message that is not
lost is delivered in the end; when is open, and may be after its request was
given up. Nothing is assumed of gossip or of the creation of vertices.

*Symmetry* is used for goroutines, workers and hashes that are model
values, never in a run with a liveness property.

## Proofs

Eight modules hold theorems, all checked to the last leaf; they hold for every
set of vertices, validators and goroutines and every value of the other
constants that meets the named assumptions. Every safety property of a passing run
is one of them. The leading results:

- `VertexProofs`: `SortHashesIsCanonical` (a slice without repetition is sorted to
  the one canonical listing of its elements, whatever their order; this is what
  makes an index independent of who inserted first) and `CanonicalForm`
  (what `DeduplicateAndSort` makes of any list). They rest on the lemma that
  sorting by rank is well defined: the ranks of n
  elements are n distinct numbers below n, hence all of them; a fact about
  cardinalities takes the place of an induction over the slice. `KeepSelects` says of a filter
  what it keeps.
- `ParentListsProofs`: `StrictCheckIsCanonical` (`CheckMalformed`, which compares
  neighbours only, refuses exactly the lists that normalizing would change),
  `NeighboursAreEnough`, `NormalizeAlwaysRepairs` (the normalized list passes that
  check, has the same hashes, and the flag tells whether one was repeated). They follow from
  `CanonicalForm`, for lists of any length.
- `SlasherProofs`: `SlasherInvariant` and, from it, `SlasherTyped`,
  `ChargesAlwaysAddUp`, `EvidenceStaysInSync`, `NoProofCountsTwice`.
- `OrphanageProofs`: what the methods preserve, as lemmas for any set that
  plays the ledger: `AddOrphanPreserves`, `OnParentArrivalPreserves`,
  `EvictionJustified`.
- `DAGProofs`: `DAGInvariant`, that is `Spec => []InductiveInvariant`, and from
  it typing, `CausallyComplete`, `BufferInStep`, `CascadeVisitsOnce`,
  `SyncAlwaysCovers`, `DeliveryOrderIrrelevant`, `TipsAlwaysCover`,
  `IndexAlwaysCanonical`, `EvictionIsLastResort`, `DemeritsAlwaysAddUp` (the
  screening charges for every intact malformed vertex that was received, once, and for nothing
  else; up to the threshold), `CallsAlwaysAdvance` (a call takes
  |Hash| + 3 steps of its own at most, and no other call puts its end off), and the
  two refinements `DAGRefinesLedger` and `DAGRefinesSlasher`; with the latter, what is
  proved of the slasher under any reports holds within the DAG.
- `FetcherProofs`: of the pending manager, `PendingInvariant` and from it
  `PendingTyped`, `QueueAlwaysCovers`, `WindowAlwaysBounded`, `WindowAlwaysKept`,
  `NeverPurgedEarly`; of the workers, `FetcherInvariant`, `FetcherImplementsTable`
  (what the workers, the router and the clock do to the table of requests is a
  behaviour of `PendingManager`, so that everything proved there holds here, for
  instance `WindowKeptAmongWorkers`), `WindowsHaveWorkers`,
  `WaitersStayRegistered`, `WorkersAlwaysAdvance`.
- `ProposerProofs`: of quorums, `QuorumsIntersect` (two quorums of one view share a
  validator that is not faulty, for every number of validators and every ratio of
  two thirds or more), `TransitionIsSafe` (so do a quorum of the old and one of the
  new view if one view contains the other), `TwoFPlusOne` and `BeyondTheHonest`; of
  `Propose`, `ProposerInvariant`, and from it `ProposerTyped`,
  `ProposalsJustified`, `OncePerCaller`, `EvidenceAlwaysShared`, which rests on
  `QuorumsIntersect`, and `OneCallerNeverEquivocates`: the promise that the run
  `equivocation` refutes is kept by a replica with one proposing goroutine and no
  restart. TLC shows neither condition to be dispensable.
- `ReplicaProofs`: `ReplicaInvariantHolds`, and from it `AnswersAlwaysFit`, for
  any limits and rounds: an answer that nobody altered is accepted, whenever and
  however often it arrives, or else it is too long or has a vertex that was asked for and is too
  far ahead or has no parents, and the receiver holds a misfit with
  a parent among its vertices.

The inductive invariant of the DAG and why each part is there:

- `CausalClosure`, `BufferAgrees`, `WorklistFresh`, `SyncCoverage` are wanted
  for themselves. `BufferAgrees` says that an orphan's counter is the
  number of its parents missing *from the ledger*; that is what makes a count
  of zero mean "complete" in the cascade.
- `LockDiscipline`: the lock is held exactly by the one goroutine in the
  cascade. Without it two cascades could share a worklist.
- `CallsScreened`: what a goroutine brings past the screening is intact and
  well formed, across any steps of the others in between.
- `StoredScreened`: so is everything in ledger, buffer and worklist.
- `NothingDropped`: a received well-formed vertex is stored or still carried
  by a goroutine, as long as the buffer cannot overflow. With `BufferAgrees`
  it gives convergence: in the quiet state a resolvable vertex of
  least generation that is not in the ledger would be an orphan with no missing
  parent, which `BufferAgrees` excludes.
- `IndexTracks`: every round lists its vertices once, and a round not touched
  by the cascade under way is sorted. This is where `SortHashesIsCanonical`
  enters.

The inductive invariants of the other state machines:

- `PendingInv`: types, `QueueCovers` and `WindowBounded`. `QueueCovers` says that
  every request has its own item in the heap, however many stale ones there are;
  without it an expired request could stay in the table for ever.
- `FetcherInv`: `PendingInv`, types, and the two properties wanted. They are
  inductive as they stand: a worker that leaves a hash alone has either seen it in
  the ledger or removes its request, and a channel is dropped only by the signal it
  has got or when its worker waits no more.
- `ProposerInv`: `PoolsSound` (one vote each, honest ones as cast), `CallsSound`
  (what a caller copied stays a quorum of its own round, whatever becomes of the
  pool) and `MarksCover`: what was sent in this life is covered by the mark, or
  its sender is about to mark it. The last is why one caller cannot send twice, and
  why two can: nothing of the kind holds of the others' calls.
- `ReplicaInvariant`: types, `OnlyParentsSought` and `OnlyHadAnswered`, all three
  checked by TLC as well. `AnswersFit` speaks of an answer, the window it meets and the
  rules in between, and none of them remembers the orphan it is all about.
  `OnlyParentsSought` does: jobs, requests and windows are for parents of a far-ahead
  orphan that the replica still knows of, and no request is longer than
  the orphan's list of parents. `OnlyHadAnswered` ties an answer to
  one orphan of its receiver, whose parents are all it has, no more of them than
  a request may ask for; the request itself is gone by then. It
  also says that nothing malformed is ever passed on. A step
  keeps both if it forgets no vertex and everything it adds is in order
  (`SoughtKept`, `AnsweredKept`); each action has a lemma to that effect. That
  messages are lost, doubled or late changes nothing, since the invariant
  speaks of every message in the bag and of no order among them.

Assumptions: `VertexAssumption` (well-founded parents, known authors),
`ListAssumption`, `SlasherAssumption`, `OrphanageAssumption`, `DAGAssumption`, `PendingAssumption`,
`ShiftAssumption` (the shifted timeout of `pending_manager.go:112` stays within the
width of a duration; with the defaults it does, 500 ms times 2^15),
`FetcherAssumption`, `LimitAssumption`, `ReplicaAssumption`, `ProposerAssumption` and
`FaultAssumption` (fewer than a third faulty, a ratio of two thirds or more, as the
comments on thresholds suppose). Each is evaluated by TLC on the instances above.

Only model-checked: the liveness properties `EventuallyComplete`, `CallReturns`,
`WorkerEnds`, `GapCloses` and `StopQuiesces`, since the prover has neither fairness
nor `ENABLED`. Of `CallReturns` and `WorkerEnds` the part that is safety is
proved: `CallsAlwaysAdvance` and `WorkersAlwaysAdvance` give each call and
each worker a number, `StepsLeft`, that its own steps decrease and nobody else
increases, so that only the scheduler can keep it from its end. A lock that is never given
back breaks neither, since nobody takes a step; that is for `CallReturns`. As
`EventuallyComplete` rests on the redelivery of every vertex, it would not notice an
orphan dropped without need (`NoNeedlessEviction` does), only calls
that stop for ever. The three properties that the code violates are refuted by TLC.

## Where the code and its comments disagree

Each of these is a run that ends in a violation; `PROJECT.json` quotes the lines.

- `data_loss`: an orphan refused or evicted from a full buffer is forgotten;
  receiving its parents does not bring the nodes together, as the comment
  says, unless the vertex itself is delivered again.
- `backoff_reset`: the cleanup, every 125 ms by default, deletes the retry count
  with the expired request, so that the backoff seldom gets off the ground.
- `equivocation`: `Propose` reads the mark for a round before it builds and sends
  the vertex and sets it afterwards, without a lock around the two; two callers
  send two vertices of one author and round, against `proposer.go:14` and
  `state.go:68`. What does hold, one vertex per caller between two restarts, is
  `AtMostOncePerCaller`.

Read in the code, and without a run of their own:

- Nothing shows that a vertex was made by the author it names. Evidence is to carry
  valid signatures (`message.go:63`, `slasher.go:82-84`), but no signature is verified
  anywhere: `AddVertex` recomputes the hash, which leaves the signature out, and
  checks the parents (`dag.go:78-96`); `Evidence.IsValid` compares authors,
  rounds and the hashes as claimed, without recomputing them
  (`message.go:81-106`); `VerifyVertex` returns true
  (`verifier.go:49-63`); and `HandleEquivocation` checks nothing at all
  (`slasher.go:53-78`). So points go to whoever is named. The properties of the
  slasher are about exact accounts of that and make no claim of innocence.
- A window of requests is not a single flight (`fetcher.go:7`): it ends when a
  response names its hash, before the insertion, or after 500 ms by default, while
  its worker goes on for up to 1.8 s; a second worker may ask for the same hash.
- Arrival does not always end the wait (`fetcher.go:12`): insertions by a cascade, or
  between the check and the registration of the channel, signal nobody.
- An arrival signal takes a worker to the next step before its time is over
  (`fetcher.go:93`, against `fetcher.go:27`).
- A failed retrieval is logged and not tried again (`fetcher.go:189`); another
  orphan with the same parents, or the same one delivered anew, starts the next.
- `MaxFetchRequestHashes` is checked on receipt, and workers do not split their
  requests by it; its default, 100, exceeds what one response may carry, 50
  (`config.go:90-91`), so that an honest answer to a legal request can be refused.
  `AnswersFit` names this exception, and the limits of the run `sync` are in this
  order; nothing makes a worker ask for less the next time.
- A vertex without parents is inserted by `AddVertex` whatever its round, and refused in
  an answer unless its round is 0 (`fetch_rules.go:141`): a node that has it from
  gossip cannot pass it on to one that asks for it.
- Nothing advances `Replica.round`, so that fetched vertices of rounds above 10 are
  refused for ever (`fetch_rules.go:128`), and only
  orphans further ahead than the threshold start a fetch (`dag.go:118`). This
  and the item above are the other two exceptions that `AnswersFit` names.
- `preValidate` knows no direct vertex messages, so that the case of
  `router.go:128` is never reached.
- "Unsolicited" vertices are passed over by the validator, unchecked, and inserted by
  the handler (`fetch_rules.go:87`, `router.go:93`). `AddVertex` checks them again,
  and that they are taken is what lets a late answer close a gap.
- The claim that the stricter of two sizes makes quorums of two views intersect
  (`quorumpolicy.go:14-19`) is true of nested views (`TransitionIsSafe`); of
  disjoint views no size can make it true.
- The threshold is 2f + 1 up to f = 32; from f = 33 on, it exceeds the number of
  voters that are not faulty (`BeyondTheHonest`), so that f silent validators stop
  progress. A committee of four needs all four votes.
- `CheckQuorum` counts the votes of the round whatever their type or committee.
- `NewReplica` makes a context whose cancellation `Start` overwrites; a second `Stop`
  closes a closed channel; a `Start` after `Stop` leaves a loop on the closed inbox.
- Nothing reads `IsSlashed`, so that vertices of slashed validators are accepted like
  any other (`slasher.go:144`); evidence of one malformed vertex reported by a
  peer costs the equivocation penalty (`slasher.go:100`, against `config.go:62`).

## What is not modelled

- The bytes under a hash and transactions: abstracted to collision
  freedom and `intact`. The codec is a stub.
- Signatures, since nothing verifies one: `Author` is a claim. Evidence reported by peers is
  over vertices whose hash is right; the code does not recompute the hash of a
  proof, so a proof could also claim any other hash.
- The transport: `SendTo` and `Broadcast` print a line. `Replica` assumes a network
  in their place; in the other models deliveries are arbitrary.
- Memory: dead channels in `watchers`, a feedback channel nobody reads; `peerRounds`,
  which is written and never read.
- A second `Start` or `Stop` of a replica, which the code does not survive or which
  leaves nothing running; the races on the random source (any sample is
  possible in the model anyway).
- `VotePool`, `Mempool`, `Finalizer`, `VoteAgg` and `Verifier` have no behaviour to
  model in this version. Messages with a nil vote are taken to be absent, as
  `consensus.go:39` says of the pool.

## Plan

Done, in this order: `Vertex`, `Slasher`, `Orphanage`, `CausalLedger`, `DAG` and
their proofs; `PendingManager`, `Fetcher`; `FetchRules`, `Replica`; `QuorumPolicy`,
`Proposer`; the proofs of `PendingManager`, `Fetcher`, `QuorumPolicy` and `Proposer`;
those of `ParentLists` and `Replica`, for which the filters of slices were rewritten
without `SelectSeq`, and the measures of progress of calls and workers.

Left, as the code grows:

1. The vote pool, the advance of rounds and vote aggregation when they are
   implemented; the external actions of `Proposer` are where they plug in. An
   advancing round also gives the lower bound of `validateRoundRange` its first
   states; `OnlyParentsSought` then has to speak of the round at which an orphan
   was far ahead.
2. A transition of the membership, for which `QuorumPolicy` has the sizes and the
   code no method yet.
