--------------------------- MODULE PendingManager ---------------------------
(***************************************************************************)
(* The table of outstanding requests (core/pending_manager.go, over the    *)
(* heap of internal/ds/priority_queue.go).                                 *)
(*                                                                         *)
(* Every method holds PendingManager.mu throughout: one atomic step.  Time *)
(* is a number of ticks.  The heap is the set of its items: equal items,   *)
(* of two requests within one tick, are treated alike by the cleanup.  A   *)
(* watcher is the goroutine at the reading end of the channel; it reads at *)
(* most one channel, and a channel that nobody reads any more is left out. *)
(***************************************************************************)
EXTENDS Naturals, FiniteSets, Functions

CONSTANTS
    Key,            \* the hashes requested
    Watchers,       \* goroutines that wait for a signal
    BaseTimeout, MaxBackoff,    \* config.RequestConfig, in ticks
    MaxRetry,       \* 15 in the code
    MaxDuration,    \* the largest time.Duration
    TickLength,     \* bound: the clock is read at multiples of this
    Horizon         \* bound: and stops here

ASSUME PendingAssumption ==
    /\ BaseTimeout \in Nat \ {0}
    /\ MaxBackoff \in Nat /\ MaxBackoff >= BaseTimeout
    /\ MaxRetry \in Nat /\ Horizon \in Nat /\ TickLength \in Nat \ {0}

(* No configured timeout is so long that its shift wraps around            *)
(* (pending_manager.go:112): 500 ms reach four and a half hours.           *)
ASSUME ShiftAssumption ==
    \A n \in 0 .. MaxRetry : BaseTimeout * 2 ^ n \in BaseTimeout .. MaxDuration

VARIABLES
    now,
    pendingRequests,    \* key -> PendingMeta
    pendingQueue,       \* the heap of PendingItems
    watchers,           \* key -> goroutines to signal on its arrival
    signals,            \* goroutines whose channel holds a signal
    attempts            \* history: key -> grants since its last Remove

pendingVars == <<now, pendingRequests, pendingQueue, watchers, signals, attempts>>

Time == Nat
PendingMeta == [requested : Time, expiry : Time, retryCount : 0 .. MaxRetry]
PendingItem == [key : Key, requested : Time, expiry : Time]

Tracked == DOMAIN pendingRequests
Expired(h) == now >= pendingRequests[h].expiry

\* pending_manager.go:185
IsPending(h) == h \in Tracked /\ ~Expired(h)

ItemOf(h) == [key |-> h, requested |-> pendingRequests[h].requested,
              expiry |-> pendingRequests[h].expiry]

\* pending_manager.go:72
PendingInit ==
    /\ now = 0
    /\ pendingRequests = [h \in {} |-> 0]
    /\ pendingQueue = {}
    /\ watchers = [h \in Key |-> {}]
    /\ signals = {}
    /\ attempts = [h \in Key |-> 0]

-----------------------------------------------------------------------------
AtMost(n, limit) == IF n > limit THEN limit ELSE n

\* Faulty variant: the shift is not clamped to MaxBackoff.
BackoffUnclamped(retryCount) == BaseTimeout * 2 ^ retryCount

\* pending_manager.go:112-115
Backoff(retryCount) == AtMost(BaseTimeout * 2 ^ retryCount, MaxBackoff)

(* Lines 118-121: no jitter below 5 units, else less than a fifth.         *)
Jitter(backoff) == IF backoff >= 5 THEN 0 .. (backoff \div 5) - 1 ELSE {0}

\* Faulty variant: the cap on the retry count is missing.
NextRetryUncapped(h) ==
    IF h \in Tracked THEN pendingRequests[h].retryCount + 1 ELSE 0

(* Lines 105-111.                                                          *)
NextRetry(h) ==
    IF h \in Tracked THEN AtMost(pendingRequests[h].retryCount + 1, MaxRetry)
                     ELSE 0

\* Faulty variant: a retry is entered in the map only.
GrantWithoutPush(h) ==
    \E jitter \in Jitter(Backoff(NextRetry(h))) :
        LET meta == [requested |-> now, retryCount |-> NextRetry(h),
                     expiry |-> now + Backoff(NextRetry(h)) + jitter]
        IN  /\ pendingRequests' =
                  [k \in Tracked \cup {h} |-> IF k = h THEN meta ELSE pendingRequests[k]]
            /\ pendingQueue' = IF h \in Tracked THEN pendingQueue ELSE pendingQueue \cup
                  {[key |-> h, requested |-> now, expiry |-> meta.expiry]}
            /\ attempts' = [attempts EXCEPT ![h] = @ + 1]
            /\ UNCHANGED <<now, watchers, signals>>

(* Lines 104-138: a new window for h, longer with every retry.             *)
Grant(h) ==
    \E jitter \in Jitter(Backoff(NextRetry(h))) :
        LET meta == [requested |-> now, retryCount |-> NextRetry(h),
                     expiry |-> now + Backoff(NextRetry(h)) + jitter]
        IN  /\ pendingRequests' =
                  [k \in Tracked \cup {h} |-> IF k = h THEN meta ELSE pendingRequests[k]]
            /\ pendingQueue' = pendingQueue \cup
                  {[key |-> h, requested |-> now, expiry |-> meta.expiry]}
            /\ attempts' = [attempts EXCEPT ![h] = @ + 1]
            /\ UNCHANGED <<now, watchers, signals>>

\* Faulty variant: the guard looks at the map but not at the time.
AddIgnoringWindow(h, granted) == granted /\ Grant(h)

\* pending_manager.go:92, which returns granted.
Add(h, granted) ==
    \/ IsPending(h) /\ ~granted /\ UNCHANGED pendingVars
    \/ ~IsPending(h) /\ granted /\ Grant(h)

(* pending_manager.go:143.  w opens a channel and registers it under every *)
(* key of H; a key that has already arrived gives no signal.               *)
Watch(w, H) ==
    /\ watchers' = [k \in Key |->
          (watchers[k] \ {w}) \cup (IF k \in H THEN {w} ELSE {})]
    /\ signals' = signals \ {w}
    /\ UNCHANGED <<now, pendingRequests, pendingQueue, attempts>>

\* Faulty variant: the watchers are dropped without a signal.
RemoveSilently(h) ==
    /\ pendingRequests' = Restrict(pendingRequests, Tracked \ {h})
    /\ watchers' = [watchers EXCEPT ![h] = {}]
    /\ attempts' = [attempts EXCEPT ![h] = 0]
    /\ UNCHANGED <<now, pendingQueue, signals>>

(* pending_manager.go:162.  A channel holds one signal; a second is lost.  *)
Remove(h) ==
    /\ pendingRequests' = Restrict(pendingRequests, Tracked \ {h})
    /\ signals' = signals \cup watchers[h]
    /\ watchers' = [watchers EXCEPT ![h] = {}]
    /\ attempts' = [attempts EXCEPT ![h] = 0]
    /\ UNCHANGED <<now, pendingQueue>>

(* An item whose request was neither removed nor replaced.                 *)
Current(item) == item.key \in Tracked /\ item = ItemOf(item.key)

\* Faulty variant: whatever is popped leaves the map as well.
CleanupDropsReplaced ==
    LET live   == {i \in pendingQueue : Current(i) /\ now < i.expiry}
        popped == {i \in pendingQueue : \A l \in live : i.expiry < l.expiry}
    IN  /\ pendingQueue' = pendingQueue \ popped
        /\ pendingRequests' =
              Restrict(pendingRequests, Tracked \ {i.key : i \in popped})
        /\ UNCHANGED <<now, watchers, signals, attempts>>

(* pending_manager.go:209.  The loop pops in the order of expiry up to the *)
(* first current item whose time has not come; a stale item that expires   *)
(* together with it may be on either side of it in the heap.               *)
Cleanup ==
    LET live == {i \in pendingQueue : Current(i) /\ now < i.expiry}
        before == {i \in pendingQueue : \A l \in live : i.expiry < l.expiry}
        beside == {i \in pendingQueue \ live :
                      i \notin before /\ \A l \in live : i.expiry <= l.expiry}
    IN  \E tied \in SUBSET beside :
            LET popped == before \cup tied
            IN  /\ pendingQueue' = pendingQueue \ popped
                /\ pendingRequests' = Restrict(pendingRequests,
                      Tracked \ {i.key : i \in {j \in popped : Current(j)}})
                /\ UNCHANGED <<now, watchers, signals, attempts>>

Tick ==
    /\ now < Horizon
    /\ now' = now + TickLength
    /\ UNCHANGED <<pendingRequests, pendingQueue, watchers, signals, attempts>>

-----------------------------------------------------------------------------
(* The manager on its own, in the hands of any callers.                    *)
PendingNext ==
    \/ \E h \in Key, granted \in BOOLEAN : Add(h, granted)
    \/ \E h \in Key : Remove(h)
    \/ \E w \in Watchers, H \in SUBSET Key : Watch(w, H)
    \/ Cleanup
    \/ Tick

PendingSpec == PendingInit /\ [][PendingNext]_pendingVars

-----------------------------------------------------------------------------
PendingTypeOK ==
    /\ now \in Time
    /\ Tracked \subseteq Key
    /\ pendingRequests \in [Tracked -> PendingMeta]
    /\ pendingQueue \subseteq PendingItem
    /\ watchers \in [Key -> SUBSET Watchers]
    /\ signals \subseteq Watchers
    /\ attempts \in [Key -> Nat]

(* The heap lags behind the map but never misses an entry: otherwise the   *)
(* cleanup would never find it (pending_manager.go:15-19).                 *)
QueueCovers == \A h \in Tracked : ItemOf(h) \in pendingQueue

(* A window that is open is never replaced by another one: the redundancy  *)
(* guard and its reading of the clock are one step (pending_manager.go:9). *)
WindowKept ==
    [][\A h \in Tracked \cap Tracked' :
          ~Expired(h) => pendingRequests'[h] = pendingRequests[h]]_pendingVars

(* Except by Remove, an open window is not ended before its time: a stale  *)
(* heap item of an earlier request must not take the entry of the current  *)
(* one with it (pending_manager.go:15-17, 218).                            *)
NotPurgedEarly ==
    [][\A h \in Tracked \ Tracked' : ~Expired(h) => attempts'[h] = 0]_pendingVars

(* The waiting time is bounded whatever the number of retries              *)
(* (pending_manager.go:11-12).                                             *)
WindowBounded ==
    \A h \in Tracked :
        /\ pendingRequests[h].expiry >= pendingRequests[h].requested + BaseTimeout
        /\ pendingRequests[h].expiry <=
              pendingRequests[h].requested + MaxBackoff + MaxBackoff \div 5

(* "Exponentially increase wait time up to 15 retries"                     *)
(* (pending_manager.go:104): as long as a hash has not been resolved, each *)
(* granted request for it counts as a retry of the one before.             *)
RetriesCounted ==
    \A h \in Tracked :
        pendingRequests[h].retryCount = AtMost(attempts[h] - 1, MaxRetry)
=============================================================================
