---------------------------- MODULE FetcherProofs ---------------------------
(***************************************************************************)
(* The table of requests, for any hashes, callers, timeouts and clock; then*)
(* workers, router and cleanup around it, for any number of workers.       *)
(***************************************************************************)
EXTENDS Fetcher, FiniteSetTheorems, TLAPS

(***************************************************************************)
(* The table of requests.                                                  *)
(***************************************************************************)
PendingInv == PendingTypeOK /\ QueueCovers /\ WindowBounded

-----------------------------------------------------------------------------
(* The timeout of every retry lies between the base and the maximum.       *)
LEMMA BackoffBounded ==
    ASSUME NEW n \in 0 .. MaxRetry
    PROVE  Backoff(n) \in BaseTimeout .. MaxBackoff
<1> DEFINE b == BaseTimeout * 2 ^ n
<1>1. b \in Nat /\ b >= BaseTimeout
  BY PendingAssumption, ShiftAssumption
<1>2. Backoff(n) = AtMost(b, MaxBackoff)
  BY DEF Backoff
<1> HIDE DEF b
<1> QED  BY <1>1, <1>2, PendingAssumption DEF AtMost

(* The jitter adds less than a fifth.                                      *)
LEMMA JitterBounded ==
    ASSUME NEW b \in Nat, NEW j \in Jitter(b)
    PROVE  j \in Nat /\ j <= b \div 5
BY DEF Jitter

LEMMA NextRetryTyped ==
    ASSUME PendingTypeOK, NEW h \in Key
    PROVE  NextRetry(h) \in 0 .. MaxRetry
<1>1. CASE h \in Tracked
  <2>1. pendingRequests[h].retryCount \in 0 .. MaxRetry
    BY <1>1 DEF PendingTypeOK, PendingMeta
  <2> QED  BY <1>1, <2>1, PendingAssumption DEF NextRetry, AtMost
<1>2. CASE h \notin Tracked
  BY <1>2, PendingAssumption DEF NextRetry
<1> QED  BY <1>1, <1>2

-----------------------------------------------------------------------------
(***************************************************************************)
(* What each method does to the table.                                     *)
(***************************************************************************)
LEMMA GrantStep ==
    ASSUME PendingInv, NEW h \in Key, Grant(h)
    PROVE  /\ PendingInv'
           /\ Tracked' = Tracked \cup {h}
           /\ \A k \in Tracked \ {h} : pendingRequests'[k] = pendingRequests[k]
<1> USE DEF PendingInv
<1>1. PICK jitter \in Jitter(Backoff(NextRetry(h))) :
          LET meta == [requested |-> now, retryCount |-> NextRetry(h),
                       expiry |-> now + Backoff(NextRetry(h)) + jitter]
          IN  /\ pendingRequests' =
                    [k \in Tracked \cup {h} |-> IF k = h THEN meta ELSE pendingRequests[k]]
              /\ pendingQueue' = pendingQueue \cup
                    {[key |-> h, requested |-> now, expiry |-> meta.expiry]}
              /\ attempts' = [attempts EXCEPT ![h] = @ + 1]
              /\ UNCHANGED <<now, watchers, signals>>
  BY DEF Grant
<1> DEFINE b == Backoff(NextRetry(h))
           meta == [requested |-> now, retryCount |-> NextRetry(h),
                    expiry |-> now + b + jitter]
<1>2. NextRetry(h) \in 0 .. MaxRetry
  BY NextRetryTyped
<1>3. b \in BaseTimeout .. MaxBackoff /\ BaseTimeout \in Nat /\ MaxBackoff \in Nat
  BY <1>2, BackoffBounded, PendingAssumption
<1>4. jitter \in Nat /\ jitter <= b \div 5
  BY <1>1, <1>3, JitterBounded
<1> HIDE DEF b
<1>5. now \in Nat /\ now + b + jitter \in Nat
  BY <1>3, <1>4 DEF PendingTypeOK, Time
<1>6. /\ now + b + jitter >= now + BaseTimeout
      /\ now + b + jitter <= now + MaxBackoff + MaxBackoff \div 5
  BY <1>3, <1>4, <1>5
<1>7. meta \in PendingMeta
  BY <1>2, <1>5 DEF PendingMeta, Time
<1>8. /\ pendingRequests' =
            [k \in Tracked \cup {h} |-> IF k = h THEN meta ELSE pendingRequests[k]]
      /\ pendingQueue' = pendingQueue \cup
            {[key |-> h, requested |-> now, expiry |-> meta.expiry]}
      /\ attempts' = [attempts EXCEPT ![h] = @ + 1]
      /\ UNCHANGED <<now, watchers, signals>>
  BY <1>1 DEF b
<1>9. /\ meta.requested = now /\ meta.expiry = now + b + jitter
      /\ [key |-> h, requested |-> now, expiry |-> meta.expiry] \in PendingItem
  BY <1>5 DEF PendingItem, PendingTypeOK, Time
<1> HIDE DEF meta
<1>10. /\ Tracked' = Tracked \cup {h} /\ pendingRequests'[h] = meta
       /\ \A k \in Tracked \ {h} : pendingRequests'[k] = pendingRequests[k]
  BY <1>8 DEF Tracked
<1>11. PendingTypeOK'
  <2>1. \A k \in Tracked' : pendingRequests'[k] \in PendingMeta
    BY <1>7, <1>10 DEF PendingTypeOK
  <2>2. pendingRequests' \in [Tracked' -> PendingMeta] /\ Tracked' \subseteq Key
    BY <1>8, <1>10, <2>1 DEF PendingTypeOK
  <2>3. attempts' \in [Key -> Nat]
    BY <1>8 DEF PendingTypeOK
  <2> QED  BY <1>8, <1>9, <2>2, <2>3 DEF PendingTypeOK
<1>12. QueueCovers'
  BY <1>8, <1>9, <1>10 DEF QueueCovers, ItemOf
<1>13. WindowBounded'
  BY <1>6, <1>9, <1>10 DEF WindowBounded
<1> QED  BY <1>10, <1>11, <1>12, <1>13

LEMMA AddStep ==
    ASSUME PendingInv, NEW h \in Key, NEW granted \in BOOLEAN, Add(h, granted)
    PROVE  /\ PendingInv' /\ Tracked \subseteq Tracked'
           /\ \A k \in Tracked : ~Expired(k) => pendingRequests'[k] = pendingRequests[k]
<1>1. CASE UNCHANGED pendingVars
  BY <1>1 DEF pendingVars, PendingInv, PendingTypeOK, QueueCovers, WindowBounded,
     ItemOf, Tracked
<1>2. CASE ~IsPending(h) /\ Grant(h)
  BY <1>2, GrantStep DEF IsPending
<1> QED  BY <1>1, <1>2 DEF Add

(* To drop entries of the map is harmless as long as the heap keeps those  *)
(* of the others.                                                          *)
LEMMA Dropping ==
    ASSUME PendingInv, NEW K \in SUBSET Tracked, NEW Q \in SUBSET pendingQueue,
           pendingRequests' = Restrict(pendingRequests, K), pendingQueue' = Q,
           \A k \in K : ItemOf(k) \in Q,
           now' = now, watchers' \in [Key -> SUBSET Watchers],
           signals' \subseteq Watchers, attempts' \in [Key -> Nat]
    PROVE  /\ PendingInv' /\ Tracked' = K
           /\ \A k \in K : pendingRequests'[k] = pendingRequests[k]
<1> USE DEF PendingInv
<1>1. Tracked' = K /\ \A k \in K : pendingRequests'[k] = pendingRequests[k]
  BY DEF Tracked, Restrict
<1>2. pendingRequests' \in [Tracked' -> PendingMeta]
  BY <1>1 DEF Restrict, PendingTypeOK
<1>3. PendingTypeOK'
  BY <1>1, <1>2 DEF PendingTypeOK
<1>4. QueueCovers' /\ WindowBounded'
  BY <1>1 DEF QueueCovers, WindowBounded, ItemOf
<1> QED  BY <1>1, <1>3, <1>4

LEMMA RemoveStep ==
    ASSUME PendingInv, NEW h \in Key, Remove(h)
    PROVE  /\ PendingInv' /\ Tracked' = Tracked \ {h} /\ attempts'[h] = 0
           /\ \A k \in Tracked' : pendingRequests'[k] = pendingRequests[k]
<1>1. /\ pendingRequests' = Restrict(pendingRequests, Tracked \ {h})
      /\ pendingQueue' = pendingQueue /\ now' = now
      /\ watchers' \in [Key -> SUBSET Watchers]
      /\ signals' \subseteq Watchers /\ attempts' \in [Key -> Nat]
      /\ attempts'[h] = 0
  BY DEF Remove, PendingInv, PendingTypeOK
<1>2. \A k \in Tracked \ {h} : ItemOf(k) \in pendingQueue
  BY DEF PendingInv, QueueCovers
<1> QED  BY <1>1, <1>2, Dropping

(* The cleanup takes from the map what it pops as the current item of a    *)
(* request, and that has expired.                                          *)
LEMMA CleanupStep ==
    ASSUME PendingInv, Cleanup
    PROVE  /\ PendingInv' /\ Tracked' \subseteq Tracked
           /\ \A k \in Tracked' : pendingRequests'[k] = pendingRequests[k]
           /\ \A k \in Tracked \ Tracked' : Expired(k)
<1> DEFINE live == {i \in pendingQueue : Current(i) /\ now < i.expiry}
           before == {i \in pendingQueue : \A l \in live : i.expiry < l.expiry}
           beside == {i \in pendingQueue \ live :
                         i \notin before /\ \A l \in live : i.expiry <= l.expiry}
<1>1. PICK tied \in SUBSET beside :
          LET popped == before \cup tied
          IN  /\ pendingQueue' = pendingQueue \ popped
              /\ pendingRequests' = Restrict(pendingRequests,
                    Tracked \ {i.key : i \in {j \in popped : Current(j)}})
              /\ UNCHANGED <<now, watchers, signals, attempts>>
  BY DEF Cleanup
<1> DEFINE popped == before \cup tied
           gone == {i.key : i \in {j \in popped : Current(j)}}
<1>2. popped \subseteq pendingQueue
  OBVIOUS
<1>3. ASSUME NEW i \in popped, Current(i) PROVE i.expiry <= now
  <2>1. i \notin live
    <3>1. CASE i \in before
      <4>1. i.expiry \in Nat
        BY DEF PendingInv, PendingTypeOK, PendingItem, Time
      <4> QED  BY <3>1, <4>1
    <3> QED  BY <3>1
  <2> QED  BY <1>2, <1>3, <2>1 DEF PendingInv, PendingTypeOK, PendingItem, Time
<1>4. \A k \in Tracked \ gone : ItemOf(k) \in pendingQueue \ popped
  <2> SUFFICES ASSUME NEW k \in Tracked \ gone, ItemOf(k) \in popped PROVE FALSE
    BY DEF PendingInv, QueueCovers
  <2>1. ItemOf(k).key = k /\ Current(ItemOf(k))
    BY DEF ItemOf, Current
  <2> QED  BY <2>1
<1>5. \A k \in gone : Expired(k)
  <2> SUFFICES ASSUME NEW i \in popped, Current(i) PROVE Expired(i.key)
    OBVIOUS
  <2>1. i.expiry = pendingRequests[i.key].expiry
    BY DEF Current, ItemOf
  <2> QED  BY <1>3, <2>1 DEF Expired, PendingInv, PendingTypeOK
<1> HIDE DEF live, before, beside, popped, gone
<1>6. /\ pendingQueue' = pendingQueue \ popped
      /\ pendingRequests' = Restrict(pendingRequests, Tracked \ gone)
      /\ UNCHANGED <<now, watchers, signals, attempts>>
  BY <1>1 DEF popped, gone
<1>7. /\ PendingInv' /\ Tracked' = Tracked \ gone
      /\ \A k \in Tracked \ gone : pendingRequests'[k] = pendingRequests[k]
  <2> DEFINE K == Tracked \ gone
             Q == pendingQueue \ popped
  <2>1. /\ watchers' \in [Key -> SUBSET Watchers]
        /\ signals' \subseteq Watchers /\ attempts' \in [Key -> Nat]
    BY <1>6 DEF PendingInv, PendingTypeOK
  <2>2. K \in SUBSET Tracked /\ Q \in SUBSET pendingQueue /\ \A k \in K : ItemOf(k) \in Q
    BY <1>4
  <2>3. /\ pendingRequests' = Restrict(pendingRequests, K) /\ pendingQueue' = Q
        /\ now' = now
    BY <1>6
  <2> HIDE DEF K, Q
  <2>4. /\ PendingInv' /\ Tracked' = K
        /\ \A k \in K : pendingRequests'[k] = pendingRequests[k]
    BY <2>1, <2>2, <2>3, Dropping
  <2> QED  BY <2>4 DEF K
<1> QED  BY <1>5, <1>7

LEMMA WatchStep ==
    ASSUME PendingInv, NEW w \in Watchers, NEW H \in SUBSET Key, Watch(w, H)
    PROVE  PendingInv' /\ Tracked' = Tracked /\ pendingRequests' = pendingRequests
<1> USE DEF PendingInv
<1>1. PendingTypeOK'
  BY DEF Watch, PendingTypeOK, Tracked
<1> QED  BY <1>1 DEF Watch, QueueCovers, WindowBounded, ItemOf, Tracked

LEMMA TickStep ==
    ASSUME PendingInv, Tick
    PROVE  PendingInv' /\ Tracked' = Tracked /\ pendingRequests' = pendingRequests
<1> USE DEF PendingInv
<1>1. PendingTypeOK'
  BY PendingAssumption DEF Tick, PendingTypeOK, Tracked, Time
<1> QED  BY <1>1 DEF Tick, QueueCovers, WindowBounded, ItemOf, Tracked

-----------------------------------------------------------------------------
(***************************************************************************)
(* The theorems.                                                           *)
(***************************************************************************)
LEMMA PendingInitInv == PendingInit => PendingInv
<1> SUFFICES ASSUME PendingInit PROVE PendingInv
  OBVIOUS
<1>1. Tracked = {}
  BY DEF PendingInit, Tracked
<1>2. PendingTypeOK
  BY <1>1 DEF PendingInit, PendingTypeOK, Time
<1> QED  BY <1>1, <1>2 DEF PendingInv, QueueCovers, WindowBounded

(* One step keeps the invariant, replaces no window that is open, and ends *)
(* one only by Remove.                                                     *)
LEMMA PendingStep ==
    ASSUME PendingInv, [PendingNext]_pendingVars
    PROVE  /\ PendingInv'
           /\ \A h \in Tracked \cap Tracked' :
                 ~Expired(h) => pendingRequests'[h] = pendingRequests[h]
           /\ \A h \in Tracked \ Tracked' : ~Expired(h) => attempts'[h] = 0
<1>1. ASSUME NEW h \in Key, NEW granted \in BOOLEAN, Add(h, granted)
      PROVE  /\ PendingInv'
             /\ \A k \in Tracked \cap Tracked' :
                   ~Expired(k) => pendingRequests'[k] = pendingRequests[k]
             /\ \A k \in Tracked \ Tracked' : ~Expired(k) => attempts'[k] = 0
  BY <1>1, AddStep
<1>2. ASSUME NEW h \in Key, Remove(h)
      PROVE  /\ PendingInv'
             /\ \A k \in Tracked \cap Tracked' :
                   ~Expired(k) => pendingRequests'[k] = pendingRequests[k]
             /\ \A k \in Tracked \ Tracked' : ~Expired(k) => attempts'[k] = 0
  BY <1>2, RemoveStep
<1>3. ASSUME NEW w \in Watchers, NEW H \in SUBSET Key, Watch(w, H)
      PROVE  PendingInv' /\ Tracked' = Tracked /\ pendingRequests' = pendingRequests
  BY <1>3, WatchStep
<1>4. CASE Cleanup
  BY <1>4, CleanupStep
<1>5. CASE Tick
  BY <1>5, TickStep
<1>6. CASE UNCHANGED pendingVars
  BY <1>6 DEF pendingVars, PendingInv, PendingTypeOK, QueueCovers, WindowBounded,
     ItemOf, Tracked
<1> QED  BY <1>1, <1>2, <1>3, <1>4, <1>5, <1>6 DEF PendingNext

THEOREM PendingInvariant == PendingSpec => []PendingInv
<1>1. PendingInv /\ [PendingNext]_pendingVars => PendingInv'
  BY PendingStep
<1> QED  BY <1>1, PendingInitInv, PTL DEF PendingSpec

(* The state of the table stays well typed.                                *)
THEOREM PendingTyped == PendingSpec => []PendingTypeOK
<1>1. PendingInv => PendingTypeOK
  BY DEF PendingInv
<1> QED  BY <1>1, PendingInvariant, PTL

(* No request is missing from the heap: the cleanup finds every one.       *)
THEOREM QueueAlwaysCovers == PendingSpec => []QueueCovers
<1>1. PendingInv => QueueCovers
  BY DEF PendingInv
<1> QED  BY <1>1, PendingInvariant, PTL

(* No window is shorter than the base timeout, or longer than the maximum  *)
(* and its jitter, after any number of retries.                            *)
THEOREM WindowAlwaysBounded == PendingSpec => []WindowBounded
<1>1. PendingInv => WindowBounded
  BY DEF PendingInv
<1> QED  BY <1>1, PendingInvariant, PTL

(* A window that is open is not granted a second time.                     *)
THEOREM WindowAlwaysKept == PendingSpec => WindowKept
<1>1. PendingInv /\ [PendingNext]_pendingVars =>
          [\A h \in Tracked \cap Tracked' :
              ~Expired(h) => pendingRequests'[h] = pendingRequests[h]]_pendingVars
  BY PendingStep
<1> QED  BY <1>1, PendingInvariant, PTL DEF PendingSpec, WindowKept

(* Nothing but Remove ends a window that is open, stale heap items or not. *)
THEOREM NeverPurgedEarly == PendingSpec => NotPurgedEarly
<1>1. PendingInv /\ [PendingNext]_pendingVars =>
          [\A h \in Tracked \ Tracked' : ~Expired(h) => attempts'[h] = 0]_pendingVars
  BY PendingStep
<1> QED  BY <1>1, PendingInvariant, PTL DEF PendingSpec, NotPurgedEarly

-----------------------------------------------------------------------------
(***************************************************************************)
(* Workers, router and cleanup.                                            *)
(***************************************************************************)
FetcherInv == PendingInv /\ FetcherTypeOK /\ WindowHasWorker /\ WaiterRegistered

WorkersTyped ==
    /\ pc \in [Workers ->
          {"idle", "filter", "check", "arm", "wait", "verify", "fail"}]
    /\ todo \in [Workers -> SUBSET Key]
    /\ missing \in [Workers -> SUBSET Key]
    /\ step \in [Workers -> 1 .. 3]
    /\ deadline \in [Workers -> Nat]

(* A step of w does not touch what the other workers are at.               *)
OthersStay(w) == \A v \in Workers \ {w} : pc'[v] = pc[v] /\ missing'[v] = missing[v]

-----------------------------------------------------------------------------
(***************************************************************************)
(* Workers.                                                                *)
(***************************************************************************)
LEMMA EndStep ==
    ASSUME WorkersTyped, NEW w \in Workers, End(w)
    PROVE  /\ WorkersTyped' /\ OthersStay(w)
           /\ pc'[w] = "idle" /\ missing'[w] = {}
BY DEF End, WorkersTyped, OthersStay

LEMMA EscalateStep ==
    ASSUME WorkersTyped, NEW w \in Workers, NEW H \in SUBSET Key, Escalate(w, H)
    PROVE  /\ WorkersTyped' /\ OthersStay(w)
           /\ pc'[w] \in {"check", "verify"} /\ missing'[w] = H
<1>1. step' \in [Workers -> 1 .. 3]
  BY DEF Escalate, WorkersTyped
<1>2. /\ pc' \in [Workers ->
            {"idle", "filter", "check", "arm", "wait", "verify", "fail"}]
      /\ pc'[w] \in {"check", "verify"}
      /\ \A v \in Workers \ {w} : pc'[v] = pc[v]
  BY DEF Escalate, WorkersTyped
<1>3. /\ missing' \in [Workers -> SUBSET Key] /\ missing'[w] = H
      /\ \A v \in Workers \ {w} : missing'[v] = missing[v]
  BY DEF Escalate, WorkersTyped
<1>4. deadline' \in [Workers -> Nat] /\ todo' \in [Workers -> SUBSET Key]
  BY DEF Escalate, WorkersTyped
<1> QED  BY <1>1, <1>2, <1>3, <1>4 DEF WorkersTyped, OthersStay

LEMMA StartSyncStep ==
    ASSUME WorkersTyped, NEW w \in Workers, NEW H \in SUBSET Key, StartSync(w, H)
    PROVE  /\ WorkersTyped' /\ OthersStay(w)
           /\ pc'[w] = "filter" /\ missing' = missing
BY DEF StartSync, WorkersTyped, OthersStay

LEMMA FilterStep ==
    ASSUME WorkersTyped, NEW w \in Workers, NEW h \in Key,
           \E granted \in BOOLEAN : Filter(w, h, granted)
    PROVE  /\ WorkersTyped' /\ OthersStay(w)
           /\ pc'[w] \in {"idle", "filter", "check"}
           /\ \/ missing'[w] = missing[w] \cup {h} /\ Grant(h)
              \/ missing'[w] = missing[w] /\ UNCHANGED pendingVars
           /\ UNCHANGED <<handling, ledger, stopped>>
<1>1. PICK granted \in BOOLEAN : Filter(w, h, granted)
  OBVIOUS
<1> DEFINE H == IF granted THEN missing[w] \cup {h} ELSE missing[w]
           at == CASE todo[w] # {h} -> "filter"
                   [] H = {}        -> "idle"
                   [] OTHER         -> "check"
<1>2. at \in {"idle", "filter", "check"}
  OBVIOUS
<1>3. H \in SUBSET Key
  BY DEF WorkersTyped
<1>4. /\ todo' = [todo EXCEPT ![w] = @ \ {h}]
      /\ missing' = [missing EXCEPT ![w] = H]
      /\ pc' = [pc EXCEPT ![w] = at]
      /\ UNCHANGED <<step, deadline, handling, ledger, stopped>>
  BY <1>1 DEF Filter
<1>5. \/ H = missing[w] \cup {h} /\ Grant(h)
      \/ H = missing[w] /\ UNCHANGED pendingVars
  BY <1>1 DEF Filter, Add
<1> HIDE DEF H, at
<1>6. pc'[w] = at /\ missing'[w] = H
  BY <1>4 DEF WorkersTyped
<1>7. WorkersTyped' /\ OthersStay(w)
  BY <1>2, <1>3, <1>4 DEF WorkersTyped, OthersStay
<1> QED  BY <1>2, <1>4, <1>5, <1>6, <1>7

(* What is left of a list is what the ledger does not show.                *)
LEMMA StillMissing ==
    ASSUME WorkersTyped, NEW w \in Workers
    PROVE  /\ GetMissingHashes(missing[w]) \in SUBSET Key
           /\ GetMissingHashes(missing[w]) \subseteq missing[w]
           /\ missing[w] \subseteq GetMissingHashes(missing[w]) \cup ledger
BY DEF GetMissingHashes, WorkersTyped

LEMMA CheckStep ==
    ASSUME WorkersTyped, NEW w \in Workers, Check(w) \/ Verify(w)
    PROVE  /\ WorkersTyped' /\ OthersStay(w)
           /\ pc'[w] \in {"idle", "arm", "fail"}
           /\ missing[w] \subseteq missing'[w] \cup ledger
           /\ UNCHANGED <<pendingVars, handling, ledger, stopped>>
<1> DEFINE H == GetMissingHashes(missing[w])
<1>1. H \in SUBSET Key /\ missing[w] \subseteq H \cup ledger
  BY StillMissing
<1> HIDE DEF H
<1>2. UNCHANGED <<pendingVars, handling, ledger, stopped>>
  BY DEF Check, Verify
<1>3. CASE H = {} /\ End(w)
  BY <1>1, <1>2, <1>3, EndStep
<1>4. CASE /\ pc' = [pc EXCEPT ![w] = "arm"] \/ pc' = [pc EXCEPT ![w] = "fail"]
           /\ missing' = [missing EXCEPT ![w] = H]
           /\ UNCHANGED <<todo, step, deadline>>
  <2>1. pc'[w] \in {"arm", "fail"} /\ missing'[w] = H
    BY <1>4 DEF WorkersTyped
  <2>2. OthersStay(w) /\ WorkersTyped'
    BY <1>1, <1>4 DEF WorkersTyped, OthersStay
  <2> QED  BY <1>1, <1>2, <2>1, <2>2
<1> QED  BY <1>3, <1>4 DEF Check, Verify, H

LEMMA ArmStep ==
    ASSUME WorkersTyped, PendingTypeOK, NEW w \in Workers, Arm(w)
    PROVE  /\ WorkersTyped' /\ OthersStay(w)
           /\ missing' = missing /\ Watch(w, missing[w]) /\ missing[w] \in SUBSET Key
<1> DEFINE d == AtMost(now + StepTimeout[step[w]], Horizon)
<1>1. StepTimeout[step[w]] \in Nat /\ now \in Nat /\ Horizon \in Nat
  BY FetcherAssumption, PendingAssumption DEF WorkersTyped, PendingTypeOK, Time
<1>2. d \in Nat
  BY <1>1 DEF AtMost
<1>3. /\ deadline' = [deadline EXCEPT ![w] = d] /\ pc' = [pc EXCEPT ![w] = "wait"]
      /\ UNCHANGED <<todo, missing, step>> /\ Watch(w, missing[w])
  BY DEF Arm
<1> HIDE DEF d
<1> QED  BY <1>2, <1>3 DEF WorkersTyped, OthersStay

(* Whatever ends the wait, the channel is left.                            *)
LEMMA WakeStep ==
    ASSUME WorkersTyped, NEW w \in Workers, TimeOut(w) \/ Notified(w) \/ Cancelled(w)
    PROVE  /\ WorkersTyped' /\ OthersStay(w)
           /\ pc'[w] \in {"idle", "check", "verify"}
           /\ stopped \/ missing[w] \subseteq missing'[w] \cup ledger
           /\ LeaveChannel(w) /\ UNCHANGED <<handling, ledger, stopped>>
<1> DEFINE H == GetMissingHashes(missing[w])
<1>1. /\ H \in SUBSET Key /\ missing[w] \subseteq H \cup ledger
      /\ missing[w] \in SUBSET Key
  BY StillMissing DEF WorkersTyped
<1> HIDE DEF H
<1>2. LeaveChannel(w) /\ UNCHANGED <<handling, ledger, stopped>>
  BY DEF TimeOut, Notified, Cancelled
<1>3. CASE Escalate(w, missing[w])
  BY <1>1, <1>2, <1>3, EscalateStep
<1>4. CASE Escalate(w, H)
  BY <1>1, <1>2, <1>4, EscalateStep
<1>5. CASE End(w) /\ (H = {} \/ stopped)
  BY <1>1, <1>2, <1>5, EndStep
<1> QED  BY <1>3, <1>4, <1>5 DEF TimeOut, Notified, Cancelled, H

LEMMA FailStep ==
    ASSUME WorkersTyped, NEW w \in Workers, NEW h \in Key, Fail(w, h)
    PROVE  /\ WorkersTyped' /\ OthersStay(w)
           /\ pc'[w] \in {"idle", "fail"}
           /\ missing[w] \subseteq missing'[w] \cup {h}
           /\ Remove(h) /\ UNCHANGED <<handling, ledger, stopped>>
<1>1. Remove(h) /\ UNCHANGED <<handling, ledger, stopped>> /\ pc[w] = "fail"
  BY DEF Fail
<1>2. CASE missing[w] = {h} /\ End(w)
  BY <1>1, <1>2, EndStep
<1>3. CASE /\ missing' = [missing EXCEPT ![w] = @ \ {h}]
           /\ UNCHANGED <<pc, todo, step, deadline>>
  BY <1>1, <1>3 DEF WorkersTyped, OthersStay
<1> QED  BY <1>2, <1>3 DEF Fail

-----------------------------------------------------------------------------
(***************************************************************************)
(* The table of requests.  What workers, router and cleanup do to it is    *)
(* what its methods do; to leave a channel is to watch for nothing.        *)
(***************************************************************************)
LEMMA LeaveIsWatch ==
    ASSUME NEW w \in Workers, LeaveChannel(w)
    PROVE  Watch(w, {})
BY DEF LeaveChannel, Watch

LEMMA HandlingTyped ==
    ASSUME FetcherTypeOK, handling.at \in {"remove", "add"}
    PROVE  handling.key \in Key
BY DEF FetcherTypeOK, NoVertex

LEMMA TableStep ==
    ASSUME PendingTypeOK, FetcherTypeOK, [Next]_vars
    PROVE  [PendingNext]_pendingVars
<1>0. WorkersTyped
  BY DEF FetcherTypeOK, WorkersTyped
<1>1. ASSUME NEW w \in Workers, NEW H \in SUBSET Key, StartSync(w, H)
      PROVE  UNCHANGED pendingVars
  BY <1>1 DEF StartSync
<1>2. ASSUME NEW w \in Workers, NEW h \in Key,
             \E granted \in BOOLEAN : Filter(w, h, granted)
      PROVE  PendingNext
  BY <1>2 DEF Filter, PendingNext
<1>3. ASSUME NEW w \in Workers, Check(w) \/ Verify(w) PROVE UNCHANGED pendingVars
  BY <1>3 DEF Check, Verify
<1>4. ASSUME NEW w \in Workers, Arm(w) PROVE PendingNext
  BY <1>0, <1>4, ArmStep DEF PendingNext, Workers
<1>5. ASSUME NEW w \in Workers, TimeOut(w) \/ Notified(w) \/ Cancelled(w)
      PROVE  PendingNext
  BY <1>0, <1>5, WakeStep, LeaveIsWatch DEF PendingNext, Workers
<1>6. ASSUME NEW w \in Workers, NEW h \in Key, Fail(w, h) PROVE PendingNext
  BY <1>6 DEF Fail, PendingNext
<1>7. ASSUME NEW h \in Key, Receive(h) \/ Complete(h) PROVE UNCHANGED pendingVars
  BY <1>7 DEF Receive, Complete
<1>8. CASE Settle
  BY <1>8, HandlingTyped DEF Settle, PendingNext
<1>9. CASE AddVertex \/ Stop
  BY <1>9 DEF AddVertex, Stop
<1>10. CASE Maintain
  BY <1>10 DEF Maintain, PendingNext
<1>11. CASE UNCHANGED vars
  BY <1>11 DEF vars
<1> QED
  BY <1>1, <1>2, <1>3, <1>4, <1>5, <1>6, <1>7, <1>8, <1>9, <1>10, <1>11
     DEF Next, Work

-----------------------------------------------------------------------------
(***************************************************************************)
(* The invariant.                                                          *)
(***************************************************************************)
LEMMA TypeStep ==
    ASSUME PendingTypeOK, PendingTypeOK', FetcherTypeOK, [Next]_vars
    PROVE  FetcherTypeOK'
<1>0. WorkersTyped
  BY DEF FetcherTypeOK, WorkersTyped
<1>1. WorkersTyped' /\ UNCHANGED <<handling, ledger, stopped>> => FetcherTypeOK'
  BY DEF FetcherTypeOK, WorkersTyped
<1>2. UNCHANGED workerVars => WorkersTyped'
  BY <1>0 DEF workerVars, WorkersTyped
<1>3. ASSUME NEW w \in Workers, NEW H \in SUBSET Key, StartSync(w, H)
      PROVE  FetcherTypeOK'
  BY <1>0, <1>1, <1>3, StartSyncStep DEF StartSync
<1>4. ASSUME NEW w \in Workers, NEW h \in Key,
             \E granted \in BOOLEAN : Filter(w, h, granted)
      PROVE  FetcherTypeOK'
  BY <1>0, <1>1, <1>4, FilterStep
<1>5. ASSUME NEW w \in Workers, Check(w) \/ Verify(w) PROVE FetcherTypeOK'
  BY <1>0, <1>1, <1>5, CheckStep
<1>6. ASSUME NEW w \in Workers, Arm(w) PROVE FetcherTypeOK'
  BY <1>0, <1>1, <1>6, ArmStep DEF Arm
<1>7. ASSUME NEW w \in Workers, TimeOut(w) \/ Notified(w) \/ Cancelled(w)
      PROVE  FetcherTypeOK'
  BY <1>0, <1>1, <1>7, WakeStep
<1>8. ASSUME NEW w \in Workers, NEW h \in Key, Fail(w, h) PROVE FetcherTypeOK'
  BY <1>0, <1>1, <1>8, FailStep
<1>9. /\ UNCHANGED workerVars
      /\ handling' \in [key : Key, at : {"remove", "add"}] \cup {NoVertex}
      /\ ledger' \subseteq Key /\ stopped' \in BOOLEAN
      => FetcherTypeOK'
  BY <1>2 DEF FetcherTypeOK, WorkersTyped
<1>10. ASSUME NEW h \in Key, Receive(h) \/ Complete(h) PROVE FetcherTypeOK'
  BY <1>9, <1>10 DEF Receive, Complete, workerVars, FetcherTypeOK
<1>11. CASE Settle
  <2>1. handling \in [key : Key, at : {"remove", "add"}]
    BY <1>11 DEF Settle, FetcherTypeOK, NoVertex
  <2>2. handling' = [handling EXCEPT !.at = "add"]
    BY <1>11 DEF Settle
  <2>3. handling' \in [key : Key, at : {"remove", "add"}]
    BY <2>1, <2>2
  <2> QED  BY <1>9, <1>11, <2>3 DEF Settle, FetcherTypeOK
<1>12. CASE AddVertex
  <2>1. handling.key \in Key
    BY <1>12, HandlingTyped DEF AddVertex
  <2> QED  BY <1>9, <1>12, <2>1 DEF AddVertex, FetcherTypeOK
<1>13. CASE Stop \/ Maintain \/ UNCHANGED vars
  BY <1>9, <1>13 DEF Stop, Maintain, vars, workerVars, FetcherTypeOK
<1> QED
  BY <1>3, <1>4, <1>5, <1>6, <1>7, <1>8, <1>10, <1>11, <1>12, <1>13 DEF Next, Work

(* Windows: who looks for a hash passes it on, finds it, or gives it up    *)
(* together with its window.                                               *)
LEMMA WindowStep ==
    ASSUME PendingInv, FetcherTypeOK, WindowHasWorker, [Next]_vars
    PROVE  WindowHasWorker'
<1> SUFFICES ASSUME ~stopped', NEW k \in Tracked'
             PROVE  k \in ledger' \/ \E v \in Workers : k \in missing'[v]
  BY DEF WindowHasWorker
<1>0. WorkersTyped
  BY DEF FetcherTypeOK, WorkersTyped
<1>1. UNCHANGED pendingRequests => Tracked' = Tracked
  BY DEF Tracked
<1>2. ~stopped /\ k \in Tracked => k \in ledger \/ \E v \in Workers : k \in missing[v]
  BY DEF WindowHasWorker
<1>3. ASSUME NEW w \in Workers, NEW H \in SUBSET Key, StartSync(w, H)
      PROVE  k \in ledger' \/ \E v \in Workers : k \in missing'[v]
  BY <1>1, <1>2, <1>3 DEF StartSync, pendingVars
<1>4. ASSUME NEW w \in Workers, NEW h \in Key,
             \E granted \in BOOLEAN : Filter(w, h, granted)
      PROVE  k \in ledger' \/ \E v \in Workers : k \in missing'[v]
  <2>1. /\ OthersStay(w) /\ UNCHANGED <<ledger, stopped>>
        /\ \/ missing'[w] = missing[w] \cup {h} /\ Grant(h)
           \/ missing'[w] = missing[w] /\ UNCHANGED pendingVars
    BY <1>0, <1>4, FilterStep
  <2>2. CASE k \in Tracked
    <3>1. \A v \in Workers : k \in missing[v] => k \in missing'[v]
      BY <2>1 DEF OthersStay
    <3> QED  BY <1>2, <2>1, <2>2, <3>1
  <2>3. CASE k \notin Tracked
    <3>1. Grant(h) /\ missing'[w] = missing[w] \cup {h}
      BY <1>1, <2>1, <2>3 DEF pendingVars
    <3>2. k = h
      BY <2>3, <3>1, GrantStep
    <3> QED  BY <3>1, <3>2
  <2> QED  BY <2>2, <2>3
<1>5. ASSUME NEW w \in Workers, Check(w) \/ Verify(w)
      PROVE  k \in ledger' \/ \E v \in Workers : k \in missing'[v]
  <2>1. /\ OthersStay(w) /\ missing[w] \subseteq missing'[w] \cup ledger
        /\ UNCHANGED <<ledger, stopped>> /\ Tracked' = Tracked
    BY <1>0, <1>1, <1>5, CheckStep DEF pendingVars
  <2> QED  BY <1>2, <2>1 DEF OthersStay
<1>6. ASSUME NEW w \in Workers, Arm(w)
      PROVE  k \in ledger' \/ \E v \in Workers : k \in missing'[v]
  BY <1>1, <1>2, <1>6 DEF Arm, Watch
<1>7. ASSUME NEW w \in Workers, TimeOut(w) \/ Notified(w) \/ Cancelled(w)
      PROVE  k \in ledger' \/ \E v \in Workers : k \in missing'[v]
  <2>1. /\ OthersStay(w) /\ (stopped \/ missing[w] \subseteq missing'[w] \cup ledger)
        /\ UNCHANGED <<ledger, stopped>> /\ Tracked' = Tracked
    BY <1>0, <1>1, <1>7, WakeStep DEF LeaveChannel
  <2> QED  BY <1>2, <2>1 DEF OthersStay
<1>8. ASSUME NEW w \in Workers, NEW h \in Key, Fail(w, h)
      PROVE  k \in ledger' \/ \E v \in Workers : k \in missing'[v]
  <2>1. /\ OthersStay(w) /\ missing[w] \subseteq missing'[w] \cup {h}
        /\ UNCHANGED <<ledger, stopped>> /\ Tracked' = Tracked \ {h}
    BY <1>0, <1>8, FailStep, RemoveStep
  <2> QED  BY <1>2, <2>1 DEF OthersStay
<1>9. ASSUME NEW h \in Key, Receive(h) \/ Complete(h)
      PROVE  k \in ledger' \/ \E v \in Workers : k \in missing'[v]
  BY <1>1, <1>2, <1>9 DEF Receive, Complete, pendingVars, workerVars
<1>10. CASE Settle
  <2>1. Tracked' = Tracked \ {handling.key}
    BY <1>10, HandlingTyped, RemoveStep DEF Settle
  <2> QED  BY <1>2, <1>10, <2>1 DEF Settle, workerVars
<1>11. CASE AddVertex
  BY <1>1, <1>2, <1>11 DEF AddVertex, pendingVars, workerVars
<1>12. CASE Maintain
  <2>1. Tracked' \subseteq Tracked
    BY <1>12, CleanupStep, TickStep DEF Maintain
  <2> QED  BY <1>2, <1>12, <2>1 DEF Maintain, workerVars
<1>13. CASE Stop
  BY <1>13 DEF Stop
<1>14. CASE UNCHANGED vars
  BY <1>1, <1>2, <1>14 DEF vars, pendingVars, workerVars
<1> QED
  BY <1>3, <1>4, <1>5, <1>6, <1>7, <1>8, <1>9, <1>10, <1>11, <1>12, <1>13, <1>14
     DEF Next, Work


(* Waiters: nobody's registration is dropped without a signal.             *)
LEMMA WaiterStep ==
    ASSUME PendingTypeOK, FetcherTypeOK, WaiterRegistered, [Next]_vars
    PROVE  WaiterRegistered'
<1> SUFFICES ASSUME NEW v \in Workers, pc'[v] = "wait", v \notin signals',
                    NEW k \in missing'[v]
             PROVE  v \in watchers'[k]
  BY DEF WaiterRegistered
<1>0. WorkersTyped /\ watchers \in [Key -> SUBSET Workers]
  BY DEF FetcherTypeOK, WorkersTyped, PendingTypeOK, Workers
<1>1. pc[v] = "wait" /\ v \notin signals /\ k \in missing[v] => v \in watchers[k]
  BY DEF WaiterRegistered
<1>2. pc[v] = "wait" /\ k \in missing[v] => k \in Key
  BY <1>0 DEF WorkersTyped
<1>3. ASSUME NEW h \in Key, Remove(h), pc[v] = "wait", k \in missing[v]
      PROVE  v \in watchers'[k]
  <2>1. v \notin signals /\ v \notin watchers[h]
    BY <1>3 DEF Remove
  <2>2. v \in watchers[k] /\ k # h
    BY <1>1, <1>3, <2>1
  <2> QED  BY <1>0, <1>2, <1>3, <2>2 DEF Remove
<1>4. ASSUME NEW w \in Workers, NEW H \in SUBSET Key, StartSync(w, H)
      PROVE  v \in watchers'[k]
  <2>1. /\ OthersStay(w) /\ pc'[w] # "wait"
        /\ watchers' = watchers /\ signals' = signals
    BY <1>0, <1>4, StartSyncStep DEF StartSync, pendingVars
  <2> QED  BY <1>1, <2>1 DEF OthersStay
<1>5. ASSUME NEW w \in Workers, NEW h \in Key,
             \E granted \in BOOLEAN : Filter(w, h, granted)
      PROVE  v \in watchers'[k]
  <2>1. OthersStay(w) /\ pc'[w] # "wait" /\ (Grant(h) \/ UNCHANGED pendingVars)
    BY <1>0, <1>5, FilterStep
  <2>2. watchers' = watchers /\ signals' = signals
    BY <2>1 DEF Grant, pendingVars
  <2> QED  BY <1>1, <2>1, <2>2 DEF OthersStay
<1>6. ASSUME NEW w \in Workers, Check(w) \/ Verify(w) PROVE v \in watchers'[k]
  <2>1. OthersStay(w) /\ pc'[w] # "wait" /\ watchers' = watchers /\ signals' = signals
    BY <1>0, <1>6, CheckStep DEF pendingVars
  <2> QED  BY <1>1, <2>1 DEF OthersStay
<1>7. ASSUME NEW w \in Workers, Arm(w) PROVE v \in watchers'[k]
  <2>1. OthersStay(w) /\ missing' = missing /\ Watch(w, missing[w])
    BY <1>0, <1>7, ArmStep
  <2>2. k \in Key
    BY <1>0, <2>1 DEF WorkersTyped
  <2>3. /\ signals' = signals \ {w}
        /\ watchers'[k] = (watchers[k] \ {w})
                              \cup (IF k \in missing[w] THEN {w} ELSE {})
    BY <2>1, <2>2 DEF Watch
  <2> QED  BY <1>1, <2>1, <2>3 DEF OthersStay
<1>8. ASSUME NEW w \in Workers, TimeOut(w) \/ Notified(w) \/ Cancelled(w)
      PROVE  v \in watchers'[k]
  <2>1. OthersStay(w) /\ pc'[w] # "wait" /\ LeaveChannel(w)
    BY <1>0, <1>8, WakeStep
  <2>2. pc[v] = "wait" /\ k \in missing[v] /\ v # w
    BY <2>1 DEF OthersStay
  <2>3. v \notin signals /\ watchers'[k] = watchers[k] \ {w}
    BY <1>2, <2>1, <2>2 DEF LeaveChannel
  <2> QED  BY <1>1, <2>2, <2>3
<1>9. ASSUME NEW w \in Workers, NEW h \in Key, Fail(w, h) PROVE v \in watchers'[k]
  <2>1. OthersStay(w) /\ pc'[w] # "wait" /\ Remove(h)
    BY <1>0, <1>9, FailStep
  <2> QED  BY <1>3, <2>1 DEF OthersStay
<1>10. ASSUME NEW h \in Key, Receive(h) \/ Complete(h) PROVE v \in watchers'[k]
  BY <1>1, <1>10 DEF Receive, Complete, pendingVars, workerVars
<1>11. CASE Settle
  BY <1>3, <1>11, HandlingTyped DEF Settle, workerVars
<1>12. CASE AddVertex \/ Stop
  BY <1>1, <1>12 DEF AddVertex, Stop, pendingVars, workerVars
<1>13. CASE Maintain
  <2>1. watchers' = watchers /\ signals' = signals
    BY <1>13 DEF Maintain, Cleanup, Tick
  <2> QED  BY <1>1, <1>13, <2>1 DEF Maintain, workerVars
<1>14. CASE UNCHANGED vars
  BY <1>1, <1>14 DEF vars, pendingVars, workerVars
<1> QED
  BY <1>4, <1>5, <1>6, <1>7, <1>8, <1>9, <1>10, <1>11, <1>12, <1>13, <1>14
     DEF Next, Work

LEMMA FetcherInitInv == Init => FetcherInv
<1> SUFFICES ASSUME Init PROVE FetcherInv
  OBVIOUS
<1>1. PendingInv /\ Tracked = {}
  BY PendingInitInv DEF Init, PendingInit, Tracked
<1>2. FetcherTypeOK
  <2>1. WorkersTyped
    BY DEF Init, WorkersTyped
  <2>2. handling = NoVertex /\ ledger = {} /\ stopped = FALSE
    BY DEF Init
  <2> QED  BY <1>1, <2>1, <2>2 DEF FetcherTypeOK, WorkersTyped, PendingInv
<1>3. WindowHasWorker /\ WaiterRegistered
  BY <1>1 DEF Init, WindowHasWorker, WaiterRegistered
<1> QED  BY <1>1, <1>2, <1>3 DEF FetcherInv

-----------------------------------------------------------------------------
(***************************************************************************)
(* The theorems.                                                           *)
(***************************************************************************)
THEOREM FetcherInvariant == Spec => []FetcherInv
<1>1. FetcherInv /\ [Next]_vars => FetcherInv'
  <2> SUFFICES ASSUME FetcherInv, [Next]_vars PROVE FetcherInv'
    OBVIOUS
  <2>1. PendingInv /\ PendingTypeOK /\ FetcherTypeOK /\ WindowHasWorker /\ WaiterRegistered
    BY DEF FetcherInv, PendingInv
  <2>2. PendingInv' /\ PendingTypeOK'
    BY <2>1, TableStep, PendingStep DEF PendingInv
  <2>3. FetcherTypeOK' /\ WindowHasWorker' /\ WaiterRegistered'
    BY <2>1, <2>2, TypeStep, WindowStep, WaiterStep
  <2> QED  BY <2>2, <2>3 DEF FetcherInv
<1> QED  BY <1>1, FetcherInitInv, PTL DEF Spec

(* Workers, router, cleanup and clock drive the table of requests as its   *)
(* own specification says.                                                 *)
THEOREM FetcherImplementsTable == Spec => PendingSpec
<1>1. Init => PendingInit
  BY DEF Init
<1>2. FetcherInv /\ [Next]_vars => [PendingNext]_pendingVars
  BY TableStep DEF FetcherInv, PendingInv
<1> QED  BY <1>1, <1>2, FetcherInvariant, PTL DEF Spec, PendingSpec

(* The state of workers and router stays well typed.                       *)
THEOREM FetcherTyped == Spec => []FetcherTypeOK
<1>1. FetcherInv => FetcherTypeOK
  BY DEF FetcherInv
<1> QED  BY <1>1, FetcherInvariant, PTL

(* No hash stays closed to requests while nobody looks for it.             *)
THEOREM WindowsHaveWorkers == Spec => []WindowHasWorker
<1>1. FetcherInv => WindowHasWorker
  BY DEF FetcherInv
<1> QED  BY <1>1, FetcherInvariant, PTL

(* No waiter misses the signal for a hash it waits for.                    *)
THEOREM WaitersStayRegistered == Spec => []WaiterRegistered
<1>1. FetcherInv => WaiterRegistered
  BY DEF FetcherInv
<1> QED  BY <1>1, FetcherInvariant, PTL

(* The guarantee of the table holds among its users: an open window is     *)
(* never granted a second time.                                            *)
THEOREM WindowKeptAmongWorkers == Spec => WindowKept
  BY FetcherImplementsTable, WindowAlwaysKept, PTL

-----------------------------------------------------------------------------
(***************************************************************************)
(* The steps a worker has before it: of filtering, of three rounds of      *)
(* check, dispatch and wait, and of giving up (fetcher.go:68-106, 189).    *)
(***************************************************************************)
Ahead(w) == Cardinality(Key) + 3 * (3 - step[w])

StepsLeft(w) ==
    CASE pc[w] = "filter" -> Cardinality(Key) + 11 + Cardinality(todo[w])
      [] pc[w] = "check"  -> Ahead(w) + 5
      [] pc[w] = "arm"    -> Ahead(w) + 4
      [] pc[w] = "wait"   -> Ahead(w) + 3
      [] pc[w] = "verify" -> Cardinality(Key) + 2
      [] pc[w] = "fail"   -> Cardinality(missing[w]) + 1
      [] pc[w] = "idle"   -> 0

Local(w) == <<pc[w], todo[w], missing[w], step[w], deadline[w]>>

(* Each step of a worker brings its end nearer, and nobody but itself      *)
(* changes where it is or what it looks for, so no response, competing     *)
(* worker, expiry or cleanup makes it start over.                          *)
WorkerAdvances ==
    [][\A w \in Workers : pc[w] # "idle" =>
          /\ Work(w) => StepsLeft(w)' < StepsLeft(w)
          /\ Local(w)' # Local(w) => Work(w)]_vars

LEMMA Sizes ==
    ASSUME IsFiniteSet(Key), NEW S \in SUBSET Key
    PROVE  /\ Cardinality(Key) \in Nat /\ Cardinality(S) \in Nat
           /\ Cardinality(S) <= Cardinality(Key)
           /\ \A h \in S : /\ Cardinality(S \ {h}) = Cardinality(S) - 1
                           /\ Cardinality(S) >= 1
<1>1. IsFiniteSet(S) /\ Cardinality(S) <= Cardinality(Key)
  BY FS_Subset
<1>2. Cardinality(Key) \in Nat /\ Cardinality(S) \in Nat
  BY <1>1, FS_CardinalityType
<1>3. ASSUME NEW h \in S
      PROVE  Cardinality(S \ {h}) = Cardinality(S) - 1 /\ Cardinality(S) >= 1
  <2>1. Cardinality(S \ {h}) = Cardinality(S) - 1 /\ IsFiniteSet(S \ {h})
    BY <1>1, FS_RemoveElement
  <2>2. Cardinality(S \ {h}) \in Nat
    BY <2>1, FS_CardinalityType
  <2> QED  BY <1>2, <2>1, <2>2
<1> QED  BY <1>1, <1>2, <1>3

LEMMA WorkAdvances ==
    ASSUME IsFiniteSet(Key), WorkersTyped, NEW w \in Workers, Work(w)
    PROVE  StepsLeft(w)' < StepsLeft(w)
<1>1. /\ pc[w] \in {"idle", "filter", "check", "arm", "wait", "verify", "fail"}
      /\ todo[w] \in SUBSET Key /\ missing[w] \in SUBSET Key /\ step[w] \in 1 .. 3
  BY DEF WorkersTyped
<1>2. /\ Cardinality(Key) \in Nat /\ Cardinality(todo[w]) \in Nat
      /\ Cardinality(missing[w]) \in Nat
  BY <1>1, Sizes
<1>3. ASSUME End(w), pc[w] # "idle" PROVE StepsLeft(w)' < StepsLeft(w)
  <2>1. pc'[w] = "idle"
    BY <1>3 DEF End, WorkersTyped
  <2> QED  BY <1>1, <1>2, <1>3, <2>1 DEF StepsLeft, Ahead
<1>4. ASSUME NEW H, Escalate(w, H), pc[w] = "wait" PROVE StepsLeft(w)' < StepsLeft(w)
  <2>1. \/ pc'[w] = "check" /\ step[w] < 3 /\ step'[w] = step[w] + 1
        \/ pc'[w] = "verify"
    BY <1>4 DEF Escalate, WorkersTyped
  <2> QED  BY <1>1, <1>2, <1>4, <2>1 DEF StepsLeft, Ahead
<1>5. ASSUME NEW h \in Key, NEW granted \in BOOLEAN, Filter(w, h, granted)
      PROVE  StepsLeft(w)' < StepsLeft(w)
  <2>1. /\ pc[w] = "filter" /\ h \in todo[w] /\ step' = step
        /\ todo'[w] = todo[w] \ {h}
    BY <1>5 DEF Filter, WorkersTyped
  <2>2. pc'[w] \in {"idle", "filter", "check"}
    BY <1>5, FilterStep
  <2>3. Cardinality(todo'[w]) = Cardinality(todo[w]) - 1 /\ Cardinality(todo[w]) >= 1
    BY <1>1, <2>1, Sizes
  <2> QED  BY <1>1, <1>2, <2>1, <2>2, <2>3 DEF StepsLeft, Ahead
<1>6. CASE Check(w)
  <2>1. CASE End(w)
    BY <1>3, <1>6, <2>1 DEF Check
  <2>2. CASE ~End(w)
    <3>1. pc[w] = "check" /\ pc'[w] = "arm" /\ step' = step
      BY <1>6, <2>2 DEF Check, WorkersTyped
    <3> QED  BY <1>1, <1>2, <3>1 DEF StepsLeft, Ahead
  <2> QED  BY <2>1, <2>2
<1>7. CASE Arm(w)
  <2>1. pc[w] = "arm" /\ pc'[w] = "wait" /\ step' = step
    BY <1>7 DEF Arm, WorkersTyped
  <2> QED  BY <1>1, <1>2, <2>1 DEF StepsLeft, Ahead
<1>8. CASE TimeOut(w) \/ Notified(w) \/ Cancelled(w)
  <2>1. pc[w] = "wait" /\ (End(w) \/ \E H : Escalate(w, H))
    BY <1>8 DEF TimeOut, Notified, Cancelled
  <2> QED  BY <1>3, <1>4, <2>1
<1>9. CASE Verify(w)
  <2>1. CASE End(w)
    BY <1>3, <1>9, <2>1 DEF Verify
  <2>2. CASE ~End(w)
    <3>1. pc[w] = "verify" /\ pc'[w] = "fail" /\ missing'[w] \in SUBSET Key
      BY <1>9, <2>2, StillMissing DEF Verify, WorkersTyped
    <3>2. Cardinality(missing'[w]) \in Nat /\ Cardinality(missing'[w]) <= Cardinality(Key)
      BY <3>1, Sizes
    <3> QED  BY <1>1, <1>2, <3>1, <3>2 DEF StepsLeft, Ahead
  <2> QED  BY <2>1, <2>2
<1>10. ASSUME NEW h \in Key, Fail(w, h) PROVE StepsLeft(w)' < StepsLeft(w)
  <2>1. CASE End(w)
    BY <1>3, <1>10, <2>1 DEF Fail
  <2>2. CASE ~End(w)
    <3>1. /\ pc[w] = "fail" /\ pc' = pc /\ h \in missing[w]
          /\ missing'[w] = missing[w] \ {h}
      BY <1>10, <2>2 DEF Fail, WorkersTyped
    <3>2. Cardinality(missing'[w]) = Cardinality(missing[w]) - 1
      BY <1>1, <3>1, Sizes
    <3> QED  BY <1>1, <1>2, <3>1, <3>2 DEF StepsLeft, Ahead
  <2> QED  BY <2>1, <2>2
<1> QED  BY <1>5, <1>6, <1>7, <1>8, <1>9, <1>10 DEF Work

(* What is at hand of a worker changes by its own steps only.              *)
LEMMA NobodyElse ==
    ASSUME WorkersTyped, NEW w \in Workers, pc[w] # "idle", Next, ~Work(w)
    PROVE  Local(w)' = Local(w)
<1>1. ASSUME NEW v \in Workers, NEW H \in SUBSET Key, StartSync(v, H)
      PROVE  Local(w)' = Local(w)
  BY <1>1 DEF StartSync, Local, WorkersTyped
<1>2. ASSUME NEW v \in Workers, v # w, Work(v)
      PROVE  Local(w)' = Local(w)
  <2> USE DEF Local, WorkersTyped
  <2>1. ASSUME End(v) \/ \E H : Escalate(v, H) PROVE Local(w)' = Local(w)
    BY <1>2, <2>1 DEF End, Escalate
  <2>2. ASSUME NEW h \in Key, NEW granted \in BOOLEAN, Filter(v, h, granted)
        PROVE  Local(w)' = Local(w)
    BY <1>2, <2>2 DEF Filter
  <2>3. CASE Check(v) \/ Arm(v) \/ Verify(v)
    BY <1>2, <2>1, <2>3 DEF Check, Arm, Verify
  <2>4. CASE TimeOut(v) \/ Notified(v) \/ Cancelled(v)
    <3>1. End(v) \/ \E H : Escalate(v, H)
      BY <2>4 DEF TimeOut, Notified, Cancelled
    <3> QED  BY <2>1, <3>1
  <2>5. ASSUME NEW h \in Key, Fail(v, h) PROVE Local(w)' = Local(w)
    BY <1>2, <2>1, <2>5 DEF Fail
  <2> QED  BY <1>2, <2>2, <2>3, <2>4, <2>5 DEF Work
<1>3. CASE UNCHANGED workerVars
  BY <1>3 DEF workerVars, Local
<1>4. CASE (\E h \in Key : Receive(h) \/ Complete(h)) \/ Settle \/ AddVertex \/ Maintain \/ Stop
  BY <1>3, <1>4 DEF Receive, Complete, Settle, AddVertex, Maintain, Stop, workerVars
<1> QED  BY <1>1, <1>2, <1>4 DEF Next

(* A worker on a list of n hashes out of finitely many ends after finitely *)
(* many steps of its own, whatever arrives, expires or is asked for by     *)
(* others meanwhile.                                                       *)
THEOREM WorkersAlwaysAdvance ==
    ASSUME IsFiniteSet(Key)
    PROVE  Spec => WorkerAdvances
<1> DEFINE Advance == \A w \in Workers : pc[w] # "idle" =>
              /\ Work(w) => StepsLeft(w)' < StepsLeft(w)
              /\ Local(w)' # Local(w) => Work(w)
<1>1. FetcherInv /\ [Next]_vars => [Advance]_vars
  <2> SUFFICES ASSUME FetcherInv, Next PROVE Advance
    OBVIOUS
  <2>1. WorkersTyped
    BY DEF FetcherInv, FetcherTypeOK, WorkersTyped
  <2> QED  BY <2>1, WorkAdvances, NobodyElse
<1> QED  BY <1>1, FetcherInvariant, PTL DEF Spec, WorkerAdvances
=============================================================================
