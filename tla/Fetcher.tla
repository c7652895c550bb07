------------------------------ MODULE Fetcher -------------------------------
(***************************************************************************)
(* The retrieval of missing vertices: the goroutines of VertexFetcher      *)
(* (core/fetcher.go), the table of requests they share with the router's   *)
(* handling of a FETCH_RES (replica/router.go), and the clock.             *)
(*                                                                         *)
(* The DAG is seen through what a worker asks of it, the set of hashes in  *)
(* the ledger, which only grows (CausalLedger).  It grows in AddVertex at  *)
(* the end of a response, or when any arrival completes an orphan received *)
(* before.  SendTo transmits nothing in this version of the code           *)
(* (replica/network.go:43) and the router takes unsolicited vertices, so   *)
(* any response may come at any time, late, repeated, or never.            *)
(***************************************************************************)
EXTENDS PendingManager

CONSTANTS
    StepTimeout     \* config.SyncConfig: step -> ticks

ASSUME FetcherAssumption == StepTimeout \in [1 .. 3 -> Nat \ {0}]

VARIABLES
    pc,             \* worker -> where it is in StartSync or its goroutine
    todo,           \* worker -> hashes filterNewRequests has still to add
    missing,        \* worker -> currentMissing
    step,           \* worker -> escalation step
    deadline,       \* worker -> when its time.After fires
    handling,       \* the vertex the router is at, and how far it got
    ledger,         \* what DAG.GetMissingHashes finds present
    stopped         \* RuntimeContext is cancelled

workerVars == <<pc, todo, missing, step, deadline>>
vars == <<pendingVars, workerVars, handling, ledger, stopped>>

NoVertex == [key |-> {}, at |-> "idle"]
Workers == Watchers

Init ==
    /\ PendingInit
    /\ pc = [w \in Workers |-> "idle"]
    /\ todo = [w \in Workers |-> {}]
    /\ missing = [w \in Workers |-> {}]
    /\ step = [w \in Workers |-> 1]
    /\ deadline = [w \in Workers |-> 0]
    /\ handling = NoVertex
    /\ ledger = {}
    /\ stopped = FALSE

\* dag.go:197
GetMissingHashes(H) == H \ ledger

(* The goroutine ends; what it leaves on its stack is of no interest.      *)
End(w) ==
    /\ pc' = [pc EXCEPT ![w] = "idle"]
    /\ missing' = [missing EXCEPT ![w] = {}]
    /\ step' = [step EXCEPT ![w] = 1]
    /\ deadline' = [deadline EXCEPT ![w] = 0]
    /\ UNCHANGED todo

\* Faulty variant: the loop runs once more.
EscalatePastLast(w, H) ==
    /\ missing' = [missing EXCEPT ![w] = H]
    /\ deadline' = [deadline EXCEPT ![w] = 0]
    /\ IF step[w] <= 3
       THEN pc' = [pc EXCEPT ![w] = "check"] /\ step' = [step EXCEPT ![w] = @ + 1]
       ELSE pc' = [pc EXCEPT ![w] = "verify"] /\ UNCHANGED step
    /\ UNCHANGED todo

(* The loop goes on with another set, at the next step or after step 3.    *)
Escalate(w, H) ==
    /\ missing' = [missing EXCEPT ![w] = H]
    /\ deadline' = [deadline EXCEPT ![w] = 0]
    /\ IF step[w] < 3
       THEN pc' = [pc EXCEPT ![w] = "check"] /\ step' = [step EXCEPT ![w] = @ + 1]
       ELSE pc' = [pc EXCEPT ![w] = "verify"] /\ UNCHANGED step
    /\ UNCHANGED todo

-----------------------------------------------------------------------------
(* fetcher.go:68.  Any caller, any non-empty set: the DAG asks for the     *)
(* missing parents of an orphan.                                           *)
StartSync(w, H) ==
    /\ pc[w] = "idle"
    /\ H # {}
    /\ pc' = [pc EXCEPT ![w] = "filter"]
    /\ todo' = [todo EXCEPT ![w] = H]
    /\ UNCHANGED <<pendingVars, missing, step, deadline, handling, ledger, stopped>>

(* fetcher.go:169-178 and 71-77.  One hash; after the last one a goroutine *)
(* starts if any hash was granted.                                         *)
Filter(w, h, granted) ==
    LET accepted == IF granted THEN missing[w] \cup {h} ELSE missing[w]
    IN  /\ pc[w] = "filter" /\ h \in todo[w]
        /\ Add(h, granted)
        /\ todo' = [todo EXCEPT ![w] = @ \ {h}]
        /\ missing' = [missing EXCEPT ![w] = accepted]
        /\ pc' = [pc EXCEPT ![w] =
              CASE todo[w] # {h}   -> "filter"
                [] accepted = {}   -> "idle"
                [] OTHER           -> "check"]
        /\ UNCHANGED <<step, deadline, handling, ledger, stopped>>

(* Lines 83-89.  The dispatch itself changes no state.                     *)
Check(w) ==
    LET H == GetMissingHashes(missing[w])
    IN  /\ pc[w] = "check"
        /\ \/ H = {} /\ End(w)
           \/ /\ H # {}
              /\ pc' = [pc EXCEPT ![w] = "arm"]
              /\ missing' = [missing EXCEPT ![w] = H]
              /\ UNCHANGED <<todo, step, deadline>>
        /\ UNCHANGED <<pendingVars, handling, ledger, stopped>>

\* Faulty variant: the wait has no timeout.
ArmWithoutTimer(w) ==
    /\ pc[w] = "arm"
    /\ deadline' = [deadline EXCEPT ![w] = Horizon + 1]
    /\ Watch(w, missing[w])
    /\ pc' = [pc EXCEPT ![w] = "wait"]
    /\ UNCHANGED <<todo, missing, step, handling, ledger, stopped>>

(* Lines 90-93, the operands of the select, evaluated in this order.       *)
(* Bound: at the horizon timers fire although the clock stands still.      *)
Arm(w) ==
    /\ pc[w] = "arm"
    /\ deadline' = [deadline EXCEPT ![w] = AtMost(now + StepTimeout[step[w]], Horizon)]
    /\ Watch(w, missing[w])
    /\ pc' = [pc EXCEPT ![w] = "wait"]
    /\ UNCHANGED <<todo, missing, step, handling, ledger, stopped>>

(* The select is left.  Its channel stays registered, but nobody reads it  *)
(* any more, and it drops out of the picture.                              *)
LeaveChannel(w) ==
    /\ watchers' = [k \in Key |-> watchers[k] \ {w}]
    /\ signals' = signals \ {w}
    /\ UNCHANGED <<now, pendingRequests, pendingQueue, attempts>>

\* Line 91-92.
TimeOut(w) ==
    /\ pc[w] = "wait" /\ now >= deadline[w]
    /\ Escalate(w, missing[w])
    /\ LeaveChannel(w)
    /\ UNCHANGED <<handling, ledger, stopped>>

\* Lines 93-97.
Notified(w) ==
    LET H == GetMissingHashes(missing[w])
    IN  /\ pc[w] = "wait" /\ w \in signals
        /\ \/ H = {} /\ End(w)
           \/ H # {} /\ Escalate(w, H)
        /\ LeaveChannel(w)
        /\ UNCHANGED <<handling, ledger, stopped>>

\* Lines 98-99.
Cancelled(w) ==
    /\ pc[w] = "wait" /\ stopped
    /\ End(w)
    /\ LeaveChannel(w)
    /\ UNCHANGED <<handling, ledger, stopped>>

\* Faulty variant: the failure is reported, but the requests stay pending.
VerifyKeepsPending(w) ==
    /\ pc[w] = "verify"
    /\ End(w)
    /\ UNCHANGED <<pendingVars, handling, ledger, stopped>>

\* Lines 104-106.
Verify(w) ==
    LET H == GetMissingHashes(missing[w])
    IN  /\ pc[w] = "verify"
        /\ \/ H = {} /\ End(w)
           \/ /\ H # {}
              /\ pc' = [pc EXCEPT ![w] = "fail"]
              /\ missing' = [missing EXCEPT ![w] = H]
              /\ UNCHANGED <<todo, step, deadline>>
        /\ UNCHANGED <<pendingVars, handling, ledger, stopped>>

(* handleDAFailure (line 189): give up on the next hash.                   *)
Fail(w, h) ==
    /\ pc[w] = "fail" /\ h \in missing[w]
    /\ Remove(h)
    /\ \/ missing[w] = {h} /\ End(w)
       \/ /\ missing[w] # {h}
          /\ missing' = [missing EXCEPT ![w] = @ \ {h}]
          /\ UNCHANGED <<pc, todo, step, deadline>>
    /\ UNCHANGED <<handling, ledger, stopped>>

-----------------------------------------------------------------------------
(* replica/router.go:83-86, the next vertex of a FETCH_RES.                *)
Receive(h) ==
    /\ handling = NoVertex
    /\ h \notin ledger
    /\ handling' = [key |-> h, at |-> "remove"]
    /\ UNCHANGED <<pendingVars, workerVars, ledger, stopped>>

\* router.go:90
Settle ==
    /\ handling.at = "remove"
    /\ Remove(handling.key)
    /\ handling' = [handling EXCEPT !.at = "add"]
    /\ UNCHANGED <<workerVars, ledger, stopped>>

(* router.go:93: the vertex enters the ledger, or becomes an orphan, or is *)
(* refused.  The feedback of lines 97-99 has no reader in the code.        *)
AddVertex ==
    /\ handling.at = "add"
    /\ ledger' = ledger \cup {handling.key} \/ UNCHANGED ledger
    /\ handling' = NoVertex
    /\ UNCHANGED <<pendingVars, workerVars, stopped>>

(* dag.go:146-170, in a call that brings some other vertex.                *)
Complete(h) ==
    /\ h \notin ledger
    /\ ledger' = ledger \cup {h}
    /\ UNCHANGED <<pendingVars, workerVars, handling, stopped>>

(* The cleanup loop (pending_manager.go:193) and the clock.                *)
Maintain ==
    /\ Cleanup \/ Tick
    /\ UNCHANGED <<workerVars, handling, ledger, stopped>>

\* replica/lifecycle.go:41
Stop == stopped' = TRUE /\ UNCHANGED <<pendingVars, workerVars, handling, ledger>>

-----------------------------------------------------------------------------
Work(w) ==
    \/ \E h \in Key, granted \in BOOLEAN : Filter(w, h, granted)
    \/ Check(w) \/ Arm(w) \/ TimeOut(w) \/ Notified(w) \/ Cancelled(w)
    \/ Verify(w)
    \/ \E h \in Key : Fail(w, h)

Next ==
    \/ \E w \in Workers, H \in SUBSET Key : StartSync(w, H)
    \/ \E w \in Workers : Work(w)
    \/ \E h \in Key : Receive(h) \/ Complete(h)
    \/ Settle \/ AddVertex
    \/ Maintain
    \/ Stop

Spec == Init /\ [][Next]_vars

(* The Go scheduler runs every goroutine that can run, and time passes.    *)
FairSpec ==
    /\ Spec
    /\ \A w \in Workers : WF_vars(Work(w))
    /\ WF_vars(Tick /\ UNCHANGED <<workerVars, handling, ledger, stopped>>)

-----------------------------------------------------------------------------
FetcherTypeOK ==
    /\ PendingTypeOK
    /\ pc \in [Workers ->
          {"idle", "filter", "check", "arm", "wait", "verify", "fail"}]
    /\ todo \in [Workers -> SUBSET Key]
    /\ missing \in [Workers -> SUBSET Key]
    /\ step \in [Workers -> 1 .. 3]
    /\ deadline \in [Workers -> Nat]
    /\ handling \in [key : Key, at : {"remove", "add"}] \cup {NoVertex}
    /\ ledger \subseteq Key
    /\ stopped \in BOOLEAN

(* A hash does not stay closed to new requests while nobody looks for it:  *)
(* whatever window is open, the vertex is here, or it has been received    *)
(* meanwhile, or a worker still has it on its list.  Otherwise an orphan   *)
(* would wait for a parent nobody may ask for (fetcher.go:190).            *)
WindowHasWorker ==
    ~stopped => \A h \in Tracked :
        h \in ledger \/ \E w \in Workers : h \in missing[w]

(* A worker that waits has a signal, or gets one when any of the hashes it *)
(* waits for is settled, whoever else waits for it (fetcher.go:93,         *)
(* pending_manager.go:147-156).                                            *)
WaiterRegistered ==
    \A w \in Workers : pc[w] = "wait" /\ w \notin signals =>
        \A h \in missing[w] : w \in watchers[h]

(* Every call of StartSync comes to an end, in the worst case after three  *)
(* timeouts (fetcher.go:16-17).                                            *)
WorkerEnds == \A w \in Workers : pc[w] # "idle" ~> pc[w] = "idle"
=============================================================================
