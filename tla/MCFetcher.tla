------------------------------ MODULE MCFetcher -----------------------------
(***************************************************************************)
(* Every window and every step lasts one tick.  At the horizon the clock   *)
(* stands still: windows are over, timers fire, and new windows stay open. *)
(***************************************************************************)
EXTENDS Fetcher, TLC

MCStepTimeout == <<1, 1, 1>>

Symmetry == Permutations(Key) \cup Permutations(Workers)

(* Bound: items in the heap, stale ones included, and grants of one hash.  *)
Bounded ==
    /\ Cardinality(pendingQueue) <= 2
    /\ \A h \in Key : attempts[h] <= 2
=============================================================================
