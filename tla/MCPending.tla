------------------------------ MODULE MCPending -----------------------------
(***************************************************************************)
(* Two hashes.  The first window is 5 units long, the next ones 10, the    *)
(* maximum, plus a jitter of 0 or 1; the clock is read at multiples of 5,  *)
(* which tells the two jitters apart.                                      *)
(***************************************************************************)
EXTENDS PendingManager, TLC

Symmetry == Permutations(Key)

(* Bound: four items in the heap, stale ones included.                     *)
Bounded == Cardinality(pendingQueue) <= 4
=============================================================================
