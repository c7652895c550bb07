------------------------------- MODULE MCDAG --------------------------------
(***************************************************************************)
(* A diamond, 3 <- {1, 4} <- 2, whose top is the only vertex far ahead of  *)
(* the node; two malformed vertices, 5 and 7, that name validator 2, one   *)
(* of which reaches the threshold; and 6, which descends from 5 and can    *)
(* never be completed.  The hash order is not the causal order, and 1 and  *)
(* 4 share a round, so that index and worklist need their sorting.         *)
(***************************************************************************)
EXTENDS DAG, TLC

MCValidators == 1 .. 2
MCParents ==
    [h \in Hash |-> << <<3>>, <<1, 4>>, << >>, <<3>>, <<4, 3>>, <<4, 5>>,
                    <<3, 3>> >>[h]]
MCRound == [h \in Hash |-> <<2, 3, 1, 2, 3, 4, 2>>[h]]
MCAuthor == [h \in Hash |-> <<1, 1, 1, 2, 2, 1, 2>>[h]]
MCGeneration == [h \in Hash |-> <<1, 2, 0, 1, 2, 3, 1>>[h]]

(* The goroutines are interchangeable: only for the runs without liveness. *)
Symmetry == Permutations(Threads)
=============================================================================
