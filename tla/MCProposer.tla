----------------------------- MODULE MCProposer -----------------------------
(***************************************************************************)
(* Four validators, the last of them faulty, and the configured ratios.    *)
(* The honest ones do not agree on what to vote for.                       *)
(***************************************************************************)
EXTENDS Proposer, TLC

MCValidators == 1 .. 4
MCHonest == 1 .. 3

MCParents == [h \in Hash |-> << >>]
MCZero == [h \in Hash |-> 0]
MCAuthor == [h \in Hash |-> 1]

MCBallot == [v \in MCHonest |-> [r \in Rounds |-> IF v = 2 THEN 2 ELSE 1]]

MCHome == [c \in Caller |-> 1]

(* Bounds: the properties speak of two vertices at a time; the round       *)
(* advances or the replica is restarted, not both.                         *)
Bounded ==
    /\ Cardinality(broadcast) <= 2
    /\ round[1] + life[1] <= 1

Symmetry == Permutations(Caller)
=============================================================================
