----------------------------- MODULE MCSlasher ------------------------------
(***************************************************************************)
(* One vertex names validator 1, and it is in order; validator 2 is named  *)
(* by the malformed vertex 4 and by two vertices, 2 and 3, of round 1; and *)
(* 3 by the malformed vertex 5.                                            *)
(***************************************************************************)
EXTENDS Slasher

MCHash == 1 .. 5
MCValidators == 1 .. 3
MCParents == << << >>, << >>, << >>, <<2, 1>>, <<1, 1>> >>
MCRound == <<1, 1, 1, 2, 2>>
MCAuthor == <<1, 2, 2, 2, 3>>
MCGeneration == <<0, 0, 0, 1, 1>>
=============================================================================
