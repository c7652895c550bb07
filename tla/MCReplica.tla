----------------------------- MODULE MCReplica ------------------------------
(***************************************************************************)
(* Replica 3 is the author of the genesis, replica 2 that of the vertices  *)
(* on top of it; replica 1 hears of vertex 3 or of vertex 4.  Vertex 3 has *)
(* two parents, the genesis and one whose round is the last that an answer *)
(* may have.  Vertex 4 is a misfit: a request for its three parents is     *)
(* longer than an answer may be, as with the limits shipped, and vertex 3  *)
(* among them is of a round beyond the window.                             *)
(***************************************************************************)
EXTENDS Replica

MCValidators == {1, 2, 3}

MCParents == [h \in Hash |->
    CASE h = 1 -> << >> [] h = 2 -> <<1>> [] h = 3 -> <<1, 2>> [] h = 4 -> <<1, 2, 3>>]
MCRound == [h \in Hash |->
    CASE h = 1 -> 0 [] h = 2 -> 10 [] h = 3 -> 11 [] h = 4 -> 12]
MCAuthor == [h \in Hash |-> IF h = 1 THEN 3 ELSE 2]
MCGeneration == [h \in Hash |-> h]
MCGossiped == {<<2, 1>>, <<1, 3>>, <<1, 4>>}
=============================================================================
