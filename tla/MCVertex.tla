------------------------------ MODULE MCVertex ------------------------------
(***************************************************************************)
(* Every list of up to MaxParents hashes out of four.                      *)
(***************************************************************************)
EXTENDS ParentLists

MCHash == 1 .. 4
MCParents == [h \in MCHash |-> << >>]
MCRound == [h \in MCHash |-> 1]
MCAuthor == [h \in MCHash |-> 1]
MCGeneration == [h \in MCHash |-> 0]
=============================================================================
