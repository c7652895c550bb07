----------------------------- MODULE Orphanage ------------------------------
(***************************************************************************)
(* The bounded buffer of vertices waiting for ancestors                    *)
(* (core/orphanage.go).                                                    *)
(*                                                                         *)
(* Each method holds Orphanage.mu throughout and calls nobody, so it is    *)
(* one atomic step of its caller, DAG, which holds DAG.mu around it: this  *)
(* module gives the state and the operations, DAG.tla says when they run.  *)
(* A list in lostParents is sorted whenever it is read and never holds a   *)
(* child twice, so it is the set of the waiting children; an absent key is *)
(* the empty set.                                                          *)
(***************************************************************************)
EXTENDS Vertex

CONSTANT Capacity       \* Orphanage.capacity

ASSUME OrphanageAssumption == Capacity \in Nat

VARIABLES
    lostParents,        \* parent -> children waiting for it
    lostParentCount,    \* buffered child -> number of its missing parents
    orphans             \* buffered children

orphanageVars == <<lostParents, lostParentCount, orphans>>

Buffered == DOMAIN lostParentCount

\* orphanage.go:61
NewOrphanage ==
    /\ lostParents = [p \in Hash |-> {}]
    /\ lostParentCount = [h \in {} |-> 0]
    /\ orphans = {}

-----------------------------------------------------------------------------
\* Faulty variant: the incoming vertex is not compared with the others.
FindVictimAmongBuffered(vtx, missingCount) ==
    CHOOSE h \in Buffered : \A g \in Buffered :
        \/ lostParentCount[g] < lostParentCount[h]
        \/ lostParentCount[g] = lostParentCount[h] /\ g <= h

(* orphanage.go:104.  The entry, the incoming vertex included, with the    *)
(* most missing parents; among equals, the one with the largest hash.      *)
FindVictim(vtx, missingCount) ==
    LET Missing(h) == IF h = vtx THEN missingCount ELSE lostParentCount[h]
    IN  CHOOSE h \in Buffered \cup {vtx} : \A g \in Buffered \cup {vtx} :
            \/ Missing(g) < Missing(h)
            \/ Missing(g) = Missing(h) /\ g <= h

\* Faulty variant: the victim's entries in lostParents stay behind.
RegisterLeavingWaiters(vtx, missing, evicted) ==
    /\ lostParents' = [p \in Hash |->
          IF p \in missing THEN lostParents[p] \cup {vtx} ELSE lostParents[p]]
    /\ lostParentCount' = [h \in (Buffered \ evicted) \cup {vtx} |->
          IF h = vtx THEN Cardinality(missing) ELSE lostParentCount[h]]
    /\ orphans' = (orphans \ evicted) \cup {vtx}

(* orphanage.go:88-96 with removeOrphan (line 171): drop the evicted       *)
(* vertex, if any, from the lists of all its parents and from both maps,   *)
(* then enter vtx under each of its missing parents.                       *)
Register(vtx, missing, evicted) ==
    /\ lostParents' = [p \in Hash |->
          (lostParents[p] \ {h \in evicted : p \in ParentSet(h)})
            \cup {h \in {vtx} : p \in missing}]
    /\ lostParentCount' = [h \in (Buffered \ evicted) \cup {vtx} |->
          IF h = vtx THEN Cardinality(missing) ELSE lostParentCount[h]]
    /\ orphans' = (orphans \ evicted) \cup {vtx}

(* orphanage.go:72: already buffered; room left; or full, and either vtx   *)
(* itself is refused or a worse entry makes way for it.                    *)
AddOrphan(vtx, missing) ==
    LET victim == FindVictim(vtx, Cardinality(missing))
        full   == Cardinality(Buffered) >= Capacity
    IN  \/ vtx \in Buffered /\ UNCHANGED orphanageVars
        \/ vtx \notin Buffered /\ ~full /\ Register(vtx, missing, {})
        \/ /\ vtx \notin Buffered /\ full /\ victim = vtx
           /\ UNCHANGED orphanageVars
        \/ /\ vtx \notin Buffered /\ full /\ victim # vtx
           /\ Register(vtx, missing, {victim})

\* Faulty variant: the test is made on the old count.
ReadyOneLate(pHash) ==
    {c \in lostParents[pHash] \cap Buffered : lostParentCount[c] <= 0}

(* The children that pHash was the last missing parent of.                 *)
Ready(pHash) == {c \in lostParents[pHash] \cap Buffered : lostParentCount[c] <= 1}

\* Faulty variant: a released child stays in the object map.
OnParentArrivalKeepsObject(pHash) ==
    /\ lostParents' = [lostParents EXCEPT ![pHash] = {}]
    /\ lostParentCount' = [h \in Buffered \ Ready(pHash) |->
          IF h \in lostParents[pHash] THEN lostParentCount[h] - 1
                                      ELSE lostParentCount[h]]
    /\ UNCHANGED orphans

\* orphanage.go:127.  It returns SortVertices(Ready(pHash)).
OnParentArrival(pHash) ==
    /\ lostParents' = [lostParents EXCEPT ![pHash] = {}]
    /\ lostParentCount' = [h \in Buffered \ Ready(pHash) |->
          IF h \in lostParents[pHash] THEN lostParentCount[h] - 1
                                      ELSE lostParentCount[h]]
    /\ orphans' = orphans \ Ready(pHash)

-----------------------------------------------------------------------------
OrphanageTypeOK ==
    /\ lostParents \in [Hash -> SUBSET Hash]
    /\ Buffered \subseteq Hash
    /\ lostParentCount \in [Buffered -> Nat \ {0}]
    /\ orphans \subseteq Hash

(* "lostParentCount and orphans maps must remain synchronized"             *)
(* (orphanage.go:8), and never exceed the configured capacity.             *)
BufferSync == orphans = Buffered /\ Cardinality(orphans) <= Capacity

(* The reverse map, the counters and the ledger agree: a buffered child is *)
(* listed under exactly its parents outside the ledger, an evicted or      *)
(* released one is listed nowhere, and the counter is the number of the    *)
(* lists, so that the last arrival, and no earlier one, releases it.       *)
Tracks(lists, count, present) ==
    /\ \A p \in Hash :
          lists[p] = {c \in DOMAIN count : p \in ParentSet(c) \ present}
    /\ \A c \in DOMAIN count : count[c] = Cardinality(ParentSet(c) \ present)

BufferTracks(present) == Tracks(lostParents, lostParentCount, present)
=============================================================================
