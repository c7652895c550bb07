----------------------------- MODULE DAGProofs ------------------------------
(***************************************************************************)
(* The invariant of the DAG, for every set of vertices, goroutines, and    *)
(* rounds, and every capacity of the buffer.  One lemma per action shows   *)
(* that it preserves InductiveInvariant; the theorems follow at the end.   *)
(***************************************************************************)
EXTENDS DAG, OrphanageProofs, SlasherProofs

Inv == InductiveInvariant

(* The state that only the holder of DAG.mu changes.                       *)
lockedVars == <<vertices, roundIndex, mu, worklist, affectedRounds, orphanageVars>>

(* An action that leaves that state alone keeps the conjuncts about it.    *)
LEMMA LockedStateKept ==
    ASSUME Inv, UNCHANGED lockedVars
    PROVE  /\ OrphanageTypeOK' /\ CausalClosure' /\ BufferAgrees' /\ WorklistFresh'
           /\ IndexTracks' /\ Stored' = Stored
<1>1. /\ vertices' = vertices /\ roundIndex' = roundIndex /\ mu' = mu
      /\ worklist' = worklist /\ affectedRounds' = affectedRounds
      /\ lostParents' = lostParents /\ lostParentCount' = lostParentCount
      /\ orphans' = orphans
  BY DEF lockedVars, orphanageVars
<1>2. OrphanageTypeOK'
  BY <1>1 DEF Inv, InductiveInvariant, DAGTypeOK, OrphanageTypeOK, Buffered
<1>3. CausalClosure'
  BY <1>1 DEF Inv, InductiveInvariant, CausalClosure
<1>4. BufferAgrees'
  BY <1>1 DEF Inv, InductiveInvariant, BufferAgrees, BufferSync, BufferTracks,
              Buffered
<1>5. WorklistFresh'
  BY <1>1 DEF Inv, InductiveInvariant, WorklistFresh
<1>6. IndexTracks'
  BY <1>1 DEF Inv, InductiveInvariant, IndexTracks, InRound
<1>7. Stored' = Stored
  BY <1>1 DEF Stored
<1> QED  BY <1>2, <1>3, <1>4, <1>5, <1>6, <1>7

PCs == {"idle", "screen", "lock", "cascade", "sync"}

(* What leaving AddVertex does to the calls under way.                     *)
LEMMA ReturnEffect ==
    ASSUME DAGTypeOK, NEW t \in Threads, Return(t)
    PROVE  /\ pc' \in [Threads -> PCs] /\ call' \in [Threads -> Call \cup {NoCall}]
           /\ pc'[t] = "idle"
           /\ \A u \in Threads \ {t} : pc'[u] = pc[u] /\ call'[u] = call[u]
BY DEF DAGTypeOK, Return, PCs

(* What moving on inside AddVertex does to them.                           *)
LEMMA GoToEffect ==
    ASSUME DAGTypeOK, NEW t \in Threads, NEW label \in PCs, GoTo(t, label)
    PROVE  /\ pc' \in [Threads -> PCs] /\ call' \in [Threads -> Call \cup {NoCall}]
           /\ pc'[t] = label /\ call' = call
           /\ \A u \in Threads \ {t} : pc'[u] = pc[u]
BY DEF DAGTypeOK, GoTo, PCs

(* A return on the spot, of a call that holds no lock and owes no sync     *)
(* request, keeps the conjuncts about calls, provided its vertex is stored *)
(* or was altered or malformed.                                            *)
LEMMA ReturnKept ==
    ASSUME Inv, NEW t \in Threads, pc[t] \in {"screen", "lock"}, Return(t),
           UNCHANGED <<received, requested>>, UNCHANGED lockedVars,
           \/ call[t].vtx \in vertices
           \/ ~call[t].intact
           \/ ~WellFormed(call[t].vtx)
    PROVE  /\ LockDiscipline' /\ CallsScreened' /\ StoredScreened'
           /\ NothingDropped' /\ SyncCoverage'
<1>1. /\ pc'[t] = "idle"
      /\ \A u \in Threads \ {t} : pc'[u] = pc[u] /\ call'[u] = call[u]
  BY ReturnEffect DEF Inv, InductiveInvariant
<1>2. /\ mu' = mu /\ worklist' = worklist /\ affectedRounds' = affectedRounds
      /\ vertices' = vertices /\ orphans' = orphans /\ Stored' = Stored
      /\ received' = received /\ requested' = requested
  BY LockedStateKept DEF lockedVars, orphanageVars
<1>3. LockDiscipline'
  BY <1>1, <1>2 DEF Inv, InductiveInvariant, LockDiscipline
<1>4. CallsScreened'
  BY <1>1, <1>2 DEF Inv, InductiveInvariant, CallsScreened
<1>5. StoredScreened'
  BY <1>2 DEF Inv, InductiveInvariant, StoredScreened
<1>6. NothingDropped'
  <2> SUFFICES ASSUME Cardinality(Hash) <= Capacity, NEW g \in received,
                      WellFormed(g), g \notin Stored
               PROVE  Carried(g)'
    BY <1>2 DEF NothingDropped
  <2>1. PICK u \in Threads : /\ pc[u] \in {"screen", "lock"}
                             /\ call[u].intact /\ call[u].vtx = g
    BY DEF Inv, InductiveInvariant, NothingDropped, Carried
  <2>2. u # t
    BY <2>1 DEF Stored
  <2> QED  BY <2>1, <2>2, <1>1 DEF Carried
<1>7. SyncCoverage'
  <2>1. {u \in Threads : pc'[u] = "sync"} = {u \in Threads : pc[u] = "sync"}
        /\ \A u \in Threads : pc[u] = "sync" => call'[u] = call[u]
    BY <1>1
  <2>2. UNION {call'[u].missing : u \in {w \in Threads : pc'[w] = "sync"}}
          = UNION {call[u].missing : u \in {w \in Threads : pc[w] = "sync"}}
    BY <2>1
  <2> QED  BY <2>2, <1>2 DEF Inv, InductiveInvariant, SyncCoverage
<1> QED  BY <1>3, <1>4, <1>5, <1>6, <1>7

(* NewDAG.                                                                 *)
LEMMA InitInv == Init => Inv
<1> SUFFICES ASSUME Init PROVE Inv
  OBVIOUS
<1>1. /\ lostParents = [p \in Hash |-> {}] /\ lostParentCount = [h \in {} |-> 0]
      /\ orphans = {} /\ Buffered = {} /\ vertices = {} /\ received = {}
      /\ roundIndex = [r \in Rounds |-> << >>] /\ mu = NoThread
      /\ pc = [t \in Threads |-> "idle"] /\ call = [t \in Threads |-> NoCall]
      /\ worklist = << >> /\ affectedRounds = {} /\ requested = {}
  BY DEF Init, NewOrphanage, Buffered
<1>2. Range(<< >>) = {} /\ IsInjective(<< >>)
  BY DEF Range, IsInjective
<1>3. DAGTypeOK
  <2>1. OrphanageTypeOK
    BY <1>1 DEF OrphanageTypeOK
  <2>2. SlasherTypeOK
    BY SlasherInitInv DEF Init, SlasherInv
  <2> QED  BY <1>1, <2>1, <2>2 DEF DAGTypeOK
<1>4. CausalClosure /\ WorklistFresh /\ LockDiscipline /\ CallsScreened
  BY <1>1, <1>2, DAGAssumption
     DEF CausalClosure, CausallyClosed, WorklistFresh, LockDiscipline, CallsScreened
<1>5. BufferAgrees
  BY <1>1, FS_EmptySet, OrphanageAssumption
     DEF BufferAgrees, BufferSync, BufferTracks, Tracks
<1>6. StoredScreened /\ NothingDropped /\ SyncCoverage
  BY <1>1, <1>2 DEF StoredScreened, Stored, NothingDropped, SyncCoverage
<1>7. IndexTracks
  <2> SUFFICES ASSUME NEW r \in Rounds
               PROVE  /\ IsInjective(roundIndex[r])
                      /\ Range(roundIndex[r]) = InRound(r)
                      /\ roundIndex[r] = SortVertices(InRound(r))
    BY DEF IndexTracks
  <2>1. roundIndex[r] = << >> /\ InRound(r) = {}
    BY <1>1 DEF InRound
  <2>2. SortVertices({}) = << >>
    BY FS_EmptySet DEF SortVertices, Ascending
  <2> QED  BY <2>1, <2>2, <1>2
<1> QED  BY <1>3, <1>4, <1>5, <1>6, <1>7 DEF Inv, InductiveInvariant

(* The optimistic lookup.                                                  *)
LEMMA LookupInv ==
    ASSUME Inv, NEW t \in Threads, NEW h \in Hash, NEW intact \in BOOLEAN,
           Lookup(t, h, intact)
    PROVE  Inv'
<1>1. /\ pc[t] = "idle" /\ mu = NoThread
      /\ received' = IF intact THEN received \cup {h} ELSE received
      /\ UNCHANGED <<requested, slasherVars>> /\ UNCHANGED lockedVars
  BY DEF Lookup, ledgerState, lockedVars
<1>2. \/ h \in vertices /\ UNCHANGED <<pc, call>>
      \/ /\ pc' = [pc EXCEPT ![t] = "screen"]
         /\ call' = [call EXCEPT ![t] =
               [vtx |-> h, intact |-> intact, missing |-> {}]]
  BY DEF Lookup
<1>3. /\ vertices' = vertices /\ roundIndex' = roundIndex /\ mu' = mu
      /\ worklist' = worklist /\ affectedRounds' = affectedRounds
      /\ orphans' = orphans
  BY <1>1 DEF lockedVars, orphanageVars
<1>4. DAGTypeOK
  BY DEF Inv, InductiveInvariant
<1>5. /\ \A u \in Threads \ {t} : pc'[u] = pc[u] /\ call'[u] = call[u]
      /\ pc'[t] = "idle" \/ /\ pc'[t] = "screen" /\ call'[t] \in Call
                            /\ call'[t].vtx = h /\ call'[t].intact = intact
      /\ received \subseteq received' /\ received' \subseteq received \cup {h}
      /\ h \in vertices \/ pc'[t] = "screen"
  BY <1>1, <1>2, <1>4 DEF DAGTypeOK, Call
<1>6. DAGTypeOK'
  <2>1. OrphanageTypeOK'
    BY <1>1, LockedStateKept
  <2>2. SlasherTypeOK'
    BY <1>1, <1>4 DEF DAGTypeOK, SlasherTypeOK, slasherVars
  <2>3. /\ pc' \in [Threads -> {"idle", "screen", "lock", "cascade", "sync"}]
        /\ call' \in [Threads -> Call \cup {NoCall}]
    <3>1. [vtx |-> h, intact |-> intact, missing |-> {}] \in Call
      BY DEF Call
    <3>2. /\ pc \in [Threads -> {"idle", "screen", "lock", "cascade", "sync"}]
          /\ call \in [Threads -> Call \cup {NoCall}]
      BY <1>4 DEF DAGTypeOK
    <3> QED  BY <3>1, <3>2, <1>2
  <2>4. received' \subseteq Hash
    BY <1>1, <1>4 DEF DAGTypeOK
  <2> QED  BY <2>1, <2>2, <2>3, <2>4, <1>1, <1>3, <1>4 DEF DAGTypeOK
<1>7. LockDiscipline'
  BY <1>1, <1>3, <1>5 DEF Inv, InductiveInvariant, LockDiscipline
<1>8. CallsScreened'
  <2> SUFFICES ASSUME NEW u \in Threads, pc'[u] # "idle"
               PROVE  /\ call'[u] \in Call
                      /\ call'[u].intact => call'[u].vtx \in received'
                      /\ pc'[u] # "screen" =>
                            call'[u].intact /\ WellFormed(call'[u].vtx)
    BY DEF CallsScreened
  <2>1. CASE u = t
    BY <2>1, <1>1, <1>5
  <2>2. CASE u # t
    BY <2>2, <1>5 DEF Inv, InductiveInvariant, CallsScreened
  <2> QED  BY <2>1, <2>2
<1>9. StoredScreened'
  BY <1>1, <1>5, LockedStateKept DEF Inv, InductiveInvariant, StoredScreened
<1>10. NothingDropped'
  <2> SUFFICES ASSUME Cardinality(Hash) <= Capacity, NEW g \in received',
                      WellFormed(g)
               PROVE  g \in Stored' \/ Carried(g)'
    BY DEF NothingDropped
  <2>1. CASE g \in received
    <3>1. g \in Stored \/ Carried(g)
      BY <2>1 DEF Inv, InductiveInvariant, NothingDropped
    <3>2. Carried(g) => Carried(g)'
      BY <1>1, <1>5 DEF Carried
    <3> QED  BY <3>1, <3>2, <1>1, LockedStateKept
  <2>2. CASE g \notin received
    <3>1. g = h /\ intact
      BY <2>2, <1>1
    <3>2. CASE h \in vertices
      BY <3>1, <3>2, <1>1, LockedStateKept DEF Stored
    <3>3. CASE pc'[t] = "screen"
      BY <3>1, <3>3, <1>5 DEF Carried
    <3> QED  BY <3>2, <3>3, <1>5
  <2> QED  BY <2>1, <2>2
<1>11. SyncCoverage'
  <2>1. {u \in Threads : pc'[u] = "sync"} = {u \in Threads : pc[u] = "sync"}
    BY <1>1, <1>5
  <2>2. \A u \in Threads : pc[u] = "sync" => call'[u] = call[u]
    BY <1>1, <1>5
  <2>3. UNION {call'[u].missing : u \in {w \in Threads : pc'[w] = "sync"}}
          = UNION {call[u].missing : u \in {w \in Threads : pc[w] = "sync"}}
    BY <2>1, <2>2
  <2> QED  BY <2>3, <1>1, <1>3 DEF Inv, InductiveInvariant, SyncCoverage
<1> QED  BY <1>1, <1>6, <1>7, <1>8, <1>9, <1>10, <1>11, LockedStateKept
         DEF Inv, InductiveInvariant

(* The checks made without a lock.                                         *)
LEMMA ScreenInv ==
    ASSUME Inv, NEW t \in Threads, Screen(t)
    PROVE  Inv'
<1>1. /\ pc[t] = "screen" /\ UNCHANGED <<received, requested>>
      /\ UNCHANGED lockedVars
  BY DEF Screen, ledgerState, lockedVars
<1>2. DAGTypeOK /\ call[t] \in Call
  BY <1>1 DEF Inv, InductiveInvariant, CallsScreened
<1>3. SlasherTypeOK'
  <2>1. CASE UNCHANGED slasherVars
    BY <2>1, <1>2 DEF DAGTypeOK, SlasherTypeOK, slasherVars
  <2>2. CASE AddDemerit(Author[call[t].vtx], MalformedVertexPenalty, call[t].vtx)
    BY <2>2, <1>2, AddDemeritTyped DEF Call, DAGTypeOK
  <2> QED  BY <2>1, <2>2 DEF Screen
<1>4. ASSUME pc' \in [Threads -> PCs], call' \in [Threads -> Call \cup {NoCall}]
      PROVE  DAGTypeOK'
  BY <1>1, <1>2, <1>3, <1>4, LockedStateKept DEF DAGTypeOK, PCs, lockedVars
<1>5. CASE Return(t) /\ (~call[t].intact \/ ~WellFormed(call[t].vtx))
  BY <1>1, <1>2, <1>4, <1>5, LockedStateKept, ReturnEffect, ReturnKept
     DEF Inv, InductiveInvariant
<1>6. CASE GoTo(t, "lock") /\ call[t].intact /\ WellFormed(call[t].vtx)
  <2>1. /\ pc' \in [Threads -> PCs] /\ call' \in [Threads -> Call \cup {NoCall}]
        /\ pc'[t] = "lock" /\ call' = call
        /\ \A u \in Threads \ {t} : pc'[u] = pc[u]
    BY <1>2, <1>6, GoToEffect DEF PCs
  <2>2. /\ mu' = mu /\ worklist' = worklist /\ affectedRounds' = affectedRounds
        /\ vertices' = vertices /\ orphans' = orphans
        /\ received' = received /\ requested' = requested /\ Stored' = Stored
    BY <1>1, LockedStateKept DEF lockedVars, orphanageVars
  <2>3. LockDiscipline'
    BY <1>1, <2>1, <2>2 DEF Inv, InductiveInvariant, LockDiscipline
  <2>4. CallsScreened'
    BY <1>1, <1>6, <2>1, <2>2 DEF Inv, InductiveInvariant, CallsScreened
  <2>5. StoredScreened'
    BY <2>2 DEF Inv, InductiveInvariant, StoredScreened
  <2>6. NothingDropped'
    <3>1. \A g \in Hash : Carried(g) => Carried(g)'
      BY <1>1, <2>1 DEF Carried
    <3>2. received \subseteq Hash
      BY <1>2 DEF DAGTypeOK
    <3> QED  BY <3>1, <3>2, <2>2 DEF Inv, InductiveInvariant, NothingDropped
  <2>7. SyncCoverage'
    <3>1. {u \in Threads : pc'[u] = "sync"} = {u \in Threads : pc[u] = "sync"}
      BY <1>1, <2>1
    <3> QED  BY <3>1, <2>1, <2>2 DEF Inv, InductiveInvariant, SyncCoverage
  <2> QED  BY <2>1, <2>3, <2>4, <2>5, <2>6, <2>7, <1>1, <1>4, LockedStateKept
           DEF Inv, InductiveInvariant
<1> QED  BY <1>5, <1>6 DEF Screen

(* The double check under the lock finds the vertex.                       *)
LEMMA LockKnownInv ==
    ASSUME Inv, NEW t \in Threads, Lock(t), LockKnown(t)
    PROVE  Inv'
<1>1. /\ pc[t] = "lock" /\ call[t].vtx \in vertices /\ Return(t)
      /\ UNCHANGED <<received, requested, slasherVars>> /\ UNCHANGED lockedVars
  BY DEF Lock, LockKnown, ledgerState, lockedVars
<1>2. DAGTypeOK'
  <2>1. DAGTypeOK
    BY DEF Inv, InductiveInvariant
  <2>2. pc' \in [Threads -> PCs] /\ call' \in [Threads -> Call \cup {NoCall}]
    BY <2>1, <1>1, ReturnEffect
  <2> QED  BY <2>1, <2>2, <1>1, LockedStateKept
           DEF DAGTypeOK, PCs, lockedVars, SlasherTypeOK, slasherVars
<1> QED  BY <1>1, <1>2, LockedStateKept, ReturnKept DEF Inv, InductiveInvariant

(* The sync request, after the unlock.                                     *)
LEMMA StartSyncInv ==
    ASSUME Inv, NEW t \in Threads, StartSync(t)
    PROVE  Inv'
<1>1. /\ pc[t] = "sync" /\ requested' = requested \cup call[t].missing /\ Return(t)
      /\ UNCHANGED <<received, slasherVars>> /\ UNCHANGED lockedVars
  BY DEF StartSync, ledgerState, lockedVars
<1>2. DAGTypeOK /\ call[t] \in Call /\ call[t].missing \subseteq Hash
  BY <1>1 DEF Inv, InductiveInvariant, CallsScreened, Call
<1>3. /\ pc' \in [Threads -> PCs] /\ call' \in [Threads -> Call \cup {NoCall}]
      /\ pc'[t] = "idle"
      /\ \A u \in Threads \ {t} : pc'[u] = pc[u] /\ call'[u] = call[u]
  BY <1>1, <1>2, ReturnEffect
<1>4. /\ mu' = mu /\ worklist' = worklist /\ affectedRounds' = affectedRounds
      /\ vertices' = vertices /\ orphans' = orphans
      /\ received' = received /\ Stored' = Stored
  BY <1>1, LockedStateKept DEF lockedVars, orphanageVars
<1>5. DAGTypeOK'
  BY <1>1, <1>2, <1>3, LockedStateKept
     DEF DAGTypeOK, PCs, lockedVars, SlasherTypeOK, slasherVars
<1>6. LockDiscipline'
  BY <1>1, <1>3, <1>4 DEF Inv, InductiveInvariant, LockDiscipline
<1>7. CallsScreened'
  BY <1>3, <1>4 DEF Inv, InductiveInvariant, CallsScreened
<1>8. StoredScreened'
  BY <1>4 DEF Inv, InductiveInvariant, StoredScreened
<1>9. NothingDropped'
  <2>1. \A g \in Hash : Carried(g) => Carried(g)'
    BY <1>1, <1>3 DEF Carried
  <2>2. received \subseteq Hash
    BY <1>2 DEF DAGTypeOK
  <2> QED  BY <2>1, <2>2, <1>4 DEF Inv, InductiveInvariant, NothingDropped
<1>10. SyncCoverage'
  <2> SUFFICES ASSUME NEW c \in orphans, FarAhead(c),
                      NEW p \in ParentSet(c) \ vertices, p \notin requested'
               PROVE  \E u \in Threads : pc'[u] = "sync" /\ p \in call'[u].missing
    BY <1>4 DEF SyncCoverage, FarAhead
  <2>1. PICK u \in Threads : pc[u] = "sync" /\ p \in call[u].missing
    BY <1>1 DEF Inv, InductiveInvariant, SyncCoverage
  <2>2. u # t
    BY <2>1, <1>1
  <2> QED  BY <2>1, <2>2, <1>3
<1> QED  BY <1>1, <1>5, <1>6, <1>7, <1>8, <1>9, <1>10, LockedStateKept
         DEF Inv, InductiveInvariant

(* A vertex with missing ancestors goes to the buffer.                     *)
LEMMA LockOrphanInv ==
    ASSUME Inv, NEW t \in Threads, Lock(t), LockOrphan(t)
    PROVE  Inv'
<1> DEFINE h == call[t].vtx
           missing == ParentSet(h) \ vertices
<1>1. /\ pc[t] = "lock" /\ mu = NoThread /\ h \notin vertices /\ missing # {}
      /\ AddOrphan(h, missing)
      /\ UNCHANGED <<received, requested, slasherVars>>
      /\ vertices' = vertices /\ roundIndex' = roundIndex /\ mu' = mu
      /\ worklist' = worklist /\ affectedRounds' = affectedRounds
  BY DEF Lock, LockOrphan, ledgerState, GetMissingHashesLocked
<1>2. /\ DAGTypeOK /\ call[t] \in Call /\ h \in Hash /\ missing \subseteq Hash
      /\ WellFormed(h) /\ h \in received
      /\ worklist = << >> /\ Range(worklist) = {}
  <2>1. DAGTypeOK /\ call[t] \in Call /\ h \in Hash /\ WellFormed(h)
        /\ h \in received /\ worklist = << >>
    BY <1>1 DEF Inv, InductiveInvariant, CallsScreened, LockDiscipline, Call
  <2> QED  BY <2>1, ParentSetType DEF Range
<1>3. /\ OrphanageTypeOK' /\ BufferSync'
      /\ Tracks(lostParents', lostParentCount', vertices)
      /\ orphans' \subseteq orphans \cup {h}
      /\ Cardinality(orphans) < Capacity \/ h \in orphans => orphans' = orphans \cup {h}
  <2>1. OrphanageTypeOK /\ BufferSync /\ Tracks(lostParents, lostParentCount, vertices)
    BY DEF Inv, InductiveInvariant, DAGTypeOK, BufferAgrees, BufferTracks
  <2> QED  BY <2>1, <1>1, <1>2, AddOrphanPreserves
<1>4. \/ /\ FarAhead(h)
         /\ pc' = [pc EXCEPT ![t] = "sync"]
         /\ call' = [call EXCEPT ![t].missing = missing]
      \/ ~FarAhead(h) /\ Return(t)
  BY DEF LockOrphan, GetMissingHashesLocked
<1>5. /\ pc' \in [Threads -> PCs] /\ call' \in [Threads -> Call \cup {NoCall}]
      /\ \A u \in Threads \ {t} : pc'[u] = pc[u] /\ call'[u] = call[u]
      /\ \/ /\ pc'[t] = "sync" /\ call'[t] \in Call /\ call'[t].missing = missing
            /\ call'[t].vtx = h /\ call'[t].intact = call[t].intact
         \/ pc'[t] = "idle" /\ ~FarAhead(h)
  <2>1. CASE /\ pc' = [pc EXCEPT ![t] = "sync"]
             /\ call' = [call EXCEPT ![t].missing = missing]
    <3>1. [call[t] EXCEPT !.missing = missing] \in Call
      BY <1>2 DEF Call
    <3>2. call' = [call EXCEPT ![t] = [call[t] EXCEPT !.missing = missing]]
      BY <2>1
    <3>3. [call[t] EXCEPT !.missing = missing].missing = missing
          /\ [call[t] EXCEPT !.missing = missing].vtx = h
          /\ [call[t] EXCEPT !.missing = missing].intact = call[t].intact
      BY <1>2 DEF Call
    <3> HIDE DEF missing, h
    <3> QED  BY <2>1, <3>1, <3>2, <3>3, <1>2 DEF DAGTypeOK, PCs
  <2>2. CASE ~FarAhead(h) /\ Return(t)
    BY <2>2, <1>2, ReturnEffect
  <2> QED  BY <2>1, <2>2, <1>4
<1> HIDE DEF h, missing
<1>6. DAGTypeOK'
  BY <1>1, <1>2, <1>3, <1>5 DEF DAGTypeOK, PCs, SlasherTypeOK, slasherVars
<1>7. CausalClosure'
  BY <1>1 DEF Inv, InductiveInvariant, CausalClosure
<1>8. BufferAgrees'
  BY <1>1, <1>3 DEF Inv, InductiveInvariant, BufferAgrees, BufferTracks
<1>9. WorklistFresh'
  BY <1>1, <1>2 DEF Inv, InductiveInvariant, WorklistFresh
<1>10. LockDiscipline'
  BY <1>1, <1>5 DEF Inv, InductiveInvariant, LockDiscipline
<1>11. CallsScreened'
  <2> SUFFICES ASSUME NEW u \in Threads, pc'[u] # "idle"
               PROVE  /\ call'[u] \in Call
                      /\ call'[u].intact => call'[u].vtx \in received'
                      /\ pc'[u] # "screen" =>
                            call'[u].intact /\ WellFormed(call'[u].vtx)
    BY DEF CallsScreened
  <2>1. CASE u = t
    BY <2>1, <1>1, <1>2, <1>5 DEF Inv, InductiveInvariant, CallsScreened
  <2>2. CASE u # t
    BY <2>2, <1>1, <1>5 DEF Inv, InductiveInvariant, CallsScreened
  <2> QED  BY <2>1, <2>2
<1>12. StoredScreened'
  BY <1>1, <1>2, <1>3 DEF Inv, InductiveInvariant, StoredScreened, Stored
<1>13. NothingDropped'
  <2> SUFFICES ASSUME Cardinality(Hash) <= Capacity, NEW g \in received,
                      WellFormed(g)
               PROVE  g \in Stored' \/ Carried(g)'
    BY <1>1 DEF NothingDropped
  <2>1. orphans' = orphans \cup {h}
    <3>1. SUFFICES ASSUME h \notin orphans PROVE Cardinality(orphans) < Capacity
      BY <1>3
    <3>2. orphans \in SUBSET (Hash \ {h})
      BY <1>2, <3>1 DEF DAGTypeOK, OrphanageTypeOK
    <3>3. IsFiniteSet(Hash \ {h}) /\ Cardinality(Hash \ {h}) = Cardinality(Hash) - 1
      BY <1>2, VertexAssumption, FS_RemoveElement
    <3>4. Cardinality(orphans) <= Cardinality(Hash) - 1
      BY <3>2, <3>3, FS_Subset
    <3>5. Cardinality(Hash) \in Nat /\ Cardinality(orphans) \in Nat
      BY <3>2, <3>3, VertexAssumption, FS_CardinalityType, FS_Subset
    <3> QED  BY <3>4, <3>5, OrphanageAssumption
  <2>2. Stored' = Stored \cup {h}
    BY <2>1, <1>1 DEF Stored
  <2>3. g \in Stored \/ Carried(g)
    BY DEF Inv, InductiveInvariant, NothingDropped
  <2>4. ASSUME NEW u \in Threads, pc[u] \in {"screen", "lock"}, call[u].intact,
               call[u].vtx = g
        PROVE  g = h \/ Carried(g)'
    <3>1. CASE u = t
      BY <3>1, <2>4 DEF h
    <3>2. CASE u # t
      BY <3>2, <2>4, <1>5 DEF Carried
    <3> QED  BY <3>1, <3>2
  <2> QED  BY <2>2, <2>3, <2>4 DEF Carried
<1>14. IndexTracks'
  BY <1>1 DEF Inv, InductiveInvariant, IndexTracks, InRound
<1>15. SyncCoverage'
  <2> SUFFICES ASSUME NEW c \in orphans', FarAhead(c),
                      NEW p \in ParentSet(c) \ vertices, p \notin requested
               PROVE  \E u \in Threads : pc'[u] = "sync" /\ p \in call'[u].missing
    BY <1>1 DEF SyncCoverage, FarAhead
  <2>1. CASE c = h
    BY <2>1, <1>5 DEF missing
  <2>2. CASE c \in orphans
    <3>1. PICK u \in Threads : pc[u] = "sync" /\ p \in call[u].missing
      BY <2>2 DEF Inv, InductiveInvariant, SyncCoverage
    <3>2. u # t
      BY <3>1, <1>1
    <3> QED  BY <3>1, <3>2, <1>5
  <2> QED  BY <2>1, <2>2, <1>3
<1> QED  BY <1>6, <1>7, <1>8, <1>9, <1>10, <1>11, <1>12, <1>13, <1>14, <1>15
         DEF Inv, InductiveInvariant

(* A complete vertex takes the lock and starts the cascade.                *)
LEMMA LockInsertInv ==
    ASSUME Inv, NEW t \in Threads, Lock(t), LockInsert(t)
    PROVE  Inv'
<1> DEFINE h == call[t].vtx
<1>1. /\ pc[t] = "lock" /\ mu = NoThread /\ h \notin vertices
      /\ ParentSet(h) \subseteq vertices
      /\ mu' = t /\ worklist' = <<h>> /\ affectedRounds' = {}
      /\ GoTo(t, "cascade")
      /\ UNCHANGED <<received, requested, slasherVars>>
      /\ UNCHANGED <<vertices, roundIndex, orphanageVars>>
  BY DEF Lock, LockInsert, GetMissingHashesLocked
<1>2. /\ DAGTypeOK /\ call[t] \in Call /\ h \in Hash /\ WellFormed(h)
      /\ h \in received /\ worklist = << >> /\ affectedRounds = {}
  BY <1>1 DEF Inv, InductiveInvariant, CallsScreened, LockDiscipline, Call
<1>3. /\ pc' \in [Threads -> PCs] /\ call' \in [Threads -> Call \cup {NoCall}]
      /\ pc'[t] = "cascade" /\ call' = call
      /\ \A u \in Threads \ {t} : pc'[u] = pc[u]
  BY <1>1, <1>2, GoToEffect DEF PCs
<1> HIDE DEF h
<1>4. Range(<<h>>) = {h} /\ IsInjective(<<h>>) /\ <<h>> \in Seq(Hash)
  BY <1>2 DEF Range, IsInjective
<1>5. h \notin orphans
  <2> SUFFICES ASSUME h \in orphans PROVE FALSE
    OBVIOUS
  <2>1. h \in Buffered
    BY DEF Inv, InductiveInvariant, BufferAgrees, BufferSync
  <2>2. lostParentCount[h] = Cardinality(ParentSet(h) \ vertices)
    BY <2>1 DEF Inv, InductiveInvariant, BufferAgrees, BufferTracks, Tracks, Buffered
  <2>3. ParentSet(h) \ vertices = {}
    BY <1>1
  <2> QED  BY <2>1, <2>2, <2>3, <1>2, FS_EmptySet DEF DAGTypeOK, OrphanageTypeOK
<1>6. /\ vertices' = vertices /\ roundIndex' = roundIndex
      /\ received' = received /\ requested' = requested
      /\ lostParents' = lostParents /\ lostParentCount' = lostParentCount
      /\ orphans' = orphans /\ Range(worklist') = {h}
  BY <1>1, <1>4 DEF orphanageVars
<1>7. DAGTypeOK'
  <2>1. OrphanageTypeOK'
    BY <1>2, <1>6 DEF DAGTypeOK, OrphanageTypeOK, Buffered
  <2>2. SlasherTypeOK'
    BY <1>1, <1>2 DEF DAGTypeOK, SlasherTypeOK, slasherVars
  <2> QED  BY <2>1, <2>2, <1>1, <1>2, <1>3, <1>4, <1>6 DEF DAGTypeOK, PCs
<1>8. CausalClosure' /\ BufferAgrees'
  BY <1>6 DEF Inv, InductiveInvariant, CausalClosure, BufferAgrees, BufferSync,
              BufferTracks, Buffered
<1>9. WorklistFresh'
  BY <1>1, <1>4, <1>5, <1>6 DEF WorklistFresh
<1>10. LockDiscipline'
  BY <1>1, <1>3, DAGAssumption DEF Inv, InductiveInvariant, LockDiscipline
<1>11. CallsScreened'
  BY <1>1, <1>3, <1>6 DEF Inv, InductiveInvariant, CallsScreened
<1>12. Stored' = Stored \cup {h}
  BY <1>2, <1>6 DEF Stored, Range
<1>13. StoredScreened'
  BY <1>2, <1>6, <1>12 DEF Inv, InductiveInvariant, StoredScreened
<1>14. NothingDropped'
  <2> SUFFICES ASSUME Cardinality(Hash) <= Capacity, NEW g \in received,
                      WellFormed(g), g \notin Stored, g # h
               PROVE  Carried(g)'
    BY <1>6, <1>12 DEF NothingDropped
  <2>1. PICK u \in Threads : /\ pc[u] \in {"screen", "lock"}
                             /\ call[u].intact /\ call[u].vtx = g
    BY DEF Inv, InductiveInvariant, NothingDropped, Carried
  <2>2. u # t
    BY <2>1 DEF h
  <2> QED  BY <2>1, <2>2, <1>3 DEF Carried
<1>15. IndexTracks'
  BY <1>1, <1>2, <1>6 DEF Inv, InductiveInvariant, IndexTracks, InRound
<1>16. SyncCoverage'
  <2>1. {u \in Threads : pc'[u] = "sync"} = {u \in Threads : pc[u] = "sync"}
    BY <1>1, <1>3
  <2> QED  BY <2>1, <1>3, <1>6 DEF Inv, InductiveInvariant, SyncCoverage
<1> QED  BY <1>7, <1>8, <1>9, <1>10, <1>11, <1>13, <1>14, <1>15, <1>16
         DEF Inv, InductiveInvariant

(* One round of the cascade.  The head of the worklist is new, so the      *)
(* branch of the code that skips a known vertex is not taken.              *)
LEMMA CascadeInv ==
    ASSUME Inv, NEW t \in Threads, Cascade(t)
    PROVE  Inv'
<1> DEFINE h == Head(worklist)
           ready == Ready(h)
           sorted == SortVertices(ready)
<1>1. /\ pc[t] = "cascade" /\ worklist # << >>
      /\ UNCHANGED <<mu, pc, call, received, requested, slasherVars>>
  BY DEF Cascade
<1>2. /\ DAGTypeOK /\ OrphanageTypeOK /\ BufferSync /\ worklist \in Seq(Hash)
      /\ Tracks(lostParents, lostParentCount, vertices)
      /\ IsInjective(worklist) /\ Range(worklist) \cap (vertices \cup orphans) = {}
      /\ \A g \in Range(worklist) : ParentSet(g) \subseteq vertices
  BY DEF Inv, InductiveInvariant, DAGTypeOK, BufferAgrees, BufferTracks,
         WorklistFresh
<1>3. /\ h \in Hash /\ Range(worklist) = {h} \cup Range(Tail(worklist))
      /\ h \notin Range(Tail(worklist)) /\ h \in Range(worklist)
      /\ Tail(worklist) \in Seq(Hash)
  <2>1. << >> \in Seq(Hash)
    OBVIOUS
  <2> QED  BY <1>1, <1>2, <2>1, TailConcat
<1>4. /\ h \notin vertices /\ h \notin orphans /\ ParentSet(h) \subseteq vertices
      /\ WellFormed(h) /\ h \in received
  BY <1>2, <1>3 DEF Inv, InductiveInvariant, StoredScreened, Stored
<1>5. /\ vertices' = vertices \cup {h}
      /\ roundIndex' = [roundIndex EXCEPT ![Round[h]] = Append(@, h)]
      /\ affectedRounds' = affectedRounds \cup {Round[h]}
      /\ OnParentArrival(h)
      /\ worklist' = Tail(worklist) \o sorted
  BY <1>4 DEF Cascade
<1> HIDE DEF h
<1>6. /\ OrphanageTypeOK' /\ BufferSync'
      /\ Tracks(lostParents', lostParentCount', vertices')
      /\ orphans' = orphans \ ready /\ ready \subseteq orphans
      /\ \A c \in ready : ParentSet(c) \subseteq vertices'
  BY <1>2, <1>3, <1>4, <1>5, OnParentArrivalPreserves
<1> HIDE DEF ready
<1>7. /\ ready \subseteq Hash /\ sorted \in Seq(Hash) /\ Range(sorted) = ready
      /\ IsInjective(sorted)
  <2>1. ready \in SUBSET Nat /\ ready \subseteq Hash /\ IsFiniteSet(ready)
    BY <1>2, <1>6, VertexAssumption, FS_Subset DEF OrphanageTypeOK
  <2>2. /\ sorted \in Seq(ready) /\ Range(sorted) = ready /\ IsInjective(sorted)
    BY <2>1, SortVerticesInjective
  <2> HIDE DEF sorted
  <2>3. sorted \in Seq(Hash)
    BY <2>1, <2>2, SeqMonotonic
  <2> QED  BY <2>1, <2>2, <2>3
<1> HIDE DEF sorted
<1>8. /\ worklist' \in Seq(Hash) /\ IsInjective(worklist')
      /\ Range(worklist') = Range(Tail(worklist)) \cup ready
  <2>1. Range(worklist) \cap Range(sorted) = {}
    BY <1>2, <1>6, <1>7
  <2> QED  BY <2>1, <1>1, <1>2, <1>5, <1>7, TailConcat
<1>9. /\ Round[h] \in Rounds /\ roundIndex \in [Rounds -> Seq(Hash)]
      /\ \A r \in Rounds : roundIndex'[r] =
            IF r = Round[h] THEN Append(roundIndex[r], h) ELSE roundIndex[r]
      /\ roundIndex' \in [Rounds -> Seq(Hash)]
  <2>1. Round[h] \in Rounds
    BY <1>3, VertexAssumption DEF Rounds, Range
  <2>2. roundIndex \in [Rounds -> Seq(Hash)]
    BY <1>2 DEF DAGTypeOK
  <2>3. Append(roundIndex[Round[h]], h) \in Seq(Hash)
    BY <2>1, <2>2, <1>3
  <2> QED  BY <2>1, <2>2, <2>3, <1>5
<1>10. DAGTypeOK'
  <2>1. SlasherTypeOK'
    BY <1>1, <1>2 DEF DAGTypeOK, SlasherTypeOK, slasherVars
  <2> QED  BY <2>1, <1>1, <1>2, <1>3, <1>5, <1>6, <1>8, <1>9 DEF DAGTypeOK
<1>11. CausalClosure'
  BY <1>4, <1>5 DEF Inv, InductiveInvariant, CausalClosure, CausallyClosed
<1>12. BufferAgrees'
  <2>1. orphans' \cap vertices' = {}
    BY <1>4, <1>5, <1>6 DEF Inv, InductiveInvariant, BufferAgrees
  <2> QED  BY <2>1, <1>6 DEF BufferAgrees, BufferTracks
<1>13. WorklistFresh'
  <2>1. Range(worklist') \cap (vertices' \cup orphans') = {}
    <3>1. ready \cap vertices = {} /\ h \notin ready
      BY <1>4, <1>6 DEF Inv, InductiveInvariant, BufferAgrees
    <3> QED  BY <3>1, <1>2, <1>3, <1>5, <1>6, <1>8
  <2>2. \A g \in Range(worklist') : ParentSet(g) \subseteq vertices'
    BY <1>2, <1>3, <1>5, <1>6, <1>8
  <2> QED  BY <2>1, <2>2, <1>8 DEF WorklistFresh
<1>14. LockDiscipline'
  BY <1>1, DAGAssumption DEF Inv, InductiveInvariant, LockDiscipline
<1>15. CallsScreened'
  BY <1>1 DEF Inv, InductiveInvariant, CallsScreened
<1>16. Stored' = Stored
  BY <1>3, <1>5, <1>6, <1>8 DEF Stored
<1>17. StoredScreened' /\ NothingDropped'
  BY <1>1, <1>16 DEF Inv, InductiveInvariant, StoredScreened, NothingDropped, Carried
<1>18. IndexTracks'
  <2> SUFFICES ASSUME NEW r \in Rounds
               PROVE  /\ IsInjective(roundIndex'[r])
                      /\ Range(roundIndex'[r]) = InRound(r)'
                      /\ r \notin affectedRounds' =>
                            roundIndex'[r] = SortVertices(InRound(r)')
    BY DEF IndexTracks
  <2>1. /\ IsInjective(roundIndex[r]) /\ Range(roundIndex[r]) = InRound(r)
        /\ r \notin affectedRounds => roundIndex[r] = SortVertices(InRound(r))
    BY DEF Inv, InductiveInvariant, IndexTracks
  <2>2. CASE r = Round[h]
    <3>1. h \notin Range(roundIndex[r])
      BY <2>1, <1>4 DEF InRound
    <3>2. roundIndex'[r] = Append(roundIndex[r], h) /\ roundIndex[r] \in Seq(Hash)
      BY <2>2, <1>9
    <3>3. /\ IsInjective(roundIndex'[r])
          /\ Range(roundIndex'[r]) = Range(roundIndex[r]) \cup {h}
      BY <3>1, <3>2, <2>1, <1>3, AppendNew
    <3>4. InRound(r)' = InRound(r) \cup {h}
      BY <2>2, <1>5 DEF InRound
    <3> QED  BY <3>3, <3>4, <2>1, <2>2, <1>5
  <2>3. CASE r # Round[h]
    <3>1. InRound(r)' = InRound(r)
      BY <2>3, <1>5 DEF InRound
    <3> QED  BY <3>1, <2>1, <2>3, <1>5, <1>9
  <2> QED  BY <2>2, <2>3
<1>19. SyncCoverage'
  BY <1>1, <1>5, <1>6 DEF Inv, InductiveInvariant, SyncCoverage, FarAhead
<1> QED  BY <1>10, <1>11, <1>12, <1>13, <1>14, <1>15, <1>17, <1>18, <1>19
         DEF Inv, InductiveInvariant

(* The end of the cascade: the touched rounds are sorted, the lock freed.  *)
LEMMA NormalizeInv ==
    ASSUME Inv, NEW t \in Threads, Normalize(t)
    PROVE  Inv'
<1>1. /\ pc[t] = "cascade" /\ worklist = << >> /\ affectedRounds' = {}
      /\ mu' = NoThread /\ Return(t)
      /\ vertices' = vertices /\ worklist' = worklist /\ received' = received
      /\ requested' = requested
      /\ UNCHANGED orphanageVars /\ UNCHANGED slasherVars
      /\ roundIndex' = [r \in Rounds |->
            IF r \in affectedRounds THEN SortHashes(roundIndex[r])
                                    ELSE roundIndex[r]]
  BY DEF Normalize
<1>2. DAGTypeOK /\ mu = t
  BY <1>1 DEF Inv, InductiveInvariant, LockDiscipline
<1>3. /\ pc' \in [Threads -> PCs] /\ call' \in [Threads -> Call \cup {NoCall}]
      /\ pc'[t] = "idle"
      /\ \A u \in Threads \ {t} : pc'[u] = pc[u] /\ call'[u] = call[u]
  BY <1>1, <1>2, ReturnEffect
<1>4. /\ lostParents' = lostParents /\ lostParentCount' = lostParentCount
      /\ orphans' = orphans
  BY <1>1 DEF orphanageVars
<1>5. \A r \in Rounds :
         /\ roundIndex'[r] \in Seq(Hash)
         /\ roundIndex'[r] = SortVertices(InRound(r))
         /\ IsInjective(roundIndex'[r]) /\ Range(roundIndex'[r]) = InRound(r)
  <2> TAKE r \in Rounds
  <2>1. /\ roundIndex[r] \in Seq(Hash) /\ roundIndex[r] \in Seq(Nat)
        /\ IsInjective(roundIndex[r]) /\ Range(roundIndex[r]) = InRound(r)
        /\ r \notin affectedRounds => roundIndex[r] = SortVertices(InRound(r))
    <3>1. roundIndex[r] \in Seq(Hash)
      BY <1>2 DEF DAGTypeOK
    <3>2. roundIndex[r] \in Seq(Nat)
      <4>1. Hash \subseteq Nat
        BY VertexAssumption
      <4> QED  BY <3>1, <4>1, SeqMonotonic
    <3> QED  BY <3>1, <3>2 DEF Inv, InductiveInvariant, IndexTracks
  <2>2. CASE r \notin affectedRounds
    BY <2>1, <2>2, <1>1
  <2>3. CASE r \in affectedRounds
    <3>1. roundIndex'[r] = SortHashes(roundIndex[r])
      BY <2>3, <1>1
    <3>2. SortHashes(roundIndex[r]) = SortVertices(InRound(r))
      BY <2>1, SortHashesIsCanonical
    <3>3. InRound(r) \in SUBSET Nat /\ InRound(r) \subseteq Hash
          /\ IsFiniteSet(InRound(r))
      BY <1>2, VertexAssumption, FS_Subset DEF InRound, DAGTypeOK
    <3>4. /\ SortVertices(InRound(r)) \in Seq(InRound(r))
          /\ Range(SortVertices(InRound(r))) = InRound(r)
          /\ IsInjective(SortVertices(InRound(r)))
      BY <3>3, SortVerticesInjective
    <3>5. SortVertices(InRound(r)) \in Seq(Hash)
      BY <3>3, <3>4, SeqMonotonic
    <3> QED  BY <3>1, <3>2, <3>4, <3>5
  <2> QED  BY <2>2, <2>3
<1>6. DAGTypeOK'
  <2>1. OrphanageTypeOK'
    BY <1>2, <1>4 DEF DAGTypeOK, OrphanageTypeOK, Buffered
  <2>2. SlasherTypeOK'
    BY <1>1, <1>2 DEF DAGTypeOK, SlasherTypeOK, slasherVars
  <2>3. roundIndex' \in [Rounds -> Seq(Hash)]
    BY <1>1, <1>5
  <2> QED  BY <2>1, <2>2, <2>3, <1>1, <1>2, <1>3, <1>4 DEF DAGTypeOK, PCs
<1>7. /\ CausalClosure' /\ BufferAgrees' /\ WorklistFresh' /\ Stored' = Stored
      /\ StoredScreened'
  BY <1>1, <1>4 DEF Inv, InductiveInvariant, CausalClosure, BufferAgrees,
     BufferSync, BufferTracks, Buffered, WorklistFresh, Stored, StoredScreened
<1>8. LockDiscipline'
  BY <1>1, <1>2, <1>3, DAGAssumption DEF Inv, InductiveInvariant, LockDiscipline
<1>9. CallsScreened'
  BY <1>1, <1>3 DEF Inv, InductiveInvariant, CallsScreened
<1>10. NothingDropped'
  <2>1. \A g \in Hash : Carried(g) => Carried(g)'
    BY <1>1, <1>3 DEF Carried
  <2>2. received \subseteq Hash
    BY <1>2 DEF DAGTypeOK
  <2> QED  BY <2>1, <2>2, <1>1, <1>7 DEF Inv, InductiveInvariant, NothingDropped
<1>11. IndexTracks'
  <2>1. \A r \in Rounds : InRound(r)' = InRound(r)
    BY <1>1 DEF InRound
  <2> QED  BY <2>1, <1>5 DEF IndexTracks
<1>12. SyncCoverage'
  <2> SUFFICES ASSUME NEW c \in orphans, FarAhead(c),
                      NEW p \in ParentSet(c) \ vertices, p \notin requested
               PROVE  \E u \in Threads : pc'[u] = "sync" /\ p \in call'[u].missing
    BY <1>1, <1>4 DEF SyncCoverage, FarAhead
  <2>1. PICK u \in Threads : pc[u] = "sync" /\ p \in call[u].missing
    BY DEF Inv, InductiveInvariant, SyncCoverage
  <2>2. u # t
    BY <2>1, <1>1
  <2> QED  BY <2>1, <2>2, <1>3
<1> QED  BY <1>6, <1>7, <1>8, <1>9, <1>10, <1>11, <1>12
         DEF Inv, InductiveInvariant

(* Every step preserves the invariant.                                     *)
LEMMA NextInv == Inv /\ [Next]_vars => Inv'
<1> SUFFICES ASSUME Inv, [Next]_vars PROVE Inv'
  OBVIOUS
<1>1. CASE UNCHANGED vars
  <2>1. /\ UNCHANGED <<pc, call, received, requested, slasherVars>>
        /\ UNCHANGED lockedVars
    BY <1>1 DEF vars, dagVars, ledgerState, lockedVars
  <2>2. DAGTypeOK'
    BY <2>1, LockedStateKept DEF Inv, InductiveInvariant, DAGTypeOK, lockedVars,
       SlasherTypeOK, slasherVars
  <2>3. /\ LockDiscipline' /\ CallsScreened' /\ StoredScreened'
        /\ NothingDropped' /\ SyncCoverage'
    BY <2>1, LockedStateKept DEF Inv, InductiveInvariant, lockedVars, orphanageVars,
       LockDiscipline, CallsScreened, StoredScreened, NothingDropped, Carried,
       SyncCoverage
  <2> QED  BY <2>1, <2>2, <2>3, LockedStateKept DEF Inv, InductiveInvariant
<1>2. CASE \E h \in Hash, intact \in BOOLEAN : Receive(h, intact)
  BY <1>2, LookupInv DEF Receive
<1>3. CASE \E t \in Threads : Step(t)
  <2>1. PICK t \in Threads : Step(t)
    BY <1>3
  <2>2. CASE Screen(t)
    BY <2>2, ScreenInv
  <2>3. CASE Lock(t)
    BY <2>3, LockKnownInv, LockOrphanInv, LockInsertInv DEF Lock
  <2>4. CASE Cascade(t)
    BY <2>4, CascadeInv
  <2>5. CASE Normalize(t)
    BY <2>5, NormalizeInv
  <2>6. CASE StartSync(t)
    BY <2>6, StartSyncInv
  <2> QED  BY <2>1, <2>2, <2>3, <2>4, <2>5, <2>6 DEF Step
<1> QED  BY <1>1, <1>2, <1>3 DEF Next

(***************************************************************************)
(* The theorems.                                                           *)
(***************************************************************************)
(* The invariant holds in every reachable state, for any number of         *)
(* goroutines, any set of vertices and any capacity.                       *)
THEOREM DAGInvariant == Spec => []InductiveInvariant
BY InitInv, NextInv, PTL DEF Spec, Inv

(* Types.                                                                  *)
THEOREM DAGTyped == Spec => []DAGTypeOK
BY DAGInvariant, PTL DEF InductiveInvariant

(* No reader of DAG.Vertices ever sees a vertex without its parents, in    *)
(* the middle of a cascade neither (dag.go:98).                            *)
THEOREM CausallyComplete == Spec => []CausalClosure
BY DAGInvariant, PTL DEF InductiveInvariant

(* The three maps of the Orphanage and the ledger agree at every step, and *)
(* the buffer never holds more than its capacity (orphanage.go:8).         *)
THEOREM BufferInStep == Spec => []BufferAgrees
BY DAGInvariant, PTL DEF InductiveInvariant

(* The cascade never meets a vertex twice (dag.go:150-152 is dead code).   *)
THEOREM CascadeVisitsOnce == Spec => []WorklistFresh
BY DAGInvariant, PTL DEF InductiveInvariant

(* No far-ahead orphan waits for a parent nobody asks for                  *)
(* (dag.go:117-124).                                                       *)
THEOREM SyncAlwaysCovers == Spec => []SyncCoverage
BY DAGInvariant, PTL DEF InductiveInvariant

(* Whenever the lock is free, a round lists its vertices once each in the  *)
(* order of their hashes (dag.go:139-141): no round is left unsorted, and  *)
(* the filter of GetVerticesByRound finds nothing to drop.                 *)
THEOREM IndexAlwaysCanonical == Spec => []CanonicalIndex
<1>1. ASSUME Inv, mu = NoThread, NEW r \in Rounds
      PROVE  GetVerticesByRound(r) = SortVertices(InRound(r))
  <2>1. /\ roundIndex[r] \in Seq(Hash) /\ Range(roundIndex[r]) = InRound(r)
        /\ r \notin affectedRounds => roundIndex[r] = SortVertices(InRound(r))
    BY <1>1 DEF Inv, InductiveInvariant, DAGTypeOK, IndexTracks
  <2>2. affectedRounds = {}
    BY <1>1 DEF Inv, InductiveInvariant, LockDiscipline
  <2>3. Range(roundIndex[r]) \subseteq vertices
    BY <2>1 DEF InRound
  <2>4. Keep(roundIndex[r], vertices) = roundIndex[r]
    BY <2>1, <2>3, KeepSelects
  <2> QED  BY <2>1, <2>2, <2>4 DEF GetVerticesByRound
<1>2. Inv => CanonicalIndex
  BY <1>1 DEF CanonicalIndex
<1> QED  BY <1>2, DAGInvariant, PTL DEF Inv

(***************************************************************************)
(* The steps a call has before it (dag.go:146-170).                        *)
(***************************************************************************)
LEMMA LeftToInsert ==
    ASSUME NEW S \in SUBSET Hash, NEW T \in SUBSET Hash, S \subseteq T
    PROVE  /\ Cardinality(Hash) \in Nat /\ Cardinality(Hash \ S) \in Nat
           /\ Cardinality(Hash \ T) \in Nat
           /\ Cardinality(Hash \ S) <= Cardinality(Hash)
           /\ Cardinality(Hash \ T) <= Cardinality(Hash \ S)
           /\ \A h \in Hash \ S :
                  T = S \cup {h} => Cardinality(Hash \ T) < Cardinality(Hash \ S)
<1>1. IsFiniteSet(Hash)
  BY VertexAssumption
<1>2. /\ IsFiniteSet(Hash \ S) /\ Cardinality(Hash \ S) <= Cardinality(Hash)
  BY <1>1, FS_Subset
<1>3. /\ IsFiniteSet(Hash \ T) /\ Cardinality(Hash \ T) <= Cardinality(Hash \ S)
  BY <1>2, FS_Subset
<1>4. /\ Cardinality(Hash) \in Nat /\ Cardinality(Hash \ S) \in Nat
      /\ Cardinality(Hash \ T) \in Nat
  BY <1>1, <1>2, <1>3, FS_CardinalityType
<1>5. ASSUME NEW h \in Hash \ S, T = S \cup {h}
      PROVE  Cardinality(Hash \ T) < Cardinality(Hash \ S)
  <2>1. Hash \ T = (Hash \ S) \ {h}
    BY <1>5
  <2>2. Cardinality((Hash \ S) \ {h}) = Cardinality(Hash \ S) - 1
    BY <1>2, FS_RemoveElement
  <2> QED  BY <1>4, <2>1, <2>2
<1> QED  BY <1>2, <1>3, <1>4, <1>5

LEMMA OwnStepAdvances ==
    ASSUME Inv, NEW t \in Threads, Step(t)
    PROVE  StepsLeft(t)' < StepsLeft(t)
<1>1. /\ pc \in [Threads -> {"idle", "screen", "lock", "cascade", "sync"}]
      /\ vertices \subseteq Hash /\ worklist \in Seq(Hash)
  BY DEF Inv, InductiveInvariant, DAGTypeOK
<1>2. /\ Cardinality(Hash) \in Nat /\ Cardinality(Hash \ vertices) \in Nat
      /\ Cardinality(Hash \ vertices) <= Cardinality(Hash)
  BY <1>1, LeftToInsert
<1>3. CASE Screen(t)
  <2>1. pc[t] = "screen" /\ pc'[t] \in {"idle", "lock"}
    BY <1>1, <1>3 DEF Screen, Return, GoTo
  <2> QED  BY <1>2, <2>1 DEF StepsLeft
<1>4. CASE Lock(t)
  <2>1. pc[t] = "lock" /\ pc'[t] \in {"idle", "sync", "cascade"} /\ vertices' = vertices
    BY <1>1, <1>4
       DEF Lock, LockKnown, LockOrphan, LockInsert, Return, GoTo, ledgerState
  <2> QED  BY <1>2, <2>1 DEF StepsLeft
<1>5. CASE Cascade(t)
  <2>1. Head(worklist) \in Hash /\ Head(worklist) \in Range(worklist)
    BY <1>1, <1>5, TailConcat DEF Cascade
  <2>2. Head(worklist) \notin vertices
    BY <2>1 DEF Inv, InductiveInvariant, WorklistFresh
  <2>3. /\ pc[t] = "cascade" /\ pc'[t] = "cascade"
        /\ vertices' = vertices \cup {Head(worklist)}
    BY <1>5, <2>2 DEF Cascade
  <2>4. Cardinality(Hash \ vertices') \in Nat
        /\ Cardinality(Hash \ vertices') < Cardinality(Hash \ vertices)
    <3>1. PICK h \in Hash \ vertices : vertices' = vertices \cup {h}
      BY <2>1, <2>2, <2>3
    <3>2. vertices' \in SUBSET Hash /\ vertices \subseteq vertices'
      BY <1>1, <3>1
    <3> QED  BY <1>1, <3>1, <3>2, LeftToInsert
  <2> QED  BY <1>2, <2>3, <2>4 DEF StepsLeft
<1>6. CASE Normalize(t) \/ StartSync(t)
  <2>1. pc[t] \in {"cascade", "sync"} /\ pc'[t] = "idle"
    BY <1>1, <1>6 DEF Normalize, StartSync, Return
  <2> QED  BY <1>2, <2>1 DEF StepsLeft
<1> QED  BY <1>3, <1>4, <1>5, <1>6 DEF Step

LEMMA OthersDoNotDelay ==
    ASSUME Inv, Inv', NEW t \in Threads, pc'[t] = pc[t], vertices \subseteq vertices'
    PROVE  StepsLeft(t)' <= StepsLeft(t)
<1>1. /\ pc \in [Threads -> {"idle", "screen", "lock", "cascade", "sync"}]
      /\ vertices \in SUBSET Hash /\ vertices' \in SUBSET Hash
  BY DEF Inv, InductiveInvariant, DAGTypeOK
<1>2. /\ Cardinality(Hash) \in Nat /\ Cardinality(Hash \ vertices) \in Nat
      /\ Cardinality(Hash \ vertices') \in Nat
      /\ Cardinality(Hash \ vertices') <= Cardinality(Hash \ vertices)
  BY <1>1, LeftToInsert
<1> QED  BY <1>1, <1>2 DEF StepsLeft

(* A call ends after |Hash| + 3 steps of its own at most, whatever others  *)
(* do meanwhile; with the lock handed on, which fairness gives, that is    *)
(* why every call returns (dag.go:22-24).                                  *)
THEOREM CallsAlwaysAdvance == Spec => CallAdvances
<1> DEFINE Advance == \A t \in Threads : pc[t] # "idle" =>
              /\ StepsLeft(t)' <= StepsLeft(t)
              /\ Step(t) => StepsLeft(t)' < StepsLeft(t)
<1>1. Inv /\ Inv' /\ [Next]_vars => [Advance]_vars
  <2> SUFFICES ASSUME Inv, Inv', Next, NEW t \in Threads, pc[t] # "idle"
               PROVE  /\ StepsLeft(t)' <= StepsLeft(t)
                      /\ Step(t) => StepsLeft(t)' < StepsLeft(t)
    OBVIOUS
  <2>1. pc \in [Threads -> {"idle", "screen", "lock", "cascade", "sync"}]
    BY DEF Inv, InductiveInvariant, DAGTypeOK
  <2>2. ASSUME Step(t)
        PROVE  StepsLeft(t)' < StepsLeft(t) /\ StepsLeft(t)' <= StepsLeft(t)
    <3>1. StepsLeft(t)' < StepsLeft(t)
      BY <2>2, OwnStepAdvances
    <3>2. StepsLeft(t) \in Int /\ StepsLeft(t)' \in Int
      <4>1. /\ vertices \in SUBSET Hash /\ vertices' \in SUBSET Hash
            /\ pc'[t] \in {"idle", "screen", "lock", "cascade", "sync"}
        BY DEF Inv, InductiveInvariant, DAGTypeOK
      <4>2. /\ Cardinality(Hash) \in Nat /\ Cardinality(Hash \ vertices) \in Nat
            /\ Cardinality(Hash \ vertices') \in Nat
        BY <4>1, LeftToInsert
      <4> QED  BY <2>1, <4>1, <4>2 DEF StepsLeft
    <3> QED  BY <3>1, <3>2
  <2>3. ASSUME NEW h \in Hash, NEW intact \in BOOLEAN, Receive(h, intact)
        PROVE  pc'[t] = pc[t] /\ vertices \subseteq vertices'
    BY <2>1, <2>3 DEF Receive, Lookup, ledgerState
  <2>4. ASSUME NEW u \in Threads, Step(u), u # t
        PROVE  pc'[t] = pc[t] /\ vertices \subseteq vertices'
    <3>1. pc'[t] = pc[t]
      BY <2>1, <2>4 DEF Step, Screen, Lock, LockKnown, LockOrphan, LockInsert, Cascade,
                        Normalize, StartSync, Return, GoTo
    <3>2. vertices \subseteq vertices'
      BY <2>4 DEF Step, Screen, Lock, LockKnown, LockOrphan, LockInsert, Cascade,
                  Normalize, StartSync, ledgerState
    <3> QED  BY <3>1, <3>2
  <2> QED  BY <2>2, <2>3, <2>4, OthersDoNotDelay DEF Next
<1> QED  BY <1>1, DAGInvariant, PTL DEF Spec, CallAdvances, Inv

(* Among finitely many vertices there is one of least generation, and one  *)
(* of greatest.                                                            *)
LEMMA GenerationExtremes ==
    ASSUME NEW S \in SUBSET Hash, S # {}
    PROVE  /\ \E x \in S : \A y \in S : ~(Generation[y] < Generation[x])
           /\ \E x \in S : \A y \in S : ~(Generation[x] < Generation[y])
<1> DEFINE G(x) == Generation[x]
           R == {e \in S \X S :
                   G(e[1]) < G(e[2]) \/ (G(e[1]) = G(e[2]) /\ e[1] < e[2])}
           Q == {e \in S \X S :
                   G(e[2]) < G(e[1]) \/ (G(e[1]) = G(e[2]) /\ e[1] < e[2])}
<1>1. S \subseteq Nat /\ IsFiniteSet(S) /\ \A x \in S : G(x) \in Nat
  <2>1. IsFiniteSet(S)
    BY VertexAssumption, FS_Subset
  <2> QED  BY <2>1, VertexAssumption
<1>2. \A x, y \in S : <<x, y>> \in R <=> G(x) < G(y) \/ (G(x) = G(y) /\ x < y)
  OBVIOUS
<1>3. \A x, y \in S : <<x, y>> \in Q <=> G(y) < G(x) \/ (G(x) = G(y) /\ x < y)
  OBVIOUS
<1> HIDE DEF R, Q, G
<1>4. HasLargest(S, R)
  <2>1. \A x \in S : <<x, x>> \notin R
    BY <1>1, <1>2
  <2>2. \A x, y, z \in S : <<x, y>> \in R /\ <<y, z>> \in R => <<x, z>> \in R
    <3> SUFFICES ASSUME NEW x \in S, NEW y \in S, NEW z \in S,
                        <<x, y>> \in R, <<y, z>> \in R
                 PROVE  <<x, z>> \in R
      OBVIOUS
    <3>1. /\ x \in Nat /\ y \in Nat /\ z \in Nat
          /\ G(x) \in Nat /\ G(y) \in Nat /\ G(z) \in Nat
      BY <1>1
    <3>2. /\ G(x) < G(y) \/ (G(x) = G(y) /\ x < y)
          /\ G(y) < G(z) \/ (G(y) = G(z) /\ y < z)
      BY <1>2
    <3>3. G(x) < G(z) \/ (G(x) = G(z) /\ x < z)
      BY <3>1, <3>2
    <3> QED  BY <3>3, <1>2
  <2>3. \A x, y \in S : x = y \/ <<x, y>> \in R \/ <<y, x>> \in R
    <3> TAKE x \in S, y \in S
    <3>1. x \in Nat /\ y \in Nat /\ G(x) \in Nat /\ G(y) \in Nat
      BY <1>1
    <3>2. \/ x = y \/ G(x) < G(y) \/ G(y) < G(x)
          \/ G(x) = G(y) /\ (x < y \/ y < x)
      BY <3>1
    <3> QED  BY <3>2, <1>2
  <2>4. StrictTotalOrder(S, R)
    BY <2>1, <2>2, <2>3 DEF StrictTotalOrder
  <2> QED  BY <2>4, <1>1, LargestExists
<1>5. HasLargest(S, Q)
  <2>1. \A x \in S : <<x, x>> \notin Q
    BY <1>1, <1>3
  <2>2. \A x, y, z \in S : <<x, y>> \in Q /\ <<y, z>> \in Q => <<x, z>> \in Q
    <3> SUFFICES ASSUME NEW x \in S, NEW y \in S, NEW z \in S,
                        <<x, y>> \in Q, <<y, z>> \in Q
                 PROVE  <<x, z>> \in Q
      OBVIOUS
    <3>1. /\ x \in Nat /\ y \in Nat /\ z \in Nat
          /\ G(x) \in Nat /\ G(y) \in Nat /\ G(z) \in Nat
      BY <1>1
    <3>2. /\ G(y) < G(x) \/ (G(x) = G(y) /\ x < y)
          /\ G(z) < G(y) \/ (G(y) = G(z) /\ y < z)
      BY <1>3
    <3>3. G(z) < G(x) \/ (G(x) = G(z) /\ x < z)
      BY <3>1, <3>2
    <3> QED  BY <3>3, <1>3
  <2>3. \A x, y \in S : x = y \/ <<x, y>> \in Q \/ <<y, x>> \in Q
    <3> TAKE x \in S, y \in S
    <3>1. x \in Nat /\ y \in Nat /\ G(x) \in Nat /\ G(y) \in Nat
      BY <1>1
    <3>2. \/ x = y \/ G(x) < G(y) \/ G(y) < G(x)
          \/ G(x) = G(y) /\ (x < y \/ y < x)
      BY <3>1
    <3> QED  BY <3>2, <1>3
  <2>4. StrictTotalOrder(S, Q)
    BY <2>1, <2>2, <2>3 DEF StrictTotalOrder
  <2> QED  BY <2>4, <1>1, LargestExists
<1>6. \A x, y \in S : <<y, x>> \in R \/ y = x => ~(G(x) < G(y))
  BY <1>1, <1>2
<1>7. \A x, y \in S : <<y, x>> \in Q \/ y = x => ~(G(y) < G(x))
  BY <1>1, <1>3
<1> QED  BY <1>4, <1>5, <1>6, <1>7 DEF G, HasLargest

(* Between calls, the ledger is a function of the set of vertices          *)
(* received, if the buffer cannot overflow (orphanage.go:28-36).           *)
LEMMA InvConvergent == Inv => Convergent
<1> SUFFICES ASSUME Inv, Quiet, Cardinality(Hash) <= Capacity
             PROVE  vertices = Resolvable(received)
  BY DEF Convergent
<1>1. worklist = << >> /\ Range(worklist) = {}
  <2>1. mu = NoThread
    BY DEF Inv, InductiveInvariant, LockDiscipline, DAGTypeOK, Quiet
  <2>2. worklist = << >>
    BY <2>1 DEF Inv, InductiveInvariant, LockDiscipline
  <2> QED  BY <2>2 DEF Range
<1>2. vertices \subseteq Resolvable(received)
  BY DEF Inv, InductiveInvariant, CausalClosure, StoredScreened, Stored, Resolvable
<1>3. ASSUME NEW T \in SUBSET received, CausallyClosed(T),
             \A h \in T : WellFormed(h)
      PROVE  T \subseteq vertices
  <2> SUFFICES ASSUME T \ vertices # {} PROVE FALSE
    OBVIOUS
  <2>1. T \ vertices \in SUBSET Hash
    BY DEF Inv, InductiveInvariant, DAGTypeOK
  <2>2. PICK m \in T \ vertices :
            \A y \in T \ vertices : ~(Generation[y] < Generation[m])
    BY <2>1, GenerationExtremes
  <2>3. ParentSet(m) \subseteq vertices
    <3>1. ParentSet(m) \subseteq T
      BY <1>3 DEF CausallyClosed
    <3>2. \A p \in ParentSet(m) : Generation[p] < Generation[m]
      BY <2>1, ParentSetType
    <3> QED  BY <3>1, <3>2, <2>2
  <2>4. m \in orphans
    <3>1. m \in Stored \/ Carried(m)
      BY <1>3 DEF Inv, InductiveInvariant, NothingDropped
    <3>2. ~Carried(m)
      BY DEF Carried, Quiet
    <3> QED  BY <3>1, <3>2, <2>2, <1>1 DEF Stored
  <2>5. m \in Buffered
    BY <2>4 DEF Inv, InductiveInvariant, BufferAgrees, BufferSync
  <2>6. lostParentCount[m] = Cardinality(ParentSet(m) \ vertices)
    BY <2>5 DEF Inv, InductiveInvariant, BufferAgrees, BufferTracks, Tracks, Buffered
  <2>7. lostParentCount[m] # 0
    BY <2>5 DEF Inv, InductiveInvariant, DAGTypeOK, OrphanageTypeOK
  <2>8. ParentSet(m) \ vertices = {}
    BY <2>3
  <2> QED  BY <2>6, <2>7, <2>8, FS_EmptySet
<1>4. Resolvable(received) \subseteq vertices
  BY <1>3 DEF Resolvable
<1> QED  BY <1>2, <1>4

(* Convergence: two nodes that received the same vertices, in whatever     *)
(* order and however often, hold the same ledger between calls.            *)
THEOREM DeliveryOrderIrrelevant == Spec => []Convergent
BY DAGInvariant, InvConvergent, PTL DEF Inv

(* A proposer that builds on the tips of GetTips leaves nothing behind     *)
(* (dag.go:239-240).                                                       *)
LEMMA InvTipsCover == Inv => TipsCover
<1> SUFFICES ASSUME Inv, NEW S \in SUBSET vertices, GetTips \subseteq S,
                    CausallyClosed(S), vertices \ S # {}
             PROVE  FALSE
  BY DEF TipsCover
<1>1. vertices \ S \in SUBSET Hash
  BY DEF Inv, InductiveInvariant, DAGTypeOK
<1>2. PICK h \in vertices \ S :
          \A g \in vertices \ S : ~(Generation[h] < Generation[g])
  BY <1>1, GenerationExtremes
<1>3. PICK g \in vertices : h \in ParentSet(g)
  BY <1>2 DEF GetTips
<1>4. Generation[h] < Generation[g]
  BY <1>3, ParentSetType DEF Inv, InductiveInvariant, DAGTypeOK
<1> QED  BY <1>2, <1>3, <1>4 DEF CausallyClosed

(* The tips cover the ledger in every reachable state.                     *)
THEOREM TipsAlwaysCover == Spec => []TipsCover
BY DAGInvariant, InvTipsCover, PTL DEF Inv

(* The detailed ledger implements the abstract one: Vertices grows by one  *)
(* complete, received, well-formed vertex at a time, whatever locks,       *)
(* buffer and cascade do in between (dag.go:4-25).                         *)
THEOREM DAGRefinesLedger == Spec => ImplementsCausalLedger
<1>1. Init => Ledger!LedgerInit
  BY DEF Init, Ledger!LedgerInit
<1>2. Inv /\ [Next]_vars => [Ledger!LedgerNext]_(Ledger!ledgerVars)
  <2> SUFFICES ASSUME Inv, [Next]_vars
               PROVE  Ledger!LedgerNext \/ UNCHANGED <<vertices, received>>
    BY DEF Ledger!ledgerVars
  <2>1. CASE UNCHANGED vars
    BY <2>1 DEF vars, dagVars, ledgerState
  <2>2. CASE \E h \in Hash, intact \in BOOLEAN : Receive(h, intact)
    <3>1. PICK h \in Hash, intact \in BOOLEAN, t \in Threads : Lookup(t, h, intact)
      BY <2>2 DEF Receive
    <3>2. /\ vertices' = vertices
          /\ received' = IF intact THEN received \cup {h} ELSE received
      BY <3>1 DEF Lookup, ledgerState
    <3> QED  BY <3>2 DEF Ledger!LedgerNext, Ledger!Receive
  <2>3. ASSUME NEW t \in Threads, Cascade(t)
        PROVE  Ledger!LedgerNext
    <3> DEFINE h == Head(worklist)
    <3>1. /\ h \in Hash /\ h \in Range(worklist)
      <4>1. worklist \in Seq(Hash) /\ worklist # << >> /\ << >> \in Seq(Hash)
        BY <2>3 DEF Cascade, Inv, InductiveInvariant, DAGTypeOK
      <4> QED  BY <4>1, TailConcat
    <3>2. /\ h \in received \ vertices /\ WellFormed(h)
          /\ ParentSet(h) \subseteq vertices
      BY <3>1 DEF Inv, InductiveInvariant, WorklistFresh, StoredScreened, Stored
    <3>3. vertices' = vertices \cup {h} /\ received' = received
      BY <2>3, <3>2 DEF Cascade
    <3> HIDE DEF h
    <3>4. /\ Ledger!WellFormed(h) <=> WellFormed(h)
          /\ Ledger!ParentSet(h) = ParentSet(h)
      BY DEF Ledger!WellFormed, WellFormed, Ledger!CheckMalformed, CheckMalformed,
             Ledger!ParentSet, ParentSet, Ledger!Range, Range
    <3> QED  BY <3>1, <3>2, <3>3, <3>4 DEF Ledger!LedgerNext, Ledger!Insert
  <2>4. ASSUME NEW t \in Threads,
               Screen(t) \/ Lock(t) \/ Normalize(t) \/ StartSync(t)
        PROVE  UNCHANGED <<vertices, received>>
    BY <2>4 DEF Screen, Lock, LockKnown, LockOrphan, LockInsert, Normalize,
                StartSync, ledgerState
  <2> QED  BY <2>1, <2>2, <2>3, <2>4 DEF Next, Step
<1> QED  BY <1>1, <1>2, DAGInvariant, PTL
         DEF Spec, ImplementsCausalLedger, Ledger!LedgerSpec, Inv

(* What the node does to its slasher is what the slasher allows: only the  *)
(* screening touches it, and only with a malformed vertex of the culprit.  *)
THEOREM DAGRefinesSlasher == Spec => SlasherSpec
<1>1. Init => SlasherInit
  BY DEF Init
<1>2. Inv /\ [Next]_vars => [SlasherNext]_slasherVars
  <2> SUFFICES ASSUME Inv, [Next]_vars
               PROVE  SlasherNext \/ UNCHANGED slasherVars
    OBVIOUS
  <2>1. ASSUME NEW t \in Threads, Screen(t)
        PROVE  SlasherNext \/ UNCHANGED slasherVars
    <3>1. call[t].vtx \in Hash
      BY <2>1 DEF Screen, Inv, InductiveInvariant, CallsScreened, Call
    <3> QED  BY <2>1, <3>1 DEF Screen, SlasherNext
  <2>2. CASE UNCHANGED vars
    BY <2>2 DEF vars
  <2>3. CASE \E h \in Hash, intact \in BOOLEAN : Receive(h, intact)
    BY <2>3 DEF Receive, Lookup
  <2>4. ASSUME NEW t \in Threads,
               Lock(t) \/ Cascade(t) \/ Normalize(t) \/ StartSync(t)
        PROVE  UNCHANGED slasherVars
    BY <2>4 DEF Lock, Cascade, Normalize, StartSync
  <2> QED  BY <2>1, <2>2, <2>3, <2>4 DEF Next, Step
<1> QED  BY <1>1, <1>2, DAGInvariant, PTL DEF Spec, SlasherSpec, Inv

(* One more charge of the same price, made below the threshold.            *)
LEMMA OneMoreDemerit ==
    ASSUME NEW p \in Nat \ {0}, NEW n \in Nat, NEW points \in Nat,
           points = n * p, NEW T \in Nat, points < T
    PROVE  points + p = (n + 1) * p /\ points + p < T + p
<1>1. (n + 1) * p = n * p + p
  OBVIOUS
<1> QED  BY <1>1

(* The parts of DemeritsAddUp: what is charged is malformed and was        *)
(* received, what is malformed and was received is charged or about to be, *)
(* and the accounts say so.                                                *)
OnlyMalformed == \A h \in processedEv : h \in received /\ ~WellFormed(h)

Awaited(h) ==
    \E t \in Threads : pc[t] = "screen" /\ call[t].intact /\ call[t].vtx = h

NoneOverlooked ==
    \A h \in received :
        WellFormed(h) \/ h \in processedEv \/ IsSlashed(Author[h]) \/ Awaited(h)

AccountsExact ==
    \A v \in Validators :
        /\ penaltyTable[v] = Cardinality(Charged(v)) * MalformedVertexPenalty
        /\ penaltyTable[v] < SlashThreshold + MalformedVertexPenalty

(* A call of AddDemerit for a malformed vertex that was received keeps     *)
(* them, and leaves that vertex adjudicated or its author slashed.         *)
LEMMA AddDemeritKeeps ==
    ASSUME SlasherTypeOK, OnlyMalformed, AccountsExact, NEW h \in received,
           h \in Hash, ~WellFormed(h), received' = received,
           AddDemerit(Author[h], MalformedVertexPenalty, h)
    PROVE  /\ OnlyMalformed' /\ AccountsExact' /\ processedEv \subseteq processedEv'
           /\ \A v \in Validators : IsSlashed(v) => IsSlashed(v)'
           /\ h \in processedEv' \/ IsSlashed(Author[h])'
<1> DEFINE a == Author[h]
           p == MalformedVertexPenalty
<1>1. /\ a \in Validators /\ p \in Nat \ {0} /\ SlashThreshold \in Nat
      /\ penaltyTable \in [Validators -> Nat] /\ processedEv \subseteq Hash
  BY VertexAssumption, SlasherAssumption DEF SlasherTypeOK
<1>2. CASE UNCHANGED slasherVars /\ (IsSlashed(a) \/ h \in processedEv)
  <2>1. \A v : Charged(v)' = Charged(v)
    BY <1>2 DEF Charged, slasherVars
  <2>2. AccountsExact'
    BY <1>2, <2>1 DEF AccountsExact, slasherVars
  <2> QED  BY <1>2, <2>2 DEF OnlyMalformed, IsSlashed, slasherVars, WellFormed
<1>3. CASE /\ ~IsSlashed(a) /\ h \notin processedEv
           /\ ExecuteSlasher(a, p, h, "InvalidPayload", NoVertex)
  <2>1. /\ processedEv' = processedEv \cup {h}
        /\ penaltyTable' = [penaltyTable EXCEPT ![a] = @ + p]
    BY <1>3 DEF ExecuteSlasher
  <2>2. /\ \A u \in Validators \ {a} : Charged(u)' = Charged(u)
        /\ Cardinality(Charged(a)) \in Nat
        /\ Cardinality(Charged(a)') = Cardinality(Charged(a)) + 1
    BY <1>1, <1>3, <2>1, OneMoreCharged
  <2>3. /\ penaltyTable'[a] = penaltyTable[a] + p
        /\ \A u \in Validators \ {a} : penaltyTable'[u] = penaltyTable[u]
    BY <1>1, <2>1
  <2>4. penaltyTable[a] < SlashThreshold
    BY <1>1, <1>3 DEF IsSlashed
  <2>5. penaltyTable[a] = Cardinality(Charged(a)) * p
    BY <1>1 DEF AccountsExact
  <2>6. penaltyTable[a] \in Nat
    BY <1>1
  <2> HIDE DEF a, p
  <2>7. /\ penaltyTable'[a] = (Cardinality(Charged(a)) + 1) * p
        /\ penaltyTable'[a] < SlashThreshold + p
    BY <1>1, <2>2, <2>3, <2>4, <2>5, <2>6, OneMoreDemerit
  <2>8. AccountsExact'
    <3>1. ASSUME NEW u \in Validators
          PROVE  /\ penaltyTable'[u] = Cardinality(Charged(u)') * p
                 /\ penaltyTable'[u] < SlashThreshold + p
      <4>1. CASE u = a
        BY <4>1, <2>2, <2>7
      <4>2. CASE u # a
        BY <4>2, <2>2, <2>3 DEF AccountsExact, p
      <4> QED  BY <4>1, <4>2
    <3> QED  BY <3>1 DEF AccountsExact, p
  <2>9. \A v \in Validators : IsSlashed(v) => IsSlashed(v)'
    <3> SUFFICES ASSUME NEW v \in Validators, penaltyTable[v] >= SlashThreshold
                 PROVE  penaltyTable'[v] >= SlashThreshold
      BY DEF IsSlashed
    <3>1. CASE v = a
      BY <3>1, <1>1, <2>3, <2>6
    <3>2. CASE v # a
      BY <3>2, <2>3
    <3> QED  BY <3>1, <3>2
  <2>10. OnlyMalformed'
    BY <2>1 DEF OnlyMalformed, WellFormed
  <2> QED  BY <2>1, <2>8, <2>9, <2>10
<1> QED  BY <1>2, <1>3 DEF AddDemerit

(* Steps that leave the slasher alone keep the accounts; what a goroutine  *)
(* was about to screen is still about to be.                               *)
LEMMA SlasherLeftAlone ==
    ASSUME OnlyMalformed, AccountsExact, NoneOverlooked,
           UNCHANGED <<received, slasherVars>>,
           \A h \in received : Awaited(h) => WellFormed(h) \/ Awaited(h)'
    PROVE  OnlyMalformed' /\ AccountsExact' /\ NoneOverlooked'
<1>1. \A v : Charged(v)' = Charged(v) /\ (IsSlashed(v)' <=> IsSlashed(v))
  BY DEF Charged, slasherVars, IsSlashed
<1>2. AccountsExact'
  BY <1>1 DEF AccountsExact, slasherVars
<1>3. NoneOverlooked'
  BY <1>1 DEF NoneOverlooked, slasherVars, WellFormed
<1> QED  BY <1>2, <1>3 DEF OnlyMalformed, slasherVars, WellFormed

(* The accounts of the slasher, as the DAG fills them, are exact: for any  *)
(* penalties and threshold, however many goroutines screen the same vertex *)
(* at a time, nothing is charged that is not a malformed vertex received   *)
(* intact, and none of these is overlooked or charged twice, up to the     *)
(* threshold (dag.go:80-96, slasher.go:153-162).                           *)
THEOREM DemeritsAlwaysAddUp == Spec => []DemeritsAddUp
<1> DEFINE J == OnlyMalformed /\ NoneOverlooked /\ AccountsExact
<1>1. Init => J
  <2> SUFFICES ASSUME Init PROVE AccountsExact
    BY DEF Init, SlasherInit, OnlyMalformed, NoneOverlooked
  <2>1. \A v \in Validators : Charged(v) = {} /\ penaltyTable[v] = 0
    BY DEF Init, SlasherInit, Charged
  <2>2. /\ 0 = 0 * MalformedVertexPenalty
        /\ 0 < SlashThreshold + MalformedVertexPenalty
    BY SlasherAssumption
  <2> QED  BY <2>1, <2>2, FS_EmptySet DEF AccountsExact
<1>2. Inv /\ J /\ [Next]_vars => J'
  <2> SUFFICES ASSUME Inv, J, [Next]_vars
               PROVE  J'
    OBVIOUS
  <2>0. /\ DAGTypeOK /\ SlasherTypeOK /\ received \subseteq Hash
        /\ pc \in [Threads -> PCs]
    BY DEF Inv, InductiveInvariant, DAGTypeOK, PCs
  <2>1. ASSUME NEW t \in Threads, NEW h \in Hash, NEW intact \in BOOLEAN,
               Lookup(t, h, intact)
        PROVE  J'
    <3>1. /\ pc[t] = "idle" /\ UNCHANGED slasherVars
          /\ received' = IF intact THEN received \cup {h} ELSE received
          /\ \/ h \in vertices /\ UNCHANGED <<pc, call>>
             \/ /\ pc' = [pc EXCEPT ![t] = "screen"]
                /\ call' = [call EXCEPT ![t] =
                      [vtx |-> h, intact |-> intact, missing |-> {}]]
      BY <2>1 DEF Lookup
    <3>2. \A g : Awaited(g) => Awaited(g)'
      BY <2>0, <3>1 DEF Awaited, DAGTypeOK
    <3>3. h \in vertices => WellFormed(h)
      BY DEF Inv, InductiveInvariant, CausalClosure
    <3>4. h \notin vertices /\ intact => Awaited(h)'
      BY <2>0, <3>1 DEF Awaited, DAGTypeOK
    <3>5. \A v : Charged(v)' = Charged(v) /\ (IsSlashed(v)' <=> IsSlashed(v))
      BY <3>1 DEF Charged, slasherVars, IsSlashed
    <3>6. AccountsExact'
      BY <3>1, <3>5 DEF AccountsExact, slasherVars
    <3>7. OnlyMalformed'
      BY <3>1 DEF OnlyMalformed, slasherVars, WellFormed
    <3>8. NoneOverlooked'
      <4> SUFFICES ASSUME NEW g \in received', ~WellFormed(g)
                   PROVE  g \in processedEv' \/ IsSlashed(Author[g])' \/ Awaited(g)'
        BY DEF NoneOverlooked, WellFormed
      <4>1. CASE g \in received
        BY <4>1, <3>1, <3>2, <3>5 DEF NoneOverlooked, slasherVars
      <4>2. CASE g \notin received
        BY <4>2, <3>1, <3>3, <3>4
      <4> QED  BY <4>1, <4>2
    <3> QED  BY <3>6, <3>7, <3>8
  <2>2. ASSUME NEW t \in Threads, Screen(t)
        PROVE  J'
    <3>1. /\ pc[t] = "screen" /\ received' = received /\ call[t] \in Call
          /\ call[t].intact => call[t].vtx \in received
      BY <2>2 DEF Screen, Inv, InductiveInvariant, CallsScreened
    <3>2. /\ \A u \in Threads \ {t} : pc'[u] = pc[u] /\ call'[u] = call[u]
      BY <2>0, <2>2 DEF Screen, Return, GoTo, PCs, DAGTypeOK
    <3>3. \A g : Awaited(g) => Awaited(g)' \/ (call[t].intact /\ call[t].vtx = g)
      BY <3>2 DEF Awaited
    <3>4. CASE UNCHANGED slasherVars
               /\ (~call[t].intact \/ WellFormed(call[t].vtx))
      BY <3>1, <3>3, <3>4, SlasherLeftAlone
    <3>5. CASE /\ call[t].intact /\ ~WellFormed(call[t].vtx)
               /\ AddDemerit(Author[call[t].vtx], MalformedVertexPenalty,
                             call[t].vtx)
      <4>1. PICK h \in received : h \in Hash /\ h = call[t].vtx
        BY <3>1, <3>5 DEF Call
      <4>2. /\ OnlyMalformed' /\ AccountsExact' /\ processedEv \subseteq processedEv'
            /\ \A v \in Validators : IsSlashed(v) => IsSlashed(v)'
            /\ h \in processedEv' \/ IsSlashed(Author[h])'
        <5>1. /\ ~WellFormed(h)
              /\ AddDemerit(Author[h], MalformedVertexPenalty, h)
          BY <3>5, <4>1
        <5> QED  BY <2>0, <3>1, <4>1, <5>1, AddDemeritKeeps
      <4>3. NoneOverlooked'
        <5> SUFFICES ASSUME NEW g \in received, ~WellFormed(g)
                     PROVE  g \in processedEv' \/ IsSlashed(Author[g])' \/ Awaited(g)'
          BY <3>1 DEF NoneOverlooked, WellFormed
        <5>1. Author[g] \in Validators
          BY <2>0, VertexAssumption
        <5>2. g \in processedEv \/ IsSlashed(Author[g]) \/ Awaited(g)
          BY DEF NoneOverlooked
        <5>3. IsSlashed(Author[g]) => IsSlashed(Author[g])'
          BY <5>1, <4>2 DEF IsSlashed
        <5>4. Awaited(g) => Awaited(g)' \/ g = h
          BY <3>3, <4>1
        <5> QED  BY <5>2, <5>3, <5>4, <4>2
      <4> QED  BY <4>2, <4>3
    <3> QED  BY <2>2, <3>4, <3>5 DEF Screen
  <2>3. ASSUME NEW t \in Threads,
               Lock(t) \/ Cascade(t) \/ Normalize(t) \/ StartSync(t)
        PROVE  J'
    <3>1. UNCHANGED <<received, slasherVars>> /\ pc[t] # "screen"
      BY <2>3 DEF Lock, Cascade, Normalize, StartSync
    <3>2. \A u \in Threads \ {t} : pc'[u] = pc[u] /\ call'[u] = call[u]
      BY <2>0, <2>3 DEF Lock, LockKnown, LockOrphan, LockInsert, Cascade,
         Normalize, StartSync, Return, GoTo, PCs, DAGTypeOK
    <3>3. \A g : Awaited(g) => Awaited(g)'
      BY <3>1, <3>2 DEF Awaited
    <3> QED  BY <3>1, <3>3, SlasherLeftAlone
  <2>4. CASE UNCHANGED vars
    <3>1. UNCHANGED <<received, slasherVars, pc, call>>
      BY <2>4 DEF vars, dagVars
    <3>2. \A g : Awaited(g) => Awaited(g)'
      BY <3>1 DEF Awaited
    <3> QED  BY <3>1, <3>2, SlasherLeftAlone
  <2> QED  BY <2>1, <2>2, <2>3, <2>4 DEF Next, Step, Receive
<1>3. J => DemeritsAddUp
  BY DEF OnlyMalformed, NoneOverlooked, Awaited, AccountsExact, DemeritsAddUp
<1> QED  BY <1>1, <1>2, <1>3, DAGInvariant, PTL DEF Spec, Inv

(* An orphan only ever leaves the buffer for the worklist, or to make way, *)
(* in a full buffer, for one that is no further from being complete        *)
(* (orphanage.go:99-103).                                                  *)
THEOREM EvictionIsLastResort == Spec => NoNeedlessEviction
<1> DEFINE Fair == \A c \in orphans \ orphans' :
              \/ c \in Range(worklist')
              \/ /\ Cardinality(orphans) = Capacity
                 /\ \E v \in orphans' \ orphans :
                       lostParentCount'[v] <= lostParentCount[c]
<1>1. Inv /\ [Next]_vars => [Fair]_vars
  <2> SUFFICES ASSUME Inv, Next, NEW c \in orphans \ orphans'
               PROVE  \/ c \in Range(worklist')
                      \/ /\ Cardinality(orphans) = Capacity
                         /\ \E v \in orphans' \ orphans :
                               lostParentCount'[v] <= lostParentCount[c]
    OBVIOUS
  <2>1. OrphanageTypeOK /\ BufferSync /\ DAGTypeOK
    BY DEF Inv, InductiveInvariant, DAGTypeOK, BufferAgrees
  <2>2. ASSUME NEW t \in Threads, Lock(t), LockOrphan(t)
        PROVE  /\ Cardinality(orphans) = Capacity
               /\ \E v \in orphans' \ orphans :
                     lostParentCount'[v] <= lostParentCount[c]
    <3>1. call[t].vtx \in Hash
      BY <2>2 DEF Lock, Inv, InductiveInvariant, CallsScreened, Call
    <3>2. ParentSet(call[t].vtx) \ vertices \in SUBSET Hash
      BY <3>1, ParentSetType
    <3>3. AddOrphan(call[t].vtx, ParentSet(call[t].vtx) \ vertices)
      BY <2>2 DEF LockOrphan, GetMissingHashesLocked
    <3> QED  BY <3>1, <3>2, <3>3, <2>1, EvictionJustified
  <2>3. ASSUME NEW t \in Threads, Cascade(t)
        PROVE  c \in Range(worklist')
    <3> DEFINE h == Head(worklist)
               ready == Ready(h)
    <3>1. h \in Hash /\ h \notin vertices /\ worklist # << >> /\ worklist \in Seq(Hash)
      <4>1. worklist \in Seq(Hash) /\ worklist # << >> /\ << >> \in Seq(Hash)
        BY <2>1, <2>3 DEF Cascade, DAGTypeOK
      <4>2. h \in Hash /\ h \in Range(worklist)
        BY <4>1, TailConcat
      <4> QED  BY <4>1, <4>2 DEF Inv, InductiveInvariant, WorklistFresh
    <3>2. OnParentArrival(h) /\ worklist' = Tail(worklist) \o SortVertices(ready)
      BY <2>3, <3>1 DEF Cascade
    <3> HIDE DEF h
    <3>3. c \in ready /\ ready \in SUBSET Nat /\ ready \subseteq Hash
          /\ IsFiniteSet(ready)
      <4>1. orphans' = orphans \ ready /\ ready \subseteq Hash
        BY <3>2, <2>1 DEF OnParentArrival, Ready, OrphanageTypeOK
      <4> QED  BY <4>1, VertexAssumption, FS_Subset
    <3> HIDE DEF ready
    <3>4. SortVertices(ready) \in Seq(ready) /\ Range(SortVertices(ready)) = ready
      BY <3>3, SortVerticesInjective
    <3>5. SortVertices(ready) \in Seq(Hash)
      BY <3>3, <3>4, SeqMonotonic
    <3>6. Range(worklist') = Range(Tail(worklist)) \cup ready
      BY <3>1, <3>2, <3>4, <3>5, TailConcat
    <3> QED  BY <3>3, <3>6
  <2>4. ASSUME NEW t \in Threads,
               \/ Lock(t) /\ (LockKnown(t) \/ LockInsert(t))
               \/ Screen(t) \/ Normalize(t) \/ StartSync(t)
        PROVE  orphans' = orphans
    BY <2>4 DEF LockKnown, LockInsert, Screen, Normalize, StartSync, orphanageVars
  <2>5. CASE \E h \in Hash, intact \in BOOLEAN : Receive(h, intact)
    BY <2>5 DEF Receive, Lookup, orphanageVars
  <2>6. CASE \E t \in Threads : Step(t)
    BY <2>6, <2>2, <2>3, <2>4 DEF Step, Lock
  <2> QED  BY <2>5, <2>6 DEF Next
<1> QED  BY <1>1, DAGInvariant, PTL DEF Spec, NoNeedlessEviction, Inv
=============================================================================
