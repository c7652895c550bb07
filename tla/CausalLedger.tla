---------------------------- MODULE CausalLedger ----------------------------
(***************************************************************************)
(* What the DAG promises its readers (core/dag.go:4-25), with no buffer,   *)
(* lock, cascade or network in sight: a set of well-formed vertices that   *)
(* only grows, one vertex at a time, each after all its parents and only   *)
(* if it has been received.                                                *)
(***************************************************************************)
EXTENDS Vertex

VARIABLES
    ledger,         \* the vertices readers see
    available       \* the vertices the node has been given

ledgerVars == <<ledger, available>>

LedgerInit == ledger = {} /\ available = {}

Receive(h) == available' = available \cup {h} /\ UNCHANGED ledger

Insert(h) ==
    /\ h \in available \ ledger
    /\ WellFormed(h)
    /\ ParentSet(h) \subseteq ledger
    /\ ledger' = ledger \cup {h}
    /\ UNCHANGED available

LedgerNext == \E h \in Hash : Receive(h) \/ Insert(h)

LedgerSpec == LedgerInit /\ [][LedgerNext]_ledgerVars
=============================================================================
