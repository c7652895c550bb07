---------------------------- MODULE QuorumPolicy ----------------------------
(***************************************************************************)
(* The size of a quorum (consensus/quorumpolicy.go, config/config.go).  A  *)
(* ratio is a fraction, a record with num and den.  The code multiplies by *)
(* a float64; for the configured 0.67 and 0.75 and any number of nodes up  *)
(* to a million, the floor of that product is the integer quotient.        *)
(***************************************************************************)
EXTENDS Integers, FiniteSets

QCType == {"QCGlobal", "QCCommittee"}

\* config.go:96-97
DefaultGlobalRatio == [num |-> 67, den |-> 100]
DefaultCommitteeRatio == [num |-> 75, den |-> 100]

\* Faulty variant: two thirds, rounded down, taken for enough.
CalcRoundedDown(n, ratio) == (n * ratio.num) \div ratio.den

(* quorumpolicy.go:95 and, for the thresholds of a configuration,          *)
(* config.go:123 and 128.                                                  *)
Calc(n, ratio) == (n * ratio.num) \div ratio.den + 1

\* quorumpolicy.go:64
NewDynamicQuorumPolicy(totalN, committeeN, gRatio, cRatio) ==
    [oldTotalN       |-> totalN,
     newTotalN       |-> totalN,
     oldCommitteeN   |-> committeeN,
     newCommitteeN   |-> committeeN,
     isTransitioning |-> FALSE,
     globalRatio     |-> gRatio,
     committeeRatio  |-> cRatio]

Stricter(p, q) == IF p > q THEN p ELSE q

(* quorumpolicy.go:80.  No method of this version begins a transition.     *)
QuorumSize(policy, qcType) ==
    LET global == qcType = "QCGlobal"
        ratio  == IF global THEN policy.globalRatio ELSE policy.committeeRatio
        oldN   == IF global THEN policy.oldTotalN ELSE policy.oldCommitteeN
        newN   == IF global THEN policy.newTotalN ELSE policy.newCommitteeN
    IN  IF policy.isTransitioning
        THEN Stricter(Calc(oldN, ratio), Calc(newN, ratio))
        ELSE Calc(newN, ratio)

\* quorumpolicy.go:117
IsQuorum(policy, qc) ==
    Cardinality(DOMAIN qc.signatures) >= QuorumSize(policy, qc.type)
=============================================================================
