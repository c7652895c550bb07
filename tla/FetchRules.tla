----------------------------- MODULE FetchRules -----------------------------
(***************************************************************************)
(* The validation of the two messages of the fetch protocol                *)
(* (core/validation/fetch_rules.go).  A validator accepts or refuses a     *)
(* message as a whole and changes nothing.                                 *)
(***************************************************************************)
EXTENDS Vertex

CONSTANTS
    MaxRequestHashes,   \* config.RequestConfig, 0 for no limit
    MaxVertexCount      \* likewise MaxFetchResponseVtx

ASSUME LimitAssumption == MaxRequestHashes \in Nat /\ MaxVertexCount \in Nat

(* A vertex on the wire: altered if its Hash does not match its content.   *)
Copy == [hash : Hash, intact : BOOLEAN]

AtMostItems(limit, s) == limit > 0 => Len(s) <= limit

\* fetch_rules.go:35
ValidateRequest(hashes) == hashes # << >> /\ AtMostItems(MaxRequestHashes, hashes)

maxFuture == 10
maxPast == 50

\* fetch_rules.go:115
ValidateRoundRange(h, currRound) ==
    /\ Round[h] <= currRound + maxFuture
    /\ currRound > maxPast => Round[h] + maxPast >= currRound

\* Faulty variant: the genesis vertex is not excepted.
ValidateStructureNoGenesis(h) ==
    /\ Parents[h] # << >>
    /\ h \notin ParentSet(h)
    /\ ~HasDuplicate(Parents[h])

\* fetch_rules.go:141
ValidateStructure(h) ==
    /\ Round[h] > 0 => Parents[h] # << >>
    /\ h \notin ParentSet(h)
    /\ ~HasDuplicate(Parents[h])

(* Lines 76-109.  A vertex that is known or was not asked for is skipped;  *)
(* an altered one does not get past the comparison of hashes.              *)
Passes(copy, known, pending, currRound) ==
    \/ copy.hash \in known
    \/ copy.hash \notin pending
    \/ /\ ValidateRoundRange(copy.hash, currRound)
       /\ copy.intact
       /\ ValidateStructure(copy.hash)

\* fetch_rules.go:61
ValidateResponse(copies, known, pending, currRound) ==
    /\ copies # << >>
    /\ AtMostItems(MaxVertexCount, copies)
    /\ \A i \in DOMAIN copies : Passes(copies[i], known, pending, currRound)
=============================================================================
