----------------------------- MODULE ServedLive -----------------------------
(***************************************************************************)
(* What a LIVE answer is worth.  A request reads the database first and    *)
(* the refresh report later, with awaits in between; this module remembers *)
(* for each request whether the server was LIVE at any moment of it.       *)
(***************************************************************************)
EXTENDS PriceService

VARIABLE witnessed    \* per reader: the server was LIVE since its request began

\* The status of a request that reads database, report and clock at once.
ServedNow == StatusOf(db, report, now_unix)

LiveInit ==
    /\ Init
    /\ witnessed = [r \in Readers |-> FALSE]

LiveNext ==
    /\ Next
    /\ witnessed' = [r \in Readers |-> /\ reader'[r].pc # "idle"
                                       /\ witnessed[r] \/ ServedNow' = "LIVE"]

LiveSpec == LiveInit /\ [][LiveNext]_<<vars, witnessed>>

\* A persistence error "changes an otherwise LIVE response to DEGRADED", and a
\* failed latest attempt does too: a request is answered LIVE only if the server
\* was LIVE, quotes, health and report together, at some moment of the request.
LiveWasTrue ==
    \A r \in Readers :
        /\ reader[r].pc = "decide"
        /\ reader[r].stored # None
        /\ StatusOf(reader[r].stored, report, reader[r].seen.at) = "LIVE"
        => witnessed[r]
=============================================================================
