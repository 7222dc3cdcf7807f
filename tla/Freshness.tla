----------------------------- MODULE Freshness -----------------------------
(***************************************************************************)
(* freshness.rs: what stored observations are worth at the instant of a    *)
(* response.  A row is one stored quote: its source and the wall-clock     *)
(* second of its last success, or None when a legacy row has none.  Prices *)
(* are left out: rows stand for quotes with a finite positive price.       *)
(***************************************************************************)
EXTENDS Integers

CONSTANTS
    Configured,    \* the sources of UpstreamSource::ALL
    MaxAge,        \* SOURCE_MAX_AGE_SECONDS
    None

SourceFreshness(row, unix) ==
    IF row.source \notin Configured THEN "UNKNOWN"
    ELSE IF row.at = None THEN "UNKNOWN"
    ELSE IF row.at > unix THEN "FUTURE"
    ELSE IF unix - row.at < MaxAge THEN "FRESH"
    ELSE "STALE"

\* Mutant: the age of an observation from the future is negative.
AgeSigned(row, unix) == IF row.at = None THEN None ELSE unix - row.at

\* age_seconds: an observation from the future has none.
Age(row, unix) == IF row.at = None \/ row.at > unix THEN None ELSE unix - row.at

\* What the response says of a row.
SourceResponse(row, unix) ==
    [source |-> row.source, at |-> row.at, age |-> Age(row, unix),
     freshness |-> SourceFreshness(row, unix)]

\* The configured providers with a fresh row: each contributes once.
Contributors(rows, unix) ==
    {p \in Configured : \E row \in rows : row.source = p /\ SourceFreshness(row, unix) = "FRESH"}

\* Every configured provider has been asked and last answered with a price.
AllHealthy(health) == \A p \in Configured : p \in DOMAIN health /\ health[p] = "SUCCESS"

PriceStatus(rows, health, unix) ==
    LET contributing == Contributors(rows, unix)
    IN  IF contributing = Configured /\ AllHealthy(health) THEN "LIVE"
        ELSE IF contributing # {} THEN "DEGRADED"
        ELSE IF rows # {} THEN "STALE"
        ELSE "UNAVAILABLE"
=============================================================================
