-------------------------- MODULE MCRefreshCadence --------------------------
(* Three providers; seconds scaled so that the interval is one.  The ladder *)
(* of waits is computed from the program's own constants as well.           *)
EXTENDS RefreshCadence

MCDocBackoff == <<1, 2, 4, 8, 16, 30>>

\* refresh.rs:90-92 with its constants
Real == INSTANCE RefreshCoordinator WITH
            N <- 4, Interval <- 10, BackoffBase <- 10, BackoffCap <- 300,
            MaxInstant <- 2000000000

\* "10, 20, 40, 80, 160, then 300 seconds" (README.md:44)
ASSUME LadderIsDocumented ==
    [count \in 1 .. MaxFailures |-> Real!Backoff(count)] = <<10, 20, 40, 80, 160, 300>>
=============================================================================
