---------------------------- MODULE MCPresenceApi ----------------------------
(* Three sessions competing for two places. *)
EXTENDS PresenceApi, TLC

SessionSymmetry == Permutations(Sessions)
=============================================================================
