---------------------------- MODULE MCRequestGate ----------------------------
\* Racing requests are interchangeable.
EXTENDS RequestGate, TLC

RequestSymmetry == Permutations(Requests)
=============================================================================
