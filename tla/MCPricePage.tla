----------------------------- MODULE MCPricePage -----------------------------
(* Two providers, and the databases to start from: an empty one, and an old one
   with an unknown source, a quote of one provider without a time and one of the
   other from the future.
   A time unit is five seconds; the maximal age is shorter than it is, so that
   quotes grow stale within the bound. *)
EXTENDS PricePage, TLC

CONSTANTS p1, p2, other

Empty == [s \in {} |-> 0]

MCFirstBooks == {Empty, p1 :> None @@ p2 :> 2 @@ other :> 0,
                 p2 :> None @@ p1 :> 2 @@ other :> 0}

\* The providers are alike, in the first books too.
MCSymmetry == Permutations({p1, p2})
=============================================================================
