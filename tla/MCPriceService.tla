--------------------------- MODULE MCPriceService ---------------------------
(* Nothing is declared symmetric: the run checks liveness. *)
EXTENDS PriceService
=============================================================================
