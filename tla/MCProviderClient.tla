-------------------------- MODULE MCProviderClient --------------------------
(* Two providers at a time, so that every format is met and exchanges overlap;
   a limit of three bytes, in chunks of one or two. *)
EXTENDS ProviderClient

MCPlans == {{"CoinGecko", "Kraken"}, {"Coinbase", "Gemini"}}
=============================================================================
