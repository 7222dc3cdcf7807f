---------------------------- MODULE MCPriceStore ----------------------------
\* Two servers on one file, one of which may start while the other works.
EXTENDS PriceStore, TLC

StoreSymmetry == Permutations(Servers) \union Permutations(Providers)
=============================================================================
