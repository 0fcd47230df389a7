---------------------------- MODULE MCMarketData ----------------------------
(***************************************************************************)
(* Small instances of MarketData.                                          *)
(***************************************************************************)
EXTENDS MarketData, TLC

Symmetry ==
  {p @@ q : p \in Permutations(Symbols), q \in Permutations(Minutes)}
=============================================================================
