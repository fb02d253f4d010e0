--------------------------- MODULE MCTradeGateway ---------------------------
(***************************************************************************)
(* Orders of the gateway are interchangeable.                              *)
(***************************************************************************)
EXTENDS TradeGateway, TLC

Symmetry == Permutations(Orders)
=============================================================================
