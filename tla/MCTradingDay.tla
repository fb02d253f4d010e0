---------------------------- MODULE MCTradingDay ----------------------------
(***************************************************************************)
(* Two instruments of one product.                                         *)
(***************************************************************************)
EXTENDS TradingDay, TLC

CONSTANTS a1, a2, a

OfTheProducts == a1 :> a @@ a2 :> a 
Symmetry == Permutations({a1, a2})
=============================================================================
