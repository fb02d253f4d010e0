---------------------------- MODULE MCPositions -----------------------------
(***************************************************************************)
(* Two of yesterday's lots on the buy side, none on the other.             *)
(***************************************************************************)
EXTENDS Positions

MCOldLots == [BUY |-> 2, SELL |-> 0]
MCPriceOf == <<2, 4, 3>>
=============================================================================
