------------------------------ MODULE MCStartup ------------------------------
(* A trade in the strategies' instrument i1 and one in i2, which only the  *)
(* account holds; the id of i1 is not its order book id.                   *)
EXTENDS Startup

MCStgyUniverse == {"i1", "i3"}
MCSameId       == {"i2", "i3"}
MCTradedIn     == <<"i1", "i2">>
=============================================================================
