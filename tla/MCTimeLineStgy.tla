--------------------------- MODULE MCTimeLineStgy ---------------------------
(* Instances of TimeLineStgy: a slot of three lots.                        *)
EXTENDS TimeLineStgy
=============================================================================
