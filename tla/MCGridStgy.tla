---------------------------- MODULE MCGridStgy ----------------------------
(* Instances of GridStgy: slots of one lot or two in blocks of two, and a  *)
(* configuration that changes between the runs of the program.             *)
EXTENDS GridStgy

TwoConfigs == {<<1, 1, 1>>, <<2, 1>>}
=============================================================================
