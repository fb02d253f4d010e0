----------------------------- MODULE MCTickFeed -----------------------------
(* Instances of TickFeed: an executor whose two strategies share an        *)
(* instrument, and one with a single strategy that trades it, too.         *)
EXTENDS TickFeed

TwoExecutors == [e1 |-> <<"s1", "s2">>, e2 |-> <<"s3">>]
Markets      == [s1 |-> {"a"}, s2 |-> {"a", "b"}, s3 |-> {"a"}]
=============================================================================
