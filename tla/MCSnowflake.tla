---------------------------- MODULE MCSnowflake ----------------------------
(* Small clusters for Snowflake.  Spans are powers of two, as in the code. *)
EXTENDS Snowflake, TLC

CONSTANTS n1, n2, n3, t1, t2

MCClusterNode == {n1, n2, n3}
MCClusterThread == {t1, t2, n3}
\* n3 is configured with the first id that does not fit.  Unmasked, its ids
\* would be those n1 hands out a millisecond later.
MCClusterNodeId == (n1 :> 0) @@ (n2 :> 1) @@ (n3 :> 2)
MCClusterHost == (t1 :> n1) @@ (t2 :> n2) @@ (n3 :> n3)

MCThreadsHost == (t1 :> n1) @@ (t2 :> n1)
MCThreadsNodeId == n1 :> 1

MCMinClock == -1

=============================================================================
