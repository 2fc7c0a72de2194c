---------------------------- MODULE MCEdgeFilters ----------------------------
(* Two origins, of which the config allows one. *)
EXTENDS EdgeFilters

CONSTANTS o1, o2

=============================================================================
