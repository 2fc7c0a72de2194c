--------------------------- MODULE MCProxyHandler ---------------------------
(* One route to one service. *)
EXTENDS ProxyHandler, TLC

CONSTANTS r1, users, q1, q2, q3

MCServiceOf == r1 :> users

=============================================================================
