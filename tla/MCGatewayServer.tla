-------------------------- MODULE MCGatewayServer --------------------------
(* The two routes of configs/gateway.yaml, both to one service.  The second *)
(* may be incomplete, and one endpoint does not parse.                      *)
EXTENDS GatewayServer, TLC

CONSTANTS r1, r2, users, i1, i2, e1, e2, bad

MCServiceOf == (r1 :> users) @@ (r2 :> users)
MCEndpointsOf == (i1 :> {e1}) @@ (i2 :> {e2, bad})
MCRouteList == <<r1, r2>>

=============================================================================
