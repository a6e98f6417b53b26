---------------------------- MODULE MCRouteTable ----------------------------
(* RouteTable for TLC: the root and a path below it.                          *)
EXTENDS RouteTable

MCPaths == {<<>>, <<2>>}
==============================================================================
