--------------------------- MODULE MCGatewayConsole ---------------------------
(* The console with status requests that are alike.                        *)
EXTENDS GatewayConsole

Alike == Permutations(Polls)
=============================================================================
