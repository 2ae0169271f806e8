--------------------------- MODULE MCFragmentLink ---------------------------
(* Constants for the runs of FragmentLink.                                 *)
EXTENDS FragmentLink

CONSTANTS n1, n2, n3, x, y, z

MCUnicast == {<<n1, n2>>}
MCBroadcast == {<<n1, Broadcast>>}
MCTwins == {<<x, y>>, <<z, z>>}
MCPair == {<<x, y>>}
=============================================================================
