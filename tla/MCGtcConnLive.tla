---------------------------- MODULE MCGtcConnLive ----------------------------
(* Chunks only, from a peer that sends no error replies and can be reached,   *)
(* over connections that break or idle out: what the limit is made for.       *)
EXTENDS GtcConn

CONSTANTS k1, k2, k3, k4, k5

MCChunk  == {k1, k2, k3, k4, k5}
MCFaults == {"eof", "idle"}

=============================================================================
