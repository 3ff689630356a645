------------------------------ MODULE MCGtcConn ------------------------------
(* Requests of every kind, and every fault, on up to two connections at a     *)
(* limit of two calls.  The chunk requests are interchangeable.               *)
EXTENDS GtcConn, TLC

CONSTANTS k1, k2, k3, k4, d1, b1

MCChunk  == {k1, k2, k3, k4}
MCDesc   == {d1}
MCBitmap == {b1}
MCFaults == AllFaults
Interchangeable == Permutations(MCChunk)

=============================================================================
