----------------------------- MODULE MCGtcdPut -----------------------------
(* A transfer in pieces next to two files, one of them empty.              *)
EXTENDS GtcdPut, TLC

CONSTANTS r1, r2

MCFileLen == (r1 :> 3) @@ (r2 :> 0)

=============================================================================
