---------------------------- MODULE MCGtcdGetLive ----------------------------
(* An object that has the same chunk twice, in sequence; one that shares its  *)
(* chunks, out of order; and an empty one.  Requests do not fail.             *)
EXTENDS GtcdGet, TLC

CONSTANTS x1, x2, x3, a, b

MCXfer  == {x1, x2, x3}
MCId    == {a, b}
MCSize  == (a :> 2) @@ (b :> 1)
MCDescs == (x1 :> <<a, b, a>>) @@ (x2 :> <<b, a>>) @@ (x3 :> <<>>)
MCMode  == (x1 :> "XFER_SEQUENTIAL") @@ (x2 :> "XFER_OUT_OF_ORDER")
           @@ (x3 :> "XFER_SEQUENTIAL")

=============================================================================
