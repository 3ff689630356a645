------------------------------ MODULE MCGtcdGet ------------------------------
(* Two clients get the same object of three chunks, one in sequence and one   *)
(* out of order, while the sniffer overhears chunks of it and requests fail.  *)
(* A reply holds less than the largest chunk and more than the smallest two.  *)
EXTENDS GtcdGet, TLC

CONSTANTS x1, x2, a, b, c

MCXfer  == {x1, x2}
MCId    == {a, b, c}
MCSize  == (a :> 2) @@ (b :> 1) @@ (c :> 5)
MCDescs == (x1 :> <<a, b, c>>) @@ (x2 :> <<a, b, c>>)
MCMode  == (x1 :> "XFER_SEQUENTIAL") @@ (x2 :> "XFER_OUT_OF_ORDER")

=============================================================================
