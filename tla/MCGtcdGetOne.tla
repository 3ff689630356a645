---------------------------- MODULE MCGtcdGetOne -----------------------------
(* One client alone: an object of two chunks in sequence, with requests that  *)
(* may fail.                                                                  *)
EXTENDS GtcdGet, TLC

CONSTANTS x1, a, b

MCXfer        == {x1}
MCId          == {a, b}
MCSize        == (a :> 2) @@ (b :> 1)
MCDescs       == x1 :> <<a, b>>
MCSequential  == x1 :> "XFER_SEQUENTIAL"

=============================================================================
