------------------------- MODULE MCReconstructedChunk -------------------------
(* Two flows overhear a chunk of eight bytes, the second one across the end of *)
(* a sequence space of 32 numbers.                                           *)
EXTENDS ReconstructedChunk, TLC

CONSTANTS f1, f2

MCFlow     == {f1, f2}
MCContent  == <<"b0", "b1", "b2", "b3", "b4", "b5", "b6", "b7">>
MCStartSeq == (f1 :> 7) @@ (f2 :> 29)

=============================================================================
