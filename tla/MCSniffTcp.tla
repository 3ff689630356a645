------------------------------ MODULE MCSniffTcp ------------------------------
(* Two flows.  The first carries two chunks, with a packet that ends one and   *)
(* begins the other.  The second carries the second chunk twice, the second     *)
(* time across the end of the sequence space.  No packet ends in a header.     *)
EXTENDS SniffTcp, TLC

CONSTANTS f1, f2, a, b

MCFlow     == {f1, f2}
MCRecLen   == (a :> 4) @@ (b :> 4)
Whole(r)   == RecBytes(r, MCRecLen[r] + 1)
MCStream   == (f1 :> Whole(a) \o Whole(b)) @@ (f2 :> Whole(b) \o Whole(b))
MCStartSeq == (f1 :> 3) @@ (f2 :> 56)
MCSegments == (f1 :> {<<0, 2>>, <<2, 1>>, <<3, 1>>, <<4, 4>>, <<8, 2>>})
           @@ (f2 :> {<<0, 3>>, <<3, 1>>, <<4, 3>>, <<7, 3>>})

=============================================================================
