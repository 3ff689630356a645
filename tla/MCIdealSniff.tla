---------------------------- MODULE MCIdealSniff ----------------------------
(***************************************************************************)
(* Two flows.  The first carries two chunks, with a packet that ends one   *)
(* and begins the other; the second a reply that is none and then the      *)
(* second chunk, whose header is cut by the end of a packet.  A third      *)
(* chunk is transferred on a flow not captured.                            *)
(***************************************************************************)
EXTENDS IdealSniff, TLC

CONSTANTS f1, f2, chA, chB, chC, other

MCFlow == {f1, f2}
MCChunk == {chA, chB, chC}
MCHeads == (f1 :> {<<chA, 0>>, <<chB, 5>>}) @@ (f2 :> {<<other, 0>>, <<chB, 3>>})
MCRecLen == (chA :> 4) @@ (chB :> 4) @@ (chC :> 4) @@ (other :> 2)
MCSegments == (f1 :> {<<0, 2>>, <<2, 3>>, <<3, 7>>, <<7, 10>>})
           @@ (f2 :> {<<0, 2>>, <<2, 4>>, <<4, 8>>})
MCInputFile == <<chA, chB, chC, chB, chC>>
MCCommandLine ==
    [mode : {"offline"}, multi_chances : {"0", "1"}, files : {TRUE}]
      \cup [mode : {"online"}, multi_chances : {"0", "1", ""}, files : {FALSE}]
      \cup [mode : {"offline", "offline+online", "online_wifi"}, multi_chances : {""}, files : {FALSE}]
=============================================================================
