---------------------------- MODULE ChunkAssembly ----------------------------
(***************************************************************************)
(* What reassembling one chunk from overheard packets promises, without    *)
(* blocks, flows or sequence numbers: the assembler knows a growing set    *)
(* of the chunk's bytes, and in the very step in which the last missing    *)
(* byte arrives it hands over exactly the chunk, once.                     *)
(***************************************************************************)
EXTENDS Integers, Sequences

CONSTANT Content      \* the bytes of the chunk, a sequence

Offsets == 0 .. Len(Content) - 1

VARIABLES
  have,     \* the offsets whose bytes are known
  sent      \* what was handed over so far, in order

vars == <<have, sent>>

Init == have = {} /\ sent = <<>>

\* A packet contributes the missing offsets S.
Learn(S) ==
  /\ S # {}
  /\ have' = have \cup S
  /\ sent' = IF have' = Offsets THEN Append(sent, Content) ELSE sent

Next == \E S \in SUBSET (Offsets \ have) : Learn(S)

Spec == Init /\ [][Next]_vars

=============================================================================
