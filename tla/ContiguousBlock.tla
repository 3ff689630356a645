--------------------------- MODULE ContiguousBlock ---------------------------
(***************************************************************************)
(* The byte-stream building block of the sniffer                           *)
(* (src/src/sniffer/contiguous_block.cc) and the list surgery that         *)
(* ReconstructedChunk::fill_gaps_in_chunk does with it                     *)
(* (src/src/sniffer/reconstructed_chunk.cc), as operators without state.   *)
(*                                                                         *)
(* A block is the half-open range start .. next-1 of a numbered byte       *)
(* stream together with its bytes.  A list of blocks is a sequence, the    *)
(* std::list the code iterates.                                            *)
(***************************************************************************)
EXTENDS Integers, Sequences, FiniteSetsExt

\* A fresh block holding one payload: the constructor, then append on a
\* block whose bInit is still set.
NewBlock(start, payload) ==
  [start |-> start, next |-> start + Len(payload), data |-> payload]

\* prepend(str, size_payload, start_seq_number): the first n bytes of the
\* payload go in front, and the start moves down.
Prepend(b, payload, n, start) ==
  [start |-> start, next |-> b.next, data |-> SubSeq(payload, 1, n) \o b.data]

\* Mutant: the offset of overlapping_append is taken one byte too far back.
OverlappingAppendEarly(b, str, offset, end) ==
  [start |-> b.start, next |-> end,
   data  |-> b.data \o SubSeq(str, IF offset = 0 THEN 1 ELSE offset, Len(str))]

\* overlapping_append(str, offset, end_seq_number): the bytes of str from
\* offset on go to the end.
OverlappingAppend(b, str, offset, end) ==
  [start |-> b.start, next |-> end,
   data  |-> b.data \o SubSeq(str, offset + 1, Len(str))]

\* The list s with the elements i..j replaced by the single block b; with
\* j = i - 1 this is std::list::insert before position i.
Splice(s, i, j, b) ==
  [k \in 1 .. Len(s) - (j - i) |->
     IF k < i THEN s[k] ELSE IF k = i THEN b ELSE s[k + (j - i)]]

-----------------------------------------------------------------------------
(***************************************************************************)
(* The loop of fill_gaps_in_chunk over the list, for a payload that starts *)
(* at the normalized sequence number norm and ends before end.             *)
(***************************************************************************)

\* A block stops the loop when the payload starts before the block, inside
\* it, or exactly at its end.
Stops(b, norm) == norm < b.start \/ norm <= b.next

\* The position the loop stops at, Len(lcb) + 1 when it runs off the end.
StopAt(lcb, norm) ==
  CHOOSE i \in 1 .. Len(lcb) + 1 :
    /\ i <= Len(lcb) => Stops(lcb[i], norm)
    /\ \A k \in 1 .. i - 1 : ~ Stops(lcb[k], norm)

\* The inner loop that follows an append: it erases the blocks after i that
\* the grown block covers, and halts at the first one that reaches past end.
MergeHalt(lcb, i, end) ==
  CHOOSE j \in i + 1 .. Len(lcb) + 1 :
    /\ j <= Len(lcb) => (lcb[j].start > end \/ lcb[j].next > end)
    /\ \A k \in i + 1 .. j - 1 : lcb[k].start <= end /\ lcb[k].next <= end

\* Mutant: a block that starts exactly where the grown block ends is left alone.
MergesLastStrict(lcb, j, end) == j <= Len(lcb) /\ lcb[j].start < end

\* Whether the block the inner loop halts at touches the grown block, so that
\* its bytes past end are appended too and it is erased.
MergesLast(lcb, j, end) == j <= Len(lcb) /\ lcb[j].start <= end

\* Mutant: the block the inner loop halts at is erased but its tail not kept.
AppendAndForget(lcb, i, norm, payload) ==
  LET end == norm + Len(payload)
      j   == MergeHalt(lcb, i, end)
  IN  Splice(lcb, i, IF MergesLast(lcb, j, end) THEN j ELSE j - 1,
             OverlappingAppend(lcb[i], payload, lcb[i].next - norm, end))

\* The append branch: the new bytes of the payload are appended to block i
\* and every following block that the result reaches is merged into it.
AppendAndMerge(lcb, i, norm, payload) ==
  LET end   == norm + Len(payload)
      grown == OverlappingAppend(lcb[i], payload, lcb[i].next - norm, end)
      j     == MergeHalt(lcb, i, end)
  IN  IF MergesLast(lcb, j, end)
      THEN Splice(lcb, i, j,
                  OverlappingAppend(grown, lcb[j].data, end - lcb[j].start, lcb[j].next))
      ELSE Splice(lcb, i, j - 1, grown)

\* A payload is a duplicate when one block already holds all of it.
IsDuplicate(lcb, norm, payload) ==
  LET i == StopAt(lcb, norm)
  IN  /\ i <= Len(lcb)
      /\ norm >= lcb[i].start
      /\ norm + Len(payload) <= lcb[i].next

\* Mutant: bytes found again in the merged blocks are not counted.
DuplicateBytesNoMerge(lcb, norm, payload) ==
  LET i == StopAt(lcb, norm)
  IN  CASE i > Len(lcb)                         -> 0
        [] i <= Len(lcb) /\ norm < lcb[i].start ->
             IF norm + Len(payload) < lcb[i].start THEN 0
             ELSE Len(payload) - (lcb[i].start - norm)
        [] IsDuplicate(lcb, norm, payload)      -> Len(payload)
        [] OTHER -> lcb[i].next - norm

\* What the call adds to numDuplicateBytes: the payload bytes it did not
\* store, and in the append branch those it found in the blocks it merged.
DuplicateBytes(lcb, norm, payload) ==
  LET i       == StopAt(lcb, norm)
      end     == norm + Len(payload)
      j       == MergeHalt(lcb, i, end)
      Size(k) == lcb[k].next - lcb[k].start
  IN  CASE i > Len(lcb)                         -> 0
        [] i <= Len(lcb) /\ norm < lcb[i].start ->
             IF end < lcb[i].start THEN 0 ELSE Len(payload) - (lcb[i].start - norm)
        [] IsDuplicate(lcb, norm, payload)      -> Len(payload)
        [] OTHER -> (lcb[i].next - norm) + MapThenSumSet(Size, i + 1 .. j - 1)
                    + (IF MergesLast(lcb, j, end) THEN end - lcb[j].start ELSE 0)

\* The list after fill_gaps_in_chunk: push_back, duplicate, insert, prepend
\* (a payload that reaches into block i or beyond it is cut at the start of
\* block i, so what lies past the end of block i is not stored), or append.
FillBlocks(lcb, norm, payload) ==
  LET i   == StopAt(lcb, norm)
      end == norm + Len(payload)
  IN  IF i > Len(lcb) THEN Splice(lcb, i, i - 1, NewBlock(norm, payload))
      ELSE IF norm < lcb[i].start THEN
             IF end < lcb[i].start
             THEN Splice(lcb, i, i - 1, NewBlock(norm, payload))
             ELSE Splice(lcb, i, i, Prepend(lcb[i], payload, lcb[i].start - norm, norm))
      ELSE IF end > lcb[i].next THEN AppendAndMerge(lcb, i, norm, payload)
      ELSE lcb

=============================================================================
