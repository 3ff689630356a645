-------------------------- MODULE ReconstructedChunk --------------------------
(***************************************************************************)
(* One ReconstructedChunk of the sniffer                                   *)
(* (src/src/sniffer/reconstructed_chunk.cc), fed by                        *)
(* SniffTcp::fill_gaps_in_chunk (src/src/sniffer/SniffTcp.cc).             *)
(*                                                                         *)
(* The same chunk may be overheard on several TCP flows at once, each      *)
(* numbering it from its own sequence number; packets are lost, repeated,  *)
(* re-segmented and reordered at will.  A packet is any n consecutive      *)
(* bytes of a flow that start inside the chunk, so it may run past the     *)
(* chunk's end into whatever follows it on the flow.                       *)
(***************************************************************************)
EXTENDS ContiguousBlock

CONSTANTS
  Flow,         \* the TCP flows that carry the chunk
  Content,      \* the bytes of the chunk's RPC record but for the last four: the
                \* length taken from the record marker does not count the marker
  Foreign,      \* a byte of the flow that is past the chunk
  StartSeq,     \* StartSeq[f]: the sequence number of the chunk's first byte on f
  SeqSpace,     \* number of TCP sequence numbers, 2^32 in the code
  MaxPayload,   \* bound on the bytes of one packet
  MaxTapped     \* bound on the bytes overheard in one behaviour

Length == Len(Content)
SeqNum == 0 .. SeqSpace - 1
Byte   == {Content[k] : k \in 1 .. Length} \cup {Foreign}

ASSUME ContentAssumption == Content \in Seq(Byte) /\ Length > 0
ASSUME StartAssumption   == StartSeq \in [Flow -> SeqNum]
ASSUME BoundAssumption   == MaxPayload \in Nat \ {0} /\ MaxTapped \in Nat
\* A chunk and a packet are small against half the sequence space, or the
\* signed difference that cuts a packet at the chunk's end would overflow.
ASSUME WidthAssumption   == SeqSpace \in Nat /\ 2 * (Length + MaxPayload) < SeqSpace

VARIABLES
  flow_seq_map,                 \* start of the chunk per flow, Absent if unknown
  lcb,                          \* the list of contiguous blocks
  uniquely_contributing_flows,  \* the flows that brought something new
  numDuplicateBytes,            \* the statistics counter of SniffTcp
  sent,                         \* history: chunks handed to the sniffer plugin
  tapped                        \* history: payload bytes given to fill_gaps_in_chunk

vars == <<flow_seq_map, lcb, uniquely_contributing_flows, numDuplicateBytes,
          sent, tapped>>

Absent == -1

-----------------------------------------------------------------------------
(* Unsigned 32-bit arithmetic on tcp_seq. *)

SeqAdd(a, b) == IF a + b >= SeqSpace THEN a + b - SeqSpace ELSE a + b
SeqSub(a, b) == IF a >= b THEN a - b ELSE a - b + SeqSpace

\* The bytes offset+1 .. offset+n of a flow, counted from the chunk's start.
Payload(offset, n) ==
  [k \in 1 .. n |-> IF offset + k <= Length THEN Content[offset + k] ELSE Foreign]

\* Mutant: a packet is not cut at the end of the chunk.
PastEndNever(seq, n, start) == 0

\* SniffTcp::fill_gaps_in_chunk cuts off the bytes past the chunk: diff is the
\* difference of two unsigned ends read as a signed int, negative becomes 0.
PastEnd(seq, n, start) ==
  LET diff == SeqSub(SeqAdd(seq, n), SeqAdd(start, Length))
  IN  IF 2 * diff < SeqSpace THEN diff ELSE 0

\* Mutants: the chunk is done one byte early; a duplicate reports it again.
ChunkDoneEarly(duplicate, blocks) == ~ duplicate /\ Len(blocks[1].data) >= Length - 1
ChunkDoneAgain(duplicate, blocks) == Len(blocks[1].data) >= Length

\* Whether fill_gaps_in_chunk returns true: something was stored, and the
\* first block is at least as long as the chunk.
ChunkDone(duplicate, blocks) ==
  /\ ~ duplicate
  /\ Len(blocks[1].data) >= Length

\* SniffTcp::fill_gaps_in_chunk on a packet of n bytes with sequence number
\* seq of flow f, whose chunk starts at start there; a finished chunk goes to
\* the sniffer plugin, get_data() being the bytes of the first block.
FillGaps(f, seq, n, start) ==
  LET norm    == SeqSub(seq, start)
      kept    == SubSeq(Payload(SeqSub(seq, StartSeq[f]), n), 1, n - PastEnd(seq, n, start))
      dup     == IsDuplicate(lcb, norm, kept)
  IN  /\ tapped + n <= MaxTapped
      /\ lcb' = FillBlocks(lcb, norm, kept)
      /\ numDuplicateBytes' = numDuplicateBytes + DuplicateBytes(lcb, norm, kept)
      /\ uniquely_contributing_flows' =
           IF dup THEN uniquely_contributing_flows
           ELSE uniquely_contributing_flows \cup {f}
      /\ sent' = IF ChunkDone(dup, lcb') THEN Append(sent, lcb'[1].data) ELSE sent
      /\ tapped' = tapped + Len(kept)

-----------------------------------------------------------------------------
Init ==
  /\ flow_seq_map = [f \in Flow |-> Absent]
  /\ lcb = <<>>
  /\ uniquely_contributing_flows = {}
  /\ numDuplicateBytes = 0
  /\ sent = <<>>
  /\ tapped = 0

\* The packet with the chunk id: handle_ip records where the chunk starts on
\* this flow, then fills in the packet's bytes.
HeaderPacket(f, n) ==
  /\ flow_seq_map' = [flow_seq_map EXCEPT ![f] = StartSeq[f]]
  /\ FillGaps(f, StartSeq[f], n, StartSeq[f])

\* A later packet of the chunk on a flow whose start is known (a packet of
\* any other flow is kept aside by SniffTcp::insert and changes nothing here).
DataPacket(f, offset, n) ==
  /\ flow_seq_map[f] # Absent
  /\ FillGaps(f, SeqAdd(StartSeq[f], offset), n, flow_seq_map[f])
  /\ UNCHANGED flow_seq_map

Next ==
  \E f \in Flow, n \in 1 .. MaxPayload :
    \/ HeaderPacket(f, n)
    \/ \E offset \in 1 .. Length - 1 : DataPacket(f, offset, n)

Spec == Init /\ [][Next]_vars

-----------------------------------------------------------------------------
(* Properties *)

Block == [start : 0 .. Length, next : 0 .. Length, data : Seq(Byte)]

\* The state has its types; in particular no block reaches past the chunk,
\* which is what the cut in SniffTcp::fill_gaps_in_chunk is for.  (The value of
\* numDuplicateBytes is what BytesAccounted is about.)
TypeOK ==
  /\ flow_seq_map \in [Flow -> SeqNum \cup {Absent}]
  /\ lcb \in Seq(Block)
  /\ uniquely_contributing_flows \subseteq Flow
  /\ sent \in Seq(Seq(Byte))
  /\ tapped \in Nat

\* The list stays sorted, its blocks are not empty, and between two blocks
\* there is a gap: the loop that stops at the first block ending at or after
\* the packet depends on it, and without it the first block may never grow to
\* the whole chunk.
BlocksSeparated ==
  /\ \A i \in 1 .. Len(lcb) : lcb[i].start < lcb[i].next
  /\ \A i, j \in 1 .. Len(lcb) : i < j => lcb[i].next < lcb[j].start

\* Every block holds exactly the chunk's bytes of its range, whichever flows
\* they came from and however packets overlapped: no prepend, cut or merge in
\* fill_gaps_in_chunk shifts or repeats a byte.
BytesInPlace ==
  \A i \in 1 .. Len(lcb) :
    /\ Len(lcb[i].data) = lcb[i].next - lcb[i].start
    /\ \A k \in 1 .. Len(lcb[i].data) : lcb[i].data[k] = Content[lcb[i].start + k]

\* What get_data() hands to the sniffer plugin is the chunk, although the test
\* at the end of fill_gaps_in_chunk looks at the size of the first block only,
\* not at where that block starts.
SentWhole == \A i \in 1 .. Len(sent) : sent[i] = Content

\* A chunk is handed over at most once, however many more packets of it (from
\* retransmissions or from other flows) come after it was complete.
SentOnce == Len(sent) <= 1

Covered(blocks) == UNION {blocks[i].start .. blocks[i].next - 1 : i \in 1 .. Len(blocks)}

\* The statistics add up: every payload byte given to fill_gaps_in_chunk is
\* either one that is now stored, or counted in numDuplicateBytes (the tail
\* that a packet loses when it spans a whole block is counted there too).
BytesAccounted == tapped = Cardinality(Covered(lcb)) + numDuplicateBytes

\* Reassembly implements ChunkAssembly: a step never forgets a byte, every
\* packet that is not a duplicate teaches something, and the chunk is handed
\* over in the step that completes it.
Assembly == INSTANCE ChunkAssembly WITH have <- Covered(lcb)
ImplementsAssembly == Assembly!Spec

=============================================================================
