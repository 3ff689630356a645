------------------------------- MODULE SniffTcp -------------------------------
(***************************************************************************)
(* The sniffer process above one chunk (src/src/sniffer/SniffTcp.cc): how  *)
(* overheard TCP packets of several flows become chunks.  A packet that     *)
(* shows the header of a chunk response opens the chunk on its flow; later  *)
(* packets are matched to the chunks known on their flow; what fits nowhere *)
(* is kept per flow, taken up when the chunk's header comes, and searched   *)
(* for whole responses after every batch of packets.                        *)
(*                                                                         *)
(* A flow carries RPC records.  The byte k of record r is <<r, k>>; the     *)
(* header is found at byte 1.  Record r has RecLen[r] + Marker bytes, of    *)
(* which the sniffer counts RecLen[r], the length in the record marker,     *)
(* although the marker's own bytes come first: what it takes for the chunk  *)
(* ends Marker bytes early, inside the reply's metadata.                    *)
(*                                                                         *)
(* The counters for statistics are left out (numDuplicateBytes is in        *)
(* ReconstructedChunk).  Packets that are not TCP over IPv4, truncated or   *)
(* empty are dropped by the first lines of handle_ip, as is one never seen. *)
(***************************************************************************)
EXTENDS ContiguousBlock

CONSTANTS
  Flow,         \* the TCP flows
  Record,       \* the RPC records; the ones in Chunk are chunk responses
  Chunk,
  RecLen,       \* RecLen[r]: the length in the record marker of r
  Marker,       \* bytes of a record marker, 4 in the code
  HeaderLen,    \* bytes getChunkId looks at, from the start of a record
  Stream,       \* Stream[f]: the bytes f carries, from sequence number StartSeq[f]
  StartSeq,
  SeqSpace,     \* number of TCP sequence numbers, 2^32 in the code
  Segments,     \* Segments[f]: the packets of f, as offset and size
  MaxRepeats    \* bound on the captures of packets captured before

SeqNum     == 0 .. SeqSpace - 1
RecBytes(r, n) == [k \in 1 .. n |-> <<r, k>>]
Byte       == UNION {{<<r, k>> : k \in 1 .. RecLen[r] + Marker} : r \in Record}

ASSUME RecordAssumption == /\ Chunk \subseteq Record
                           /\ RecLen \in [Record -> Nat \ {0}]
                           /\ Marker \in Nat \ {0} /\ HeaderLen \in Nat \ {0}
                           /\ \A r \in Record : HeaderLen <= RecLen[r]
ASSUME StreamAssumption == /\ \A f \in Flow : Stream[f] \in Seq(Byte)
                           /\ StartSeq \in [Flow -> SeqNum]
                           /\ \A f \in Flow : \A p \in Segments[f] :
                                p[1] \in Nat /\ p[2] \in Nat \ {0} /\ p[1] + p[2] <= Len(Stream[f])
ASSUME SniffAssumption  == MaxRepeats \in Nat
\* A flow is a stream of RPC records: the bytes of a record follow its first one,
\* up to where the capture of the flow ends.
ASSUME LayoutAssumption ==
  \A f \in Flow, r \in Record : \A i \in 1 .. Len(Stream[f]) :
    Stream[f][i] = <<r, 1>> =>
      \A k \in 1 .. RecLen[r] + Marker :
        i + k - 1 <= Len(Stream[f]) => Stream[f][i + k - 1] = <<r, k>>
\* A flow and a chunk are small against half the sequence space, or the signed
\* difference that cuts a packet at the chunk's end would overflow.
ASSUME WidthAssumption ==
  /\ SeqSpace \in Nat \ {0}
  /\ \A f \in Flow, r \in Record : 2 * (Len(Stream[f]) + RecLen[r]) < SeqSpace

VARIABLES
  g_multi_chances, \* argument of the command line
  p_flow_list,     \* p_flow_list[f]: the blocks kept for f
  flow_chunk_map,  \* flow_chunk_map[f]: the ChunkInfos of f
  chunk_map,       \* chunkId_reconstructedChunk_map: NoChunk, or where the chunk
                   \* starts per flow, and its blocks
  sent,            \* history: the responses handed to the sniffer plugin
  captured,        \* history: captured[f] are the packets of f overheard so far
  repeats,         \* history: how many captures were of packets captured before
  defined          \* FALSE after an access outside the packet

vars == <<g_multi_chances, p_flow_list, flow_chunk_map, chunk_map, sent, captured,
          repeats, defined>>

NoChunk == [flow_seq_map |-> <<>>, lcb |-> <<>>]
Known(map, r) == map[r] # NoChunk

-----------------------------------------------------------------------------
(* Unsigned arithmetic on tcp_seq; comparisons are those of plain numbers. *)

\* Mutant: the sum is not reduced to 32 bits.
SeqAddWide(a, b) == a + b

SeqAdd(a, b) == (a + b) % SeqSpace
SeqSub(a, b) == (a - b) % SeqSpace

\* A ContiguousBlock of a flow, just written to.
FlowBlock(start, data) ==
  [start |-> start, next |-> SeqAdd(start, Len(data)), data |-> data, bModified |-> TRUE]

\* The block that stops the loop of insert, Len(list) + 1 if none does.
InsertPos(list, seq) ==
  Min({i \in 1 .. Len(list) : seq <= list[i].next} \cup {Len(list) + 1})

\* Whether the block after i starts where block i now ends.
Touches(list, i, end) == i < Len(list) /\ end = list[i + 1].start

\* Mutant: prepend puts the new bytes at the end.
PrependedLast(data, old) == old \o data

\* The bytes after ContiguousBlock::prepend.
Prepended(data, old) == data \o old

\* insert: push_back, append and perhaps merge with the next block, prepend,
\* or insert a block.  Data that overlaps the block it stops at is dropped.
Insert(list, seq, data) ==
  LET i     == InsertPos(list, seq)
      end   == SeqAdd(seq, Len(data))
      grown == FlowBlock(list[i].start, list[i].data \o data)
  IN  IF i > Len(list) THEN Append(list, FlowBlock(seq, data))
      ELSE IF seq = list[i].next
      THEN IF Touches(list, i, end)
           THEN Splice(list, i, i + 1, FlowBlock(grown.start, grown.data \o list[i + 1].data))
           ELSE [list EXCEPT ![i] = grown]
      ELSE IF end = list[i].start
      THEN [list EXCEPT ![i] = FlowBlock(seq, Prepended(data, list[i].data))]
      ELSE IF end < list[i].start THEN Splice(list, i, i - 1, FlowBlock(seq, data))
      ELSE list

-----------------------------------------------------------------------------
(* What a handler does is a sequence of changes to its part of the state:    *)
(* the blocks of its flow, the chunk map, what was sent, and whether the     *)
(* process still behaves as its code says.                                   *)

Part(f) == [list |-> p_flow_list[f], map |-> chunk_map, sent |-> sent, defined |-> defined]

\* send_chunk_to_sniffer_plugin: extract_chunk_response refuses a record that
\* is no chunk response.
SendChunk(out, data) ==
  IF data # <<>> /\ data[1][1] \in Chunk /\ data[1][2] = 1
  THEN Append(out, SubSeq(data, 1, RecLen[data[1][1]])) ELSE out

\* Mutant: the first bytes instead of the last.
PastDataFirst(data, diff) == SubSeq(data, 1, diff)

\* The last diff bytes of a payload.
PastData(data, diff) == SubSeq(data, Len(data) - diff + 1, Len(data))

\* fill_gaps_in_chunk of both classes, then the hand-over of a finished chunk.
\* What lies past the chunk's end (a signed difference, at most half the
\* sequence space) goes to the flow's blocks; a packet that lies past it as a
\* whole is read before its first byte.
FillGaps(st, f, r, seq, data) ==
  LET start == st.map[r].flow_seq_map[f]
      lcb   == st.map[r].lcb
      past  == SeqSub(SeqAdd(seq, Len(data)), SeqAdd(start, RecLen[r]))
      diff  == IF 2 * past < SeqSpace THEN past ELSE 0
      kept  == SubSeq(data, 1, Len(data) - diff)
      norm  == SeqSub(seq, start)
      new   == FillBlocks(lcb, norm, kept)
      done  == ~ IsDuplicate(lcb, norm, kept) /\ Len(new[1].data) >= RecLen[r]
  IN  IF ~ st.defined \/ diff > Len(data) THEN [st EXCEPT !.defined = FALSE]
      ELSE [st EXCEPT
              !.list = IF diff = 0 THEN @
                       ELSE Insert(@, SeqAdd(seq, Len(kept)), PastData(data, diff)),
              !.map  = [@ EXCEPT ![r].lcb = new],
              !.sent = IF done THEN SendChunk(@, new[1].data) ELSE @]

\* Whether seq lies inside the len bytes from start, its first one excepted.
Inside(seq, start, len) == start < seq /\ seq < SeqAdd(start, len)

\* deal_with_pkt_without_chunkid: the first chunk known on the flow that the
\* packet lies in takes it, or else the flow's blocks.
DealWithPkt(st, f, seq, data) ==
  LET infos == flow_chunk_map[f]
      fits  == {i \in 1 .. Len(infos) : Inside(seq, infos[i].s_seq_num, infos[i].chunk_length)}
  IN  IF fits = {} THEN [st EXCEPT !.list = Insert(@, seq, data)]
      ELSE FillGaps(st, f, infos[Min(fits)].chunk_id, seq, data)

\* Mutant: the blocks kept for the flow are left where they are.
DealWithCandidatesNone(st, f, r) == st

\* std::list::erase of block b.
Erase(list, b) ==
  LET left[k \in 0 .. Len(list)] ==
        IF k = 0 THEN <<>>
        ELSE IF list[k] = b THEN left[k - 1] ELSE Append(left[k - 1], list[k])
  IN  left[Len(list)]

\* One block of the flow: filled in if it starts inside the chunk, and erased only
\* after that.
TakeCandidate(st, f, r, start, b) ==
  LET filled == FillGaps(st, f, r, b.start, b.data)
  IN  IF Inside(b.start, start, RecLen[r])
      THEN [filled EXCEPT !.list = Erase(@, b)] ELSE st

\* deal_with_candidates_for_chunk: the blocks kept for the flow, one after the other.
DealWithCandidates(st, f, r) ==
  LET start == st.map[r].flow_seq_map[f]
      taken[k \in 0 .. Len(st.list)] ==
        IF k = 0 THEN st ELSE TakeCandidate(taken[k - 1], f, r, start, st.list[k])
  IN  taken[Len(st.list)]

\* The packet from the header of chunk r on: the chunk's start on this flow is
\* recorded and the bytes filled in; only a chunk never seen before takes up
\* the blocks kept for the flow.
ChunkHeader(st, f, r, seq, data) ==
  LET opened == [st EXCEPT !.map[r] =
        IF Known(st.map, r) THEN [@ EXCEPT !.flow_seq_map[f] = seq]
        ELSE [flow_seq_map |-> [g \in Flow |-> IF g = f THEN seq ELSE -1], lcb |-> <<>>]]
      filled == FillGaps(opened, f, r, seq, data)
  IN  IF Known(st.map, r) THEN filled ELSE DealWithCandidates(filled, f, r)

-----------------------------------------------------------------------------
(* getChunkId: rpc_header_in_stream stops at the first thing that looks like *)
(* a header, whether it is of a chunk response or not.  If the packet ends   *)
(* inside the header the code reads on behind the packet, where the header's *)
(* other bytes may or may not be found.  0 is NULL.                          *)
ChunkIdAt(data) ==
  LET heads == {i \in 1 .. Len(data) : data[i][2] = 1}
      first == Min(heads)
  IN  IF heads = {} \/ data[first][1] \notin Chunk THEN {0}
      ELSE IF first + HeaderLen - 1 <= Len(data) THEN {first} ELSE {0, first}

\* The sequence number and the payload of packet p of flow f.
FirstSeq(f, p)   == SeqAdd(StartSeq[f], p[1])
Payload(f, p) == SubSeq(Stream[f], p[1] + 1, p[1] + p[2])

Finish(f, p, st) ==
  /\ p_flow_list' = [p_flow_list EXCEPT ![f] = st.list]
  /\ chunk_map' = st.map
  /\ sent' = st.sent
  /\ defined' = st.defined
  /\ captured' = [captured EXCEPT ![f] = @ \cup {p}]
  /\ repeats' = IF p \in captured[f] THEN repeats + 1 ELSE repeats
  /\ UNCHANGED g_multi_chances

ChunkInfo(r, seq) == [chunk_id |-> r, s_seq_num |-> seq, chunk_length |-> RecLen[r]]

\* handle_ip when g_multi_chances is off.
PacketKept(f, p) ==
  /\ ~ g_multi_chances
  /\ Finish(f, p, [Part(f) EXCEPT !.list = Insert(@, FirstSeq(f, p), Payload(f, p))])
  /\ UNCHANGED flow_chunk_map

\* handle_ip for a packet without a chunk id: kept when no chunk was ever seen
\* on the flow, else given to deal_with_pkt_without_chunkid.
PacketWithoutId(f, p) ==
  /\ g_multi_chances /\ 0 \in ChunkIdAt(Payload(f, p))
  /\ Finish(f, p, DealWithPkt(Part(f), f, FirstSeq(f, p), Payload(f, p)))
  /\ UNCHANGED flow_chunk_map

\* The part of the packet from its header, which is at byte at, on.
FromHeader(f, p, at, st) ==
  LET data == Payload(f, p) IN
  ChunkHeader(st, f, data[at][1], SeqAdd(FirstSeq(f, p), at - 1), SubSeq(data, at, Len(data)))

\* handle_ip for a packet with a chunk id on a flow that showed none before:
\* what comes before the header is kept.
NewFlowHeader(f, p) ==
  /\ g_multi_chances /\ flow_chunk_map[f] = <<>>
  /\ \E at \in ChunkIdAt(Payload(f, p)) \ {0} :
       LET data  == Payload(f, p)
           front == IF at = 1 THEN Part(f)
                    ELSE [Part(f) EXCEPT !.list = Insert(@, FirstSeq(f, p), SubSeq(data, 1, at - 1))]
       IN  /\ Finish(f, p, FromHeader(f, p, at, front))
           /\ flow_chunk_map' =
                [flow_chunk_map EXCEPT ![f] = <<ChunkInfo(data[at][1], SeqAdd(FirstSeq(f, p), at - 1))>>]

\* The same on a flow that did: what comes before the header may belong to a
\* chunk of the flow, and a chunk id it already had keeps its old place in the
\* flow's list, although flow_seq_map has the new one.
OldFlowHeader(f, p) ==
  /\ g_multi_chances /\ flow_chunk_map[f] # <<>>
  /\ \E at \in ChunkIdAt(Payload(f, p)) \ {0} :
       LET data  == Payload(f, p)
           r     == data[at][1]
           front == IF at = 1 THEN Part(f)
                    ELSE DealWithPkt(Part(f), f, FirstSeq(f, p), SubSeq(data, 1, at - 1))
       IN  /\ Finish(f, p, FromHeader(f, p, at, front))
           /\ flow_chunk_map' =
                IF \E i \in 1 .. Len(flow_chunk_map[f]) : flow_chunk_map[f][i].chunk_id = r
                THEN flow_chunk_map
                ELSE [flow_chunk_map EXCEPT
                        ![f] = Append(@, ChunkInfo(r, SeqAdd(FirstSeq(f, p), at - 1)))]

\* my_callback_ethernet.
Capture(f, p) ==
  /\ defined /\ (p \in captured[f] => repeats < MaxRepeats)
  /\ \/ PacketKept(f, p) \/ PacketWithoutId(f, p)
     \/ NewFlowHeader(f, p) \/ OldFlowHeader(f, p)

-----------------------------------------------------------------------------
(* grep_flows_for_chunks, after every pcap_dispatch. *)

\* A byte of the memory behind a std::string object.
Garbage == <<"garbage", 0>>

\* What grep_contiguous_block_for_chunks sees in a block: the first header.
FirstHeader(data) == Min({i \in 1 .. Len(data) : data[i][2] = 1} \cup {Len(data) + 1})

\* One call on the block s.pcb: a response that is there as a whole is cut out
\* and sent.  The bytes before it become a block of their own, but they are
\* copied from the wrong address.
GrepBlock(s) ==
  LET pcb  == s.pcb
      at   == FirstHeader(pcb.data)
      end  == at - 1 + RecLen[pcb.data[at][1]] + Marker
      rest == [pcb EXCEPT !.start = SeqAdd(@, end), !.data = SubSeq(@, end + 1, Len(@))]
      p_cb == [FlowBlock(pcb.start, [k \in 1 .. at - 1 |-> Garbage]) EXCEPT !.bModified = FALSE]
  IN  IF at > Len(pcb.data) \/ end > Len(pcb.data) THEN [s EXCEPT !.pcb.bModified = FALSE]
      ELSE [s EXCEPT !.pcb = rest,
                     !.before = IF at = 1 THEN @ ELSE Append(@, p_cb),
                     !.sent = SendChunk(@, SubSeq(pcb.data, at, Len(pcb.data)))]

Unsearched(b) == b.bModified /\ b.start < b.next

\* The loop on one block, until nothing is left to find.
SearchOnce(s) == IF Unsearched(s.pcb) THEN GrepBlock(s) ELSE s
SearchBlock(b, out) ==
  LET searched[k \in 0 .. Len(b.data)] ==
        IF k = 0 THEN [pcb |-> b, before |-> <<>>, sent |-> out]
        ELSE SearchOnce(searched[k - 1])
  IN  searched[Len(b.data)]

\* A block that was searched: what was cut off before it precedes it, and it goes if
\* nothing is left of it.
VisitBlock(acc, b) ==
  LET s == SearchBlock(b, acc.sent)
  IN  [list |-> acc.list \o s.before
                \o (IF s.pcb.start = s.pcb.next THEN <<>> ELSE <<s.pcb>>),
       sent |-> s.sent]

\* The blocks of one flow, one after the other.
GrepFlow(list, out) ==
  LET visited[k \in 0 .. Len(list)] ==
        IF k = 0 THEN [list |-> <<>>, sent |-> out] ELSE VisitBlock(visited[k - 1], list[k])
  IN  visited[Len(list)]

\* One flow of grep_flows_for_chunks; the flows share nothing but the plugin.
GrepFlows(f) ==
  /\ defined /\ \E i \in 1 .. Len(p_flow_list[f]) : Unsearched(p_flow_list[f][i])
  /\ LET g == GrepFlow(p_flow_list[f], sent)
     IN  p_flow_list' = [p_flow_list EXCEPT ![f] = g.list] /\ sent' = g.sent
  /\ UNCHANGED <<g_multi_chances, flow_chunk_map, chunk_map, captured, repeats, defined>>

Init ==
  /\ g_multi_chances \in BOOLEAN
  /\ p_flow_list = [f \in Flow |-> <<>>]
  /\ flow_chunk_map = [f \in Flow |-> <<>>]
  /\ chunk_map = [r \in Chunk |-> NoChunk]
  /\ sent = <<>>
  /\ captured = [f \in Flow |-> {}] /\ repeats = 0
  /\ defined = TRUE

Next == \E f \in Flow : GrepFlows(f) \/ \E p \in Segments[f] : Capture(f, p)

Spec == Init /\ [][Next]_vars

-----------------------------------------------------------------------------
(* Properties *)

AnyByte == Byte \cup {Garbage}
Block   == [start : SeqNum, next : SeqNum, data : Seq(AnyByte), bModified : BOOLEAN]

\* The state has its types.  In particular no offset in a chunk leaves the
\* numbers of a tcp_seq, so that the arithmetic of ContiguousBlock, which does
\* not wrap, is that of the code.  (A flow that carries a chunk twice may leave a
\* block that ends where the numbers do, see BytesInPlace.)
TypeOK ==
  /\ p_flow_list \in [Flow -> Seq(Block)]
  /\ \A f \in Flow : flow_chunk_map[f] \in
       Seq([chunk_id : Chunk, s_seq_num : SeqNum, chunk_length : Nat])
  /\ DOMAIN chunk_map = Chunk
  /\ \A r \in Chunk : Known(chunk_map, r) =>
       /\ chunk_map[r].flow_seq_map \in [Flow -> SeqNum \cup {-1}]
       /\ chunk_map[r].lcb \in Seq([start : SeqNum, next : SeqNum, data : Seq(AnyByte)])
  /\ sent \in Seq(Seq(AnyByte))
  /\ \A f \in Flow : captured[f] \subseteq Segments[f]
  /\ repeats \in 0 .. MaxRepeats
  /\ defined \in BOOLEAN

\* Whatever is handed to the sniffer plugin is a whole chunk response with every
\* byte in its place, over all the ways a packet can take: matched, kept and
\* taken up, cut at a boundary, or found by grep_flows_for_chunks.  Only bytes
\* that the search itself copied from a wrong address are wrong.
SentGenuine ==
  \A i \in 1 .. Len(sent) : \E r \in Chunk :
    /\ Len(sent[i]) = RecLen[r]
    /\ \A k \in 1 .. RecLen[r] : sent[i][k] \in {<<r, k>>, Garbage}

\* A block of a flow holds the flow's bytes at its sequence numbers, and a block
\* of a chunk the chunk's bytes at its offsets, but for the bytes that the search
\* copied from a wrong address (when a header is cut by the end of a packet, the
\* block that has them may later lie in a chunk and be taken up).  A flow that
\* carries the chunk twice may leave blocks with offsets that are none, see
\* OldFlowHeader; they never touch the others and are never sent.
BytesInPlace ==
  /\ \A f \in Flow : \A i \in 1 .. Len(p_flow_list[f]) :
       LET cb == p_flow_list[f][i] IN
       \A k \in 1 .. Len(cb.data) :
         cb.data[k] \in {Garbage, Stream[f][SeqSub(cb.start, StartSeq[f]) + k]}
  /\ \A r \in Chunk : \A i \in 1 .. Len(chunk_map[r].lcb) :
       LET cb == chunk_map[r].lcb[i] IN
       cb.start < RecLen[r] =>
        \A k \in 1 .. Len(cb.data) : cb.data[k] \in {Garbage, <<r, cb.start + k>>}

WasSent(r) == \E i \in 1 .. Len(sent) : sent[i][1][1] = r

\* The chunk responses that flow f carries as a whole.
Carried(f) == {r \in Chunk : \E o \in 0 .. Len(Stream[f]) - (RecLen[r] + Marker) :
                  \A k \in 1 .. RecLen[r] + Marker : Stream[f][o + k] = <<r, k>>}

\* A flow that carries no chunk twice and whose numbers do not wrap.
Plain(f) ==
  /\ StartSeq[f] + Len(Stream[f]) < SeqSpace
  /\ \A i, j \in 1 .. Len(Stream[f]) : Stream[f][i] = Stream[f][j] => i = j

\* When every packet of a plain flow was overheard, in whatever order, and the
\* kept blocks were searched, every chunk of the flow was handed over: no way
\* through matching, keeping, taking up and searching loses a part of it.  (A
\* chunk that other flows carry too is left out: once it is known from another
\* flow, ChunkHeader does not take up what was kept for this one.  And with
\* g_multi_chances off a packet that comes again after grep_flows_for_chunks
\* cut out a response puts a block in the way of the next one.)
EveryChunkSent ==
  \A f \in Flow :
    /\ Plain(f)
    /\ g_multi_chances \/ repeats = 0
    /\ captured[f] = Segments[f]
    /\ \A i \in 1 .. Len(p_flow_list[f]) : ~ Unsearched(p_flow_list[f][i])
    => \A r \in Carried(f) \ UNION {Carried(g) : g \in Flow \ {f}} : WasSent(r)

=============================================================================
