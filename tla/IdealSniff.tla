----------------------------- MODULE IdealSniff -----------------------------
(***************************************************************************)
(* The sniffer for analysis (src/src/ideal-sniffer): the process, from its *)
(* command line to its end, in its modes.  Offline it replays a capture,   *)
(* searches what is left over once, and then marks in its table of chunks  *)
(* every chunk that was really transferred; live it alternates capturing   *)
(* and searching for ever.                                                 *)
(*                                                                         *)
(* This sniffer is a variant of src/src/sniffer (module SniffTcp): the     *)
(* start and the length of a chunk on a flow are kept with the chunk only, *)
(* and chunk_done is set with every hand-over.  Payloads are ranges of     *)
(* positions of a flow here, and ranges of offsets of a chunk; what bytes  *)
(* they hold and how sequence numbers wrap is the matter of SniffTcp.      *)
(* Only the positions whose bytes were copied from a wrong address are     *)
(* told apart (junk).                                                      *)
(***************************************************************************)
EXTENDS Integers, Sequences, SequencesExt, FiniteSetsExt

CONSTANTS
    Flow,       \* the TCP flows
    Chunk,      \* the ids of chunk responses
    Heads,      \* Heads[f]: the records of f, as <<record, position of its first byte>>
    RecLen,     \* RecLen[r]: the length in the record marker of r
    Marker,     \* bytes of the marker itself
    HeaderLen,  \* bytes getChunkId and the search look at
    Segments,   \* Segments[f]: the packets of f, as <<first position, position after it>>
    MaxRepeats, \* bound on the captures of packets captured before
    InputFile,  \* the chunks that were transferred: a sequence of ids
    CommandLine \* the command lines: [mode, multi_chances, files], multi_chances being
                \* "" when there are too few arguments, and files whether argv[7] and
                \* argv[8] are there

ASSUME LengthAssumption == \A r \in DOMAIN RecLen : HeaderLen \in 1..RecLen[r]
ASSUME InputAssumption == InputFile \in Seq(Chunk) /\ Chunk \subseteq DOMAIN RecLen

VARIABLES
    pc,             \* where main() is
    options,        \* g_run_options and g_multi_chances
    p_flow_list,    \* p_flow_list[f]: the blocks kept for f
    flow_chunk_map, \* flow_chunk_map[f]: the chunk ids seen on f, in order
    chunk_map,      \* chunkId_reconstructedChunk_map
    read,           \* records of InputFile read by run_ideal_analysis
    count,          \* its counter of the chunks it had to add
    sent,           \* history: chunks handed to the sniffer plugin, and whether
                    \* their bytes were right
    captured,       \* history: captured[f], the packets of f captured so far
    repeats         \* history: captures of packets captured before

tables == <<p_flow_list, flow_chunk_map, chunk_map>>
history == <<sent, captured, repeats>>
vars == <<pc, options, tables, read, count, history>>

NoChunk == [length |-> 0]
NewChunk(len) == [length |-> len, flow_seq_map |-> [f \in Flow |-> -1], lcb |-> << >>,
                  chunk_done |-> FALSE, oracle_data |-> FALSE]
Known(map, r) == map[r] # NoChunk

-----------------------------------------------------------------------------
(* Blocks *)

Span(lo, hi) == [lo |-> lo, hi |-> hi, junk |-> {}, bModified |-> TRUE]
Size(b) == b.hi - b.lo

(* The part of b in lo .. hi - 1, and b moved down by n *)
Part(b, lo, hi) == [b EXCEPT !.lo = lo, !.hi = hi, !.junk = {x \in @ : lo <= x /\ x < hi}]
Shift(b, n) == [b EXCEPT !.lo = @ - n, !.hi = @ - n, !.junk = {x - n : x \in @}]

(* ContiguousBlock::append, overlapping_append and prepend: what block a
   has already is not overwritten *)
Joined(a, b) ==
    [lo |-> Min({a.lo, b.lo}), hi |-> Max({a.hi, b.hi}), bModified |-> TRUE,
     junk |-> a.junk \cup {x \in b.junk : x < a.lo \/ x >= a.hi}]

StopAt(list, b) == Min({i \in DOMAIN list : b.lo <= list[i].hi} \cup {Len(list) + 1})

(* The list with the blocks i .. j replaced by b *)
Replace(list, i, j, b) == SubSeq(list, 1, i - 1) \o <<b>> \o SubSeq(list, j + 1, Len(list))

(* insert: a payload that overlaps the block it stops at is dropped *)
insert(list, b) ==
    LET i == StopAt(list, b) IN
    IF i > Len(list) THEN Append(list, b)
    ELSE CASE b.lo = list[i].hi ->
                IF i < Len(list) /\ b.hi = list[i + 1].lo
                THEN Replace(list, i, i + 1, Joined(Joined(list[i], b), list[i + 1]))
                ELSE [list EXCEPT ![i] = Joined(@, b)]
           [] b.hi = list[i].lo -> [list EXCEPT ![i] = Joined(@, b)]
           [] b.hi < list[i].lo -> Replace(list, i, i - 1, b)
           [] OTHER             -> list

IsDuplicate(lcb, b) ==
    LET i == StopAt(lcb, b) IN i <= Len(lcb) /\ b.lo >= lcb[i].lo /\ b.hi <= lcb[i].hi

(* ReconstructedChunk::fill_gaps_in_chunk, the list: a payload that begins
   before the block it stops at is cut where that block begins; one that
   begins in it swallows the blocks it covers and joins the one it ends in *)
Filled(lcb, b) ==
    LET i == StopAt(lcb, b)
        j == Min({k \in (i + 1)..Len(lcb) : lcb[k].hi > b.hi \/ lcb[k].lo > b.hi}
                    \cup {Len(lcb) + 1})
    IN  IF i > Len(lcb) THEN Append(lcb, b)
        ELSE CASE b.hi < lcb[i].lo -> Replace(lcb, i, i - 1, b)
               [] b.lo < lcb[i].lo /\ b.hi >= lcb[i].lo ->
                    [lcb EXCEPT ![i] = Joined(@, Part(b, b.lo, lcb[i].lo))]
               [] b.lo >= lcb[i].lo /\ b.hi > lcb[i].hi ->
                    IF j <= Len(lcb) /\ lcb[j].lo <= b.hi
                    THEN Replace(lcb, i, j, Joined(Joined(lcb[i], b), lcb[j]))
                    ELSE Replace(lcb, i, j - 1, Joined(lcb[i], b))
               [] OTHER -> lcb

-----------------------------------------------------------------------------
(* What handle_ip changes: the blocks of its flow, the chunks, what is sent *)

Tables(f) == [list |-> p_flow_list[f], map |-> chunk_map, sent |-> sent]

(* chunk_done is set and send_chunk_to_sniffer_plugin called, whose
   extract_chunk_response accepts what getChunkId accepted *)
HandOver(st, r, ok) ==
    [st EXCEPT !.map[r].chunk_done = TRUE, !.sent = @ \cup {<<r, ok>>}]

(* fill_gaps_in_chunk of both classes: what lies past the chunk goes to the
   blocks of the flow; the chunk is done when its first block is as long as
   the chunk and the packet was no duplicate *)
fill_gaps_in_chunk(st, f, r, b) ==
    LET start == st.map[r].flow_seq_map[f]
        end   == start + st.map[r].length
        kept  == Shift(Part(b, b.lo, Min({b.hi, end})), start)
        new   == Filled(st.map[r].lcb, kept)
        t     == [st EXCEPT !.list = IF b.hi > end THEN insert(@, Part(b, end, b.hi)) ELSE @,
                            !.map[r].lcb = new]
    IN  IF ~IsDuplicate(st.map[r].lcb, kept) /\ Size(new[1]) >= st.map[r].length
        THEN HandOver(t, r, new[1].junk = {})
        ELSE t

(* Strictly inside chunk r as flow f carries it *)
Inside(map, f, r, lo) ==
    LET start == map[r].flow_seq_map[f]
    IN  start < lo /\ lo < start + map[r].length

(* The first chunk of the flow the packet begins in takes it, or the flow *)
deal_with_pkt_without_chunkid(st, f, b) ==
    LET cids == flow_chunk_map[f]
        fits == {i \in DOMAIN cids : Inside(st.map, f, cids[i], b.lo)}
    IN  IF fits = {} THEN [st EXCEPT !.list = insert(@, b)]
        ELSE fill_gaps_in_chunk(st, f, cids[Min(fits)], b)

(* mutant: the blocks kept for the flow stay where they are *)
deal_with_candidates_for_chunk_None(st, f, r) == st

(* Every block of the flow that begins inside the chunk is given to it, and
   erased after that. *)
deal_with_candidates_for_chunk(st, f, r) ==
    LET Take(s, b) ==
            LET t == fill_gaps_in_chunk(s, f, r, b)
            IN  [t EXCEPT !.list = SelectSeq(@, LAMBDA c : c # b)]
    IN  FoldLeft(Take, st, SelectSeq(st.list, LAMBDA b : Inside(st.map, f, r, b.lo)))

(* The packet from the header of chunk r on *)
ChunkHeader(st, f, r, b) ==
    LET opened == [st EXCEPT !.map[r] =
                     [(IF Known(st.map, r) THEN @ ELSE NewChunk(RecLen[r]))
                        EXCEPT !.flow_seq_map[f] = b.lo]]
        filled == fill_gaps_in_chunk(opened, f, r, b)
    IN  IF Known(st.map, r) THEN filled ELSE deal_with_candidates_for_chunk(filled, f, r)

(* getChunkId: the first header in the packet, if it is that of a chunk
   response; when the packet ends in it, what lies behind the packet in the
   buffer decides.  None is NULL. *)
None == <<>>
HeadsIn(f, b) == {h \in Heads[f] : b.lo <= h[2] /\ h[2] < b.hi /\ h[2] \notin b.junk}
First(hs) == CHOOSE h \in hs : \A g \in hs : h[2] <= g[2]
getChunkId(f, b) ==
    LET h == First(HeadsIn(f, b))
    IN  IF HeadsIn(f, b) = {} \/ h[1] \notin Chunk THEN {None}
        ELSE IF h[2] + HeaderLen <= b.hi THEN {h} ELSE {None, h}

-----------------------------------------------------------------------------
(* main, the arguments and the constructor *)

NoFlows == [f \in Flow |-> << >>]
NoChunks == [r \in Chunk |-> NoChunk]

Init ==
    /\ pc = "main"
    /\ options \in CommandLine
    /\ p_flow_list = NoFlows /\ flow_chunk_map = NoFlows /\ chunk_map = NoChunks
    /\ read = 0 /\ count = 0
    /\ sent = {}
    /\ captured = [f \in Flow |-> {}]
    /\ repeats = 0

(* Static storage: the option not given is 0. *)
parse_command_line_args(args) ==
    [mode |-> args.mode,
     multi_chances |-> args.multi_chances,
     g_multi_chances |-> args.multi_chances = "1",
     files |-> args.mode = "offline" /\ args.files]

Main ==
    /\ pc = "main"
    /\ options' = parse_command_line_args(options)
    /\ pc' = CASE options.mode \in {"offline", "offline+online"} -> "open"
               [] options.mode = "online" -> "openlive"
               [] OTHER -> "finished"
    /\ UNCHANGED <<tables, read, count, history>>

(* run_pcap_offline up to its SniffTcp object: pcap_open_offline fails
   without a dump_file_name, which is set in mode 0 only, and it and the
   setting of the filter may fail with one *)
OpenDump ==
    /\ pc = "open"
    /\ pc' \in {"exit"} \cup (IF options.files THEN {"connect"} ELSE {})
    /\ UNCHANGED <<options, tables, read, count, history>>

(* run_pcap_live up to its SniffTcp object: the device may be missing, and
   the filter with ip_to_ignore refused *)
OpenLive ==
    /\ pc = "openlive"
    /\ pc' \in {"exit", "connectlive"}
    /\ UNCHANGED <<options, tables, read, count, history>>

(* SniffTcp::SniffTcp, with empty tables: nobody may listen at the socket *)
ConnectPlugin ==
    /\ pc \in {"connect", "connectlive"}
    /\ pc' \in {"exit", IF pc = "connect" THEN "loop" ELSE "live"}
    /\ p_flow_list' = NoFlows /\ flow_chunk_map' = NoFlows /\ chunk_map' = NoChunks
    /\ UNCHANGED <<options, read, count, history>>

-----------------------------------------------------------------------------
(* my_callback_ethernet and handle_ip.  A packet that is not TCP over IPv4,
   or has no payload, changes nothing. *)

Finish(f, p, st) ==
    /\ p_flow_list' = [p_flow_list EXCEPT ![f] = st.list]
    /\ chunk_map' = st.map
    /\ sent' = st.sent
    /\ captured' = [captured EXCEPT ![f] = @ \cup {p}]
    /\ repeats' = IF p \in captured[f] THEN repeats + 1 ELSE repeats
    /\ UNCHANGED <<pc, options, read, count>>

KeepPacket(f, p) ==
    /\ ~options.g_multi_chances
    /\ Finish(f, p, [Tables(f) EXCEPT !.list = insert(@, Span(p[1], p[2]))])
    /\ UNCHANGED flow_chunk_map

(* No chunk id; deal_with_pkt_without_chunkid, or insert when no chunk was
   seen on the flow, which comes to the same *)
PlainPacket(f, p) ==
    /\ options.g_multi_chances /\ None \in getChunkId(f, Span(p[1], p[2]))
    /\ Finish(f, p, deal_with_pkt_without_chunkid(Tables(f), f, Span(p[1], p[2])))
    /\ UNCHANGED flow_chunk_map

(* A chunk id on a flow never seen with one: what is before it is kept *)
NewFlow(f, p) ==
    /\ options.g_multi_chances /\ flow_chunk_map[f] = << >>
    /\ \E h \in getChunkId(f, Span(p[1], p[2])) \ {None} :
         LET front == IF h[2] = p[1] THEN Tables(f)
                      ELSE [Tables(f) EXCEPT !.list = insert(@, Span(p[1], h[2]))]
         IN  /\ Finish(f, p, ChunkHeader(front, f, h[1], Span(h[2], p[2])))
             /\ flow_chunk_map' = [flow_chunk_map EXCEPT ![f] = <<h[1]>>]

(* On a flow seen with one: what is before it may belong to a chunk *)
OldFlow(f, p) ==
    /\ options.g_multi_chances /\ flow_chunk_map[f] # << >>
    /\ \E h \in getChunkId(f, Span(p[1], p[2])) \ {None} :
         LET front == IF h[2] = p[1] THEN Tables(f)
                      ELSE deal_with_pkt_without_chunkid(Tables(f), f, Span(p[1], h[2]))
         IN  /\ Finish(f, p, ChunkHeader(front, f, h[1], Span(h[2], p[2])))
             /\ flow_chunk_map' = IF Contains(flow_chunk_map[f], h[1]) THEN flow_chunk_map
                                  ELSE [flow_chunk_map EXCEPT ![f] = Append(@, h[1])]

Capture(f, p) ==
    /\ pc \in {"loop", "live"}
    /\ p \in captured[f] => repeats < MaxRepeats
    /\ KeepPacket(f, p) \/ PlainPacket(f, p) \/ NewFlow(f, p) \/ OldFlow(f, p)

-----------------------------------------------------------------------------
(* grep_flows_for_chunks *)

Unsearched(b) == b.bModified /\ b.lo < b.hi

(* grep_contiguous_block_for_chunks: the first record of the block is cut
   out if it is there as a whole; a chunk response is handed over, and
   entered in the table.  The bytes before it become a block of their own,
   with bytes copied from the wrong address. *)
grep_contiguous_block_for_chunks(f, s) ==
    LET b   == s.pcb
        hs  == {h \in HeadsIn(f, b) : h[2] + HeaderLen < b.hi}
        h   == First(hs)
        r   == h[1]
        end == h[2] + RecLen[r] + Marker
        cut == [s EXCEPT !.pcb = [Part(b, end, b.hi) EXCEPT !.bModified = TRUE],
                         !.before = IF h[2] = b.lo THEN @
                                    ELSE Append(@, [Span(b.lo, h[2]) EXCEPT
                                            !.bModified = FALSE, !.junk = b.lo..(h[2] - 1)])]
    IN  IF hs = {} \/ end > b.hi THEN [s EXCEPT !.pcb.bModified = FALSE]
        ELSE IF r \notin Chunk THEN cut
        ELSE HandOver([cut EXCEPT !.map[r] = IF Known(s.map, r) THEN @ ELSE NewChunk(RecLen[r])],
                      r, b.junk \cap h[2]..(end - 1) = {})

(* The blocks of a flow in turn, each until nothing more is found in it *)
GrepFlow(f, st) ==
    LET Search(s, k) == IF Unsearched(s.pcb) THEN grep_contiguous_block_for_chunks(f, s) ELSE s
        Visit(acc, b) ==
            LET s == FoldLeft(Search, [pcb |-> b, before |-> << >>, map |-> acc.map,
                                       sent |-> acc.sent], [k \in 1..Size(b) |-> k])
            IN  [list |-> acc.list \o s.before
                            \o (IF s.pcb.lo = s.pcb.hi THEN << >> ELSE <<s.pcb>>),
                 map |-> s.map, sent |-> s.sent]
    IN  FoldLeft(Visit, [st EXCEPT !.list = << >>], st.list)

(* All flows, in the order in which they came up (they share only the
   table, where they all enter the same) *)
grep_flows_for_chunks ==
    LET Go(acc, f) == LET st == GrepFlow(f, [list |-> p_flow_list[f], map |-> acc.map,
                                             sent |-> acc.sent])
                      IN  [lists |-> [acc.lists EXCEPT ![f] = st.list],
                           map |-> st.map, sent |-> st.sent]
        st == FoldLeft(Go, [lists |-> p_flow_list, map |-> chunk_map, sent |-> sent],
                       SetToSeq(Flow))
    IN  /\ p_flow_list' = st.lists /\ chunk_map' = st.map /\ sent' = st.sent
        /\ UNCHANGED <<flow_chunk_map, captured, repeats>>

(* run_pcap_live: after every batch, for ever *)
GrepLive ==
    /\ pc = "live"
    /\ \E f \in Flow : \E i \in DOMAIN p_flow_list[f] : Unsearched(p_flow_list[f][i])
    /\ grep_flows_for_chunks
    /\ UNCHANGED <<pc, options, read, count>>

(* mutant: the dump is read in batches, as a live capture is *)
EndOfDump_Batches ==
    /\ pc = "loop" /\ pc' \in {"loop", "analysis"}
    /\ grep_flows_for_chunks
    /\ UNCHANGED <<options, read, count>>

(* run_pcap_offline: the end of the dump *)
EndOfDump ==
    /\ pc = "loop" /\ pc' = "analysis"
    /\ grep_flows_for_chunks
    /\ UNCHANGED <<options, read, count>>

-----------------------------------------------------------------------------
(* run_ideal_analysis *)

(* mutant: every chunk counts *)
Analyse_All ==
    LET r == InputFile[read + 1] IN
    /\ pc = "analysis" /\ read < Len(InputFile)
    /\ read' = read + 1
    /\ count' = count + 1
    /\ chunk_map' = [chunk_map EXCEPT ![r] =
                       [(IF Known(chunk_map, r) THEN @ ELSE NewChunk(RecLen[r]))
                          EXCEPT !.oracle_data = TRUE]]
    /\ UNCHANGED <<pc, options, p_flow_list, flow_chunk_map, history>>

(* The next chunk of the input file: its data is put with the chunk, which
   is entered if it never was *)
Analyse ==
    LET r == InputFile[read + 1] IN
    /\ pc = "analysis" /\ read < Len(InputFile)
    /\ read' = read + 1
    /\ count' = IF Known(chunk_map, r) THEN count ELSE count + 1
    /\ chunk_map' = [chunk_map EXCEPT ![r] =
                       [(IF Known(chunk_map, r) THEN @ ELSE NewChunk(RecLen[r]))
                          EXCEPT !.oracle_data = TRUE]]
    /\ UNCHANGED <<pc, options, p_flow_list, flow_chunk_map, history>>

(* The input file is missing, or ends inside a chunk *)
InputFails ==
    /\ pc = "analysis" /\ pc' = "exit"
    /\ UNCHANGED <<options, tables, read, count, history>>

(* The end of the input file; run_pcap_live follows in mode 2 only *)
AnalysisEnd ==
    /\ pc = "analysis" /\ read = Len(InputFile)
    /\ pc' = IF options.mode = "offline" THEN "finished" ELSE "openlive"
    /\ UNCHANGED <<options, tables, read, count, history>>

Next ==
    \/ Main \/ OpenDump \/ OpenLive \/ ConnectPlugin
    \/ \E f \in Flow : \E p \in Segments[f] : Capture(f, p)
    \/ GrepLive \/ EndOfDump \/ Analyse \/ InputFails \/ AnalysisEnd

Spec == Init /\ [][Next]_vars

-----------------------------------------------------------------------------

WasSent(r) == \E ok \in BOOLEAN : <<r, ok>> \in sent

(* Offline the search comes after the last packet, so that the bytes that
   grep_contiguous_block_for_chunks copies from a wrong address never get
   into a chunk. *)
OfflineSentRight == options.mode = "offline" => \A s \in sent : s[2]

Carries(f, r) == \E at \in {h[2] : h \in Heads[f]} : <<r, at>> \in Heads[f]

(* In the modes with one search at the end, or with g_multi_chances, a chunk
   is done once every packet of all flows that carry it was captured, in
   whatever order and interleaving, and what was kept has been searched.
   (All of them: what a flow kept of a chunk another flow made known first
   is not taken up.  No flow carries a chunk twice here.) *)
EveryChunkDone ==
    \A r \in Chunk :
        /\ \E f \in Flow : Carries(f, r)
        /\ \A f \in Flow : Carries(f, r) => captured[f] = Segments[f]
        /\ \/ pc = "analysis"
           \/ /\ pc = "live" /\ options.g_multi_chances
              /\ \A f \in Flow : \A i \in DOMAIN p_flow_list[f] : ~Unsearched(p_flow_list[f][i])
        => Known(chunk_map, r) /\ chunk_map[r].chunk_done

Seen(r) == WasSent(r) \/ \E f \in Flow : Contains(flow_chunk_map[f], r)

(* At the end every chunk transferred is in the table with its data;
   chunk_done, which the analysis is about, says which of them were handed
   to the sniffer plugin, by whatever way of handle_ip or of the search;
   and count is the number of those the sniffer saw nothing of: a chunk
   listed twice in the file, or sniffed in part, is not counted. *)
AnalysisComplete ==
    pc = "finished" /\ options.mode = "offline" =>
        /\ \A r \in ToSet(InputFile) : /\ Known(chunk_map, r) /\ chunk_map[r].oracle_data
                                       /\ chunk_map[r].chunk_done <=> WasSent(r)
        /\ count = Cardinality({r \in ToSet(InputFile) : ~Seen(r)})
=============================================================================
