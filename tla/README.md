# A TLA+ verification of ditto

Ditto is a content-overhearing system for wireless meshes built on the
Data-Oriented Transfer daemon (gtcd).  An application asks its local daemon for
an object; the daemon fetches the object's chunks from another daemon, hop by
hop; and a sniffer process next to every daemon listens to the TCP traffic of
others and puts the chunks it overhears into the daemon's storage, so that a
later request for them needs no network.  Offline tools analyse captures and plan
the mesh.

This directory holds models of the parts of it that carry state, written from
the code, TLC configurations that check them on small instances, and
TLAPS proofs of the safety of the sniffer and of the reassembly in it, of the daemon's
connections, of serving and paging, of its GET and PUT sides, and of its start-up.

`PROJECT.json` lists components, runs, the lines each definition stands for, the
hazards, and the theorems.

## 1. Inventory

| component | state | operations | module |
|---|---|---|---|
| `ReconstructedChunk`, `ContiguousBlock` (sniffer) | sorted list of blocks, start per flow, statistics | `fill_gaps_in_chunk`, `get_data` | `ContiguousBlock`, `ReconstructedChunk`; promise: `ChunkAssembly` |
| `SniffTcp` (sniffer) | kept blocks per flow, chunks known per flow, chunk map | `handle_ip`, `deal_with_pkt_without_chunkid`, `deal_with_candidates_for_chunk`, `insert`, `grep_flows_for_chunks` | `SniffTcp` |
| `ideal-sniffer` | the same, a mark per chunk, a place in the input file | command line, capture, search, `run_ideal_analysis` | `IdealSniff` |
| `xferPlugin_gtc`, client half (gtcd) | connection cache, pending connections, waiting callbacks, calls outstanding | `get_chunk`, `get_descriptors`, `get_bitmap`, `establish_connection`, `check_outstanding`, reaper | `GtcConn` |
| `xferPlugin_gtc`, server half, proxy and paging | routing table, the requests being served, the storage of every node | `remote_get_chunk`, `proxy_get_chunk_cb`, `remote_get_descriptors`, `remote_get_bitmap` and the client's loops over pages | `GtcServe` |
| `gtcd`, GET side | transfer table, status per chunk, send buffer, saved callback | `get_init`, `get_data`, `fetch_data`, `xp_fetch_data_cb`, `transfer_data` | `GtcdGet` |
| `gtcd`, PUT side | transfer table, `putfd_state`, pieces outstanding | `put_init`, `put_data`, `put_commit`, `put_fd`, end of the connection | `GtcdPut` |
| `snifferPlugin_tcp` (gtcd) | its socket | `put_chunk`; configuration | action `Overheard` of `GtcdGet`; `GtcdStart` |
| start-up (`main.cc`, `configfile.cc`) | socket files, ports, plugins built so far | `gtcd_start`, `parse_config`, `instantiate_plugins`, accept | `GtcdStart` |
| planners (`rpp.c`, `swarm.c`) | global graphs, best configuration, tables printed | graph library, Dijkstra, trees, search, tables | `MeshGraph`, `MeshPlan` |
| link-layer parsing, CRC, printing | none | pure functions of a packet | not modelled |
| `SniffTcpv2` | as `SniffTcp` | an older copy that the Makefile does not build | not modelled |
| chunkers, other plugins | - | in DOT, not in this repository | not modelled |

How they interact.  The application calls gtcd over a Unix socket (RPCs).  gtcd
asks the storage plugin (external) for chunks and the transfer plugin for the
ones it does not have; the transfer plugin calls the next daemon on the route
over a cached TCP connection and calls gtcd back; that daemon serves the chunk
from its storage or fetches it itself and keeps it.  The sniffer process
captures packets, and calls `put_chunk` of the sniffer plugin, which puts the chunk
into the same storage.  gtcd is one process with one event loop, and so is the
sniffer: a handler runs to its end, and what interleaves are handlers (events,
callbacks, timers), not statements.  Only at start-up do several processes meet
on shared state, the socket files, system call by system call.

What is hard to get right, and hardly tested by the repository (it has no unit
tests of these parts):

* the sniffer sees packets in any order, repeated, re-cut, from several flows
  that carry the same chunk, over 32-bit numbers that wrap, and searches what it
  kept between any two batches of packets;
* a connection serves several requests; it is dialled, shared, limited, broken,
  timed out and deleted, and a callback waits in one of five places meanwhile;
* routes change between two requests, and between a request and the proxies it passes;
* a chunk comes in pages through proxies that fetch, cut and cache it while other
  clients ask for it and connections break under them;
* chunks of a transfer arrive in any order while the client asks at its own
  pace, and transfers, sniffer and storage share reference counts;
* the pieces of a file are read while earlier ones are being stored, and the
  last of them, the end of the file and errors come in any order;
* daemons die at any step of their start-up and leave sockets that the next one
  must tell from those of a living daemon;
* the planner reuses global graphs that it resets only in part.

`hazards` in `PROJECT.json` has them line by line, each with the properties that
would catch it, or the reason why none does.

## 2. Modules

### ContiguousBlock, ReconstructedChunk, ChunkAssembly: one chunk

`ContiguousBlock` has the list surgery of `ReconstructedChunk::fill_gaps_in_chunk`
as operators on a sequence of blocks `[start, next, data]`: `StopAt` (where the
loop stops), `FillBlocks` (the branches: first packet, before all, prepend,
append and merge, past the end), `IsDuplicate`, `DuplicateBytes`.
`ReconstructedChunk` is the state machine: `HeaderPacket` records the chunk's
start on a flow and fills in the packet's bytes, `DataPacket` fills in a later
packet.  Both cut the packet at the chunk's end with the unsigned arithmetic of
`SniffTcp::fill_gaps_in_chunk`, and hand a finished chunk over.  A packet is any
run of bytes of a flow that starts inside the chunk.

`ChunkAssembly` is what this promises: a growing set of known offsets, and the
whole chunk handed over once, in the step in which the last byte becomes known.
The refinement maps the set of known offsets to the union of the block ranges.

The chunk's `Content` is what the code counts as the chunk: the length in the RPC record
marker, counted from the marker's first byte, so the last four bytes of the
record are not part of it.  They belong to the reply's metadata, not to the data.

### SniffTcp: the sniffer above one chunk

State: `g_multi_chances` (the argument of the command line, fixed by `Init`),
`p_flow_list` (kept blocks), `flow_chunk_map` (ChunkInfos per flow),
`chunk_map` (chunkId_reconstructedChunk_map, each with `flow_seq_map` and block
list).  Actions: `PacketKept` when `g_multi_chances` is off, and
when it is on `PacketWithoutId`, `NewFlowHeader` and `OldFlowHeader`, the
four paths of `handle_ip`; `GrepFlows` is `grep_flows_for_chunks` on a flow.
A handler calls others that change the same state, so it is built from
functions on the part of the state it changes (`FillGaps`, `DealWithPkt`,
`DealWithCandidates`, `ChunkHeader`).  Its loops are recursive functions on the number of
elements seen: `DealWithCandidates` on the kept blocks, `SearchBlock` on one block until
nothing is left to find, `GrepFlow` on the blocks of a flow.  The blocks of a chunk are those of
`ContiguousBlock`.

A byte is a pair of its record and its position in it, so that a byte in the
wrong place can be told.  A flow carries records; those in `Chunk` are chunk
responses, others only look like one to the search.  `Segments` are the packets
a flow is cut into; a packet may be overheard any number of times (`MaxRepeats`
bounds the second ones), never, and in any order.  Two assumptions describe what is
overheard: `LayoutAssumption`, that a flow is records one after the other, the last perhaps cut off (the bytes of a record
follow its first one), and `WidthAssumption`, that a flow with a chunk is shorter than half
the sequence space, because `fill_gaps_in_chunk` takes differences as signed numbers.

Undefined or unspecified behaviour: a header that is cut off at the end of a
packet is compared with what lies behind it in the buffer, so the packet may or
may not be taken for one with a header (`ChunkIdAt`).  The block that
`grep_contiguous_block_for_chunks` fills from the wrong address has bytes
`Garbage`; such a block stays in the flow's list, and may be taken up by a chunk whose header
comes later, so both parts of `BytesInPlace` allow for `Garbage`.  A packet that lies behind its chunk as a whole is given to
`insert` with an address before its first byte: `defined` becomes FALSE and the
behaviour ends.

### GtcConn: connections to a peer

One peer, because entries of different peers share nothing; a request that waits stays with its peer, also when
it calls `get_chunk` again, so the route is fixed here (hazards).  State: `conn` (the
`conn_entry` objects with refcount and waiting callbacks), `cache`, `pending`,
`dials`, `connecting`, `rpc` (which connection a request has a call on), `todo`.
Every handler is one action, but for the loop over waiting callbacks in
`~conn_entry`, which calls `get_chunk` again and may recurse: its remaining calls
are on the stack `todo`, and nothing else happens while it is not empty.
Environment: a dial fails, a reply is an error, a connection breaks, an entry
idles out (`Faults`).  `status` says how the daemon ended: the `fatal` of
`get_bitmap`, the use of a connection after a failed dial, and a callback on a
deleted entry end the behaviour, because the code says nothing beyond.

### GtcdGet: transfers

State: `xfer` (the `xferData` of each transfer, with what its client received),
`scheduled` (a `fetch_data` on the event queue), `asked` (chunks requested from
the transfer plugin), `stored`, `refs`, `known` (the storage plugin: external, as
gtcd uses it), `status`.  Actions: `GetInit`, `DescriptorsArrive`,
`DescriptorsFail`, `GetData`, `FetchData`, `ChunkArrives`, `ChunkFails`,
`ChunkTooLate`, `Overheard` (the sniffer plugin, or a proxied chunk), `Purge`.
`transfer_data`, `get_chunk_cb` and `actual_transfer_data`, which call each other
through the storage, are the function `TransferData`.  `GetInit` refuses
a request whose oid, hints or mode the code refuses.  Reads of
`descs_status` past its end go unnoticed or end the daemon.

### GtcServe: chunks, lists and bitmaps over several daemons

State: `epoch` (which of the routing tables `Routes` hold), `store` (the storage of every node),
`op` (a request as the stack of fetches it has become: the one at the client, and one at each proxy
that did not have the chunk), `answer`, `origin` (a history: the node that a proxy had a chunk from), and for descriptor lists and bitmaps the list and the state of
its request.  Actions: `get_chunk`, `get_descriptors` and `get_bitmap` begin; `remote_get_chunk` serves a
page or, as a proxy, pushes a fetch of its own; `get_chunk_internal_cb` takes
a page, asks for the next one or ends the fetch, in which case
`proxy_get_chunk_cb` answers the page the proxy was asked for and puts the chunk
into its storage, all in one handler; the same two kinds of action for lists and
bitmaps.  `get_next_hop` reads the table again whenever a fetch begins (`NextHop`), and all pages of the fetch
use the connection found then (`Frame`, `Hop`); `Reroute` is the routing daemon, which changes the table at any time
between.  Entries of a table are replaced and never removed, so `Routes` are total; the `fatal` for a missing entry, or
when the generator of the table fails, is what others see as the break of a connection.  Environment (`Faults`): a connection breaks under any call (`Break`; the
fetch of the proxy behind it goes on as an *orphan* that answers nobody but still fills
the cache), a put into the storage fails, a cached chunk is dropped (`Drop`).
The code's cut of the buffer before it is cached is modelled as it is: a proxy asked
for a later page of a chunk that was dropped in between stores only the rest of it (`Kept`); what is
put together from that fails the hash (`Genuine`).  `Scenarios` says which requests
are made together: chunks, lists and bitmaps share nothing, so they are not
multiplied.

### GtcdPut: objects put into the daemon

State: `xferTable` and `session` (what the chunker was given, has stored, and
commits), `st` (the `putfd_state` of every `put_fd`), and the history of answers.
Actions: `put_init`, `put_data`, `put_data_cb`, `put_commit`, `put_commit_cb`;
`put_fd`, `put_fd_read` (a read gives a piece, the end of the file or an error),
`put_fd_read_cb`, `put_fd_commit_cb`; `Close` deletes the gtcd object at the end of
the client's connection and `LateCallback` is what comes after it, which is undefined.
The chunker is external and calls back in any order, with or without an error.
`status` is `"aborted"` once the `assert` of `put_data` on the size of its data has failed.

### GtcdStart: processes on one machine

State: `proc` (program counter, command line, sockets and plugins of every
process), `path` (which process's socket a file leads to), `port`, `conn` (the clients'
connections).  `Bind`, `Probe` (the connect that tells a stale
socket), `Unlink`, `Rebind` and `Listen` are one system call each,
because other processes run in between; they are taken first for the socket of `-p` and,
after `Parse`, `StoragePlugin`, `TransferPlugin` and `SnifferPlugin`, for the sniffer plugin's.  A configuration file is a
sequence of lines: section headers, and lines with a plugin's name, chain and
parameter; `parse_config` and `parse_config_sniffer_info` are functions on it (`ParseLines`
is the first one's loop, a recursive function of the number of lines read).  Of `[sniffer]` only
the first line is read (a line of one word ends the daemon by an assertion of `pop_front`), and the chain of a storage plugin is looked up as one name, so
a list of several never finds its plugin.  A gtc plugin without a port takes `DEFAULT_PORT`; the
`configure` of a plugin that is not in this repository may fail.  `Die` ends a
process at any step; its files stay, its connections are reset.  `overlap`
records that two processes went through the socket sequence of one name at
once, the race that a comment in `gtcd_start` admits.

### IdealSniff: the sniffer for analysis

The process from its command line (`Main`, `OpenDump`, `OpenLive`, `ConnectPlugin`)
through capture (`KeepPacket`, `PlainPacket`, `NewFlow`, `OldFlow`), the search
(`EndOfDump` offline, `GrepLive` live) to `Analyse`.  Its place test and its completion
flag differ from `SniffTcp`.  Payloads are ranges of positions here; only the bytes copied from a wrong
address are told apart (`junk`), so the model reaches more modes with fewer states.

### MeshGraph, MeshPlan: the planners

`MeshGraph` has the graph library the two programs share as functions on a graph
record.  `MeshPlan` is the programs, one action per iteration of a loop: rpp's
routes from one node; swarm's search over the configurations, with
the tree per gateway (`BeginTree`, `DijkstraStep`, `Attach`), the interference model (`model_tree`), the ranks, and the
membership and routing tables of the best one (`BeginTable` to `TableEnd`).  The
program that dereferences a missing route or configuration ends in `"crash"`.

## 3. Runs

| run | instance | what it checks |
|---|---|---|
| `reassembly` | chunk of 8 bytes, 2 flows, one across the wrap of 32 numbers, packets up to 6 bytes, 18 bytes overheard | `TypeOK`, `BlocksSeparated`, `BytesInPlace`, `SentWhole`, `SentOnce`, `BytesAccounted`, refinement of `ChunkAssembly` |
| `sniff` | 2 flows: two chunks in a row with a packet across the boundary; the same chunk twice across the wrap; 1 repeat; `g_multi_chances` on and off | `TypeOK`, `SentGenuine`, `BytesInPlace`, `EveryChunkSent` |
| `ideal` | 2 flows, 3 chunks of which one is never captured, a record that is no chunk, headers cut at the end of packets, 1 repeat, all kinds of command line | `OfflineSentRight`, `EveryChunkDone`, `AnalysisComplete` |
| `connections` | 4 chunk requests, 1 for descriptors, 1 for a bitmap, limit 2, all faults, 3 connections | `TypeOK`, `ExactlyOnce`, `RefcountAccounted` |
| `connections_live` | 5 chunk requests, limit 2, breaks and timeouts, 2 connections | `WaitersHaveAWaker`, `RaisedLimit`, `EveryRequestAnswered` |
| `serve` | client, proxy that is a client too, proxy, host in a row; routing tables that change once, to the other order of the proxies; a chunk of 4 bytes in pages of 2; 2 faults; lists of 0 to 5 in pages of 2; all bitmaps up to 6 bits in pages of 4, with bytes of 2 bits | `DeliveredGenuine`, `CacheWhole`, `NoFaultNoError`, `PagesWhole`, `EveryRequestAnswered` |
| `get` | 2 transfers of one object of 3 chunks, in sequence and out of order, errors, 1 overheard chunk | `RepliesInPlace`, `EndMeansAll`, `RefsAccounted`, `MarkedIsStored` |
| `get_live` | 3 transfers: a chunk twice, shared chunks, an empty object, no errors | `EveryTransferEnds` |
| `get_error` | 1 transfer of two chunks | the finding of section 4 |
| `put` | 1 transfer of up to 2 pieces, a file of 3 pieces, an empty file, 3 errors | `CommitComplete`, `AnsweredOnce`, `PutAnswered` |
| `start` | 3 processes, at most 2 alive, 2 sockets, 1 port, five good shapes of configuration file and fourteen bad ones, plugins that fail to configure, 1 client | `ServerReachable`, `RunsAsConfigured`, `FatalExplained`, `RestartWorks` |
| `plan` | 3 mesh nodes, 2 gateways, every choice of 7 links and their costs, 4 configurations, both kinds of tree, routes of less than 4 nodes | `SearchSound`, `TablesDeliver`, `RoutesShortest` |

Why the bounds are enough.  `reassembly`: eight bytes make room for four blocks
with gaps, so every branch (merge across two blocks included) is taken, packets
can span a block with a gap on both sides, and 18 bytes suffice to overhear
everything twice.  `sniff`: a flow of two chunks has each kind of place a packet
can be in relative to a chunk, and one packet has the end of one and the header of
the next; three data packets before the header give append, prepend and merge of
kept blocks.  `connections`: limit 2 with four chunk requests makes requests
wait, three connections allow an entry to be hidden by another and a waiting
request to be moved twice.  `serve`: two pages make a first and a last
one; two proxies make a proxy of a proxy; two faults are a drop between two
pages and a break in any order; one change of the tables lets a request come back to its client, and lets what a proxy
has come from a node that is no longer on its route; the lists end before, at and behind a page
boundary, and so do the bitmaps, also inside a byte.  `get`: `SEND_SIZE` is less than the largest chunk and
more than the two smallest together, so a reply holds part of a chunk, one
chunk, or several.  `put`: three pieces allow a piece that fails between two
that do not, with the end of the file before or after any of them.
`start`: a third process starts after any two have died, overlapped or kept
running.  `plan`: a gateway may have no, one or several nodes, connected or not, and
routes may have the longest length and one more; a configuration listed twice
shows what is left over from the others.

Deadlock is checked in `plan`, where a program ends in a state of its own
(`Ended`).  In the other models the system may come to rest, when
all requests were made or the bounded environment is exhausted.

Some properties are weaker than they could be, as the code is.  `EveryChunkSent` speaks of flows
that do not wrap and do not carry a chunk twice, of chunks that only one flow
carries, and, without multiple chances, of packets seen once.
`EveryRequestAnswered` of `GtcConn` is for chunk requests and a peer without
error replies; with other requests a waiting chunk may be stuck until the
connection
idles out or breaks (hazards).  `EveryRequestAnswered` of `GtcServe` is for tables that lead to the host: with
a circle the proxies call each other without end.  `RoutesShortest` allows no route where one of least cost
has `MAX_SR_LEN` nodes.  `FatalExplained` and `RestartWorks` set aside routes that cannot be had and a plugin that fails to
configure.  `SearchSound` is about Dijkstra trees.  The exceptions stand in the
properties' comments, and the reasons in section 4.

### Fairness

`GtcConn`: a handler that has begun goes on (`RunWaiting`); a dial ends; and every
call is answered or its connection breaks (the RPC library calls back
in either case).  The reaper and requests are under no fairness.  `GtcServe`: a server takes
the requests that arrive and a client the replies, for the same reason; breaks, drops and new requests are under none.
`GtcdGet`: the client asks again until the end or an error (as an application
that wants the object does), the event loop runs what is queued, and the transfer plugin calls back for
what it was asked, which is what `EveryRequestAnswered` says of it.  `GtcdPut`: select reports a
file that can be read, and the chunker calls back; the client need do nothing.  `GtcdStart`:
processes are scheduled and the event loop accepts what is queued; nobody need
start, connect or die.  `SniffTcp`, `IdealSniff`, `ReconstructedChunk` and `MeshPlan` have safety
properties only: packets may be lost for ever.

## 4. Finding and known deviations

The finding, `get_error`: an error that comes while no `get_data` waits is stored and
never looked at by the next `get_data`, which may wait for ever, although
`xp_fetch_data_cb` speaks of "passing the first error back to the application".

Met while modelling, modelled as they are, and allowed for in the properties:

* `establish_connection` runs all pending callbacks on the new entry, whatever
  `MAX_RPCS_IN_FLIGHT` is, and counts none of them; what does hold is `RaisedLimit`.
* A chunk that occurs twice in an object becomes available again after it was
  passed on; out of order, the end may then be announced without all of the object
  (`EndMeansAll` is checked on objects without repeats).
* The bytes in front of a response that the search cut out are copied from the
  string object, not from its characters; a chunk that takes them up later is handed over
  corrupted.  `SentGenuine` allows for these bytes only, and offline, where the
  search comes last, `OfflineSentRight` shows that it cannot happen.
* A kept block that reaches over a chunk boundary, which a comment says
  cannot be, is used for the first chunk and lost for the second; it needs a
  header that is split across packets.  What a flow kept of a chunk that another flow made known
  first is not taken up either.
* A flow that carries a chunk twice moves the chunk's start to the second place, while the ChunkInfo
  keeps the first one: later packets of the first place get offsets below zero, as unsigned numbers.  Their blocks are
  behind the chunk, touch none of its own, and are never handed over.  The model does not reduce the end of such
  a block to the width of the numbers, which matters only among them; `BytesInPlace` speaks of
  blocks that start in the chunk, and the proof of `TypeOK` assumes `OncePerFlow`.
* A bitmap of more than one page is refused at its second page: an offset in bits is
  compared with a size in bytes.
* A proxy asked for a later page of a chunk that it has lost caches the rest of the chunk under the
  chunk's id (`CacheWhole` needs `lossy` to be false); the clients find out by the hash (`DeliveredGenuine`).
* `put_fd`: a second failing piece, or a failing read, is answered again through a
  freed request; a file is read on after an error.
* `put_commit` commits while pieces may be outstanding, if the client does not wait.
* Tables of different nodes that form a circle while they change make proxies call each other without end.
* Two daemons that start at once on one socket may take it from each other.
* `xpvec` is not emptied: a plugin built after one with a list gets that list too.
* Two gtc plugins with one port in a configuration file end the daemon, and so does a sniffer's socket that is the
  daemon's own: it finds itself listening there.
* `reset_graph` leaves the last node as it was: iterative trees, not Dijkstra's, depend on it.
* Mode 2 of the ideal sniffer has no dump file name and ends at once.
* `print_usage` of the sniffers says of multiple chances "default = 1"; without that
  argument it is off, because the command line's structure is zero.

## 5. Proofs

TLAPS checks these theorems for every value of the constants that the named
assumptions of the modules allow: any number of requests, transfers, nodes or
processes, any content, size and order.  TLC's runs check the same properties on small
instances.  Each proof has the same shape: an invariant that is kept by every
action (one step of the proof per action), and the property as a consequence.
The properties are hardly ever inductive themselves; what had to be added says
what the code relies on.

`ReconstructedChunkProofs`: for every chunk content, set of flows, start
numbers, packet sizes and sequence space (with the chunk and a packet together
less than half of it, `WidthAssumption`).

* `TypeCorrect`, `BlocksStaySeparated`, `BytesStayInPlace`, `OnlyWholeChunksSent`,
  `ChunkSentOnce`, `BytesStayAccounted` (`BytesAccounted`): the properties of the run `reassembly`;
* `Refinement`: `Spec => Assembly!Spec`.

That the chunk is sent whole needs the bytes to be in place and the blocks to be apart,
because the code only looks at the length of the first block.  The inductive invariant
is the conjunction of the types, *good list* (every block holds the chunk's bytes of
its range, between any two blocks there is a gap), every flow's start being unknown or right,
*once something was sent, everything is covered*, and the accounting.  The part about what was sent is what makes `SentOnce`
inductive: a packet that is not a duplicate covers an offset that no block held, so nothing
is stored after the chunk is complete.  `FillLemma` is the core: on a good list,
with a payload that is a slice of the chunk, `FillBlocks` returns a good list that
covers all that the old one did, and strictly more unless the packet is a
duplicate, in which case the list is unchanged.  It rests on lemmas about where
the loops stop (`StopAtLemma`, `MergeHaltLemma`), what replacing a range of blocks does
(`SpliceLemma`, `GrowLemma`) and what prepend and append do to slices
(`PrependGood`, `OverlappingAppendGood`); `PastEndLemma` and `KeptLemma` show that
the modular arithmetic cuts a packet exactly at the chunk's end.  The
refinement follows from the same facts: a step covers more (`Learn`) or nothing
(stuttering).

That the statistics add up is a fact about cardinalities.  Because the blocks of a good list are apart, the number of
offsets that blocks `i` to `j` hold is the sum of their sizes (`WithinSize`, by a bijection between
the offsets and the pairs that `SumTheorems` counts), so replacing them by one block changes the
number covered by its size less that sum (`SpliceCount`).  In each branch of `FillBlocks` this is the payload's size
less what the branch adds to `numDuplicateBytes` (`DuplicateBytesAppend`, `DuplicateBytesElse`), however many
blocks an append runs over.

`SniffTcpProofs`: for every set of flows, records, cuts into packets and sequence numbers that
`LayoutAssumption` and `WidthAssumption` allow, with and without multiple chances.

* `SentGenuineHolds` (`SentGenuine`) and `BytesInPlaceHolds` (`BytesInPlace`), without hypotheses;
* `TypesHold` (`TypeOK`) when no flow carries a chunk twice (`OncePerFlow`), see section 4.

Nothing of what is handed over can be said without saying where all bytes in the
process came from.  `SniffInv` says: a block of a flow is a piece of the flow's stream at its
sequence number (`OfFlow`), or bytes the search copied; a block of a chunk is a piece of the chunk at
its offset (`OfChunk`); each place where a chunk is said to start on a flow has the
chunk's header there (`HeaderAt`), in the chunk's `flow_seq_map` and in the flow's ChunkInfos, whose
chunks are known; and while the process is `defined`, a known chunk has a first block, which begins with the
header (`HasHeader`), for that is what `fill_gaps_in_chunk` measures and what the plugin reads.
That the lists are sorted is not needed: bytes are joined only where one piece ends and the other
starts.  The step lemmas follow the calls of a handler: `InsertLemma` and `FillBlocksLemma` for the
lists, `FillGapsLemma` for the cut at the chunk's end (a flow's bytes become a chunk's there, by
`FromOffset` and the layout of records), and `SearchBlockLemma` and `GrepFlowLemma` for the search.
The loops are recursive functions; that each is defined and keeps what one step keeps is shown once,
for any step function, by `FoldExists` and `FoldIn`, from the least index at which it would fail.

`GtcConnProofs`: for every number of requests of the three kinds, every limit and
every set of faults.

* `TypesHold`, `EveryCallbackOnce` (`ExactlyOnce`), `RefcountMeaning`
  (`RefcountAccounted`), without hypotheses.  `IInv` is the types, what the cache and
  the pending entries lead to, what `refcount` counts, and, while the daemon is up,
  that no list has a request twice and that a callback that is owed is in exactly *one of five
  places* (the pending entry, its own `tcpconnect`, an outstanding call, the list of an
  entry, or `todo`, the stack of the running handler).  That no list has a request
  twice is needed because taking a request off one list must not leave it there.
* `CallsBounded` (`RaisedLimit`) when no descriptors are asked for (`Desc = {}`), as in
  the run: a descriptor call does not look at the limit.
* `WaitersAreCalled` (`WaitersHaveAWaker`) when only chunks are asked for and no reply is
  an error: with the other requests it is false, which is a hazard with a note, and the reason for
  the same restriction in the run.  It needs, besides `IInv`, that there is one entry at
  a time and that the slots waiting requests wait for are taken (`WakerOK`).

`GtcServeProofs`: for every set of nodes, routing tables and changes of them, chunks, page
sizes, requests and faults.

* `ClientsGetTheirChunk` (`DeliveredGenuine`), `ProxiesStoreWholeChunks`,
  `PagesMakeTheWhole` (`PagesWhole`), `ErrorsHaveAFault` (`NoFaultNoError`), without
  hypotheses.  `FetchInv` says of the stack of fetches
  of a request that each fetch runs at the node that the one below it asked, for the page that one waits for
  (`Stacked`), and that hosts have their chunks; and, unless a put failed
  or a chunk was dropped, that what a fetch has so far is
  the beginning of the chunk (`SoundOp`) and what a proxy stored is whole.  After such a loss
  it is the hash that keeps a client from a wrong chunk.  `DescsInv` and
  `BitsInv` say of a request for a list or a bitmap that its pages so far are the beginning of the host's.
* `CacheIsWhole` (`CacheWhole`), without hypotheses too.  Its second part, that every node the chunk came
  through has it, needs `Chained`: who has the chunk got it from a node that has it.  The nodes it came through are those
  that `origin` leads to, not those of the routing table, which may have changed since.

`GtcdGetProofs`: for every object, size of its chunks and of a reply, and any number of transfers.

* `EveryReplyInPlace` (`RepliesInPlace`), without hypotheses, objects with repeated chunks included.
  `PlaceInv`: the send buffer holds the bytes of the object at the buffer's offset, replies
  are where they say, and in sequential mode it is the turn of the chunk that comes next.
* `EveryReferenceAccounted` (`RefsAccounted`), `MarkedChunksStayStored` (`MarkedIsStored`),
  `TheEndMeansAll` (`EndMeansAll`) for objects in which no chunk occurs twice (`Distinct`): with a
  repeated chunk the code takes one reference for several positions and gives back one for each, so
  the statements are false there (section 4).  `CountInv` is what the three need together: that the chunks
  counted are those whose status says so (`Ends`, `Marks`), and that the refcount of a chunk is
  the references of others plus one for each position that a
  transfer holds, and a chunk with references is stored (`Accounts`).

`SumTheorems` has the laws of sums over finite sets that this proof and the one of `BytesStayAccounted` use.  The models write sums with
`MapThenSumSet`, which recurs on the set; the lemmas show it is the number of elements of a
set of pairs, by the least set on which it is not (the order of finite sets by inclusion is
well-founded), and the laws of sums become laws of cardinality.

`GtcdPutProofs`: for every number of requests, pieces and errors, and every length of the files.

* `CommittedObjectsComplete` (`CommitComplete`), `PutFdAnsweredOnce` (`AnsweredOnce`), without
  hypotheses.  The invariant relates, for each `put_fd`, its count of outstanding pieces to those the chunker
  was given and has not stored (`PendingAccounted`; a piece that failed is counted for ever), its position in the file
  to the pieces given (`FileRead`), and its answers to its refusal, to the reads and pieces that failed and
  to its commit (`RepliesAccounted`).  From this follows that a commit is asked for
  only when all of the file is stored (`CommittedFile`).  For a transfer, what is stored is what was acknowledged, and
  a committed one is out of the table for good (`XferInv`).

`GtcdStartProofs`: for every number of processes, any sockets, ports and
plugins, and every configuration file.

* `DaemonsReachable` (`ServerReachable`), `DaemonsRunAsConfigured`
  (`RunsAsConfigured`), `FailuresExplained` (the action property `FatalExplained`).
  `StartInv` says of each process, by its program counter, which sockets it has and what it has built of
  its file (`ProcInv`); a port is held by exactly the process that built a gtc
  plugin for it (`PortInv`); and as long as no two processes overlapped, one
  process at a time is between `bind` and `listen` of a socket, what it unlinks nobody listens on, and a
  socket that is listened on keeps its file (`SocketInv`).  `InOrder` says that processes were started one after the other.
* The parser is a recursive function on the lines of the file; `ParserEnds` shows that it is
  defined for every file (a least line where it were not), `ParsedFile` and `SnifferFile` say what it finds, and
  `GoodConfigIs` that the parsers and `instantiate_plugins` accept exactly the
  good files.  `DaemonsRunAsConfigured` uses one direction, `FailuresExplained` the other.

What the proofs taught about the models.  A file's list of storage plugins is looked up
as one name, only the first line behind `[sniffer]` is read, two gtc plugins on one port end the daemon, and
so does a sniffer's socket that is the daemon's own: `GoodConfig` and `Proper` say so, and the run `start` has
files of each kind.  What a proxy has of a chunk may have come over a route that no longer is: `CacheWhole` speaks of
the nodes a chunk came through.

Only model-checked: `EveryChunkSent` of `SniffTcp` (that no byte gets lost needs an invariant of what is kept, not
only of where it came from); everything in `IdealSniff` and
`MeshPlan` (that `dijkstra` finds the shortest paths of every graph needs an invariant of the search that is
not written yet); and all liveness (`EveryRequestAnswered` in both modules,
`EveryTransferEnds`, `PutAnswered`, `RestartWorks`), which is out of the prover's
reach.  No module of this directory has a `RECURSIVE` operator.

## 6. Not modelled

* Ethernet, IP, TCP and 802.11 header parsing, CRC and printing: no state.  IP
  fragments are treated by the code as if each were a TCP packet (its comment
  calls this an important assumption); flows here are not fragmented.
* The storage and chunker plugins and the transfer plugins other than gtc: not in this repository.  The storage is modelled as
  its users use it; with callbacks that come at once in `GtcdGet`.
* A client with several `get_data` calls outstanding, and a client that
  disconnects while callbacks of a GET are outstanding: see hazards.
* How routes come about: the generator of the table is external, and `GtcServe` takes any tables, one after the
  other.  A route that changes while a request waits for a connection is not in `GtcConn` (hazards).
* Statistics and timing, but for `numDuplicateBytes`.
* `run_pcap_live_wifi`, whose calls are commented out; tree and path algorithms
  of the planners that `main` does not reach, and their random choices.
* `SniffTcpv2.cc`: not built.

## 7. Plan

Done: reassembly with its promise; connections; serving, proxies
and paging; GET and PUT side; start-up; both sniffers; the planners.  Proved: the safety
properties of reassembly, connections, serving and paging, GET, PUT and start-up, and those of the
sniffer but for `EveryChunkSent`.

1. Proofs: `OfflineSentRight` of `IdealSniff`, along the lines of `SniffInv`; `EveryChunkSent` of `SniffTcp`; `SearchSound` of `MeshPlan` with the
   invariant of Dijkstra's search; `EndMeansAll` in sequential mode without `Distinct`.
2. A client that disconnects, and several `get_data` calls, in `GtcdGet`.
3. A composition of two daemons, `GtcdGet` over what `GtcServe` promises.
