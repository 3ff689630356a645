------------------------------- MODULE GtcServe -------------------------------
(***************************************************************************)
(* What xferPlugin_gtc (src/src/gtcd/xfer/xferPlugin_gtc.cc) sends over its *)
(* connections: chunks, descriptors and bitmaps, page by page, and the      *)
(* on-path proxies between a client and the host that a hint names.         *)
(*                                                                         *)
(* A chunk request goes to the next hop towards the host.  A node that has  *)
(* the chunk answers the page asked for; a node that does not, and is not   *)
(* the host, fetches the whole chunk from its own next hop, answers the     *)
(* page from it and stores it.  So a request is a stack of fetches: the     *)
(* first runs at the client, each other one at a proxy for a page of the    *)
(* fetch below it, and only the last waits for the network.  When the       *)
(* connection below a proxy breaks, its fetch goes on as an orphan.  The    *)
(* routing tables may change: a fetch keeps to the hop it began with.       *)
(*                                                                         *)
(* A chunk's bytes are named by their positions.  The storage is external:  *)
(* a put of a chunk that is there leaves it as it is, a put may fail, and a *)
(* cached chunk may be dropped.  Connections and their limits are GtcConn.  *)
(***************************************************************************)
EXTENDS Integers, FiniteSets, SequencesExt

CONSTANTS
  Node, Chunk,
  ChunkLen,     \* ChunkLen[c]: bytes of chunk c
  Routes,       \* the routing tables, one after the other: Routes[e][n][h] is n's entry for host h
  Fetch,        \* chunk requests, with the client, the chunk and the host of their hint
  Wants,
  SEND_SIZE,    \* most bytes of a page
  Lists,        \* the descriptor lists a host may have
  MaxDescs,     \* most descriptors of a page, SEND_SIZE * 2 / (EVP_MAX_MD_SIZE * 5)
  Bitmaps,      \* the bitmaps a host may have
  BYTE,         \* bits of a byte, 8
  MaxBits,      \* most bits of a page, SEND_SIZE / 2 * 8
  Scenarios,    \* the sets of requests made: of Fetch, "descriptors" and "bitmap"
  MaxFaults     \* bound on breaks, failed puts and dropped chunks

Whole(c) == [k \in 1 .. ChunkLen[c] |-> k]

\* An operation is a request or an orphan, which only its number names.
Orphan == 1 .. MaxFaults
Op     == Fetch \cup Orphan

ASSUME ServeAssumption ==
  /\ Node # {} /\ Chunk # {} /\ MaxFaults \in Nat /\ Fetch \cap Orphan = {}
  /\ SEND_SIZE \in Nat \ {0} /\ ChunkLen \in [Chunk -> Nat \ {0}]
  /\ Routes \in Seq([Node -> [Node -> Node]]) /\ Routes # <<>>
  /\ Wants \in [Fetch -> [at : Node, chunk : Chunk, host : Node]]
ASSUME PagingAssumption ==
  /\ MaxDescs \in Nat \ {0} /\ BYTE \in Nat \ {0}
  /\ MaxBits \in Nat \ {0} /\ MaxBits % BYTE = 0
  /\ \A l \in Lists : l \in Seq(Range(l))
  /\ Bitmaps \subseteq Seq(BOOLEAN)

Absent  == <<>>      \* a chunk the storage does not have
NoReply == [ok |-> FALSE, offset |-> -1]
Error   == [ok |-> FALSE, offset |-> 0]
NoOp    == [chunk |-> CHOOSE c \in Chunk : TRUE, host |-> CHOOSE n \in Node : TRUE,
            frames |-> <<>>, reply |-> NoReply]

VARIABLES
  epoch,    \* the tables that hold
  store,    \* store[n][c]: what the storage of n has under the id of c
  origin,   \* origin[n][c]: the node that n got that from (history)
  op,       \* op[i]: chunk, host, the stack of fetches, and the reply to the last of them
  answer,   \* answer[r]: what the callback of request r was given, and the hop it is from
  faults,   \* number of faults so far
  lossy,    \* a put failed or a chunk was dropped
  descs,    \* the descriptor list of the host, and the request for it
  dget,
  bits,     \* the bitmap of the host, and the request for it
  bget

vars == <<epoch, store, origin, op, answer, faults, lossy, descs, dget, bits, bget>>

paging == <<descs, dget, bits, bget>>
stored   == <<store, origin>>
fetching == <<epoch, stored, op, answer, lossy>>

\* What is asked for is "new", what is not is "never".
Asked(r, asked) == IF r \in asked THEN "new" ELSE "never"

Calling(s)  == s.state = "open" /\ s.reply = NoReply
Replied(s)  == s.state = "open" /\ s.reply # NoReply

\* get_next_hop: the entry of the table as it is now.
NextHop(n, h) == Routes[epoch][n][h]

Frame(n, off, hop) == [node |-> n, off |-> off, hop |-> hop, data |-> <<>>]

Init ==
  /\ epoch = 1
  /\ store = [n \in Node |-> [c \in Chunk |->
                IF \E r \in Fetch : Wants[r].chunk = c /\ Wants[r].host = n
                THEN Whole(c) ELSE Absent]]
  /\ origin = [n \in Node |-> [c \in Chunk |-> n]]
  /\ op = [i \in Op |-> NoOp]
  /\ \E asked \in Scenarios :
       /\ answer = [r \in Fetch |-> [state |-> Asked(r, asked), data |-> <<>>, from |-> Wants[r].host]]
       /\ dget = [state |-> Asked("descriptors", asked), data |-> <<>>, reply |-> NoReply]
       /\ descs \in IF "descriptors" \in asked THEN Lists ELSE {<<>>}
       /\ bits \in IF "bitmap" \in asked THEN Bitmaps ELSE {<<>>}
       /\ bget = [state |-> Asked("bitmap", asked), data |-> <<>>, reply |-> NoReply]
  /\ faults = 0 /\ lossy = FALSE

-----------------------------------------------------------------------------
(* Chunks *)

Active(i) == op[i].frames # <<>>
Top(i)    == Last(op[i].frames)
Hop(i)    == Top(i).hop

\* The routing table file of some nodes is written anew; get_next_hop will read it.
Reroute ==
  /\ epoch < Len(Routes) /\ epoch' = epoch + 1
  /\ UNCHANGED <<stored, op, answer, faults, lossy, paging>>

\* get_chunk of the plugin: the hop is found and the first page is asked for.
get_chunk(r) ==
  /\ answer[r].state = "new"
  /\ LET w   == Wants[r]
         hop == NextHop(w.at, w.host)
     IN  /\ op' = [op EXCEPT ![r] = [chunk |-> w.chunk, host |-> w.host,
                                     frames |-> <<Frame(w.at, 0, hop)>>, reply |-> NoReply]]
         /\ answer' = [answer EXCEPT ![r].state = "open"]
  /\ UNCHANGED <<epoch, stored, faults, lossy, paging>>

\* remote_get_chunk_cb with data: the page at offset.
PageReply(data, offset) ==
  IF offset >= Len(data) THEN Error
  ELSE [ok |-> TRUE, offset |-> offset, end |-> Len(data) - offset <= SEND_SIZE,
        data |-> SubSeq(data, offset + 1, Min({offset + SEND_SIZE, Len(data)}))]

\* Mutant: a proxy never fetches.
remote_get_chunk_LastTry(i) ==
  /\ Active(i) /\ op[i].reply = NoReply
  /\ LET have   == store[Hop(i)][op[i].chunk]
         offset == Len(Top(i).data)
     IN  op' = [op EXCEPT ![i].reply = IF have # Absent THEN PageReply(have, offset) ELSE Error]
  /\ UNCHANGED <<epoch, stored, answer, faults, lossy, paging>>

\* remote_get_chunk at the next hop, and the answer of its storage: the page,
\* an error from the host itself, or a fetch on behalf of the caller.
remote_get_chunk(i) ==
  /\ Active(i) /\ op[i].reply = NoReply
  /\ LET have   == store[Hop(i)][op[i].chunk]
         offset == Len(Top(i).data)
     IN  \/ /\ have # Absent
            /\ op' = [op EXCEPT ![i].reply = PageReply(have, offset)]
         \/ /\ have = Absent /\ Hop(i) = op[i].host
            /\ op' = [op EXCEPT ![i].reply = Error]
         \/ /\ have = Absent /\ Hop(i) # op[i].host
            /\ op' = [op EXCEPT ![i].frames =
                        Append(@, Frame(Hop(i), offset, NextHop(Hop(i), op[i].host)))]
  /\ UNCHANGED <<epoch, stored, answer, faults, lossy, paging>>

\* Mutant: a proxy that cannot fetch never replies.
FetchFailsSilent(i) ==
  /\ op' = [op EXCEPT ![i].frames = <<>>, ![i].reply = NoReply]
  /\ answer' = IF i \in Fetch /\ Len(op[i].frames) = 1
               THEN [answer EXCEPT ![i].state = "error"] ELSE answer

\* The callback of a fetch that failed: the error goes to whoever waits for it.
FetchFails(i) ==
  /\ op' = [op EXCEPT ![i].frames = Front(@),
                      ![i].reply = IF Len(op[i].frames) = 1 THEN NoReply ELSE Error]
  /\ answer' = IF i \in Fetch /\ Len(op[i].frames) = 1
               THEN [answer EXCEPT ![i].state = "error"] ELSE answer

\* Mutant: only the page is stored.
KeptPage(data, off) == SubSeq(data, off + 1, Min({off + SEND_SIZE, Len(data)}))

\* What is left of the data of a fetch for the page at off when it is stored:
\* remote_get_chunk_cb has removed the bytes before the page.
Kept(data, off) == IF off >= Len(data) THEN data ELSE SubSeq(data, off + 1, Len(data))

\* proxy_get_chunk_cb without error, at the node of the last fetch: the page
\* for the fetch below (nobody, for an orphan), then put_ichunk.
proxy_get_chunk_cb(i, data) ==
  LET n == Top(i).node
      c == op[i].chunk
  IN  /\ op' = [op EXCEPT ![i].frames = Front(@),
                          ![i].reply = IF Len(op[i].frames) = 1 THEN NoReply
                                       ELSE PageReply(data, Top(i).off)]
      /\ \/ /\ IF store[n][c] = Absent
               THEN /\ store' = [store EXCEPT ![n][c] = Kept(data, Top(i).off)]
                    /\ origin' = [origin EXCEPT ![n][c] = Hop(i)]
               ELSE UNCHANGED stored
            /\ UNCHANGED <<faults, lossy>>
         \/ /\ faults < MaxFaults /\ faults' = faults + 1
            /\ lossy' = TRUE
            /\ UNCHANGED stored

\* Mutant: the id of the data is not compared.
GenuineAlways(data, c) == TRUE

\* compute_chunk_id gives the id that was asked for.
Genuine(data, c) == data = Whole(c)

\* get_chunk_internal_cb: an error, a page before the last one, or the last.
get_chunk_internal_cb(i) ==
  /\ Active(i) /\ op[i].reply # NoReply
  /\ LET reply == op[i].reply
         data  == Top(i).data \o reply.data
     IN  \/ /\ ~ reply.ok
            /\ FetchFails(i)
            /\ UNCHANGED <<stored, faults, lossy>>
         \/ /\ reply.ok /\ ~ reply.end
            /\ op' = [op EXCEPT ![i].reply = NoReply, ![i].frames[Len(op[i].frames)].data = data]
            /\ UNCHANGED <<stored, answer, faults, lossy>>
         \/ /\ reply.ok /\ reply.end /\ ~ Genuine(data, op[i].chunk)
            /\ FetchFails(i)
            /\ UNCHANGED <<stored, faults, lossy>>
         \/ /\ reply.ok /\ reply.end /\ Genuine(data, op[i].chunk)
            /\ i \in Fetch /\ Len(op[i].frames) = 1
            /\ answer' = [answer EXCEPT ![i] = [state |-> "ok", data |-> data, from |-> Hop(i)]]
            /\ op' = [op EXCEPT ![i].reply = NoReply, ![i].frames = <<>>]
            /\ UNCHANGED <<stored, faults, lossy>>
         \/ /\ reply.ok /\ reply.end /\ Genuine(data, op[i].chunk)
            /\ i \in Orphan \/ Len(op[i].frames) > 1
            /\ proxy_get_chunk_cb(i, data)
            /\ UNCHANGED answer
  /\ UNCHANGED <<epoch, paging>>

\* The connection that fetch k of the stack waits on breaks: it has an error,
\* and the fetches above it, if any, go on for nobody.
Break(i, k) ==
  /\ Active(i) /\ k \in DOMAIN op[i].frames
  /\ faults < MaxFaults /\ faults' = faults + 1
  /\ op' = [op EXCEPT ![i].frames = SubSeq(@, 1, k), ![i].reply = Error,
                      ![faults'] = IF k < Len(op[i].frames)
                                   THEN [op[i] EXCEPT !.frames = SubSeq(@, k + 1, Len(@))]
                                   ELSE NoOp]
  /\ UNCHANGED <<epoch, stored, answer, lossy, paging>>

\* The storage of a node other than the host drops a chunk.
Drop(n, c) ==
  /\ store[n][c] # Absent
  /\ \A r \in Fetch : Wants[r].host # n
  /\ faults < MaxFaults /\ faults' = faults + 1
  /\ store' = [store EXCEPT ![n][c] = Absent]
  /\ lossy' = TRUE
  /\ UNCHANGED <<epoch, origin, op, answer, paging>>

-----------------------------------------------------------------------------
(* Descriptors and bitmaps: straight from the host, page by page *)

\* One of the storage's errors, or a connection that breaks.
Fault == faults < MaxFaults /\ faults' = faults + 1

get_descriptors ==
  /\ dget.state = "new"
  /\ dget' = [dget EXCEPT !.state = "open"]
  /\ UNCHANGED <<fetching, faults, descs, bits, bget>>

DescsReply(offset) ==
  IF offset > 0 /\ offset >= Len(descs) THEN Error
  ELSE [ok |-> TRUE, offset |-> offset, end |-> Len(descs) - offset <= MaxDescs,
        data |-> SubSeq(descs, offset + 1, Min({offset + MaxDescs, Len(descs)}))]

remote_get_descriptors ==
  /\ Calling(dget)
  /\ \/ dget' = [dget EXCEPT !.reply = DescsReply(Len(dget.data))] /\ UNCHANGED faults
     \/ dget' = [dget EXCEPT !.reply = Error] /\ Fault
  /\ UNCHANGED <<fetching, descs, bits, bget>>

\* The callback gets each page; data is all it got.
get_desc_internal_cb ==
  /\ Replied(dget)
  /\ LET reply == dget.reply
     IN  dget' = IF ~ reply.ok THEN [dget EXCEPT !.state = "error"]
                 ELSE [state |-> IF reply.end THEN "ok" ELSE "open",
                       data  |-> dget.data \o reply.data, reply |-> NoReply]
  /\ UNCHANGED <<fetching, faults, descs, bits, bget>>

get_bitmap ==
  /\ bget.state = "new"
  /\ bget' = [bget EXCEPT !.state = "open"]
  /\ UNCHANGED <<fetching, faults, descs, dget, bits>>

Bytes(n) == (n + BYTE - 1) \div BYTE

\* Bit i is bit i % BYTE of byte i / BYTE, counted from 0; the last byte is filled with zeros.
convert_from_bitvec(bmp) ==
  [b \in 1 .. Bytes(Len(bmp)) |->
     [j \in 0 .. BYTE - 1 |-> LET i == (b - 1) * BYTE + j + 1
                              IN  i <= Len(bmp) /\ bmp[i]]]

\* Mutant: the last, partial byte is not unpacked.
convert_to_bitvec_Floor(bmp, count) ==
  [i \in 1 .. count |-> i <= (count \div BYTE) * BYTE /\ bmp[((i - 1) \div BYTE) + 1][(i - 1) % BYTE]]

convert_to_bitvec(bmp, count) ==
  [i \in 1 .. count |-> bmp[((i - 1) \div BYTE) + 1][(i - 1) % BYTE]]

\* The offset, in bits, is compared with the length in bytes.
BitmapReply(offset) ==
  LET packed   == convert_from_bitvec(bits)
      sendbits == Min({MaxBits, Len(bits) - offset})
      first    == offset \div BYTE
  IN  IF offset > 0 /\ offset >= Len(packed) THEN Error
      ELSE [ok |-> TRUE, offset |-> offset, end |-> Len(bits) - offset <= MaxBits,
            count |-> sendbits, bmp |-> SubSeq(packed, first + 1, first + Bytes(sendbits))]

remote_get_bitmap ==
  /\ Calling(bget)
  /\ \/ bget' = [bget EXCEPT !.reply = BitmapReply(Len(bget.data))] /\ UNCHANGED faults
     \/ bget' = [bget EXCEPT !.reply = Error] /\ Fault
  /\ UNCHANGED <<fetching, descs, dget, bits>>

get_bitmap_internal_cb ==
  /\ Replied(bget)
  /\ LET reply == bget.reply
     IN  bget' = IF ~ reply.ok THEN [bget EXCEPT !.state = "error"]
                 ELSE [state |-> IF reply.end THEN "ok" ELSE "open",
                       data  |-> SubSeq(bget.data, 1, reply.offset)
                                   \o convert_to_bitvec(reply.bmp, reply.count),
                       reply |-> NoReply]
  /\ UNCHANGED <<fetching, faults, descs, dget, bits>>

-----------------------------------------------------------------------------
\* dispatch: the requests that a server takes from its connections.
Dispatch ==
  \/ \E i \in Op : remote_get_chunk(i)
  \/ remote_get_descriptors
  \/ remote_get_bitmap

\* The replies that a client takes from its connections.
Receive ==
  \/ \E i \in Op : get_chunk_internal_cb(i)
  \/ get_desc_internal_cb
  \/ get_bitmap_internal_cb

Next ==
  \/ Reroute
  \/ \E r \in Fetch : get_chunk(r)
  \/ get_descriptors
  \/ get_bitmap
  \/ Dispatch
  \/ Receive
  \/ \E i \in Op : \E k \in DOMAIN op[i].frames : Break(i, k)
  \/ \E n \in Node, c \in Chunk : Drop(n, c)

\* Servers serve, and replies arrive: the daemon's event loop runs on.
Fairness ==
  /\ \A i \in Op : WF_vars(remote_get_chunk(i)) /\ WF_vars(get_chunk_internal_cb(i))
  /\ WF_vars(remote_get_descriptors) /\ WF_vars(get_desc_internal_cb)
  /\ WF_vars(remote_get_bitmap) /\ WF_vars(get_bitmap_internal_cb)

Spec     == Init /\ [][Next]_vars
FairSpec == Spec /\ Fairness

-----------------------------------------------------------------------------
(* Properties *)

\* The nodes that the chunk of r came through: the hop it is from, the node that
\* one got it from, and so on to the host.
Path(r) ==
  {n \in Node : \A S \in SUBSET Node :
     answer[r].from \in S /\ (\A m \in S : origin[m][Wants[r].chunk] \in S) => n \in S}

\* What a node has stored as a chunk is the chunk.
StoredWhole == \A n \in Node, c \in Chunk : store[n][c] \in {Absent, Whole(c)}

\* Whatever the proxies have stored, and however the pages of a chunk were
\* put together, a client is only ever given the chunk it asked for.
DeliveredGenuine ==
  \A r \in Fetch : answer[r].state = "ok" => answer[r].data = Whole(Wants[r].chunk)

\* As long as no put fails and no chunk is dropped, connections that break do
\* not make a proxy store a part of a chunk as the chunk, and a chunk that a
\* client was given is at every node it came through.
CacheWhole ==
  ~ lossy => /\ StoredWhole
             /\ \A r \in Fetch : answer[r].state = "ok" =>
                  \A n \in Path(r) : store[n][Wants[r].chunk] # Absent

\* The pages of a descriptor list make up the list, also when it is empty or
\* ends on a page boundary; and a bitmap that is delivered is the host's, bit
\* for bit.
PagesWhole ==
  /\ dget.state = "ok" => dget.data = descs
  /\ dget.state = "open" => IsPrefix(dget.data, descs)
  /\ bget.state = "ok" => bget.data = bits

\* Requests fail only after a fault, whatever other requests do.  (Except for a
\* bitmap of more than one page, which remote_get_bitmap refuses at the second
\* one: it compares an offset in bits with the size of the bitmap in bytes.)
NoFaultNoError ==
  faults = 0 => /\ \A r \in Fetch : answer[r].state # "error"
                /\ dget.state # "error"
                /\ Len(bits) <= MaxBits => bget.state # "error"

\* Every request is answered, over breaking connections and orphaned fetches.
EveryRequestAnswered ==
  /\ \A r \in Fetch : answer[r].state = "open" ~> answer[r].state \in {"ok", "error"}
  /\ dget.state = "open" ~> dget.state \in {"ok", "error"}
  /\ bget.state = "open" ~> bget.state \in {"ok", "error"}
=============================================================================
