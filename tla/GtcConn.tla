-------------------------------- MODULE GtcConn --------------------------------
(***************************************************************************)
(* The client half of xferPlugin_gtc (src/src/gtcd/xfer/xferPlugin_gtc.cc): *)
(* how requests for chunks, descriptors and bitmaps of one peer share the  *)
(* cached connections to it.  Entries of different peers share nothing, so *)
(* one peer is modelled; every request is made once.                       *)
(*                                                                         *)
(* The daemon is single-threaded: a handler runs to its end.  The one part *)
(* of a handler that is not a single step here is the loop over waiting    *)
(* callbacks in ~conn_entry: what it has still to call is the stack todo,  *)
(* and no other event happens while todo is not empty.                     *)
(***************************************************************************)
EXTENDS Integers, FiniteSets, SequencesExt

CONSTANTS
  Chunk, Desc, Bitmap,   \* the requests, by the operation they call
  MAX_RPCS_IN_FLIGHT,
  Faults,                \* what the environment may do: a subset of AllFaults
  MaxConns               \* no connection is lost once this many were opened

Request   == Chunk \cup Desc \cup Bitmap
AllFaults == {"connect", "reply", "eof", "idle"}

ASSUME RequestAssumption == /\ Chunk \cap (Desc \cup Bitmap) = {}
                            /\ Desc \cap Bitmap = {}
                            /\ IsFiniteSet(Request)
ASSUME LimitAssumption   == MAX_RPCS_IN_FLIGHT \in Nat \ {0} /\ MaxConns \in Nat
ASSUME FaultAssumption   == Faults \subseteq AllFaults

VARIABLES
  conn,      \* conn_entry objects in the order they were made
  cache,     \* connCache: the entries of the peer, the one lookup finds first
  pending,   \* pendingConnCache: callbacks of the pending entry, <<>> if none
  dials,     \* tcpconnects under way for the pending entry
  connecting,\* the requests that have a tcpconnect of their own under way
  rpc,       \* rpc[r]: the connection r has a call outstanding on, NoConn if none
  todo,      \* the get_chunk calls that ~conn_entry or check_outstanding still make
  issued,    \* history: the requests made so far
  answers,   \* history: answers[r] counts the final calls of r's callback
  status     \* "up", or how the process ended

vars == <<conn, cache, pending, dials, connecting, rpc, todo, issued, answers, status>>

NoConn == 0

\* The calls outstanding on connection c.
InFlight(c) == {r \in Request : rpc[r] = c}
IsCached(c) == \E i \in 1 .. Len(cache) : cache[i] = c

\* conn_entry::conn_entry, for an entry that opened calls are made on at once.
\* (opened and leaked are history: the calls the first count stands for, and
\* the slots that error replies never gave back.)
NewConn(opened) ==
  [refcount |-> 1, wait_cb |-> <<>>, eof |-> FALSE, opened |-> opened, leaked |-> 0]

\* What is left of an entry after delete.
Freed == [refcount |-> 0, wait_cb |-> <<>>, eof |-> TRUE, opened |-> 0, leaked |-> 0]

Init ==
  /\ conn = <<>> /\ cache = <<>>
  /\ pending = <<>> /\ dials = 0 /\ connecting = {}
  /\ rpc = [r \in Request |-> NoConn]
  /\ todo = <<>>
  /\ issued = {} /\ answers = [r \in Request |-> 0]
  /\ status = "up"

-----------------------------------------------------------------------------
(* Steps that several handlers share. *)

\* The callback of r is called for the last time.
Answer(r) == answers' = [answers EXCEPT ![r] = @ + 1]

\* connCache.remove(c); delete c: the destructor calls get_chunk again for
\* every request that waits on c, before the handler goes on.
DeleteConn(c, rest) ==
  /\ \E i \in 1 .. Len(cache) : cache[i] = c /\ cache' = RemoveAt(cache, i)
  /\ conn' = [conn EXCEPT ![c] = Freed]
  /\ todo' = conn[c].wait_cb \o rest

\* refcount++ and the RPC.  On a transport that has seen the end of file the
\* call fails at once, and the callback deletes the entry and reports.
Call(r, c, rest) ==
  \/ /\ ~ conn[c].eof
     /\ conn' = [conn EXCEPT ![c].refcount = @ + 1]
     /\ rpc' = [rpc EXCEPT ![r] = c]
     /\ todo' = rest
     /\ UNCHANGED <<cache, answers>>
  \/ /\ conn[c].eof
     /\ DeleteConn(c, rest)
     /\ Answer(r)
     /\ UNCHANGED rpc

\* get_connection for a peer that is not cached: the first callback makes the
\* pending entry and dials, the following ones join it.
GetConnection(r) ==
  /\ pending' = Append(pending, r)
  /\ dials' = IF pending = <<>> THEN dials + 1 ELSE dials

\* Mutant: the limit is off by one.
GetChunkOver(r, rest) ==
  \/ /\ cache = <<>>
     /\ GetConnection(r)
     /\ todo' = rest
     /\ UNCHANGED <<conn, cache, rpc, answers>>
  \/ /\ cache # <<>>
     /\ conn[Head(cache)].refcount > MAX_RPCS_IN_FLIGHT
     /\ conn' = [conn EXCEPT ![Head(cache)].wait_cb = Append(@, r)]
     /\ todo' = rest
     /\ UNCHANGED <<cache, pending, dials, rpc, answers>>
  \/ /\ cache # <<>>
     /\ conn[Head(cache)].refcount <= MAX_RPCS_IN_FLIGHT
     /\ Call(r, Head(cache), rest)
     /\ UNCHANGED <<pending, dials>>

\* get_chunk.
GetChunk(r, rest) ==
  \/ /\ cache = <<>>
     /\ GetConnection(r)
     /\ todo' = rest
     /\ UNCHANGED <<conn, cache, rpc, answers>>
  \/ /\ cache # <<>>
     /\ conn[Head(cache)].refcount >= MAX_RPCS_IN_FLIGHT
     /\ conn' = [conn EXCEPT ![Head(cache)].wait_cb = Append(@, r)]
     /\ todo' = rest
     /\ UNCHANGED <<cache, pending, dials, rpc, answers>>
  \/ /\ cache # <<>>
     /\ conn[Head(cache)].refcount < MAX_RPCS_IN_FLIGHT
     /\ Call(r, Head(cache), rest)
     /\ UNCHANGED <<pending, dials>>

-----------------------------------------------------------------------------
(* Requests, from gtcd::fetch_data, get_init_cb or a proxied request. *)

\* An event is handled only when the previous handler has ended.
Event == status = "up" /\ todo = <<>>

RequestChunk(r) ==
  /\ Event /\ r \notin issued
  /\ issued' = issued \cup {r}
  /\ GetChunk(r, <<>>)
  /\ UNCHANGED <<connecting, status>>

\* The next of the callbacks that ~conn_entry or check_outstanding calls.
RunWaiting ==
  /\ status = "up" /\ todo # <<>>
  /\ GetChunk(Head(todo), Tail(todo))
  /\ UNCHANGED <<connecting, issued, status>>

\* get_descriptors: no limit is checked, and without an entry the request
\* dials by itself, whether or not others are dialling.
RequestDescriptors(r) ==
  /\ Event /\ r \notin issued
  /\ issued' = issued \cup {r}
  /\ \/ /\ cache = <<>>
        /\ connecting' = connecting \cup {r}
        /\ UNCHANGED <<conn, cache, rpc, todo, answers>>
     \/ /\ cache # <<>>
        /\ Call(r, Head(cache), <<>>)
        /\ UNCHANGED connecting
  /\ UNCHANGED <<pending, dials, status>>

\* get_bitmap: at the limit the daemon exits with "Why so many RPCs?".
RequestBitmap(r) ==
  /\ Event /\ r \notin issued
  /\ issued' = issued \cup {r}
  /\ \/ /\ cache = <<>>
        /\ connecting' = connecting \cup {r}
        /\ UNCHANGED <<conn, cache, rpc, todo, answers, status>>
     \/ /\ cache # <<>>
        /\ conn[Head(cache)].refcount >= MAX_RPCS_IN_FLIGHT
        /\ status' = "fatal"
        /\ UNCHANGED <<conn, cache, connecting, rpc, todo, answers>>
     \/ /\ cache # <<>>
        /\ conn[Head(cache)].refcount < MAX_RPCS_IN_FLIGHT
        /\ Call(r, Head(cache), <<>>)
        /\ UNCHANGED <<connecting, status>>
  /\ UNCHANGED <<pending, dials>>

-----------------------------------------------------------------------------
(* The end of a tcpconnect. *)

\* Mutant: the previous entry is put into the cache, not the new one.
OpenConnPrevious(opened) ==
  /\ conn' = Append(conn, NewConn(opened))
  /\ cache' = <<Len(conn)>> \o cache

\* A new entry goes to the front of its bucket and hides the older ones.
OpenConn(opened) ==
  /\ conn' = Append(conn, NewConn(opened))
  /\ cache' = <<Len(conn) + 1>> \o cache

\* establish_connection with a socket: every pending request calls on the new
\* entry, whose refcount stays 1.  (The fatal for a dial without a pending entry
\* is what TypeOK rules out.)
EstablishConnection ==
  /\ Event /\ dials > 0 /\ pending # <<>>
  /\ OpenConn(Len(pending))
  /\ rpc' = [r \in Request |->
               IF \E i \in 1 .. Len(pending) : pending[i] = r THEN Len(conn) + 1 ELSE rpc[r]]
  /\ pending' = <<>>
  /\ dials' = dials - 1
  /\ UNCHANGED <<connecting, todo, issued, answers, status>>

\* establish_connection without one: get_chunk_int reports the error to the
\* first pending request and goes on to use the connection it was not given.
EstablishFails ==
  /\ Event /\ dials > 0 /\ pending # <<>> /\ "connect" \in Faults
  /\ Answer(Head(pending))
  /\ status' = "null dereference"
  /\ UNCHANGED <<conn, cache, pending, dials, connecting, rpc, todo, issued>>

\* A request that dialled by itself has its connection, or an error.
DirectConnect(r) ==
  /\ Event
  /\ connecting' = connecting \ {r}
  /\ \/ /\ OpenConn(1)
        /\ rpc' = [rpc EXCEPT ![r] = Len(conn) + 1]
        /\ UNCHANGED answers
     \/ /\ "connect" \in Faults
        /\ Answer(r)
        /\ UNCHANGED <<conn, cache, rpc>>
  /\ UNCHANGED <<pending, dials, todo, issued, status>>

\* get_descriptors_clnt and get_bitmap_clnt.
GetDescriptorsClnt(r) == r \in Desc \cap connecting /\ DirectConnect(r)
GetBitmapClnt(r)      == r \in Bitmap \cap connecting /\ DirectConnect(r)

-----------------------------------------------------------------------------
(* What happens to an outstanding call.  A reply that is not the last page   *)
(* repeats the call on the same connection and changes nothing here.         *)

Ends(r) == rpc' = [rpc EXCEPT ![r] = NoConn] /\ Answer(r)

\* Mutant: nobody is called.
CheckOutstandingNever(c) == conn' = [conn EXCEPT ![c].refcount = @ - 1] /\ todo' = <<>>

\* Mutant: the callback is called but stays on the list.
CheckOutstandingKeep(c) ==
  /\ conn' = [conn EXCEPT ![c].refcount = @ - 1]
  /\ todo' = SubSeq(conn[c].wait_cb, 1, IF conn[c].wait_cb = <<>> THEN 0 ELSE 1)

\* Mutant: the callback is taken off the list but never called.
CheckOutstandingDrop(c) ==
  /\ conn' = [conn EXCEPT ![c].refcount = @ - 1,
                          ![c].wait_cb = IF @ = <<>> THEN @ ELSE Tail(@)]
  /\ todo' = <<>>

\* check_outstanding: the callback that has waited longest on c is taken off
\* the list, and called.
CheckOutstanding(c) ==
  IF conn[c].wait_cb = <<>>
  THEN conn' = [conn EXCEPT ![c].refcount = @ - 1] /\ todo' = <<>>
  ELSE /\ conn' = [conn EXCEPT ![c].refcount = @ - 1, ![c].wait_cb = Tail(@)]
       /\ todo' = <<Head(conn[c].wait_cb)>>

\* Mutant: the slot of a finished call is not given back.
ChunkReplyHold(r) ==
  /\ Event /\ r \in Chunk /\ IsCached(rpc[r])
  /\ Ends(r)
  /\ UNCHANGED <<conn, cache, todo, pending, dials, connecting, issued, status>>

\* get_chunk_internal_cb with the whole, valid chunk.
ChunkReply(r) ==
  /\ Event /\ r \in Chunk /\ IsCached(rpc[r])
  /\ CheckOutstanding(rpc[r])
  /\ Ends(r)
  /\ UNCHANGED <<cache, pending, dials, connecting, issued, status>>

\* The slot is given back, but no waiting request is called.
DirectReply(r) ==
  /\ Event /\ IsCached(rpc[r])
  /\ conn' = [conn EXCEPT ![rpc[r]].refcount = @ - 1]
  /\ Ends(r)
  /\ UNCHANGED <<cache, pending, dials, connecting, todo, issued, status>>

\* get_desc_internal_cb and get_bitmap_internal_cb with the last page.
DescReply(r)   == r \in Desc /\ DirectReply(r)
BitmapReply(r) == r \in Bitmap /\ DirectReply(r)

\* An error reply, or a chunk whose hash is not its name: the request is
\* answered, the slot is never given back and nobody is called.
ErrorReply(r) ==
  /\ Event /\ IsCached(rpc[r]) /\ "reply" \in Faults
  /\ conn' = [conn EXCEPT ![rpc[r]].leaked = @ + 1]
  /\ Ends(r)
  /\ UNCHANGED <<cache, pending, dials, connecting, todo, issued, status>>

\* The connection breaks.  An idle entry stays cached.  With one call
\* outstanding its callback deletes the entry; with more, the callbacks after
\* the first remove and delete the entry again, which is undefined.
ConnectionBreaks(c) ==
  /\ Event /\ IsCached(c) /\ ~ conn[c].eof /\ "eof" \in Faults /\ Len(conn) < MaxConns
  /\ \/ /\ InFlight(c) = {}
        /\ conn' = [conn EXCEPT ![c].eof = TRUE]
        /\ UNCHANGED <<cache, rpc, todo, answers, status>>
     \/ \E r \in InFlight(c) :
          /\ InFlight(c) = {r}
          /\ DeleteConn(c, <<>>)
          /\ Ends(r)
          /\ UNCHANGED status
     \/ \E r \in InFlight(c) :
          /\ InFlight(c) # {r}
          /\ Answer(r)
          /\ status' = "undefined"
          /\ UNCHANGED <<conn, cache, rpc, todo>>
  /\ UNCHANGED <<pending, dials, connecting, issued>>

\* The callback of a call whose entry the reaper deleted: undefined.
CallbackAfterDelete(r) ==
  /\ Event /\ rpc[r] # NoConn /\ ~ IsCached(rpc[r])
  /\ status' = "undefined"
  /\ UNCHANGED <<conn, cache, pending, dials, connecting, rpc, todo, issued, answers>>

\* int_reap_conn_entries on an entry unused for CONN_ENTRY_IDLE_SEC.
ReapConnEntry(c) ==
  /\ Event /\ IsCached(c) /\ "idle" \in Faults /\ Len(conn) < MaxConns
  /\ conn[c].refcount = 0
  /\ DeleteConn(c, <<>>)
  /\ UNCHANGED <<pending, dials, connecting, rpc, issued, answers, status>>

Next ==
  \/ \E r \in Chunk : RequestChunk(r)
  \/ \E r \in Desc : RequestDescriptors(r)
  \/ \E r \in Bitmap : RequestBitmap(r)
  \/ RunWaiting
  \/ EstablishConnection \/ EstablishFails
  \/ \E r \in Request : \/ GetDescriptorsClnt(r) \/ GetBitmapClnt(r)
                        \/ ChunkReply(r) \/ DescReply(r) \/ BitmapReply(r)
                        \/ ErrorReply(r) \/ CallbackAfterDelete(r)
  \/ \E c \in 1 .. Len(conn) : ConnectionBreaks(c) \/ ReapConnEntry(c)

\* A handler that has begun runs to its end; a tcpconnect ends; and the peer
\* answers every call, or the connection to it breaks.
Fairness ==
  /\ WF_vars(RunWaiting)
  /\ WF_vars(EstablishConnection \/ EstablishFails)
  /\ \A r \in Request :
       /\ WF_vars(GetDescriptorsClnt(r) \/ GetBitmapClnt(r))
       /\ WF_vars(\/ ChunkReply(r) \/ DescReply(r) \/ BitmapReply(r) \/ ErrorReply(r)
                  \/ CallbackAfterDelete(r)
                  \/ \E c \in 1 .. Len(conn) : rpc[r] = c /\ ConnectionBreaks(c))

Spec == Init /\ [][Next]_vars /\ Fairness

-----------------------------------------------------------------------------
(* Properties *)

ConnEntry == [refcount : Int, wait_cb : Seq(Chunk), eof : BOOLEAN, opened : Nat, leaked : Nat]

\* The state has its types; only entries that exist are cached.  While requests
\* are pending exactly one dial is under way, and a dial always finds its pending
\* entry, or establish_connection would exit the daemon.
TypeOK ==
  /\ conn \in Seq(ConnEntry)
  /\ cache \in Seq(1 .. Len(conn))
  /\ pending \in Seq(Chunk) /\ todo \in Seq(Chunk)
  /\ dials = IF pending = <<>> THEN 0 ELSE 1
  /\ connecting \subseteq Desc \cup Bitmap
  /\ rpc \in [Request -> 0 .. Len(conn)]
  /\ issued \subseteq Request
  /\ answers \in [Request -> Nat]
  /\ status \in {"up", "fatal", "null dereference", "undefined"}

\* The places that hold the callback of r and are to call it.
Places(r) ==
       {<<"pending", i>> : i \in {i \in 1 .. Len(pending) : pending[i] = r}}
  \cup {<<"todo", i>> : i \in {i \in 1 .. Len(todo) : todo[i] = r}}
  \cup (UNION {{<<"waiting", c, i>> : i \in {i \in 1 .. Len(conn[c].wait_cb) :
                                               conn[c].wait_cb[i] = r}} :
               c \in 1 .. Len(conn)})
  \cup {<<"connecting", d>> : d \in {d \in connecting : d = r}}
  \cup {<<"call", c>> : c \in {c \in 1 .. Len(conn) : rpc[r] = c}}

\* As long as the daemon is up, a request that was made and not yet answered
\* is held in exactly one place, and one that was answered in none: no path
\* through dialling, waiting, a deleted entry's destructor or a broken
\* connection drops a callback or calls it twice.
ExactlyOnce ==
  status = "up" =>
    \A r \in Request :
      /\ answers[r] <= 1
      /\ Places(r) # {} <=> r \in issued /\ answers[r] = 0
      /\ \A p, q \in Places(r) : p = q

\* What refcount means: the calls outstanding on an entry, plus the slots that
\* error replies took for good, less the calls that establish_connection made
\* without counting them.
RefcountAccounted ==
  status = "up" =>
    \A c \in 1 .. Len(conn) :
      IsCached(c) => conn[c].refcount = Cardinality(InFlight(c)) + conn[c].leaked
                                        - (conn[c].opened - 1)

\* A waiting callback runs only through ~conn_entry or check_outstanding, so
\* an entry that requests wait on must have a call outstanding whose end will
\* take one of them off.  (Holds when only chunks are requested and the peer
\* sends no error replies; see the hazards.)
WaitersHaveAWaker ==
  Event => \A c \in 1 .. Len(conn) :
             conn[c].wait_cb # <<>> => /\ conn[c].refcount >= MAX_RPCS_IN_FLIGHT
                                       /\ InFlight(c) # {}

\* The limit the code does keep, for chunks alone: what was pending when the
\* connection came up, all but one, comes on top of it for good.
RaisedLimit ==
  \A c \in 1 .. Len(conn) :
    IsCached(c) => Cardinality(InFlight(c)) <= MAX_RPCS_IN_FLIGHT + conn[c].opened - 1

\* Every request is answered, unless the daemon dies: no request waits for
\* ever behind the limit or on an entry that is gone.
EveryRequestAnswered ==
  \A r \in Chunk : r \in issued ~> answers[r] = 1 \/ status # "up"

=============================================================================
