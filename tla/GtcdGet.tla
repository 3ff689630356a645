-------------------------------- MODULE GtcdGet --------------------------------
(***************************************************************************)
(* The GET side of the daemon (src/src/gtcd/gtcd.T): transfers that fetch  *)
(* the chunks of an object into the storage plugin and stream the object   *)
(* to a client, in sequence or in the order in which chunks become         *)
(* available.  Transfers share the storage, and nothing else.              *)
(*                                                                         *)
(* A client has one get_data outstanding at a time.  The storage plugin    *)
(* (not in this repository) calls its callbacks at once, so a handler that *)
(* reads chunks from it is one step.                                       *)
(***************************************************************************)
EXTENDS Integers, Sequences, FiniteSets, FiniteSetsExt

CONSTANTS
  Xfer,         \* the transfers
  Id,           \* chunk ids
  Size,         \* Size[id]: the bytes of the chunk, at least 1
  Descs,        \* Descs[x]: the chunk ids of the object that x transfers
  Mode,         \* Mode[x]: XFER_SEQUENTIAL or XFER_OUT_OF_ORDER
  SEND_SIZE,    \* the most bytes in one reply
  Errors,       \* whether the transfer plugin may report errors
  MaxOverheard  \* bound on the chunks that others put into the storage

Modes == {"XFER_SEQUENTIAL", "XFER_OUT_OF_ORDER"}

ASSUME XferAssumption  == IsFiniteSet(Xfer)
ASSUME DescsAssumption == Descs \in [Xfer -> Seq(Id)] /\ Mode \in [Xfer -> Modes]
ASSUME SizeAssumption  == Size \in [Id -> Nat \ {0}] /\ SEND_SIZE \in Nat \ {0}
ASSUME BoundAssumption == Errors \in BOOLEAN /\ MaxOverheard \in Nat

VARIABLES
  xfer,       \* xferTable, and what the client of the transfer has seen
  asks,       \* asks[x]: the get_data calls of the client so far
  scheduled,  \* transfers with a fetch_data on the event queue
  asked,      \* asked[x]: the positions requested from the transfer plugin
  stored,     \* the chunks the storage plugin has
  refs,       \* their refcounts, 0 for a chunk it does not have
  others,     \* history: the references that others hold
  known,      \* the objects (sequences of ids) whose descriptors the storage has
  status      \* "up", or how the daemon ended

vars == <<xfer, asks, scheduled, asked, stored, refs, others, known, status>>

N(x)         == Len(Descs[x])
SizeAt(x, i) == Size[Descs[x][i]]
Bytes(x, S)  == MapThenSumSet(LAMBDA i : SizeAt(x, i), S)
Offset(x, i) == Bytes(x, 1 .. i - 1)

\* The object: byte <<id, k>> is the k-th byte of chunk id.
ByteAt(x, p) ==
  LET i == CHOOSE i \in 1 .. N(x) : Offset(x, i) < p /\ p <= Offset(x, i + 1)
  IN  <<Descs[x][i], p - Offset(x, i)>>

Object(x) == [p \in 1 .. Bytes(x, 1 .. N(x)) |-> ByteAt(x, p)]

\* xferData::xferData; replies counts the answers to get_data, got is what the
\* client received, outcome how the transfer ended for it.
NewXfer ==
  [state |-> "none", descs_status |-> <<>>, descs_count |-> 0, descs_xfered |-> 0,
   buf |-> <<>>, buf_offset |-> 0, fetching |-> FALSE, xcb |-> FALSE, err |-> FALSE,
   replies |-> 0, got |-> <<>>, outcome |-> "none"]

Init ==
  /\ xfer = [x \in Xfer |-> NewXfer]
  /\ asks = [x \in Xfer |-> 0]
  /\ scheduled = {}
  /\ asked = [x \in Xfer |-> {}]
  /\ stored = {} /\ refs = [id \in Id |-> 0] /\ others = [id \in Id |-> 0]
  /\ known = {}
  /\ status = "up"

InTable(x) == xfer[x].state = "ready"

-----------------------------------------------------------------------------
(* Replying to get_data. *)

\* Mutant: the end is announced with the last chunk, even when it does not fit.
ActualTransferDataEarly(x, t) ==
  LET n    == IF Len(t.buf) <= SEND_SIZE THEN Len(t.buf) ELSE SEND_SIZE
      last == t.descs_xfered = N(x)
  IN  IF t.err
      THEN [t EXCEPT !.state = "removed", !.replies = @ + 1, !.outcome = "error"]
      ELSE [t EXCEPT !.got = Append(@, [offset |-> t.buf_offset, data |-> SubSeq(t.buf, 1, n)]),
                     !.buf = SubSeq(@, n + 1, Len(@)),
                     !.buf_offset = @ + n,
                     !.replies = @ + 1,
                     !.state = IF last THEN "removed" ELSE @,
                     !.outcome = IF last THEN "end" ELSE @]

\* actual_transfer_data: an error ends the transfer; otherwise at most
\* SEND_SIZE bytes go out, and the transfer ends when nothing is left.
ActualTransferData(x, t) ==
  LET n    == IF Len(t.buf) <= SEND_SIZE THEN Len(t.buf) ELSE SEND_SIZE
      last == Len(t.buf) <= SEND_SIZE /\ t.descs_xfered = N(x)
  IN  IF t.err
      THEN [t EXCEPT !.state = "removed", !.replies = @ + 1, !.outcome = "error"]
      ELSE [t EXCEPT !.got = Append(@, [offset |-> t.buf_offset, data |-> SubSeq(t.buf, 1, n)]),
                     !.buf = SubSeq(@, n + 1, Len(@)),
                     !.buf_offset = @ + n,
                     !.replies = @ + 1,
                     !.state = IF last THEN "removed" ELSE @,
                     !.outcome = IF last THEN "end" ELSE @]

\* get_chunk_cb goes on to the next chunk after having appended chunk j, in a
\* run that began with chunk i.  (For the last chunk of the object descs_status
\* is read past its end, see Overruns.)
GoesOn(x, t, i, j) ==
  /\ Len(t.buf) + Bytes(x, i .. j) < SEND_SIZE
  /\ t.descs_xfered + (j - i + 1) # N(x)
  /\ j < N(x)
  /\ t.descs_status[j + 1] = "DESC_ON_STORAGE"

RunEnd(x, t, i) ==
  CHOOSE j \in i .. N(x) : /\ ~ GoesOn(x, t, i, j)
                           /\ \A k \in i .. j - 1 : GoesOn(x, t, i, k)

\* sp->get_chunk and get_chunk_cb for chunk i and the chunks that follow it; a
\* chunk the storage does not have is an error.  (have is what it has.)
MoveIntoBuf(x, t, i, have) ==
  LET j == RunEnd(x, t, i)
  IN  IF \E k \in i .. j : Descs[x][k] \notin have
      THEN [t EXCEPT !.err = TRUE]
      ELSE [t EXCEPT !.buf = @ \o SubSeq(Object(x), Offset(x, i) + 1, Offset(x, j + 1)),
                     !.descs_status = [k \in 1 .. N(x) |-> IF k \in i .. j THEN "DESC_DONE"
                                                                         ELSE @[k]],
                     !.descs_xfered = @ + (j - i + 1)]

OnStorage(t) == {i \in 1 .. Len(t.descs_status) : t.descs_status[i] = "DESC_ON_STORAGE"}

\* Mutant: the chunk before it is looked at.
NextOnStorageOff(x, t) == t.descs_count \in OnStorage(t)

\* The chunk that XFER_SEQUENTIAL hands out next is on storage.
NextOnStorage(x, t) == t.descs_count + 1 \in OnStorage(t)

\* Mutant: out of order, the offset of the chunk is not recorded.
LoadedNoOffset(x, t, have) ==
  IF t.err THEN t
  ELSE IF Mode[x] = "XFER_SEQUENTIAL" THEN
         IF Len(t.buf) < SEND_SIZE /\ t.descs_xfered # N(x) /\ NextOnStorage(x, t)
         THEN [MoveIntoBuf(x, t, t.descs_count + 1, have)
                 EXCEPT !.descs_count = RunEnd(x, t, t.descs_count + 1)]
         ELSE t
  ELSE IF t.buf = <<>> /\ OnStorage(t) # {}
       THEN MoveIntoBuf(x, t, Min(OnStorage(t)), have)
       ELSE t

\* transfer_data, up to the call of actual_transfer_data: the data it puts
\* into the buffer, if any.
Loaded(x, t, have) ==
  IF t.err THEN t
  ELSE IF Mode[x] = "XFER_SEQUENTIAL" THEN
         IF Len(t.buf) < SEND_SIZE /\ t.descs_xfered # N(x) /\ NextOnStorage(x, t)
         THEN [MoveIntoBuf(x, t, t.descs_count + 1, have)
                 EXCEPT !.descs_count = RunEnd(x, t, t.descs_count + 1)]
         ELSE t
  ELSE IF t.buf = <<>> /\ OnStorage(t) # {}
       THEN [MoveIntoBuf(x, t, Min(OnStorage(t)), have)
               EXCEPT !.buf_offset = Offset(x, Min(OnStorage(t)))]
       ELSE t

\* transfer_data; out of order with nothing to send, it returns without a reply.
TransferData(x, t, have) ==
  IF ~ t.err /\ Mode[x] = "XFER_OUT_OF_ORDER" /\ t.buf = <<>> /\ OnStorage(t) = {}
  THEN t
  ELSE ActualTransferData(x, Loaded(x, t, have))

\* transfer_data reads descs_status past its end: out of order, the last chunk
\* was appended, there is room for more, and not all chunks are through.
Overruns(x, t, have) ==
  /\ Mode[x] = "XFER_OUT_OF_ORDER" /\ ~ t.err /\ t.buf = <<>> /\ OnStorage(t) # {}
  /\ RunEnd(x, t, Min(OnStorage(t))) = N(x)
  /\ Len(Loaded(x, t, have).buf) < SEND_SIZE
  /\ Loaded(x, t, have).descs_xfered # N(x)

\* Mutant: chunks are released after an error, too.
ReleaseOnError(x, t, counts, have) ==
  [id \in Id |-> IF t.outcome # "none" /\ id \in have THEN counts[id] - 1 ELSE counts[id]]

\* release_ichunk for every chunk of the object, when the end was sent.
Release(x, t, counts, have) ==
  [id \in Id |->
     IF t.outcome = "end" /\ id \in have
     THEN counts[id] - Cardinality({i \in 1 .. N(x) : Descs[x][i] = id})
     ELSE counts[id]]

\* A handler ends with transfer_data on t, the storage being have and counts;
\* the read past descs_status may go unnoticed, or not.
Transfers(x, t, counts, have) ==
  LET u == TransferData(x, t, have)
  IN  \/ /\ xfer' = [xfer EXCEPT ![x] = u]
         /\ refs' = Release(x, u, counts, have)
         /\ UNCHANGED status
      \/ /\ Overruns(x, t, have)
         /\ status' = "undefined"
         /\ UNCHANGED <<xfer, refs>>

\* A handler ends without it.
Keeps(x, t, counts) ==
  /\ xfer' = [xfer EXCEPT ![x] = t]
  /\ refs' = counts
  /\ UNCHANGED status

\* The callback kept in xcb, run only once.
Xcb(t) == [t EXCEPT !.xcb = FALSE]

-----------------------------------------------------------------------------
(* What sets a handler off: the client calls get_data, the event loop takes    *)
(* fetch_data off its queue, the transfer plugin calls back for a chunk.       *)

Asks(x) ==
  /\ status = "up" /\ InTable(x) /\ asks[x] = xfer[x].replies
  /\ asks' = [asks EXCEPT ![x] = @ + 1]

Dequeued(x) ==
  /\ status = "up" /\ x \in scheduled
  /\ scheduled' = scheduled \ {x}

CalledBack(x, i) ==
  /\ status = "up" /\ i \in asked[x]
  /\ asked' = [asked EXCEPT ![x] = @ \ {i}]

-----------------------------------------------------------------------------
(* The RPCs of the client. *)

Ready(x) ==
  [xfer[x] EXCEPT !.state = "ready",
                  !.descs_status = [i \in 1 .. N(x) |-> "DESC_UNKNOWN"]]

\* get_init, and get_init_cb when the storage has the descriptors; otherwise
\* the transfer plugin is asked for them.  A request without an object id, a
\* hint or a mode that get_init knows is refused.
GetInit(x) ==
  /\ status = "up" /\ xfer[x].state = "none"
  /\ \/ xfer' = [xfer EXCEPT ![x] = IF Descs[x] \in known THEN Ready(x)
                                     ELSE [@ EXCEPT !.state = "descriptors"]]
     \/ xfer' = [xfer EXCEPT ![x].state = "removed", ![x].outcome = "error"]
  /\ UNCHANGED <<asks, scheduled, asked, stored, refs, others, known, status>>

\* get_init_cb with the descriptors from the network: the storage is told, and
\* exits if it has been told of the object in the meantime.
DescriptorsArrive(x) ==
  /\ status = "up" /\ xfer[x].state = "descriptors"
  /\ \/ /\ Descs[x] \notin known
        /\ known' = known \cup {Descs[x]}
        /\ xfer' = [xfer EXCEPT ![x] = Ready(x)]
        /\ UNCHANGED status
     \/ /\ Descs[x] \in known
        /\ status' = "fatal"
        /\ UNCHANGED <<known, xfer>>
  /\ UNCHANGED <<asks, scheduled, asked, stored, refs, others>>

\* get_init_cb with an error from the network.
DescriptorsFail(x) ==
  /\ status = "up" /\ xfer[x].state = "descriptors" /\ Errors
  /\ xfer' = [xfer EXCEPT ![x].state = "removed", ![x].outcome = "error"]
  /\ UNCHANGED <<asks, scheduled, asked, stored, refs, others, known, status>>

\* get_data: send what there is, or the end of an empty object (for which
\* descs_status is read past its end), or wait for the fetch, which the first
\* call that has to wait puts on the event queue.
GetData(x) ==
  LET t       == xfer[x]
      hasData == t.buf # <<>> \/ (Mode[x] = "XFER_SEQUENTIAL" /\ NextOnStorage(x, t))
      allDone == t.descs_xfered = N(x)
      another == Mode[x] = "XFER_OUT_OF_ORDER" /\ OnStorage(t) # {}
  IN  /\ Asks(x)
      /\ \/ /\ hasData \/ (~ allDone /\ another)
            /\ Transfers(x, t, refs, stored)
            /\ UNCHANGED scheduled
         \/ /\ ~ hasData /\ allDone
            /\ Keeps(x, [t EXCEPT !.replies = @ + 1, !.state = "removed", !.outcome = "end"], refs)
            /\ UNCHANGED scheduled
         \/ /\ ~ hasData /\ allDone /\ Mode[x] = "XFER_SEQUENTIAL"
            /\ status' = "undefined"
            /\ UNCHANGED <<xfer, refs, scheduled>>
         \/ /\ ~ hasData /\ ~ allDone /\ ~ another
            /\ Keeps(x, [t EXCEPT !.xcb = TRUE, !.fetching = TRUE], refs)
            /\ scheduled' = IF t.fetching THEN scheduled ELSE scheduled \cup {x}
      /\ UNCHANGED <<asked, stored, others, known>>

-----------------------------------------------------------------------------
(* Fetching chunks. *)

\* Mutant: no reference is taken.
RetainNone(x, here) == refs

\* get_chunk_refcount and inc_chunk_refcount for the chunks that are there.
Retain(x, here) ==
  [id \in Id |-> refs[id] + Cardinality({i \in here : Descs[x][i] = id})]

\* fetch_data: take a reference to every chunk that is there, ask for the
\* others, and serve the waiting call if that can be done.
FetchData(x) ==
  LET here   == {i \in 1 .. N(x) : Descs[x][i] \in stored /\ refs[Descs[x][i]] >= 0}
      counts == Retain(x, here)
      t      == [xfer[x] EXCEPT !.descs_status =
                   [i \in 1 .. N(x) |-> IF i \in here THEN "DESC_ON_STORAGE" ELSE "DESC_REQUESTED"]]
      serve  == /\ t.xcb
                /\ IF Mode[x] = "XFER_SEQUENTIAL" THEN NextOnStorage(x, t) ELSE OnStorage(t) # {}
  IN  /\ Dequeued(x)
      /\ asked' = [asked EXCEPT ![x] = (1 .. N(x)) \ here]
      /\ \/ serve /\ Transfers(x, Xcb(t), counts, stored)
         \/ ~ serve /\ Keeps(x, t, counts)
      /\ UNCHANGED <<asks, stored, others, known>>

\* The positions that xp_fetch_data_cb marks when chunk id arrives: its loop
\* ends at the first one that is on storage already.
Marked(x, t, id) ==
  {i \in 1 .. N(x) :
     /\ Descs[x][i] = id
     /\ \A k \in 1 .. i : Descs[x][k] = id => t.descs_status[k] # "DESC_ON_STORAGE"}

\* xp_fetch_data_cb with a chunk: it is put into the storage if it was missing,
\* and the waiting call is served.
ChunkArrives(x, i) ==
  LET id     == Descs[x][i]
      marked == Marked(x, xfer[x], id)
      t      == [xfer[x] EXCEPT !.descs_status =
                   [k \in 1 .. N(x) |-> IF k \in marked THEN "DESC_ON_STORAGE" ELSE @[k]]]
      have   == IF marked = {} THEN stored ELSE stored \cup {id}
      counts == IF marked = {} THEN refs ELSE [refs EXCEPT ![id] = @ + 1]
      serve  == t.xcb /\ (Mode[x] = "XFER_OUT_OF_ORDER" \/ NextOnStorage(x, t))
  IN  /\ CalledBack(x, i) /\ InTable(x)
      /\ stored' = have
      /\ \/ serve /\ Transfers(x, Xcb(t), counts, have)
         \/ ~ serve /\ Keeps(x, t, counts)
      /\ UNCHANGED <<asks, scheduled, others, known>>

\* xp_fetch_data_cb with an error: only a call that waits at this moment is
\* told.
ChunkFails(x, i) ==
  LET t == [xfer[x] EXCEPT !.err = TRUE]
  IN  /\ CalledBack(x, i) /\ InTable(x) /\ Errors
      /\ \/ t.xcb /\ Transfers(x, Xcb(t), refs, stored)
         \/ ~ t.xcb /\ Keeps(x, t, refs)
      /\ UNCHANGED <<asks, scheduled, stored, others, known>>

\* xp_fetch_data_cb for a transfer that is no longer in the table: ignored.
ChunkTooLate(x, i) ==
  /\ CalledBack(x, i) /\ ~ InTable(x)
  /\ UNCHANGED <<xfer, asks, scheduled, stored, refs, others, known, status>>

-----------------------------------------------------------------------------
(* What others do to the storage. *)

\* snifferPlugin_tcp::put_chunk, or a chunk proxied for a peer.
Overheard(id) ==
  /\ status = "up"
  /\ MapThenSumSet(LAMBDA d : others[d], Id) < MaxOverheard
  /\ stored' = stored \cup {id}
  /\ refs' = [refs EXCEPT ![id] = @ + 1]
  /\ others' = [others EXCEPT ![id] = @ + 1]
  /\ UNCHANGED <<xfer, asks, scheduled, asked, known, status>>

\* The storage deletes a chunk that nobody refers to.
Purge(id) ==
  /\ status = "up" /\ id \in stored /\ refs[id] = 0
  /\ stored' = stored \ {id}
  /\ UNCHANGED <<xfer, asks, scheduled, asked, refs, others, known, status>>

Next ==
  \/ \E x \in Xfer : \/ GetInit(x) \/ DescriptorsArrive(x) \/ DescriptorsFail(x)
                     \/ GetData(x) \/ FetchData(x)
                     \/ \E i \in asked[x] : ChunkArrives(x, i) \/ ChunkFails(x, i) \/ ChunkTooLate(x, i)
  \/ \E id \in Id : Overheard(id) \/ Purge(id)

\* The client asks until the end or an error, the event loop runs what is on
\* its queue, and the transfer plugin calls back for everything it was asked.
\* (Each of these is the part of its handlers that sets them off: it is enabled
\* when one of them is, and no other action is a step of it.)
Fairness ==
  \A x \in Xfer :
    /\ WF_asks(Asks(x))
    /\ WF_scheduled(Dequeued(x))
    /\ \A i \in 1 .. N(x) : WF_asked(CalledBack(x, i))
    /\ WF_vars(DescriptorsArrive(x) \/ DescriptorsFail(x))

Spec == Init /\ [][Next]_vars /\ Fairness

-----------------------------------------------------------------------------
(* Properties *)

\* What a client was sent is right: every reply holds the bytes of the object
\* at the offset it gives, in whatever order chunks arrived and however they
\* were cut into replies; and in sequential mode a reply begins where the
\* previous one ended.
RepliesInPlace ==
  \A x \in Xfer :
    LET got == xfer[x].got IN
      \A k \in 1 .. Len(got) :
        /\ got[k].data = SubSeq(Object(x), got[k].offset + 1, got[k].offset + Len(got[k].data))
        /\ Mode[x] = "XFER_SEQUENTIAL" =>
             got[k].offset = MapThenSumSet(LAMBDA m : Len(got[m].data), 1 .. k - 1)

\* A client that is told that this was the end has received every byte.
EndMeansAll ==
  \A x \in Xfer :
    xfer[x].outcome = "end" =>
      LET got == xfer[x].got IN
        UNION {got[k].offset + 1 .. got[k].offset + Len(got[k].data) : k \in 1 .. Len(got)}
          = 1 .. Bytes(x, 1 .. N(x))

\* The references x holds: to the chunks it found or put on storage.
Held(x, id) ==
  Cardinality({i \in 1 .. Len(xfer[x].descs_status) :
                 /\ Descs[x][i] = id
                 /\ xfer[x].descs_status[i] \in {"DESC_ON_STORAGE", "DESC_DONE"}})

\* The refcounts of the storage add up over all transfers: each holds one
\* reference to each chunk it found or put there, until its end is sent, when
\* all are given back.  (A transfer that ends with an error keeps them.)
RefsAccounted ==
  status = "up" =>
    \A id \in Id :
      refs[id] = others[id] + MapThenSumSet(LAMBDA x : Held(x, id),
                                            {x \in Xfer : xfer[x].outcome # "end"})

\* So a chunk that is marked as on storage is there, whatever other transfers
\* release and the storage deletes: reading it back cannot fail.
MarkedIsStored ==
  \A x \in Xfer : InTable(x) => \A i \in OnStorage(xfer[x]) : Descs[x][i] \in stored

\* Every transfer comes to its end, if nothing fails.
EveryTransferEnds ==
  \A x \in Xfer : InTable(x) ~> (xfer[x].outcome # "none" \/ status # "up")

\* An error that the transfer plugin reports for a transfer is passed back to
\* the application.
ErrorPassedBack ==
  \A x \in Xfer : (InTable(x) /\ xfer[x].err) ~> (xfer[x].outcome = "error" \/ status # "up")

=============================================================================
