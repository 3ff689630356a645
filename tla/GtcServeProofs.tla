---------------------------- MODULE GtcServeProofs ----------------------------
(***************************************************************************)
(* Proofs about GtcServe, for every network, every set of requests and     *)
(* every size of a page.                                                   *)
(***************************************************************************)
EXTENDS GtcServe, SequenceTheorems, TLAPS

-----------------------------------------------------------------------------
(* The inductive invariant, for chunks *)

FrameRec == [node : Node, off : Nat, hop : Node, data : Seq(Nat)]
Page     == [ok : {TRUE}, offset : Nat, end : BOOLEAN, data : Seq(Nat)]
Replies  == {NoReply, Error} \cup Page
AnswerRec == [state : {"never", "new", "open", "ok", "error"}, data : Seq(Nat), from : Node]
OpRec    == [chunk : Chunk, host : Node, frames : Seq(FrameRec), reply : Replies]

FetchType ==
  /\ epoch \in 1 .. Len(Routes)
  /\ store \in [Node -> [Chunk -> Seq(Nat)]]
  /\ origin \in [Node -> [Chunk -> Node]]
  /\ op \in [Op -> OpRec]
  /\ answer \in [Fetch -> AnswerRec]
  /\ faults \in 0 .. MaxFaults
  /\ lossy \in BOOLEAN

\* What operation o is about: a request for its chunk at its host was made, and
\* what a request's own operation works on is that request.
Serves(i, o) ==
  /\ \E r \in Fetch : o.chunk = Wants[r].chunk /\ o.host = Wants[r].host
  /\ i \in Fetch => /\ o.chunk = Wants[i].chunk /\ o.host = Wants[i].host
                    /\ o.frames[1].node = Wants[i].at

\* Every fetch but the first runs at the hop of the one below it, for the page
\* that one waits for.
Stacked(o) ==
  \A k \in 1 .. Len(o.frames) - 1 :
    /\ o.frames[k + 1].node = o.frames[k].hop
    /\ o.frames[k + 1].off = Len(o.frames[k].data)

\* The host of a hint has the chunk, whole.
HostsHave == \A r \in Fetch : store[Wants[r].host][Wants[r].chunk] = Whole(Wants[r].chunk)

\* s is the bytes of a chunk from offset on.
BytesFrom(s, offset) == \A j \in 1 .. Len(s) : s[j] = offset + j

\* What fetch f for operation o has: a part of the chunk, from its beginning, which
\* the hop has; and the fetch itself was asked for the beginning.
SoundFrame(f, o) ==
  /\ f.off = 0
  /\ BytesFrom(f.data, 0) /\ Len(f.data) < ChunkLen[o.chunk]
  /\ f.data # <<>> => store[f.hop][o.chunk] # Absent

\* What the last fetch is replied to: the page it asked for, from a hop that has the chunk.
SoundReply(f, o) ==
  o.reply.ok =>
    /\ BytesFrom(o.reply.data, Len(f.data))
    /\ Len(o.reply.data) > 0
    /\ Len(f.data) + Len(o.reply.data) <= ChunkLen[o.chunk]
    /\ o.reply.end <=> Len(f.data) + Len(o.reply.data) = ChunkLen[o.chunk]
    /\ store[f.hop][o.chunk] # Absent

SoundOp(o) ==
  /\ \A k \in 1 .. Len(o.frames) : SoundFrame(o.frames[k], o)
  /\ SoundReply(o.frames[Len(o.frames)], o)

\* Operation i is as it should be: what it has is sound as long as nothing is lost,
\* and there is an error only after a fault.
OpGood(i) ==
  /\ Serves(i, op[i]) /\ Stacked(op[i])
  /\ ~ lossy => SoundOp(op[i])
  /\ faults = 0 => op[i].reply # Error

FetchInv ==
  /\ FetchType /\ HostsHave
  /\ ~ lossy => StoredWhole
  /\ faults = 0 => ~ lossy /\ \A r \in Fetch : answer[r].state # "error"
  /\ \A i \in Op : Active(i) => OpGood(i)

\* A node that has a chunk got it from a node that has it, and so did a client.
Chained ==
  ~ lossy =>
    /\ \A n \in Node, c \in Chunk : store[n][c] # Absent => store[origin[n][c]][c] # Absent
    /\ \A r \in Fetch : answer[r].state = "ok" => store[answer[r].from][Wants[r].chunk] # Absent

-----------------------------------------------------------------------------
(* Pages and stacks *)

\* The smaller of two numbers.
LEMMA MinTwo ==
  ASSUME NEW a \in Int, NEW b \in Int
  PROVE  Min({a, b}) = IF a <= b THEN a ELSE b
<1> DEFINE m == IF a <= b THEN a ELSE b
<1>1. m \in {a, b} /\ \A y \in {a, b} : m <= y
  OBVIOUS
<1>2. \A x \in {a, b} : (\A y \in {a, b} : x <= y) => x = m
  OBVIOUS
<1>3. QED
  BY <1>1, <1>2 DEF Min

\* A whole chunk.
LEMMA WholeChunk ==
  ASSUME NEW c \in Chunk
  PROVE  /\ Whole(c) \in Seq(Nat) /\ Len(Whole(c)) = ChunkLen[c] /\ ChunkLen[c] \in Nat \ {0}
         /\ Whole(c) # Absent /\ BytesFrom(Whole(c), 0)
<1>1. ChunkLen[c] \in Nat \ {0}
  BY ServeAssumption
<1>2. Whole(c) \in [1 .. ChunkLen[c] -> Nat]
  BY <1>1 DEF Whole
<1>3. Whole(c) \in Seq(Nat) /\ Len(Whole(c)) = ChunkLen[c]
  BY <1>1, <1>2, SeqDef, LenProperties
<1>4. \A j \in 1 .. ChunkLen[c] : Whole(c)[j] = j /\ j = 0 + j
  BY <1>1 DEF Whole
<1>5. Whole(c) # Absent
  BY <1>1, <1>3, EmptySeq DEF Absent
<1>6. QED
  BY <1>1, <1>3, <1>4, <1>5 DEF BytesFrom

\* The bytes of a chunk from its beginning, as many as it has, are the chunk.
LEMMA AllBytes ==
  ASSUME NEW c \in Chunk, NEW s \in Seq(Nat), BytesFrom(s, 0), Len(s) = ChunkLen[c]
  PROVE  s = Whole(c)
<1>1. Whole(c) \in Seq(Nat) /\ Len(Whole(c)) = Len(s) /\ BytesFrom(Whole(c), 0)
  BY WholeChunk
<1>2. \A j \in 1 .. Len(s) : s[j] = Whole(c)[j]
  BY <1>1 DEF BytesFrom
<1>3. QED
  BY <1>1, <1>2, SeqEqual

\* A part of s.
LEMMA PartOf ==
  ASSUME NEW S, NEW s \in Seq(S), NEW a \in Nat, NEW n \in Nat, a <= n, n <= Len(s)
  PROVE  /\ SubSeq(s, a + 1, n) \in Seq(S) /\ Len(SubSeq(s, a + 1, n)) = n - a
         /\ \A j \in 1 .. n - a : SubSeq(s, a + 1, n)[j] = s[a + j]
<1> DEFINE d == SubSeq(s, a + 1, n)
<1>1. a + 1 \in Int /\ n \in Int /\ \A i \in a + 1 .. n : s[i] \in S
  BY LenProperties, ElementOfSeq
<1>2. /\ d \in Seq(S)
      /\ Len(d) = IF a + 1 <= n THEN n - (a + 1) + 1 ELSE 0
      /\ \A j \in 1 .. n - (a + 1) + 1 : d[j] = s[(a + 1) + j - 1]
  BY <1>1, SubSeqProperties
<1> HIDE DEF d
<1>3. /\ n - (a + 1) + 1 = n - a /\ (~ (a + 1 <= n) => n - a = 0)
      /\ \A j \in 1 .. n - a : (a + 1) + j - 1 = a + j
  OBVIOUS
<1>4. d \in Seq(S) /\ Len(d) = n - a /\ \A j \in 1 .. n - a : d[j] = s[a + j]
  BY <1>2, <1>3
<1>5. QED
  BY <1>4 DEF d

\* A page of s.
LEMMA PageOf ==
  ASSUME NEW s \in Seq(Nat), NEW off \in Nat
  PROVE  /\ PageReply(s, off) \in Replies /\ PageReply(s, off) # NoReply
         /\ off >= Len(s) => PageReply(s, off) = Error
         /\ off < Len(s) =>
              LET p == PageReply(s, off)
              IN  /\ p.ok /\ p # Error /\ p.data \in Seq(Nat) /\ Len(p.data) > 0
                  /\ off + Len(p.data) <= Len(s)
                  /\ p.end <=> off + Len(p.data) = Len(s)
                  /\ \A j \in 1 .. Len(p.data) : p.data[j] = s[off + j]
<1>1. Len(s) \in Nat /\ SEND_SIZE \in Nat \ {0} /\ \A i \in 1 .. Len(s) : s[i] \in Nat
  BY LenProperties, ElementOfSeq, ServeAssumption
<1>2. CASE off >= Len(s)
  <2>1. PageReply(s, off) = Error /\ ~ (off < Len(s)) /\ Error # NoReply
    BY <1>1, <1>2 DEF PageReply, Error, NoReply
  <2>2. QED
    BY <2>1 DEF Replies
<1>3. CASE off < Len(s)
  <2> DEFINE n == Min({off + SEND_SIZE, Len(s)})
             d == SubSeq(s, off + 1, n)
             e == Len(s) - off <= SEND_SIZE
  <2>1. PageReply(s, off) = [ok |-> TRUE, offset |-> off, end |-> e, data |-> d]
    BY <1>1, <1>3 DEF PageReply
  <2>2. n = IF off + SEND_SIZE <= Len(s) THEN off + SEND_SIZE ELSE Len(s)
    BY <1>1, MinTwo
  <2> HIDE DEF n
  <2>3. n \in Nat /\ off < n /\ n <= Len(s) /\ (e <=> n = Len(s))
    BY <1>1, <1>3, <2>2
  <2>4. d \in Seq(Nat) /\ Len(d) = n - off /\ \A j \in 1 .. n - off : d[j] = s[off + j]
    BY <2>3, PartOf
  <2>5. e \in BOOLEAN
    OBVIOUS
  <2> HIDE DEF d, e
  <2>6. PICK p : p = [ok |-> TRUE, offset |-> off, end |-> e, data |-> d]
    OBVIOUS
  <2>7. p = PageReply(s, off) /\ p.ok = TRUE /\ p.data = d /\ p.end = e /\ p \in Page
    BY <2>1, <2>4, <2>5, <2>6 DEF Page
  <2>8. p # Error /\ p # NoReply
    BY <2>7 DEF Error, NoReply
  <2>9. Len(d) > 0 /\ off + Len(d) <= Len(s) /\ (e <=> off + Len(d) = Len(s))
    BY <1>1, <2>3, <2>4
  <2>10. p \in Replies
    BY <2>7 DEF Replies
  <2>11. ~ (off >= Len(s))
    BY <1>1, <1>3
  <2>12. QED
    BY <2>4, <2>7, <2>8, <2>9, <2>10, <2>11
<1>4. QED
  BY <1>1, <1>2, <1>3

\* The last of a list, and what is before it.
LEMMA FrontLast ==
  ASSUME NEW S, NEW s \in Seq(S), s # <<>>
  PROVE  /\ Len(s) \in Nat \ {0} /\ Last(s) = s[Len(s)] /\ Last(s) \in S
         /\ Front(s) \in Seq(S) /\ Len(Front(s)) = Len(s) - 1
         /\ \A i \in 1 .. Len(s) - 1 : Front(s)[i] = s[i]
<1>1. Len(s) \in Nat \ {0} /\ \A i \in 1 .. Len(s) : s[i] \in S
  BY EmptySeq, LenProperties, ElementOfSeq
<1>2. Last(s) = s[Len(s)] /\ Last(s) \in S
  BY <1>1 DEF Last
<1>3. /\ Front(s) \in Seq(S)
      /\ Len(Front(s)) = IF 1 <= Len(s) - 1 THEN (Len(s) - 1) - 1 + 1 ELSE 0
      /\ \A i \in 1 .. (Len(s) - 1) - 1 + 1 : Front(s)[i] = s[1 + i - 1]
  <2>1. 1 \in Int /\ Len(s) - 1 \in Int /\ \A i \in 1 .. Len(s) - 1 : s[i] \in S
    BY <1>1
  <2>2. Front(s) = SubSeq(s, 1, Len(s) - 1)
    BY DEF Front
  <2>3. QED
    BY <2>1, <2>2, SubSeqProperties
<1>4. \A n \in Nat \ {0} : (IF 1 <= n - 1 THEN (n - 1) - 1 + 1 ELSE 0) = n - 1
  OBVIOUS
<1>5. (Len(s) - 1) - 1 + 1 = Len(s) - 1 /\ \A i \in 1 .. Len(s) - 1 : 1 + i - 1 = i
  BY <1>1
<1>6. QED
  BY <1>1, <1>2, <1>3, <1>4, <1>5

-----------------------------------------------------------------------------
(* The steps of a fetch *)

\* What is stored stays stored.
Mono == \A n \in Node, c \in Chunk : store[n][c] # Absent => store'[n][c] # Absent

\* What an active operation is.
LEMMA ActiveOp ==
  ASSUME FetchInv, NEW i \in Op, Active(i), NEW o, o = op[i]
  PROVE  /\ o \in OpRec /\ o.chunk \in Chunk /\ o.host \in Node /\ o.frames \in Seq(FrameRec)
         /\ o.reply \in Replies /\ o.frames # <<>>
         /\ Len(o.frames) \in Nat \ {0} /\ Top(i) = o.frames[Len(o.frames)]
         /\ \A k \in 1 .. Len(o.frames) : /\ o.frames[k] \in FrameRec /\ o.frames[k].node \in Node
                                          /\ o.frames[k].off \in Nat /\ o.frames[k].data \in Seq(Nat)
                                          /\ Len(o.frames[k].data) \in Nat
                                          /\ o.frames[k].hop \in Node
         /\ OpGood(i)
<1>1. o \in OpRec /\ o.frames # <<>> /\ OpGood(i)
  BY DEF FetchInv, FetchType, Active
<1>2. o.chunk \in Chunk /\ o.host \in Node /\ o.frames \in Seq(FrameRec) /\ o.reply \in Replies
  BY <1>1 DEF OpRec
<1>3. Len(o.frames) \in Nat \ {0} /\ Last(o.frames) = o.frames[Len(o.frames)]
  BY <1>1, <1>2, FrontLast
<1>4. ASSUME NEW k \in 1 .. Len(o.frames)
      PROVE  /\ o.frames[k] \in FrameRec /\ o.frames[k].node \in Node
             /\ o.frames[k].off \in Nat /\ o.frames[k].data \in Seq(Nat)
             /\ Len(o.frames[k].data) \in Nat
             /\ o.frames[k].hop \in Node
  <2>1. o.frames[k] \in FrameRec
    BY <1>2, ElementOfSeq
  <2>2. /\ o.frames[k].node \in Node /\ o.frames[k].off \in Nat /\ o.frames[k].data \in Seq(Nat)
        /\ o.frames[k].hop \in Node
    BY <2>1 DEF FrameRec
  <2>3. Len(o.frames[k].data) \in Nat
    BY <2>2, LenProperties
  <2>4. QED
    BY <2>1, <2>2, <2>3
<1>5. Top(i) = Last(o.frames)
  BY DEF Top
<1>6. QED
  BY <1>1, <1>2, <1>3, <1>4, <1>5

\* What an operation has stays sound as long as what is stored stays stored.
LEMMA SoundKept ==
  ASSUME NEW o \in OpRec, o.frames # <<>>, SoundOp(o), Mono
  PROVE  SoundOp(o)'
<1>1. o.chunk \in Chunk /\ o.host \in Node /\ o.frames \in Seq(FrameRec)
  BY DEF OpRec
<1>2. Len(o.frames) \in 1 .. Len(o.frames)
  <2>1. Len(o.frames) \in Nat \ {0}
    BY <1>1, FrontLast
  <2>2. \A n \in Nat \ {0} : n \in 1 .. n
    OBVIOUS
  <2>3. QED
    BY <2>1, <2>2
<1>3. ASSUME NEW k \in 1 .. Len(o.frames)
      PROVE  /\ SoundFrame(o.frames[k], o) => SoundFrame(o.frames[k], o)'
             /\ SoundReply(o.frames[k], o) => SoundReply(o.frames[k], o)'
  <2>1. o.frames[k] \in FrameRec
    BY <1>1, ElementOfSeq
  <2>2. o.frames[k].hop \in Node
    BY <2>1 DEF FrameRec
  <2>3. QED
    BY <1>1, <2>2 DEF SoundFrame, SoundReply, Mono
<1>4. QED
  BY <1>2, <1>3 DEF SoundOp

\* A step, by what it does to the operations it changes.
LEMMA FetchStep ==
  ASSUME FetchInv, FetchType', HostsHave',
         ~ lossy' => ~ lossy /\ StoredWhole' /\ Mono,
         faults' = 0 => faults = 0 /\ ~ lossy' /\ \A r \in Fetch : answer'[r].state # "error",
         \A i \in Op : op'[i] = op[i] \/ (Active(i)' => OpGood(i)')
  PROVE  FetchInv'
<1>1. ASSUME NEW i \in Op, Active(i)', op'[i] = op[i] PROVE OpGood(i)'
  <2> PICK o : o = op[i]
    OBVIOUS
  <2>1. Active(i) /\ o = op'[i]
    BY <1>1 DEF Active
  <2>2. o \in OpRec /\ o.frames # <<>> /\ OpGood(i)
    BY <2>1, ActiveOp
  <2>3. Serves(i, o) /\ Stacked(o) /\ (~ lossy => SoundOp(o)) /\ (faults = 0 => o.reply # Error)
    BY <2>2 DEF OpGood
  <2>4. ~ lossy' => SoundOp(o)'
    BY <2>2, <2>3, SoundKept
  <2>5. Serves(i, op'[i]) /\ Stacked(op'[i])
    BY <2>1, <2>3
  <2>6. (~ lossy' => SoundOp(op[i])') /\ (faults' = 0 => op'[i].reply # Error)
    BY <2>1, <2>3, <2>4 DEF SoundOp, SoundFrame, SoundReply
  <2>7. QED
    BY <2>5, <2>6 DEF OpGood, Serves, Stacked
<1>2. QED
  BY <1>1 DEF FetchInv

\* The same, when operation i becomes o.
LEMMA OneOpStep ==
  ASSUME FetchInv, HostsHave',
         NEW i \in Op, NEW o \in OpRec, op' = [op EXCEPT ![i] = o],
         UNCHANGED epoch,
         store' \in [Node -> [Chunk -> Seq(Nat)]], origin' \in [Node -> [Chunk -> Node]],
         answer' \in [Fetch -> AnswerRec],
         faults' \in 0 .. MaxFaults, lossy' \in BOOLEAN,
         ~ lossy' => ~ lossy /\ StoredWhole' /\ Mono,
         faults' = 0 => faults = 0 /\ ~ lossy' /\ \A r \in Fetch : answer'[r].state # "error",
         o.frames # <<>> => Serves(i, o) /\ Stacked(o) /\ (~ lossy' => SoundOp(o)')
                            /\ (faults' = 0 => o.reply # Error)
  PROVE  FetchInv'
<1>1. op \in [Op -> OpRec]
  BY DEF FetchInv, FetchType
<1>2. op' \in [Op -> OpRec] /\ op'[i] = o /\ \A j \in Op : j # i => op'[j] = op[j]
  BY <1>1
<1>3. FetchType'
  <2>1. epoch \in 1 .. Len(Routes)
    BY DEF FetchInv, FetchType
  <2>2. QED
    BY <1>2, <2>1 DEF FetchType
<1>4. ASSUME Active(i)' PROVE OpGood(i)'
  <2>1. o.frames # <<>>
    BY <1>2, <1>4 DEF Active
  <2>2. Serves(i, o) /\ Stacked(o) /\ (~ lossy' => SoundOp(o)') /\ (faults' = 0 => o.reply # Error)
    BY <2>1
  <2>3. Serves(i, op'[i]) /\ Stacked(op'[i]) /\ (faults' = 0 => op'[i].reply # Error)
    BY <1>2, <2>2
  <2>4. ~ lossy' => SoundOp(op[i])'
    BY <1>2, <2>2 DEF SoundOp, SoundFrame, SoundReply
  <2>5. QED
    BY <2>3, <2>4 DEF OpGood, Serves, Stacked
<1>5. \A j \in Op : op'[j] = op[j] \/ (Active(j)' => OpGood(j)')
  BY <1>2, <1>4
<1>6. QED
  BY <1>3, <1>5, FetchStep

\* The part of the state that a step of one operation without storing leaves alone.
LEMMA QuietStep ==
  ASSUME FetchInv, NEW i \in Op, NEW o \in OpRec, op' = [op EXCEPT ![i] = o],
         UNCHANGED <<epoch, store, origin, answer, faults, lossy>>,
         o.frames # <<>> => Serves(i, o) /\ Stacked(o) /\ (~ lossy => SoundOp(o))
                            /\ (faults = 0 => o.reply # Error)
  PROVE  FetchInv'
<1>1. /\ FetchType /\ HostsHave /\ (~ lossy => StoredWhole)
      /\ (faults = 0 => ~ lossy /\ \A r \in Fetch : answer[r].state # "error")
  BY DEF FetchInv
<1>2. HostsHave' /\ (~ lossy' => ~ lossy /\ StoredWhole' /\ Mono)
  BY <1>1 DEF HostsHave, StoredWhole, Mono
<1>3. o.frames # <<>> => Serves(i, o) /\ Stacked(o) /\ (~ lossy' => SoundOp(o)')
                         /\ (faults' = 0 => o.reply # Error)
  BY DEF SoundOp, SoundFrame, SoundReply
<1>4. QED
  BY <1>1, <1>2, <1>3, OneOpStep DEF FetchType

\* get_next_hop finds a node.
LEMMA NextHopNode ==
  ASSUME FetchInv, NEW n \in Node, NEW h \in Node
  PROVE  NextHop(n, h) \in Node
<1>1. epoch \in 1 .. Len(Routes) /\ Routes \in Seq([Node -> [Node -> Node]])
  BY ServeAssumption DEF FetchInv, FetchType
<1>2. Routes[epoch] \in [Node -> [Node -> Node]]
  BY <1>1, ElementOfSeq
<1>3. QED
  BY <1>2 DEF NextHop

\* The client asks for the first page.
LEMMA GetChunkStep ==
  ASSUME FetchInv, NEW r \in Fetch, get_chunk(r)
  PROVE  FetchInv'
<1> PICK f : f = Frame(Wants[r].at, 0, NextHop(Wants[r].at, Wants[r].host))
  OBVIOUS
<1> PICK o : o = [chunk |-> Wants[r].chunk, host |-> Wants[r].host, frames |-> <<f>>, reply |-> NoReply]
  OBVIOUS
<1>0. /\ FetchType /\ HostsHave /\ (~ lossy => StoredWhole)
      /\ (faults = 0 => ~ lossy /\ \A q \in Fetch : answer[q].state # "error")
  BY DEF FetchInv
<1>1. r \in Op /\ Wants[r].chunk \in Chunk /\ Wants[r].host \in Node /\ Wants[r].at \in Node
  BY ServeAssumption DEF Op
<1>2. f \in FrameRec /\ f.node = Wants[r].at /\ f.off = 0 /\ f.data = <<>>
  <2>1. <<>> \in Seq(Nat)
    OBVIOUS
  <2>2. QED
    BY <1>1, <2>1, NextHopNode DEF Frame, FrameRec
<1>3. op' = [op EXCEPT ![r] = o] /\ UNCHANGED <<epoch, store, origin, faults, lossy>>
      /\ answer' = [answer EXCEPT ![r].state = "open"]
  BY DEF get_chunk, stored
<1>4. <<f>> \in Seq(FrameRec) /\ Len(<<f>>) = 1 /\ <<f>>[1] = f
  BY <1>2
<1>5. o \in OpRec
  BY <1>1, <1>4 DEF OpRec, Replies
<1>6. o.frames = <<f>> /\ o.chunk = Wants[r].chunk /\ o.host = Wants[r].host /\ o.reply = NoReply
  OBVIOUS
<1>7. Serves(r, o) /\ Stacked(o) /\ o.reply # Error
  <2>1. Serves(r, o)
    BY <1>2, <1>4, <1>6 DEF Serves
  <2>2. 1 .. Len(o.frames) - 1 = {}
    BY <1>4, <1>6
  <2>3. QED
    BY <1>6, <2>1, <2>2 DEF Stacked, NoReply, Error
<1>8. SoundOp(o)'
  <2>1. ~ o.reply.ok
    BY <1>6 DEF NoReply
  <2>2. Len(f.data) = 0 /\ Len(f.data) < ChunkLen[o.chunk] /\ BytesFrom(f.data, 0)
    BY <1>1, <1>2, <1>6, WholeChunk DEF BytesFrom
  <2>3. SoundFrame(f, o)' /\ SoundReply(f, o)'
    BY <1>2, <2>1, <2>2 DEF SoundFrame, SoundReply
  <2>4. \A k \in 1 .. Len(o.frames) : o.frames[k] = f
    BY <1>4, <1>6
  <2>5. QED
    BY <1>4, <1>6, <2>3, <2>4 DEF SoundOp
<1>9. answer' \in [Fetch -> AnswerRec]
      /\ \A q \in Fetch : answer'[q].state = "error" => answer[q].state = "error"
  <2>1. answer \in [Fetch -> AnswerRec]
    BY <1>0 DEF FetchType
  <2>2. answer' = [answer EXCEPT ![r] = [answer[r] EXCEPT !.state = "open"]]
    BY <1>3
  <2>3. QED
    BY <2>1, <2>2 DEF AnswerRec
<1>10. HostsHave' /\ (~ lossy' => ~ lossy /\ StoredWhole' /\ Mono)
  BY <1>0, <1>3 DEF HostsHave, StoredWhole, Mono
<1>11. /\ store' \in [Node -> [Chunk -> Seq(Nat)]] /\ origin' \in [Node -> [Chunk -> Node]]
       /\ faults' \in 0 .. MaxFaults /\ lossy' \in BOOLEAN
       /\ faults' = 0 => faults = 0 /\ ~ lossy' /\ \A q \in Fetch : answer'[q].state # "error"
  BY <1>0, <1>3, <1>9 DEF FetchType
<1>12. QED
  BY <1>1, <1>3, <1>5, <1>7, <1>8, <1>9, <1>10, <1>11, OneOpStep

\* What the storage of a node has of the chunk of an operation.
LEMMA StoredAt ==
  ASSUME FetchInv, NEW n \in Node, NEW c \in Chunk
  PROVE  store[n][c] \in Seq(Nat) /\ (~ lossy => store[n][c] = Absent \/ store[n][c] = Whole(c))
  BY DEF FetchInv, FetchType, StoredWhole

\* A page of the whole chunk is what the fetch asked for.
LEMMA PageIsSound ==
  ASSUME NEW o, NEW f, o.chunk \in Chunk, f.data \in Seq(Nat), Len(f.data) < ChunkLen[o.chunk],
         NEW q, q.chunk = o.chunk, q.host = o.host, q.reply = PageReply(Whole(o.chunk), Len(f.data))
  PROVE  /\ store[f.hop][o.chunk] # Absent => SoundReply(f, q)
         /\ store'[f.hop][o.chunk] # Absent => SoundReply(f, q)'
         /\ q.reply # Error
<1>1. /\ Whole(o.chunk) \in Seq(Nat) /\ Len(Whole(o.chunk)) = ChunkLen[o.chunk]
      /\ BytesFrom(Whole(o.chunk), 0) /\ ChunkLen[o.chunk] \in Nat
  BY WholeChunk
<1>2. Len(f.data) \in Nat /\ Len(f.data) < Len(Whole(o.chunk))
  BY <1>1, LenProperties
<1> DEFINE p == PageReply(Whole(o.chunk), Len(f.data))
<1>3. /\ p.ok /\ p # Error /\ p.data \in Seq(Nat) /\ Len(p.data) > 0
      /\ Len(f.data) + Len(p.data) <= Len(Whole(o.chunk))
      /\ p.end <=> Len(f.data) + Len(p.data) = Len(Whole(o.chunk))
      /\ \A j \in 1 .. Len(p.data) : p.data[j] = Whole(o.chunk)[Len(f.data) + j]
  BY <1>1, <1>2, PageOf
<1>4. q.reply = p
  OBVIOUS
<1> HIDE DEF p
<1>5. BytesFrom(p.data, Len(f.data))
  <2> SUFFICES ASSUME NEW j \in 1 .. Len(p.data) PROVE p.data[j] = Len(f.data) + j
    BY DEF BytesFrom
  <2>1. Len(p.data) \in Nat
    BY <1>3, LenProperties
  <2>2. Len(f.data) + j \in 1 .. Len(Whole(o.chunk))
    <3>1. \A a, b, w \in Nat : a + b <= w => \A k \in 1 .. b : a + k \in 1 .. w
      OBVIOUS
    <3>2. Len(f.data) + Len(p.data) <= Len(Whole(o.chunk)) /\ Len(Whole(o.chunk)) \in Nat
      BY <1>1, <1>3
    <3>3. QED
      BY <1>2, <2>1, <3>1, <3>2
  <2>3. Whole(o.chunk)[Len(f.data) + j] = 0 + (Len(f.data) + j)
    BY <1>1, <2>2 DEF BytesFrom
  <2>4. QED
    BY <1>2, <1>3, <2>1, <2>3
<1>6. QED
  BY <1>1, <1>3, <1>4, <1>5 DEF SoundReply

\* The next hop answers, or fetches itself.
LEMMA RemoteGetChunkStep ==
  ASSUME FetchInv, NEW i \in Op, remote_get_chunk(i)
  PROVE  FetchInv'
<1> PICK o : o = op[i]
  OBVIOUS
<1> PICK m : m = Len(o.frames)
  OBVIOUS
<1> PICK f : f = o.frames[m]
  OBVIOUS
<1> PICK n : n = f.hop
  OBVIOUS
<1> PICK z : z = NextHop(n, o.host)
  OBVIOUS
<1> PICK have : have = store[n][o.chunk]
  OBVIOUS
<1>0. /\ Active(i) /\ o.reply = NoReply
      /\ UNCHANGED <<epoch, store, origin, answer, faults, lossy>>
      /\ HostsHave /\ (faults = 0 => ~ lossy)
  BY DEF remote_get_chunk, FetchInv, stored
<1>1. /\ o \in OpRec /\ o.chunk \in Chunk /\ o.host \in Node /\ o.frames \in Seq(FrameRec)
      /\ o.frames # <<>> /\ m \in Nat \ {0} /\ Top(i) = f
      /\ f \in FrameRec /\ f.node \in Node /\ f.off \in Nat /\ f.data \in Seq(Nat) /\ Len(f.data) \in Nat
      /\ n \in Node /\ OpGood(i)
  <2>1. m \in Nat \ {0}
    BY <1>0, ActiveOp
  <2>2. m \in 1 .. m
    BY <2>1
  <2>3. QED
    BY <1>0, <2>1, <2>2, ActiveOp
<1>2. Hop(i) = n
  BY <1>1 DEF Hop
<1>3. Serves(i, o) /\ Stacked(o) /\ (~ lossy => SoundOp(o)) /\ (faults = 0 => o.reply # Error)
  BY <1>1 DEF OpGood
<1>4. /\ ~ lossy => SoundFrame(f, o)
      /\ ~ lossy => \A k \in 1 .. m : SoundFrame(o.frames[k], o)
  <2>1. m \in 1 .. m
    BY <1>1
  <2>2. QED
    BY <1>3, <2>1 DEF SoundOp
<1>5. have \in Seq(Nat) /\ (~ lossy => have = Absent \/ have = Whole(o.chunk))
  BY <1>1, StoredAt
<1>6. \/ have # Absent /\ op' = [op EXCEPT ![i].reply = PageReply(have, Len(f.data))]
      \/ have = Absent /\ n = o.host /\ op' = [op EXCEPT ![i].reply = Error]
      \/ have = Absent /\ op' = [op EXCEPT ![i].frames = Append(@, Frame(n, Len(f.data), z))]
  BY <1>1, <1>2 DEF remote_get_chunk
<1>7. ASSUME NEW p \in Replies, op' = [op EXCEPT ![i].reply = p], p # NoReply,
             ~ lossy => (have # Absent /\ p = PageReply(have, Len(f.data))) \/ p = Error,
             faults = 0 => p # Error
      PROVE  FetchInv'
  <2> DEFINE q == [o EXCEPT !.reply = p]
  <2>1. /\ q \in OpRec /\ q.chunk = o.chunk /\ q.host = o.host /\ q.frames = o.frames /\ q.reply = p
    BY <1>1, <1>7 DEF OpRec
  <2>2. op' = [op EXCEPT ![i] = q]
    BY <1>7
  <2> HIDE DEF q
  <2>3. Serves(i, q) /\ Stacked(q)
    BY <1>3, <2>1 DEF Serves, Stacked
  <2>4. ASSUME ~ lossy PROVE SoundOp(q)
    <3>1. \A k \in 1 .. Len(q.frames) : SoundFrame(q.frames[k], q)
      BY <1>4, <2>1, <2>4 DEF SoundFrame
    <3>2. SoundReply(f, q)
      <4>1. CASE have # Absent /\ p = PageReply(have, Len(f.data))
        <5>1. have = Whole(o.chunk) /\ Len(f.data) < ChunkLen[o.chunk]
          BY <1>4, <1>5, <2>4, <4>1 DEF SoundFrame
        <5>2. QED
          BY <1>1, <2>1, <4>1, <5>1, PageIsSound
      <4>2. CASE p = Error
        <5>1. q.reply.ok = FALSE
          BY <2>1, <4>2 DEF Error
        <5>2. QED
          BY <5>1 DEF SoundReply
      <4>3. QED
        BY <1>7, <2>4, <4>1, <4>2
    <3>3. QED
      BY <2>1, <3>1, <3>2 DEF SoundOp
  <2>5. QED
    BY <1>0, <1>7, <2>1, <2>2, <2>3, <2>4, QuietStep
<1>8. CASE have # Absent /\ op' = [op EXCEPT ![i].reply = PageReply(have, Len(f.data))]
  <2> PICK p : p = PageReply(have, Len(f.data))
    OBVIOUS
  <2>1. p \in Replies /\ p # NoReply
    BY <1>1, <1>5, PageOf
  <2>2. ASSUME faults = 0 PROVE p # Error
    <3>1. have = Whole(o.chunk) /\ Len(f.data) < ChunkLen[o.chunk]
      BY <1>0, <1>4, <1>5, <1>8, <2>2 DEF SoundFrame
    <3>2. Len(f.data) < Len(have)
      BY <1>1, <3>1, WholeChunk
    <3>3. QED
      BY <1>1, <1>5, <3>2, PageOf
  <2>3. QED
    BY <1>7, <1>8, <2>1, <2>2
<1>9. CASE have = Absent /\ n = o.host /\ op' = [op EXCEPT ![i].reply = Error]
  <2>1. FALSE
    <3>1. PICK r \in Fetch : o.chunk = Wants[r].chunk /\ o.host = Wants[r].host
      BY <1>3 DEF Serves
    <3>2. have = Whole(o.chunk)
      BY <1>0, <1>9, <3>1 DEF HostsHave
    <3>3. QED
      BY <1>1, <1>9, <3>2, WholeChunk
  <2>2. QED
    BY <2>1
<1>10. CASE have = Absent /\ op' = [op EXCEPT ![i].frames = Append(@, Frame(n, Len(f.data), z))]
  <2>0. PICK g : g = Frame(n, Len(f.data), z)
    OBVIOUS
  <2>1. g \in FrameRec /\ g.node = n /\ g.off = Len(f.data) /\ g.data = <<>>
    <3>1. <<>> \in Seq(Nat)
      OBVIOUS
    <3>2. QED
      BY <1>1, <2>0, <3>1, NextHopNode DEF Frame, FrameRec
  <2>2. /\ Append(o.frames, g) \in Seq(FrameRec) /\ Append(o.frames, g) # <<>>
        /\ Len(Append(o.frames, g)) = m + 1
        /\ \A k \in 1 .. m : Append(o.frames, g)[k] = o.frames[k]
        /\ Append(o.frames, g)[m + 1] = g
    BY <1>1, <2>1, AppendProperties
  <2> DEFINE q == [o EXCEPT !.frames = Append(o.frames, g)]
  <2>3. /\ q \in OpRec /\ q.chunk = o.chunk /\ q.host = o.host
        /\ q.frames = Append(o.frames, g) /\ q.reply = NoReply
    BY <1>0, <1>1, <2>2 DEF OpRec
  <2>4. op' = [op EXCEPT ![i] = q]
    BY <1>10, <2>0
  <2> HIDE DEF q
  <2>5. /\ Len(q.frames) = m + 1 /\ q.frames[m + 1] = g /\ \A k \in 1 .. m : q.frames[k] = o.frames[k]
        /\ 1 \in 1 .. m /\ q.frames # <<>>
    BY <1>1, <2>2, <2>3
  <2>6. Serves(i, q)
    BY <1>3, <2>3, <2>5 DEF Serves
  <2>7. Stacked(q)
    <3> SUFFICES ASSUME NEW k \in 1 .. Len(q.frames) - 1
                 PROVE  /\ q.frames[k + 1].node = q.frames[k].hop
                        /\ q.frames[k + 1].off = Len(q.frames[k].data)
      BY DEF Stacked
    <3>1. k \in 1 .. m
      BY <1>1, <2>5
    <3>2. CASE k = m
      BY <2>1, <2>3, <2>5, <3>1, <3>2
    <3>3. CASE k # m
      <4>1. k \in 1 .. m - 1 /\ k + 1 \in 1 .. m
        BY <1>1, <3>1, <3>3
      <4>2. /\ o.frames[k + 1].node = o.frames[k].hop
            /\ o.frames[k + 1].off = Len(o.frames[k].data)
        BY <1>3, <4>1 DEF Stacked
      <4>3. q.frames[k + 1] = o.frames[k + 1] /\ q.frames[k] = o.frames[k]
        BY <2>5, <3>1, <4>1
      <4>4. QED
        BY <2>3, <4>2, <4>3
    <3>4. QED
      BY <3>2, <3>3
  <2>8. ASSUME ~ lossy PROVE SoundOp(q)
    <3>1. f.data = <<>> /\ Len(f.data) = 0
      BY <1>4, <1>10, <2>8 DEF SoundFrame
    <3>2. Len(g.data) = 0 /\ Len(g.data) < ChunkLen[q.chunk] /\ BytesFrom(g.data, 0)
      BY <1>1, <2>1, <2>3, WholeChunk DEF BytesFrom
    <3>3. SoundFrame(g, q)
      BY <2>1, <3>1, <3>2 DEF SoundFrame
    <3>4. ASSUME NEW k \in 1 .. m PROVE SoundFrame(q.frames[k], q)
      <4>1. SoundFrame(o.frames[k], o) /\ q.frames[k] = o.frames[k]
        BY <1>4, <2>5, <2>8
      <4>2. QED
        BY <2>3, <4>1 DEF SoundFrame
    <3>5. \A k \in 1 .. m + 1 : k \in 1 .. m \/ k = m + 1
      BY <1>1
    <3>6. SoundReply(g, q)
      BY <2>3 DEF SoundReply, NoReply
    <3>7. QED
      BY <2>5, <3>3, <3>4, <3>5, <3>6 DEF SoundOp
  <2>9. q.reply # Error
    BY <2>3 DEF NoReply, Error
  <2>10. QED
    BY <1>0, <2>3, <2>4, <2>6, <2>7, <2>8, <2>9, QuietStep
<1>11. QED
  BY <1>6, <1>8, <1>9, <1>10

\* The lower part of a stack, as an operation.
LEMMA LowerPart ==
  ASSUME FetchInv, NEW i \in Op, Active(i), NEW o, o = op[i], NEW n \in 1 .. Len(o.frames),
         NEW q, q.chunk = o.chunk, q.host = o.host, Len(q.frames) = n,
         \A k \in 1 .. n : q.frames[k] = o.frames[k]
  PROVE  /\ Serves(i, q) /\ Stacked(q)
         /\ ~ lossy => \A k \in 1 .. n : SoundFrame(q.frames[k], q)
<1>1. Len(o.frames) \in Nat \ {0} /\ OpGood(i)
  BY ActiveOp
<1>2. Serves(i, o) /\ Stacked(o) /\ (~ lossy => SoundOp(o))
  BY <1>1 DEF OpGood
<1>3. /\ 1 \in 1 .. n /\ \A k \in 1 .. n : k \in 1 .. Len(o.frames)
      /\ \A k \in 1 .. n - 1 : k \in 1 .. n /\ k + 1 \in 1 .. n /\ k \in 1 .. Len(o.frames) - 1
  BY <1>1
<1>4. Serves(i, q)
  BY <1>2, <1>3 DEF Serves
<1>5. Stacked(q)
  <2> SUFFICES ASSUME NEW k \in 1 .. n - 1
               PROVE  /\ q.frames[k + 1].node = q.frames[k].hop
                      /\ q.frames[k + 1].off = Len(q.frames[k].data)
    BY DEF Stacked
  <2>1. /\ o.frames[k + 1].node = o.frames[k].hop
        /\ o.frames[k + 1].off = Len(o.frames[k].data)
    BY <1>2, <1>3 DEF Stacked
  <2>2. q.frames[k + 1] = o.frames[k + 1] /\ q.frames[k] = o.frames[k]
    BY <1>3
  <2>3. QED
    BY <2>1, <2>2
<1>6. ASSUME ~ lossy, NEW k \in 1 .. n PROVE SoundFrame(q.frames[k], q)
  <2>1. SoundFrame(o.frames[k], o) /\ q.frames[k] = o.frames[k]
    BY <1>2, <1>3, <1>6 DEF SoundOp
  <2>2. QED
    BY <2>1 DEF SoundFrame
<1>7. QED
  BY <1>4, <1>5, <1>6

\* The last fetch of an operation is gone.
LEMMA Popped ==
  ASSUME FetchInv, NEW i \in Op, Active(i), NEW o, o = op[i],
         NEW q, q.chunk = o.chunk, q.host = o.host, q.frames = Front(o.frames)
  PROVE  /\ Front(o.frames) \in Seq(FrameRec)
         /\ Len(q.frames) = Len(o.frames) - 1 /\ (q.frames # <<>> <=> Len(o.frames) # 1)
         /\ q.frames # <<>> =>
              /\ Serves(i, q) /\ Stacked(q)
              /\ Len(o.frames) - 1 \in 1 .. Len(o.frames) - 1
              /\ q.frames[Len(o.frames) - 1] = o.frames[Len(o.frames) - 1]
              /\ ~ lossy => \A k \in 1 .. Len(q.frames) : SoundFrame(q.frames[k], q)
<1>1. o.frames \in Seq(FrameRec) /\ o.frames # <<>> /\ Len(o.frames) \in Nat \ {0}
  BY ActiveOp
<1>2. /\ Front(o.frames) \in Seq(FrameRec) /\ Len(Front(o.frames)) = Len(o.frames) - 1
      /\ \A k \in 1 .. Len(o.frames) - 1 : Front(o.frames)[k] = o.frames[k]
  BY <1>1, FrontLast
<1>3. q.frames # <<>> <=> Len(o.frames) # 1
  <2>1. q.frames = <<>> <=> Len(q.frames) = 0
    BY <1>2, EmptySeq
  <2>2. \A n \in Nat \ {0} : n - 1 = 0 <=> n = 1
    OBVIOUS
  <2>3. QED
    BY <1>1, <1>2, <2>1, <2>2
<1>4. ASSUME q.frames # <<>>
      PROVE  /\ Serves(i, q) /\ Stacked(q)
             /\ Len(o.frames) - 1 \in 1 .. Len(o.frames) - 1
             /\ ~ lossy => \A k \in 1 .. Len(q.frames) : SoundFrame(q.frames[k], q)
  <2>1. PICK n : n = Len(o.frames) - 1
    OBVIOUS
  <2>2. \A m \in Nat \ {0} : m # 1 => m - 1 \in 1 .. m /\ m - 1 \in 1 .. m - 1
    OBVIOUS
  <2>3. n \in 1 .. Len(o.frames) /\ n \in 1 .. n
    BY <1>1, <1>3, <1>4, <2>1, <2>2
  <2>4. Len(q.frames) = n /\ \A k \in 1 .. n : q.frames[k] = o.frames[k]
    BY <1>2, <2>1
  <2>5. /\ Serves(i, q) /\ Stacked(q)
        /\ ~ lossy => \A k \in 1 .. n : SoundFrame(q.frames[k], q)
    BY <2>3, <2>4, LowerPart
  <2>6. QED
    BY <2>1, <2>3, <2>4, <2>5
<1>5. QED
  BY <1>2, <1>3, <1>4

\* An answer to a request.
LEMMA AnswerTypes ==
  ASSUME FetchInv, NEW i \in Fetch, NEW a,
         a \in AnswerRec,
         answer' = [answer EXCEPT ![i] = a] \/ answer' = answer
  PROVE  /\ answer' \in [Fetch -> AnswerRec]
         /\ a.state # "error" /\ (\A r \in Fetch : answer[r].state # "error") =>
              \A r \in Fetch : answer'[r].state # "error"
<1>1. answer \in [Fetch -> AnswerRec]
  BY DEF FetchInv, FetchType
<1>2. QED
  BY <1>1

\* A fetch that fails, after some fault.
LEMMA FetchFailsStep ==
  ASSUME FetchInv, NEW i \in Op, Active(i), FetchFails(i),
         UNCHANGED <<epoch, store, origin, faults, lossy>>, faults # 0
  PROVE  FetchInv'
<1>1. PICK o : o = op[i]
  OBVIOUS
<1>2. PICK p : p = IF Len(o.frames) = 1 THEN NoReply ELSE Error
  OBVIOUS
<1>3. PICK q : q = [o EXCEPT !.frames = Front(@), !.reply = p]
  OBVIOUS
<1>4. p \in Replies /\ p.ok = FALSE
  BY <1>2 DEF Replies, NoReply, Error
<1>5. op' = [op EXCEPT ![i] = q]
  BY <1>1, <1>2, <1>3 DEF FetchFails
<1>6. /\ q \in OpRec /\ q.reply = p
      /\ q.frames # <<>> => /\ Serves(i, q) /\ Stacked(q)
                            /\ ~ lossy => \A k \in 1 .. Len(q.frames) : SoundFrame(q.frames[k], q)
  <2>1. o \in OpRec
    BY <1>1, ActiveOp
  <2>2. q.chunk = o.chunk /\ q.host = o.host /\ q.frames = Front(o.frames) /\ q.reply = p
    BY <1>3, <2>1 DEF OpRec
  <2>3. /\ Front(o.frames) \in Seq(FrameRec)
        /\ q.frames # <<>> => /\ Serves(i, q) /\ Stacked(q)
                              /\ ~ lossy => \A k \in 1 .. Len(q.frames) : SoundFrame(q.frames[k], q)
    BY <1>1, <2>2, Popped
  <2>4. q \in OpRec
    BY <1>3, <1>4, <2>1, <2>3 DEF OpRec
  <2>5. QED
    BY <2>2, <2>3, <2>4
<1>7. ASSUME q.frames # <<>>, ~ lossy PROVE SoundOp(q)'
  <2>1. \A k \in 1 .. Len(q.frames) : SoundFrame(q.frames[k], q)
    BY <1>6, <1>7
  <2>2. SoundOp(q)
    BY <1>4, <1>6, <2>1 DEF SoundOp, SoundReply
  <2>3. Mono
    BY DEF Mono
  <2>4. QED
    BY <1>6, <1>7, <2>2, <2>3, SoundKept
<1>8. answer' \in [Fetch -> AnswerRec]
  <2>1. CASE i \in Fetch /\ answer' = [answer EXCEPT ![i].state = "error"]
    <3>1. answer' = [answer EXCEPT ![i] = [answer[i] EXCEPT !.state = "error"]]
      BY <2>1
    <3>2. answer[i] \in AnswerRec
      BY <2>1 DEF FetchInv, FetchType
    <3>3. [answer[i] EXCEPT !.state = "error"] \in AnswerRec
      BY <3>2 DEF AnswerRec
    <3>4. QED
      BY <2>1, <3>1, <3>3, AnswerTypes
  <2>2. CASE answer' = answer
    BY <2>2 DEF FetchInv, FetchType
  <2>3. QED
    BY <2>1, <2>2 DEF FetchFails
<1>9. HostsHave' /\ (~ lossy' => ~ lossy /\ StoredWhole' /\ Mono)
  BY DEF FetchInv, HostsHave, StoredWhole, Mono
<1>10. /\ store' \in [Node -> [Chunk -> Seq(Nat)]] /\ origin' \in [Node -> [Chunk -> Node]]
       /\ faults' \in 0 .. MaxFaults /\ lossy' \in BOOLEAN
  BY DEF FetchInv, FetchType
<1>11. QED
  BY <1>5, <1>6, <1>7, <1>8, <1>9, <1>10, OneOpStep

\* Two parts of a chunk that follow one another.
LEMMA BytesJoined ==
  ASSUME NEW s \in Seq(Nat), NEW t \in Seq(Nat), BytesFrom(s, 0), BytesFrom(t, Len(s))
  PROVE  BytesFrom(s \o t, 0)
<1>1. /\ Len(s \o t) = Len(s) + Len(t) /\ Len(s) \in Nat /\ Len(t) \in Nat
      /\ \A i \in 1 .. Len(s) + Len(t) : (s \o t)[i] = IF i <= Len(s) THEN s[i] ELSE t[i - Len(s)]
  BY ConcatProperties, LenProperties
<1> SUFFICES ASSUME NEW j \in 1 .. Len(s \o t) PROVE (s \o t)[j] = 0 + j
  BY DEF BytesFrom
<1>2. j \in 1 .. Len(s) + Len(t) /\ j \in Nat
  BY <1>1
<1>3. CASE j <= Len(s)
  <2>1. j \in 1 .. Len(s)
    BY <1>1, <1>2, <1>3
  <2>2. QED
    BY <1>1, <1>2, <1>3, <2>1 DEF BytesFrom
<1>4. CASE ~ (j <= Len(s))
  <2>1. j - Len(s) \in 1 .. Len(t) /\ Len(s) + (j - Len(s)) = 0 + j
    BY <1>1, <1>2, <1>4
  <2>2. (s \o t)[j] = t[j - Len(s)] /\ t[j - Len(s)] = Len(s) + (j - Len(s))
    BY <1>1, <1>2, <1>4, <2>1 DEF BytesFrom
  <2>3. QED
    BY <2>1, <2>2
<1>5. QED
  BY <1>3, <1>4

\* What the last fetch has with the page it is given.
LEMMA Received ==
  ASSUME FetchInv, NEW i \in Op, Active(i), NEW o, o = op[i], o.reply # NoReply,
         NEW f, f = o.frames[Len(o.frames)], NEW data, data = f.data \o o.reply.data
  PROVE  /\ ~ o.reply.ok => faults # 0
         /\ o.reply.ok =>
              /\ o.reply \in Page /\ data \in Seq(Nat)
              /\ ~ lossy => /\ BytesFrom(data, 0) /\ data # <<>>
                            /\ o.reply.end => data = Whole(o.chunk)
                            /\ ~ o.reply.end => Len(data) < ChunkLen[o.chunk]
                            /\ store[f.hop][o.chunk] # Absent
<1>1. /\ o.chunk \in Chunk /\ o.reply \in Replies /\ Len(o.frames) \in Nat \ {0} /\ OpGood(i)
      /\ f.data \in Seq(Nat)
  <2>1. Len(o.frames) \in Nat \ {0}
    BY ActiveOp
  <2>2. Len(o.frames) \in 1 .. Len(o.frames)
    <3>1. \A n \in Nat \ {0} : n \in 1 .. n
      OBVIOUS
    <3>2. QED
      BY <2>1, <3>1
  <2>3. QED
    BY <2>1, <2>2, ActiveOp
<1>2. (~ lossy => SoundOp(o)) /\ (faults = 0 => o.reply # Error)
  BY <1>1 DEF OpGood
<1>3. \/ o.reply = Error /\ o.reply.ok = FALSE
      \/ o.reply \in Page /\ o.reply.ok = TRUE
  <2>1. Error.ok = FALSE /\ \A p \in Page : p.ok = TRUE
    BY DEF Error, Page
  <2>2. QED
    BY <1>1, <2>1 DEF Replies
<1>4. ASSUME o.reply.ok
      PROVE  /\ o.reply.data \in Seq(Nat) /\ data \in Seq(Nat)
             /\ Len(data) = Len(f.data) + Len(o.reply.data)
             /\ Len(f.data) \in Nat /\ Len(o.reply.data) \in Nat
  <2>1. o.reply.data \in Seq(Nat)
    BY <1>3, <1>4 DEF Page
  <2>2. QED
    BY <1>1, <2>1, ConcatProperties, LenProperties
<1>5. ASSUME o.reply.ok, ~ lossy
      PROVE  /\ BytesFrom(data, 0) /\ data # <<>>
             /\ o.reply.end => data = Whole(o.chunk)
             /\ ~ o.reply.end => Len(data) < ChunkLen[o.chunk]
             /\ store[f.hop][o.chunk] # Absent
  <2>1. SoundFrame(f, o) /\ SoundReply(f, o)
    <3>1. \A n \in Nat \ {0} : n \in 1 .. n
      OBVIOUS
    <3>2. Len(o.frames) \in 1 .. Len(o.frames)
      BY <1>1, <3>1
    <3>3. QED
      BY <1>2, <1>5, <3>2 DEF SoundOp
  <2>2. /\ BytesFrom(f.data, 0) /\ BytesFrom(o.reply.data, Len(f.data)) /\ Len(o.reply.data) > 0
        /\ Len(data) <= ChunkLen[o.chunk]
        /\ o.reply.end <=> Len(data) = ChunkLen[o.chunk]
        /\ store[f.hop][o.chunk] # Absent
    BY <1>4, <1>5, <2>1 DEF SoundFrame, SoundReply
  <2>3. BytesFrom(data, 0)
    BY <1>1, <1>4, <1>5, <2>2, BytesJoined
  <2>4. data # <<>>
    <3>1. \A a, b \in Nat : b > 0 => a + b # 0
      OBVIOUS
    <3>2. Len(data) # 0
      BY <1>4, <1>5, <2>2, <3>1
    <3>3. QED
      BY <1>4, <1>5, <3>2, EmptySeq
  <2>5. o.reply.end => data = Whole(o.chunk)
    BY <1>1, <1>4, <1>5, <2>2, <2>3, AllBytes
  <2>6. ~ o.reply.end => Len(data) < ChunkLen[o.chunk]
    <3>1. ChunkLen[o.chunk] \in Nat /\ Len(data) \in Nat
      BY <1>1, <1>4, <1>5, WholeChunk, LenProperties
    <3>2. \A a, b \in Nat : a <= b /\ a # b => a < b
      OBVIOUS
    <3>3. QED
      BY <2>2, <3>1, <3>2
  <2>7. QED
    BY <2>2, <2>3, <2>4, <2>5, <2>6
<1>6. QED
  BY <1>2, <1>3, <1>4, <1>5

\* A page before the last.
LEMMA MorePages ==
  ASSUME FetchInv, NEW i \in Op, Active(i), NEW o, o = op[i], o.reply # NoReply,
         o.reply.ok, ~ o.reply.end,
         NEW f, f = o.frames[Len(o.frames)], NEW data, data = f.data \o o.reply.data,
         op' = [op EXCEPT ![i].reply = NoReply, ![i].frames[Len(op[i].frames)].data = data],
         UNCHANGED <<epoch, store, origin, answer, faults, lossy>>
  PROVE  FetchInv'
<1>1. PICK m : m = Len(o.frames)
  OBVIOUS
<1>2. /\ o \in OpRec /\ o.frames \in Seq(FrameRec) /\ o.frames # <<>> /\ m \in Nat \ {0} /\ m \in 1 .. m
      /\ f \in FrameRec /\ OpGood(i)
  <2>1. \A n \in Nat \ {0} : n \in 1 .. n
    OBVIOUS
  <2>2. m \in Nat \ {0} /\ m \in 1 .. m
    BY <1>1, <2>1, ActiveOp
  <2>3. QED
    BY <1>1, <2>2, ActiveOp
<1>3. Serves(i, o) /\ Stacked(o) /\ (~ lossy => SoundOp(o))
  BY <1>2 DEF OpGood
<1>4. /\ data \in Seq(Nat)
      /\ ~ lossy => /\ BytesFrom(data, 0) /\ Len(data) < ChunkLen[o.chunk]
                    /\ store[f.hop][o.chunk] # Absent
  BY Received
<1>5. PICK g : g = [f EXCEPT !.data = data]
  OBVIOUS
<1>6. g \in FrameRec /\ g.node = f.node /\ g.off = f.off /\ g.hop = f.hop /\ g.data = data
  BY <1>2, <1>4, <1>5 DEF FrameRec
<1>7. PICK fs : fs = [o.frames EXCEPT ![m] = g]
  OBVIOUS
<1>8. /\ fs \in Seq(FrameRec) /\ Len(fs) = m /\ fs[m] = g
      /\ \A k \in 1 .. m : k # m => fs[k] = o.frames[k]
  <2>1. /\ fs \in Seq(FrameRec) /\ Len(fs) = Len(o.frames)
        /\ \A j \in 1 .. Len(o.frames) : fs[j] = IF j = m THEN g ELSE o.frames[j]
    <3>1. o.frames \in Seq(FrameRec) /\ m \in 1 .. Len(o.frames) /\ g \in FrameRec
      BY <1>1, <1>2, <1>6
    <3>2. QED
      BY <1>7, <3>1, ExceptSeq
  <2>2. QED
    BY <1>1, <1>2, <2>1
<1>9. PICK q : q = [o EXCEPT !.frames = fs, !.reply = NoReply]
  OBVIOUS
<1>10. op' = [op EXCEPT ![i] = q]
  BY <1>1, <1>5, <1>7, <1>9
<1>11. /\ q \in OpRec /\ q.chunk = o.chunk /\ q.host = o.host /\ q.frames = fs /\ q.reply = NoReply
  BY <1>2, <1>8, <1>9 DEF OpRec, Replies
<1>12. \A k \in 1 .. m : /\ q.frames[k].node = o.frames[k].node /\ q.frames[k].off = o.frames[k].off
                          /\ q.frames[k].hop = o.frames[k].hop
  BY <1>1, <1>6, <1>8, <1>11
<1>13. Serves(i, q)
  <2>1. 1 \in 1 .. m
    BY <1>2
  <2>2. QED
    BY <1>3, <1>11, <1>12, <2>1 DEF Serves
<1>14. Stacked(q)
  <2> SUFFICES ASSUME NEW k \in 1 .. m - 1
               PROVE  /\ q.frames[k + 1].node = q.frames[k].hop
                      /\ q.frames[k + 1].off = Len(q.frames[k].data)
    BY <1>8, <1>11 DEF Stacked
  <2>1. k \in 1 .. m /\ k + 1 \in 1 .. m /\ k # m
    BY <1>2
  <2>2. /\ o.frames[k + 1].node = o.frames[k].hop
        /\ o.frames[k + 1].off = Len(o.frames[k].data)
    BY <1>1, <1>3 DEF Stacked
  <2>3. q.frames[k] = o.frames[k]
    BY <1>8, <1>11, <2>1
  <2>4. QED
    BY <1>11, <1>12, <2>1, <2>2, <2>3
<1>15. ASSUME ~ lossy PROVE SoundOp(q)
  <2>1. \A k \in 1 .. m : SoundFrame(o.frames[k], o)
    BY <1>1, <1>3, <1>15 DEF SoundOp
  <2>2. ASSUME NEW k \in 1 .. m PROVE SoundFrame(q.frames[k], q)
    <3>1. CASE k = m
      <4>1. SoundFrame(f, o)
        BY <1>1, <1>2, <2>1
      <4>2. SoundFrame(g, q)
        BY <1>4, <1>6, <1>11, <1>15, <4>1 DEF SoundFrame
      <4>3. QED
        BY <1>8, <1>11, <3>1, <4>2
    <3>2. CASE k # m
      <4>1. SoundFrame(o.frames[k], o) /\ q.frames[k] = o.frames[k]
        BY <1>8, <1>11, <2>1, <3>2
      <4>2. QED
        BY <1>11, <4>1 DEF SoundFrame
    <3>3. QED
      BY <3>1, <3>2
  <2>3. SoundReply(q.frames[m], q)
    <3>1. q.reply.ok = FALSE
      BY <1>11 DEF NoReply
    <3>2. QED
      BY <3>1 DEF SoundReply
  <2>4. QED
    BY <1>8, <1>11, <2>2, <2>3 DEF SoundOp
<1>16. q.reply # Error
  BY <1>11 DEF NoReply, Error
<1>17. QED
  BY <1>10, <1>11, <1>13, <1>14, <1>15, <1>16, QuietStep

\* The last page, at the client.
LEMMA DeliveredStep ==
  ASSUME FetchInv, NEW i \in Fetch, Active(i),
         NEW data \in Seq(Nat), NEW hop \in Node,
         answer' = [answer EXCEPT ![i] = [state |-> "ok", data |-> data, from |-> hop]],
         op' = [op EXCEPT ![i].reply = NoReply, ![i].frames = <<>>],
         UNCHANGED <<epoch, store, origin, faults, lossy>>
  PROVE  FetchInv'
<1>1. PICK q : q = [op[i] EXCEPT !.reply = NoReply, !.frames = <<>>]
  OBVIOUS
<1>2. PICK a : a = [state |-> "ok", data |-> data, from |-> hop]
  OBVIOUS
<1>3. i \in Op /\ op[i] \in OpRec /\ <<>> \in Seq(FrameRec) /\ NoReply \in Replies
  <2>1. i \in Op
    BY DEF Op
  <2>2. <<>> \in Seq(FrameRec)
    OBVIOUS
  <2>3. op[i] \in OpRec
    BY <2>1, ActiveOp
  <2>4. QED
    BY <2>1, <2>2, <2>3 DEF Replies
<1>4. q \in OpRec /\ q.frames = <<>>
  BY <1>1, <1>3 DEF OpRec
<1>5. op' = [op EXCEPT ![i] = q]
  BY <1>1
<1>6. /\ answer' \in [Fetch -> AnswerRec]
      /\ (\A r \in Fetch : answer[r].state # "error") => \A r \in Fetch : answer'[r].state # "error"
  <2>1. a \in AnswerRec /\ a.state # "error"
    BY <1>2 DEF AnswerRec
  <2>2. answer' = [answer EXCEPT ![i] = a]
    BY <1>2
  <2>3. QED
    BY <2>1, <2>2, AnswerTypes
<1>7. /\ HostsHave' /\ (~ lossy' => ~ lossy /\ StoredWhole' /\ Mono)
      /\ faults = 0 => ~ lossy /\ \A r \in Fetch : answer[r].state # "error"
  BY DEF FetchInv, HostsHave, StoredWhole, Mono
<1>8. /\ store' \in [Node -> [Chunk -> Seq(Nat)]] /\ origin' \in [Node -> [Chunk -> Node]]
      /\ faults' \in 0 .. MaxFaults /\ lossy' \in BOOLEAN
  BY DEF FetchInv, FetchType
<1>9. QED
  BY <1>3, <1>4, <1>5, <1>6, <1>7, <1>8, OneOpStep

\* What is left of a chunk when a page was taken from it.
LEMMA KeptPart ==
  ASSUME NEW s \in Seq(Nat), s # <<>>, NEW off \in Nat
  PROVE  Kept(s, off) \in Seq(Nat) /\ Kept(s, off) # Absent /\ Kept(s, 0) = s
<1>1. Len(s) \in Nat \ {0} /\ \A i \in 1 .. Len(s) : s[i] \in Nat
  BY EmptySeq, LenProperties, ElementOfSeq
<1>2. ASSUME NEW k \in Nat, k < Len(s)
      PROVE  /\ SubSeq(s, k + 1, Len(s)) \in Seq(Nat) /\ Len(SubSeq(s, k + 1, Len(s))) = Len(s) - k
             /\ Len(SubSeq(s, k + 1, Len(s))) # 0
             /\ \A j \in 1 .. Len(s) - k : SubSeq(s, k + 1, Len(s))[j] = s[k + j]
  <2>1. Len(s) - k # 0 /\ k <= Len(s) /\ Len(s) \in Nat
    BY <1>1, <1>2
  <2>2. QED
    BY <2>1, PartOf
<1>3. Kept(s, off) \in Seq(Nat) /\ Kept(s, off) # Absent
  <2>1. CASE off >= Len(s)
    BY <1>1, <2>1 DEF Kept, Absent
  <2>2. CASE off < Len(s)
    <3>1. Kept(s, off) = SubSeq(s, off + 1, Len(s))
      BY <1>1, <2>2 DEF Kept
    <3>2. SubSeq(s, off + 1, Len(s)) \in Seq(Nat) /\ Len(SubSeq(s, off + 1, Len(s))) # 0
      BY <1>2, <2>2
    <3>3. QED
      BY <3>1, <3>2, EmptySeq DEF Absent
  <2>3. QED
    BY <1>1, <2>1, <2>2
<1>4. Kept(s, 0) = s
  <2>1. Kept(s, 0) = SubSeq(s, 0 + 1, Len(s)) /\ 0 < Len(s)
    BY <1>1 DEF Kept
  <2> DEFINE d == SubSeq(s, 0 + 1, Len(s))
  <2>2. d \in Seq(Nat) /\ Len(d) = Len(s) - 0 /\ \A j \in 1 .. Len(s) - 0 : d[j] = s[0 + j]
    BY <1>2, <2>1
  <2>3. Kept(s, 0) = d
    BY <2>1
  <2> HIDE DEF d
  <2>4. Len(s) - 0 = Len(s) /\ \A j \in 1 .. Len(s) : 0 + j = j
    BY <1>1
  <2>5. Len(d) = Len(s) /\ \A j \in 1 .. Len(s) : d[j] = s[j]
    BY <2>2, <2>4
  <2>6. d = s
    BY <2>2, <2>5, SeqEqual
  <2>7. QED
    BY <2>3, <2>6
<1>5. QED
  BY <1>3, <1>4

\* A proxy stores a chunk, or what is left of it.
LEMMA PutStep ==
  ASSUME FetchInv, NEW n \in Node, NEW c \in Chunk, NEW off \in Nat, ~ lossy => off = 0,
         store' = [store EXCEPT ![n][c] = IF @ = Absent THEN Kept(Whole(c), off) ELSE @]
  PROVE  /\ store' \in [Node -> [Chunk -> Seq(Nat)]] /\ HostsHave' /\ Mono
         /\ store'[n][c] # Absent
         /\ ~ lossy => StoredWhole'
<1>1. PICK v : v = IF store[n][c] = Absent THEN Kept(Whole(c), off) ELSE store[n][c]
  OBVIOUS
<1>2. store \in [Node -> [Chunk -> Seq(Nat)]] /\ HostsHave
  BY DEF FetchInv, FetchType
<1>3. /\ v \in Seq(Nat) /\ v # Absent /\ (store[n][c] # Absent => v = store[n][c])
      /\ ~ lossy => v = Whole(c)
  <2>1. Whole(c) \in Seq(Nat) /\ Whole(c) # <<>>
    BY WholeChunk DEF Absent
  <2>2. /\ Kept(Whole(c), off) \in Seq(Nat) /\ Kept(Whole(c), off) # Absent
        /\ Kept(Whole(c), 0) = Whole(c)
    BY <2>1, KeptPart
  <2>3. /\ store[n][c] \in Seq(Nat)
        /\ ~ lossy => store[n][c] = Absent \/ store[n][c] = Whole(c)
    BY StoredAt
  <2>4. QED
    BY <1>1, <2>2, <2>3
<1>4. store' = [store EXCEPT ![n][c] = v]
  BY <1>1
<1>5. /\ store' \in [Node -> [Chunk -> Seq(Nat)]] /\ store'[n][c] = v
      /\ \A m \in Node, d \in Chunk : store'[m][d] = store[m][d] \/ (m = n /\ d = c)
  BY <1>2, <1>3, <1>4
<1>6. Mono
  BY <1>3, <1>5 DEF Mono
<1>7. HostsHave'
  <2> SUFFICES ASSUME NEW r \in Fetch
               PROVE  store'[Wants[r].host][Wants[r].chunk] = Whole(Wants[r].chunk)
    BY DEF HostsHave
  <2>1. /\ Wants[r].host \in Node /\ Wants[r].chunk \in Chunk
        /\ store[Wants[r].host][Wants[r].chunk] = Whole(Wants[r].chunk)
    BY <1>2, ServeAssumption DEF HostsHave
  <2>2. Whole(Wants[r].chunk) # Absent
    BY <2>1, WholeChunk
  <2>3. QED
    BY <1>3, <1>5, <2>1, <2>2
<1>8. ASSUME ~ lossy PROVE StoredWhole'
  BY <1>3, <1>5, <1>8, StoredAt DEF StoredWhole
<1>9. QED
  BY <1>3, <1>5, <1>6, <1>7, <1>8

\* The storage of n keeps v under the id of c, if it has nothing there.
Puts(n, c, v) == store' = [store EXCEPT ![n][c] = IF @ = Absent THEN v ELSE @]

\* Nothing else is stored, and what is stored is from hop.
Sourced(n, c, hop) ==
  \A m \in Node, d \in Chunk :
    \/ store'[m][d] = store[m][d] /\ origin'[m][d] = origin[m][d]
    \/ m = n /\ d = c /\ origin'[m][d] = hop

\* What proxy_get_chunk_cb does to the storage: the node has the chunk from the hop,
\* if it did not have it.
LEMMA ProxyStores ==
  ASSUME FetchInv, NEW i \in Op, Active(i), NEW f, f = Top(i), NEW c, c = op[i].chunk,
         NEW data, proxy_get_chunk_cb(i, data)
  PROVE  /\ origin' \in [Node -> [Chunk -> Node]]
         /\ \/ /\ Puts(f.node, c, Kept(data, f.off))
               /\ Sourced(f.node, c, f.hop)
               /\ UNCHANGED <<faults, lossy>>
            \/ /\ faults < MaxFaults /\ faults' = faults + 1
               /\ lossy' = TRUE
               /\ UNCHANGED <<store, origin>>
<1>1. f.node \in Node /\ f.hop \in Node /\ c \in Chunk
  <2>1. \A n \in Nat \ {0} : n \in 1 .. n
    OBVIOUS
  <2>2. Len(op[i].frames) \in 1 .. Len(op[i].frames)
    BY <2>1, ActiveOp
  <2>3. QED
    BY <2>2, ActiveOp
<1>2. store \in [Node -> [Chunk -> Seq(Nat)]] /\ origin \in [Node -> [Chunk -> Node]]
  BY DEF FetchInv, FetchType
<1>3. CASE /\ store[f.node][c] = Absent
           /\ store' = [store EXCEPT ![f.node][c] = Kept(data, f.off)]
           /\ origin' = [origin EXCEPT ![f.node][c] = f.hop]
           /\ UNCHANGED <<faults, lossy>>
  <2>1. origin' \in [Node -> [Chunk -> Node]]
    BY <1>1, <1>2, <1>3
  <2>2. Puts(f.node, c, Kept(data, f.off))
    BY <1>1, <1>2, <1>3 DEF Puts
  <2>3. Sourced(f.node, c, f.hop)
    BY <1>1, <1>2, <1>3 DEF Sourced
  <2>4. QED
    BY <1>3, <2>1, <2>2, <2>3
<1>4. CASE store[f.node][c] # Absent /\ UNCHANGED <<store, origin, faults, lossy>>
  <2>1. Puts(f.node, c, Kept(data, f.off))
    BY <1>1, <1>2, <1>4 DEF Puts
  <2>2. QED
    BY <1>2, <1>4, <2>1 DEF Sourced
<1>5. CASE faults < MaxFaults /\ faults' = faults + 1 /\ lossy' = TRUE /\ UNCHANGED <<store, origin>>
  BY <1>2, <1>5
<1>6. QED
  BY <1>3, <1>4, <1>5 DEF proxy_get_chunk_cb, Hop, stored

\* The last page, at a proxy.
LEMMA ProxyStep ==
  ASSUME FetchInv, NEW i \in Op, Active(i), UNCHANGED <<epoch, answer>>,
         proxy_get_chunk_cb(i, Whole(op[i].chunk))
  PROVE  FetchInv'
<1>1. PICK o : o = op[i]
  OBVIOUS
<1>2. PICK m : m = Len(o.frames)
  OBVIOUS
<1>3. PICK f : f = o.frames[m]
  OBVIOUS
<1>4. /\ o \in OpRec /\ o.chunk \in Chunk /\ o.host \in Node /\ m \in Nat \ {0} /\ Top(i) = f
      /\ f.node \in Node /\ f.off \in Nat /\ OpGood(i) /\ m \in 1 .. m
  <2>1. \A k \in Nat \ {0} : k \in 1 .. k
    OBVIOUS
  <2>2. m \in Nat \ {0} /\ m \in 1 .. m
    BY <1>1, <1>2, <2>1, ActiveOp
  <2>3. QED
    BY <1>1, <1>2, <1>3, <2>2, ActiveOp
<1>5. Stacked(o) /\ (~ lossy => SoundOp(o)) /\ (~ lossy => f.off = 0)
  BY <1>1, <1>2, <1>3, <1>4 DEF OpGood, SoundOp, SoundFrame
<1>6. PICK p : p = IF m = 1 THEN NoReply ELSE PageReply(Whole(o.chunk), f.off)
  OBVIOUS
<1>7. p \in Replies
  BY <1>4, <1>6, WholeChunk, PageOf DEF Replies
<1>8. PICK q : q = [o EXCEPT !.frames = Front(@), !.reply = p]
  OBVIOUS
<1>9. /\ op' = [op EXCEPT ![i] = q]
      /\ \/ /\ store' = [store EXCEPT ![f.node][o.chunk] =
                                        IF @ = Absent THEN Kept(Whole(o.chunk), f.off) ELSE @]
            /\ UNCHANGED <<faults, lossy>>
         \/ /\ faults < MaxFaults /\ faults' = faults + 1
            /\ lossy' = TRUE
            /\ UNCHANGED store
      /\ origin' \in [Node -> [Chunk -> Node]]
  <2>1. op' = [op EXCEPT ![i] = q]
    BY <1>1, <1>2, <1>4, <1>6, <1>8 DEF proxy_get_chunk_cb
  <2>2. /\ origin' \in [Node -> [Chunk -> Node]]
        /\ \/ Puts(f.node, o.chunk, Kept(Whole(o.chunk), f.off)) /\ UNCHANGED <<faults, lossy>>
           \/ /\ faults < MaxFaults /\ faults' = faults + 1
              /\ lossy' = TRUE
              /\ UNCHANGED store
    BY <1>1, <1>4, ProxyStores
  <2>3. QED
    BY <2>1, <2>2 DEF Puts
<1>10. /\ q \in OpRec /\ q.chunk = o.chunk /\ q.host = o.host /\ q.frames = Front(o.frames)
       /\ q.reply = p
  <2>1. Front(o.frames) \in Seq(FrameRec)
    BY <1>1, <1>4, Popped, FrontLast DEF OpRec, Active
  <2>2. QED
    BY <1>4, <1>7, <1>8, <2>1 DEF OpRec
<1>11. /\ Len(q.frames) = m - 1 /\ (q.frames # <<>> <=> m # 1)
       /\ q.frames # <<>> =>
            /\ Serves(i, q) /\ Stacked(q)
            /\ m - 1 \in 1 .. m - 1 /\ q.frames[m - 1] = o.frames[m - 1]
            /\ ~ lossy => \A k \in 1 .. m - 1 : SoundFrame(q.frames[k], q)
  BY <1>1, <1>2, <1>10, Popped
<1>12. /\ faults' \in 0 .. MaxFaults /\ lossy' \in BOOLEAN
       /\ faults' = 0 => faults = 0 /\ ~ lossy'
       /\ ~ lossy' => /\ ~ lossy /\ faults' = faults
                      /\ store' = [store EXCEPT ![f.node][o.chunk] =
                                     IF @ = Absent THEN Kept(Whole(o.chunk), f.off) ELSE @]
  <2>1. faults \in 0 .. MaxFaults /\ lossy \in BOOLEAN /\ MaxFaults \in Nat /\ (faults = 0 => ~ lossy)
    BY ServeAssumption DEF FetchInv, FetchType
  <2>2. \A k \in 0 .. MaxFaults : k < MaxFaults => k + 1 \in 0 .. MaxFaults /\ k + 1 # 0
    BY <2>1
  <2>3. CASE /\ store' = [store EXCEPT ![f.node][o.chunk] =
                             IF @ = Absent THEN Kept(Whole(o.chunk), f.off) ELSE @]
             /\ UNCHANGED <<faults, lossy>>
    BY <2>1, <2>3
  <2>4. CASE faults < MaxFaults /\ faults' = faults + 1 /\ lossy' = TRUE
    <3>1. faults' \in 0 .. MaxFaults /\ faults' # 0
      BY <2>1, <2>2, <2>4
    <3>2. QED
      BY <2>4, <3>1
  <2>5. QED
    BY <1>9, <2>1, <2>3, <2>4
<1>13. /\ store' \in [Node -> [Chunk -> Seq(Nat)]] /\ HostsHave'
       /\ ~ lossy' => StoredWhole' /\ Mono /\ store'[f.node][o.chunk] # Absent
  <2>1. CASE store' = store /\ lossy'
    BY <2>1 DEF FetchInv, FetchType, HostsHave
  <2>2. CASE store' = [store EXCEPT ![f.node][o.chunk] =
                         IF @ = Absent THEN Kept(Whole(o.chunk), f.off) ELSE @]
    BY <1>4, <1>5, <1>12, <2>2, PutStep
  <2>3. QED
    BY <1>9, <2>1, <2>2
<1>14. ASSUME q.frames # <<>>, ~ lossy' PROVE SoundOp(q)' /\ q.reply # Error
  <2>1. PICK g : g = o.frames[m - 1]
    OBVIOUS
  <2>2. PICK k : k = m - 1
    OBVIOUS
  <2>3. k \in 1 .. k /\ k \in 1 .. m - 1 /\ k \in 1 .. m /\ k + 1 = m
    BY <1>4, <1>11, <1>14, <2>2
  <2>4. g \in FrameRec /\ g.data \in Seq(Nat) /\ Len(g.data) = f.off /\ f.node = g.hop
    <3>1. g \in FrameRec /\ g.data \in Seq(Nat)
      BY <1>1, <1>2, <2>1, <2>2, <2>3, ActiveOp
    <3>2. /\ o.frames[k + 1].node = o.frames[k].hop
          /\ o.frames[k + 1].off = Len(o.frames[k].data)
      BY <1>2, <1>5, <2>3 DEF Stacked
    <3>3. QED
      BY <1>3, <2>1, <2>2, <2>3, <3>1, <3>2
  <2>5. SoundFrame(g, q) /\ Len(g.data) < ChunkLen[o.chunk]
    BY <1>10, <1>11, <1>12, <1>14, <2>1, <2>2, <2>3 DEF SoundFrame
  <2>6. SoundReply(g, q)' /\ q.reply # Error
    <3>1. q.reply = PageReply(Whole(o.chunk), Len(g.data))
      BY <1>6, <1>10, <1>11, <1>14, <2>4
    <3>2. store'[g.hop][o.chunk] # Absent
      BY <1>13, <1>14, <2>4
    <3>3. QED
      BY <1>4, <1>10, <2>4, <2>5, <3>1, <3>2, PageIsSound
  <2>7. ASSUME NEW j \in 1 .. k PROVE SoundFrame(q.frames[j], q)'
    <3>1. SoundFrame(q.frames[j], q)
      BY <1>11, <1>12, <1>14, <2>2
    <3>2. q.frames[j] \in FrameRec
      <4>1. q.frames \in Seq(FrameRec) /\ j \in 1 .. Len(q.frames)
        BY <1>10, <1>11, <2>2 DEF OpRec
      <4>2. QED
        BY <4>1, ElementOfSeq
    <3>3. q.frames[j].hop \in Node
      BY <1>4, <1>10, <3>2, ServeAssumption DEF FrameRec
    <3>4. QED
      BY <1>4, <1>10, <1>13, <1>14, <3>1, <3>3 DEF SoundFrame, Mono
  <2>8. Len(q.frames) = k /\ q.frames[k] = g
    BY <1>11, <1>14, <2>1, <2>2
  <2>9. QED
    BY <2>6, <2>7, <2>8 DEF SoundOp
<1>15. faults' = 0 /\ q.frames # <<>> => q.reply # Error
  BY <1>12, <1>14
<1>16. /\ answer' \in [Fetch -> AnswerRec]
       /\ faults = 0 => \A r \in Fetch : answer'[r].state # "error"
  BY DEF FetchInv, FetchType
<1>17. QED
  BY <1>9, <1>10, <1>11, <1>12, <1>13, <1>14, <1>15, <1>16, OneOpStep

\* The last fetch gets what it was replied to.
LEMMA GetChunkCbStep ==
  ASSUME FetchInv, NEW i \in Op, get_chunk_internal_cb(i)
  PROVE  FetchInv'
<1>1. PICK o : o = op[i]
  OBVIOUS
<1>2. PICK f : f = o.frames[Len(o.frames)]
  OBVIOUS
<1>3. PICK data : data = f.data \o o.reply.data
  OBVIOUS
<1>4. Active(i) /\ o.reply # NoReply /\ Top(i) = f /\ o.chunk \in Chunk /\ UNCHANGED epoch
  BY <1>1, <1>2, ActiveOp DEF get_chunk_internal_cb
<1>13. f.hop \in Node
  <2>1. \A n \in Nat \ {0} : n \in 1 .. n
    OBVIOUS
  <2>2. Len(o.frames) \in 1 .. Len(o.frames)
    BY <1>1, <1>4, <2>1, ActiveOp
  <2>3. QED
    BY <1>1, <1>2, <1>4, <2>2, ActiveOp
<1>5. /\ ~ o.reply.ok => faults # 0
      /\ o.reply.ok => data \in Seq(Nat)
      /\ o.reply.ok /\ o.reply.end => Genuine(data, o.chunk) \/ lossy
  BY <1>1, <1>2, <1>3, <1>4, Received DEF Genuine
<1>6. faults = 0 => ~ lossy
  BY DEF FetchInv
<1>7. \/ /\ ~ o.reply.ok
         /\ FetchFails(i)
         /\ UNCHANGED <<store, origin, faults, lossy>>
      \/ /\ o.reply.ok /\ ~ o.reply.end
         /\ op' = [op EXCEPT ![i].reply = NoReply, ![i].frames[Len(op[i].frames)].data = data]
         /\ UNCHANGED <<store, origin, answer, faults, lossy>>
      \/ /\ o.reply.ok /\ o.reply.end /\ ~ Genuine(data, o.chunk)
         /\ FetchFails(i)
         /\ UNCHANGED <<store, origin, faults, lossy>>
      \/ /\ o.reply.ok /\ o.reply.end /\ i \in Fetch
         /\ answer' = [answer EXCEPT ![i] = [state |-> "ok", data |-> data, from |-> f.hop]]
         /\ op' = [op EXCEPT ![i].reply = NoReply, ![i].frames = <<>>]
         /\ UNCHANGED <<store, origin, faults, lossy>>
      \/ /\ data = Whole(op[i].chunk)
         /\ proxy_get_chunk_cb(i, data)
         /\ UNCHANGED answer
  BY <1>1, <1>3, <1>4 DEF get_chunk_internal_cb, Genuine, Hop, stored
<1>8. CASE (~ o.reply.ok \/ (o.reply.ok /\ o.reply.end /\ ~ Genuine(data, o.chunk)))
           /\ FetchFails(i) /\ UNCHANGED <<store, origin, faults, lossy>>
  <2>1. faults # 0
    BY <1>5, <1>6, <1>8
  <2>2. QED
    BY <1>4, <1>8, <2>1, FetchFailsStep
<1>9. CASE /\ o.reply.ok /\ ~ o.reply.end
           /\ op' = [op EXCEPT ![i].reply = NoReply, ![i].frames[Len(op[i].frames)].data = data]
           /\ UNCHANGED <<store, origin, answer, faults, lossy>>
  BY <1>1, <1>2, <1>3, <1>4, <1>9, MorePages
<1>10. CASE /\ o.reply.ok /\ o.reply.end /\ i \in Fetch
            /\ answer' = [answer EXCEPT ![i] = [state |-> "ok", data |-> data, from |-> f.hop]]
            /\ op' = [op EXCEPT ![i].reply = NoReply, ![i].frames = <<>>]
            /\ UNCHANGED <<store, origin, faults, lossy>>
  BY <1>4, <1>5, <1>10, <1>13, DeliveredStep
<1>11. CASE data = Whole(op[i].chunk) /\ proxy_get_chunk_cb(i, data) /\ UNCHANGED answer
  BY <1>4, <1>11, ProxyStep
<1>12. QED
  BY <1>7, <1>8, <1>9, <1>10, <1>11

\* A chunk is dropped at a node that is no host.
LEMMA DropStep ==
  ASSUME FetchInv, NEW n \in Node, NEW c \in Chunk, Drop(n, c)
  PROVE  FetchInv'
<1>1. /\ store' = [store EXCEPT ![n][c] = Absent] /\ lossy' = TRUE
      /\ faults < MaxFaults /\ faults' = faults + 1 /\ UNCHANGED <<epoch, origin, op, answer>>
      /\ \A r \in Fetch : Wants[r].host # n
  BY DEF Drop
<1>2. FetchType /\ HostsHave /\ MaxFaults \in Nat
  BY ServeAssumption DEF FetchInv
<1>3. faults' \in 0 .. MaxFaults /\ faults' # 0
  BY <1>1, <1>2 DEF FetchType
<1>4. Absent \in Seq(Nat)
  BY DEF Absent
<1>5. store' \in [Node -> [Chunk -> Seq(Nat)]]
  BY <1>1, <1>2, <1>4 DEF FetchType
<1>6. FetchType'
  BY <1>1, <1>2, <1>3, <1>5 DEF FetchType
<1>7. HostsHave'
  <2> SUFFICES ASSUME NEW r \in Fetch
               PROVE  store'[Wants[r].host][Wants[r].chunk] = Whole(Wants[r].chunk)
    BY DEF HostsHave
  <2>1. /\ Wants[r].host \in Node /\ Wants[r].chunk \in Chunk /\ Wants[r].host # n
        /\ store[Wants[r].host][Wants[r].chunk] = Whole(Wants[r].chunk)
    BY <1>1, <1>2, ServeAssumption DEF HostsHave
  <2>2. QED
    BY <1>1, <1>2, <2>1 DEF FetchType
<1>8. \A i \in Op : op'[i] = op[i]
  BY <1>1
<1>9. QED
  BY <1>1, <1>3, <1>6, <1>7, <1>8, FetchStep

\* Descriptors and bitmaps have nothing to do with it, but for the faults they meet;
\* nor has a routing table before it is read.
LEMMA PagingStep ==
  ASSUME FetchInv, UNCHANGED <<store, origin, op, answer, lossy>>, UNCHANGED faults \/ Fault,
         epoch' \in 1 .. Len(Routes)
  PROVE  FetchInv'
<1>1. FetchType /\ HostsHave /\ MaxFaults \in Nat
  BY ServeAssumption DEF FetchInv
<1>2. UNCHANGED <<store, origin, op, answer, lossy>>
  OBVIOUS
<1>3. faults' \in 0 .. MaxFaults /\ (faults' = 0 => faults = 0)
  BY <1>1 DEF FetchType, Fault
<1>4. FetchType' /\ HostsHave'
  BY <1>1, <1>2, <1>3 DEF FetchType, HostsHave
<1>5. /\ ~ lossy' => ~ lossy /\ StoredWhole' /\ Mono
      /\ faults = 0 => ~ lossy' /\ \A r \in Fetch : answer'[r].state # "error"
  BY <1>2 DEF FetchInv, StoredWhole, Mono
<1>6. \A i \in Op : op'[i] = op[i]
  BY <1>2
<1>7. QED
  BY <1>3, <1>4, <1>5, <1>6, FetchStep

\* The upper part of a stack, as an operation of its own.
LEMMA UpperPart ==
  ASSUME FetchInv, NEW i \in Op, Active(i), NEW o, o = op[i], NEW k \in 1 .. Len(o.frames) - 1,
         NEW j \in Orphan,
         NEW q, q.chunk = o.chunk, q.host = o.host, q.reply = o.reply,
         Len(q.frames) = Len(o.frames) - k,
         \A n \in 1 .. Len(o.frames) - k : q.frames[n] = o.frames[k + n]
  PROVE  Serves(j, q) /\ Stacked(q) /\ (~ lossy => SoundOp(q))
<1>1. PICK m : m = Len(o.frames)
  OBVIOUS
<1>2. m \in Nat \ {0} /\ OpGood(i)
  BY <1>1, ActiveOp
<1>3. Serves(i, o) /\ Stacked(o) /\ (~ lossy => SoundOp(o))
  BY <1>2 DEF OpGood
<1>4. /\ m - k \in 1 .. m - k /\ k + (m - k) = m
      /\ \A n \in 1 .. m - k : k + n \in 1 .. m
      /\ \A n \in 1 .. m - k - 1 : /\ n \in 1 .. m - k /\ n + 1 \in 1 .. m - k
                                   /\ k + n \in 1 .. m - 1 /\ k + (n + 1) = (k + n) + 1
  <2>1. \A a \in Nat : \A b \in 1 .. a - 1 :
          /\ a - b \in 1 .. a - b /\ b + (a - b) = a
          /\ \A n \in 1 .. a - b : b + n \in 1 .. a
          /\ \A n \in 1 .. a - b - 1 : /\ n \in 1 .. a - b /\ n + 1 \in 1 .. a - b
                                       /\ b + n \in 1 .. a - 1 /\ b + (n + 1) = (b + n) + 1
    OBVIOUS
  <2>2. m \in Nat /\ k \in 1 .. m - 1
    BY <1>1, <1>2
  <2>3. QED
    BY <2>1, <2>2
<1>5. Serves(j, q)
  <2>1. j \notin Fetch
    BY ServeAssumption
  <2>2. QED
    BY <1>3, <2>1 DEF Serves
<1>6. Stacked(q)
  <2> SUFFICES ASSUME NEW n \in 1 .. m - k - 1
               PROVE  /\ q.frames[n + 1].node = q.frames[n].hop
                      /\ q.frames[n + 1].off = Len(q.frames[n].data)
    BY <1>1 DEF Stacked
  <2>1. /\ o.frames[(k + n) + 1].node = o.frames[k + n].hop
        /\ o.frames[(k + n) + 1].off = Len(o.frames[k + n].data)
    BY <1>1, <1>3, <1>4 DEF Stacked
  <2>2. q.frames[n + 1] = o.frames[(k + n) + 1] /\ q.frames[n] = o.frames[k + n]
    BY <1>1, <1>4
  <2>3. QED
    BY <2>1, <2>2
<1>7. ASSUME ~ lossy PROVE SoundOp(q)
  <2>1. ASSUME NEW n \in 1 .. m - k PROVE SoundFrame(q.frames[n], q)
    <3>1. SoundFrame(o.frames[k + n], o) /\ q.frames[n] = o.frames[k + n]
      BY <1>1, <1>3, <1>4, <1>7 DEF SoundOp
    <3>2. QED
      BY <3>1 DEF SoundFrame
  <2>2. SoundReply(q.frames[m - k], q)
    <3>1. SoundReply(o.frames[m], o) /\ q.frames[m - k] = o.frames[m]
      BY <1>1, <1>3, <1>4, <1>7 DEF SoundOp
    <3>2. QED
      BY <3>1 DEF SoundReply
  <2>3. QED
    BY <1>1, <2>1, <2>2 DEF SoundOp
<1>8. QED
  BY <1>5, <1>6, <1>7

\* The connection below a fetch breaks.
LEMMA BreakStep ==
  ASSUME FetchInv, NEW i \in Op, NEW k \in DOMAIN op[i].frames, Break(i, k)
  PROVE  FetchInv'
<1>1. PICK o : o = op[i]
  OBVIOUS
<1>2. PICK m : m = Len(o.frames)
  OBVIOUS
<1>3. /\ Active(i) /\ faults < MaxFaults /\ faults' = faults + 1
      /\ UNCHANGED <<epoch, store, origin, answer, lossy>>
      /\ MaxFaults \in Nat /\ faults \in Nat
  BY ServeAssumption DEF Break, FetchInv, FetchType, stored
<1>4. /\ o \in OpRec /\ o.chunk \in Chunk /\ o.host \in Node /\ o.frames \in Seq(FrameRec)
      /\ o.frames # <<>> /\ o.reply \in Replies /\ m \in Nat \ {0} /\ OpGood(i)
      /\ \A n \in 1 .. m : o.frames[n] \in FrameRec
  BY <1>1, <1>2, <1>3, ActiveOp
<1>5. k \in 1 .. m
  BY <1>1, <1>2, <1>4, LenProperties
<1>6. faults' \in Orphan /\ faults' \in Op /\ faults' # 0 /\ faults' \in 0 .. MaxFaults
  BY <1>3 DEF Orphan, Op
<1>7. PICK low : low = SubSeq(o.frames, 1, k)
  OBVIOUS
<1>8. /\ low \in Seq(FrameRec) /\ Len(low) = k /\ low # <<>>
      /\ \A n \in 1 .. k : low[n] = o.frames[n]
  <2>1. 0 \in Nat /\ k \in Nat /\ 0 <= k /\ k <= Len(o.frames) /\ 0 + 1 = 1 /\ k - 0 = k /\ k # 0
    BY <1>2, <1>4, <1>5
  <2>2. \A n \in 1 .. k : 0 + n = n
    OBVIOUS
  <2>3. /\ SubSeq(o.frames, 0 + 1, k) \in Seq(FrameRec) /\ Len(SubSeq(o.frames, 0 + 1, k)) = k - 0
        /\ \A n \in 1 .. k - 0 : SubSeq(o.frames, 0 + 1, k)[n] = o.frames[0 + n]
    BY <1>4, <2>1, PartOf
  <2>4. low \in Seq(FrameRec) /\ Len(low) = k /\ \A n \in 1 .. k : low[n] = o.frames[n]
    BY <1>7, <2>1, <2>2, <2>3
  <2>5. QED
    BY <2>1, <2>4, EmptySeq
<1>9. PICK q : q = [o EXCEPT !.frames = low, !.reply = Error]
  OBVIOUS
<1>10. q \in OpRec /\ q.chunk = o.chunk /\ q.host = o.host /\ q.frames = low /\ q.reply = Error
  BY <1>4, <1>8, <1>9 DEF OpRec, Replies
<1>11. Serves(i, q) /\ Stacked(q) /\ (~ lossy => SoundOp(q))
  <2>1. /\ Serves(i, q) /\ Stacked(q)
        /\ ~ lossy => \A n \in 1 .. k : SoundFrame(q.frames[n], q)
    BY <1>1, <1>2, <1>3, <1>5, <1>8, <1>10, LowerPart
  <2>2. q.reply.ok = FALSE
    BY <1>10 DEF Error
  <2>3. QED
    BY <1>8, <1>10, <2>1, <2>2 DEF SoundOp, SoundReply
<1>12. PICK high : high = SubSeq(o.frames, k + 1, m)
  OBVIOUS
<1>13. PICK u : u = IF k < m THEN [o EXCEPT !.frames = high] ELSE NoOp
  OBVIOUS
<1>14. u \in OpRec /\ (u.frames # <<>> => Serves(faults', u) /\ Stacked(u) /\ (~ lossy => SoundOp(u)))
  <2>1. CASE k < m
    <3>1. k \in Nat /\ m \in Nat /\ k <= m /\ m <= Len(o.frames) /\ k \in 1 .. m - 1
      BY <1>2, <1>4, <1>5, <2>1
    <3>2. /\ high \in Seq(FrameRec) /\ Len(high) = m - k
          /\ \A n \in 1 .. m - k : high[n] = o.frames[k + n]
      BY <1>4, <1>12, <3>1, PartOf
    <3>3. u \in OpRec /\ u.chunk = o.chunk /\ u.host = o.host /\ u.frames = high /\ u.reply = o.reply
      BY <1>4, <1>13, <2>1, <3>2 DEF OpRec
    <3>4. Serves(faults', u) /\ Stacked(u) /\ (~ lossy => SoundOp(u))
      BY <1>1, <1>2, <1>3, <1>6, <3>1, <3>2, <3>3, UpperPart
    <3>5. QED
      BY <3>3, <3>4
  <2>2. CASE ~ (k < m)
    <3>1. <<>> \in Seq(FrameRec)
      OBVIOUS
    <3>2. NoOp \in OpRec /\ NoOp.frames = <<>>
      BY <3>1, ServeAssumption DEF NoOp, OpRec, Replies
    <3>3. QED
      BY <1>13, <2>2, <3>2
  <2>3. QED
    BY <2>1, <2>2
<1>15. /\ op' \in [Op -> OpRec] /\ op'[faults'] = u
       /\ \A j \in Op : j # faults' => op'[j] = IF j = i THEN q ELSE op[j]
  <2>1. op' = [op EXCEPT ![i].frames = low, ![i].reply = Error, ![faults'] = u]
    BY <1>1, <1>2, <1>7, <1>12, <1>13 DEF Break
  <2>2. op \in [Op -> OpRec]
    BY DEF FetchInv, FetchType
  <2>3. op' = [[op EXCEPT ![i] = q] EXCEPT ![faults'] = u]
    BY <1>1, <1>9, <2>1, <2>2
  <2>4. QED
    BY <1>6, <1>10, <1>14, <2>2, <2>3
<1>16. FetchType' /\ HostsHave' /\ (~ lossy' => ~ lossy /\ StoredWhole' /\ Mono)
  <2>1. FetchType /\ HostsHave /\ (~ lossy => StoredWhole)
    BY DEF FetchInv
  <2>2. QED
    BY <1>3, <1>6, <1>15, <2>1 DEF FetchType, HostsHave, StoredWhole, Mono
<1>17. ASSUME NEW j \in Op, NEW v, op'[j] = v, Serves(j, v), Stacked(v), ~ lossy => SoundOp(v)
       PROVE  OpGood(j)'
  <2>1. (~ lossy => SoundOp(op[j]))'
    BY <1>3, <1>17 DEF SoundOp, SoundFrame, SoundReply
  <2>2. QED
    BY <1>6, <1>17, <2>1 DEF OpGood, Serves, Stacked
<1>18. ASSUME NEW j \in Op, Active(j)', op'[j] # op[j] PROVE OpGood(j)'
  <2>1. CASE j = faults'
    BY <1>14, <1>15, <1>17, <1>18, <2>1 DEF Active
  <2>2. CASE j # faults'
    BY <1>11, <1>15, <1>17, <1>18, <2>2
  <2>3. QED
    BY <2>1, <2>2
<1>19. \A j \in Op : op'[j] = op[j] \/ (Active(j)' => OpGood(j)')
  BY <1>18
<1>20. QED
  BY <1>6, <1>16, <1>19, FetchStep

\* Every step keeps the invariant of the chunks.
LEMMA NextFetchInv ==
  ASSUME FetchInv, [Next]_vars
  PROVE  FetchInv'
<1>1. CASE UNCHANGED <<epoch, store, origin, op, answer, lossy>> /\ (UNCHANGED faults \/ Fault)
  <2>1. epoch' \in 1 .. Len(Routes)
    BY <1>1 DEF FetchInv, FetchType
  <2>2. QED
    BY <1>1, <2>1, PagingStep
<1>2. ASSUME NEW r \in Fetch, get_chunk(r) PROVE FetchInv'
  BY <1>2, GetChunkStep
<1>3. CASE UNCHANGED vars \/ get_descriptors \/ get_bitmap \/ get_desc_internal_cb \/ get_bitmap_internal_cb
  BY <1>1, <1>3 DEF vars, fetching, stored, get_descriptors, get_bitmap, get_desc_internal_cb,
                    get_bitmap_internal_cb
<1>4. CASE remote_get_descriptors \/ remote_get_bitmap
  BY <1>1, <1>4 DEF fetching, stored, remote_get_descriptors, remote_get_bitmap
<1>10. CASE Reroute
  <2>1. /\ epoch < Len(Routes) /\ epoch' = epoch + 1
        /\ UNCHANGED <<store, origin, op, answer, faults, lossy>>
    BY <1>10 DEF Reroute, stored
  <2>2. epoch' \in 1 .. Len(Routes)
    <3>1. epoch \in 1 .. Len(Routes) /\ Len(Routes) \in Nat
      BY ServeAssumption, LenProperties DEF FetchInv, FetchType
    <3>2. QED
      BY <2>1, <3>1
  <2>3. QED
    BY <2>1, <2>2, PagingStep
<1>5. ASSUME NEW i \in Op, remote_get_chunk(i) PROVE FetchInv'
  BY <1>5, RemoteGetChunkStep
<1>6. ASSUME NEW i \in Op, get_chunk_internal_cb(i) PROVE FetchInv'
  BY <1>6, GetChunkCbStep
<1>7. ASSUME NEW i \in Op, NEW k \in DOMAIN op[i].frames, Break(i, k) PROVE FetchInv'
  BY <1>7, BreakStep
<1>8. ASSUME NEW n \in Node, NEW c \in Chunk, Drop(n, c) PROVE FetchInv'
  BY <1>8, DropStep
<1>9. QED
  BY <1>2, <1>3, <1>4, <1>5, <1>6, <1>7, <1>8, <1>10 DEF Next, Dispatch, Receive

\* The invariant of the chunks holds at the start.
LEMMA InitFetchInv ==
  ASSUME Init
  PROVE  FetchInv
<1>1. <<>> \in Seq(Nat) /\ <<>> \in Seq(FrameRec)
  OBVIOUS
<1>2. /\ store \in [Node -> [Chunk -> Seq(Nat)]] /\ HostsHave /\ StoredWhole
  <2>1. \A c \in Chunk : Whole(c) \in Seq(Nat)
    BY WholeChunk
  <2>2. store = [n \in Node |-> [c \in Chunk |->
                  IF \E r \in Fetch : Wants[r].chunk = c /\ Wants[r].host = n
                  THEN Whole(c) ELSE Absent]]
    BY DEF Init
  <2>3. store \in [Node -> [Chunk -> Seq(Nat)]]
    BY <1>1, <2>1, <2>2 DEF Absent
  <2>4. \A r \in Fetch : Wants[r].host \in Node /\ Wants[r].chunk \in Chunk
    BY ServeAssumption
  <2>5. QED
    BY <2>2, <2>3, <2>4 DEF HostsHave, StoredWhole
<1>3. op \in [Op -> OpRec] /\ \A i \in Op : ~ Active(i)
  <2>1. NoOp \in OpRec /\ NoOp.frames = <<>>
    BY <1>1, ServeAssumption DEF NoOp, OpRec, Replies
  <2>2. QED
    BY <2>1 DEF Init, Active
<1>4. /\ answer \in [Fetch -> AnswerRec]
      /\ \A r \in Fetch : answer[r].state \in {"never", "new"}
  <2>1. PICK asked : answer = [r \in Fetch |-> [state |-> Asked(r, asked), data |-> <<>>, from |-> Wants[r].host]]
    BY DEF Init
  <2>2. \A r \in Fetch : Asked(r, asked) \in {"never", "new"}
    BY DEF Asked
  <2>3. QED
    BY <1>1, <2>1, <2>2, ServeAssumption DEF AnswerRec
<1>5. faults = 0 /\ lossy = FALSE
  BY DEF Init
<1>6. FetchType
  <2>1. 0 \in 0 .. MaxFaults
    BY ServeAssumption
  <2>2. faults \in 0 .. MaxFaults /\ lossy \in BOOLEAN
    BY <1>5, <2>1, Zenon
  <2>3. epoch \in 1 .. Len(Routes)
    <3>1. Len(Routes) \in Nat \ {0}
      BY ServeAssumption, EmptySeq, LenProperties
    <3>2. epoch = 1
      BY DEF Init
    <3>3. QED
      BY <3>1, <3>2
  <2>4. origin \in [Node -> [Chunk -> Node]]
    <3>1. origin = [n \in Node |-> [c \in Chunk |-> n]]
      BY DEF Init
    <3>2. QED
      BY <3>1
  <2>5. QED
    BY <1>2, <1>3, <1>4, <2>2, <2>3, <2>4 DEF FetchType
<1>7. \A r \in Fetch : answer[r].state # "error"
  BY <1>4
<1>8. QED
  BY <1>2, <1>3, <1>5, <1>6, <1>7 DEF FetchInv

\* FetchInv is an invariant.
LEMMA AlwaysFetchInv == Spec => []FetchInv
<1>1. Init => FetchInv
  BY InitFetchInv
<1>2. FetchInv /\ [Next]_vars => FetchInv'
  BY NextFetchInv
<1>3. QED
  BY <1>1, <1>2, PTL DEF Spec

-----------------------------------------------------------------------------
(* What a step does to the storage and to the answers *)

\* A chunk is stored only from a node that has it, and as long as nothing is lost it
\* stays.
LEMMA StoreSteps ==
  ASSUME FetchInv, [Next]_vars, ~ lossy'
  PROVE  /\ ~ lossy /\ Mono
         /\ \A n \in Node, c \in Chunk :
              store'[n][c] # Absent =>
                \/ store[n][c] # Absent /\ origin'[n][c] = origin[n][c]
                \/ origin'[n][c] \in Node /\ store[origin'[n][c]][c] # Absent
<1> DEFINE Goal == /\ ~ lossy /\ Mono
                   /\ \A n \in Node, c \in Chunk :
                        store'[n][c] # Absent =>
                          \/ store[n][c] # Absent /\ origin'[n][c] = origin[n][c]
                          \/ origin'[n][c] \in Node /\ store[origin'[n][c]][c] # Absent
<1>1. CASE UNCHANGED <<store, origin, lossy>>
  BY <1>1 DEF Mono
<1>2. ASSUME NEW i \in Op, get_chunk_internal_cb(i) PROVE Goal
  <2>1. PICK o : o = op[i]
    OBVIOUS
  <2>2. PICK f : f = o.frames[Len(o.frames)]
    OBVIOUS
  <2>3. PICK data : data = f.data \o o.reply.data
    OBVIOUS
  <2>4. Active(i) /\ o.reply # NoReply
    BY <1>2, <2>1 DEF get_chunk_internal_cb
  <2>5. Top(i) = f /\ o.chunk \in Chunk /\ f.node \in Node /\ f.off \in Nat /\ f.hop \in Node /\ OpGood(i)
    <3>1. \A n \in Nat \ {0} : n \in 1 .. n
      OBVIOUS
    <3>2. Len(o.frames) \in 1 .. Len(o.frames)
      BY <2>1, <2>4, <3>1, ActiveOp
    <3>3. QED
      BY <2>1, <2>2, <2>4, <3>2, ActiveOp
  <2>6. \/ UNCHANGED <<store, origin, lossy>>
        \/ o.reply.ok /\ data = Whole(o.chunk) /\ proxy_get_chunk_cb(i, data)
    BY <1>2, <2>1, <2>3, <2>5 DEF get_chunk_internal_cb, Genuine, stored
  <2>7. CASE o.reply.ok /\ data = Whole(o.chunk) /\ proxy_get_chunk_cb(i, data)
    <3>0. ~ lossy /\ Puts(f.node, o.chunk, Kept(data, f.off)) /\ Sourced(f.node, o.chunk, f.hop)
      BY <2>1, <2>4, <2>5, <2>7, ProxyStores
    <3>1. f.off = 0
      <4>1. \A n \in Nat \ {0} : n \in 1 .. n
        OBVIOUS
      <4>2. Len(o.frames) \in 1 .. Len(o.frames)
        BY <2>1, <2>4, <4>1, ActiveOp
      <4>3. QED
        BY <2>1, <2>2, <2>5, <3>0, <4>2 DEF OpGood, SoundOp, SoundFrame
    <3>2. Mono
      BY <2>5, <2>7, <3>0, <3>1, PutStep DEF Puts
    <3>3. store[f.hop][o.chunk] # Absent
      BY <2>1, <2>2, <2>3, <2>4, <2>7, <3>0, Received
    <3>4. QED
      BY <2>5, <3>0, <3>2, <3>3 DEF Sourced
  <2>8. QED
    BY <1>1, <2>6, <2>7
<1>3. ASSUME NEW n \in Node, NEW c \in Chunk, Drop(n, c) PROVE FALSE
  BY <1>3 DEF Drop
<1>4. CASE \E r \in Fetch : get_chunk(r)
  BY <1>1, <1>4 DEF get_chunk, stored
<1>5. CASE \/ get_descriptors \/ get_bitmap \/ get_desc_internal_cb \/ get_bitmap_internal_cb
           \/ remote_get_descriptors \/ remote_get_bitmap
  BY <1>1, <1>5 DEF get_descriptors, get_bitmap, get_desc_internal_cb, get_bitmap_internal_cb,
                    remote_get_descriptors, remote_get_bitmap, fetching, stored
<1>6. CASE \E i \in Op : remote_get_chunk(i)
  BY <1>1, <1>6 DEF remote_get_chunk, stored
<1>7. CASE \E i \in Op : \E k \in DOMAIN op[i].frames : Break(i, k)
  BY <1>1, <1>7 DEF Break, stored
<1>8. CASE UNCHANGED vars \/ Reroute
  BY <1>1, <1>8 DEF vars, Reroute, stored
<1>9. QED
  BY <1>2, <1>3, <1>4, <1>5, <1>6, <1>7, <1>8 DEF Next, Dispatch, Receive

\* A request is answered with the chunk, which the hop it is from has.
LEMMA AnswerSteps ==
  ASSUME FetchInv, [Next]_vars, NEW r \in Fetch, answer'[r].state = "ok"
  PROVE  \/ answer'[r] = answer[r]
         \/ /\ answer'[r].data = Whole(Wants[r].chunk)
            /\ ~ lossy => answer'[r].from \in Node /\ store[answer'[r].from][Wants[r].chunk] # Absent
<1> DEFINE Goal == \/ answer'[r] = answer[r]
                   \/ /\ answer'[r].data = Whole(Wants[r].chunk)
                      /\ ~ lossy => answer'[r].from \in Node /\ store[answer'[r].from][Wants[r].chunk] # Absent
<1>0. r \in DOMAIN answer /\ answer \in [Fetch -> AnswerRec]
  BY DEF FetchInv, FetchType
<1>1. CASE UNCHANGED answer
  BY <1>1
<1>2. ASSUME NEW i \in Op, get_chunk_internal_cb(i) PROVE Goal
  <2>1. PICK o : o = op[i]
    OBVIOUS
  <2>2. PICK f : f = o.frames[Len(o.frames)]
    OBVIOUS
  <2>3. PICK data : data = f.data \o o.reply.data
    OBVIOUS
  <2>4. Active(i) /\ o.reply # NoReply
    BY <1>2, <2>1 DEF get_chunk_internal_cb
  <2>5. Top(i) = f /\ o.chunk \in Chunk /\ f.hop \in Node /\ OpGood(i)
    <3>1. \A n \in Nat \ {0} : n \in 1 .. n
      OBVIOUS
    <3>2. Len(o.frames) \in 1 .. Len(o.frames)
      BY <2>1, <2>4, <3>1, ActiveOp
    <3>3. QED
      BY <2>1, <2>2, <2>4, <3>2, ActiveOp
  <2>6. \/ UNCHANGED answer
        \/ i \in Fetch /\ answer' = [answer EXCEPT ![i].state = "error"]
        \/ /\ o.reply.ok /\ data = Whole(o.chunk) /\ i \in Fetch /\ Len(o.frames) = 1
           /\ answer' = [answer EXCEPT ![i] = [state |-> "ok", data |-> data, from |-> f.hop]]
    BY <1>2, <2>1, <2>3, <2>5 DEF get_chunk_internal_cb, FetchFails, Genuine, Hop
  <2>7. CASE i \in Fetch /\ answer' = [answer EXCEPT ![i].state = "error"]
    BY <1>0, <2>7 DEF AnswerRec
  <2>8. CASE /\ o.reply.ok /\ data = Whole(o.chunk) /\ i \in Fetch /\ Len(o.frames) = 1
             /\ answer' = [answer EXCEPT ![i] = [state |-> "ok", data |-> data, from |-> f.hop]]
    <3>1. o.chunk = Wants[i].chunk /\ o.host = Wants[i].host
      BY <2>1, <2>2, <2>5, <2>8 DEF OpGood, Serves
    <3>2. ~ lossy => store[f.hop][o.chunk] # Absent
      BY <2>1, <2>2, <2>3, <2>4, <2>8, Received
    <3>3. CASE r = i
      BY <1>0, <2>5, <2>8, <3>1, <3>2, <3>3
    <3>4. CASE r # i
      BY <1>0, <2>8, <3>4
    <3>5. QED
      BY <3>3, <3>4
  <2>9. QED
    BY <1>1, <2>6, <2>7, <2>8
<1>3. ASSUME NEW s \in Fetch, get_chunk(s) PROVE Goal
  <2>1. answer' = [answer EXCEPT ![s].state = "open"]
    BY <1>3 DEF get_chunk
  <2>2. QED
    BY <1>0, <2>1 DEF AnswerRec
<1>4. CASE \E n \in Node, c \in Chunk : Drop(n, c)
  BY <1>1, <1>4 DEF Drop
<1>5. CASE \/ get_descriptors \/ get_bitmap \/ get_desc_internal_cb \/ get_bitmap_internal_cb
           \/ remote_get_descriptors \/ remote_get_bitmap
  BY <1>1, <1>5 DEF get_descriptors, get_bitmap, get_desc_internal_cb, get_bitmap_internal_cb,
                    remote_get_descriptors, remote_get_bitmap, fetching
<1>6. CASE \E i \in Op : remote_get_chunk(i)
  BY <1>1, <1>6 DEF remote_get_chunk
<1>7. CASE \E i \in Op : \E k \in DOMAIN op[i].frames : Break(i, k)
  BY <1>1, <1>7 DEF Break
<1>8. CASE UNCHANGED vars \/ Reroute
  BY <1>1, <1>8 DEF vars, Reroute
<1>9. QED
  BY <1>2, <1>3, <1>4, <1>5, <1>6, <1>7, <1>8 DEF Next, Dispatch, Receive

-----------------------------------------------------------------------------
(* The theorems, for chunks *)

\* Chained is kept by every step.
LEMMA NextChained ==
  ASSUME FetchInv, FetchInv', Chained, [Next]_vars
  PROVE  Chained'
<1> SUFFICES ASSUME ~ lossy' PROVE Chained'
  BY DEF Chained
<1>1. ~ lossy /\ Mono
  BY StoreSteps
<1>2. origin \in [Node -> [Chunk -> Node]] /\ answer \in [Fetch -> AnswerRec]
  BY DEF FetchInv, FetchType
<1>3. ASSUME NEW n \in Node, NEW c \in Chunk, store'[n][c] # Absent
      PROVE  store'[origin'[n][c]][c] # Absent
  <2>1. CASE store[n][c] # Absent /\ origin'[n][c] = origin[n][c]
    <3>1. store[origin[n][c]][c] # Absent /\ origin[n][c] \in Node
      BY <1>1, <1>2, <2>1 DEF Chained
    <3>2. QED
      BY <1>1, <2>1, <3>1 DEF Mono
  <2>2. CASE origin'[n][c] \in Node /\ store[origin'[n][c]][c] # Absent
    BY <1>1, <2>2 DEF Mono
  <2>3. QED
    BY <1>3, <2>1, <2>2, StoreSteps
<1>4. ASSUME NEW r \in Fetch, answer'[r].state = "ok"
      PROVE  store'[answer'[r].from][Wants[r].chunk] # Absent
  <2>1. Wants[r].chunk \in Chunk
    BY ServeAssumption
  <2>2. CASE answer'[r] = answer[r]
    <3>1. store[answer[r].from][Wants[r].chunk] # Absent /\ answer[r].from \in Node
      BY <1>1, <1>2, <1>4, <2>2 DEF Chained, AnswerRec
    <3>2. QED
      BY <1>1, <2>1, <2>2, <3>1 DEF Mono
  <2>3. CASE answer'[r].from \in Node /\ store[answer'[r].from][Wants[r].chunk] # Absent
    BY <1>1, <2>1, <2>3 DEF Mono
  <2>4. QED
    BY <1>1, <1>4, <2>2, <2>3, AnswerSteps
<1>5. QED
  BY <1>3, <1>4 DEF Chained

\* At the start every chunk is where it comes from.
LEMMA InitChained ==
  ASSUME Init
  PROVE  Chained
<1>1. origin = [n \in Node |-> [c \in Chunk |-> n]]
  BY DEF Init
<1>2. ASSUME NEW r \in Fetch PROVE answer[r].state # "ok"
  <2>1. PICK asked : answer = [s \in Fetch |-> [state |-> Asked(s, asked), data |-> <<>>, from |-> Wants[s].host]]
    BY DEF Init
  <2>2. QED
    BY <2>1 DEF Asked
<1>3. QED
  BY <1>1, <1>2 DEF Chained

\* What is chained is at every node that it came through.
LEMMA ChainedPath ==
  ASSUME Chained, FetchInv
  PROVE  ~ lossy => \A r \in Fetch : answer[r].state = "ok" =>
                      \A n \in Path(r) : store[n][Wants[r].chunk] # Absent
<1> SUFFICES ASSUME ~ lossy, NEW r \in Fetch, answer[r].state = "ok", NEW n \in Path(r)
             PROVE  store[n][Wants[r].chunk] # Absent
  OBVIOUS
<1>1. PICK S : S = {m \in Node : store[m][Wants[r].chunk] # Absent}
  OBVIOUS
<1>2. /\ answer[r].from \in Node /\ Wants[r].chunk \in Chunk
      /\ \A m \in Node : origin[m][Wants[r].chunk] \in Node
  <2>1. answer[r] \in AnswerRec /\ origin \in [Node -> [Chunk -> Node]]
    BY DEF FetchInv, FetchType
  <2>2. Wants[r].chunk \in Chunk
    BY ServeAssumption
  <2>3. QED
    BY <2>1, <2>2 DEF AnswerRec
<1>3. /\ \A m \in Node : store[m][Wants[r].chunk] # Absent =>
           store[origin[m][Wants[r].chunk]][Wants[r].chunk] # Absent
      /\ store[answer[r].from][Wants[r].chunk] # Absent
  BY <1>2 DEF Chained
<1>4. /\ S \in SUBSET Node /\ answer[r].from \in S
      /\ \A m \in S : origin[m][Wants[r].chunk] \in S
  BY <1>1, <1>2, <1>3
<1>5. n \in S
  BY <1>4 DEF Path
<1>6. QED
  BY <1>1, <1>5

\* A client is only ever given the chunk it asked for (get_chunk_internal_cb hands a
\* chunk on only when compute_chunk_id gives the id of the request), over every
\* network of proxies, whatever breaks, fails or is dropped.
THEOREM ClientsGetTheirChunk == Spec => []DeliveredGenuine
<1>1. Init => DeliveredGenuine
  <2> SUFFICES ASSUME Init, NEW r \in Fetch PROVE answer[r].state # "ok"
    BY DEF DeliveredGenuine
  <2>1. PICK asked : answer = [s \in Fetch |-> [state |-> Asked(s, asked), data |-> <<>>, from |-> Wants[s].host]]
    BY DEF Init
  <2>2. QED
    BY <2>1 DEF Asked
<1>2. FetchInv /\ DeliveredGenuine /\ [Next]_vars => DeliveredGenuine'
  <2> SUFFICES ASSUME FetchInv, DeliveredGenuine, [Next]_vars,
                      NEW r \in Fetch, answer'[r].state = "ok"
               PROVE  answer'[r].data = Whole(Wants[r].chunk)
    BY DEF DeliveredGenuine
  <2>1. CASE answer'[r] = answer[r]
    BY <2>1 DEF DeliveredGenuine
  <2>2. CASE answer'[r].data = Whole(Wants[r].chunk)
    BY <2>2
  <2>3. QED
    BY <2>1, <2>2, AnswerSteps
<1>3. QED
  BY <1>1, <1>2, AlwaysFetchInv, PTL DEF Spec

\* As long as no put fails and no chunk is dropped, what proxy_get_chunk_cb and its
\* put_ichunk leave in a node's storage under the id of a chunk is the whole chunk,
\* whatever connections break and however many requests share the way.
THEOREM ProxiesStoreWholeChunks == Spec => [](~ lossy => StoredWhole)
<1>1. FetchInv => (~ lossy => StoredWhole)
  BY DEF FetchInv
<1>2. QED
  BY <1>1, AlwaysFetchInv, PTL

\* And a chunk that a client was given is at every node that it came through: the hop
\* the client had it from, the node that one had it from, and so on to the host, over
\* every network of proxies and however the routing tables change meanwhile.
THEOREM CacheIsWhole == Spec => []CacheWhole
<1>1. Init => Chained
  BY InitChained
<1>2. FetchInv /\ FetchInv' /\ Chained /\ [Next]_vars => Chained'
  BY NextChained
<1>3. FetchInv /\ Chained => CacheWhole
  BY ChainedPath DEF FetchInv, CacheWhole
<1>4. QED
  BY <1>1, <1>2, <1>3, AlwaysFetchInv, PTL DEF Spec

-----------------------------------------------------------------------------
(* Lists and bitmaps: the inductive invariants *)

States == {"never", "new", "open", "ok", "error"}

Elements == UNION {Range(l) : l \in Lists}

DescsPage    == [ok : {TRUE}, offset : Nat, end : BOOLEAN, data : Seq(Elements)]
DescsReplies == {NoReply, Error} \cup DescsPage

\* s is the beginning of t.
Begins(s, t) == Len(s) <= Len(t) /\ \A j \in 1 .. Len(s) : s[j] = t[j]

\* The page that comes after data.
NextDescs(data, page) ==
  /\ Len(data) + Len(page.data) <= Len(descs)
  /\ page.end <=> Len(data) + Len(page.data) = Len(descs)
  /\ \A j \in 1 .. Len(page.data) : page.data[j] = descs[Len(data) + j]

\* The client has the beginning of the list, and there is more as long as it asks.
DescsInv ==
  /\ descs \in Seq(Elements)
  /\ dget \in [state : States, data : Seq(Elements), reply : DescsReplies]
  /\ Begins(dget.data, descs)
  /\ dget.reply.ok => NextDescs(dget.data, dget.reply)
  /\ dget.state \in {"new", "open"} => Len(dget.data) = 0 \/ Len(dget.data) < Len(descs)
  /\ dget.state = "ok" => dget.data = descs
  /\ faults = 0 => dget.state # "error" /\ dget.reply # Error

-----------------------------------------------------------------------------
(* Descriptor lists *)

\* Every list is a list of the elements.
LEMMA ListOfElements ==
  ASSUME NEW l \in Lists
  PROVE  l \in Seq(Elements)
<1>1. l \in Seq(Range(l))
  BY PagingAssumption
<1>2. Len(l) \in Nat /\ l \in [1 .. Len(l) -> Range(l)]
  BY <1>1, LenProperties
<1>3. Range(l) \subseteq Elements
  BY DEF Elements
<1>4. l \in [1 .. Len(l) -> Elements]
  BY <1>2, <1>3
<1>5. QED
  BY <1>2, <1>4, SeqDef

\* A page of the list.
LEMMA DescsPageOf ==
  ASSUME descs \in Seq(Elements), NEW data \in Seq(Elements),
         Len(data) = 0 \/ Len(data) < Len(descs)
  PROVE  LET p == DescsReply(Len(data))
         IN  p \in DescsPage /\ p.ok /\ NextDescs(data, p)
<1>1. Len(descs) \in Nat /\ Len(data) \in Nat /\ MaxDescs \in Nat \ {0} /\ Len(data) <= Len(descs)
  BY LenProperties, PagingAssumption
<1>2. PICK off : off = Len(data)
  OBVIOUS
<1>3. PICK n : n = Min({off + MaxDescs, Len(descs)})
  OBVIOUS
<1>4. n = IF off + MaxDescs <= Len(descs) THEN off + MaxDescs ELSE Len(descs)
  BY <1>1, <1>2, <1>3, MinTwo
<1>5. PICK e \in BOOLEAN : e <=> Len(descs) - off <= MaxDescs
  OBVIOUS
<1>6. n \in Nat /\ off \in Nat /\ off <= n /\ n <= Len(descs) /\ (e <=> n = Len(descs))
  BY <1>1, <1>2, <1>4, <1>5
<1>7. PICK d : d = SubSeq(descs, off + 1, n)
  OBVIOUS
<1>8. d \in Seq(Elements) /\ Len(d) = n - off /\ \A j \in 1 .. n - off : d[j] = descs[off + j]
  BY <1>6, <1>7, PartOf
<1>9. PICK p : p = [ok |-> TRUE, offset |-> off, end |-> e, data |-> d]
  OBVIOUS
<1>10. DescsReply(off) = p
  <2>1. ~ (off > 0 /\ off >= Len(descs))
    BY <1>1, <1>2
  <2>2. (Len(descs) - off <= MaxDescs) = e
    BY <1>5
  <2>3. QED
    BY <1>3, <1>7, <1>9, <2>1, <2>2 DEF DescsReply
<1>11. p.ok = TRUE /\ p.end = e /\ p.data = d /\ p \in DescsPage
  BY <1>6, <1>8, <1>9 DEF DescsPage
<1>12. Len(data) + Len(d) = n
  BY <1>1, <1>2, <1>6, <1>8
<1>13. NextDescs(data, p)
  BY <1>2, <1>6, <1>8, <1>11, <1>12 DEF NextDescs
<1>14. QED
  BY <1>2, <1>10, <1>11, <1>13

\* Two parts of a list that follow one another.
LEMMA DescsJoined ==
  ASSUME NEW S, NEW t \in Seq(S), NEW s \in Seq(S), NEW d \in Seq(S), Begins(s, t),
         Len(s) + Len(d) <= Len(t),
         \A j \in 1 .. Len(d) : d[j] = t[Len(s) + j]
  PROVE  s \o d \in Seq(S) /\ Len(s \o d) = Len(s) + Len(d) /\ Begins(s \o d, t)
<1>1. /\ s \o d \in Seq(S) /\ Len(s \o d) = Len(s) + Len(d) /\ Len(s) \in Nat /\ Len(d) \in Nat
      /\ \A i \in 1 .. Len(s) + Len(d) : (s \o d)[i] = IF i <= Len(s) THEN s[i] ELSE d[i - Len(s)]
  BY ConcatProperties, LenProperties
<1>2. ASSUME NEW i \in 1 .. Len(s) + Len(d) PROVE (s \o d)[i] = t[i]
  <2>1. CASE i <= Len(s)
    BY <1>1, <2>1 DEF Begins
  <2>2. CASE ~ (i <= Len(s))
    <3>1. i - Len(s) \in 1 .. Len(d) /\ Len(s) + (i - Len(s)) = i
      BY <1>1, <2>2
    <3>2. QED
      BY <1>1, <2>2, <3>1
  <2>3. QED
    BY <2>1, <2>2
<1>3. QED
  BY <1>1, <1>2 DEF Begins

\* A beginning as long as the list is the list.
LEMMA BeginsAll ==
  ASSUME NEW S, NEW t \in Seq(S), NEW s \in Seq(S), Begins(s, t)
  PROVE  /\ Len(s) = Len(t) => s = t
         /\ IsPrefix(s, t)
<1>1. Len(s) \in Nat /\ Len(t) \in Nat /\ Len(s) <= Len(t) /\ \A j \in 1 .. Len(s) : s[j] = t[j]
  BY LenProperties DEF Begins
<1>2. Len(s) = Len(t) => s = t
  BY <1>1, SeqEqual
<1>3. ASSUME NEW u \in Seq(S), Len(s) <= Len(u)
      PROVE  /\ SubSeq(u, 1, Len(s)) \in Seq(S) /\ Len(SubSeq(u, 1, Len(s))) = Len(s)
             /\ \A j \in 1 .. Len(s) : SubSeq(u, 1, Len(s))[j] = u[j]
  <2>1. /\ SubSeq(u, 0 + 1, Len(s)) \in Seq(S) /\ Len(SubSeq(u, 0 + 1, Len(s))) = Len(s) - 0
        /\ \A j \in 1 .. Len(s) - 0 : SubSeq(u, 0 + 1, Len(s))[j] = u[0 + j]
    BY <1>1, <1>3, PartOf
  <2>2. 0 + 1 = 1 /\ Len(s) - 0 = Len(s) /\ \A j \in 1 .. Len(s) : 0 + j = j
    BY <1>1
  <2>3. QED
    BY <2>1, <2>2
<1>4. SubSeq(s, 1, Len(s)) = SubSeq(t, 1, Len(s))
  <2>1. Len(s) <= Len(s)
    BY <1>1
  <2>2. /\ SubSeq(s, 1, Len(s)) \in Seq(S) /\ SubSeq(t, 1, Len(s)) \in Seq(S)
        /\ Len(SubSeq(s, 1, Len(s))) = Len(s) /\ Len(SubSeq(t, 1, Len(s))) = Len(s)
    BY <1>1, <1>3, <2>1
  <2>3. \A j \in 1 .. Len(s) : SubSeq(s, 1, Len(s))[j] = SubSeq(t, 1, Len(s))[j]
    BY <1>1, <1>3, <2>1
  <2>4. QED
    BY <2>2, <2>3, SeqEqual
<1>5. QED
  BY <1>1, <1>2, <1>4 DEF IsPrefix

\* The host sends a page, or an error after a fault.
LEMMA SendDescs ==
  ASSUME DescsInv, faults \in Nat, remote_get_descriptors
  PROVE  DescsInv'
<1>1. dget.state = "open" /\ descs' = descs
  BY DEF remote_get_descriptors, Calling
<1>2. /\ descs \in Seq(Elements) /\ dget.data \in Seq(Elements)
      /\ Len(dget.data) = 0 \/ Len(dget.data) < Len(descs)
  BY <1>1 DEF DescsInv
<1>3. ASSUME NEW p \in DescsReplies, dget' = [dget EXCEPT !.reply = p],
             p.ok => NextDescs(dget.data, p), faults' = 0 => faults = 0 /\ p # Error
      PROVE  DescsInv'
  <2>1. /\ dget' \in [state : States, data : Seq(Elements), reply : DescsReplies]
        /\ dget'.state = dget.state /\ dget'.data = dget.data /\ dget'.reply = p
    BY <1>3 DEF DescsInv
  <2>2. QED
    BY <1>1, <1>3, <2>1 DEF DescsInv, Begins, NextDescs
<1>4. CASE dget' = [dget EXCEPT !.reply = DescsReply(Len(dget.data))] /\ UNCHANGED faults
  <2>1. PICK p : p = DescsReply(Len(dget.data))
    OBVIOUS
  <2>2. p \in DescsPage /\ p.ok /\ NextDescs(dget.data, p)
    BY <1>2, <2>1, DescsPageOf
  <2>3. Error.ok = FALSE /\ p.ok = TRUE
    BY <2>2 DEF Error, DescsPage
  <2>4. p # Error /\ p \in DescsReplies
    BY <2>2, <2>3 DEF DescsReplies
  <2>5. QED
    BY <1>3, <1>4, <2>1, <2>2, <2>4
<1>5. CASE dget' = [dget EXCEPT !.reply = Error] /\ Fault
  <2>1. faults' # 0 /\ Error.ok = FALSE /\ Error \in DescsReplies
    BY <1>5 DEF Fault, Error, DescsReplies
  <2>2. QED
    BY <1>3, <1>5, <2>1
<1>6. QED
  BY <1>4, <1>5 DEF remote_get_descriptors

\* The client gets a page, or an error.
LEMMA ReceiveDescs ==
  ASSUME DescsInv, get_desc_internal_cb
  PROVE  DescsInv'
<1>1. PICK page : page = dget.reply
  OBVIOUS
<1>2. /\ page \in DescsReplies /\ page # NoReply /\ UNCHANGED <<descs, faults>>
      /\ dget.state = "open"
      /\ dget' = IF ~ page.ok THEN [dget EXCEPT !.state = "error"]
                 ELSE [state |-> IF page.end THEN "ok" ELSE "open",
                       data  |-> dget.data \o page.data, reply |-> NoReply]
  BY <1>1 DEF get_desc_internal_cb, Replied, DescsInv
<1>3. /\ descs \in Seq(Elements) /\ dget.data \in Seq(Elements) /\ Begins(dget.data, descs)
      /\ page.ok => NextDescs(dget.data, page)
      /\ faults = 0 => page # Error
      /\ dget \in [state : States, data : Seq(Elements), reply : DescsReplies]
  BY <1>1 DEF DescsInv
<1>4. (page = Error /\ page.ok = FALSE) \/ (page \in DescsPage /\ page.ok = TRUE)
  <2>1. Error.ok = FALSE /\ \A p \in DescsPage : p.ok = TRUE
    BY DEF Error, DescsPage
  <2>2. page \in DescsReplies /\ page # NoReply
    BY <1>2
  <2>3. page = Error \/ page \in DescsPage
    BY <2>2 DEF DescsReplies
  <2>4. QED
    BY <2>1, <2>3
<1>5. CASE page = Error /\ page.ok = FALSE
  <2>1. /\ dget' \in [state : States, data : Seq(Elements), reply : DescsReplies]
        /\ dget'.state = "error" /\ dget'.data = dget.data /\ dget'.reply = page
    BY <1>1, <1>2, <1>3, <1>5 DEF States
  <2>2. QED
    BY <1>2, <1>3, <1>5, <2>1 DEF DescsInv, Begins
<1>6. CASE page \in DescsPage /\ page.ok = TRUE
  <2>1. PICK d : d = dget.data \o page.data
    OBVIOUS
  <2>2. page.data \in Seq(Elements) /\ NextDescs(dget.data, page)
    BY <1>3, <1>6 DEF DescsPage
  <2>3. d \in Seq(Elements) /\ Len(d) = Len(dget.data) + Len(page.data) /\ Begins(d, descs)
    BY <1>3, <2>1, <2>2, DescsJoined DEF NextDescs
  <2>4. page.end <=> Len(d) = Len(descs)
    BY <2>2, <2>3 DEF NextDescs
  <2>5. PICK st : st = IF page.end THEN "ok" ELSE "open"
    OBVIOUS
  <2>6. dget' = [state |-> st, data |-> d, reply |-> NoReply]
    BY <1>2, <1>6, <2>1, <2>5
  <2>7. NoReply.ok = FALSE /\ NoReply # Error /\ NoReply \in DescsReplies
    BY DEF NoReply, Error, DescsReplies
  <2>8. /\ dget' \in [state : States, data : Seq(Elements), reply : DescsReplies]
        /\ dget'.state = st /\ dget'.data = d /\ dget'.reply = NoReply
    BY <2>3, <2>5, <2>6, <2>7 DEF States
  <2>9. CASE page.end
    <3>1. st = "ok" /\ d = descs
      BY <1>3, <2>3, <2>4, <2>5, <2>9, BeginsAll
    <3>2. QED
      BY <1>2, <1>3, <2>3, <2>7, <2>8, <3>1 DEF DescsInv, Begins
  <2>10. CASE ~ page.end
    <3>1. Len(d) < Len(descs)
      <4>1. Len(d) \in Nat /\ Len(descs) \in Nat /\ Len(d) <= Len(descs) /\ Len(d) # Len(descs)
        BY <1>3, <2>3, <2>4, <2>10, LenProperties DEF Begins
      <4>2. QED
        BY <4>1
    <3>2. st = "open"
      BY <2>5, <2>10
    <3>3. QED
      BY <1>2, <1>3, <2>3, <2>7, <2>8, <3>1, <3>2 DEF DescsInv, Begins
  <2>11. QED
    BY <2>9, <2>10
<1>7. QED
  BY <1>4, <1>5, <1>6

-----------------------------------------------------------------------------
(* Steps of others *)

\* What the other steps leave alone.
LEMMA OtherSteps ==
  ASSUME faults \in Nat,
         \/ UNCHANGED vars \/ Reroute
         \/ \E r \in Fetch : get_chunk(r)
         \/ \E i \in Op : remote_get_chunk(i)
         \/ \E i \in Op : get_chunk_internal_cb(i)
         \/ \E i \in Op : \E k \in DOMAIN op[i].frames : Break(i, k)
         \/ \E n \in Node, c \in Chunk : Drop(n, c)
  PROVE  UNCHANGED <<descs, dget, bits, bget>> /\ (faults' = 0 => faults = 0)
<1>1. CASE UNCHANGED vars \/ Reroute
  BY <1>1 DEF vars, Reroute, paging
<1>2. ASSUME NEW i \in Op, get_chunk_internal_cb(i) PROVE UNCHANGED paging /\ (faults' = 0 => faults = 0)
  <2>1. UNCHANGED paging /\ (UNCHANGED faults \/ faults' = faults + 1)
    BY <1>2, Zenon DEF get_chunk_internal_cb, proxy_get_chunk_cb, stored
  <2>2. QED
    BY <2>1
<1>3. CASE \E r \in Fetch : get_chunk(r)
  BY <1>3 DEF get_chunk, paging
<1>4. CASE \E i \in Op : remote_get_chunk(i)
  BY <1>4 DEF remote_get_chunk, paging
<1>5. CASE \E i \in Op : \E k \in DOMAIN op[i].frames : Break(i, k)
  BY <1>5 DEF Break, paging
<1>6. CASE \E n \in Node, c \in Chunk : Drop(n, c)
  BY <1>6 DEF Drop, paging
<1>7. QED
  BY <1>1, <1>2, <1>3, <1>4, <1>5, <1>6 DEF paging

\* Every step keeps the invariant of the descriptors.
LEMMA NextDescsInv ==
  ASSUME DescsInv, faults \in Nat, [Next]_vars
  PROVE  DescsInv'
<1>1. ASSUME UNCHANGED <<descs, dget>>, faults' = 0 => faults = 0 PROVE DescsInv'
  BY <1>1 DEF DescsInv, Begins, NextDescs
<1>2. CASE get_descriptors
  <2>1. /\ dget.state = "new" /\ UNCHANGED <<descs, faults>>
        /\ dget' = [dget EXCEPT !.state = "open"]
    BY <1>2 DEF get_descriptors
  <2>2. /\ dget' \in [state : States, data : Seq(Elements), reply : DescsReplies]
        /\ dget'.state = "open" /\ dget'.data = dget.data /\ dget'.reply = dget.reply
    BY <2>1 DEF DescsInv, States
  <2>3. QED
    BY <2>1, <2>2 DEF DescsInv, Begins, NextDescs
<1>3. CASE get_bitmap \/ get_bitmap_internal_cb
  BY <1>1, <1>3 DEF get_bitmap, get_bitmap_internal_cb
<1>4. CASE remote_get_bitmap
  BY <1>1, <1>4 DEF remote_get_bitmap, Fault
<1>5. QED
  BY <1>1, <1>2, <1>3, <1>4, SendDescs, ReceiveDescs, OtherSteps DEF Next, Dispatch, Receive

\* It holds at the start.
LEMMA InitDescsInv ==
  ASSUME Init
  PROVE  DescsInv
<1>1. <<>> \in Seq(Elements) /\ Len(<<>>) = 0
  OBVIOUS
<1>2. PICK asked : /\ dget = [state |-> Asked("descriptors", asked), data |-> <<>>, reply |-> NoReply]
                   /\ descs \in IF "descriptors" \in asked THEN Lists ELSE {<<>>}
  BY DEF Init
<1>3. descs \in Seq(Elements)
  BY <1>1, <1>2, ListOfElements
<1>4. Asked("descriptors", asked) \in {"never", "new"}
  BY DEF Asked
<1>5. NoReply.ok = FALSE /\ NoReply # Error /\ NoReply \in DescsReplies
  BY DEF NoReply, Error, DescsReplies
<1>6. /\ dget \in [state : States, data : Seq(Elements), reply : DescsReplies]
      /\ dget.state \in {"never", "new"} /\ dget.data = <<>> /\ dget.reply = NoReply
  BY <1>1, <1>2, <1>4, <1>5 DEF States
<1>7. Begins(dget.data, descs)
  BY <1>1, <1>3, <1>6, LenProperties DEF Begins
<1>8. QED
  BY <1>1, <1>3, <1>5, <1>6, <1>7 DEF DescsInv

-----------------------------------------------------------------------------
(* Bitmaps *)

\* Bytes and the bits in them.
LEMMA DivParts ==
  ASSUME NEW B \in Nat \ {0}, NEW x \in Nat
  PROVE  /\ x = B * (x \div B) + (x % B) /\ x % B \in 0 .. B - 1 /\ x \div B \in Nat
         /\ \A n \in Nat : x < n => x \div B + 1 <= (n + B - 1) \div B
<1>1. x % B \in 0 .. B - 1 /\ x \div B \in Int
  OBVIOUS
<1>2. x = B * (x \div B) + (x % B)
  OBVIOUS
<1>3. x \div B >= 0
  BY <1>1, <1>2
<1>4. ASSUME NEW n \in Nat, x < n PROVE x \div B + 1 <= (n + B - 1) \div B
  BY <1>4
<1>5. QED
  BY <1>1, <1>2, <1>3, <1>4

\* Quotient and remainder, from what they are.
LEMMA DivUnique ==
  ASSUME NEW B \in Nat \ {0}, NEW q \in Nat, NEW r \in 0 .. B - 1
  PROVE  (B * q + r) \div B = q /\ (B * q + r) % B = r
OBVIOUS

\* A bit after a whole number of bytes.
LEMMA DivAfter ==
  ASSUME NEW B \in Nat \ {0}, NEW off \in Nat, off % B = 0, NEW y \in Nat
  PROVE  /\ (off + y) \div B = off \div B + y \div B /\ (off + y) % B = y % B
         /\ y % B = 0 => (off + y) % B = 0
<1>1. off = B * (off \div B) + (off % B) /\ off \div B \in Nat
  BY DivParts
<1>2. y = B * (y \div B) + (y % B) /\ y % B \in 0 .. B - 1 /\ y \div B \in Nat
  BY DivParts
<1>3. PICK a \in Nat : a = off \div B
  BY <1>1
<1>4. PICK c \in Nat : c = y \div B
  BY <1>2
<1>5. PICK r \in 0 .. B - 1 : r = y % B
  BY <1>2
<1>6. off + y = B * (a + c) + r
  <2>1. off = B * a /\ y = B * c + r
    BY <1>1, <1>2, <1>3, <1>4, <1>5
  <2>2. B * (a + c) = B * a + B * c /\ B * a \in Nat /\ B * c \in Nat
    OBVIOUS
  <2>3. QED
    BY <2>1, <2>2
<1>7. a + c \in Nat
  OBVIOUS
<1>8. (B * (a + c) + r) \div B = a + c /\ (B * (a + c) + r) % B = r
  BY <1>7, DivUnique
<1>9. QED
  BY <1>3, <1>4, <1>5, <1>6, <1>8

\* The number of bytes that a number of bits after a whole number of bytes takes.
LEMMA BytesAfter ==
  ASSUME NEW off \in Nat, off % BYTE = 0, NEW n \in Nat, NEW m \in Nat, off + n <= m
  PROVE  /\ Bytes(n) \in Nat /\ Bytes(m) \in Nat /\ off \div BYTE \in Nat
         /\ off \div BYTE + Bytes(n) <= Bytes(m)
<1>1. BYTE \in Nat \ {0}
  BY PagingAssumption
<1>2. PICK k \in Nat : k = off + n + BYTE - 1
  BY <1>1
<1>3. PICK j \in Nat : j = n + BYTE - 1 /\ k = off + j
  BY <1>1, <1>2
<1>4. PICK l \in Nat : l = m + BYTE - 1 /\ k <= l
  BY <1>1, <1>2
<1>5. j \div BYTE \in Nat /\ l \div BYTE \in Nat /\ off \div BYTE \in Nat /\ k \div BYTE \in Nat
  BY <1>1, DivParts
<1>6. k \div BYTE = off \div BYTE + j \div BYTE
  <2>1. (off + j) \div BYTE = off \div BYTE + j \div BYTE
    BY <1>1, DivAfter
  <2>2. QED
    BY <1>3, <2>1
<1>7. k \div BYTE <= l \div BYTE
  BY <1>1, <1>4
<1>8. QED
  BY <1>3, <1>4, <1>5, <1>6, <1>7 DEF Bytes

\* A bit is in its byte when it is sent.
LEMMA Packed ==
  ASSUME NEW bmp \in Seq(BOOLEAN)
  PROVE  /\ convert_from_bitvec(bmp) \in Seq([0 .. BYTE - 1 -> BOOLEAN])
         /\ Len(convert_from_bitvec(bmp)) = Bytes(Len(bmp)) /\ Bytes(Len(bmp)) \in Nat
         /\ \A x \in Nat : x < Len(bmp) =>
              /\ x \div BYTE + 1 \in 1 .. Bytes(Len(bmp))
              /\ convert_from_bitvec(bmp)[x \div BYTE + 1][x % BYTE] = bmp[x + 1]
<1>1. BYTE \in Nat \ {0} /\ Len(bmp) \in Nat /\ \A i \in 1 .. Len(bmp) : bmp[i] \in BOOLEAN
  BY PagingAssumption, LenProperties, ElementOfSeq
<1>2. Bytes(Len(bmp)) \in Nat
  <2>0. \A l \in Nat, B \in Nat \ {0} : l + B - 1 \in Nat
    OBVIOUS
  <2>1. PICK k \in Nat : k = Len(bmp) + BYTE - 1
    BY <1>1, <2>0
  <2>2. k \div BYTE \in Nat
    BY <1>1, DivParts
  <2>3. QED
    BY <2>1, <2>2 DEF Bytes
<1>3. PICK s : s = convert_from_bitvec(bmp)
  OBVIOUS
<1>4. s \in [1 .. Bytes(Len(bmp)) -> [0 .. BYTE - 1 -> BOOLEAN]]
  BY <1>3 DEF convert_from_bitvec
<1>5. s \in Seq([0 .. BYTE - 1 -> BOOLEAN]) /\ Len(s) = Bytes(Len(bmp))
  BY <1>2, <1>4, SeqDef, LenProperties
<1>6. ASSUME NEW x \in Nat, x < Len(bmp)
      PROVE  /\ x \div BYTE + 1 \in 1 .. Bytes(Len(bmp))
             /\ s[x \div BYTE + 1][x % BYTE] = bmp[x + 1]
  <2>1. /\ x = BYTE * (x \div BYTE) + (x % BYTE) /\ x % BYTE \in 0 .. BYTE - 1 /\ x \div BYTE \in Nat
        /\ x \div BYTE + 1 <= Bytes(Len(bmp))
    BY <1>1, <1>6, DivParts DEF Bytes
  <2>2. PICK b : b = x \div BYTE + 1
    OBVIOUS
  <2>3. PICK j : j = x % BYTE
    OBVIOUS
  <2>4. b \in 1 .. Bytes(Len(bmp)) /\ j \in 0 .. BYTE - 1
    BY <1>2, <2>1, <2>2, <2>3
  <2>5. (b - 1) * BYTE + j + 1 = x + 1
    BY <1>1, <2>1, <2>2, <2>3
  <2>6. s[b][j] = ((b - 1) * BYTE + j + 1 <= Len(bmp) /\ bmp[(b - 1) * BYTE + j + 1])
    BY <1>3, <2>4 DEF convert_from_bitvec
  <2>7. x + 1 <= Len(bmp) /\ x + 1 \in 1 .. Len(bmp)
    BY <1>1, <1>6
  <2>8. s[b][j] = (x + 1 <= Len(bmp) /\ bmp[x + 1])
    BY <2>5, <2>6
  <2>9. bmp[x + 1] \in BOOLEAN
    BY <1>1, <2>7
  <2>10. s[b][j] = bmp[x + 1]
    BY <2>7, <2>8, <2>9
  <2>11. QED
    BY <2>2, <2>3, <2>4, <2>10
<1>7. QED
  BY <1>2, <1>3, <1>5, <1>6

\* A page of the bitmap that comes after data.
NextBits(data, page) ==
  /\ page.offset = Len(data) /\ page.count \in Nat /\ page.end \in BOOLEAN
  /\ Len(data) + page.count <= Len(bits)
  /\ page.end <=> Len(data) + page.count = Len(bits)
  /\ ~ page.end => page.count = MaxBits
  /\ \A j \in 1 .. page.count :
       page.bmp[((j - 1) \div BYTE) + 1][(j - 1) % BYTE] = bits[Len(data) + j]

\* The client has the beginning of the bitmap, a whole number of bytes as long as it asks;
\* of a bitmap of one page it gets that page first.
BitsInv ==
  /\ bits \in Seq(BOOLEAN)
  /\ bget = [state |-> bget.state, data |-> bget.data, reply |-> bget.reply]
  /\ bget.state \in States /\ bget.data \in Seq(BOOLEAN)
  /\ Begins(bget.data, bits)
  /\ bget.reply.ok = TRUE \/ bget.reply \in {NoReply, Error}
  /\ bget.reply.ok => NextBits(bget.data, bget.reply)
  /\ bget.state \in {"new", "open"} => Len(bget.data) % BYTE = 0
  /\ bget.state = "ok" => bget.data = bits
  /\ faults = 0 /\ Len(bits) <= MaxBits =>
       /\ bget.state # "error" /\ bget.reply # Error
       /\ bget.state \in {"new", "open"} => Len(bget.data) = 0

\* A page of the bitmap; the first one is never refused.
LEMMA BitmapPageOf ==
  ASSUME bits \in Seq(BOOLEAN), NEW data \in Seq(BOOLEAN), Len(data) <= Len(bits),
         Len(data) % BYTE = 0, NEW p, p = BitmapReply(Len(data))
  PROVE  /\ p = Error \/ (p.ok = TRUE /\ NextBits(data, p))
         /\ Len(data) = 0 => p # Error
<1>1. /\ Len(bits) \in Nat /\ Len(data) \in Nat /\ MaxBits \in Nat \ {0} /\ BYTE \in Nat \ {0}
      /\ MaxBits % BYTE = 0
  BY LenProperties, PagingAssumption
<1>2. PICK off \in Nat : off = Len(data)
  BY <1>1
<1>3. PICK packed : packed = convert_from_bitvec(bits)
  OBVIOUS
<1>4. PICK n : n = Min({MaxBits, Len(bits) - off})
  OBVIOUS
<1>5. PICK first : first = off \div BYTE
  OBVIOUS
<1>6. PICK bmp : bmp = SubSeq(packed, first + 1, first + Bytes(n))
  OBVIOUS
<1>7. PICK e \in BOOLEAN : e <=> Len(bits) - off <= MaxBits
  OBVIOUS
<1>8. n = IF MaxBits <= Len(bits) - off THEN MaxBits ELSE Len(bits) - off
  BY <1>1, <1>4, MinTwo
<1>9. n \in Nat /\ off + n <= Len(bits) /\ (e <=> off + n = Len(bits)) /\ (~ e => n = MaxBits)
  BY <1>1, <1>2, <1>7, <1>8
<1>10. /\ Bytes(n) \in Nat /\ Bytes(Len(bits)) \in Nat /\ first \in Nat
       /\ first + Bytes(n) <= Bytes(Len(bits))
  BY <1>1, <1>2, <1>5, <1>9, BytesAfter
<1>11. \A b \in 1 .. Bytes(n) : bmp[b] = packed[first + b]
  <2>1. packed \in Seq([0 .. BYTE - 1 -> BOOLEAN]) /\ Len(packed) = Bytes(Len(bits))
    BY <1>3, Packed
  <2>2. first + Bytes(n) \in Nat /\ first <= first + Bytes(n) /\ (first + Bytes(n)) - first = Bytes(n)
    BY <1>10
  <2>3. \A b \in 1 .. (first + Bytes(n)) - first : bmp[b] = packed[first + b]
    BY <1>6, <1>10, <2>1, <2>2, PartOf
  <2>4. QED
    BY <2>2, <2>3
<1>12. ASSUME NEW j \in 1 .. n
       PROVE  bmp[((j - 1) \div BYTE) + 1][(j - 1) % BYTE] = bits[off + j]
  <2>1. PICK y \in Nat : y = j - 1 /\ y < n /\ off + y \in Nat /\ off + y < Len(bits) /\ (off + y) + 1 = off + j
    BY <1>1, <1>9
  <2>2. y \div BYTE + 1 \in 1 .. Bytes(n) /\ y \div BYTE \in Nat
    <3>1. y \div BYTE \in Nat /\ y \div BYTE + 1 <= (n + BYTE - 1) \div BYTE
      BY <1>1, <1>9, <2>1, DivParts
    <3>2. QED
      BY <1>10, <3>1 DEF Bytes
  <2>3. (off + y) \div BYTE = first + y \div BYTE /\ (off + y) % BYTE = y % BYTE
    BY <1>1, <1>2, <1>5, DivAfter
  <2>4. packed[(off + y) \div BYTE + 1][(off + y) % BYTE] = bits[(off + y) + 1]
    BY <1>3, <2>1, Packed
  <2>5. PICK c \in Nat : c = y \div BYTE
    BY <2>2
  <2>6. (first + c) + 1 = first + (c + 1)
    BY <1>10
  <2>7. packed[first + (c + 1)][y % BYTE] = bits[off + j]
    BY <2>1, <2>3, <2>4, <2>5, <2>6
  <2>8. bmp[c + 1] = packed[first + (c + 1)]
    BY <1>11, <2>2, <2>5
  <2>9. QED
    BY <2>1, <2>5, <2>7, <2>8
<1>13. \/ p = Error /\ off > 0
       \/ p = [ok |-> TRUE, offset |-> off, end |-> e, count |-> n, bmp |-> bmp]
  <2>1. (Len(bits) - off <= MaxBits) = e
    BY <1>7
  <2>2. QED
    BY <1>2, <1>3, <1>4, <1>5, <1>6, <2>1 DEF BitmapReply
<1>14. CASE p = Error /\ off > 0
  BY <1>2, <1>14
<1>15. CASE p = [ok |-> TRUE, offset |-> off, end |-> e, count |-> n, bmp |-> bmp]
  <2>1. p.ok = TRUE /\ p.offset = off /\ p.end = e /\ p.count = n /\ p.bmp = bmp
    BY <1>15
  <2>2. NextBits(data, p)
    BY <1>2, <1>9, <1>12, <2>1 DEF NextBits
  <2>3. Error.ok = FALSE
    BY DEF Error
  <2>4. QED
    BY <2>1, <2>2, <2>3
<1>16. QED
  BY <1>13, <1>14, <1>15

\* The host sends a page, refuses one, or has an error.
LEMMA SendBits ==
  ASSUME BitsInv, faults \in Nat, remote_get_bitmap
  PROVE  BitsInv'
<1>1. bget.state = "open" /\ bits' = bits
  BY DEF remote_get_bitmap, Calling
<1>2. /\ bits \in Seq(BOOLEAN) /\ bget.data \in Seq(BOOLEAN) /\ Len(bget.data) <= Len(bits)
      /\ Len(bget.data) % BYTE = 0
      /\ faults = 0 /\ Len(bits) <= MaxBits => Len(bget.data) = 0
  BY <1>1 DEF BitsInv, Begins
<1>3. ASSUME NEW p, bget' = [bget EXCEPT !.reply = p],
             p = Error \/ (p.ok = TRUE /\ NextBits(bget.data, p)),
             faults' = 0 => faults = 0,
             faults' = 0 /\ Len(bits) <= MaxBits => p # Error
      PROVE  BitsInv'
  <2>1. bget' = [state |-> bget.state, data |-> bget.data, reply |-> p]
    BY <1>3 DEF BitsInv
  <2>2. bget'.state = bget.state /\ bget'.data = bget.data /\ bget'.reply = p
    BY <2>1
  <2>3. (p.ok = TRUE \/ p \in {NoReply, Error}) /\ (p.ok => NextBits(bget.data, p))
    <3>1. Error.ok = FALSE
      BY DEF Error
    <3>2. QED
      BY <1>3, <3>1
  <2>4. QED
    BY <1>1, <1>3, <2>1, <2>2, <2>3 DEF BitsInv, Begins, NextBits
<1>4. CASE bget' = [bget EXCEPT !.reply = BitmapReply(Len(bget.data))] /\ UNCHANGED faults
  <2>1. PICK p : p = BitmapReply(Len(bget.data))
    OBVIOUS
  <2>2. /\ p = Error \/ (p.ok = TRUE /\ NextBits(bget.data, p))
        /\ Len(bget.data) = 0 => p # Error
    BY <1>2, <2>1, BitmapPageOf
  <2>3. QED
    BY <1>2, <1>3, <1>4, <2>1, <2>2
<1>5. CASE bget' = [bget EXCEPT !.reply = Error] /\ Fault
  <2>1. faults' # 0
    BY <1>5 DEF Fault
  <2>2. QED
    BY <1>3, <1>5, <2>1
<1>6. QED
  BY <1>4, <1>5 DEF remote_get_bitmap

\* The client gets a page, or an error.
LEMMA ReceiveBits ==
  ASSUME BitsInv, get_bitmap_internal_cb
  PROVE  BitsInv'
<1>1. PICK page : page = bget.reply
  OBVIOUS
<1>2. /\ page # NoReply /\ bits' = bits /\ faults' = faults /\ bget.state = "open"
      /\ bget' = IF ~ page.ok THEN [bget EXCEPT !.state = "error"]
                 ELSE [state |-> IF page.end THEN "ok" ELSE "open",
                       data  |-> SubSeq(bget.data, 1, page.offset)
                                   \o convert_to_bitvec(page.bmp, page.count),
                       reply |-> NoReply]
  BY <1>1 DEF get_bitmap_internal_cb, Replied
<1>3. PICK data : data = bget.data
  OBVIOUS
<1>4. /\ bits \in Seq(BOOLEAN) /\ data \in Seq(BOOLEAN) /\ Begins(data, bits)
      /\ page.ok = TRUE \/ page \in {NoReply, Error}
      /\ page.ok => NextBits(data, page)
      /\ Len(data) % BYTE = 0
      /\ faults = 0 /\ Len(bits) <= MaxBits => page # Error /\ Len(data) = 0
      /\ bget = [state |-> bget.state, data |-> data, reply |-> page]
  BY <1>1, <1>2, <1>3 DEF BitsInv
<1>5. CASE page = Error
  <2>1. Error.ok = FALSE
    BY DEF Error
  <2>2. bget' = [state |-> "error", data |-> data, reply |-> Error]
    <3>1. PICK st : bget = [state |-> st, data |-> data, reply |-> page]
      BY <1>4
    <3>2. bget' = [bget EXCEPT !.state = "error"]
      BY <1>2, <1>5, <2>1
    <3>3. QED
      BY <1>5, <3>1, <3>2
  <2>3. bget'.state = "error" /\ bget'.data = data /\ bget'.reply = Error
    BY <2>2
  <2>4. QED
    BY <1>2, <1>4, <1>5, <2>1, <2>2, <2>3 DEF BitsInv, Begins, States
<1>6. CASE page.ok = TRUE
  <2>1. NextBits(data, page)
    BY <1>4, <1>6
  <2>2. PICK n \in Nat : n = page.count
    BY <2>1 DEF NextBits
  <2>3. PICK t : t = convert_to_bitvec(page.bmp, n)
    OBVIOUS
  <2>4. Len(data) + n <= Len(bits) /\ Len(data) \in Nat /\ Len(bits) \in Nat
    BY <1>4, <2>1, <2>2, LenProperties DEF NextBits
  <2>5. t \in Seq(BOOLEAN) /\ Len(t) = n /\ \A j \in 1 .. n : t[j] = bits[Len(data) + j]
    <3>1. \A j \in 1 .. n : Len(data) + j \in 1 .. Len(bits)
      BY <2>4
    <3>2. \A j \in 1 .. n : bits[Len(data) + j] \in BOOLEAN
      BY <1>4, <3>1, ElementOfSeq
    <3>3. \A j \in 1 .. n :
            page.bmp[((j - 1) \div BYTE) + 1][(j - 1) % BYTE] = bits[Len(data) + j]
      BY <2>1, <2>2 DEF NextBits
    <3>4. t = [j \in 1 .. n |-> page.bmp[((j - 1) \div BYTE) + 1][(j - 1) % BYTE]]
      BY <2>3 DEF convert_to_bitvec
    <3>5. t = [j \in 1 .. n |-> bits[Len(data) + j]]
      BY <3>3, <3>4
    <3>6. t \in [1 .. n -> BOOLEAN] /\ \A j \in 1 .. n : t[j] = bits[Len(data) + j]
      BY <3>2, <3>5
    <3>7. QED
      BY <3>6, SeqDef, LenProperties
  <2>6. SubSeq(data, 1, page.offset) = data
    <3>1. page.offset = Len(data) /\ Len(data) <= Len(data) /\ 0 <= Len(data)
      BY <2>1, <2>4 DEF NextBits
    <3>2. /\ SubSeq(data, 0 + 1, Len(data)) \in Seq(BOOLEAN)
          /\ Len(SubSeq(data, 0 + 1, Len(data))) = Len(data) - 0
          /\ \A j \in 1 .. Len(data) - 0 : SubSeq(data, 0 + 1, Len(data))[j] = data[0 + j]
      BY <1>4, <2>4, <3>1, PartOf
    <3>3. 0 + 1 = 1 /\ Len(data) - 0 = Len(data) /\ \A j \in 1 .. Len(data) : 0 + j = j
      BY <2>4
    <3>4. QED
      BY <1>4, <3>1, <3>2, <3>3, SeqEqual
  <2>7. PICK d : d = data \o t
    OBVIOUS
  <2>8. d \in Seq(BOOLEAN) /\ Len(d) = Len(data) + n /\ Begins(d, bits)
    BY <1>4, <2>4, <2>5, <2>7, DescsJoined
  <2>9. PICK st : st = IF page.end THEN "ok" ELSE "open"
    OBVIOUS
  <2>10. bget' = [state |-> st, data |-> d, reply |-> NoReply]
    BY <1>2, <1>3, <1>6, <2>2, <2>3, <2>6, <2>7, <2>9
  <2>11. bget'.state = st /\ bget'.data = d /\ bget'.reply = NoReply
    BY <2>10
  <2>12. NoReply.ok = FALSE /\ NoReply # Error
    BY DEF NoReply, Error
  <2>13. CASE page.end
    <3>1. st = "ok" /\ Len(d) = Len(bits)
      BY <2>1, <2>2, <2>8, <2>9, <2>13 DEF NextBits
    <3>2. d = bits
      BY <1>4, <2>8, <3>1, BeginsAll
    <3>3. QED
      BY <1>2, <1>4, <2>8, <2>10, <2>11, <2>12, <3>1, <3>2 DEF BitsInv, Begins, States
  <2>14. CASE ~ page.end
    <3>1. st = "open" /\ n = MaxBits /\ Len(data) + n # Len(bits)
      BY <2>1, <2>2, <2>9, <2>14 DEF NextBits
    <3>2. Len(d) % BYTE = 0
      <4>1. BYTE \in Nat \ {0} /\ MaxBits \in Nat /\ MaxBits % BYTE = 0
        BY PagingAssumption
      <4>2. (Len(data) + MaxBits) % BYTE = 0
        BY <1>4, <2>4, <4>1, DivAfter
      <4>3. QED
        BY <2>8, <3>1, <4>2
    <3>3. ~ (Len(bits) <= MaxBits)
      <4>1. MaxBits \in Nat
        BY PagingAssumption
      <4>2. QED
        BY <2>4, <3>1, <4>1
    <3>4. QED
      BY <1>2, <1>4, <2>8, <2>10, <2>11, <2>12, <3>1, <3>2, <3>3 DEF BitsInv, Begins, States
  <2>15. QED
    BY <2>13, <2>14
<1>7. QED
  BY <1>2, <1>4, <1>5, <1>6

\* Every step keeps the invariant of the bitmap.
LEMMA NextBitsInv ==
  ASSUME BitsInv, faults \in Nat, [Next]_vars
  PROVE  BitsInv'
<1>1. ASSUME UNCHANGED <<bits, bget>>, faults' = 0 => faults = 0 PROVE BitsInv'
  BY <1>1 DEF BitsInv, Begins, NextBits
<1>2. CASE get_bitmap
  <2>1. /\ bget.state = "new" /\ UNCHANGED <<bits, faults>>
        /\ bget' = [bget EXCEPT !.state = "open"]
    BY <1>2 DEF get_bitmap
  <2>2. bget' = [state |-> "open", data |-> bget.data, reply |-> bget.reply]
    BY <2>1 DEF BitsInv
  <2>3. bget'.state = "open" /\ bget'.data = bget.data /\ bget'.reply = bget.reply
    BY <2>2
  <2>4. QED
    BY <2>1, <2>2, <2>3 DEF BitsInv, Begins, NextBits, States
<1>3. CASE get_descriptors \/ get_desc_internal_cb
  BY <1>1, <1>3 DEF get_descriptors, get_desc_internal_cb
<1>4. CASE remote_get_descriptors
  BY <1>1, <1>4 DEF remote_get_descriptors, Fault
<1>5. QED
  BY <1>1, <1>2, <1>3, <1>4, SendBits, ReceiveBits, OtherSteps DEF Next, Dispatch, Receive

\* It holds at the start.
LEMMA InitBitsInv ==
  ASSUME Init
  PROVE  BitsInv
<1>1. <<>> \in Seq(BOOLEAN) /\ Len(<<>>) = 0
  OBVIOUS
<1>2. PICK asked : /\ bget = [state |-> Asked("bitmap", asked), data |-> <<>>, reply |-> NoReply]
                   /\ bits \in IF "bitmap" \in asked THEN Bitmaps ELSE {<<>>}
  BY DEF Init
<1>3. bits \in Seq(BOOLEAN)
  BY <1>1, <1>2, PagingAssumption
<1>4. Asked("bitmap", asked) \in {"never", "new"}
  BY DEF Asked
<1>5. NoReply.ok = FALSE /\ NoReply # Error
  BY DEF NoReply, Error
<1>6. bget.state \in {"never", "new"} /\ bget.data = <<>> /\ bget.reply = NoReply
  BY <1>2, <1>4
<1>7. Begins(bget.data, bits)
  BY <1>1, <1>3, <1>6, LenProperties DEF Begins
<1>8. 0 % BYTE = 0
  BY PagingAssumption
<1>9. QED
  BY <1>1, <1>2, <1>3, <1>5, <1>6, <1>7, <1>8 DEF BitsInv, States

-----------------------------------------------------------------------------
(* The theorems *)

\* Both invariants hold always.
LEMMA AlwaysPaging == Spec => [](DescsInv /\ BitsInv)
<1>1. Init => DescsInv /\ BitsInv
  BY InitDescsInv, InitBitsInv
<1>2. FetchInv => faults \in Nat
  BY ServeAssumption DEF FetchInv, FetchType
<1>3. DescsInv /\ BitsInv /\ faults \in Nat /\ [Next]_vars => (DescsInv /\ BitsInv)'
  BY NextDescsInv, NextBitsInv
<1>4. QED
  BY <1>1, <1>2, <1>3, AlwaysFetchInv, PTL DEF Spec

\* The pages that get_desc_internal_cb puts together are the beginning of the host's
\* descriptor list, and all of it at the end; and a bitmap that get_bitmap_internal_cb
\* delivers is the host's, bit for bit: for every list, bitmap, size of a page and
\* number of bits in a byte.
THEOREM PagesMakeTheWhole == Spec => []PagesWhole
<1>1. ASSUME DescsInv, BitsInv PROVE PagesWhole
  <2>1. IsPrefix(dget.data, descs)
    <3>1. descs \in Seq(Elements) /\ dget.data \in Seq(Elements) /\ Begins(dget.data, descs)
      BY <1>1 DEF DescsInv
    <3>2. QED
      BY <3>1, BeginsAll
  <2>2. QED
    BY <1>1, <2>1 DEF PagesWhole, DescsInv, BitsInv
<1>2. QED
  BY <1>1, AlwaysPaging, PTL

\* No request fails before a fault: not one for a chunk, whatever others fetch and store
\* at the same time; not one for a list of descriptors; and not one for a bitmap of one
\* page (remote_get_bitmap may refuse the next one).
THEOREM ErrorsHaveAFault == Spec => []NoFaultNoError
<1>1. FetchInv /\ DescsInv /\ BitsInv => NoFaultNoError
  BY DEF FetchInv, DescsInv, BitsInv, NoFaultNoError
<1>2. QED
  BY <1>1, AlwaysFetchInv, AlwaysPaging, PTL
=============================================================================
