---------------------------- MODULE SniffTcpProofs ----------------------------
(***************************************************************************)
(* Proofs about SniffTcp, for any flows and packets, any interleaving and  *)
(* repetition of their captures, and any starting sequence numbers.        *)
(*                                                                         *)
(* The invariant says where the bytes of every block come from: a block of *)
(* a flow is a piece of the flow's stream, a block of a chunk a piece of   *)
(* the chunk.  Neither needs the lists to be sorted, only that a block is   *)
(* joined with bytes that start where it ends.                             *)
(***************************************************************************)
EXTENDS SniffTcp, SequenceTheorems, WellFoundedInduction, TLAPS

\* No flow carries a chunk response twice.
OncePerFlow ==
  \A f \in Flow, r \in Chunk : \A i, j \in 1 .. Len(Stream[f]) :
    Stream[f][i] = <<r, 1>> /\ Stream[f][j] = <<r, 1>> => i = j

\* The sequence number of the byte at offset p of flow f.
At(f, p) == SeqAdd(StartSeq[f], p)

\* The bytes d are those of flow f from sequence number a.
OfFlow(f, a, d) ==
  /\ d \in Seq(AnyByte)
  /\ \E p \in 0 .. Len(Stream[f]) :
       /\ a = At(f, p) /\ p + Len(d) <= Len(Stream[f])
       /\ \A k \in 1 .. Len(d) : d[k] \in {Garbage, Stream[f][p + k]}

FlowBlocks(f) ==
  {b \in Block : b.next = SeqAdd(b.start, Len(b.data)) /\ OfFlow(f, b.start, b.data)}

\* The bytes d are those of chunk r from offset a, unless a lies behind the chunk,
\* which it does only when a flow carries the chunk twice.
OfChunk(r, a, d) ==
  /\ a \in Nat /\ d \in Seq(AnyByte)
  /\ a <= RecLen[r] => /\ a + Len(d) <= RecLen[r]
                       /\ \A k \in 1 .. Len(d) : d[k] \in {Garbage, <<r, a + k>>}
  /\ OncePerFlow => a <= RecLen[r]

ChunkBlock == [start : Nat, next : Nat, data : Seq(AnyByte)]
ChunkBlocks(r) ==
  {b \in ChunkBlock : b.next = b.start + Len(b.data) /\ OfChunk(r, b.start, b.data)}

\* The first block of a chunk has its header.
HasHeader(lcb, r) ==
  /\ Len(lcb) >= 1 /\ lcb[1].start = 0
  /\ Len(lcb[1].data) >= 1 /\ lcb[1].data[1] = <<r, 1>>

\* Chunk r starts on flow f at sequence number a.
HeaderAt(f, r, a) ==
  \E s \in 0 .. Len(Stream[f]) - 1 : a = At(f, s) /\ Stream[f][s + 1] = <<r, 1>>

Starts(r) == {m \in [Flow -> SeqNum \cup {-1}] :
                \A f \in Flow : m[f] # -1 => HeaderAt(f, r, m[f])}
Entries(r) == [flow_seq_map : Starts(r), lcb : Seq(ChunkBlocks(r))]
Maps == {m \in [Chunk -> (UNION {Entries(r) : r \in Chunk}) \cup {NoChunk}] :
           \A r \in Chunk : m[r] \in Entries(r) \cup {NoChunk}}

Responses == {d \in Seq(AnyByte) : \E r \in Chunk :
                /\ Len(d) = RecLen[r]
                /\ \A k \in 1 .. RecLen[r] : d[k] \in {<<r, k>>, Garbage}}

\* The part of the state a handler works on.
Parts(f) == [list : Seq(FlowBlocks(f)), map : Maps, sent : Seq(Responses), defined : BOOLEAN]
Headed(map, r) == Known(map, r) => HasHeader(map[r].lcb, r)
PartOK(f, st) ==
  st \in Parts(f) /\ (st.defined => \A r \in Chunk : Headed(st.map, r))

\* A ChunkInfo of flow f: its chunk is known, and starts on f.
InfoOK(f, map, c) ==
  /\ c \in [chunk_id : Chunk, s_seq_num : SeqNum, chunk_length : Nat]
  /\ c.chunk_length = RecLen[c.chunk_id] /\ HeaderAt(f, c.chunk_id, c.s_seq_num)
  /\ Known(map, c.chunk_id) /\ map[c.chunk_id].flow_seq_map[f] # -1

SniffInv ==
  /\ g_multi_chances \in BOOLEAN
  /\ chunk_map \in Maps /\ sent \in Seq(Responses) /\ defined \in BOOLEAN
  /\ \A r \in Chunk : Known(chunk_map, r) => Flow # {}
  /\ p_flow_list \in [Flow -> Seq(Block)]
  /\ \A f \in Flow : PartOK(f, Part(f))
  /\ flow_chunk_map \in [Flow -> Seq([chunk_id : Chunk, s_seq_num : SeqNum, chunk_length : Nat])]
  /\ \A f \in Flow : \A i \in 1 .. Len(flow_chunk_map[f]) :
       InfoOK(f, chunk_map, flow_chunk_map[f][i])
  /\ DOMAIN captured = Flow /\ \A f \in Flow : captured[f] \subseteq Segments[f]
  /\ repeats \in 0 .. MaxRepeats

-----------------------------------------------------------------------------
(* Sequences and folds *)

\* A set of naturals that is not empty has a least element.
LEMMA LeastNat ==
  ASSUME NEW T \in SUBSET Nat, T # {}
  PROVE  \E m \in T : \A n \in T : m <= n
<1>1. PICK m \in T : \A n \in T : ~ (<<n, m>> \in OpToRel(<, Nat))
  BY NatLessThanWellFounded, WFMin, Zenon
<1>2. \A n \in T : ~ (n < m)
  BY <1>1 DEF OpToRel
<1>3. QED
  BY <1>2

\* The least element is the one Min takes.
LEMMA MinLemma ==
  ASSUME NEW T \in SUBSET Nat, T # {}
  PROVE  Min(T) \in T /\ \A n \in T : Min(T) <= n
  BY LeastNat DEF Min

\* What SubSeq returns, inside the sequence.
LEMMA SubSeqFacts ==
  ASSUME NEW T, NEW d \in Seq(T), NEW m \in 1 .. Len(d) + 1, NEW n \in m - 1 .. Len(d)
  PROVE  /\ SubSeq(d, m, n) \in Seq(T)
         /\ Len(SubSeq(d, m, n)) = n - m + 1
         /\ \A k \in 1 .. n - m + 1 : SubSeq(d, m, n)[k] = d[m + k - 1]
<1>1. Len(d) \in Nat
  OBVIOUS
<1>2. QED
  BY <1>1

\* What \o returns.
LEMMA ConcatFacts ==
  ASSUME NEW T, NEW d \in Seq(T), NEW e \in Seq(T)
  PROVE  /\ d \o e \in Seq(T)
         /\ Len(d \o e) = Len(d) + Len(e)
         /\ Len(d) \in Nat /\ Len(e) \in Nat
         /\ \A k \in 1 .. Len(d) + Len(e) :
              (d \o e)[k] = IF k <= Len(d) THEN d[k] ELSE e[k - Len(d)]
  OBVIOUS

\* Splice takes elements of T to elements of T, and leaves what comes before.
LEMMA SpliceFacts ==
  ASSUME NEW T, NEW s \in Seq(T), NEW i \in 1 .. Len(s) + 1, NEW j \in i - 1 .. Len(s), NEW b \in T
  PROVE  /\ Splice(s, i, j, b) \in Seq(T)
         /\ Len(Splice(s, i, j, b)) = Len(s) - (j - i) /\ Len(Splice(s, i, j, b)) >= i
         /\ Splice(s, i, j, b)[i] = b
         /\ \A k \in 1 .. i - 1 : Splice(s, i, j, b)[k] = s[k]
<1> DEFINE n == Len(s) - (j - i)
           e(k) == IF k < i THEN s[k] ELSE IF k = i THEN b ELSE s[k + (j - i)]
<1>1. Len(s) \in Nat /\ i \in Int /\ j \in Int /\ n \in Nat /\ i <= n
  OBVIOUS
<1>2. Splice(s, i, j, b) = [k \in 1 .. n |-> e(k)]
  BY DEF Splice
<1>3. \A k \in 1 .. n : e(k) \in T
  <2> SUFFICES ASSUME NEW k \in 1 .. n PROVE e(k) \in T
    OBVIOUS
  <2>1. CASE k < i
    BY <1>1, <2>1
  <2>2. CASE k = i
    BY <2>2
  <2>3. CASE k > i
    BY <1>1, <2>3
  <2>4. QED
    BY <1>1, <2>1, <2>2, <2>3
<1>4. e(i) = b /\ \A k \in 1 .. i - 1 : e(k) = s[k]
  BY <1>1
<1> HIDE DEF n, e
<1>5. QED
  BY <1>1, <1>2, <1>3, <1>4 DEF n

\* The sequence t has b at i, and what s has before.
SplicedAt(T, s, i, b, t) ==
  t \in Seq(T) /\ Len(t) >= i /\ t[i] = b /\ \A k \in 1 .. i - 1 : t[k] = s[k]

\* SpliceFacts as far as they concern what comes up to i.
LEMMA SplicedLemma ==
  ASSUME NEW T, NEW s \in Seq(T), NEW i \in 1 .. Len(s) + 1, NEW j \in i - 1 .. Len(s), NEW b \in T
  PROVE  SplicedAt(T, s, i, b, Splice(s, i, j, b))
  BY SpliceFacts DEF SplicedAt

\* A fold stays where every step of it does.
LEMMA FoldIn ==
  ASSUME NEW S, NEW n \in Nat, NEW h, h[0] \in S,
         \A k \in 1 .. n : h[k - 1] \in S => h[k] \in S
  PROVE  \A k \in 0 .. n : h[k] \in S
<1> DEFINE T == {k \in 0 .. n : h[k] \notin S}
<1> SUFFICES ASSUME T # {} PROVE FALSE
  OBVIOUS
<1>1. PICK m \in T : \A k \in T : m <= k
  <2>1. T \in SUBSET Nat
    OBVIOUS
  <2> HIDE DEF T
  <2>2. QED
    BY <2>1, LeastNat
<1>2. m # 0 /\ m \in 1 .. n /\ m - 1 \in 0 .. n
  OBVIOUS
<1>3. m - 1 \notin T
  BY <1>1, <1>2
<1>4. QED
  BY <1>2, <1>3

\* h is the fold of the n steps, from base on.
IsFold(n, base, step, h) == h[0] = base /\ \A k \in 1 .. n : h[k] = step[k][h[k - 1]]

\* There is a fold of any steps on S, and it stays in S.
LEMMA FoldExists ==
  ASSUME NEW S, NEW n \in Nat, NEW base \in S, NEW step \in [1 .. n -> [S -> S]]
  PROVE  \E h \in [0 .. n -> S] : IsFold(n, base, step, h)
<1> DEFINE P(m) == \E h \in [0 .. m -> S] :
                     h[0] = base /\ \A k \in 1 .. m : h[k] = step[k][h[k - 1]]
           T == {m \in 0 .. n : ~ P(m)}
<1> SUFFICES ASSUME T # {} PROVE FALSE
  <2> HIDE DEF P
  <2>1. P(n)
    OBVIOUS
  <2>2. QED
    BY <2>1 DEF P, IsFold
<1>1. PICK m \in T : \A k \in T : m <= k
  <2>1. T \in SUBSET Nat
    OBVIOUS
  <2> HIDE DEF T
  <2>2. QED
    BY <2>1, LeastNat
<1>2. P(0)
  <2> DEFINE z == [k \in 0 .. 0 |-> base]
  <2>1. z \in [0 .. 0 -> S] /\ z[0] = base
    OBVIOUS
  <2>2. \A k \in 1 .. 0 : z[k] = step[k][z[k - 1]]
    OBVIOUS
  <2> HIDE DEF z
  <2>3. QED
    BY <2>1, <2>2
<1>3. m \in 1 .. n /\ m - 1 \in 0 .. n
  <2> HIDE DEF P
  <2>1. m # 0
    BY <1>2
  <2>2. QED
    BY <2>1
<1>a. P(m - 1)
  <2> HIDE DEF P
  <2>1. m - 1 \notin T
    BY <1>1, <1>3
  <2>2. QED
    BY <1>3, <2>1
<1>4. PICK h \in [0 .. m - 1 -> S] :
        h[0] = base /\ \A k \in 1 .. m - 1 : h[k] = step[k][h[k - 1]]
  BY <1>a
<1> DEFINE g == [k \in 0 .. m |-> IF k = m THEN step[m][h[m - 1]] ELSE h[k]]
<1>5. step[m][h[m - 1]] \in S
  BY <1>3, <1>4
<1>6. g \in [0 .. m -> S] /\ g[m] = step[m][h[m - 1]] /\ \A k \in 0 .. m - 1 : g[k] = h[k]
  BY <1>3, <1>5
<1> HIDE DEF g
<1>7. ASSUME NEW k \in 1 .. m
      PROVE  g[k] = step[k][g[k - 1]]
  <2>1. k - 1 \in 0 .. m - 1
    BY <1>3
  <2>2. CASE k = m
    BY <1>6, <2>1, <2>2
  <2>3. CASE k # m
    <3>1. k \in 1 .. m - 1 /\ k \in 0 .. m - 1
      BY <1>3, <2>3
    <3>2. QED
      BY <1>4, <1>6, <2>1, <3>1
  <2>4. QED
    BY <2>2, <2>3
<1>8. g[0] = base
  BY <1>3, <1>4, <1>6
<1>9. P(m)
  BY <1>6, <1>7, <1>8
<1>10. QED
  BY <1>9

-----------------------------------------------------------------------------
(* Sequence numbers *)

\* The addition wraps once.
LEMMA SeqAddLemma ==
  ASSUME NEW a \in SeqNum, NEW n \in Nat, n < SeqSpace
  PROVE  /\ SeqAdd(a, n) = IF a + n < SeqSpace THEN a + n ELSE a + n - SeqSpace
         /\ SeqAdd(a, n) \in SeqNum
<1>1. SeqSpace \in Nat \ {0} /\ a \in 0 .. SeqSpace - 1
  BY WidthAssumption DEF SeqNum
<1>2. \A x \in 0 .. SeqSpace - 1 : x % SeqSpace = x /\ (x + SeqSpace) % SeqSpace = x
  BY <1>1
<1>3. CASE a + n < SeqSpace
  BY <1>1, <1>2, <1>3 DEF SeqAdd, SeqNum
<1>4. CASE ~ (a + n < SeqSpace)
  <2>1. a + n - SeqSpace \in 0 .. SeqSpace - 1 /\ a + n = (a + n - SeqSpace) + SeqSpace
    BY <1>1, <1>4
  <2>2. QED
    BY <1>1, <1>2, <1>4, <2>1 DEF SeqAdd, SeqNum
<1>5. QED
  BY <1>3, <1>4

\* The subtraction wraps once.
LEMMA SeqSubLemma ==
  ASSUME NEW a \in SeqNum, NEW b \in SeqNum
  PROVE  SeqSub(a, b) = IF a >= b THEN a - b ELSE a - b + SeqSpace
<1>1. SeqSpace \in Nat \ {0} /\ a \in 0 .. SeqSpace - 1 /\ b \in 0 .. SeqSpace - 1
  BY WidthAssumption DEF SeqNum
<1>2. \A x \in 0 .. SeqSpace - 1 : x % SeqSpace = x /\ (x - SeqSpace) % SeqSpace = x
  BY <1>1
<1>3. CASE a >= b
  BY <1>1, <1>2, <1>3 DEF SeqSub
<1>4. CASE ~ (a >= b)
  <2>1. a - b + SeqSpace \in 0 .. SeqSpace - 1 /\ a - b = (a - b + SeqSpace) - SeqSpace
    BY <1>1, <1>4
  <2>2. QED
    BY <1>1, <1>2, <1>4, <2>1 DEF SeqSub
<1>5. QED
  BY <1>3, <1>4

\* The types of the constants.
LEMMA ConstTypes ==
  ASSUME NEW f \in Flow
  PROVE  /\ Stream[f] \in Seq(Byte) /\ Len(Stream[f]) \in Nat /\ StartSeq[f] \in SeqNum
         /\ \A r \in Chunk : /\ r \in Record /\ RecLen[r] \in Nat /\ RecLen[r] >= 1
                             /\ Marker \in Nat
                             /\ 2 * (Len(Stream[f]) + RecLen[r]) < SeqSpace
         /\ SeqSpace \in Nat /\ 2 * Len(Stream[f]) < SeqSpace
<1>1. Stream[f] \in Seq(Byte) /\ Len(Stream[f]) \in Nat /\ StartSeq[f] \in SeqNum
  BY StreamAssumption
<1>2. ASSUME NEW r \in Record
      PROVE  /\ RecLen[r] \in Nat /\ RecLen[r] >= 1 /\ Marker \in Nat
             /\ 2 * (Len(Stream[f]) + RecLen[r]) < SeqSpace
  BY RecordAssumption, WidthAssumption
<1>3. SeqSpace \in Nat /\ SeqSpace > 0
  BY WidthAssumption
<1>4. 2 * Len(Stream[f]) < SeqSpace
  <2>1. CASE Len(Stream[f]) = 0
    BY <1>3, <2>1
  <2>2. CASE Len(Stream[f]) # 0
    <3>1. Stream[f][1] \in Byte
      BY <1>1, <2>2
    <3>2. PICK r \in Record : TRUE
      BY <3>1 DEF Byte
    <3>3. QED
      BY <1>1, <1>2, <1>3
  <2>3. QED
    BY <2>1, <2>2
<1>5. QED
  BY <1>1, <1>2, <1>3, <1>4, RecordAssumption

\* The same for records that are no chunk responses.
LEMMA RecordTypes ==
  ASSUME NEW r \in Record
  PROVE  RecLen[r] \in Nat /\ RecLen[r] >= 1 /\ Marker \in Nat /\ Marker >= 1
  BY RecordAssumption

\* An offset of a flow has a sequence number, and n bytes on is the offset n more.
LEMMA AtLemma ==
  ASSUME NEW f \in Flow, NEW p \in Nat, NEW n \in Nat, 2 * (p + n) < SeqSpace
  PROVE  At(f, p) \in SeqNum /\ SeqAdd(At(f, p), n) = At(f, p + n)
<1>1. StartSeq[f] \in SeqNum /\ SeqSpace \in Nat
  BY ConstTypes
<1>2. At(f, p) \in SeqNum /\ At(f, p) = IF StartSeq[f] + p < SeqSpace THEN StartSeq[f] + p
                                        ELSE StartSeq[f] + p - SeqSpace
  BY <1>1, SeqAddLemma DEF At
<1>3. At(f, p + n) = IF StartSeq[f] + (p + n) < SeqSpace THEN StartSeq[f] + (p + n)
                     ELSE StartSeq[f] + (p + n) - SeqSpace
  BY <1>1, SeqAddLemma DEF At
<1>4. SeqAdd(At(f, p), n) = IF At(f, p) + n < SeqSpace THEN At(f, p) + n
                            ELSE At(f, p) + n - SeqSpace
  BY <1>1, <1>2, SeqAddLemma
<1>5. StartSeq[f] \in 0 .. SeqSpace - 1
  BY <1>1 DEF SeqNum
<1>6. QED
  BY <1>1, <1>2, <1>3, <1>4, <1>5

\* The difference of the sequence numbers of two offsets.
LEMMA AtDifference ==
  ASSUME NEW f \in Flow, NEW p \in Nat, NEW s \in Nat, 2 * p < SeqSpace, 2 * s < SeqSpace
  PROVE  SeqSub(At(f, p), At(f, s)) = IF p >= s THEN p - s ELSE p - s + SeqSpace
<1>1. StartSeq[f] \in SeqNum /\ SeqSpace \in Nat /\ StartSeq[f] \in 0 .. SeqSpace - 1
  BY ConstTypes DEF SeqNum
<1>2. At(f, p) \in SeqNum /\ At(f, p) = IF StartSeq[f] + p < SeqSpace THEN StartSeq[f] + p
                                        ELSE StartSeq[f] + p - SeqSpace
  BY <1>1, SeqAddLemma DEF At
<1>3. At(f, s) \in SeqNum /\ At(f, s) = IF StartSeq[f] + s < SeqSpace THEN StartSeq[f] + s
                                        ELSE StartSeq[f] + s - SeqSpace
  BY <1>1, SeqAddLemma DEF At
<1>4. SeqSub(At(f, p), At(f, s)) = IF At(f, p) >= At(f, s) THEN At(f, p) - At(f, s)
                                   ELSE At(f, p) - At(f, s) + SeqSpace
  BY <1>2, <1>3, SeqSubLemma
<1>5. QED
  BY <1>1, <1>2, <1>3, <1>4

\* Different offsets have different sequence numbers, and the offset is the distance
\* from the start of the flow.
LEMMA AtInjective ==
  ASSUME NEW f \in Flow, NEW p \in Nat, NEW s \in Nat, 2 * p < SeqSpace, 2 * s < SeqSpace
  PROVE  /\ At(f, p) = At(f, s) => p = s
         /\ SeqSub(At(f, p), StartSeq[f]) = p
<1>1. StartSeq[f] \in SeqNum /\ SeqSpace \in Nat /\ StartSeq[f] \in 0 .. SeqSpace - 1
  BY ConstTypes DEF SeqNum
<1>2. At(f, p) \in SeqNum /\ At(f, p) = IF StartSeq[f] + p < SeqSpace THEN StartSeq[f] + p
                                        ELSE StartSeq[f] + p - SeqSpace
  BY <1>1, SeqAddLemma DEF At
<1>3. At(f, s) \in SeqNum /\ At(f, s) = IF StartSeq[f] + s < SeqSpace THEN StartSeq[f] + s
                                        ELSE StartSeq[f] + s - SeqSpace
  BY <1>1, SeqAddLemma DEF At
<1>4. SeqSub(At(f, p), StartSeq[f]) = IF At(f, p) >= StartSeq[f] THEN At(f, p) - StartSeq[f]
                                      ELSE At(f, p) - StartSeq[f] + SeqSpace
  BY <1>1, <1>2, SeqSubLemma
<1>5. QED
  BY <1>1, <1>2, <1>3, <1>4

\* A packet that the plain comparisons place inside a chunk lies behind its first byte,
\* however the numbers wrap.
LEMMA InsideAfter ==
  ASSUME NEW f \in Flow, NEW r \in Chunk, NEW p \in 0 .. Len(Stream[f]),
         NEW s \in 0 .. Len(Stream[f]), Inside(At(f, p), At(f, s), RecLen[r])
  PROVE  p >= s
<1>1. /\ StartSeq[f] \in SeqNum /\ SeqSpace \in Nat /\ StartSeq[f] \in 0 .. SeqSpace - 1
      /\ RecLen[r] \in Nat /\ Len(Stream[f]) \in Nat /\ p \in Nat /\ s \in Nat
      /\ 2 * (Len(Stream[f]) + RecLen[r]) < SeqSpace
  BY ConstTypes DEF SeqNum
<1>a. p < SeqSpace /\ s < SeqSpace /\ RecLen[r] < SeqSpace /\ p + RecLen[r] < SeqSpace /\ s + RecLen[r] < SeqSpace
  BY <1>1
<1>2. At(f, p) \in SeqNum /\ At(f, p) = IF StartSeq[f] + p < SeqSpace THEN StartSeq[f] + p
                                        ELSE StartSeq[f] + p - SeqSpace
  BY <1>1, <1>a, SeqAddLemma DEF At
<1>3. At(f, s) \in SeqNum /\ At(f, s) = IF StartSeq[f] + s < SeqSpace THEN StartSeq[f] + s
                                        ELSE StartSeq[f] + s - SeqSpace
  BY <1>1, <1>a, SeqAddLemma DEF At
<1>4. SeqAdd(At(f, s), RecLen[r]) = IF At(f, s) + RecLen[r] < SeqSpace THEN At(f, s) + RecLen[r]
                                    ELSE At(f, s) + RecLen[r] - SeqSpace
  BY <1>1, <1>a, <1>3, SeqAddLemma
<1>5. At(f, s) < At(f, p) /\ At(f, p) < SeqAdd(At(f, s), RecLen[r])
  BY DEF Inside
<1> DEFINE x == At(f, p)
           y == At(f, s)
<1>6. x \in Int /\ y \in Int
  BY <1>1, <1>2, <1>3 DEF SeqNum
<1>7. CASE StartSeq[f] + s < SeqSpace
  BY <1>1, <1>2, <1>3, <1>5, <1>6, <1>7
<1>8. CASE StartSeq[f] + s >= SeqSpace
  <2>1. y = StartSeq[f] + s - SeqSpace /\ y + RecLen[r] < SeqSpace
    BY <1>1, <1>a, <1>3, <1>8
  <2>2. x < y + RecLen[r]
    BY <1>4, <1>5, <2>1
  <2> DEFINE c == StartSeq[f]
             n == RecLen[r]
  <2>a. c \in Nat /\ n \in Nat /\ p \in Nat /\ s \in Nat /\ SeqSpace \in Nat
    BY <1>1
  <2>b. y < x /\ x = IF c + p < SeqSpace THEN c + p ELSE c + p - SeqSpace
    BY <1>2, <1>5
  <2>c. y = c + s - SeqSpace /\ x < y + n /\ s + n < SeqSpace
    BY <1>a, <2>1, <2>2
  <2> HIDE DEF c, n, x, y
  <2>3. CASE c + p >= SeqSpace
    BY <2>3, <2>a, <2>b, <2>c
  <2>4. CASE c + p < SeqSpace
    BY <2>4, <2>a, <2>b, <2>c
  <2>5. QED
    BY <2>3, <2>4, <2>a
<1>9. QED
  BY <1>1, <1>7, <1>8

-----------------------------------------------------------------------------
(* Bytes of a flow *)

\* The sizes of a piece of a flow.
LEMMA OfFlowSize ==
  ASSUME NEW f \in Flow, NEW a, NEW d, OfFlow(f, a, d)
  PROVE  /\ a \in SeqNum /\ d \in Seq(AnyByte) /\ Len(d) \in Nat
         /\ SeqAdd(a, Len(d)) \in SeqNum
<1>1. PICK p \in 0 .. Len(Stream[f]) : a = At(f, p) /\ p + Len(d) <= Len(Stream[f])
  BY DEF OfFlow
<1>2. d \in Seq(AnyByte) /\ Len(d) \in Nat
  BY DEF OfFlow
<1>3. p \in Nat /\ SeqSpace \in Nat /\ Len(Stream[f]) \in Nat /\ 2 * Len(Stream[f]) < SeqSpace
  BY ConstTypes
<1>4. a \in SeqNum
  BY <1>1, <1>2, <1>3, AtLemma
<1>5. QED
  BY <1>1, <1>2, <1>3, <1>4, SeqAddLemma

\* Bytes of the flow that follow each other are bytes of the flow.
LEMMA OfFlowConcat ==
  ASSUME NEW f \in Flow, NEW a, NEW d, NEW e, OfFlow(f, a, d), OfFlow(f, SeqAdd(a, Len(d)), e)
  PROVE  OfFlow(f, a, d \o e) /\ Len(d \o e) = Len(d) + Len(e)
<1>1. /\ SeqSpace \in Nat /\ Len(Stream[f]) \in Nat /\ 2 * Len(Stream[f]) < SeqSpace
      /\ d \in Seq(AnyByte) /\ e \in Seq(AnyByte) /\ Len(d) \in Nat /\ Len(e) \in Nat
  BY ConstTypes DEF OfFlow
<1>2. PICK p \in 0 .. Len(Stream[f]) :
        /\ a = At(f, p) /\ p + Len(d) <= Len(Stream[f])
        /\ \A k \in 1 .. Len(d) : d[k] \in {Garbage, Stream[f][p + k]}
  BY DEF OfFlow
<1>3. PICK q \in 0 .. Len(Stream[f]) :
        /\ SeqAdd(a, Len(d)) = At(f, q) /\ q + Len(e) <= Len(Stream[f])
        /\ \A k \in 1 .. Len(e) : e[k] \in {Garbage, Stream[f][q + k]}
  BY DEF OfFlow
<1>4. q = p + Len(d)
  <2> DEFINE n == Len(d)
             L == Len(Stream[f])
  <2>1. /\ n \in Nat /\ L \in Nat /\ SeqSpace \in Nat /\ 2 * L < SeqSpace
        /\ p \in Nat /\ p + n <= L /\ q \in Nat /\ q <= L
    BY <1>1, <1>2
  <2> HIDE DEF n, L
  <2>2. /\ p \in Nat /\ p + n \in Nat /\ 2 * (p + n) < SeqSpace
        /\ q \in Nat /\ 2 * q < SeqSpace
    BY <2>1
  <2>a. SeqAdd(At(f, p), n) = At(f, p + n)
    BY <2>1, <2>2, AtLemma
  <2>3. QED
    BY <1>2, <1>3, <2>2, <2>a, AtInjective DEF n
<1>5. /\ d \o e \in Seq(AnyByte) /\ Len(d \o e) = Len(d) + Len(e)
      /\ \A k \in 1 .. Len(d) + Len(e) :
           (d \o e)[k] = IF k <= Len(d) THEN d[k] ELSE e[k - Len(d)]
  BY <1>1, ConcatFacts
<1> DEFINE g == d \o e
<1> HIDE DEF g
<1>6. ASSUME NEW k \in 1 .. Len(d) + Len(e)
      PROVE  g[k] \in {Garbage, Stream[f][p + k]}
  <2>1. CASE k <= Len(d)
    BY <1>1, <1>2, <1>5, <2>1 DEF g
  <2>2. CASE k > Len(d)
    <3>1. k - Len(d) \in 1 .. Len(e) /\ q + (k - Len(d)) = p + k /\ g[k] = e[k - Len(d)]
      BY <1>1, <1>4, <1>5, <2>2 DEF g
    <3>2. e[k - Len(d)] \in {Garbage, Stream[f][q + (k - Len(d))]}
      BY <1>3, <3>1
    <3>3. QED
      BY <3>1, <3>2
  <2>3. QED
    BY <1>1, <2>1, <2>2
<1>7. p + (Len(d) + Len(e)) <= Len(Stream[f])
  BY <1>1, <1>2, <1>3, <1>4
<1>8. QED
  BY <1>2, <1>5, <1>6, <1>7 DEF OfFlow, g

\* A piece cut out of bytes of the flow is a piece of the flow.
LEMMA OfFlowPart ==
  ASSUME NEW f \in Flow, NEW a, NEW d, OfFlow(f, a, d),
         NEW m \in 1 .. Len(d) + 1, NEW n \in m - 1 .. Len(d)
  PROVE  OfFlow(f, SeqAdd(a, m - 1), SubSeq(d, m, n)) /\ Len(SubSeq(d, m, n)) = n - m + 1
<1>1. /\ SeqSpace \in Nat /\ Len(Stream[f]) \in Nat /\ 2 * Len(Stream[f]) < SeqSpace
      /\ d \in Seq(AnyByte) /\ Len(d) \in Nat
  BY ConstTypes DEF OfFlow
<1>2. PICK p \in 0 .. Len(Stream[f]) :
        /\ a = At(f, p) /\ p + Len(d) <= Len(Stream[f])
        /\ \A k \in 1 .. Len(d) : d[k] \in {Garbage, Stream[f][p + k]}
  BY DEF OfFlow
<1> DEFINE e == SubSeq(d, m, n)
<1>3. /\ e \in Seq(AnyByte) /\ Len(e) = n - m + 1
      /\ \A k \in 1 .. n - m + 1 : e[k] = d[m + k - 1]
  BY <1>1, SubSeqFacts
<1> HIDE DEF e
<1> DEFINE q == p + (m - 1)
<1>4. q \in 0 .. Len(Stream[f]) /\ q + Len(e) <= Len(Stream[f])
  <2> DEFINE L == Len(Stream[f])
             l == Len(d)
  <2>1. m \in Int /\ n \in Int /\ m >= 1 /\ m - 1 <= n /\ n <= l /\ p \in Nat
    BY <1>1
  <2>2. L \in Nat /\ l \in Nat /\ p + l <= L /\ Len(e) = n - m + 1
    BY <1>1, <1>2, <1>3
  <2> HIDE DEF L, l
  <2>3. q \in 0 .. L /\ q + (n - m + 1) <= L
    BY <2>1, <2>2
  <2>4. QED
    BY <2>2, <2>3 DEF L
<1>5. SeqAdd(a, m - 1) = At(f, q)
  <2>1. m - 1 \in Nat /\ p \in Nat /\ 2 * (p + (m - 1)) < SeqSpace
    BY <1>1, <1>2
  <2>2. QED
    BY <1>2, <2>1, AtLemma
<1>6. ASSUME NEW k \in 1 .. Len(e)
      PROVE  e[k] \in {Garbage, Stream[f][q + k]}
  <2>1. m + k - 1 \in 1 .. Len(d) /\ p + (m + k - 1) = q + k
    BY <1>1, <1>3
  <2>2. d[m + k - 1] \in {Garbage, Stream[f][p + (m + k - 1)]}
    BY <1>2, <2>1
  <2>3. QED
    BY <1>3, <2>1, <2>2
<1>7. QED
  BY <1>3, <1>4, <1>5, <1>6 DEF OfFlow, e

\* The block of a flow that holds a piece of the flow.
LEMMA FlowBlockLemma ==
  ASSUME NEW f \in Flow, NEW a, NEW d, OfFlow(f, a, d)
  PROVE  /\ FlowBlock(a, d) \in FlowBlocks(f)
         /\ FlowBlock(a, d).start = a /\ FlowBlock(a, d).data = d
<1>1. a \in SeqNum /\ d \in Seq(AnyByte) /\ SeqAdd(a, Len(d)) \in SeqNum
  BY OfFlowSize
<1>2. QED
  BY <1>1 DEF FlowBlock, FlowBlocks, Block

\* The fields of a block of a flow.
LEMMA FlowBlockFields ==
  ASSUME NEW f \in Flow, NEW b \in FlowBlocks(f)
  PROVE  /\ OfFlow(f, b.start, b.data) /\ b.next = SeqAdd(b.start, Len(b.data))
         /\ b \in Block /\ b.start \in SeqNum /\ b.next \in SeqNum
         /\ b.data \in Seq(AnyByte) /\ Len(b.data) \in Nat
  BY DEF FlowBlocks, Block

-----------------------------------------------------------------------------
(* SniffTcp::insert *)

\* The block that stops the loop is in range.
LEMMA InsertPosRange ==
  ASSUME NEW f \in Flow, NEW list \in Seq(FlowBlocks(f)), NEW seq
  PROVE  Len(list) \in Nat /\ InsertPos(list, seq) \in 1 .. Len(list) + 1
<1> DEFINE T == {i \in 1 .. Len(list) : seq <= list[i].next} \cup {Len(list) + 1}
<1>1. Len(list) \in Nat
  OBVIOUS
<1>2. T \in SUBSET (1 .. Len(list) + 1) /\ T \in SUBSET Nat /\ T # {}
  BY <1>1
<1>3. InsertPos(list, seq) = Min(T)
  BY DEF InsertPos
<1> HIDE DEF T
<1>4. Min(T) \in T
  BY <1>2, MinLemma
<1>5. QED
  BY <1>1, <1>2, <1>3, <1>4

\* Whatever insert does, the blocks stay pieces of the flow.
LEMMA InsertLemma ==
  ASSUME NEW f \in Flow, NEW list \in Seq(FlowBlocks(f)), NEW seq, NEW d, OfFlow(f, seq, d)
  PROVE  Insert(list, seq, d) \in Seq(FlowBlocks(f))
<1> DEFINE i     == InsertPos(list, seq)
           end   == SeqAdd(seq, Len(d))
           grown == FlowBlock(list[i].start, list[i].data \o d)
           both  == FlowBlock(grown.start, grown.data \o list[i + 1].data)
           front == FlowBlock(seq, Prepended(d, list[i].data))
<1>1. Len(list) \in Nat /\ i \in 1 .. Len(list) + 1
  BY InsertPosRange
<1>2. FlowBlock(seq, d) \in FlowBlocks(f)
  BY FlowBlockLemma
<1>3. Insert(list, seq, d) =
        IF i > Len(list) THEN Append(list, FlowBlock(seq, d))
        ELSE IF seq = list[i].next
        THEN IF Touches(list, i, end) THEN Splice(list, i, i + 1, both)
             ELSE [list EXCEPT ![i] = grown]
        ELSE IF end = list[i].start THEN [list EXCEPT ![i] = front]
        ELSE IF end < list[i].start THEN Splice(list, i, i - 1, FlowBlock(seq, d))
        ELSE list
  BY DEF Insert
<1>4. CASE i > Len(list)
  BY <1>2, <1>3, <1>4
<1>5. CASE i <= Len(list) /\ seq = list[i].next
  <2>1. i \in 1 .. Len(list) /\ list[i] \in FlowBlocks(f)
    BY <1>1, <1>5
  <2>2. OfFlow(f, list[i].start, list[i].data) /\ list[i].next = SeqAdd(list[i].start, Len(list[i].data))
    BY <2>1, FlowBlockFields
  <2>3. /\ OfFlow(f, list[i].start, list[i].data \o d)
        /\ Len(list[i].data \o d) = Len(list[i].data) + Len(d)
    BY <1>5, <2>2, OfFlowConcat
  <2>4. grown \in FlowBlocks(f) /\ grown.start = list[i].start /\ grown.data = list[i].data \o d
    <3> DEFINE joined == list[i].data \o d
    <3>1. OfFlow(f, list[i].start, joined)
      BY <2>3
    <3> HIDE DEF joined, i
    <3>2. /\ FlowBlock(list[i].start, joined) \in FlowBlocks(f)
          /\ FlowBlock(list[i].start, joined).start = list[i].start
          /\ FlowBlock(list[i].start, joined).data = joined
      BY <3>1, FlowBlockLemma
    <3>3. QED
      BY <3>2 DEF joined
  <2>5. CASE ~ Touches(list, i, end)
    <3>1. Insert(list, seq, d) = [list EXCEPT ![i] = grown]
      BY <1>1, <1>3, <1>5, <2>5
    <3> HIDE DEF grown, i
    <3>2. QED
      BY <2>1, <2>4, <3>1
  <2>6. CASE Touches(list, i, end)
    <3>1. i + 1 \in 1 .. Len(list) /\ end = list[i + 1].start
      BY <1>1, <2>6 DEF Touches
    <3>2. list[i + 1] \in FlowBlocks(f)
      BY <3>1
    <3>3. OfFlow(f, end, list[i + 1].data)
      BY <3>1, <3>2, FlowBlockFields
    <3>4. end = SeqAdd(list[i].start, Len(list[i].data \o d))
      <4>1. PICK p \in 0 .. Len(Stream[f]) :
              list[i].start = At(f, p) /\ p + Len(list[i].data \o d) <= Len(Stream[f])
        BY <2>3 DEF OfFlow
      <4>2. /\ Len(list[i].data) \in Nat /\ Len(d) \in Nat /\ p \in Nat
            /\ Len(Stream[f]) \in Nat /\ 2 * Len(Stream[f]) < SeqSpace /\ SeqSpace \in Nat
        BY <2>1, FlowBlockFields, OfFlowSize, ConstTypes
      <4> DEFINE m == Len(list[i].data)
                 n == Len(d)
      <4>a. p + (m + n) <= Len(Stream[f])
        BY <2>3, <4>1
      <4>b. list[i].start = At(f, p) /\ end = SeqAdd(seq, n) /\ seq = SeqAdd(At(f, p), m)
        BY <1>5, <2>2, <4>1
      <4>c. m \in Nat /\ n \in Nat
        BY <4>2
      <4> HIDE DEF m, n, end, i
      <4>3. /\ p + m \in Nat /\ m + n \in Nat /\ p + (m + n) = p + m + n
            /\ 2 * (p + m) < SeqSpace /\ 2 * (p + m + n) < SeqSpace /\ 2 * (p + (m + n)) < SeqSpace
        BY <4>2, <4>a, <4>c
      <4>4. seq = At(f, p + m)
        BY <4>2, <4>3, <4>b, <4>c, AtLemma
      <4>5. SeqAdd(seq, n) = At(f, p + m + n)
        BY <4>3, <4>4, <4>c, AtLemma
      <4>6. SeqAdd(At(f, p), m + n) = At(f, p + (m + n))
        BY <4>2, <4>3, AtLemma
      <4>7. end = SeqAdd(list[i].start, m + n)
        BY <4>3, <4>5, <4>6, <4>b
      <4>8. QED
        BY <2>3, <4>7 DEF m, n
    <3>5. OfFlow(f, grown.start, grown.data \o list[i + 1].data)
      <4> DEFINE g == list[i].data \o d
      <4>1. OfFlow(f, list[i].start, g) /\ OfFlow(f, SeqAdd(list[i].start, Len(g)), list[i + 1].data)
        BY <2>3, <3>3, <3>4
      <4> HIDE DEF g
      <4>2. OfFlow(f, list[i].start, g \o list[i + 1].data)
        BY <4>1, OfFlowConcat
      <4>3. grown.start = list[i].start /\ grown.data = g
        BY <2>4 DEF g
      <4> HIDE DEF grown, i
      <4>4. QED
        BY <4>2, <4>3
    <3>6. both \in FlowBlocks(f)
      BY <3>5, FlowBlockLemma
    <3>7. Insert(list, seq, d) = Splice(list, i, i + 1, both)
      BY <1>1, <1>3, <1>5, <2>6
    <3> HIDE DEF both, grown, i
    <3>8. QED
      BY <1>1, <2>1, <3>1, <3>6, <3>7, SpliceFacts
  <2>7. QED
    BY <2>5, <2>6
<1>6. CASE i <= Len(list) /\ seq # list[i].next /\ end = list[i].start
  <2>1. i \in 1 .. Len(list) /\ list[i] \in FlowBlocks(f)
    BY <1>1, <1>6
  <2>2. OfFlow(f, end, list[i].data)
    BY <1>6, <2>1, FlowBlockFields
  <2>3. OfFlow(f, seq, d \o list[i].data)
    BY <2>2, OfFlowConcat
  <2>4. front \in FlowBlocks(f)
    BY <2>3, FlowBlockLemma DEF Prepended
  <2>5. Insert(list, seq, d) = [list EXCEPT ![i] = front]
    BY <1>1, <1>3, <1>6
  <2> HIDE DEF front, i
  <2>6. QED
    BY <2>1, <2>4, <2>5
<1>7. CASE i <= Len(list) /\ seq # list[i].next /\ end # list[i].start
  <2>1. Insert(list, seq, d) = IF end < list[i].start THEN Splice(list, i, i - 1, FlowBlock(seq, d))
                               ELSE list
    BY <1>1, <1>3, <1>7
  <2>2. i - 1 \in i - 1 .. Len(list)
    BY <1>1, <1>7
  <2> HIDE DEF i
  <2>3. Splice(list, i, i - 1, FlowBlock(seq, d)) \in Seq(FlowBlocks(f))
    BY <1>1, <1>2, <2>2, SpliceFacts
  <2>4. QED
    BY <2>1, <2>3
<1>8. QED
  BY <1>1, <1>4, <1>5, <1>6, <1>7

-----------------------------------------------------------------------------
(* The search for responses in the blocks of a flow *)

\* What looks like a header is the first byte of a record.
LEMMA ByteHeader ==
  ASSUME NEW x \in AnyByte, x[2] = 1
  PROVE  x[1] \in Record /\ x = <<x[1], 1>> /\ x # Garbage
<1>1. x # Garbage
  BY DEF Garbage
<1>2. PICK r \in Record : \E k \in 1 .. RecLen[r] + Marker : x = <<r, k>>
  BY <1>1 DEF AnyByte, Byte
<1>3. QED
  BY <1>1, <1>2

\* Where a piece of a flow has the first byte of a record, the record's bytes follow.
LEMMA HeaderBytes ==
  ASSUME NEW f \in Flow, NEW a, NEW d, OfFlow(f, a, d), NEW r \in Record,
         NEW i \in 1 .. Len(d), d[i] = <<r, 1>>
  PROVE  \A k \in 1 .. RecLen[r] + Marker :
           i + k - 1 <= Len(d) => d[i + k - 1] \in {Garbage, <<r, k>>}
<1>1. PICK p \in 0 .. Len(Stream[f]) :
        /\ p + Len(d) <= Len(Stream[f])
        /\ \A k \in 1 .. Len(d) : d[k] \in {Garbage, Stream[f][p + k]}
  BY DEF OfFlow
<1>2. Len(Stream[f]) \in Nat /\ Len(d) \in Nat /\ RecLen[r] \in Nat /\ Marker \in Nat
  BY ConstTypes, RecordTypes, OfFlowSize
<1>3. <<r, 1>> # Garbage
  BY DEF Garbage
<1>a. p \in Int /\ 0 <= p /\ i \in Int /\ 1 <= i /\ i <= Len(d) /\ p + Len(d) <= Len(Stream[f])
  BY <1>1, <1>2
<1>4. Stream[f][p + i] = <<r, 1>> /\ p + i \in 1 .. Len(Stream[f])
  <2>1. d[i] \in {Garbage, Stream[f][p + i]}
    BY <1>1
  <2>2. Stream[f][p + i] = <<r, 1>>
    BY <1>3, <2>1
  <2>3. QED
    BY <1>2, <1>a, <2>2
<1>5. ASSUME NEW k \in 1 .. RecLen[r] + Marker, i + k - 1 <= Len(d)
      PROVE  d[i + k - 1] \in {Garbage, <<r, k>>}
  <2>1. i + k - 1 \in 1 .. Len(d) /\ p + i + k - 1 <= Len(Stream[f])
        /\ p + (i + k - 1) = p + i + k - 1
    BY <1>2, <1>a, <1>5
  <2>2. Stream[f][p + i + k - 1] = <<r, k>>
    BY <1>4, <2>1, LayoutAssumption
  <2>3. QED
    BY <1>1, <2>1, <2>2
<1>6. QED
  BY <1>5

\* What is handed over is a whole response when the record is there.
LEMMA SendLemma ==
  ASSUME NEW out \in Seq(Responses), NEW d \in Seq(AnyByte),
         \A r \in Chunk : d # <<>> /\ d[1] = <<r, 1>> =>
           /\ Len(d) >= RecLen[r]
           /\ \A k \in 1 .. RecLen[r] : d[k] \in {Garbage, <<r, k>>}
  PROVE  SendChunk(out, d) \in Seq(Responses)
<1>1. CASE d # <<>> /\ d[1][1] \in Chunk /\ d[1][2] = 1
  <2> DEFINE r == d[1][1]
             e == SubSeq(d, 1, RecLen[r])
  <2>1. d[1] \in AnyByte /\ r \in Chunk /\ Len(d) \in Nat
    BY <1>1
  <2>2. d[1] = <<r, 1>>
    BY <1>1, <2>1, ByteHeader
  <2>3. Len(d) >= RecLen[r] /\ \A k \in 1 .. RecLen[r] : d[k] \in {Garbage, <<r, k>>}
    BY <1>1, <2>1, <2>2
  <2>4. RecLen[r] \in Nat
    BY <2>1, RecordAssumption
  <2>5. SendChunk(out, d) = Append(out, e)
    BY <1>1 DEF SendChunk
  <2> HIDE DEF r
  <2>6. 1 \in 1 .. Len(d) + 1 /\ RecLen[r] \in 1 - 1 .. Len(d)
    BY <2>1, <2>3, <2>4
  <2>7. e \in Seq(AnyByte) /\ Len(e) = RecLen[r] /\ \A k \in 1 .. RecLen[r] : e[k] = d[k]
    <3>1. /\ e \in Seq(AnyByte) /\ Len(e) = RecLen[r] - 1 + 1
          /\ \A k \in 1 .. RecLen[r] - 1 + 1 : e[k] = d[1 + k - 1]
      BY <2>6, SubSeqFacts
    <3> HIDE DEF e
    <3>2. QED
      BY <2>4, <3>1
  <2> HIDE DEF e
  <2>8. e \in Responses
    BY <2>1, <2>3, <2>7 DEF Responses
  <2>9. QED
    BY <2>5, <2>8
<1>2. QED
  BY <1>1 DEF SendChunk

\* The state of the search of one block of flow f.
Searches(f) == [pcb : FlowBlocks(f), before : Seq(FlowBlocks(f)), sent : Seq(Responses)]

\* A block that is marked as searched is still a piece of the flow.
LEMMA FlowBlockMarked ==
  ASSUME NEW f \in Flow, NEW b \in FlowBlocks(f), NEW m \in BOOLEAN
  PROVE  [b EXCEPT !.bModified = m] \in FlowBlocks(f)
<1>1. [b EXCEPT !.bModified = m] = [start |-> b.start, next |-> b.next, data |-> b.data, bModified |-> m]
  BY DEF FlowBlocks, Block
<1>2. QED
  BY <1>1 DEF FlowBlocks, Block

\* A block with another start and other bytes.
LEMMA BlockUpdate ==
  ASSUME NEW b \in Block, NEW x, NEW y
  PROVE  [b EXCEPT !.start = x, !.data = y]
           = [start |-> x, next |-> b.next, data |-> y, bModified |-> b.bModified]
<1> DEFINE c == [b EXCEPT !.start = x]
<1>1. c = [start |-> x, next |-> b.next, data |-> b.data, bModified |-> b.bModified]
  BY DEF Block
<1>2. [c EXCEPT !.data = y] = [start |-> x, next |-> b.next, data |-> y, bModified |-> b.bModified]
  <2> HIDE DEF c
  <2>1. QED
    BY ONLY <1>1
<1>3. [b EXCEPT !.start = x, !.data = y] = [c EXCEPT !.data = y]
  OBVIOUS
<1>4. QED
  BY <1>2, <1>3

\* What is left of a block when its first n bytes are cut off is a piece of the flow.
LEMMA FlowBlockCut ==
  ASSUME NEW f \in Flow, NEW b \in FlowBlocks(f), NEW n \in 0 .. Len(b.data)
  PROVE  [b EXCEPT !.start = SeqAdd(@, n), !.data = SubSeq(@, n + 1, Len(@))] \in FlowBlocks(f)
<1> DEFINE rest == [b EXCEPT !.start = SeqAdd(@, n), !.data = SubSeq(@, n + 1, Len(@))]
           d    == SubSeq(b.data, n + 1, Len(b.data))
<1>1. /\ OfFlow(f, b.start, b.data) /\ b.next = SeqAdd(b.start, Len(b.data))
      /\ b.next \in SeqNum /\ Len(b.data) \in Nat /\ b \in Block
  BY FlowBlockFields
<1>a. n \in Int /\ 0 <= n /\ n <= Len(b.data) /\ Len(b.data) \in Int
  BY <1>1
<1>2. n + 1 \in 1 .. Len(b.data) + 1 /\ Len(b.data) \in (n + 1) - 1 .. Len(b.data) /\ (n + 1) - 1 = n
  BY <1>a
<1>3. OfFlow(f, SeqAdd(b.start, n), d) /\ Len(d) = Len(b.data) - n
  <2>1. OfFlow(f, SeqAdd(b.start, (n + 1) - 1), d) /\ Len(d) = Len(b.data) - (n + 1) + 1
    BY <1>1, <1>2, OfFlowPart
  <2>2. QED
    BY <1>1, <1>2, <2>1
<1>4. SeqAdd(SeqAdd(b.start, n), Len(d)) = b.next
  <2>1. PICK p \in 0 .. Len(Stream[f]) :
          b.start = At(f, p) /\ p + Len(b.data) <= Len(Stream[f])
    BY <1>1 DEF OfFlow
  <2>2. Len(Stream[f]) \in Nat /\ SeqSpace \in Nat /\ 2 * Len(Stream[f]) < SeqSpace
    BY ConstTypes
  <2>a. p \in Int /\ 0 <= p /\ p + Len(b.data) <= Len(Stream[f])
    BY <2>1, <2>2
  <2> HIDE DEF d
  <2>3. SeqAdd(b.start, n) = At(f, p + n)
    <3>1. p \in Nat /\ n \in Nat /\ 2 * (p + n) < SeqSpace
      BY <1>a, <2>2, <2>a
    <3>2. QED
      BY <2>1, <3>1, AtLemma
  <2>6. /\ (p + n) + (Len(b.data) - n) = p + Len(b.data)
        /\ p + n \in Nat /\ Len(b.data) - n \in Nat
    <3> DEFINE l == Len(b.data)
    <3>1. l \in Int /\ 0 <= n /\ n <= l
      BY <1>a
    <3> HIDE DEF l, rest
    <3>2. (p + n) + (l - n) = p + l /\ p + n \in Nat /\ l - n \in Nat
      BY <1>a, <2>a, <3>1
    <3>3. QED
      BY <3>2 DEF l
  <2>4. SeqAdd(At(f, p + n), Len(b.data) - n) = At(f, (p + n) + (Len(b.data) - n))
    <3>1. 2 * (p + Len(b.data)) < SeqSpace
      BY <1>a, <2>2, <2>a
    <3>2. p + n \in Nat /\ Len(b.data) - n \in Nat /\ 2 * ((p + n) + (Len(b.data) - n)) < SeqSpace
      BY <2>6, <3>1
    <3>3. QED
      BY <3>2, AtLemma
  <2>5. SeqAdd(b.start, Len(b.data)) = At(f, p + Len(b.data))
    <3>1. p \in Nat /\ 2 * (p + Len(b.data)) < SeqSpace
      BY <1>a, <2>2, <2>a
    <3>2. QED
      BY <1>1, <2>1, <3>1, AtLemma
  <2>7. QED
    BY <1>1, <1>3, <2>3, <2>4, <2>5, <2>6
<1>5. rest = [start |-> SeqAdd(b.start, n), next |-> b.next, data |-> d, bModified |-> b.bModified]
  BY <1>1, BlockUpdate
<1>6. SeqAdd(b.start, n) \in SeqNum /\ d \in Seq(AnyByte)
  BY <1>3, OfFlowSize
<1> HIDE DEF d
<1>7. QED
  BY <1>1, <1>3, <1>4, <1>5, <1>6 DEF FlowBlocks, Block

\* The block that is filled from a wrong address has as many bytes as it should.
LEMMA GarbageBlock ==
  ASSUME NEW f \in Flow, NEW b \in FlowBlocks(f), NEW n \in 0 .. Len(b.data)
  PROVE  OfFlow(f, b.start, [k \in 1 .. n |-> Garbage])
<1>1. OfFlow(f, b.start, b.data) /\ Len(b.data) \in Nat
  BY FlowBlockFields
<1>2. PICK p \in 0 .. Len(Stream[f]) :
        b.start = At(f, p) /\ p + Len(b.data) <= Len(Stream[f])
  BY <1>1 DEF OfFlow
<1>3. Garbage \in AnyByte /\ Len(Stream[f]) \in Nat
  BY ConstTypes DEF AnyByte
<1>4. /\ [k \in 1 .. n |-> Garbage] \in Seq(AnyByte)
      /\ Len([k \in 1 .. n |-> Garbage]) = n
      /\ \A k \in 1 .. n : [j \in 1 .. n |-> Garbage][k] = Garbage
  BY <1>1, <1>3
<1>5. p + n <= Len(Stream[f])
  BY <1>1, <1>2, <1>3
<1>6. QED
  BY <1>2, <1>4, <1>5 DEF OfFlow

\* The first header in a block.
LEMMA FirstHeaderLemma ==
  ASSUME NEW d \in Seq(AnyByte)
  PROVE  /\ FirstHeader(d) \in 1 .. Len(d) + 1
         /\ FirstHeader(d) <= Len(d) => d[FirstHeader(d)][2] = 1
<1> DEFINE T == {i \in 1 .. Len(d) : d[i][2] = 1} \cup {Len(d) + 1}
<1>1. Len(d) \in Nat
  OBVIOUS
<1>2. T \in SUBSET Nat /\ T # {}
  BY <1>1
<1>3. FirstHeader(d) = Min(T)
  BY DEF FirstHeader
<1>4. Min(T) \in T
  <2> HIDE DEF T
  <2>1. QED
    BY <1>2, MinLemma
<1>5. QED
  BY <1>1, <1>3, <1>4

\* One search of a block: what is cut out and sent is a whole response, and the pieces
\* that stay are pieces of the flow.
LEMMA GrepBlockLemma ==
  ASSUME NEW f \in Flow, NEW s \in Searches(f)
  PROVE  GrepBlock(s) \in Searches(f)
<1> DEFINE pcb  == s.pcb
           at   == FirstHeader(pcb.data)
           end  == at - 1 + RecLen[pcb.data[at][1]] + Marker
           rest == [pcb EXCEPT !.start = SeqAdd(@, end), !.data = SubSeq(@, end + 1, Len(@))]
           p_cb == [FlowBlock(pcb.start, [k \in 1 .. at - 1 |-> Garbage]) EXCEPT !.bModified = FALSE]
           tail == SubSeq(pcb.data, at, Len(pcb.data))
<1>1. /\ pcb \in FlowBlocks(f) /\ s.before \in Seq(FlowBlocks(f)) /\ s.sent \in Seq(Responses)
      /\ s = [pcb |-> pcb, before |-> s.before, sent |-> s.sent]
  BY DEF Searches
<1>2. OfFlow(f, pcb.start, pcb.data) /\ pcb.data \in Seq(AnyByte) /\ Len(pcb.data) \in Nat
  BY <1>1, FlowBlockFields
<1>3. at \in 1 .. Len(pcb.data) + 1 /\ (at <= Len(pcb.data) => pcb.data[at][2] = 1)
  BY <1>2, FirstHeaderLemma
<1>4. CASE at > Len(pcb.data) \/ end > Len(pcb.data)
  <2>1. GrepBlock(s) = [s EXCEPT !.pcb.bModified = FALSE]
    BY <1>4 DEF GrepBlock
  <2>2. [s EXCEPT !.pcb.bModified = FALSE] = [s EXCEPT !.pcb = [pcb EXCEPT !.bModified = FALSE]]
    BY DEF Searches
  <2>3. [pcb EXCEPT !.bModified = FALSE] \in FlowBlocks(f)
    BY <1>1, FlowBlockMarked
  <2>4. QED
    BY <2>1, <2>2, <2>3 DEF Searches
<1>5. CASE at <= Len(pcb.data) /\ end <= Len(pcb.data)
  <2> DEFINE r == pcb.data[at][1]
  <2>1. pcb.data[at] \in AnyByte /\ pcb.data[at][2] = 1 /\ at \in 1 .. Len(pcb.data)
    BY <1>2, <1>3, <1>5
  <2>2. r \in Record /\ pcb.data[at] = <<r, 1>>
    BY <2>1, ByteHeader
  <2>3. RecLen[r] \in Nat /\ RecLen[r] >= 1 /\ Marker \in Nat
    BY <2>2, RecordTypes
  <2>4. \A k \in 1 .. RecLen[r] + Marker :
          at + k - 1 <= Len(pcb.data) => pcb.data[at + k - 1] \in {Garbage, <<r, k>>}
    BY <1>2, <2>1, <2>2, HeaderBytes
  <2>a. at \in Int /\ 1 <= at /\ at <= Len(pcb.data)
    <3> HIDE DEF at, pcb
    <3>1. QED
      BY <1>2, <2>1
  <2>b. at - 1 + RecLen[r] + Marker <= Len(pcb.data)
    BY <1>5
  <2>5. end \in 0 .. Len(pcb.data) /\ at + RecLen[r] - 1 <= Len(pcb.data)
    <3> HIDE DEF at, pcb, r
    <3>1. /\ at - 1 + RecLen[r] + Marker \in 0 .. Len(pcb.data)
          /\ at + RecLen[r] - 1 <= Len(pcb.data)
      BY <1>2, <2>3, <2>a, <2>b
    <3>2. QED
      BY <3>1 DEF r
  <2>6. rest \in FlowBlocks(f)
    <3> HIDE DEF end, pcb
    <3>1. QED
      BY <1>1, <2>5, FlowBlockCut
  <2>7. p_cb \in FlowBlocks(f)
    <3>1. at - 1 \in 0 .. Len(pcb.data)
      BY <1>2, <2>1
    <3>2. OfFlow(f, pcb.start, [k \in 1 .. at - 1 |-> Garbage])
      <4> HIDE DEF at, pcb
      <4>1. QED
        BY <1>1, <3>1, GarbageBlock
    <3>3. FlowBlock(pcb.start, [k \in 1 .. at - 1 |-> Garbage]) \in FlowBlocks(f)
      BY <3>2, FlowBlockLemma
    <3>4. QED
      BY <3>3, FlowBlockMarked
  <2>8. /\ tail \in Seq(AnyByte) /\ Len(tail) = Len(pcb.data) - at + 1
        /\ \A k \in 1 .. Len(pcb.data) - at + 1 : tail[k] = pcb.data[at + k - 1]
    <3>1. at \in 1 .. Len(pcb.data) + 1 /\ Len(pcb.data) \in at - 1 .. Len(pcb.data)
      BY <1>2, <2>1
    <3> HIDE DEF at, pcb
    <3>2. QED
      BY <1>2, <3>1, SubSeqFacts
  <2>9. SendChunk(s.sent, tail) \in Seq(Responses)
    <3> HIDE DEF at, tail, pcb
    <3>1. tail[1] = <<r, 1>>
      <4>1. 1 \in 1 .. Len(pcb.data) - at + 1 /\ at + 1 - 1 = at
        BY <1>2, <2>1
      <4>2. QED
        BY <2>2, <2>8, <4>1
    <3>2. ASSUME NEW k \in 1 .. RecLen[r]
          PROVE  tail[k] \in {Garbage, <<r, k>>}
      <4>1. k \in 1 .. Len(pcb.data) - at + 1 /\ k \in 1 .. RecLen[r] + Marker
            /\ at + k - 1 <= Len(pcb.data)
        <5> DEFINE n == Len(pcb.data)
                   R == RecLen[r]
        <5>1. /\ n \in Nat /\ R \in Nat /\ Marker \in Nat /\ at \in Int /\ 1 <= at
              /\ at + R - 1 <= n /\ k \in 1 .. R
          BY <1>2, <2>3, <2>a, <2>5
        <5> HIDE DEF n, R
        <5>2. k \in 1 .. n - at + 1 /\ k \in 1 .. R + Marker /\ at + k - 1 <= n
          BY <5>1
        <5>3. QED
          BY <5>2 DEF n, R
      <4>2. QED
        BY <2>4, <2>8, <4>1
    <3>3. Len(tail) >= RecLen[r]
      <4> DEFINE n == Len(pcb.data)
                 R == RecLen[r]
      <4>1. n \in Nat /\ R \in Nat /\ at \in Int /\ at + R - 1 <= n /\ Len(tail) = n - at + 1
        BY <1>2, <2>3, <2>a, <2>5, <2>8
      <4> HIDE DEF n, R
      <4>2. n - at + 1 >= R
        BY <4>1
      <4>3. QED
        BY <4>1, <4>2 DEF R
    <3> HIDE DEF r
    <3>4. \A q \in Chunk : tail # <<>> /\ tail[1] = <<q, 1>> =>
            Len(tail) >= RecLen[q] /\ \A k \in 1 .. RecLen[q] : tail[k] \in {Garbage, <<q, k>>}
      <4> SUFFICES ASSUME NEW q \in Chunk, tail[1] = <<q, 1>>
                   PROVE  Len(tail) >= RecLen[q] /\ \A k \in 1 .. RecLen[q] : tail[k] \in {Garbage, <<q, k>>}
        OBVIOUS
      <4>1. q = r
        BY <3>1
      <4>2. QED
        BY <3>2, <3>3, <4>1
    <3>5. QED
      BY <1>1, <2>8, <3>4, SendLemma
  <2>10. GrepBlock(s) = [s EXCEPT !.pcb = rest,
                                  !.before = IF at = 1 THEN @ ELSE Append(@, p_cb),
                                  !.sent = SendChunk(@, tail)]
    <3> DEFINE n == Len(pcb.data)
    <3>1. n \in Int /\ at <= n /\ end <= n /\ at \in Int /\ end \in Int
      BY <1>2, <1>5, <2>5, <2>a
    <3> HIDE DEF n, at, end
    <3>2. ~ (at > n \/ end > n)
      BY <3>1
    <3>3. QED
      BY <3>2, Zenon DEF GrepBlock, n, at, end
  <2>11. (IF at = 1 THEN s.before ELSE Append(s.before, p_cb)) \in Seq(FlowBlocks(f))
    BY <1>1, <2>7
  <2> HIDE DEF rest, p_cb, tail, at, pcb
  <2>12. GrepBlock(s) = [pcb |-> rest, before |-> IF at = 1 THEN s.before ELSE Append(s.before, p_cb),
                         sent |-> SendChunk(s.sent, tail)]
    BY <2>10 DEF Searches
  <2>13. QED
    BY <2>6, <2>9, <2>11, <2>12 DEF Searches
<1>6. end > Len(pcb.data) \/ end <= Len(pcb.data) \/ at > Len(pcb.data)
  <2>1. CASE at <= Len(pcb.data)
    <3>1. at \in 1 .. Len(pcb.data) /\ pcb.data[at] \in AnyByte
      BY <1>2, <1>3, <2>1
    <3>2. pcb.data[at][1] \in Record
      BY <1>3, <2>1, <3>1, ByteHeader
    <3>3. RecLen[pcb.data[at][1]] \in Nat /\ Marker \in Nat
      BY <3>2, RecordTypes
    <3> DEFINE r == pcb.data[at][1]
    <3>4. end = at - 1 + RecLen[r] + Marker
      OBVIOUS
    <3> HIDE DEF r, end, at, pcb
    <3>5. end \in Int
      BY <1>2, <3>1, <3>3, <3>4 DEF r
    <3>6. QED
      BY <1>2, <3>5
  <2>2. CASE at > Len(pcb.data)
    BY <2>2
  <2>3. QED
    BY <1>2, <1>3, <2>1, <2>2
<1>7. at > Len(pcb.data) \/ at <= Len(pcb.data)
  BY <1>2, <1>3
<1>8. QED
  BY <1>4, <1>5, <1>6, <1>7

\* The search of one block, any number of times.
LEMMA SearchBlockLemma ==
  ASSUME NEW f \in Flow, NEW b \in FlowBlocks(f), NEW out \in Seq(Responses)
  PROVE  SearchBlock(b, out) \in Searches(f)
<1> DEFINE n       == Len(b.data)
           base    == [pcb |-> b, before |-> <<>>, sent |-> out]
           P(h)    == h = [k \in 0 .. n |-> IF k = 0 THEN [pcb |-> b, before |-> <<>>, sent |-> out]
                                            ELSE SearchOnce(h[k - 1])]
           chosen  == CHOOSE h : P(h)
<1>1. n \in Nat
  BY FlowBlockFields
<1>2. base \in Searches(f)
  BY DEF Searches
<1>3. \A s \in Searches(f) : SearchOnce(s) \in Searches(f)
  BY GrepBlockLemma DEF SearchOnce
<1>4. SearchBlock(b, out) = chosen[n]
  BY DEF SearchBlock
<1>5. \E h : P(h)
  <2> DEFINE step == [k \in 1 .. n |-> [s \in Searches(f) |-> SearchOnce(s)]]
  <2>1. step \in [1 .. n -> [Searches(f) -> Searches(f)]]
    BY <1>3
  <2>2. PICK h \in [0 .. n -> Searches(f)] : IsFold(n, base, step, h)
    <3> HIDE DEF step, base, n
    <3>1. QED
      BY <1>1, <1>2, <2>1, FoldExists
  <2>3. h[0] = base /\ \A k \in 1 .. n : h[k] = SearchOnce(h[k - 1])
    <3>1. ASSUME NEW k \in 1 .. n
          PROVE  h[k] = SearchOnce(h[k - 1])
      <4>1. k - 1 \in 0 .. n
        BY <1>1
      <4>2. h[k] = step[k][h[k - 1]]
        BY <2>2 DEF IsFold
      <4>3. QED
        BY <4>1, <4>2
    <3>2. QED
      BY <2>2, <3>1 DEF IsFold
  <2>4. P(h)
    <3>1. \A k \in 0 .. n : h[k] = IF k = 0 THEN base ELSE SearchOnce(h[k - 1])
      BY <1>1, <2>3
    <3>2. QED
      BY <3>1
  <2>5. QED
    BY <2>4
<1>6. P(chosen)
  <2> HIDE DEF P
  <2>1. QED
    BY <1>5
<1>7. chosen[0] = base /\ \A k \in 1 .. n : chosen[k] = SearchOnce(chosen[k - 1])
  <2> HIDE DEF chosen
  <2>1. \A k \in 0 .. n : chosen[k] = IF k = 0 THEN base ELSE SearchOnce(chosen[k - 1])
    <3> HIDE DEF n
    <3>1. QED
      BY <1>6
  <2> HIDE DEF base, n, P
  <2>2. 0 \in 0 .. n /\ \A k \in 1 .. n : k \in 0 .. n /\ k # 0
    BY <1>1
  <2>3. QED
    BY <2>1, <2>2
<1>8. \A k \in 0 .. n : chosen[k] \in Searches(f)
  <2> HIDE DEF chosen, base, P, n
  <2>1. QED
    BY <1>1, <1>2, <1>3, <1>7, FoldIn
<1>9. QED
  <2> HIDE DEF chosen, n
  <2>1. n \in 0 .. n
    BY <1>1
  <2>2. QED
    BY <1>4, <1>8, <2>1

\* The state of the search of a flow.
Greps(f) == [list : Seq(FlowBlocks(f)), sent : Seq(Responses)]

\* A block that was searched leaves pieces of the flow.
LEMMA VisitBlockLemma ==
  ASSUME NEW f \in Flow, NEW acc \in Greps(f), NEW b \in FlowBlocks(f)
  PROVE  VisitBlock(acc, b) \in Greps(f)
<1> DEFINE s    == SearchBlock(b, acc.sent)
           last == IF s.pcb.start = s.pcb.next THEN <<>> ELSE <<s.pcb>>
<1>1. acc.list \in Seq(FlowBlocks(f)) /\ acc.sent \in Seq(Responses)
  BY DEF Greps
<1>2. s \in Searches(f)
  BY <1>1, SearchBlockLemma
<1>3. VisitBlock(acc, b) = [list |-> acc.list \o s.before \o last, sent |-> s.sent]
  BY DEF VisitBlock
<1> HIDE DEF s
<1>4. s.pcb \in FlowBlocks(f) /\ s.before \in Seq(FlowBlocks(f)) /\ s.sent \in Seq(Responses)
  BY <1>2 DEF Searches
<1>5. last \in Seq(FlowBlocks(f))
  BY <1>4
<1> HIDE DEF last
<1>6. acc.list \o s.before \o last \in Seq(FlowBlocks(f))
  BY <1>1, <1>4, <1>5
<1>7. QED
  BY <1>3, <1>4, <1>6 DEF Greps

\* The search of a flow.
LEMMA GrepFlowLemma ==
  ASSUME NEW f \in Flow, NEW list \in Seq(FlowBlocks(f)), NEW out \in Seq(Responses)
  PROVE  GrepFlow(list, out) \in Greps(f)
<1> DEFINE n       == Len(list)
           base    == [list |-> <<>>, sent |-> out]
           P(h)    == h = [k \in 0 .. n |-> IF k = 0 THEN [list |-> <<>>, sent |-> out]
                                            ELSE VisitBlock(h[k - 1], list[k])]
           chosen  == CHOOSE h : P(h)
<1>1. n \in Nat
  OBVIOUS
<1>2. base \in Greps(f)
  BY DEF Greps
<1>3. \A k \in 1 .. n : \A s \in Greps(f) : VisitBlock(s, list[k]) \in Greps(f)
  <2> SUFFICES ASSUME NEW k \in 1 .. n, NEW s \in Greps(f)
               PROVE  VisitBlock(s, list[k]) \in Greps(f)
    OBVIOUS
  <2>1. list[k] \in FlowBlocks(f)
    OBVIOUS
  <2>2. QED
    BY <2>1, VisitBlockLemma
<1>4. GrepFlow(list, out) = chosen[n]
  BY DEF GrepFlow
<1>5. \E h : P(h)
  <2> DEFINE step == [k \in 1 .. n |-> [s \in Greps(f) |-> VisitBlock(s, list[k])]]
  <2>1. step \in [1 .. n -> [Greps(f) -> Greps(f)]]
    BY <1>3
  <2>2. PICK h \in [0 .. n -> Greps(f)] : IsFold(n, base, step, h)
    <3> HIDE DEF step, base, n
    <3>1. QED
      BY <1>1, <1>2, <2>1, FoldExists
  <2>3. h[0] = base /\ \A k \in 1 .. n : h[k] = VisitBlock(h[k - 1], list[k])
    <3>1. ASSUME NEW k \in 1 .. n
          PROVE  h[k] = VisitBlock(h[k - 1], list[k])
      <4>1. k - 1 \in 0 .. n
        BY <1>1
      <4>2. h[k] = step[k][h[k - 1]]
        BY <2>2 DEF IsFold
      <4>3. QED
        BY <4>1, <4>2
    <3>2. QED
      BY <2>2, <3>1 DEF IsFold
  <2>4. P(h)
    <3>1. \A k \in 0 .. n : h[k] = IF k = 0 THEN base ELSE VisitBlock(h[k - 1], list[k])
      BY <1>1, <2>3
    <3>2. QED
      BY <3>1
  <2>5. QED
    BY <2>4
<1>6. P(chosen)
  <2> HIDE DEF P
  <2>1. QED
    BY <1>5
<1>7. chosen[0] = base /\ \A k \in 1 .. n : chosen[k] = VisitBlock(chosen[k - 1], list[k])
  <2> HIDE DEF chosen
  <2>1. QED
    BY <1>1, <1>6
<1>8. \A k \in 0 .. n : chosen[k] \in Greps(f)
  <2> HIDE DEF chosen, base, P, n
  <2>1. QED
    BY <1>1, <1>2, <1>3, <1>7, FoldIn
<1>9. QED
  <2> HIDE DEF chosen, n
  <2>1. n \in 0 .. n
    BY <1>1
  <2>2. QED
    BY <1>4, <1>8, <2>1

-----------------------------------------------------------------------------
(* Bytes of a chunk *)

\* Bytes of the chunk that follow each other are bytes of the chunk.
LEMMA OfChunkConcat ==
  ASSUME NEW r \in Chunk, NEW a, NEW d, NEW e, OfChunk(r, a, d), OfChunk(r, a + Len(d), e)
  PROVE  OfChunk(r, a, d \o e) /\ Len(d \o e) = Len(d) + Len(e)
<1>1. /\ a \in Nat /\ d \in Seq(AnyByte) /\ e \in Seq(AnyByte)
      /\ Len(d) \in Nat /\ Len(e) \in Nat /\ RecLen[r] \in Nat
  BY RecordAssumption DEF OfChunk
<1>2. /\ d \o e \in Seq(AnyByte) /\ Len(d \o e) = Len(d) + Len(e)
      /\ \A k \in 1 .. Len(d) + Len(e) :
           (d \o e)[k] = IF k <= Len(d) THEN d[k] ELSE e[k - Len(d)]
  BY <1>1, ConcatFacts
<1> DEFINE g == d \o e
<1> HIDE DEF g
<1>3. ASSUME a <= RecLen[r]
      PROVE  /\ a + Len(g) <= RecLen[r]
             /\ \A k \in 1 .. Len(g) : g[k] \in {Garbage, <<r, a + k>>}
  <2>1. a + Len(d) <= RecLen[r] /\ \A k \in 1 .. Len(d) : d[k] \in {Garbage, <<r, a + k>>}
    BY <1>3 DEF OfChunk
  <2>2. /\ (a + Len(d)) + Len(e) <= RecLen[r]
        /\ \A k \in 1 .. Len(e) : e[k] \in {Garbage, <<r, (a + Len(d)) + k>>}
    BY <2>1 DEF OfChunk
  <2>3. ASSUME NEW k \in 1 .. Len(d) + Len(e)
        PROVE  g[k] \in {Garbage, <<r, a + k>>}
    <3>1. CASE k <= Len(d)
      BY <1>1, <1>2, <2>1, <3>1 DEF g
    <3>2. CASE k > Len(d)
      <4>1. k - Len(d) \in 1 .. Len(e) /\ (a + Len(d)) + (k - Len(d)) = a + k
        BY <1>1, <3>2
      <4>2. g[k] = e[k - Len(d)]
        BY <1>1, <1>2, <3>2 DEF g
      <4>3. QED
        BY <2>2, <4>1, <4>2
    <3>3. QED
      BY <1>1, <3>1, <3>2
  <2>4. QED
    BY <1>1, <1>2, <2>2, <2>3 DEF g
<1>4. OncePerFlow => a <= RecLen[r]
  BY DEF OfChunk
<1>5. QED
  BY <1>1, <1>2, <1>3, <1>4 DEF OfChunk, g

\* A piece cut out of bytes of the chunk is a piece of the chunk.
LEMMA OfChunkPart ==
  ASSUME NEW r \in Chunk, NEW a, NEW d, OfChunk(r, a, d),
         NEW m \in 1 .. Len(d) + 1, NEW n \in m - 1 .. Len(d)
  PROVE  OfChunk(r, a + (m - 1), SubSeq(d, m, n)) /\ Len(SubSeq(d, m, n)) = n - m + 1
<1>1. a \in Nat /\ d \in Seq(AnyByte) /\ Len(d) \in Nat /\ RecLen[r] \in Nat
  BY RecordAssumption DEF OfChunk
<1>2. m \in Int /\ n \in Int /\ 1 <= m /\ m <= Len(d) + 1 /\ m - 1 <= n /\ n <= Len(d)
  BY <1>1
<1> DEFINE e == SubSeq(d, m, n)
<1>3. /\ e \in Seq(AnyByte) /\ Len(e) = n - m + 1
      /\ \A k \in 1 .. n - m + 1 : e[k] = d[m + k - 1]
  BY <1>1, SubSeqFacts
<1> HIDE DEF e
<1>4. a + (m - 1) \in Nat
  BY <1>1, <1>2
<1>5. ASSUME a + (m - 1) <= RecLen[r]
      PROVE  /\ a + (m - 1) + Len(e) <= RecLen[r]
             /\ \A k \in 1 .. Len(e) : e[k] \in {Garbage, <<r, a + (m - 1) + k>>}
  <2>1. a <= RecLen[r]
    BY <1>1, <1>2, <1>5
  <2>2. a + Len(d) <= RecLen[r] /\ \A k \in 1 .. Len(d) : d[k] \in {Garbage, <<r, a + k>>}
    BY <2>1 DEF OfChunk
  <2>3. ASSUME NEW k \in 1 .. Len(e)
        PROVE  e[k] \in {Garbage, <<r, a + (m - 1) + k>>}
    <3>1. m + k - 1 \in 1 .. Len(d) /\ a + (m + k - 1) = a + (m - 1) + k /\ k \in 1 .. n - m + 1
      BY <1>1, <1>2, <1>3
    <3>2. d[m + k - 1] \in {Garbage, <<r, a + (m + k - 1)>>}
      BY <2>2, <3>1
    <3>3. QED
      BY <1>3, <3>1, <3>2
  <2>4. QED
    BY <1>1, <1>2, <1>3, <2>2, <2>3
<1>6. OncePerFlow => a + (m - 1) <= RecLen[r]
  <2> SUFFICES ASSUME OncePerFlow PROVE a + (m - 1) <= RecLen[r]
    OBVIOUS
  <2>1. a <= RecLen[r]
    BY DEF OfChunk
  <2>2. a + Len(d) <= RecLen[r]
    BY <2>1 DEF OfChunk
  <2>3. QED
    BY <1>1, <1>2, <2>2
<1>7. QED
  BY <1>3, <1>4, <1>5, <1>6 DEF OfChunk, e

\* The block of a chunk that holds a piece of the chunk.
LEMMA ChunkBlockLemma ==
  ASSUME NEW r \in Chunk, NEW a, NEW n, NEW d, OfChunk(r, a, d), n = a + Len(d)
  PROVE  LET b == [start |-> a, next |-> n, data |-> d] IN b \in ChunkBlocks(r)
<1>1. a \in Nat /\ d \in Seq(AnyByte) /\ Len(d) \in Nat
  BY DEF OfChunk
<1>2. n \in Nat
  BY <1>1
<1>3. QED
  BY <1>1, <1>2 DEF ChunkBlocks, ChunkBlock

\* The fields of a block of a chunk.
LEMMA ChunkBlockFields ==
  ASSUME NEW r \in Chunk, NEW b \in ChunkBlocks(r)
  PROVE  /\ OfChunk(r, b.start, b.data) /\ b.next = b.start + Len(b.data)
         /\ b.start \in Nat /\ b.next \in Nat
         /\ b.data \in Seq(AnyByte) /\ Len(b.data) \in Nat
  BY DEF ChunkBlocks, ChunkBlock

-----------------------------------------------------------------------------
(* ReconstructedChunk::fill_gaps_in_chunk *)

\* The outer loop stops in range, at a block that stops it.
LEMMA StopAtLemma ==
  ASSUME NEW r \in Chunk, NEW s \in Seq(ChunkBlocks(r)), NEW norm \in Nat
  PROVE  LET i == StopAt(s, norm) IN
         /\ Len(s) \in Nat /\ i \in 1 .. Len(s) + 1
         /\ i <= Len(s) => s[i] \in ChunkBlocks(r) /\ (norm < s[i].start \/ norm <= s[i].next)
<1> DEFINE T == {i \in 1 .. Len(s) + 1 : i <= Len(s) => Stops(s[i], norm)}
<1>1. Len(s) \in Nat
  OBVIOUS
<1>2. T \in SUBSET Nat /\ Len(s) + 1 \in T
  BY <1>1
<1>3. PICK i \in T : \A y \in T : i <= y
  <2> HIDE DEF T
  <2>1. QED
    BY <1>2, LeastNat
<1>4. \A k \in 1 .. i - 1 : ~ Stops(s[k], norm)
  BY <1>1, <1>3
<1>5. i \in 1 .. Len(s) + 1 /\ (i <= Len(s) => Stops(s[i], norm))
  OBVIOUS
<1> HIDE DEF T
<1>6. LET j == StopAt(s, norm) IN j \in 1 .. Len(s) + 1 /\ (j <= Len(s) => Stops(s[j], norm))
  BY <1>4, <1>5, Zenon DEF StopAt
<1>7. QED
  BY <1>1, <1>6 DEF Stops

\* The inner loop halts in range, at a block that reaches past the new end.
LEMMA MergeHaltLemma ==
  ASSUME NEW r \in Chunk, NEW s \in Seq(ChunkBlocks(r)), NEW i \in 1 .. Len(s), NEW end \in Nat
  PROVE  LET j == MergeHalt(s, i, end) IN
         /\ j \in i + 1 .. Len(s) + 1
         /\ j <= Len(s) => s[j] \in ChunkBlocks(r) /\ (s[j].start > end \/ s[j].next > end)
<1> DEFINE T == {j \in i + 1 .. Len(s) + 1 :
                    j <= Len(s) => (s[j].start > end \/ s[j].next > end)}
<1>1. Len(s) \in Nat
  OBVIOUS
<1>2. T \in SUBSET Nat /\ Len(s) + 1 \in T
  BY <1>1
<1>3. PICK j \in T : \A y \in T : j <= y
  <2> HIDE DEF T
  <2>1. QED
    BY <1>2, LeastNat
<1>4. ASSUME NEW k \in i + 1 .. j - 1
      PROVE  s[k].start <= end /\ s[k].next <= end
  <2>1. k \in 1 .. Len(s) /\ k \in i + 1 .. Len(s) + 1 /\ k < j
    BY <1>1
  <2>2. s[k].start \in Nat /\ s[k].next \in Nat
    BY <2>1, ChunkBlockFields
  <2>3. ~ (s[k].start > end \/ s[k].next > end)
    BY <1>3, <2>1
  <2>4. QED
    BY <2>2, <2>3
<1>5. j \in i + 1 .. Len(s) + 1 /\ (j <= Len(s) => (s[j].start > end \/ s[j].next > end))
  OBVIOUS
<1> HIDE DEF T
<1>6. LET h == MergeHalt(s, i, end) IN
      h \in i + 1 .. Len(s) + 1 /\ (h <= Len(s) => (s[h].start > end \/ s[h].next > end))
  BY <1>4, <1>5, Zenon DEF MergeHalt
<1>7. QED
  BY <1>1, <1>6

\* A payload put in front of a block, cut where the block starts.
LEMMA PrependLemma ==
  ASSUME NEW r \in Chunk, NEW b \in ChunkBlocks(r), NEW norm, NEW p, OfChunk(r, norm, p),
         norm < b.start, b.start <= norm + Len(p)
  PROVE  Prepend(b, p, b.start - norm, norm) \in ChunkBlocks(r)
<1> DEFINE n == b.start - norm
           e == SubSeq(p, 1, n)
<1>1. /\ OfChunk(r, b.start, b.data) /\ b.next = b.start + Len(b.data) /\ b.start \in Nat
      /\ b.data \in Seq(AnyByte) /\ Len(b.data) \in Nat
  BY ChunkBlockFields
<1>2. norm \in Nat /\ p \in Seq(AnyByte) /\ Len(p) \in Nat
  BY DEF OfChunk
<1>3. n \in Nat /\ 1 \in 1 .. Len(p) + 1 /\ n \in 1 - 1 .. Len(p) /\ norm + n = b.start
  BY <1>1, <1>2
<1> HIDE DEF n
<1>4. OfChunk(r, norm + (1 - 1), e) /\ Len(e) = n - 1 + 1
  BY <1>3, OfChunkPart
<1> HIDE DEF e
<1>5. OfChunk(r, norm, e) /\ Len(e) = n
  BY <1>2, <1>3, <1>4
<1>6. OfChunk(r, norm, e \o b.data) /\ Len(e \o b.data) = n + Len(b.data)
  BY <1>1, <1>3, <1>5, OfChunkConcat
<1>7. b.next = norm + Len(e \o b.data)
  BY <1>1, <1>2, <1>3, <1>6
<1>8. QED
  BY <1>6, <1>7, ChunkBlockLemma DEF Prepend, n, e

\* Bytes put behind a block, cut where the block ends.
LEMMA AppendLemma ==
  ASSUME NEW r \in Chunk, NEW b \in ChunkBlocks(r), NEW norm, NEW p, OfChunk(r, norm, p),
         norm <= b.next, b.next <= norm + Len(p)
  PROVE  /\ OverlappingAppend(b, p, b.next - norm, norm + Len(p)) \in ChunkBlocks(r)
         /\ OverlappingAppend(b, p, b.next - norm, norm + Len(p)).start = b.start
         /\ OverlappingAppend(b, p, b.next - norm, norm + Len(p)).next = norm + Len(p)
         /\ Len(b.data) >= 1 =>
              LET c == OverlappingAppend(b, p, b.next - norm, norm + Len(p))
              IN  Len(c.data) >= 1 /\ c.data[1] = b.data[1]
<1> DEFINE n == b.next - norm
           e == SubSeq(p, n + 1, Len(p))
<1>1. /\ OfChunk(r, b.start, b.data) /\ b.next = b.start + Len(b.data) /\ b.start \in Nat
      /\ b.next \in Nat /\ b.data \in Seq(AnyByte) /\ Len(b.data) \in Nat
  BY ChunkBlockFields
<1>2. norm \in Nat /\ p \in Seq(AnyByte) /\ Len(p) \in Nat
  BY DEF OfChunk
<1>3. /\ n \in Nat /\ n + 1 \in 1 .. Len(p) + 1 /\ Len(p) \in (n + 1) - 1 .. Len(p)
      /\ norm + ((n + 1) - 1) = b.next /\ norm + n = b.next
  BY <1>1, <1>2
<1> HIDE DEF n
<1>4. OfChunk(r, norm + ((n + 1) - 1), e) /\ Len(e) = Len(p) - (n + 1) + 1
  BY <1>3, OfChunkPart
<1> HIDE DEF e
<1>5. OfChunk(r, b.start + Len(b.data), e) /\ Len(e) = Len(p) - n
  BY <1>1, <1>2, <1>3, <1>4
<1> DEFINE g == b.data \o e
<1>6. OfChunk(r, b.start, g) /\ Len(g) = Len(b.data) + Len(e)
  BY <1>1, <1>5, OfChunkConcat
<1>7. norm + Len(p) = b.start + Len(g)
  <2> HIDE DEF g
  <2>1. Len(e) \in Int /\ Len(g) = Len(b.data) + (Len(p) - n)
    BY <1>2, <1>3, <1>5, <1>6
  <2> DEFINE l == Len(b.data)
             q == Len(p)
             h == Len(g)
             x == b.next
             y == b.start
  <2>2. /\ l \in Int /\ q \in Int /\ n \in Int /\ norm \in Int /\ y \in Int
        /\ x = y + l /\ norm + n = x /\ h = l + (q - n)
    BY <1>1, <1>2, <1>3, <2>1
  <2> HIDE DEF l, q, h, x, y
  <2>3. norm + q = y + h
    BY <2>2
  <2>4. QED
    BY <2>3 DEF q, y, h
<1>8. Len(b.data) >= 1 => Len(g) >= 1 /\ g[1] = b.data[1]
  <2> SUFFICES ASSUME Len(b.data) >= 1 PROVE Len(g) >= 1 /\ g[1] = b.data[1]
    OBVIOUS
  <2>1. e \in Seq(AnyByte) /\ Len(e) \in Nat
    BY <1>5 DEF OfChunk
  <2>2. 1 \in 1 .. Len(b.data) + Len(e)
    BY <1>1, <2>1
  <2>3. QED
    BY <1>1, <1>6, <2>1, <2>2, ConcatFacts
<1>9. OverlappingAppend(b, p, n, norm + Len(p)) = [start |-> b.start, next |-> norm + Len(p), data |-> g]
  BY DEF OverlappingAppend, e
<1> HIDE DEF g
<1>10. QED
  BY <1>6, <1>7, <1>8, <1>9, ChunkBlockLemma DEF n

\* The append branch keeps the bytes in place, and the header if block i has it.
LEMMA AppendAndMergeLemma ==
  ASSUME NEW r \in Chunk, NEW s \in Seq(ChunkBlocks(r)), NEW i \in 1 .. Len(s),
         NEW norm, NEW p, OfChunk(r, norm, p), norm <= s[i].next, s[i].next < norm + Len(p)
  PROVE  LET t == AppendAndMerge(s, i, norm, p) IN
         /\ t \in Seq(ChunkBlocks(r)) /\ Len(t) >= i
         /\ t[i].start = s[i].start
         /\ Len(s[i].data) >= 1 => Len(t[i].data) >= 1 /\ t[i].data[1] = s[i].data[1]
         /\ \A k \in 1 .. i - 1 : t[k] = s[k]
<1> DEFINE end   == norm + Len(p)
           grown == OverlappingAppend(s[i], p, s[i].next - norm, end)
           j     == MergeHalt(s, i, end)
           both  == OverlappingAppend(grown, s[j].data, end - s[j].start, s[j].next)
<1>1. Len(s) \in Nat /\ s[i] \in ChunkBlocks(r) /\ i \in Int /\ 1 <= i /\ i <= Len(s)
  OBVIOUS
<1>2. norm \in Nat /\ Len(p) \in Nat /\ end \in Nat
  BY DEF OfChunk
<1>3. /\ j \in i + 1 .. Len(s) + 1
      /\ j <= Len(s) => s[j] \in ChunkBlocks(r) /\ (s[j].start > end \/ s[j].next > end)
  <2> HIDE DEF end
  <2>1. QED
    BY <1>2, MergeHaltLemma
<1>4. /\ grown \in ChunkBlocks(r) /\ grown.start = s[i].start /\ grown.next = end
      /\ Len(s[i].data) >= 1 => Len(grown.data) >= 1 /\ grown.data[1] = s[i].data[1]
  <2>1. norm <= s[i].next /\ s[i].next <= norm + Len(p)
    <3>1. s[i].next \in Nat
      BY <1>1, ChunkBlockFields
    <3>2. QED
      BY <1>2, <3>1
  <2>2. QED
    BY <1>1, <2>1, AppendLemma
<1>5. AppendAndMerge(s, i, norm, p) =
        IF MergesLast(s, j, end) THEN Splice(s, i, j, both) ELSE Splice(s, i, j - 1, grown)
  BY DEF AppendAndMerge
<1> HIDE DEF j, grown
<1>6. j \in Int /\ i + 1 <= j /\ j <= Len(s) + 1
  BY <1>1, <1>3
<1>7. CASE MergesLast(s, j, end)
  <2>1. j \in 1 .. Len(s) /\ s[j].start <= end /\ s[j] \in ChunkBlocks(r)
    BY <1>1, <1>3, <1>6, <1>7 DEF MergesLast
  <2>2. /\ OfChunk(r, s[j].start, s[j].data) /\ s[j].next = s[j].start + Len(s[j].data)
        /\ s[j].start \in Nat /\ s[j].next \in Nat
    BY <2>1, ChunkBlockFields
  <2>3. s[j].start <= grown.next /\ grown.next <= s[j].start + Len(s[j].data)
    BY <1>2, <1>3, <1>4, <2>1, <2>2
  <2>4. /\ both \in ChunkBlocks(r) /\ both.start = grown.start
        /\ Len(grown.data) >= 1 => Len(both.data) >= 1 /\ both.data[1] = grown.data[1]
    <3> DEFINE c == OverlappingAppend(grown, s[j].data, grown.next - s[j].start, s[j].start + Len(s[j].data))
    <3>1. c \in ChunkBlocks(r) /\ c.start = grown.start
          /\ (Len(grown.data) >= 1 => Len(c.data) >= 1 /\ c.data[1] = grown.data[1])
      BY <1>4, <2>2, <2>3, AppendLemma
    <3>2. c = both
      BY <1>4, <2>2
    <3> HIDE DEF c, both
    <3>3. QED
      BY <3>1, <3>2
  <2>5. j \in i - 1 .. Len(s) /\ i \in 1 .. Len(s) + 1
    BY <1>1, <1>6, <2>1
  <2> DEFINE t == Splice(s, i, j, both)
             R == ChunkBlocks(r)
  <2>7. AppendAndMerge(s, i, norm, p) = t
    BY <1>5, <1>7
  <2>a. both \in R /\ s \in Seq(R)
    BY <2>4
  <2> HIDE DEF both, R
  <2>b. SplicedAt(R, s, i, both, t)
    BY <2>a, <2>5, SplicedLemma
  <2> HIDE DEF t
  <2>6. t \in Seq(ChunkBlocks(r)) /\ Len(t) >= i /\ t[i] = both /\ \A k \in 1 .. i - 1 : t[k] = s[k]
    BY <2>b DEF SplicedAt, R
  <2>8. QED
    BY <1>4, <2>4, <2>6, <2>7
<1>8. CASE ~ MergesLast(s, j, end)
  <2> DEFINE x == j - 1
             t == Splice(s, i, x, grown)
             R == ChunkBlocks(r)
  <2>1. x \in i - 1 .. Len(s) /\ i \in 1 .. Len(s) + 1
    BY <1>1, <1>6
  <2>2. AppendAndMerge(s, i, norm, p) = t
    BY <1>5, <1>8
  <2>a. grown \in R /\ s \in Seq(R)
    BY <1>4
  <2> HIDE DEF x, R
  <2>b. SplicedAt(R, s, i, grown, t)
    BY <2>a, <2>1, SplicedLemma
  <2> HIDE DEF t
  <2>3. t \in Seq(ChunkBlocks(r)) /\ Len(t) >= i /\ t[i] = grown /\ \A k \in 1 .. i - 1 : t[k] = s[k]
    BY <2>b DEF SplicedAt, R
  <2>4. QED
    BY <1>4, <2>2, <2>3
<1>9. QED
  BY <1>7, <1>8

\* Whatever fill_gaps_in_chunk does, the blocks stay pieces of the chunk, and once
\* the first one has the header it keeps it.
LEMMA FillBlocksLemma ==
  ASSUME NEW r \in Chunk, NEW s \in Seq(ChunkBlocks(r)), NEW norm, NEW p, OfChunk(r, norm, p),
         \/ HasHeader(s, r)
         \/ s = <<>> /\ norm = 0 /\ Len(p) >= 1 /\ p[1] = <<r, 1>>
  PROVE  FillBlocks(s, norm, p) \in Seq(ChunkBlocks(r)) /\ HasHeader(FillBlocks(s, norm, p), r)
<1> DEFINE i   == StopAt(s, norm)
           end == norm + Len(p)
           new == NewBlock(norm, p)
           t   == FillBlocks(s, norm, p)
<1>1. norm \in Nat /\ Len(p) \in Nat /\ p \in Seq(AnyByte)
  BY DEF OfChunk
<1>2. /\ Len(s) \in Nat /\ i \in 1 .. Len(s) + 1
      /\ i <= Len(s) => s[i] \in ChunkBlocks(r) /\ (norm < s[i].start \/ norm <= s[i].next)
  BY <1>1, StopAtLemma
<1>3. new \in ChunkBlocks(r) /\ new.start = norm /\ new.data = p
  BY ChunkBlockLemma DEF NewBlock
<1>4. t = IF i > Len(s) THEN Splice(s, i, i - 1, new)
          ELSE IF norm < s[i].start THEN
                 IF end < s[i].start THEN Splice(s, i, i - 1, new)
                 ELSE Splice(s, i, i, Prepend(s[i], p, s[i].start - norm, norm))
          ELSE IF end > s[i].next THEN AppendAndMerge(s, i, norm, p)
          ELSE s
  BY DEF FillBlocks
<1> HIDE DEF i, new, t
<1>5. i \in Int /\ 1 <= i /\ i <= Len(s) + 1 /\ i - 1 \in i - 1 .. Len(s)
  BY <1>2
<1>6. ASSUME t = Splice(s, i, i - 1, new), HasHeader(s, r) => i # 1
      PROVE  t \in Seq(ChunkBlocks(r)) /\ HasHeader(t, r)
  <2>1. t \in Seq(ChunkBlocks(r)) /\ Len(t) >= i /\ t[i] = new /\ \A k \in 1 .. i - 1 : t[k] = s[k]
    <3> DEFINE x == i - 1
               u == Splice(s, i, x, new)
               R == ChunkBlocks(r)
    <3>1. x \in i - 1 .. Len(s) /\ i \in 1 .. Len(s) + 1 /\ t = u
      BY <1>2, <1>5, <1>6
    <3>a. new \in R /\ s \in Seq(R)
      BY <1>3
    <3> HIDE DEF x, R
    <3>b. SplicedAt(R, s, i, new, u)
      BY <3>1, <3>a, SplicedLemma
    <3> HIDE DEF u
    <3>2. u \in Seq(ChunkBlocks(r)) /\ Len(u) >= i /\ u[i] = new /\ \A k \in 1 .. i - 1 : u[k] = s[k]
      BY <3>b DEF SplicedAt, R
    <3>3. QED
      BY <3>1, <3>2
  <2>2. CASE HasHeader(s, r)
    <3>1. 1 \in 1 .. i - 1
      BY <1>5, <1>6, <2>2
    <3>2. QED
      BY <1>5, <2>1, <2>2, <3>1 DEF HasHeader
  <2>3. CASE ~ HasHeader(s, r)
    <3>1. s = <<>> /\ norm = 0 /\ Len(p) >= 1 /\ p[1] = <<r, 1>>
      BY <2>3
    <3>2. i = 1
      BY <1>5, <3>1
    <3>3. QED
      BY <1>3, <2>1, <3>1, <3>2 DEF HasHeader
  <2>4. QED
    BY <2>1, <2>2, <2>3
<1>7. CASE i > Len(s)
  <2>1. HasHeader(s, r) => i # 1
    BY <1>2, <1>5, <1>7 DEF HasHeader
  <2>2. QED
    BY <1>4, <1>6, <1>7, <2>1 DEF t
<1>8. CASE i <= Len(s)
  <2>1. /\ i \in 1 .. Len(s) /\ s[i] \in ChunkBlocks(r) /\ s[i].start \in Nat /\ s[i].next \in Nat
        /\ (norm < s[i].start \/ norm <= s[i].next)
    BY <1>2, <1>5, <1>8, ChunkBlockFields
  <2>2. HasHeader(s, r)
    BY <1>8, <1>5
  <2>3. norm < s[i].start => i # 1
    BY <1>1, <2>2 DEF HasHeader
  <2>4. CASE norm < s[i].start /\ end < s[i].start
    BY <1>1, <1>4, <1>5, <1>6, <1>8, <2>1, <2>3, <2>4 DEF t
  <2>5. CASE norm < s[i].start /\ ~ (end < s[i].start)
    <3> DEFINE c == Prepend(s[i], p, s[i].start - norm, norm)
    <3>1. c \in ChunkBlocks(r)
      BY <1>1, <2>1, <2>5, PrependLemma
    <3>2. t = Splice(s, i, i, c)
      BY <1>1, <1>4, <1>5, <1>8, <2>1, <2>5
    <3> HIDE DEF c
    <3>3. i \in i - 1 .. Len(s) /\ i \in 1 .. Len(s) + 1
      BY <1>2, <2>1
    <3>4. t \in Seq(ChunkBlocks(r)) /\ Len(t) >= i /\ \A k \in 1 .. i - 1 : t[k] = s[k]
      <4> DEFINE u == Splice(s, i, i, c)
                 R == ChunkBlocks(r)
      <4>a. c \in R /\ s \in Seq(R)
        BY <3>1
      <4> HIDE DEF R
      <4>b. SplicedAt(R, s, i, c, u)
        BY <3>3, <4>a, SplicedLemma
      <4> HIDE DEF u
      <4>1. u \in Seq(ChunkBlocks(r)) /\ Len(u) >= i /\ \A k \in 1 .. i - 1 : u[k] = s[k]
        BY <4>b DEF SplicedAt, R
      <4>2. t = u
        BY <3>2 DEF u
      <4>3. QED
        BY <4>1, <4>2
    <3>5. 1 \in 1 .. i - 1
      BY <1>5, <2>3, <2>5
    <3>6. HasHeader(t, r)
      BY <1>5, <2>2, <3>4, <3>5 DEF HasHeader
    <3>7. QED
      BY <3>4, <3>6 DEF t
  <2>6. CASE ~ (norm < s[i].start) /\ end > s[i].next
    <3>1. t = AppendAndMerge(s, i, norm, p)
      BY <1>1, <1>4, <1>5, <1>8, <2>1, <2>6
    <3>2. norm <= s[i].next /\ s[i].next < norm + Len(p)
      BY <1>1, <2>1, <2>6
    <3>3. /\ t \in Seq(ChunkBlocks(r)) /\ Len(t) >= i
          /\ t[i].start = s[i].start
          /\ Len(s[i].data) >= 1 => Len(t[i].data) >= 1 /\ t[i].data[1] = s[i].data[1]
          /\ \A k \in 1 .. i - 1 : t[k] = s[k]
      BY <2>1, <3>1, <3>2, AppendAndMergeLemma
    <3>4. HasHeader(t, r)
      <4>1. CASE i = 1
        BY <2>2, <3>3, <4>1 DEF HasHeader
      <4>2. CASE i # 1
        <5>1. 1 \in 1 .. i - 1
          BY <1>5, <4>2
        <5>2. QED
          BY <1>5, <2>2, <3>3, <5>1 DEF HasHeader
      <4>3. QED
        BY <4>1, <4>2
    <3>5. QED
      BY <3>3, <3>4 DEF t
  <2>7. CASE ~ (norm < s[i].start) /\ ~ (end > s[i].next)
    <3>1. t = s
      BY <1>1, <1>4, <1>5, <1>8, <2>1, <2>7
    <3>2. QED
      BY <2>2, <3>1 DEF t
  <2>8. QED
    BY <2>4, <2>5, <2>6, <2>7
<1>9. QED
  BY <1>2, <1>5, <1>7, <1>8

-----------------------------------------------------------------------------
(* SniffTcp::fill_gaps_in_chunk *)

\* The fields of the part of the state a handler works on.
LEMMA PartFields ==
  ASSUME NEW f \in Flow, NEW st \in Parts(f)
  PROVE  /\ st = [list |-> st.list, map |-> st.map, sent |-> st.sent, defined |-> st.defined]
         /\ st.list \in Seq(FlowBlocks(f)) /\ st.map \in Maps /\ st.sent \in Seq(Responses)
         /\ st.defined \in BOOLEAN
  BY DEF Parts

\* A chunk that is known has an entry.
LEMMA KnownEntry ==
  ASSUME NEW map \in Maps, NEW r \in Chunk, Known(map, r)
  PROVE  map[r] \in Entries(r) /\ map[r].flow_seq_map \in Starts(r)
         /\ map[r].lcb \in Seq(ChunkBlocks(r))
  BY DEF Maps, Known, Entries

\* An entry of a chunk that has blocks is none of an unknown one.
LEMMA EntryKnown ==
  ASSUME NEW map \in Maps, NEW r \in Chunk, NEW e \in Entries(r), Flow # {}
  PROVE  [map EXCEPT ![r] = e] \in Maps /\ Known([map EXCEPT ![r] = e], r)
<1>1. e # NoChunk
  <2>1. e.flow_seq_map \in [Flow -> SeqNum \cup {-1}]
    BY DEF Entries, Starts
  <2>2. DOMAIN e.flow_seq_map # DOMAIN <<>>
    BY <2>1
  <2>3. QED
    BY <2>2 DEF NoChunk
<1>2. e \in UNION {Entries(q) : q \in Chunk}
  OBVIOUS
<1>3. [map EXCEPT ![r] = e] \in Maps
  BY <1>2 DEF Maps
<1>4. [map EXCEPT ![r] = e][r] = e
  BY DEF Maps
<1>5. QED
  BY <1>1, <1>3, <1>4 DEF Known

\* What lies past the end of the chunk, by the offsets in the flow: the wrapping and
\* the sign of the difference play no part.
Past(f, r, s, p, n) == IF p + n > s + RecLen[r] THEN p + n - (s + RecLen[r]) ELSE 0

LEMMA PastLemma ==
  ASSUME NEW f \in Flow, NEW r \in Chunk, NEW s \in 0 .. Len(Stream[f]), NEW n \in Nat,
         NEW p \in 0 .. Len(Stream[f]), p + n <= Len(Stream[f])
  PROVE  LET past == SeqSub(SeqAdd(At(f, p), n), SeqAdd(At(f, s), RecLen[r]))
         IN  (IF 2 * past < SeqSpace THEN past ELSE 0) = Past(f, r, s, p, n)
<1> DEFINE L == Len(Stream[f])
           R == RecLen[r]
<1>1. /\ L \in Nat /\ R \in Nat /\ SeqSpace \in Nat /\ 2 * (L + R) < SeqSpace
      /\ s \in Nat /\ s <= L /\ p \in Nat /\ p + n <= L
  BY ConstTypes
<1> HIDE DEF L, R
<1>2. 2 * (p + n) < SeqSpace /\ 2 * (s + R) < SeqSpace /\ p + n \in Nat /\ s + R \in Nat
  BY <1>1
<1>3. SeqAdd(At(f, p), n) = At(f, p + n) /\ SeqAdd(At(f, s), R) = At(f, s + R)
  BY <1>1, <1>2, AtLemma
<1>4. SeqSub(At(f, p + n), At(f, s + R)) =
        IF p + n >= s + R THEN p + n - (s + R) ELSE p + n - (s + R) + SeqSpace
  BY <1>2, AtDifference
<1> DEFINE past == SeqSub(At(f, p + n), At(f, s + R))
<1> HIDE DEF past
<1>5. CASE p + n >= s + R
  <2>1. past = p + n - (s + R)
    BY <1>4, <1>5 DEF past
  <2>2. (IF 2 * past < SeqSpace THEN past ELSE 0) = IF p + n > s + R THEN p + n - (s + R) ELSE 0
    BY <1>1, <1>5, <2>1
  <2>3. QED
    BY <1>3, <2>2 DEF Past, past, R
<1>6. CASE ~ (p + n >= s + R)
  <2>1. past = p + n - (s + R) + SeqSpace
    BY <1>4, <1>6 DEF past
  <2>2. (IF 2 * past < SeqSpace THEN past ELSE 0) = IF p + n > s + R THEN p + n - (s + R) ELSE 0
    BY <1>1, <1>6, <2>1
  <2>3. QED
    BY <1>3, <2>2 DEF Past, past, R
<1>7. QED
  BY <1>5, <1>6

\* The bytes d are those of flow f from offset p.
FromOffset(f, p, d) ==
  /\ d \in Seq(AnyByte) /\ p \in 0 .. Len(Stream[f]) /\ p + Len(d) <= Len(Stream[f])
  /\ \A k \in 1 .. Len(d) : d[k] \in {Garbage, Stream[f][p + k]}

\* The part of a packet that is filled in belongs to the chunk, at the distance of
\* the packet from the chunk's start.
LEMMA KeptLemma ==
  ASSUME NEW f \in Flow, NEW r \in Chunk, NEW s \in 0 .. Len(Stream[f]) - 1,
         Stream[f][s + 1] = <<r, 1>>, NEW p, NEW d, FromOffset(f, p, d),
         OncePerFlow => p >= s, Past(f, r, s, p, Len(d)) <= Len(d)
  PROVE  LET m == Len(d) - Past(f, r, s, p, Len(d)) IN
         /\ m \in 0 .. Len(d) /\ Past(f, r, s, p, Len(d)) \in Nat
         /\ OfChunk(r, SeqSub(At(f, p), At(f, s)), SubSeq(d, 1, m))
         /\ Len(SubSeq(d, 1, m)) = m
         /\ p = s => SeqSub(At(f, p), At(f, s)) = 0
         /\ p = s /\ Len(d) >= 1 => m >= 1 /\ SubSeq(d, 1, m)[1] = d[1]
<1> DEFINE L    == Len(Stream[f])
           R    == RecLen[r]
           n    == Len(d)
           diff == Past(f, r, s, p, Len(d))
           m    == n - diff
           e    == SubSeq(d, 1, m)
           norm == SeqSub(At(f, p), At(f, s))
<1>1. /\ L \in Nat /\ R \in Nat /\ R >= 1 /\ SeqSpace \in Nat /\ 2 * (L + R) < SeqSpace
      /\ s \in Nat /\ s + 1 <= L /\ p \in Nat /\ p + n <= L /\ n \in Nat
  BY ConstTypes DEF FromOffset
<1>2. diff = (IF p + n > s + R THEN p + n - (s + R) ELSE 0) /\ diff <= n
  BY DEF Past
<1> HIDE DEF L, R, n, diff
<1>3. diff \in Nat /\ m \in Nat /\ m <= n
  BY <1>1, <1>2
<1>4. e \in Seq(AnyByte) /\ Len(e) = m /\ \A k \in 1 .. m : e[k] = d[k]
  <2>1. 1 \in 1 .. Len(d) + 1 /\ m \in 1 - 1 .. Len(d) /\ d \in Seq(AnyByte)
    BY <1>1, <1>3 DEF FromOffset, n
  <2> HIDE DEF m
  <2>2. e \in Seq(AnyByte) /\ Len(e) = m - 1 + 1 /\ \A k \in 1 .. m - 1 + 1 : e[k] = d[1 + k - 1]
    BY <2>1, SubSeqFacts
  <2> HIDE DEF e
  <2>3. QED
    BY <1>3, <2>2
<1> HIDE DEF e
<1>5. norm = IF p >= s THEN p - s ELSE p - s + SeqSpace
  BY <1>1, AtDifference
<1> HIDE DEF norm
<1>6. norm \in Nat
  BY <1>1, <1>5
<1>7. p >= s => norm <= R /\ norm + m <= R
  BY <1>1, <1>2, <1>3, <1>5
<1>8. ~ (p >= s) => norm > R
  BY <1>1, <1>5
<1>9. ASSUME p >= s, NEW k \in 1 .. m
      PROVE  e[k] \in {Garbage, <<r, norm + k>>}
  <2>1. /\ norm = p - s /\ norm + k \in 1 .. R /\ k \in 1 .. n /\ k \in 1 .. m
        /\ p + k <= L /\ (s + 1) + (norm + k) - 1 = p + k /\ s + 1 \in 1 .. L
    BY <1>1, <1>2, <1>3, <1>5, <1>7, <1>9
  <2>2. Marker \in Nat /\ r \in Record /\ norm + k \in 1 .. RecLen[r] + Marker
    <3>1. Marker \in Nat /\ r \in Record
      BY ConstTypes
    <3>2. norm + k \in 1 .. R + Marker
      BY <1>1, <1>6, <2>1, <3>1
    <3>3. QED
      BY <3>1, <3>2 DEF R
  <2>3. Stream[f][(s + 1) + (norm + k) - 1] = <<r, norm + k>>
    BY <2>1, <2>2, LayoutAssumption DEF L
  <2>4. d[k] \in {Garbage, Stream[f][p + k]}
    BY <2>1 DEF FromOffset, n
  <2>5. QED
    BY <1>4, <2>1, <2>3, <2>4
<1>10. OfChunk(r, norm, e)
  <2>1. OncePerFlow => norm <= RecLen[r]
    BY <1>7 DEF R
  <2>2. norm <= RecLen[r] => p >= s
    BY <1>1, <1>6, <1>8 DEF R
  <2>3. norm <= RecLen[r] => norm + Len(e) <= RecLen[r]
    BY <1>4, <1>7, <2>2 DEF R
  <2>4. norm <= RecLen[r] => \A k \in 1 .. Len(e) : e[k] \in {Garbage, <<r, norm + k>>}
    BY <1>4, <1>9, <2>2
  <2>5. QED
    BY <1>4, <1>6, <2>1, <2>3, <2>4 DEF OfChunk
<1>11. p = s => norm = 0
  BY <1>1, <1>5
<1>12. p = s /\ n >= 1 => m >= 1
  BY <1>1, <1>2
<1>13. m >= 1 => e[1] = d[1]
  BY <1>3, <1>4
<1>14. m \in 0 .. n
  BY <1>1, <1>3
<1>15. QED
  BY <1>3, <1>4, <1>10, <1>11, <1>12, <1>13, <1>14 DEF n, diff, e, norm

\* The map n knows the chunks that m knows, and where they start.
SameStarts(m, n) ==
  \A q \in Chunk : /\ Known(m, q) => Known(n, q)
                   /\ n[q].flow_seq_map = m[q].flow_seq_map

\* A chunk with other blocks.
LEMMA LcbUpdate ==
  ASSUME NEW map \in Maps, NEW r \in Chunk, Known(map, r), NEW new \in Seq(ChunkBlocks(r)), Flow # {}
  PROVE  LET n == [map EXCEPT ![r].lcb = new] IN
         /\ n \in Maps /\ SameStarts(map, n) /\ n[r].lcb = new /\ Known(n, r)
         /\ \A q \in Chunk \ {r} : n[q] = map[q]
<1> DEFINE e == [map[r] EXCEPT !.lcb = new]
           n == [map EXCEPT ![r] = e]
<1>1. map[r] \in Entries(r)
  BY KnownEntry
<1>2. e \in Entries(r) /\ e.lcb = new /\ e.flow_seq_map = map[r].flow_seq_map
  BY <1>1 DEF Entries
<1> HIDE DEF e
<1>3. n \in Maps /\ Known(n, r)
  BY <1>2, EntryKnown
<1>4. DOMAIN map = Chunk
  BY DEF Maps
<1>5. n[r] = e /\ \A q \in Chunk \ {r} : n[q] = map[q]
  BY <1>4
<1>6. [map EXCEPT ![r].lcb = new] = n
  BY DEF e
<1> HIDE DEF n
<1>7. SameStarts(map, n)
  <2> SUFFICES ASSUME NEW q \in Chunk
               PROVE  (Known(map, q) => Known(n, q)) /\ n[q].flow_seq_map = map[q].flow_seq_map
    BY DEF SameStarts
  <2>1. CASE q = r
    BY <1>2, <1>3, <1>5, <2>1
  <2>2. CASE q # r
    BY <1>5, <2>2 DEF Known
  <2>3. QED
    BY <2>1, <2>2
<1>8. QED
  BY <1>2, <1>3, <1>5, <1>6, <1>7

\* A chunk that has its whole length is handed over as it should be.
LEMMA DoneLemma ==
  ASSUME NEW r \in Chunk, NEW new \in Seq(ChunkBlocks(r)), HasHeader(new, r),
         Len(new[1].data) >= RecLen[r], NEW out \in Seq(Responses)
  PROVE  SendChunk(out, new[1].data) \in Seq(Responses)
<1> DEFINE d == new[1].data
<1>1. new[1] \in ChunkBlocks(r) /\ new[1].start = 0 /\ Len(d) >= 1 /\ d[1] = <<r, 1>>
  BY DEF HasHeader
<1>2. OfChunk(r, 0, d) /\ d \in Seq(AnyByte)
  BY <1>1, ChunkBlockFields
<1>3. RecLen[r] \in Nat /\ Len(d) >= RecLen[r]
  BY RecordAssumption
<1> HIDE DEF d
<1>4. \A k \in 1 .. Len(d) : d[k] \in {Garbage, <<r, 0 + k>>}
  BY <1>2, <1>3 DEF OfChunk
<1>5. \A k \in 1 .. RecLen[r] : d[k] \in {Garbage, <<r, k>>}
  <2> SUFFICES ASSUME NEW k \in 1 .. RecLen[r] PROVE d[k] \in {Garbage, <<r, k>>}
    OBVIOUS
  <2>1. Len(d) \in Nat
    BY <1>2
  <2>2. k \in 1 .. Len(d) /\ 0 + k = k
    BY <1>3, <2>1
  <2>3. QED
    BY <1>4, <2>2
<1>6. \A q \in Chunk : d # <<>> /\ d[1] = <<q, 1>> => q = r
  BY <1>1 DEF d
<1>7. SendChunk(out, d) \in Seq(Responses)
  BY <1>2, <1>3, <1>5, <1>6, SendLemma
<1>8. QED
  BY <1>7 DEF d

\* Filling in a packet at or behind the chunk's header keeps every byte in its place,
\* whatever lies past the chunk's end, and hands over whole responses only.
LEMMA FillGapsLemma ==
  ASSUME NEW f \in Flow, NEW r \in Chunk, NEW st \in Parts(f), Known(st.map, r),
         NEW s \in 0 .. Len(Stream[f]) - 1, Stream[f][s + 1] = <<r, 1>>,
         st.map[r].flow_seq_map[f] = At(f, s),
         NEW p, NEW d, FromOffset(f, p, d), OncePerFlow => p >= s,
         st.defined => /\ \A q \in Chunk \ {r} : Headed(st.map, q)
                       /\ \/ HasHeader(st.map[r].lcb, r)
                          \/ st.map[r].lcb = <<>> /\ p = s /\ Len(d) >= 1 /\ d[1] = <<r, 1>>
  PROVE  LET u == FillGaps(st, f, r, At(f, p), d)
         IN  PartOK(f, u) /\ SameStarts(st.map, u.map)
<1> DEFINE seq  == At(f, p)
           lcb  == st.map[r].lcb
           diff == Past(f, r, s, p, Len(d))
           kept == SubSeq(d, 1, Len(d) - diff)
           norm == SeqSub(seq, At(f, s))
           new  == FillBlocks(lcb, norm, kept)
           done == ~ IsDuplicate(lcb, norm, kept) /\ Len(new[1].data) >= RecLen[r]
           list == IF diff = 0 THEN st.list
                   ELSE Insert(st.list, SeqAdd(seq, Len(kept)), PastData(d, diff))
           map  == [st.map EXCEPT ![r].lcb = new]
           out  == IF done THEN SendChunk(st.sent, new[1].data) ELSE st.sent
           u    == FillGaps(st, f, r, seq, d)
<1>1. /\ st = [list |-> st.list, map |-> st.map, sent |-> st.sent, defined |-> st.defined]
      /\ st.list \in Seq(FlowBlocks(f)) /\ st.map \in Maps /\ st.sent \in Seq(Responses)
      /\ st.defined \in BOOLEAN
  BY PartFields
<1>2. s \in 0 .. Len(Stream[f]) /\ p \in 0 .. Len(Stream[f]) /\ Len(d) \in Nat /\ d \in Seq(AnyByte)
      /\ p + Len(d) <= Len(Stream[f])
  BY ConstTypes DEF FromOffset
<1>3. u = IF ~ st.defined \/ diff > Len(d) THEN [st EXCEPT !.defined = FALSE]
          ELSE [st EXCEPT !.list = list, !.map = map, !.sent = out]
  <2> DEFINE past == SeqSub(SeqAdd(seq, Len(d)), SeqAdd(At(f, s), RecLen[r]))
  <2>1. (IF 2 * past < SeqSpace THEN past ELSE 0) = diff
    <3> HIDE DEF diff
    <3>1. (IF 2 * past < SeqSpace THEN past ELSE 0) = Past(f, r, s, p, Len(d))
      BY <1>2, PastLemma
    <3>2. QED
      BY <3>1 DEF diff
  <2> HIDE DEF diff, past
  <2>2. QED
    BY <2>1 DEF FillGaps, past
<1> HIDE DEF u
<1>4. CASE ~ st.defined \/ diff > Len(d)
  <2>1. u = [st EXCEPT !.defined = FALSE]
    BY <1>3, <1>4
  <2>2. u = [list |-> st.list, map |-> st.map, sent |-> st.sent, defined |-> FALSE]
    BY <1>1, <2>1
  <2>3. u \in Parts(f) /\ u.defined = FALSE /\ u.map = st.map
    BY <1>1, <2>2 DEF Parts
  <2>4. QED
    BY <2>3 DEF PartOK, SameStarts, u
<1>5. CASE st.defined /\ ~ (diff > Len(d))
  <2>1. u = [st EXCEPT !.list = list, !.map = map, !.sent = out]
    BY <1>3, <1>5
  <2>2. /\ Len(d) - diff \in 0 .. Len(d) /\ diff \in Nat
        /\ OfChunk(r, norm, kept) /\ Len(kept) = Len(d) - diff
        /\ p = s => norm = 0
        /\ p = s /\ Len(d) >= 1 => Len(d) - diff >= 1 /\ kept[1] = d[1]
    <3>1. diff <= Len(d)
      <4>1. RecLen[r] \in Nat
        BY ConstTypes
      <4>2. diff \in Int
        BY <1>2, <4>1 DEF Past
      <4>3. QED
        BY <1>2, <1>5, <4>2
    <3>2. QED
      BY <3>1, KeptLemma
  <2>3. lcb \in Seq(ChunkBlocks(r))
    BY <1>1, KnownEntry
  <2>4. \/ HasHeader(lcb, r)
        \/ lcb = <<>> /\ norm = 0 /\ Len(kept) >= 1 /\ kept[1] = <<r, 1>>
    BY <1>5, <2>2
  <2>5. new \in Seq(ChunkBlocks(r)) /\ HasHeader(new, r)
    <3> HIDE DEF lcb, norm, kept
    <3>1. QED
      BY <2>2, <2>3, <2>4, FillBlocksLemma
  <2>6. out \in Seq(Responses)
    <3> HIDE DEF new
    <3>1. QED
      BY <1>1, <2>5, DoneLemma
  <2>7. list \in Seq(FlowBlocks(f))
    <3>1. CASE diff = 0
      BY <1>1, <3>1
    <3>2. CASE diff # 0
      <4> DEFINE m == Len(d) - diff + 1
      <4>1. m \in 1 .. Len(d) + 1 /\ Len(d) \in m - 1 .. Len(d) /\ m - 1 = Len(d) - diff
        <5> HIDE DEF diff
        <5>1. QED
          BY <1>2, <2>2, <3>2
      <4>2. OfFlow(f, seq, d)
        BY <1>2 DEF OfFlow, FromOffset
      <4>3. OfFlow(f, SeqAdd(seq, m - 1), SubSeq(d, m, Len(d)))
        <5> HIDE DEF m, seq
        <5>1. QED
          BY <4>1, <4>2, OfFlowPart
      <4>4. OfFlow(f, SeqAdd(seq, Len(kept)), PastData(d, diff))
        BY <2>2, <4>1, <4>3 DEF PastData
      <4>5. Insert(st.list, SeqAdd(seq, Len(kept)), PastData(d, diff)) \in Seq(FlowBlocks(f))
        <5> HIDE DEF seq, kept, diff
        <5>1. QED
          BY <1>1, <4>4, InsertLemma
      <4>6. QED
        BY <3>2, <4>5
    <3>3. QED
      BY <3>1, <3>2
  <2> HIDE DEF list, out, new
  <2>8. /\ map \in Maps /\ SameStarts(st.map, map) /\ map[r].lcb = new
        /\ \A q \in Chunk \ {r} : map[q] = st.map[q]
    BY <1>1, <2>5, LcbUpdate
  <2> HIDE DEF map
  <2>9. u = [list |-> list, map |-> map, sent |-> out, defined |-> TRUE]
    BY <1>1, <1>5, <2>1
  <2>10. u \in Parts(f) /\ u.map = map
    BY <2>6, <2>7, <2>8, <2>9 DEF Parts
  <2>11. \A q \in Chunk : Headed(map, q)
    <3> SUFFICES ASSUME NEW q \in Chunk PROVE Headed(map, q)
      OBVIOUS
    <3>1. CASE q = r
      BY <2>5, <2>8, <3>1 DEF Headed
    <3>2. CASE q # r
      <4>1. map[q] = st.map[q] /\ Headed(st.map, q)
        BY <1>5, <2>8, <3>2
      <4>2. QED
        BY <4>1 DEF Headed, Known
    <3>3. QED
      BY <3>1, <3>2
  <2>12. QED
    BY <2>8, <2>10, <2>11 DEF PartOK, u
<1>6. QED
  BY <1>1, <1>4, <1>5

-----------------------------------------------------------------------------
(* Packets without a header, and the blocks kept for a flow *)

\* The chunks that are listed for flow f are known and start on it.
InfosOK(f, map) ==
  /\ flow_chunk_map[f] \in Seq([chunk_id : Chunk, s_seq_num : SeqNum, chunk_length : Nat])
  /\ \A i \in 1 .. Len(flow_chunk_map[f]) : InfoOK(f, map, flow_chunk_map[f][i])

\* Where a chunk starts on a flow that carries it.
LEMMA StartLemma ==
  ASSUME NEW f \in Flow, NEW r \in Chunk, NEW map \in Maps, Known(map, r),
         map[r].flow_seq_map[f] # -1
  PROVE  \E s \in 0 .. Len(Stream[f]) - 1 :
           map[r].flow_seq_map[f] = At(f, s) /\ Stream[f][s + 1] = <<r, 1>>
<1>1. map[r].flow_seq_map \in Starts(r)
  BY KnownEntry
<1>2. QED
  BY <1>1 DEF Starts, HeaderAt

\* A packet that lies in no known chunk is kept for its flow.
LEMMA KeepLemma ==
  ASSUME NEW f \in Flow, NEW st, PartOK(f, st), NEW p, NEW d, FromOffset(f, p, d)
  PROVE  LET u == [st EXCEPT !.list = Insert(@, At(f, p), d)]
         IN  PartOK(f, u) /\ u.map = st.map
<1> DEFINE list == Insert(st.list, At(f, p), d)
           u    == [st EXCEPT !.list = Insert(@, At(f, p), d)]
<1>1. /\ st = [list |-> st.list, map |-> st.map, sent |-> st.sent, defined |-> st.defined]
      /\ st.list \in Seq(FlowBlocks(f)) /\ st.map \in Maps /\ st.sent \in Seq(Responses)
      /\ st.defined \in BOOLEAN
  BY PartFields DEF PartOK
<1>2. OfFlow(f, At(f, p), d)
  BY DEF OfFlow, FromOffset
<1>3. list \in Seq(FlowBlocks(f))
  BY <1>1, <1>2, InsertLemma
<1> HIDE DEF list
<1>4. u = [st EXCEPT !.list = list]
  BY DEF list
<1> HIDE DEF u
<1>5. u = [list |-> list, map |-> st.map, sent |-> st.sent, defined |-> st.defined]
  BY <1>1, <1>4
<1>6. u \in Parts(f) /\ u.map = st.map /\ u.defined = st.defined
  BY <1>1, <1>3, <1>5 DEF Parts
<1>7. QED
  BY <1>6 DEF PartOK, u

\* A packet without a header goes to a chunk it lies in, behind the chunk's header, or is
\* kept for its flow.
LEMMA DealWithPktLemma ==
  ASSUME NEW f \in Flow, NEW st, PartOK(f, st), InfosOK(f, st.map),
         NEW p, NEW d, FromOffset(f, p, d)
  PROVE  LET u == DealWithPkt(st, f, At(f, p), d)
         IN  PartOK(f, u) /\ SameStarts(st.map, u.map)
<1> DEFINE infos == flow_chunk_map[f]
           seq   == At(f, p)
           fits  == {i \in 1 .. Len(infos) : Inside(seq, infos[i].s_seq_num, infos[i].chunk_length)}
           c     == infos[Min(fits)]
           u     == DealWithPkt(st, f, seq, d)
<1>1. st \in Parts(f) /\ st.map \in Maps
  BY PartFields DEF PartOK
<1>2. u = IF fits = {} THEN [st EXCEPT !.list = Insert(@, seq, d)]
          ELSE FillGaps(st, f, c.chunk_id, seq, d)
  BY DEF DealWithPkt
<1>3. CASE fits = {}
  <2> HIDE DEF u, fits
  <2>1. u = [st EXCEPT !.list = Insert(@, seq, d)]
    BY <1>2, <1>3
  <2>2. PartOK(f, u) /\ u.map = st.map
    BY <2>1, KeepLemma
  <2>3. QED
    BY <2>2 DEF SameStarts, u
<1>4. CASE fits # {}
  <2>1. Min(fits) \in fits
    <3>1. fits \in SUBSET Nat
      BY DEF InfosOK
    <3> HIDE DEF fits
    <3>2. QED
      BY <1>4, <3>1, MinLemma
  <2>2. InfoOK(f, st.map, c) /\ Inside(seq, c.s_seq_num, c.chunk_length)
    BY <2>1 DEF InfosOK
  <2> HIDE DEF c, fits, u
  <2> DEFINE r == c.chunk_id
  <2>3. /\ r \in Chunk /\ c.chunk_length = RecLen[r] /\ HeaderAt(f, r, c.s_seq_num)
        /\ Known(st.map, r) /\ st.map[r].flow_seq_map[f] # -1
    BY <2>2 DEF InfoOK
  <2>4. PICK s \in 0 .. Len(Stream[f]) - 1 :
          st.map[r].flow_seq_map[f] = At(f, s) /\ Stream[f][s + 1] = <<r, 1>>
    BY <1>1, <2>3, StartLemma
  <2>5. PICK o \in 0 .. Len(Stream[f]) - 1 : c.s_seq_num = At(f, o) /\ Stream[f][o + 1] = <<r, 1>>
    BY <2>3 DEF HeaderAt
  <2> HIDE DEF r
  <2>6. OncePerFlow => p >= s
    <3> SUFFICES ASSUME OncePerFlow PROVE p >= s
      OBVIOUS
    <3>1. Len(Stream[f]) \in Nat
      BY ConstTypes
    <3>2. s + 1 \in 1 .. Len(Stream[f]) /\ o + 1 \in 1 .. Len(Stream[f]) /\ s \in Int /\ o \in Int
      BY <3>1
    <3>3. s + 1 = o + 1
      BY <2>3, <2>4, <2>5, <3>2 DEF OncePerFlow
    <3>4. o = s
      BY <3>2, <3>3
    <3>5. p \in 0 .. Len(Stream[f]) /\ o \in 0 .. Len(Stream[f])
      BY <3>1, <3>2 DEF FromOffset
    <3>6. Inside(At(f, p), At(f, o), RecLen[r])
      BY <2>2, <2>3, <2>5
    <3>7. p >= o
      BY <2>3, <3>5, <3>6, InsideAfter
    <3>8. QED
      BY <3>4, <3>7
  <2>7. st.defined => /\ \A q \in Chunk \ {r} : Headed(st.map, q)
                      /\ HasHeader(st.map[r].lcb, r)
    BY <2>3 DEF PartOK, Headed
  <2>8. u = FillGaps(st, f, r, seq, d)
    BY <1>2, <1>4 DEF r
  <2>9. QED
    BY <1>1, <2>3, <2>4, <2>6, <2>7, <2>8, FillGapsLemma DEF u
<1>5. QED
  BY <1>3, <1>4

\* What is left of the list when a block is erased.
LEMMA EraseLemma ==
  ASSUME NEW f \in Flow, NEW list \in Seq(FlowBlocks(f)), NEW b
  PROVE  Erase(list, b) \in Seq(FlowBlocks(f))
<1> DEFINE n       == Len(list)
           S       == Seq(FlowBlocks(f))
           Kept(s, x) == IF x = b THEN s ELSE Append(s, x)
           P(h)    == h = [k \in 0 .. n |-> IF k = 0 THEN <<>>
                                            ELSE IF list[k] = b THEN h[k - 1]
                                            ELSE Append(h[k - 1], list[k])]
           chosen  == CHOOSE h : P(h)
<1>1. n \in Nat
  OBVIOUS
<1>2. <<>> \in S
  OBVIOUS
<1>3. \A k \in 1 .. n : \A s \in S : Kept(s, list[k]) \in S
  <2> SUFFICES ASSUME NEW k \in 1 .. n, NEW s \in S PROVE Kept(s, list[k]) \in S
    OBVIOUS
  <2>1. list[k] \in FlowBlocks(f)
    OBVIOUS
  <2>2. QED
    BY <2>1
<1>4. Erase(list, b) = chosen[n]
  BY DEF Erase
<1>5. \E h : P(h)
  <2> DEFINE step == [k \in 1 .. n |-> [s \in S |-> Kept(s, list[k])]]
  <2>1. step \in [1 .. n -> [S -> S]]
    <3> HIDE DEF Kept, S, n
    <3>1. QED
      BY <1>3
  <2>2. PICK h \in [0 .. n -> S] : IsFold(n, <<>>, step, h)
    <3> HIDE DEF step, n, S
    <3>1. QED
      BY <1>1, <1>2, <2>1, FoldExists
  <2>3. h[0] = <<>> /\ \A k \in 1 .. n : h[k] = Kept(h[k - 1], list[k])
    <3> HIDE DEF Kept, S, n
    <3>1. ASSUME NEW k \in 1 .. n
          PROVE  h[k] = Kept(h[k - 1], list[k])
      <4>1. k - 1 \in 0 .. n
        BY <1>1
      <4>2. h[k] = step[k][h[k - 1]]
        BY <2>2 DEF IsFold
      <4>3. QED
        BY <4>1, <4>2
    <3>2. QED
      BY <2>2, <3>1 DEF IsFold
  <2>4. P(h)
    <3>1. \A k \in 0 .. n : h[k] = IF k = 0 THEN <<>> ELSE Kept(h[k - 1], list[k])
      <4> HIDE DEF Kept
      <4>1. QED
        BY <1>1, <2>3
    <3>2. QED
      BY <3>1
  <2>5. QED
    BY <2>4
<1>6. P(chosen)
  <2> HIDE DEF P
  <2>1. QED
    BY <1>5
<1>7. chosen[0] = <<>> /\ \A k \in 1 .. n : chosen[k] = Kept(chosen[k - 1], list[k])
  <2> HIDE DEF chosen, n
  <2>1. \A k \in 0 .. n : chosen[k] = IF k = 0 THEN <<>> ELSE Kept(chosen[k - 1], list[k])
    BY <1>6, Zenon
  <2> HIDE DEF P, Kept
  <2>2. QED
    BY <1>1, <2>1
<1>8. \A k \in 0 .. n : chosen[k] \in S
  <2> HIDE DEF chosen, P, n, S, Kept
  <2>1. QED
    BY <1>1, <1>2, <1>3, <1>7, FoldIn
<1>9. QED
  <2> HIDE DEF chosen, n
  <2>1. n \in 0 .. n
    BY <1>1
  <2>2. QED
    BY <1>4, <1>8, <2>1

\* The handlers leave the starts of the chunks alone, one after the other.
LEMMA SameStartsTransitive ==
  ASSUME NEW m, NEW n, NEW o, SameStarts(m, n), SameStarts(n, o)
  PROVE  SameStarts(m, o)
  BY DEF SameStarts

\* The states that lead from map m while one chunk takes up the blocks kept for flow f.
Taken(f, m) == {u \in Parts(f) : PartOK(f, u) /\ SameStarts(m, u.map)}

\* A block that is kept for the flow, taken up or not.
LEMMA TakeCandidateLemma ==
  ASSUME NEW f \in Flow, NEW r \in Chunk, NEW m, Known(m, r),
         NEW s \in 0 .. Len(Stream[f]) - 1, Stream[f][s + 1] = <<r, 1>>,
         m[r].flow_seq_map[f] = At(f, s),
         NEW st \in Taken(f, m), NEW b \in FlowBlocks(f)
  PROVE  TakeCandidate(st, f, r, At(f, s), b) \in Taken(f, m)
<1> DEFINE filled == FillGaps(st, f, r, b.start, b.data)
           u      == TakeCandidate(st, f, r, At(f, s), b)
<1>1. PartOK(f, st) /\ SameStarts(m, st.map) /\ st \in Parts(f)
  BY DEF Taken
<1>2. CASE ~ Inside(b.start, At(f, s), RecLen[r])
  BY <1>2 DEF TakeCandidate
<1>3. CASE Inside(b.start, At(f, s), RecLen[r])
  <2>1. u = [filled EXCEPT !.list = Erase(@, b)]
    BY <1>3 DEF TakeCandidate
  <2>2. OfFlow(f, b.start, b.data)
    BY FlowBlockFields
  <2>3. PICK p : b.start = At(f, p) /\ FromOffset(f, p, b.data)
    BY <2>2 DEF OfFlow, FromOffset
  <2>4. p >= s
    <3>1. Len(Stream[f]) \in Nat
      BY ConstTypes
    <3>2. p \in 0 .. Len(Stream[f]) /\ s \in 0 .. Len(Stream[f])
      BY <2>3, <3>1 DEF FromOffset
    <3>3. QED
      BY <1>3, <2>3, <3>2, InsideAfter
  <2>5. Known(st.map, r) /\ st.map[r].flow_seq_map[f] = At(f, s)
    BY <1>1 DEF SameStarts
  <2>6. st.defined => /\ \A q \in Chunk \ {r} : Headed(st.map, q)
                      /\ HasHeader(st.map[r].lcb, r)
    BY <1>1, <2>5 DEF PartOK, Headed
  <2>7. PartOK(f, filled) /\ SameStarts(st.map, filled.map)
    BY <1>1, <2>3, <2>4, <2>5, <2>6, FillGapsLemma
  <2> HIDE DEF filled, u
  <2>8. SameStarts(m, filled.map)
    BY <1>1, <2>7, SameStartsTransitive
  <2> DEFINE list == Erase(filled.list, b)
  <2>9. /\ filled = [list |-> filled.list, map |-> filled.map, sent |-> filled.sent,
                     defined |-> filled.defined]
        /\ filled.list \in Seq(FlowBlocks(f)) /\ filled.map \in Maps
        /\ filled.sent \in Seq(Responses) /\ filled.defined \in BOOLEAN
    BY <2>7, PartFields DEF PartOK
  <2>10. list \in Seq(FlowBlocks(f))
    BY <2>9, EraseLemma
  <2>11. u = [filled EXCEPT !.list = list]
    BY <2>1
  <2> HIDE DEF list
  <2>12. u = [list |-> list, map |-> filled.map, sent |-> filled.sent, defined |-> filled.defined]
    BY <2>9, <2>11
  <2>13. u \in Parts(f) /\ u.map = filled.map /\ u.defined = filled.defined
    BY <2>9, <2>10, <2>12 DEF Parts
  <2>14. PartOK(f, u)
    BY <2>7, <2>13 DEF PartOK
  <2>15. QED
    BY <2>8, <2>13, <2>14 DEF Taken, u
<1>4. QED
  BY <1>2, <1>3

\* The chunk takes up what was kept for the flow.
LEMMA DealWithCandidatesLemma ==
  ASSUME NEW f \in Flow, NEW r \in Chunk, NEW st, PartOK(f, st), Known(st.map, r),
         NEW s \in 0 .. Len(Stream[f]) - 1, Stream[f][s + 1] = <<r, 1>>,
         st.map[r].flow_seq_map[f] = At(f, s)
  PROVE  LET u == DealWithCandidates(st, f, r) IN PartOK(f, u) /\ SameStarts(st.map, u.map)
<1> DEFINE n       == Len(st.list)
           S       == Taken(f, st.map)
           start   == st.map[r].flow_seq_map[f]
           P(h)    == h = [k \in 0 .. n |-> IF k = 0 THEN st
                             ELSE TakeCandidate(h[k - 1], f, r, st.map[r].flow_seq_map[f], st.list[k])]
           chosen  == CHOOSE h : P(h)
<1>1. n \in Nat /\ st.list \in Seq(FlowBlocks(f)) /\ st \in Parts(f)
  BY PartFields DEF PartOK
<1>2. st \in S
  BY <1>1 DEF Taken, SameStarts
<1>3. \A k \in 1 .. n : \A x \in S : TakeCandidate(x, f, r, start, st.list[k]) \in S
  <2> SUFFICES ASSUME NEW k \in 1 .. n, NEW x \in S
               PROVE  TakeCandidate(x, f, r, start, st.list[k]) \in S
    OBVIOUS
  <2>1. st.list[k] \in FlowBlocks(f)
    BY <1>1
  <2>2. QED
    BY <2>1, TakeCandidateLemma
<1>4. DealWithCandidates(st, f, r) = chosen[n]
  BY DEF DealWithCandidates
<1>5. \E h : P(h)
  <2> DEFINE step == [k \in 1 .. n |-> [x \in S |-> TakeCandidate(x, f, r, start, st.list[k])]]
  <2>1. step \in [1 .. n -> [S -> S]]
    <3> HIDE DEF S, n
    <3>1. QED
      BY <1>3
  <2>2. PICK h \in [0 .. n -> S] : IsFold(n, st, step, h)
    <3> HIDE DEF step, n, S
    <3>1. QED
      BY <1>1, <1>2, <2>1, FoldExists
  <2>3. h[0] = st /\ \A k \in 1 .. n : h[k] = TakeCandidate(h[k - 1], f, r, start, st.list[k])
    <3> HIDE DEF S, n
    <3>1. ASSUME NEW k \in 1 .. n
          PROVE  h[k] = TakeCandidate(h[k - 1], f, r, start, st.list[k])
      <4>1. k - 1 \in 0 .. n
        BY <1>1
      <4>2. h[k] = step[k][h[k - 1]]
        BY <2>2 DEF IsFold
      <4>3. QED
        BY <4>1, <4>2
    <3>2. QED
      BY <2>2, <3>1 DEF IsFold
  <2>4. P(h)
    <3>1. \A k \in 0 .. n : h[k] = IF k = 0 THEN st ELSE TakeCandidate(h[k - 1], f, r, start, st.list[k])
      BY <1>1, <2>3
    <3>2. QED
      BY <3>1
  <2>5. QED
    BY <2>4
<1>6. P(chosen)
  <2> HIDE DEF P
  <2>1. QED
    BY <1>5
<1>7. chosen[0] = st /\ \A k \in 1 .. n :
        chosen[k] = TakeCandidate(chosen[k - 1], f, r, start, st.list[k])
  <2> HIDE DEF chosen, n
  <2>1. \A k \in 0 .. n :
          chosen[k] = IF k = 0 THEN st ELSE TakeCandidate(chosen[k - 1], f, r, start, st.list[k])
    BY <1>6, Zenon
  <2> HIDE DEF P, start
  <2>2. QED
    BY <1>1, <2>1
<1>8. \A k \in 0 .. n : chosen[k] \in S
  <2> HIDE DEF chosen, P, n, S, start
  <2>1. QED
    BY <1>1, <1>2, <1>3, <1>7, FoldIn
<1>9. chosen[n] \in S
  <2> HIDE DEF chosen, n
  <2>1. n \in 0 .. n
    BY <1>1
  <2>2. QED
    BY <1>8, <2>1
<1> HIDE DEF chosen, n
<1>10. QED
  BY <1>4, <1>9 DEF Taken

-----------------------------------------------------------------------------
(* The header of a chunk *)

\* The map n knows the chunks that m knows, and on which flows they start.
KeepsStarts(m, n) ==
  \A q \in Chunk : Known(m, q) =>
    /\ Known(n, q)
    /\ \A g \in Flow : m[q].flow_seq_map[g] # -1 => n[q].flow_seq_map[g] # -1

\* What stays listed for a flow.
LEMMA InfoKept ==
  ASSUME NEW f \in Flow, NEW m, NEW n, KeepsStarts(m, n), NEW c, InfoOK(f, m, c)
  PROVE  InfoOK(f, n, c)
  BY DEF InfoOK, KeepsStarts

\* The entry of a chunk whose header was seen on flow f, as ChunkHeader writes it.
Opened(map, f, r, seq) ==
  IF Known(map, r) THEN [map[r] EXCEPT !.flow_seq_map[f] = seq]
  ELSE [flow_seq_map |-> [g \in Flow |-> IF g = f THEN seq ELSE -1], lcb |-> <<>>]

LEMMA OpenedEntry ==
  ASSUME NEW f \in Flow, NEW r \in Chunk, NEW map \in Maps, NEW seq, HeaderAt(f, r, seq),
         seq \in SeqNum, NEW e, e = Opened(map, f, r, seq)
  PROVE  /\ e \in Entries(r) /\ e.flow_seq_map[f] = seq
         /\ Known(map, r) =>
              /\ e.lcb = map[r].lcb
              /\ \A g \in Flow : map[r].flow_seq_map[g] # -1 => e.flow_seq_map[g] # -1
         /\ ~ Known(map, r) => e.lcb = <<>>
<1>1. seq # -1
  BY WidthAssumption DEF SeqNum
<1>2. CASE Known(map, r)
  <2> DEFINE old == map[r].flow_seq_map
             new == [old EXCEPT ![f] = seq]
  <2>1. map[r] \in Entries(r) /\ old \in Starts(r) /\ map[r].lcb \in Seq(ChunkBlocks(r))
    BY <1>2, KnownEntry
  <2>2. map[r] = [flow_seq_map |-> old, lcb |-> map[r].lcb]
    BY <2>1 DEF Entries
  <2>3. e = [map[r] EXCEPT !.flow_seq_map = new]
    BY <1>2 DEF Opened
  <2>4. new \in Starts(r) /\ new[f] = seq /\ \A g \in Flow : old[g] # -1 => new[g] # -1
    <3>1. old \in [Flow -> SeqNum \cup {-1}] /\ \A g \in Flow : old[g] # -1 => HeaderAt(g, r, old[g])
      BY <2>1 DEF Starts
    <3> HIDE DEF old
    <3>2. new \in [Flow -> SeqNum \cup {-1}] /\ new[f] = seq
          /\ \A g \in Flow : new[g] = IF g = f THEN seq ELSE old[g]
      BY <3>1
    <3> HIDE DEF new
    <3>3. \A g \in Flow : new[g] # -1 => HeaderAt(g, r, new[g])
      BY <3>1, <3>2
    <3>4. QED
      BY <1>1, <3>2, <3>3 DEF Starts
  <2> HIDE DEF new, old
  <2>5. e = [flow_seq_map |-> new, lcb |-> map[r].lcb]
    BY <2>2, <2>3
  <2>6. e \in Entries(r) /\ e.flow_seq_map = new /\ e.lcb = map[r].lcb
    BY <2>1, <2>4, <2>5 DEF Entries
  <2>7. e.flow_seq_map[f] = seq /\ \A g \in Flow : old[g] # -1 => e.flow_seq_map[g] # -1
    BY <2>4, <2>6
  <2>8. QED
    BY <1>2, <2>6, <2>7 DEF old
<1>3. CASE ~ Known(map, r)
  <2> DEFINE new == [g \in Flow |-> IF g = f THEN seq ELSE -1]
  <2>1. e = [flow_seq_map |-> new, lcb |-> <<>>]
    BY <1>3 DEF Opened
  <2>2. new \in [Flow -> SeqNum \cup {-1}] /\ new[f] = seq
        /\ \A g \in Flow : new[g] # -1 => g = f
    OBVIOUS
  <2> HIDE DEF new
  <2>3. new \in Starts(r)
    BY <2>2 DEF Starts
  <2>4. QED
    BY <1>3, <2>1, <2>2, <2>3 DEF Entries
<1>4. QED
  BY <1>2, <1>3

\* The packet that shows the header of a chunk opens it on the flow, or opens it again,
\* and leaves every byte in its place.
LEMMA ChunkHeaderLemma ==
  ASSUME NEW f \in Flow, NEW r \in Chunk, NEW st, PartOK(f, st),
         NEW s \in 0 .. Len(Stream[f]) - 1, Stream[f][s + 1] = <<r, 1>>,
         NEW d, FromOffset(f, s, d), Len(d) >= 1, d[1] = <<r, 1>>
  PROVE  LET u == ChunkHeader(st, f, r, At(f, s), d)
         IN  /\ PartOK(f, u) /\ KeepsStarts(st.map, u.map)
             /\ Known(u.map, r) /\ u.map[r].flow_seq_map[f] # -1
<1> DEFINE seq    == At(f, s)
           e      == Opened(st.map, f, r, seq)
           map    == [st.map EXCEPT ![r] = e]
           opened == [st EXCEPT !.map = map]
           filled == FillGaps(opened, f, r, seq, d)
           u      == ChunkHeader(st, f, r, seq, d)
<1>1. /\ st = [list |-> st.list, map |-> st.map, sent |-> st.sent, defined |-> st.defined]
      /\ st.list \in Seq(FlowBlocks(f)) /\ st.map \in Maps /\ st.sent \in Seq(Responses)
      /\ st.defined \in BOOLEAN
  BY PartFields DEF PartOK
<1>2. HeaderAt(f, r, seq) /\ seq \in SeqNum /\ seq # -1
  <2>1. s \in Nat /\ s <= Len(Stream[f]) /\ Len(Stream[f]) \in Nat /\ SeqSpace \in Nat
        /\ 2 * Len(Stream[f]) < SeqSpace
    BY ConstTypes
  <2>2. 2 * (s + 0) < SeqSpace
    BY <2>1
  <2>3. seq \in SeqNum
    BY <2>1, <2>2, AtLemma
  <2>4. QED
    BY <2>3, WidthAssumption DEF HeaderAt, SeqNum
<1>3. u = IF Known(st.map, r) THEN filled ELSE DealWithCandidates(filled, f, r)
  BY DEF ChunkHeader, Opened
<1> HIDE DEF seq, u
<1>4. /\ e \in Entries(r) /\ e.flow_seq_map[f] = seq
      /\ Known(st.map, r) =>
           /\ e.lcb = st.map[r].lcb
           /\ \A g \in Flow : st.map[r].flow_seq_map[g] # -1 => e.flow_seq_map[g] # -1
      /\ ~ Known(st.map, r) => e.lcb = <<>>
  BY <1>1, <1>2, OpenedEntry
<1> HIDE DEF e
<1>5. /\ map \in Maps /\ Known(map, r) /\ map[r] = e
      /\ \A q \in Chunk \ {r} : map[q] = st.map[q]
  <2>1. DOMAIN st.map = Chunk
    BY <1>1 DEF Maps
  <2>2. QED
    BY <1>1, <1>4, <2>1, EntryKnown
<1>6. KeepsStarts(st.map, map)
  <2> SUFFICES ASSUME NEW q \in Chunk, Known(st.map, q)
               PROVE  /\ Known(map, q)
                      /\ \A g \in Flow : st.map[q].flow_seq_map[g] # -1 => map[q].flow_seq_map[g] # -1
    BY DEF KeepsStarts
  <2>1. CASE q = r
    BY <1>4, <1>5, <2>1
  <2>2. CASE q # r
    BY <1>5, <2>2 DEF Known
  <2>3. QED
    BY <2>1, <2>2
<1> HIDE DEF map
<1>7. opened = [list |-> st.list, map |-> map, sent |-> st.sent, defined |-> st.defined]
  BY <1>1
<1>8. opened \in Parts(f) /\ opened.map = map /\ opened.defined = st.defined
  BY <1>1, <1>5, <1>7 DEF Parts
<1> HIDE DEF opened
<1>9. opened.defined => /\ \A q \in Chunk \ {r} : Headed(opened.map, q)
                        /\ \/ HasHeader(opened.map[r].lcb, r)
                           \/ opened.map[r].lcb = <<>> /\ s = s /\ Len(d) >= 1 /\ d[1] = <<r, 1>>
  <2> SUFFICES ASSUME st.defined
               PROVE  /\ \A q \in Chunk \ {r} : Headed(map, q)
                      /\ HasHeader(map[r].lcb, r) \/ map[r].lcb = <<>>
    BY <1>8
  <2>1. \A q \in Chunk : Headed(st.map, q)
    BY DEF PartOK
  <2>2. \A q \in Chunk \ {r} : Headed(map, q)
    BY <1>5, <2>1 DEF Headed, Known
  <2>3. HasHeader(map[r].lcb, r) \/ map[r].lcb = <<>>
    BY <1>4, <1>5, <2>1 DEF Headed
  <2>4. QED
    BY <2>2, <2>3
<1>10. PartOK(f, filled) /\ SameStarts(map, filled.map)
  <2>1. s >= s
    BY ConstTypes
  <2>2. opened.map[r].flow_seq_map[f] = At(f, s) /\ Known(opened.map, r)
    BY <1>4, <1>5, <1>8 DEF seq
  <2>3. QED
    BY <1>8, <1>9, <2>1, <2>2, FillGapsLemma DEF seq
<1> HIDE DEF filled
<1>11. PartOK(f, u) /\ SameStarts(map, u.map)
  <2>1. CASE Known(st.map, r)
    BY <1>3, <1>10, <2>1
  <2>2. CASE ~ Known(st.map, r)
    <3>1. Known(filled.map, r) /\ filled.map[r].flow_seq_map[f] = At(f, s)
      BY <1>4, <1>5, <1>10 DEF SameStarts, seq
    <3>2. PartOK(f, u) /\ SameStarts(filled.map, u.map)
      BY <1>3, <1>10, <2>2, <3>1, DealWithCandidatesLemma
    <3>3. QED
      BY <1>10, <3>2, SameStartsTransitive
  <2>3. QED
    BY <2>1, <2>2
<1>12. KeepsStarts(st.map, u.map)
  BY <1>6, <1>11 DEF KeepsStarts, SameStarts
<1>13. Known(u.map, r) /\ u.map[r].flow_seq_map[f] # -1
  BY <1>2, <1>4, <1>5, <1>11 DEF SameStarts
<1>14. QED
  BY <1>11, <1>12, <1>13 DEF u, seq

-----------------------------------------------------------------------------
(* The actions *)

\* The part of the state of flow f in the invariant.
LEMMA InvPart ==
  ASSUME SniffInv, NEW f \in Flow
  PROVE  /\ PartOK(f, Part(f)) /\ InfosOK(f, chunk_map)
         /\ Part(f).map = chunk_map /\ Part(f).list = p_flow_list[f]
         /\ Part(f).sent = sent /\ Part(f).defined = defined
         /\ chunk_map \in Maps /\ sent \in Seq(Responses) /\ defined \in BOOLEAN
<1>1. PartOK(f, Part(f)) /\ InfosOK(f, chunk_map)
  BY DEF SniffInv, InfosOK
<1>2. /\ Part(f).map = chunk_map /\ Part(f).list = p_flow_list[f]
      /\ Part(f).sent = sent /\ Part(f).defined = defined
  BY DEF Part
<1>3. Part(f) \in Parts(f)
  BY <1>1 DEF PartOK
<1>4. /\ Part(f).map \in Maps /\ Part(f).sent \in Seq(Responses) /\ Part(f).defined \in BOOLEAN
  BY <1>3, PartFields
<1>5. QED
  BY <1>1, <1>2, <1>4

\* What a handler leaves for one flow fits what the other flows have.
LEMMA PartShared ==
  ASSUME NEW f \in Flow, NEW st, PartOK(f, st), NEW g \in Flow, NEW list \in Seq(FlowBlocks(g))
  PROVE  PartOK(g, [list |-> list, map |-> st.map, sent |-> st.sent, defined |-> st.defined])
<1> DEFINE u == [list |-> list, map |-> st.map, sent |-> st.sent, defined |-> st.defined]
<1>1. st.map \in Maps /\ st.sent \in Seq(Responses) /\ st.defined \in BOOLEAN
  BY PartFields DEF PartOK
<1>2. u \in Parts(g) /\ u.map = st.map /\ u.defined = st.defined
  BY <1>1 DEF Parts
<1> HIDE DEF u
<1>3. PartOK(g, u)
  BY <1>2 DEF PartOK
<1>4. QED
  BY <1>3 DEF u

\* A capture keeps the invariant when its handler does for the part it works on.
LEMMA FinishLemma ==
  ASSUME SniffInv, NEW f \in Flow, NEW p \in Segments[f], p \in captured[f] => repeats < MaxRepeats,
         NEW st, PartOK(f, st), Finish(f, p, st),
         flow_chunk_map' \in [Flow -> Seq([chunk_id : Chunk, s_seq_num : SeqNum, chunk_length : Nat])],
         \A g \in Flow : \A i \in 1 .. Len(flow_chunk_map'[g]) : InfoOK(g, st.map, flow_chunk_map'[g][i])
  PROVE  SniffInv'
<1>1. /\ p_flow_list' = [p_flow_list EXCEPT ![f] = st.list] /\ chunk_map' = st.map
      /\ sent' = st.sent /\ defined' = st.defined /\ g_multi_chances' = g_multi_chances
      /\ captured' = [captured EXCEPT ![f] = @ \cup {p}]
      /\ repeats' = IF p \in captured[f] THEN repeats + 1 ELSE repeats
  BY DEF Finish
<1>2. st.list \in Seq(FlowBlocks(f))
  BY PartFields DEF PartOK
<1>3. p_flow_list \in [Flow -> Seq(Block)] /\ \A g \in Flow : p_flow_list[g] \in Seq(FlowBlocks(g))
  <2>1. \A g \in Flow : p_flow_list[g] \in Seq(FlowBlocks(g))
    <3> SUFFICES ASSUME NEW g \in Flow PROVE p_flow_list[g] \in Seq(FlowBlocks(g))
      OBVIOUS
    <3>1. Part(g) \in Parts(g) /\ Part(g).list = p_flow_list[g]
      BY InvPart DEF PartOK
    <3>2. QED
      BY <3>1, PartFields
  <2>2. QED
    BY <2>1 DEF SniffInv
<1>4. /\ p_flow_list' \in [Flow -> Seq(Block)]
      /\ \A g \in Flow : p_flow_list'[g] \in Seq(FlowBlocks(g))
  <2>1. st.list \in Seq(Block)
    <3>1. FlowBlocks(f) \subseteq Block
      BY DEF FlowBlocks
    <3> DEFINE list == st.list
    <3>2. list \in Seq(FlowBlocks(f))
      BY <1>2
    <3> HIDE DEF list
    <3>3. list \in Seq(Block)
      BY <3>1, <3>2
    <3>4. QED
      BY <3>3 DEF list
  <2>2. QED
    BY <1>1, <1>2, <1>3, <2>1
<1>5. ASSUME NEW g \in Flow
      PROVE  PartOK(g, Part(g)')
  <2>1. Part(g)' = [list |-> p_flow_list'[g], map |-> st.map, sent |-> st.sent, defined |-> st.defined]
    BY <1>1 DEF Part
  <2>2. p_flow_list'[g] \in Seq(FlowBlocks(g))
    BY <1>4
  <2>3. QED
    BY <2>1, <2>2, PartShared
<1>6. /\ DOMAIN captured' = Flow /\ \A g \in Flow : captured'[g] \subseteq Segments[g]
      /\ repeats' \in 0 .. MaxRepeats
  <2>1. DOMAIN captured = Flow /\ \A g \in Flow : captured[g] \subseteq Segments[g]
    BY DEF SniffInv
  <2>2. repeats \in 0 .. MaxRepeats /\ MaxRepeats \in Nat
    BY SniffAssumption DEF SniffInv
  <2>3. DOMAIN captured' = Flow /\ \A g \in Flow : captured'[g] \subseteq Segments[g]
    BY <1>1, <2>1
  <2>4. repeats' \in 0 .. MaxRepeats
    BY <1>1, <2>2
  <2>5. QED
    BY <2>3, <2>4
<1>7. g_multi_chances' \in BOOLEAN
  BY <1>1 DEF SniffInv
<1>8. \A g \in Flow : \A i \in 1 .. Len(flow_chunk_map'[g]) :
        InfoOK(g, chunk_map', flow_chunk_map'[g][i])
  BY <1>1
<1>9. chunk_map' \in Maps /\ sent' \in Seq(Responses) /\ defined' \in BOOLEAN
  <2>1. st.map \in Maps /\ st.sent \in Seq(Responses) /\ st.defined \in BOOLEAN
    BY PartFields DEF PartOK
  <2>2. QED
    BY <1>1, <2>1
<1>10. QED
  BY <1>4, <1>5, <1>6, <1>7, <1>8, <1>9 DEF SniffInv

\* The payload of a packet holds the flow's bytes from the packet's offset.
LEMMA PayloadLemma ==
  ASSUME NEW f \in Flow, NEW p \in Segments[f]
  PROVE  /\ FirstSeq(f, p) = At(f, p[1]) /\ FromOffset(f, p[1], Payload(f, p))
         /\ Payload(f, p) \in Seq(Byte)
         /\ p[1] \in Nat /\ Len(Payload(f, p)) = p[2] /\ p[2] \in Nat
         /\ p[1] + p[2] <= Len(Stream[f])
         /\ \A k \in 1 .. p[2] : Payload(f, p)[k] = Stream[f][p[1] + k]
<1> DEFINE o == p[1]
           n == p[2]
           d == Payload(f, p)
           m == o + 1
<1>1. o \in Nat /\ n \in Nat \ {0} /\ o + n <= Len(Stream[f])
  BY StreamAssumption
<1>2. Stream[f] \in Seq(Byte) /\ Len(Stream[f]) \in Nat
  BY ConstTypes
<1>3. d = SubSeq(Stream[f], m, o + n)
  BY DEF Payload
<1> HIDE DEF o, n, d
<1>4. m \in 1 .. Len(Stream[f]) + 1 /\ o + n \in m - 1 .. Len(Stream[f]) /\ (o + n) - m + 1 = n
  BY <1>1, <1>2
<1> HIDE DEF m
<1>5. d \in Seq(Byte) /\ Len(d) = n /\ \A k \in 1 .. n : d[k] = Stream[f][m + k - 1]
  <2> DEFINE e == o + n
  <2>1. e \in m - 1 .. Len(Stream[f]) /\ e - m + 1 = n
    BY <1>4
  <2> HIDE DEF e
  <2>2. LET z == SubSeq(Stream[f], m, e) IN
        z \in Seq(Byte) /\ Len(z) = e - m + 1 /\ \A k \in 1 .. e - m + 1 : z[k] = Stream[f][m + k - 1]
    BY <1>2, <1>4, <2>1, SubSeqFacts
  <2>3. QED
    BY <1>3, <2>1, <2>2 DEF e
<1>6. \A k \in 1 .. n : d[k] = Stream[f][o + k]
  <2>1. \A k \in 1 .. n : m + k - 1 = o + k
    BY <1>1 DEF m
  <2>2. QED
    BY <1>5, <2>1
<1>7. d \in Seq(AnyByte)
  <2>1. Byte \subseteq AnyByte
    BY DEF AnyByte
  <2>2. QED
    BY <1>5, <2>1
<1>8. FromOffset(f, o, d)
  <2>1. o \in 0 .. Len(Stream[f])
    BY <1>1, <1>2
  <2>2. QED
    BY <1>1, <1>5, <1>6, <1>7, <2>1 DEF FromOffset
<1>9. FirstSeq(f, p) = At(f, o)
  BY DEF FirstSeq, At, o
<1>10. QED
  BY <1>1, <1>5, <1>6, <1>8, <1>9 DEF o, n, d

\* Bytes from an offset of the flow, cut in two.
LEMMA FromOffsetPart ==
  ASSUME NEW f \in Flow, NEW o, NEW d, FromOffset(f, o, d), NEW at \in 1 .. Len(d)
  PROVE  /\ FromOffset(f, o, SubSeq(d, 1, at - 1))
         /\ FromOffset(f, o + (at - 1), SubSeq(d, at, Len(d)))
         /\ Len(SubSeq(d, at, Len(d))) >= 1 /\ SubSeq(d, at, Len(d))[1] = d[at]
         /\ SeqAdd(At(f, o), at - 1) = At(f, o + (at - 1))
         /\ o + (at - 1) \in 0 .. Len(Stream[f]) - 1
<1> DEFINE n == Len(d)
           L == Len(Stream[f])
           x == at - 1
           front == SubSeq(d, 1, x)
           back  == SubSeq(d, at, n)
<1>1. /\ d \in Seq(AnyByte) /\ n \in Nat /\ L \in Nat /\ o \in Nat /\ o + n <= L
      /\ at \in Nat /\ 1 <= at /\ at <= n /\ SeqSpace \in Nat /\ 2 * L < SeqSpace
      /\ \A k \in 1 .. n : d[k] \in {Garbage, Stream[f][o + k]}
  BY ConstTypes DEF FromOffset
<1>2. front \in Seq(AnyByte) /\ Len(front) = x /\ \A k \in 1 .. x : front[k] = d[k]
  <2>1. 1 \in 1 .. Len(d) + 1 /\ x \in 1 - 1 .. Len(d) /\ x - 1 + 1 = x
        /\ \A k \in 1 .. x : 1 + k - 1 = k
    BY <1>1
  <2> HIDE DEF x
  <2>2. /\ front \in Seq(AnyByte) /\ Len(front) = x - 1 + 1
        /\ \A k \in 1 .. x - 1 + 1 : front[k] = d[1 + k - 1]
    BY <1>1, <2>1, SubSeqFacts
  <2> HIDE DEF front
  <2>3. QED
    BY <2>1, <2>2
<1>3. /\ back \in Seq(AnyByte) /\ Len(back) = n - at + 1
      /\ \A k \in 1 .. n - at + 1 : back[k] = d[at + k - 1]
  <2>1. at \in 1 .. Len(d) + 1 /\ n \in at - 1 .. Len(d)
    BY <1>1
  <2>2. QED
    BY <1>1, <2>1, SubSeqFacts
<1> HIDE DEF n, L, x, front, back
<1>4. x \in Nat /\ x + 1 = at /\ o + x \in 0 .. L - 1 /\ o + x \in 0 .. L
      /\ (o + x) + (n - at + 1) <= L /\ o + x <= L /\ x <= n
  BY <1>1 DEF x
<1>5. FromOffset(f, o, front)
  <2>1. ASSUME NEW k \in 1 .. x
        PROVE  front[k] \in {Garbage, Stream[f][o + k]}
    <3>1. k \in 1 .. n
      BY <1>1, <1>4
    <3>2. QED
      BY <1>1, <1>2, <3>1
  <2>2. QED
    BY <1>1, <1>2, <1>4, <2>1 DEF FromOffset, L
<1>6. FromOffset(f, o + x, back)
  <2>1. ASSUME NEW k \in 1 .. n - at + 1
        PROVE  back[k] \in {Garbage, Stream[f][(o + x) + k]}
    <3>1. at + k - 1 \in 1 .. n /\ o + (at + k - 1) = (o + x) + k
      BY <1>1, <1>4
    <3>2. d[at + k - 1] \in {Garbage, Stream[f][o + (at + k - 1)]}
      BY <1>1, <3>1
    <3>3. QED
      BY <1>3, <3>1, <3>2
  <2>2. QED
    BY <1>3, <1>4, <2>1 DEF FromOffset, L
<1>7. Len(back) >= 1 /\ back[1] = d[at]
  <2>1. 1 \in 1 .. n - at + 1 /\ at + 1 - 1 = at /\ n - at + 1 >= 1
    BY <1>1
  <2>2. QED
    BY <1>3, <2>1
<1>8. SeqAdd(At(f, o), x) = At(f, o + x)
  <2>1. 2 * (o + x) < SeqSpace
    BY <1>1, <1>4
  <2>2. QED
    BY <1>1, <1>4, <2>1, AtLemma
<1>9. QED
  BY <1>4, <1>5, <1>6, <1>7, <1>8 DEF x, front, back, n, L

\* Where a header is found in a packet, the flow has the first byte of a chunk.
LEMMA ChunkIdLemma ==
  ASSUME NEW f \in Flow, NEW p \in Segments[f], NEW at \in ChunkIdAt(Payload(f, p)) \ {0}
  PROVE  LET d == Payload(f, p)
             r == d[at][1]
         IN  /\ at \in 1 .. Len(d) /\ r \in Chunk /\ d[at] = <<r, 1>>
             /\ Stream[f][(p[1] + (at - 1)) + 1] = <<r, 1>>
<1> DEFINE d     == Payload(f, p)
           heads == {i \in 1 .. Len(d) : d[i][2] = 1}
           first == Min(heads)
<1>1. /\ d \in Seq(Byte) /\ Len(d) = p[2] /\ p[2] \in Nat /\ p[1] \in Nat
      /\ \A k \in 1 .. p[2] : d[k] = Stream[f][p[1] + k]
  BY PayloadLemma
<1>2. heads # {} /\ at = first /\ d[first][1] \in Chunk
  BY DEF ChunkIdAt
<1> HIDE DEF d
<1>3. first \in heads
  <2>1. heads \in SUBSET Nat
    BY <1>1
  <2> HIDE DEF heads
  <2>2. QED
    BY <1>2, <2>1, MinLemma
<1>4. at \in 1 .. Len(d) /\ d[at][2] = 1 /\ d[at][1] \in Chunk
  BY <1>2, <1>3
<1> HIDE DEF heads, first
<1>5. d[at] \in AnyByte
  BY <1>1, <1>4 DEF AnyByte
<1>6. d[at] = <<d[at][1], 1>>
  BY <1>4, <1>5, ByteHeader
<1>7. (p[1] + (at - 1)) + 1 = p[1] + at /\ at \in 1 .. p[2]
  <2>1. at \in Int /\ p[1] \in Int
    BY <1>1, <1>4
  <2>2. QED
    BY <1>1, <1>4, <2>1
<1>8. QED
  BY <1>1, <1>4, <1>6, <1>7 DEF d

\* The handling of a header, from the packet that shows it.
LEMMA FromHeaderLemma ==
  ASSUME NEW f \in Flow, NEW p \in Segments[f], NEW at \in ChunkIdAt(Payload(f, p)) \ {0},
         NEW st, PartOK(f, st)
  PROVE  LET u == FromHeader(f, p, at, st)
             c == ChunkInfo(Payload(f, p)[at][1], SeqAdd(FirstSeq(f, p), at - 1))
         IN  PartOK(f, u) /\ KeepsStarts(st.map, u.map) /\ InfoOK(f, u.map, c)
<1> DEFINE d   == Payload(f, p)
           r   == d[at][1]
           o   == p[1] + (at - 1)
           e   == SubSeq(d, at, Len(d))
           seq == SeqAdd(FirstSeq(f, p), at - 1)
           u   == FromHeader(f, p, at, st)
           c   == ChunkInfo(r, seq)
<1>1. /\ at \in 1 .. Len(d) /\ r \in Chunk /\ d[at] = <<r, 1>> /\ Stream[f][o + 1] = <<r, 1>>
  BY ChunkIdLemma
<1>2. FirstSeq(f, p) = At(f, p[1]) /\ FromOffset(f, p[1], d)
  BY PayloadLemma
<1>3. u = ChunkHeader(st, f, r, seq, e)
  BY DEF FromHeader
<1> HIDE DEF d, r, u
<1>4. /\ FromOffset(f, o, e) /\ Len(e) >= 1 /\ e[1] = <<r, 1>> /\ seq = At(f, o)
      /\ o \in 0 .. Len(Stream[f]) - 1
  <2> DEFINE b == p[1]
  <2>1. FromOffset(f, b, d) /\ FirstSeq(f, p) = At(f, b) /\ at \in 1 .. Len(d) /\ d[at] = <<r, 1>>
    BY <1>1, <1>2
  <2> HIDE DEF b, o, e, seq
  <2>2. /\ FromOffset(f, b + (at - 1), SubSeq(d, at, Len(d)))
        /\ Len(SubSeq(d, at, Len(d))) >= 1 /\ SubSeq(d, at, Len(d))[1] = d[at]
        /\ SeqAdd(At(f, b), at - 1) = At(f, b + (at - 1))
        /\ b + (at - 1) \in 0 .. Len(Stream[f]) - 1
    BY <2>1, FromOffsetPart
  <2>3. o = b + (at - 1) /\ e = SubSeq(d, at, Len(d)) /\ seq = SeqAdd(At(f, b), at - 1)
    BY <2>1 DEF o, e, seq, b
  <2>4. QED
    BY <2>1, <2>2, <2>3
<1> HIDE DEF o, e, seq
<1>5. /\ PartOK(f, u) /\ KeepsStarts(st.map, u.map)
      /\ Known(u.map, r) /\ u.map[r].flow_seq_map[f] # -1
  BY <1>1, <1>3, <1>4, ChunkHeaderLemma
<1>6. HeaderAt(f, r, seq) /\ seq \in SeqNum
  <2>1. HeaderAt(f, r, seq)
    BY <1>1, <1>4 DEF HeaderAt
  <2>2. o \in Nat /\ 2 * (o + 0) < SeqSpace
    <3>1. Len(Stream[f]) \in Nat /\ SeqSpace \in Nat /\ 2 * Len(Stream[f]) < SeqSpace
      BY ConstTypes
    <3>2. QED
      BY <1>4, <3>1
  <2>3. QED
    BY <1>4, <2>1, <2>2, AtLemma
<1>7. RecLen[r] \in Nat
  BY <1>1, ConstTypes
<1>8. InfoOK(f, u.map, c)
  BY <1>1, <1>5, <1>6, <1>7 DEF InfoOK, ChunkInfo
<1>9. QED
  BY <1>5, <1>8 DEF u, seq, r, d

\* The infos of every flow stay as they should be when the map keeps the starts.
LEMMA InfosKept ==
  ASSUME SniffInv, NEW map, KeepsStarts(chunk_map, map)
  PROVE  /\ flow_chunk_map \in [Flow -> Seq([chunk_id : Chunk, s_seq_num : SeqNum, chunk_length : Nat])]
         /\ \A g \in Flow : \A i \in 1 .. Len(flow_chunk_map[g]) : InfoOK(g, map, flow_chunk_map[g][i])
<1>1. ASSUME NEW g \in Flow, NEW i \in 1 .. Len(flow_chunk_map[g])
      PROVE  InfoOK(g, map, flow_chunk_map[g][i])
  <2>1. InfoOK(g, chunk_map, flow_chunk_map[g][i])
    BY DEF SniffInv
  <2>2. QED
    BY <2>1, InfoKept
<1>2. QED
  BY <1>1 DEF SniffInv

\* The starts are kept by what leaves them alone.
LEMMA SameKeeps ==
  ASSUME NEW m, NEW n, NEW o, SameStarts(m, n), KeepsStarts(n, o)
  PROVE  KeepsStarts(m, o)
  BY DEF SameStarts, KeepsStarts

LEMMA SameKeepsAll ==
  ASSUME NEW m, NEW n, SameStarts(m, n)
  PROVE  KeepsStarts(m, n)
  BY DEF SameStarts, KeepsStarts

\* A packet when only one chance is given.
LEMMA PacketKeptStep ==
  ASSUME SniffInv, NEW f \in Flow, NEW p \in Segments[f],
         p \in captured[f] => repeats < MaxRepeats, PacketKept(f, p)
  PROVE  SniffInv'
<1> DEFINE u == [Part(f) EXCEPT !.list = Insert(@, FirstSeq(f, p), Payload(f, p))]
<1>1. PartOK(f, Part(f)) /\ Part(f).map = chunk_map
  BY InvPart
<1>2. FirstSeq(f, p) = At(f, p[1]) /\ FromOffset(f, p[1], Payload(f, p))
  BY PayloadLemma
<1>3. PartOK(f, u) /\ u.map = chunk_map
  BY <1>1, <1>2, KeepLemma
<1>4. Finish(f, p, u) /\ flow_chunk_map' = flow_chunk_map
  BY DEF PacketKept
<1> HIDE DEF u
<1>5. KeepsStarts(chunk_map, u.map)
  BY <1>3 DEF KeepsStarts
<1>6. QED
  BY <1>3, <1>4, <1>5, InfosKept, FinishLemma

\* A packet without a header.
LEMMA PacketWithoutIdStep ==
  ASSUME SniffInv, NEW f \in Flow, NEW p \in Segments[f],
         p \in captured[f] => repeats < MaxRepeats, PacketWithoutId(f, p)
  PROVE  SniffInv'
<1> DEFINE u == DealWithPkt(Part(f), f, FirstSeq(f, p), Payload(f, p))
<1>1. PartOK(f, Part(f)) /\ Part(f).map = chunk_map /\ InfosOK(f, Part(f).map)
  BY InvPart
<1>2. FirstSeq(f, p) = At(f, p[1]) /\ FromOffset(f, p[1], Payload(f, p))
  BY PayloadLemma
<1>3. PartOK(f, u) /\ SameStarts(chunk_map, u.map)
  BY <1>1, <1>2, DealWithPktLemma
<1>4. Finish(f, p, u) /\ flow_chunk_map' = flow_chunk_map
  BY DEF PacketWithoutId
<1> HIDE DEF u
<1>5. KeepsStarts(chunk_map, u.map)
  BY <1>3, SameKeepsAll
<1>6. QED
  BY <1>3, <1>4, <1>5, InfosKept, FinishLemma

\* A header on a flow, after what came before it in its packet was dealt with.
LEMMA HeaderStep ==
  ASSUME SniffInv, NEW f \in Flow, NEW p \in Segments[f],
         p \in captured[f] => repeats < MaxRepeats,
         NEW at \in ChunkIdAt(Payload(f, p)) \ {0},
         NEW front, PartOK(f, front), SameStarts(chunk_map, front.map),
         Finish(f, p, FromHeader(f, p, at, front)),
         LET c == ChunkInfo(Payload(f, p)[at][1], SeqAdd(FirstSeq(f, p), at - 1))
         IN  \/ flow_chunk_map' = flow_chunk_map
             \/ flow_chunk_map' = [flow_chunk_map EXCEPT ![f] = <<c>>]
             \/ flow_chunk_map' = [flow_chunk_map EXCEPT ![f] = Append(@, c)]
  PROVE  SniffInv'
<1> DEFINE c    == ChunkInfo(Payload(f, p)[at][1], SeqAdd(FirstSeq(f, p), at - 1))
           u    == FromHeader(f, p, at, front)
           Info == [chunk_id : Chunk, s_seq_num : SeqNum, chunk_length : Nat]
           old  == flow_chunk_map
           new  == flow_chunk_map'
<1>1. PartOK(f, u) /\ KeepsStarts(front.map, u.map) /\ InfoOK(f, u.map, c)
  BY FromHeaderLemma
<1>2. /\ old \in [Flow -> Seq(Info)]
      /\ \A g \in Flow : \A i \in 1 .. Len(old[g]) : InfoOK(g, u.map, old[g][i])
  <2>1. KeepsStarts(chunk_map, u.map)
    BY <1>1, SameKeeps
  <2>2. QED
    BY <2>1, InfosKept
<1>3. c \in Info
  BY <1>1 DEF InfoOK
<1>4. new = old \/ new = [old EXCEPT ![f] = <<c>>] \/ new = [old EXCEPT ![f] = Append(@, c)]
  OBVIOUS
<1>5. Finish(f, p, u)
  OBVIOUS
<1> HIDE DEF c, u, old, Info, new
<1>6. new \in [Flow -> Seq(Info)]
  <2>1. <<c>> \in Seq(Info) /\ Append(old[f], c) \in Seq(Info)
    BY <1>2, <1>3
  <2>2. \A s \in Seq(Info) : [old EXCEPT ![f] = s] \in [Flow -> Seq(Info)]
    BY <1>2
  <2>3. QED
    BY <1>2, <1>4, <2>1, <2>2
<1>7. ASSUME NEW g \in Flow, NEW i \in 1 .. Len(new[g])
      PROVE  InfoOK(g, u.map, new[g][i])
  <2>1. CASE g # f \/ new = old
    <3>1. new[g] = old[g]
      BY <1>2, <1>4, <2>1
    <3>2. QED
      BY <1>2, <3>1
  <2>2. CASE g = f /\ new = [old EXCEPT ![f] = <<c>>]
    <3>1. new[g] = <<c>>
      BY <1>2, <2>2
    <3>2. new[g][i] = c
      BY <3>1
    <3>3. QED
      BY <1>1, <2>2, <3>2
  <2>3. CASE g = f /\ new = [old EXCEPT ![f] = Append(@, c)]
    <3> DEFINE s == old[f]
    <3>1. new[g] = Append(s, c) /\ s \in Seq(Info)
      BY <1>2, <2>3
    <3> HIDE DEF s
    <3>a. Len(s) \in Nat /\ Len(Append(s, c)) = Len(s) + 1
          /\ Append(s, c)[Len(s) + 1] = c /\ \A k \in 1 .. Len(s) : Append(s, c)[k] = s[k]
      BY <1>3, <3>1
    <3>2. new[g][i] = c \/ (i \in 1 .. Len(s) /\ new[g][i] = s[i])
      BY <3>1, <3>a
    <3>3. QED
      BY <1>1, <1>2, <2>3, <3>2 DEF s
  <2>4. QED
    BY <1>4, <2>1, <2>2, <2>3
<1>8. QED
  BY <1>1, <1>5, <1>6, <1>7, FinishLemma DEF new, Info

\* A header on a flow that showed none before.
LEMMA NewFlowHeaderStep ==
  ASSUME SniffInv, NEW f \in Flow, NEW p \in Segments[f],
         p \in captured[f] => repeats < MaxRepeats, NewFlowHeader(f, p)
  PROVE  SniffInv'
<1> DEFINE d        == Payload(f, p)
           front(at) == IF at = 1 THEN Part(f)
                        ELSE [Part(f) EXCEPT !.list = Insert(@, FirstSeq(f, p), SubSeq(d, 1, at - 1))]
           c(at)     == ChunkInfo(d[at][1], SeqAdd(FirstSeq(f, p), at - 1))
<1>1. PICK at \in ChunkIdAt(d) \ {0} :
        /\ Finish(f, p, FromHeader(f, p, at, front(at)))
        /\ flow_chunk_map' = [flow_chunk_map EXCEPT ![f] = <<c(at)>>]
  BY DEF NewFlowHeader
<1>2. PartOK(f, Part(f)) /\ Part(f).map = chunk_map
  BY InvPart
<1>3. FirstSeq(f, p) = At(f, p[1]) /\ FromOffset(f, p[1], d)
  BY PayloadLemma
<1>4. at \in 1 .. Len(d)
  BY ChunkIdLemma
<1>5. PartOK(f, front(at)) /\ front(at).map = chunk_map
  <2>1. CASE at = 1
    BY <1>2, <2>1
  <2>2. CASE at # 1
    <3> DEFINE e == SubSeq(d, 1, at - 1)
    <3>1. FromOffset(f, p[1], e)
      <4> HIDE DEF d
      <4>1. QED
        BY <1>3, <1>4, FromOffsetPart
    <3>2. front(at) = [Part(f) EXCEPT !.list = Insert(@, At(f, p[1]), e)]
      BY <1>3, <2>2
    <3> HIDE DEF e
    <3>3. PartOK(f, [Part(f) EXCEPT !.list = Insert(@, At(f, p[1]), e)])
          /\ [Part(f) EXCEPT !.list = Insert(@, At(f, p[1]), e)].map = chunk_map
      BY <1>2, <3>1, KeepLemma
    <3>4. QED
      BY <3>2, <3>3
  <2>3. QED
    BY <2>1, <2>2
<1>6. SameStarts(chunk_map, front(at).map)
  BY <1>5 DEF SameStarts
<1> HIDE DEF front
<1>7. QED
  BY <1>1, <1>5, <1>6, HeaderStep

\* A header on a flow that showed one before.
LEMMA OldFlowHeaderStep ==
  ASSUME SniffInv, NEW f \in Flow, NEW p \in Segments[f],
         p \in captured[f] => repeats < MaxRepeats, OldFlowHeader(f, p)
  PROVE  SniffInv'
<1> DEFINE d        == Payload(f, p)
           front(at) == IF at = 1 THEN Part(f)
                        ELSE DealWithPkt(Part(f), f, FirstSeq(f, p), SubSeq(d, 1, at - 1))
           c(at)     == ChunkInfo(d[at][1], SeqAdd(FirstSeq(f, p), at - 1))
<1>1. PICK at \in ChunkIdAt(d) \ {0} :
        /\ Finish(f, p, FromHeader(f, p, at, front(at)))
        /\ \/ flow_chunk_map' = flow_chunk_map
           \/ flow_chunk_map' = [flow_chunk_map EXCEPT ![f] = Append(@, c(at))]
  BY DEF OldFlowHeader
<1>2. PartOK(f, Part(f)) /\ Part(f).map = chunk_map /\ InfosOK(f, Part(f).map)
  BY InvPart
<1>3. FirstSeq(f, p) = At(f, p[1]) /\ FromOffset(f, p[1], d)
  BY PayloadLemma
<1>4. at \in 1 .. Len(d)
  BY ChunkIdLemma
<1>5. PartOK(f, front(at)) /\ SameStarts(chunk_map, front(at).map)
  <2>1. CASE at = 1
    BY <1>2, <2>1 DEF SameStarts
  <2>2. CASE at # 1
    <3> DEFINE e == SubSeq(d, 1, at - 1)
    <3>1. FromOffset(f, p[1], e)
      <4> HIDE DEF d
      <4>1. QED
        BY <1>3, <1>4, FromOffsetPart
    <3>2. front(at) = DealWithPkt(Part(f), f, At(f, p[1]), e)
      BY <1>3, <2>2
    <3> HIDE DEF e
    <3>3. QED
      BY <1>2, <3>1, <3>2, DealWithPktLemma
  <2>3. QED
    BY <2>1, <2>2
<1> HIDE DEF front
<1>6. QED
  BY <1>1, <1>5, HeaderStep

\* The search of a flow changes only the flow's blocks and what was handed over.
LEMMA GrepFlowsStep ==
  ASSUME SniffInv, NEW f \in Flow, GrepFlows(f)
  PROVE  SniffInv'
<1> DEFINE g == GrepFlow(p_flow_list[f], sent)
<1>1. PartOK(f, Part(f)) /\ Part(f).list = p_flow_list[f] /\ sent \in Seq(Responses)
  BY InvPart
<1>2. p_flow_list[f] \in Seq(FlowBlocks(f))
  BY <1>1, PartFields DEF PartOK
<1>3. g.list \in Seq(FlowBlocks(f)) /\ g.sent \in Seq(Responses)
  BY <1>1, <1>2, GrepFlowLemma DEF Greps
<1>4. /\ p_flow_list' = [p_flow_list EXCEPT ![f] = g.list] /\ sent' = g.sent
      /\ UNCHANGED <<g_multi_chances, flow_chunk_map, chunk_map, captured, repeats, defined>>
  BY DEF GrepFlows
<1> HIDE DEF g
<1>5. /\ p_flow_list' \in [Flow -> Seq(Block)]
      /\ \A h \in Flow : p_flow_list'[h] \in Seq(FlowBlocks(h))
  <2>1. g.list \in Seq(Block)
    <3>1. FlowBlocks(f) \subseteq Block
      BY DEF FlowBlocks
    <3> DEFINE list == g.list
    <3>2. list \in Seq(FlowBlocks(f))
      BY <1>3
    <3> HIDE DEF list
    <3>3. list \in Seq(Block)
      BY <3>1, <3>2
    <3>4. QED
      BY <3>3 DEF list
  <2>2. \A h \in Flow : p_flow_list[h] \in Seq(FlowBlocks(h))
    <3> SUFFICES ASSUME NEW h \in Flow PROVE p_flow_list[h] \in Seq(FlowBlocks(h))
      OBVIOUS
    <3>1. Part(h) \in Parts(h) /\ Part(h).list = p_flow_list[h]
      BY InvPart DEF PartOK
    <3>2. QED
      BY <3>1, PartFields
  <2>3. p_flow_list \in [Flow -> Seq(Block)]
    BY DEF SniffInv
  <2>4. QED
    BY <1>3, <1>4, <2>1, <2>2, <2>3
<1>6. ASSUME NEW h \in Flow
      PROVE  PartOK(h, Part(h)')
  <2> DEFINE u == [list |-> p_flow_list'[h], map |-> chunk_map, sent |-> g.sent, defined |-> defined]
  <2>1. Part(h)' = u
    BY <1>4 DEF Part
  <2>2. chunk_map \in Maps /\ defined \in BOOLEAN
        /\ (defined => \A r \in Chunk : Headed(chunk_map, r))
    BY InvPart DEF PartOK
  <2>3. u \in Parts(h) /\ u.map = chunk_map /\ u.defined = defined
    BY <1>3, <1>5, <2>2 DEF Parts
  <2> HIDE DEF u
  <2>4. PartOK(h, u)
    BY <2>2, <2>3 DEF PartOK
  <2>5. QED
    BY <2>1, <2>4
<1>7. QED
  BY <1>3, <1>4, <1>5, <1>6 DEF SniffInv

\* The invariant holds at the start.
LEMMA SniffInit ==
  ASSUME Init PROVE SniffInv
<1>1. ASSUME NEW f \in Flow
      PROVE  PartOK(f, Part(f))
  <2>1. Part(f) = [list |-> <<>>, map |-> [r \in Chunk |-> NoChunk], sent |-> <<>>, defined |-> TRUE]
    BY DEF Init, Part
  <2>2. [r \in Chunk |-> NoChunk] \in Maps
    BY DEF Maps
  <2>3. Part(f) \in Parts(f) /\ Part(f).map = [r \in Chunk |-> NoChunk]
    BY <2>1, <2>2 DEF Parts
  <2>4. QED
    BY <2>3 DEF PartOK, Headed, Known
<1>2. flow_chunk_map \in [Flow -> Seq([chunk_id : Chunk, s_seq_num : SeqNum, chunk_length : Nat])]
      /\ \A f \in Flow : Len(flow_chunk_map[f]) = 0
  BY DEF Init
<1>3. repeats \in 0 .. MaxRepeats
  BY SniffAssumption DEF Init
<1>4. /\ g_multi_chances \in BOOLEAN /\ p_flow_list \in [Flow -> Seq(Block)]
      /\ DOMAIN captured = Flow /\ \A f \in Flow : captured[f] \subseteq Segments[f]
  BY DEF Init
<1>5. /\ chunk_map \in Maps /\ sent \in Seq(Responses) /\ defined \in BOOLEAN
      /\ \A r \in Chunk : ~ Known(chunk_map, r)
  <2>1. chunk_map = [r \in Chunk |-> NoChunk] /\ sent = <<>> /\ defined = TRUE
    BY DEF Init
  <2>2. chunk_map \in Maps /\ \A r \in Chunk : ~ Known(chunk_map, r)
    BY <2>1 DEF Maps, Known
  <2>3. QED
    BY <2>1, <2>2
<1>6. QED
  BY <1>1, <1>2, <1>3, <1>4, <1>5 DEF SniffInv

\* Every step keeps the invariant.
LEMMA SniffNext ==
  ASSUME SniffInv, [Next]_vars PROVE SniffInv'
<1>1. CASE UNCHANGED vars
  <2>1. \A f \in Flow : Part(f)' = Part(f)
    BY <1>1 DEF vars, Part
  <2>2. \A f \in Flow : PartOK(f, Part(f)')
    BY <2>1 DEF SniffInv
  <2>3. QED
    BY <1>1, <2>2 DEF vars, SniffInv
<1>2. ASSUME NEW f \in Flow, GrepFlows(f)
      PROVE  SniffInv'
  BY <1>2, GrepFlowsStep
<1>3. ASSUME NEW f \in Flow, NEW p \in Segments[f], Capture(f, p)
      PROVE  SniffInv'
  <2>1. p \in captured[f] => repeats < MaxRepeats
    BY <1>3 DEF Capture
  <2>2. PacketKept(f, p) \/ PacketWithoutId(f, p) \/ NewFlowHeader(f, p) \/ OldFlowHeader(f, p)
    BY <1>3 DEF Capture
  <2>3. QED
    BY <2>1, <2>2, PacketKeptStep, PacketWithoutIdStep, NewFlowHeaderStep, OldFlowHeaderStep
<1>4. QED
  BY <1>1, <1>2, <1>3 DEF Next

-----------------------------------------------------------------------------
(* The theorems *)

\* The invariant holds in every behaviour.
THEOREM SniffInvariant == Spec => []SniffInv
<1>1. Init => SniffInv
  BY SniffInit
<1>2. SniffInv /\ [Next]_vars => SniffInv'
  BY SniffNext
<1>3. QED
  BY <1>1, <1>2, PTL DEF Spec

\* Whatever is handed to the sniffer plugin is a whole chunk response with every byte in
\* its place, for any flows, packets, order and repetition of captures.
THEOREM SentGenuineHolds == Spec => []SentGenuine
<1>1. SniffInv => SentGenuine
  <2> SUFFICES ASSUME SniffInv, NEW i \in 1 .. Len(sent)
               PROVE  \E r \in Chunk : /\ Len(sent[i]) = RecLen[r]
                                       /\ \A k \in 1 .. RecLen[r] : sent[i][k] \in {<<r, k>>, Garbage}
    BY DEF SentGenuine
  <2>1. sent[i] \in Responses
    BY DEF SniffInv
  <2>2. QED
    BY <2>1 DEF Responses
<1>2. QED
  BY <1>1, SniffInvariant, PTL

\* The blocks of flows and chunks hold the bytes that belong to their numbers.
THEOREM BytesInPlaceHolds == Spec => []BytesInPlace
<1>1. ASSUME SniffInv, NEW f \in Flow, NEW i \in 1 .. Len(p_flow_list[f])
      PROVE  LET cb == p_flow_list[f][i] IN
             \A k \in 1 .. Len(cb.data) :
               cb.data[k] \in {Garbage, Stream[f][SeqSub(cb.start, StartSeq[f]) + k]}
  <2> DEFINE cb == p_flow_list[f][i]
  <2>1. cb \in FlowBlocks(f)
    <3>1. Part(f) \in Parts(f) /\ Part(f).list = p_flow_list[f]
      BY <1>1, InvPart DEF PartOK
    <3>2. p_flow_list[f] \in Seq(FlowBlocks(f))
      BY <3>1, PartFields
    <3>3. QED
      BY <1>1, <3>2
  <2> HIDE DEF cb
  <2>2. OfFlow(f, cb.start, cb.data)
    BY <2>1, FlowBlockFields
  <2>3. PICK p \in 0 .. Len(Stream[f]) :
          /\ cb.start = At(f, p)
          /\ \A k \in 1 .. Len(cb.data) : cb.data[k] \in {Garbage, Stream[f][p + k]}
    BY <2>2 DEF OfFlow
  <2>4. SeqSub(cb.start, StartSeq[f]) = p
    <3>1. p \in Nat /\ 2 * p < SeqSpace
      <4>1. Len(Stream[f]) \in Nat /\ SeqSpace \in Nat /\ 2 * Len(Stream[f]) < SeqSpace
        BY ConstTypes
      <4>2. QED
        BY <2>3, <4>1
    <3>2. QED
      BY <2>3, <3>1, AtInjective
  <2>5. QED
    BY <2>3, <2>4 DEF cb
<1>2. ASSUME SniffInv, NEW r \in Chunk, NEW i \in 1 .. Len(chunk_map[r].lcb)
      PROVE  LET cb == chunk_map[r].lcb[i] IN
             cb.start < RecLen[r] =>
               \A k \in 1 .. Len(cb.data) : cb.data[k] \in {Garbage, <<r, cb.start + k>>}
  <2>1. Known(chunk_map, r)
    <3> SUFFICES ASSUME ~ Known(chunk_map, r) PROVE FALSE
      OBVIOUS
    <3>1. chunk_map[r].lcb = <<>>
      BY DEF Known, NoChunk
    <3>2. QED
      BY <1>2, <3>1
  <2>2. chunk_map[r].lcb \in Seq(ChunkBlocks(r))
    BY <1>2, <2>1, KnownEntry DEF SniffInv
  <2> DEFINE cb == chunk_map[r].lcb[i]
  <2>3. cb \in ChunkBlocks(r)
    BY <1>2, <2>2
  <2> HIDE DEF cb
  <2>4. OfChunk(r, cb.start, cb.data) /\ cb.start \in Nat /\ RecLen[r] \in Nat
    BY <2>3, ChunkBlockFields, RecordAssumption
  <2>5. cb.start < RecLen[r] =>
          \A k \in 1 .. Len(cb.data) : cb.data[k] \in {Garbage, <<r, cb.start + k>>}
    BY <2>4 DEF OfChunk
  <2>6. QED
    BY <2>5 DEF cb
<1>3. SniffInv => BytesInPlace
  BY <1>1, <1>2 DEF BytesInPlace
<1>4. QED
  BY <1>3, SniffInvariant, PTL

\* A block of a chunk ends inside the chunk, so that its numbers are those of a tcp_seq.
LEMMA ChunkBlockNumbers ==
  ASSUME NEW f \in Flow, NEW r \in Chunk, NEW b \in ChunkBlocks(r), OncePerFlow
  PROVE  b \in [start : SeqNum, next : SeqNum, data : Seq(AnyByte)]
<1>1. /\ OfChunk(r, b.start, b.data) /\ b.next = b.start + Len(b.data) /\ b.start \in Nat
      /\ b.next \in Nat /\ b.data \in Seq(AnyByte) /\ Len(b.data) \in Nat
  BY ChunkBlockFields
<1>2. /\ RecLen[r] \in Nat /\ Len(Stream[f]) \in Nat /\ SeqSpace \in Nat
      /\ 2 * (Len(Stream[f]) + RecLen[r]) < SeqSpace
  BY ConstTypes
<1>3. b.start + Len(b.data) <= RecLen[r]
  BY <1>1 DEF OfChunk
<1>4. b.start \in SeqNum /\ b.next \in SeqNum
  <2> DEFINE a == b.start
             n == b.next
             l == Len(b.data)
  <2>1. a \in Nat /\ n \in Nat /\ l \in Nat /\ n = a + l /\ a + l <= RecLen[r]
    BY <1>1, <1>3
  <2> HIDE DEF a, n, l
  <2>2. a \in 0 .. SeqSpace - 1 /\ n \in 0 .. SeqSpace - 1
    BY <1>2, <2>1
  <2>3. QED
    BY <2>2 DEF SeqNum, a, n
<1>5. b \in ChunkBlock
  BY DEF ChunkBlocks
<1>6. QED
  BY <1>1, <1>4, <1>5 DEF ChunkBlock

\* The types, and with them the claim that no offset in a chunk leaves the numbers of a
\* tcp_seq, when no flow carries a chunk response twice.  (A flow that does leaves blocks
\* whose offsets are differences below zero, and those may wrap.)
THEOREM TypesHold == ASSUME OncePerFlow PROVE Spec => []TypeOK
<1>1. ASSUME SniffInv, NEW r \in Chunk, Known(chunk_map, r)
      PROVE  /\ chunk_map[r].flow_seq_map \in [Flow -> SeqNum \cup {-1}]
             /\ chunk_map[r].lcb \in Seq([start : SeqNum, next : SeqNum, data : Seq(AnyByte)])
  <2>1. chunk_map[r].flow_seq_map \in Starts(r) /\ chunk_map[r].lcb \in Seq(ChunkBlocks(r))
    BY <1>1, KnownEntry DEF SniffInv
  <2>2. PICK f \in Flow : TRUE
    BY <1>1 DEF SniffInv
  <2> DEFINE lcb == chunk_map[r].lcb
             T   == [start : SeqNum, next : SeqNum, data : Seq(AnyByte)]
  <2>3. ChunkBlocks(r) \subseteq T
    BY <2>2, ChunkBlockNumbers
  <2>4. lcb \in Seq(ChunkBlocks(r))
    BY <2>1
  <2> HIDE DEF lcb, T
  <2>5. lcb \in Seq(T)
    BY <2>3, <2>4
  <2>6. chunk_map[r].flow_seq_map \in [Flow -> SeqNum \cup {-1}]
    BY <2>1 DEF Starts
  <2>7. QED
    BY <2>5, <2>6 DEF lcb, T
<1>2. SniffInv => sent \in Seq(Seq(AnyByte))
  <2> SUFFICES ASSUME SniffInv PROVE sent \in Seq(Seq(AnyByte))
    OBVIOUS
  <2>1. sent \in Seq(Responses) /\ Responses \subseteq Seq(AnyByte)
    BY DEF SniffInv, Responses
  <2>2. QED
    BY <2>1
<1>3. ASSUME SniffInv
      PROVE  /\ p_flow_list \in [Flow -> Seq(Block)]
             /\ \A f \in Flow : flow_chunk_map[f] \in
                  Seq([chunk_id : Chunk, s_seq_num : SeqNum, chunk_length : Nat])
             /\ DOMAIN chunk_map = Chunk
             /\ \A f \in Flow : captured[f] \subseteq Segments[f]
             /\ repeats \in 0 .. MaxRepeats /\ defined \in BOOLEAN
  BY <1>3 DEF SniffInv, Maps
<1>4. SniffInv => TypeOK
  BY <1>1, <1>2, <1>3 DEF TypeOK
<1>5. QED
  BY <1>4, SniffInvariant, PTL

=============================================================================
