----------------------- MODULE ReconstructedChunkProofs -----------------------
(***************************************************************************)
(* Proofs about ReconstructedChunk, for every chunk, every set of flows,   *)
(* every starting sequence number and every order of packets.              *)
(***************************************************************************)
EXTENDS ReconstructedChunk, SequenceTheorems, SumTheorems

-----------------------------------------------------------------------------
\* The length of the chunk is a number, and so are the ends of its blocks.
LEMMA LengthType == Length \in Nat /\ Length > 0 /\ Len(Content) = Length
  BY ContentAssumption DEF Length

\* The ends of the blocks of a list, and the lengths of their data, are integers.
LEMMA BlockType ==
  ASSUME NEW b \in Block
  PROVE  b.start \in Int /\ b.next \in Int /\ b.start >= 0 /\ b.next <= Length
  BY LengthType DEF Block

-----------------------------------------------------------------------------
(* The loops of fill_gaps_in_chunk stop at a definite place.               *)

\* A set of naturals that is not empty has a least element.
LEMMA LeastNat ==
  ASSUME NEW T, T \subseteq Nat, T # {}
  PROVE  \E x \in T : \A y \in T : x <= y
<1> DEFINE R == OpToRel(<, Nat)
<1>1. IsWellFoundedOn(R, Nat)
  BY NatLessThanWellFounded
<1>2. \A x, y \in Nat : <<y, x>> \in R <=> y < x
  BY DEF OpToRel
<1> HIDE DEF R
<1>3. PICK x \in T : \A y \in T : ~ (<<y, x>> \in R)
  BY <1>1, WFMin
<1>4. ASSUME NEW y \in T
      PROVE  x <= y
  <2>1. x \in Nat /\ y \in Nat
    OBVIOUS
  <2>2. ~ (y < x)
    BY <1>2, <1>3, <2>1, Zenon
  <2>3. QED
    BY <2>1, <2>2
<1>5. QED
  BY <1>4

\* The outer loop: StopAt is in range, the block there stops the loop and no
\* earlier one does.
LEMMA StopAtLemma ==
  ASSUME NEW s \in Seq(Block), NEW norm \in Int
  PROVE  LET i == StopAt(s, norm) IN
         /\ i \in 1 .. Len(s) + 1
         /\ i <= Len(s) => Stops(s[i], norm)
         /\ \A k \in 1 .. i - 1 : ~ Stops(s[k], norm)
<1> DEFINE T == {i \in 1 .. Len(s) + 1 : i <= Len(s) => Stops(s[i], norm)}
<1>1. Len(s) \in Nat
  OBVIOUS
<1>2. T \subseteq Nat /\ Len(s) + 1 \in T
  BY <1>1
<1>3. PICK i \in T : \A y \in T : i <= y
  BY <1>2, LeastNat
<1>4. \A k \in 1 .. i - 1 : ~ Stops(s[k], norm)
  BY <1>1, <1>3
<1>5. i \in 1 .. Len(s) + 1 /\ (i <= Len(s) => Stops(s[i], norm))
  OBVIOUS
<1> HIDE DEF T
<1>6. QED
  BY <1>4, <1>5, Zenon DEF StopAt

\* The inner loop: MergeHalt is in range, everything before it is covered by
\* the grown block and the block there is not.
LEMMA MergeHaltLemma ==
  ASSUME NEW s \in Seq(Block), NEW i \in 1 .. Len(s), NEW end \in Int
  PROVE  LET j == MergeHalt(s, i, end) IN
         /\ j \in i + 1 .. Len(s) + 1
         /\ j <= Len(s) => (s[j].start > end \/ s[j].next > end)
         /\ \A k \in i + 1 .. j - 1 : s[k].start <= end /\ s[k].next <= end
<1> DEFINE T == {j \in i + 1 .. Len(s) + 1 :
                    j <= Len(s) => (s[j].start > end \/ s[j].next > end)}
<1>1. Len(s) \in Nat
  OBVIOUS
<1>2. T \subseteq Nat /\ Len(s) + 1 \in T
  BY <1>1
<1>3. PICK j \in T : \A y \in T : j <= y
  BY <1>2, LeastNat
<1>4. ASSUME NEW k \in i + 1 .. j - 1
      PROVE  s[k].start <= end /\ s[k].next <= end
  <2>1. k \in 1 .. Len(s) /\ k \in i + 1 .. Len(s) + 1 /\ k < j
    BY <1>1
  <2>2. s[k].start \in Int /\ s[k].next \in Int
    BY <2>1, BlockType
  <2>3. ~ (s[k].start > end \/ s[k].next > end)
    BY <1>3, <2>1
  <2>4. QED
    BY <2>2, <2>3
<1>5. j \in i + 1 .. Len(s) + 1 /\ (j <= Len(s) => (s[j].start > end \/ s[j].next > end))
  OBVIOUS
<1> HIDE DEF T
<1>6. QED
  BY <1>4, <1>5, Zenon DEF MergeHalt

-----------------------------------------------------------------------------
(* Blocks and lists that are in order.                                     *)

\* d is the chunk's bytes from offset a up to, not including, offset e.
Slice(d, a, e) ==
  /\ a \in 0 .. Length /\ e \in 0 .. Length /\ a < e
  /\ d \in Seq(Byte)
  /\ Len(d) = e - a
  /\ \A k \in 1 .. e - a : d[k] = Content[a + k]

GoodBlock(b) == b \in Block /\ Slice(b.data, b.start, b.next)

Apart(s) == \A i, j \in 1 .. Len(s) : i < j => s[i].next < s[j].start

GoodList(s) ==
  /\ s \in Seq(Block)
  /\ \A i \in 1 .. Len(s) : GoodBlock(s[i])
  /\ Apart(s)

\* Replacing i..j by one block keeps a list in order when the block lies
\* strictly between its new neighbours.
LEMMA SpliceLemma ==
  ASSUME NEW s, GoodList(s),
         NEW i \in 1 .. Len(s) + 1, NEW j \in i - 1 .. Len(s),
         NEW b, GoodBlock(b),
         \A k \in 1 .. i - 1 : s[k].next < b.start,
         \A k \in j + 1 .. Len(s) : b.next < s[k].start
  PROVE  LET t == Splice(s, i, j, b) IN
         /\ GoodList(t)
         /\ Len(t) = Len(s) - (j - i)
         /\ \A k \in 1 .. Len(t) :
              t[k] = IF k < i THEN s[k] ELSE IF k = i THEN b ELSE s[k + (j - i)]
<1> DEFINE n == Len(s) - (j - i)
           t == Splice(s, i, j, b)
           e(k) == IF k < i THEN s[k] ELSE IF k = i THEN b ELSE s[k + (j - i)]
<1>1. Len(s) \in Nat /\ n \in Nat /\ i \in Int /\ j \in Int /\ s \in Seq(Block) /\ b \in Block
  BY DEF GoodList, GoodBlock
<1>2. t = [k \in 1 .. n |-> e(k)]
  BY DEF Splice
<1>a. \A k \in 1 .. Len(s) : GoodBlock(s[k]) /\ s[k] \in Block
  BY <1>1 DEF GoodList
<1>3. ASSUME NEW k \in 1 .. n
      PROVE  GoodBlock(e(k)) /\ e(k) \in Block
  <2>1. CASE k < i
    BY <1>1, <1>a, <2>1
  <2>2. CASE k = i
    BY <1>1, <2>2
  <2>3. CASE k > i
    BY <1>1, <1>a, <2>3
  <2>4. QED
    BY <1>1, <2>1, <2>2, <2>3
<1> HIDE DEF n, e
<1>4. t \in Seq(Block) /\ Len(t) = n /\ \A k \in 1 .. n : t[k] = e(k)
  BY <1>1, <1>2, <1>3
<1>5. Apart(t)
  <2> HIDE DEF t
  <2> SUFFICES ASSUME NEW k \in 1 .. n, NEW l \in 1 .. n, k < l
               PROVE  t[k].next < t[l].start
    BY <1>4 DEF Apart
  <2> SUFFICES e(k).next < e(l).start
    BY <1>4
  <2> USE DEF n, e
  <2>1. CASE l < i
    BY <1>1, <2>1 DEF GoodList, Apart
  <2>2. CASE l = i
    BY <1>1, <2>2
  <2>3. CASE l > i /\ k = i
    BY <1>1, <2>3
  <2>4. CASE l > i /\ k > i
    BY <1>1, <2>4 DEF GoodList, Apart
  <2>5. CASE l > i /\ k < i
    <3>1. /\ l + (j - i) \in 1 .. Len(s) /\ k \in 1 .. Len(s) /\ k < l + (j - i)
          /\ e(l) = s[l + (j - i)] /\ e(k) = s[k]
      BY <1>1, <2>5
    <3>2. QED
      BY <3>1 DEF GoodList, Apart
  <2>6. QED
    BY <1>1, <2>1, <2>2, <2>3, <2>4, <2>5
<1>6. GoodList(t)
  BY <1>3, <1>4, <1>5 DEF GoodList
<1>7. QED
  BY <1>4, <1>6 DEF n, e

-----------------------------------------------------------------------------
(* What the operations on one block do to its bytes.                       *)

\* Two adjacent ranges of the chunk's bytes, concatenated, are the bytes of the
\* joint range: what prepend and append of contiguous_block rely on.
LEMMA SliceConcat ==
  ASSUME NEW p, NEW q, NEW a, NEW m, NEW e, Slice(p, a, m), Slice(q, m, e)
  PROVE  Slice(p \o q, a, e)
<1>1. /\ a \in Int /\ m \in Int /\ e \in Int /\ a < m /\ m < e
      /\ a \in 0 .. Length /\ e \in 0 .. Length
      /\ p \in Seq(Byte) /\ q \in Seq(Byte) /\ Len(p) = m - a /\ Len(q) = e - m
  BY LengthType DEF Slice
<1>2. p \o q \in Seq(Byte) /\ Len(p \o q) = e - a
  BY <1>1
<1>3. ASSUME NEW k \in 1 .. e - a
      PROVE  (p \o q)[k] = Content[a + k]
  <2>1. CASE k <= m - a
    <3>1. (p \o q)[k] = p[k] /\ k \in 1 .. m - a
      BY <1>1, <2>1
    <3>2. QED
      BY <3>1 DEF Slice
  <2>2. CASE k > m - a
    <3>1. (p \o q)[k] = q[k - (m - a)] /\ k - (m - a) \in 1 .. e - m
      BY <1>1, <2>2
    <3>2. q[k - (m - a)] = Content[m + (k - (m - a))]
      BY <3>1 DEF Slice
    <3>3. m + (k - (m - a)) = a + k
      BY <1>1
    <3>4. QED
      BY <3>1, <3>2, <3>3
  <2>3. QED
    BY <1>1, <2>1, <2>2
<1>4. QED
  BY <1>1, <1>2, <1>3 DEF Slice

\* A part of a range of the chunk's bytes, cut out with SubSeq, is the bytes of
\* the shorter range: the cut of a payload before it is stored.
LEMMA SlicePart ==
  ASSUME NEW p, NEW a, NEW e, Slice(p, a, e),
         NEW l \in Int, NEW r \in Int, a <= l, l < r, r <= e
  PROVE  Slice(SubSeq(p, l - a + 1, r - a), l, r)
<1>1. /\ a \in 0 .. Length /\ e \in 0 .. Length /\ a \in Int /\ e \in Int
      /\ p \in Seq(Byte) /\ Len(p) = e - a
  BY LengthType DEF Slice
<1> DEFINE u == SubSeq(p, l - a + 1, r - a)
<1>2. u \in Seq(Byte) /\ Len(u) = r - l /\ \A k \in 1 .. r - l : u[k] = p[l - a + k]
  <2> DEFINE m == l - a + 1
             n == r - a
  <2>1. /\ m \in 1 .. Len(p) + 1 /\ n \in m - 1 .. Len(p) /\ n - m + 1 = r - l
        /\ \A k \in 1 .. r - l : m + k - 1 = l - a + k
    BY <1>1
  <2> HIDE DEF m, n
  <2>2. /\ SubSeq(p, m, n) \in Seq(Byte) /\ Len(SubSeq(p, m, n)) = n - m + 1
        /\ \A k \in 1 .. n - m + 1 : SubSeq(p, m, n)[k] = p[m + k - 1]
    BY <1>1, <2>1
  <2>3. QED
    BY <2>1, <2>2 DEF m, n
<1> HIDE DEF u
<1>3. ASSUME NEW k \in 1 .. r - l
      PROVE  u[k] = Content[l + k]
  <2>1. l - a + k \in 1 .. e - a /\ a + (l - a + k) = l + k
    BY <1>1
  <2>2. p[l - a + k] = Content[a + (l - a + k)]
    BY <2>1 DEF Slice
  <2>3. QED
    BY <1>2, <2>1, <2>2
<1>4. l \in 0 .. Length /\ r \in 0 .. Length
  BY <1>1, LengthType
<1>5. QED
  BY <1>2, <1>3, <1>4 DEF Slice, u

\* A block made from one payload, as push_back and insert do, holds the bytes of
\* its range.
LEMMA NewBlockGood ==
  ASSUME NEW p, NEW a, NEW e, Slice(p, a, e)
  PROVE  /\ GoodBlock(NewBlock(a, p))
         /\ NewBlock(a, p).start = a /\ NewBlock(a, p).next = e
<1>1. a + Len(p) = e /\ a \in 0 .. Length /\ e \in 0 .. Length /\ p \in Seq(Byte)
  BY LengthType DEF Slice
<1>2. NewBlock(a, p) = [start |-> a, next |-> e, data |-> p]
  BY <1>1 DEF NewBlock
<1>3. QED
  BY <1>1, <1>2 DEF GoodBlock, Block

\* A payload a..e-1 that reaches the start of b, put in front of b.
LEMMA PrependGood ==
  ASSUME NEW b, GoodBlock(b), NEW p, NEW a, NEW e, Slice(p, a, e),
         a < b.start, b.start <= e
  PROVE  LET c == Prepend(b, p, b.start - a, a) IN
         GoodBlock(c) /\ c.start = a /\ c.next = b.next
<1> DEFINE u == SubSeq(p, 1, b.start - a)
           c == Prepend(b, p, b.start - a, a)
<1>1. b.start \in Int /\ b.next \in 0 .. Length /\ a \in Int /\ a \in 0 .. Length
  BY LengthType DEF GoodBlock, Block, Slice
<1>2. Slice(SubSeq(p, a - a + 1, b.start - a), a, b.start)
  BY <1>1, SlicePart
<1>3. a - a + 1 = 1
  BY <1>1
<1>4. Slice(u \o b.data, a, b.next)
  BY <1>2, <1>3, SliceConcat DEF GoodBlock
<1>5. c = [start |-> a, next |-> b.next, data |-> u \o b.data]
  BY DEF Prepend
<1>6. u \o b.data \in Seq(Byte)
  BY <1>4 DEF Slice
<1> HIDE DEF u, c
<1>7. c.start = a /\ c.next = b.next /\ c.data = u \o b.data /\ c \in Block
  BY <1>1, <1>5, <1>6 DEF Block
<1>8. GoodBlock(c)
  BY <1>4, <1>7 DEF GoodBlock
<1>9. QED
  BY <1>7, <1>8 DEF c

\* A payload a..e-1 that starts in b or at its end and runs past it, cut and
\* put behind b.
LEMMA OverlappingAppendGood ==
  ASSUME NEW b, GoodBlock(b), NEW p, NEW a, NEW e, Slice(p, a, e),
         a <= b.next, b.next < e
  PROVE  LET c == OverlappingAppend(b, p, b.next - a, e) IN
         GoodBlock(c) /\ c.start = b.start /\ c.next = e
<1> DEFINE u == SubSeq(p, b.next - a + 1, Len(p))
           c == OverlappingAppend(b, p, b.next - a, e)
<1>1. /\ b.start \in 0 .. Length /\ b.next \in Int /\ a \in Int
      /\ e \in Int /\ e \in 0 .. Length /\ Len(p) = e - a
  BY LengthType DEF GoodBlock, Block, Slice
<1>2. Slice(SubSeq(p, b.next - a + 1, e - a), b.next, e)
  <2>1. e <= e
    BY <1>1
  <2>2. QED
    BY <1>1, <2>1, SlicePart
<1>3. Slice(b.data \o u, b.start, e)
  BY <1>1, <1>2, SliceConcat DEF GoodBlock
<1>4. c = [start |-> b.start, next |-> e, data |-> b.data \o u]
  BY DEF OverlappingAppend
<1>5. b.data \o u \in Seq(Byte)
  BY <1>3 DEF Slice
<1> HIDE DEF u, c
<1>6. c.start = b.start /\ c.next = e /\ c.data = b.data \o u /\ c \in Block
  BY <1>1, <1>4, <1>5 DEF Block
<1>7. GoodBlock(c)
  BY <1>3, <1>6 DEF GoodBlock
<1>8. QED
  BY <1>6, <1>7 DEF c

-----------------------------------------------------------------------------
(* What a call does to the offsets the list covers.                        *)

Holds(b, o) == b.start <= o /\ o < b.next

\* An offset is covered by a list exactly when one of its blocks holds it.
LEMMA CoveredBy ==
  ASSUME NEW s \in Seq(Block), NEW o \in Int
  PROVE  o \in Covered(s) <=> \E k \in 1 .. Len(s) : Holds(s[k], o)
<1>1. \A k \in 1 .. Len(s) : s[k].start \in Int /\ s[k].next \in Int
  BY BlockType
<1>2. \A k \in 1 .. Len(s) : o \in s[k].start .. s[k].next - 1 <=> Holds(s[k], o)
  BY <1>1 DEF Holds
<1>3. QED
  BY <1>2 DEF Covered

\* The offsets a list covers lie inside the chunk.
LEMMA CoveredInt ==
  ASSUME NEW s \in Seq(Block)
  PROVE  Covered(s) \subseteq 0 .. Length - 1
<1> SUFFICES ASSUME NEW k \in 1 .. Len(s), NEW o \in s[k].start .. s[k].next - 1
             PROVE  o \in 0 .. Length - 1
  BY DEF Covered
<1>1. s[k].start \in Int /\ s[k].next \in Int /\ s[k].start >= 0 /\ s[k].next <= Length
  BY BlockType
<1>2. QED
  BY <1>1, LengthType

\* So they are finitely many.
LEMMA CoveredFinite ==
  ASSUME NEW s, GoodList(s)
  PROVE  IsFiniteSet(Covered(s)) /\ Cardinality(Covered(s)) \in Nat
<1>1. IsFiniteSet(0 .. Length - 1)
  <2>1. 0 \in Int /\ Length - 1 \in Int
    BY LengthType
  <2>2. QED
    BY <2>1, FS_Interval
<1>2. Covered(s) \subseteq 0 .. Length - 1
  BY CoveredInt DEF GoodList
<1>3. QED
  BY <1>1, <1>2, FS_Subset, FS_CardinalityType

\* Putting a block in the place of blocks it contains loses no offset, and
\* gains the offset o if no block held it.
LEMMA GrowLemma ==
  ASSUME NEW s, GoodList(s),
         NEW i \in 1 .. Len(s) + 1, NEW j \in i - 1 .. Len(s),
         NEW b, GoodBlock(b),
         \A k \in 1 .. i - 1 : s[k].next < b.start,
         \A k \in j + 1 .. Len(s) : b.next < s[k].start,
         \A k \in i .. j : b.start <= s[k].start /\ s[k].next <= b.next,
         NEW o \in Int, Holds(b, o), \A k \in 1 .. Len(s) : ~ Holds(s[k], o)
  PROVE  LET t == Splice(s, i, j, b) IN
         /\ GoodList(t) /\ Len(t) >= 1
         /\ Covered(s) \subseteq Covered(t)
         /\ Covered(s) # Covered(t)
<1> DEFINE t == Splice(s, i, j, b)
<1> HIDE DEF t
<1>1. /\ GoodList(t)
      /\ Len(t) = Len(s) - (j - i)
      /\ \A k \in 1 .. Len(t) :
           t[k] = IF k < i THEN s[k] ELSE IF k = i THEN b ELSE s[k + (j - i)]
  BY SpliceLemma DEF t
<1>2. /\ Len(s) \in Nat /\ Len(t) \in Nat /\ i \in Int /\ j \in Int
      /\ s \in Seq(Block) /\ t \in Seq(Block) /\ b \in Block
      /\ i \in 1 .. Len(t)
  BY <1>1 DEF GoodList, GoodBlock
<1>3. t[i] = b
  BY <1>1, <1>2
<1>4. ASSUME NEW x \in Covered(s)
      PROVE  x \in Covered(t)
  <2>1. x \in Int
    BY <1>2, CoveredInt
  <2>2. PICK k \in 1 .. Len(s) : Holds(s[k], x)
    BY <1>2, <2>1, CoveredBy
  <2>3. CASE k < i
    <3>1. k \in 1 .. Len(t)
      BY <1>2, <2>3
    <3>2. t[k] = s[k]
      BY <1>1, <2>3, <3>1
    <3>3. QED
      BY <1>2, <2>1, <2>2, <3>1, <3>2, CoveredBy
  <2>4. CASE k \in i .. j
    <3>1. b.start <= s[k].start /\ s[k].next <= b.next
      BY <2>4
    <3>2. s[k].start \in Int /\ s[k].next \in Int /\ b.start \in Int /\ b.next \in Int
      BY <1>2, BlockType
    <3>3. Holds(t[i], x)
      BY <1>3, <2>1, <2>2, <3>1, <3>2 DEF Holds
    <3>4. QED
      BY <1>2, <2>1, <3>3, CoveredBy
  <2>5. CASE k > j /\ k >= i
    <3> DEFINE m == k - (j - i)
    <3>a. m \in 1 .. Len(t) /\ m > i /\ m + (j - i) = k
      BY <1>1, <1>2, <2>5
    <3> HIDE DEF m
    <3>1. m \in 1 .. Len(t) /\ t[m] = s[k]
      BY <1>1, <1>2, <3>a
    <3>2. QED
      BY <1>2, <2>1, <2>2, <3>1, CoveredBy
  <2>6. QED
    BY <1>2, <2>3, <2>4, <2>5
<1>5. o \in Covered(t)
  BY <1>2, <1>3, CoveredBy
<1>6. o \notin Covered(s)
  BY <1>2, CoveredBy
<1>7. Len(t) >= 1
  BY <1>2
<1>8. QED
  BY <1>1, <1>4, <1>5, <1>6, <1>7 DEF t

\* Facts about the ends of the blocks of a list that is in order.
LEMMA ListEnds ==
  ASSUME NEW s, GoodList(s)
  PROVE  /\ s \in Seq(Block) /\ Len(s) \in Nat
         /\ \A k \in 1 .. Len(s) :
              /\ GoodBlock(s[k])
              /\ s[k].start \in Int /\ s[k].next \in Int
              /\ 0 <= s[k].start /\ s[k].start < s[k].next /\ s[k].next <= Length
         /\ \A k, l \in 1 .. Len(s) : k < l => s[k].next < s[l].start
<1>1. s \in Seq(Block) /\ Len(s) \in Nat
  BY DEF GoodList
<1>2. ASSUME NEW k \in 1 .. Len(s)
      PROVE  /\ GoodBlock(s[k])
             /\ s[k].start \in Int /\ s[k].next \in Int
             /\ 0 <= s[k].start /\ s[k].start < s[k].next /\ s[k].next <= Length
  <2>1. s[k] \in Block /\ GoodBlock(s[k])
    BY <1>1 DEF GoodList
  <2>2. s[k].start < s[k].next
    BY <2>1 DEF GoodBlock, Slice
  <2>3. QED
    BY <2>1, <2>2, BlockType
<1>3. QED
  BY <1>1, <1>2 DEF GoodList, Apart

-----------------------------------------------------------------------------
(* How many offsets a list covers: what the statistics have to add up to.  *)

Sizes(s) == [k \in 1 .. Len(s) |-> s[k].next - s[k].start]
Within(s, i, j) == UNION {s[k].start .. s[k].next - 1 : k \in i .. j}

\* The blocks of a list are apart, so the offsets in some of them are as many
\* as their sizes add up to.
LEMMA WithinSize ==
  ASSUME NEW s, GoodList(s), NEW i \in 1 .. Len(s) + 1, NEW j \in i - 1 .. Len(s)
  PROVE  /\ \A k \in i .. j : k \in 1 .. Len(s) /\ Sizes(s)[k] \in Nat
         /\ IsFiniteSet(i .. j)
         /\ IsFiniteSet(Within(s, i, j))
         /\ Cardinality(Within(s, i, j)) = Total(i .. j, Sizes(s))
<1> DEFINE w == Sizes(s)
           P == Pairs(i .. j, w)
           at == [p \in P |-> s[p[1]].start + p[2] - 1]
<1>1. /\ s \in Seq(Block) /\ Len(s) \in Nat
      /\ \A k \in 1 .. Len(s) :
           /\ s[k].start \in Int /\ s[k].next \in Int
           /\ s[k].start < s[k].next
      /\ \A k, l \in 1 .. Len(s) : k < l => s[k].next < s[l].start
  BY ListEnds
<1>2. i \in Int /\ j \in Int /\ \A k \in i .. j : k \in 1 .. Len(s)
  BY <1>1
<1>3. \A k \in i .. j : w[k] = s[k].next - s[k].start /\ w[k] \in Nat
  BY <1>1, <1>2 DEF Sizes
<1>4. IsFiniteSet(i .. j)
  BY <1>2, FS_Interval
<1> HIDE DEF w
<1>5. IsFiniteSet(P)
  BY <1>3, <1>4, PairsFinite
<1>6. \A p \in P : /\ p[1] \in i .. j /\ p[2] \in Int
                   /\ 1 <= p[2] /\ p[2] <= s[p[1]].next - s[p[1]].start
                   /\ p = <<p[1], p[2]>>
  BY <1>1, <1>2, <1>3 DEF Pairs
<1>a. ASSUME NEW p \in P
      PROVE  /\ p[1] \in i .. j /\ p[1] \in 1 .. Len(s)
             /\ at[p] \in Int /\ at[p] = s[p[1]].start + p[2] - 1
             /\ s[p[1]].start <= at[p] /\ at[p] < s[p[1]].next
  <2> DEFINE a == s[p[1]].start
             e == s[p[1]].next
             m == p[2]
  <2>1. p[1] \in i .. j /\ p[1] \in 1 .. Len(s) /\ at[p] = a + m - 1
    BY <1>2, <1>6
  <2>2. a \in Int /\ e \in Int
    BY <1>1, <2>1
  <2>3. m \in Int /\ 1 <= m /\ m <= e - a
    BY <1>6
  <2> HIDE DEF a, e, m, at, P
  <2>4. at[p] \in Int /\ a <= at[p] /\ at[p] < e
    BY <2>1, <2>2, <2>3
  <2>5. QED
    BY <2>1, <2>4 DEF a, e, m
<1>7. ASSUME NEW p \in P
      PROVE  at[p] \in Within(s, i, j)
  <2> DEFINE a == s[p[1]].start
             e == s[p[1]].next
  <2>1. a \in Int /\ e \in Int /\ at[p] \in Int /\ a <= at[p] /\ at[p] < e
    BY <1>1, <1>a
  <2> HIDE DEF a, e, at
  <2>2. at[p] \in a .. e - 1
    BY <2>1
  <2>3. p[1] \in i .. j /\ at[p] \in s[p[1]].start .. s[p[1]].next - 1
    BY <1>a, <2>2 DEF a, e
  <2>4. QED
    BY <2>3 DEF Within
<1>8. ASSUME NEW o \in Within(s, i, j)
      PROVE  \E p \in P : at[p] = o
  <2>1. PICK k \in i .. j : o \in s[k].start .. s[k].next - 1
    BY DEF Within
  <2>2. k \in 1 .. Len(s) /\ s[k].start \in Int /\ s[k].next \in Int /\ o \in Int
    BY <1>1, <1>2, <2>1
  <2> DEFINE p == <<k, o - s[k].start + 1>>
  <2>3. o - s[k].start + 1 \in 1 .. w[k] /\ o - s[k].start + 1 \in Nat
    <3> DEFINE a == s[k].start
               e == s[k].next
               x == w[k]
    <3>1. a \in Int /\ e \in Int /\ o \in a .. e - 1 /\ x = e - a
      BY <1>3, <2>1, <2>2
    <3> HIDE DEF a, e, x
    <3>2. o - a + 1 \in 1 .. x /\ o - a + 1 \in Nat
      BY <3>1
    <3>3. QED
      BY <3>2 DEF a, x
  <2>4. p \in P
    BY <2>3 DEF Pairs
  <2>5. at[p] = s[k].start + (o - s[k].start + 1) - 1
    BY <2>4
  <2>6. at[p] = o
    <3> DEFINE a == s[k].start
    <3>1. a \in Int /\ at[p] = a + (o - a + 1) - 1
      BY <2>2, <2>5
    <3> HIDE DEF a, at
    <3>2. QED
      BY <2>2, <3>1
  <2>7. QED
    BY <2>4, <2>6
<1>9. ASSUME NEW p \in P, NEW q \in P, at[p] = at[q]
      PROVE  p = q
  <2> DEFINE x == at[p]
  <2>1. /\ p[1] \in 1 .. Len(s) /\ q[1] \in 1 .. Len(s) /\ x \in Int
        /\ s[p[1]].start <= x /\ x < s[p[1]].next
        /\ s[q[1]].start <= x /\ x < s[q[1]].next
        /\ x = s[p[1]].start + p[2] - 1 /\ x = s[q[1]].start + q[2] - 1
    BY <1>9, <1>a
  <2> HIDE DEF x, at, P
  <2>2. ASSUME NEW k \in 1 .. Len(s), NEW l \in 1 .. Len(s), k < l,
               x < s[k].next, s[l].start <= x
        PROVE  FALSE
    <3>1. s[k].next < s[l].start /\ s[k].next \in Int /\ s[l].start \in Int /\ x \in Int
      BY <1>1, <2>1, <2>2
    <3>2. QED
      BY <2>2, <3>1
  <2>3. p[1] = q[1]
    <3>1. ~ (p[1] < q[1]) /\ ~ (q[1] < p[1])
      BY <2>1, <2>2
    <3>2. p[1] \in Int /\ q[1] \in Int
      BY <1>1, <2>1
    <3>3. QED
      BY <3>1, <3>2
  <2>4. p[2] = q[2]
    <3>1. x = s[p[1]].start + p[2] - 1 /\ x = s[p[1]].start + q[2] - 1
      BY <2>1, <2>3
    <3>2. s[p[1]].start \in Int
      BY <1>1, <2>1
    <3>3. p[2] \in Int /\ q[2] \in Int
      BY <1>6
    <3> DEFINE u == s[p[1]].start
               v == p[2]
               w2 == q[2]
    <3> HIDE DEF u, v, w2
    <3>4. u \in Int /\ v \in Int /\ w2 \in Int /\ x = u + v - 1 /\ x = u + w2 - 1
      BY <3>1, <3>2, <3>3 DEF u, v, w2
    <3>5. v = w2
      BY <3>4
    <3>6. QED
      BY <3>5 DEF v, w2
  <2>5. QED
    BY <1>6, <2>3, <2>4
<1> HIDE DEF P
<1>10. at \in Surjection(P, Within(s, i, j)) /\ at \in Injection(P, Within(s, i, j))
  <2>1. at \in [P -> Within(s, i, j)]
    BY <1>7
  <2>2. QED
    BY <1>8, <1>9, <2>1 DEF Surjection, Injection, IsInjective
<1>11. /\ IsFiniteSet(Within(s, i, j))
       /\ Cardinality(Within(s, i, j)) = Cardinality(P)
  BY <1>5, <1>10, FS_Surjection
<1>12. QED
  BY <1>2, <1>3, <1>4, <1>11 DEF Total, P, w

\* Putting a block in the place of blocks it contains gains as many offsets
\* as the block is longer than those blocks together.
LEMMA SpliceCount ==
  ASSUME NEW s, GoodList(s),
         NEW i \in 1 .. Len(s) + 1, NEW j \in i - 1 .. Len(s),
         NEW b, GoodBlock(b),
         \A k \in 1 .. i - 1 : s[k].next < b.start,
         \A k \in j + 1 .. Len(s) : b.next < s[k].start,
         \A k \in i .. j : b.start <= s[k].start /\ s[k].next <= b.next
  PROVE  /\ Cardinality(Covered(Splice(s, i, j, b)))
              = Cardinality(Covered(s)) + (b.next - b.start) - Total(i .. j, Sizes(s))
         /\ Cardinality(Covered(s)) \in Nat /\ Total(i .. j, Sizes(s)) \in Nat
<1> DEFINE t == Splice(s, i, j, b)
           R == b.start .. b.next - 1
<1> HIDE DEF t
<1>1. /\ GoodList(t)
      /\ Len(t) = Len(s) - (j - i)
      /\ \A k \in 1 .. Len(t) :
           t[k] = IF k < i THEN s[k] ELSE IF k = i THEN b ELSE s[k + (j - i)]
  BY SMTT(20), SpliceLemma DEF t
<1>2. /\ s \in Seq(Block) /\ Len(s) \in Nat
      /\ \A k \in 1 .. Len(s) :
           /\ s[k].start \in Int /\ s[k].next \in Int
           /\ s[k].start < s[k].next
      /\ t \in Seq(Block) /\ Len(t) \in Nat
  BY <1>1, ListEnds
<1>3. b.start \in Int /\ b.next \in Int /\ b.start < b.next /\ i \in Int /\ j \in Int
  BY <1>2, LengthType DEF GoodBlock, Block, Slice
<1>4. Covered(s) \subseteq 0 .. Length - 1 /\ Covered(t) \subseteq 0 .. Length - 1
  BY <1>2, CoveredInt
<1>5. ASSUME NEW o \in Int
      PROVE  /\ o \in Covered(t) <=> o \in Covered(s) \/ Holds(b, o)
             /\ o \in Within(s, i, j) <=> o \in Covered(s) /\ Holds(b, o)
  <2>1. /\ o \in Covered(s) <=> \E k \in 1 .. Len(s) : Holds(s[k], o)
        /\ o \in Covered(t) <=> \E k \in 1 .. Len(t) : Holds(t[k], o)
    BY <1>2, CoveredBy
  <2>2. o \in Within(s, i, j) <=> \E k \in i .. j : Holds(s[k], o)
    <3>1. \A k \in i .. j : k \in 1 .. Len(s)
      BY <1>2, <1>3
    <3>2. \A k \in i .. j : o \in s[k].start .. s[k].next - 1 <=> Holds(s[k], o)
      BY <1>2, <3>1 DEF Holds
    <3>3. QED
      BY <3>2 DEF Within
  <2>3. \A k \in 1 .. Len(s) : k \in 1 .. i - 1 \/ k \in i .. j \/ k \in j + 1 .. Len(s)
    BY <1>2, <1>3
  <2>4. ASSUME NEW k \in 1 .. Len(s), Holds(s[k], o)
        PROVE  /\ k \in i .. j <=> Holds(b, o)
               /\ k \notin i .. j => \E l \in 1 .. Len(t) : t[l] = s[k]
    <3>1. k \in 1 .. i - 1 => ~ Holds(b, o)
      BY <1>2, <1>3, <2>4 DEF Holds
    <3>2. k \in j + 1 .. Len(s) => ~ Holds(b, o)
      BY <1>2, <1>3, <2>4 DEF Holds
    <3>3. k \in i .. j => Holds(b, o)
      BY <1>2, <1>3, <2>4 DEF Holds
    <3>4. k \in 1 .. i - 1 => \E l \in 1 .. Len(t) : t[l] = s[k]
      <4>1. k \in 1 .. i - 1 => k \in 1 .. Len(t) /\ t[k] = s[k]
        BY <1>1, <1>2, <1>3
      <4>2. QED
        BY <4>1
    <3>5. k \in j + 1 .. Len(s) => \E l \in 1 .. Len(t) : t[l] = s[k]
      <4> SUFFICES ASSUME k \in j + 1 .. Len(s) PROVE \E l \in 1 .. Len(t) : t[l] = s[k]
        OBVIOUS
      <4> DEFINE m == k - (j - i)
                 u == Len(s)
                 v == Len(t)
      <4>1. /\ u \in Nat /\ v = u - (j - i) /\ k \in j + 1 .. u /\ i \in Int /\ j \in Int
            /\ i >= 1 /\ j >= i - 1
        BY <1>1, <1>2, <1>3
      <4> HIDE DEF u, v
      <4>2. m \in 1 .. v /\ ~ (m < i) /\ m # i /\ m + (j - i) = k
        BY <4>1
      <4> HIDE DEF m
      <4>3. m \in 1 .. Len(t) /\ t[m] = s[k]
        BY <1>1, <4>2 DEF v
      <4>4. QED
        BY <4>3
    <3>6. QED
      BY <2>3, <3>1, <3>2, <3>3, <3>4, <3>5
  <2>5. i \in 1 .. Len(t) /\ t[i] = b
    BY <1>1, <1>2, <1>3
  <2>6. ASSUME NEW k \in 1 .. Len(t)
        PROVE  t[k] = b \/ \E l \in 1 .. Len(s) : t[k] = s[l]
    <3>1. CASE k < i
      BY <1>1, <1>2, <1>3, <3>1
    <3>2. CASE k = i
      BY <2>5, <3>2
    <3>3. CASE k > i
      <4>1. k + (j - i) \in 1 .. Len(s) /\ t[k] = s[k + (j - i)]
        BY <1>1, <1>2, <1>3, <3>3
      <4>2. QED
        BY <4>1
    <3>4. QED
      BY <1>2, <1>3, <3>1, <3>2, <3>3
  <2>7. \A k \in i .. j : k \in 1 .. Len(s)
    BY <1>2, <1>3
  <2>8. o \in Covered(t) => o \in Covered(s) \/ Holds(b, o)
    BY <2>1, <2>6
  <2>9. o \in Covered(s) \/ Holds(b, o) => o \in Covered(t)
    BY <2>1, <2>4, <2>5
  <2>10. o \in Within(s, i, j) <=> o \in Covered(s) /\ Holds(b, o)
    BY <2>1, <2>2, <2>4, <2>7
  <2>11. QED
    BY <2>8, <2>9, <2>10
<1>6. \A o \in Int : o \in R <=> Holds(b, o)
  BY <1>3 DEF Holds
<1>7. R \subseteq Int /\ Covered(s) \subseteq Int /\ Covered(t) \subseteq Int /\ Within(s, i, j) \subseteq Int
  <2>1. \A k \in i .. j : k \in 1 .. Len(s)
    BY <1>2, <1>3
  <2>2. Within(s, i, j) \subseteq Int
    BY <1>2, <2>1 DEF Within
  <2>3. QED
    BY <1>3, <1>4, <2>2, LengthType
<1>8. Covered(t) = Covered(s) \cup R /\ Within(s, i, j) = Covered(s) \cap R
  <2> HIDE DEF R
  <2>1. QED
    BY <1>5, <1>6, <1>7
<1>9. IsFiniteSet(Covered(s)) /\ Cardinality(Covered(s)) \in Nat
  BY CoveredFinite
<1>10. IsFiniteSet(R) /\ Cardinality(R) = b.next - b.start
  <2>1. b.next - 1 \in Int /\ ~ (b.start > b.next - 1) /\ (b.next - 1) - b.start + 1 = b.next - b.start
    BY <1>3
  <2>2. QED
    BY <1>3, <2>1, FS_Interval
<1>11. Cardinality(Covered(s) \cup R)
         = Cardinality(Covered(s)) + Cardinality(R) - Cardinality(Covered(s) \cap R)
  BY <1>9, <1>10, FS_Union
<1>12. /\ Cardinality(Within(s, i, j)) = Total(i .. j, Sizes(s))
       /\ Cardinality(Within(s, i, j)) \in Nat
  BY WithinSize, FS_CardinalityType
<1>13. QED
  BY <1>8, <1>9, <1>10, <1>11, <1>12 DEF t

\* The first and the last size, taken out of a sum of sizes.
LEMMA TotalEnds ==
  ASSUME NEW i \in Int, NEW j \in Int, i <= j, NEW w, \A k \in i .. j : w[k] \in Nat
  PROVE  /\ Total(i .. j, w) = w[i] + Total(i + 1 .. j, w) /\ Total(i + 1 .. j, w) \in Nat
         /\ Total(i .. j, w) = w[j] + Total(i .. j - 1, w) /\ Total(i .. j - 1, w) \in Nat
<1>1. IsFiniteSet(i .. j)
  BY FS_Interval
<1>2. i \in i .. j /\ (i .. j) \ {i} = i + 1 .. j /\ j \in i .. j /\ (i .. j) \ {j} = i .. j - 1
  OBVIOUS
<1> DEFINE S == i .. j
<1>a. \A z \in S : w[z] \in Nat
  OBVIOUS
<1> HIDE DEF S
<1>b. ASSUME NEW y \in S
      PROVE  Total(S, w) = w[y] + Total(S \ {y}, w) /\ Total(S \ {y}, w) \in Nat
  BY <1>1, <1>a, TotalSplit DEF S
<1>3. /\ Total(i .. j, w) = w[i] + Total((i .. j) \ {i}, w) /\ Total((i .. j) \ {i}, w) \in Nat
      /\ Total(i .. j, w) = w[j] + Total((i .. j) \ {j}, w) /\ Total((i .. j) \ {j}, w) \in Nat
  BY <1>2, <1>b DEF S
<1>4. QED
  BY <1>2, <1>3

\* What DuplicateBytes counts in the append branch, as sums that proofs can use.
FoundAgain(s, i, a, e) ==
  LET j == MergeHalt(s, i, e)
  IN  (s[i].next - a) + Total(i + 1 .. j - 1, Sizes(s))
      + (IF MergesLast(s, j, e) THEN e - s[j].start ELSE 0)

LEMMA DuplicateBytesAppend ==
  ASSUME NEW s, GoodList(s), NEW a \in Int, NEW p, Len(p) \in Nat,
         NEW i \in 1 .. Len(s), i = StopAt(s, a),
         ~ (a < s[i].start), ~ IsDuplicate(s, a, p)
  PROVE  DuplicateBytes(s, a, p) = FoundAgain(s, i, a, a + Len(p))
<1> DEFINE e == a + Len(p)
           j == MergeHalt(s, i, e)
           S == i + 1 .. j - 1
           w == Sizes(s)
           g == [u \in SUBSET S |-> Total(u, w)]
           Step(h) == [u \in SUBSET S |->
                         IF u = {} THEN 0
                         ELSE (s[CHOOSE y \in u : TRUE].next - s[CHOOSE y \in u : TRUE].start)
                                + h[u \ {CHOOSE y \in u : TRUE}]]
<1>1. s \in Seq(Block) /\ Len(s) \in Nat /\ e \in Int
  BY DEF GoodList
<1>2. j \in i + 1 .. Len(s) + 1
  <2> HIDE DEF e
  <2>1. QED
    BY <1>1, MergeHaltLemma
<1> HIDE DEF e, j
<1>3. IsFiniteSet(S) /\ \A k \in S : k \in 1 .. Len(s) /\ w[k] \in Nat
  <2>1. i + 1 \in 1 .. Len(s) + 1 /\ j - 1 \in (i + 1) - 1 .. Len(s)
    BY <1>1, <1>2
  <2>2. QED
    BY <2>1, WithinSize
<1>4. \A k \in S : w[k] = s[k].next - s[k].start
  BY <1>3 DEF Sizes
<1> HIDE DEF S, w
<1>5. /\ Summed(S, w, g)
      /\ \A h, l : Summed(S, w, h) /\ Summed(S, w, l) => h = l
  BY <1>3, SumIsTotal
<1>6. ASSUME NEW h
      PROVE  (h = Step(h)) <=> Summed(S, w, h)
  <2>1. ASSUME NEW u \in SUBSET S, u # {}
        PROVE  w[Chosen(u)] = s[CHOOSE y \in u : TRUE].next - s[CHOOSE y \in u : TRUE].start
    <3>1. Chosen(u) \in S
      BY <2>1 DEF Chosen
    <3>2. QED
      BY <1>4, <3>1 DEF Chosen
  <2>2. Step(h) = [u \in SUBSET S |-> IF u = {} THEN 0
                                      ELSE w[Chosen(u)] + h[u \ {Chosen(u)}]]
    BY <2>1 DEF Chosen
  <2>3. QED
    BY <2>2 DEF Summed
<1>7. g = Step(g) /\ \A h : h = Step(h) => h = g
  BY <1>5, <1>6
<1> DEFINE Size(k) == s[k].next - s[k].start
<1>8. MapThenSumSet(Size, S) = g[S]
  <2> HIDE DEF g
  <2>1. QED
    BY <1>7 DEF MapThenSumSet, MapThenFoldSet
<1>9. MapThenSumSet(Size, S) = Total(S, w)
  BY <1>8
<1>10. ~ (i > Len(s)) /\ ~ (i <= Len(s) /\ a < s[i].start)
  BY <1>1
<1>11. DuplicateBytes(s, a, p) =
         (s[i].next - a) + MapThenSumSet(Size, S)
           + (IF MergesLast(s, j, e) THEN e - s[j].start ELSE 0)
  <2>1. DuplicateBytes(s, a, p) =
          CASE i > Len(s) -> 0
            [] i <= Len(s) /\ a < s[i].start ->
                 IF e < s[i].start THEN 0 ELSE Len(p) - (s[i].start - a)
            [] IsDuplicate(s, a, p) -> Len(p)
            [] OTHER -> (s[i].next - a) + MapThenSumSet(Size, S)
                        + (IF MergesLast(s, j, e) THEN e - s[j].start ELSE 0)
    BY DEF DuplicateBytes, e, j, S
  <2>2. QED
    BY <1>10, <2>1, Zenon
<1>12. QED
  BY <1>9, <1>11 DEF FoundAgain, e, j, S, w

\* What DuplicateBytes counts when a block is added, when one is prepended to,
\* and for a duplicate.
LEMMA DuplicateBytesElse ==
  ASSUME NEW s, NEW a, NEW p, NEW i, i = StopAt(s, a)
  PROVE  /\ i > Len(s) /\ ~ (i <= Len(s)) /\ ~ IsDuplicate(s, a, p) => DuplicateBytes(s, a, p) = 0
         /\ ~ (i > Len(s)) /\ i <= Len(s) /\ a < s[i].start /\ ~ IsDuplicate(s, a, p) =>
              DuplicateBytes(s, a, p) =
                IF a + Len(p) < s[i].start THEN 0 ELSE Len(p) - (s[i].start - a)
         /\ ~ (i > Len(s)) /\ ~ (a < s[i].start) /\ IsDuplicate(s, a, p) =>
              DuplicateBytes(s, a, p) = Len(p)
<1> DEFINE e == a + Len(p)
           j == MergeHalt(s, i, e)
           Size(k) == s[k].next - s[k].start
           again == (s[i].next - a) + MapThenSumSet(Size, i + 1 .. j - 1)
                      + (IF MergesLast(s, j, e) THEN e - s[j].start ELSE 0)
           new == IF e < s[i].start THEN 0 ELSE Len(p) - (s[i].start - a)
<1>1. DuplicateBytes(s, a, p) =
        CASE i > Len(s) -> 0
          [] i <= Len(s) /\ a < s[i].start -> new
          [] IsDuplicate(s, a, p) -> Len(p)
          [] OTHER -> again
  BY DEF DuplicateBytes
<1>2. new = IF a + Len(p) < s[i].start THEN 0 ELSE Len(p) - (s[i].start - a)
  OBVIOUS
<1> HIDE DEF again, new
<1>3. ASSUME i > Len(s), ~ (i <= Len(s)), ~ IsDuplicate(s, a, p)
      PROVE  DuplicateBytes(s, a, p) = 0
  BY <1>1, <1>3
<1>4. ASSUME ~ (i > Len(s)), i <= Len(s), a < s[i].start, ~ IsDuplicate(s, a, p)
      PROVE  DuplicateBytes(s, a, p) = new
  BY <1>1, <1>4
<1>5. ASSUME ~ (i > Len(s)), ~ (a < s[i].start), IsDuplicate(s, a, p)
      PROVE  DuplicateBytes(s, a, p) = Len(p)
  BY <1>1, <1>5
<1>6. QED
  BY <1>2, <1>3, <1>4, <1>5

\* The sizes of no blocks, and of one.
LEMMA TotalNone ==
  ASSUME NEW i \in Int, NEW w
  PROVE  Total(i .. i - 1, w) = 0
<1>1. i .. i - 1 = {}
  OBVIOUS
<1>2. QED
  BY <1>1, TotalEmpty

LEMMA TotalSingle ==
  ASSUME NEW s, GoodList(s), NEW i \in 1 .. Len(s)
  PROVE  Total(i .. i, Sizes(s)) = s[i].next - s[i].start
<1>1. i \in 1 .. Len(s) + 1 /\ i \in i - 1 .. Len(s) /\ i .. i = {i}
  OBVIOUS
<1>2. Sizes(s)[i] \in Nat /\ Sizes(s)[i] = s[i].next - s[i].start
  BY <1>1, WithinSize DEF Sizes
<1>3. QED
  BY <1>1, <1>2, TotalOne

-----------------------------------------------------------------------------
\* The append branch of fill_gaps_in_chunk, with its inner loop.
LEMMA AppendLemma ==
  ASSUME NEW s, GoodList(s), NEW p, NEW a, NEW e, Slice(p, a, e),
         NEW i \in 1 .. Len(s),
         \A k \in 1 .. i - 1 : s[k].next < a,
         s[i].start <= a, a <= s[i].next, s[i].next < e
  PROVE  LET t == AppendAndMerge(s, i, a, p) IN
         /\ GoodList(t) /\ Len(t) >= 1
         /\ Covered(s) \subseteq Covered(t)
         /\ Covered(s) # Covered(t)
         /\ FoundAgain(s, i, a, e) \in Int
         /\ Cardinality(Covered(s)) + Len(p) = Cardinality(Covered(t)) + FoundAgain(s, i, a, e)
<1> DEFINE t == AppendAndMerge(s, i, a, p)
           g == OverlappingAppend(s[i], p, s[i].next - a, e)
           j == MergeHalt(s, i, e)
           o == s[i].next
<1>1. a \in Int /\ e \in Int /\ 0 <= a /\ a < e /\ e <= Length /\ a + Len(p) = e
  BY LengthType DEF Slice
<1>2. /\ s \in Seq(Block) /\ Len(s) \in Nat
      /\ \A k \in 1 .. Len(s) :
           /\ GoodBlock(s[k])
           /\ s[k].start \in Int /\ s[k].next \in Int
           /\ 0 <= s[k].start /\ s[k].start < s[k].next /\ s[k].next <= Length
      /\ \A k, l \in 1 .. Len(s) : k < l => s[k].next < s[l].start
  BY ListEnds
<1>3. GoodBlock(g) /\ g.start = s[i].start /\ g.next = e
  BY <1>2, OverlappingAppendGood
<1>4. /\ j \in i + 1 .. Len(s) + 1
      /\ j <= Len(s) => (s[j].start > e \/ s[j].next > e)
      /\ \A k \in i + 1 .. j - 1 : s[k].start <= e /\ s[k].next <= e
  BY <1>1, <1>2, MergeHaltLemma
<1>5. t = IF MergesLast(s, j, e)
          THEN Splice(s, i, j, OverlappingAppend(g, s[j].data, e - s[j].start, s[j].next))
          ELSE Splice(s, i, j - 1, g)
  BY <1>1 DEF AppendAndMerge
<1> HIDE DEF t, g, j
<1>6. o \in Int /\ \A k \in 1 .. Len(s) : ~ Holds(s[k], o)
  <2>1. o \in Int
    BY <1>2
  <2>2. ASSUME NEW k \in 1 .. Len(s)
        PROVE  ~ Holds(s[k], o)
    <3>1. CASE k < i
      BY <1>2, <3>1 DEF Holds
    <3>2. CASE k = i
      BY <1>2, <3>2 DEF Holds
    <3>3. CASE k > i
      BY <1>2, <3>3 DEF Holds
    <3>4. QED
      BY <3>1, <3>2, <3>3
  <2>3. QED
    BY <2>1, <2>2
<1>7. \A k \in 1 .. i - 1 : s[k].next < s[i].start
  BY <1>2
<1>8. j \in Int /\ i \in Int /\ j > i /\ j <= Len(s) + 1
  BY <1>2, <1>4
<1>9. CASE MergesLast(s, j, e)
  <2> DEFINE c == OverlappingAppend(g, s[j].data, e - s[j].start, s[j].next)
  <2>1. j \in 1 .. Len(s) /\ s[j].start <= e /\ s[j].next > e
    BY <1>1, <1>2, <1>4, <1>8, <1>9 DEF MergesLast
  <2>2. Slice(s[j].data, s[j].start, s[j].next)
    BY <1>2, <2>1 DEF GoodBlock
  <2>3. GoodBlock(c) /\ c.start = s[i].start /\ c.next = s[j].next
    BY <1>3, <2>1, <2>2, OverlappingAppendGood
  <2>4. t = Splice(s, i, j, c)
    BY <1>5, <1>9
  <2> HIDE DEF c
  <2>5. Holds(c, o)
    BY <1>1, <1>2, <2>1, <2>3 DEF Holds
  <2>6. \A k \in 1 .. i - 1 : s[k].next < c.start
    BY <1>7, <2>3
  <2>7. ASSUME NEW k \in j + 1 .. Len(s)
        PROVE  c.next < s[k].start
    <3>1. k \in 1 .. Len(s) /\ j < k
      BY <1>2, <1>8
    <3>2. s[j].next < s[k].start
      BY <1>2, <2>1, <3>1
    <3>3. QED
      BY <2>3, <3>2
  <2>8. ASSUME NEW k \in i .. j
        PROVE  c.start <= s[k].start /\ s[k].next <= c.next
    <3>1. k \in 1 .. Len(s) /\ (k = i \/ i < k) /\ (k = j \/ k < j)
      BY <1>2, <1>8, <2>1
    <3>2. c.start <= s[k].start
      BY <1>2, <2>3, <3>1
    <3>3. s[k].next <= c.next
      BY <1>2, <2>1, <2>3, <3>1
    <3>4. QED
      BY <3>2, <3>3
  <2>9. i \in 1 .. Len(s) + 1 /\ j \in i - 1 .. Len(s)
    BY <1>2, <1>8, <2>1
  <2>10. /\ GoodList(t) /\ Len(t) >= 1
         /\ Covered(s) \subseteq Covered(t) /\ Covered(s) # Covered(t)
    BY <1>6, <2>3, <2>4, <2>5, <2>6, <2>7, <2>8, <2>9, GrowLemma
  <2>11. /\ Cardinality(Covered(t))
              = Cardinality(Covered(s)) + (c.next - c.start) - Total(i .. j, Sizes(s))
         /\ Cardinality(Covered(s)) \in Nat
    BY <2>3, <2>4, <2>6, <2>7, <2>8, <2>9, SpliceCount
  <2>12. /\ Total(i .. j, Sizes(s)) = (s[i].next - s[i].start) + Total(i + 1 .. j, Sizes(s))
         /\ Total(i + 1 .. j, Sizes(s)) = (s[j].next - s[j].start) + Total(i + 1 .. j - 1, Sizes(s))
         /\ Total(i + 1 .. j - 1, Sizes(s)) \in Nat
    <3>1. \A k \in i .. j : Sizes(s)[k] \in Nat
      BY <2>9, WithinSize
    <3>2. \A k \in i + 1 .. j : Sizes(s)[k] \in Nat
      BY <1>8, <3>1
    <3>3. i + 1 \in Int /\ i <= j /\ i + 1 <= j
      BY <1>8
    <3>4. Sizes(s)[i] = s[i].next - s[i].start /\ Sizes(s)[j] = s[j].next - s[j].start
      BY <2>1 DEF Sizes
    <3>5. Total(i .. j, Sizes(s)) = Sizes(s)[i] + Total(i + 1 .. j, Sizes(s))
      BY <1>8, <3>1, <3>3, TotalEnds
    <3>6. /\ Total(i + 1 .. j, Sizes(s)) = Sizes(s)[j] + Total(i + 1 .. j - 1, Sizes(s))
          /\ Total(i + 1 .. j - 1, Sizes(s)) \in Nat
      BY <1>8, <3>2, <3>3, TotalEnds
    <3>7. QED
      BY <3>4, <3>5, <3>6
  <2>13. FoundAgain(s, i, a, e)
           = (s[i].next - a) + Total(i + 1 .. j - 1, Sizes(s)) + (e - s[j].start)
    BY <1>9, Zenon DEF FoundAgain, j
  <2>14. FoundAgain(s, i, a, e) \in Int
         /\ Cardinality(Covered(s)) + Len(p) = Cardinality(Covered(t)) + FoundAgain(s, i, a, e)
    <3> DEFINE T == Total(i + 1 .. j - 1, Sizes(s))
               A == s[i].start
               B == s[i].next
               C == s[j].start
               D == s[j].next
               n == Cardinality(Covered(s))
               l == Len(p)
    <3>1. /\ T \in Nat /\ A \in Int /\ B \in Int /\ C \in Int /\ D \in Int /\ n \in Nat
          /\ a \in Int /\ e \in Int /\ l = e - a
      BY <1>1, <1>2, <2>1, <2>11, <2>12 DEF Slice
    <3>2. Cardinality(Covered(t)) = n + (D - A) - ((B - A) + ((D - C) + T))
      BY <2>3, <2>11, <2>12
    <3>3. FoundAgain(s, i, a, e) = (B - a) + T + (e - C)
      BY <2>13
    <3> HIDE DEF T, A, B, C, D, n, l
    <3>4. (B - a) + T + (e - C) \in Int
          /\ n + l = (n + (D - A) - ((B - A) + ((D - C) + T))) + ((B - a) + T + (e - C))
      BY <3>1
    <3>5. QED
      BY <3>2, <3>3, <3>4 DEF n, l
  <2>15. QED
    BY <2>10, <2>14 DEF t
<1>10. CASE ~ MergesLast(s, j, e)
  <2>1. j <= Len(s) => s[j].start > e
    BY <1>1, <1>2, <1>4, <1>8, <1>10 DEF MergesLast
  <2>2. t = Splice(s, i, j - 1, g)
    BY <1>5, <1>10
  <2>3. Holds(g, o)
    BY <1>1, <1>2, <1>3 DEF Holds
  <2>4. \A k \in 1 .. i - 1 : s[k].next < g.start
    BY <1>3, <1>7
  <2>5. ASSUME NEW k \in (j - 1) + 1 .. Len(s)
        PROVE  g.next < s[k].start
    <3>1. k \in 1 .. Len(s) /\ j \in 1 .. Len(s) /\ (k = j \/ j < k)
      BY <1>2, <1>8
    <3>2. s[j].start > e /\ s[j].start < s[j].next /\ (j < k => s[j].next < s[k].start)
      BY <1>2, <2>1, <3>1
    <3>3. s[j].start \in Int /\ s[j].next \in Int /\ s[k].start \in Int
      BY <1>2, <3>1
    <3>4. e < s[k].start
      BY <1>1, <3>1, <3>2, <3>3
    <3>5. QED
      BY <1>3, <3>4
  <2>6. ASSUME NEW k \in i .. j - 1
        PROVE  g.start <= s[k].start /\ s[k].next <= g.next
    <3>1. k \in 1 .. Len(s) /\ (k = i \/ k \in i + 1 .. j - 1)
      BY <1>2, <1>8
    <3>2. g.start <= s[k].start
      BY <1>2, <1>3, <3>1
    <3>3. s[k].next <= g.next
      BY <1>1, <1>2, <1>3, <1>4, <3>1
    <3>4. QED
      BY <3>2, <3>3
  <2>7. i \in 1 .. Len(s) + 1 /\ j - 1 \in i - 1 .. Len(s)
    BY <1>2, <1>8
  <2>8. /\ GoodList(t) /\ Len(t) >= 1
        /\ Covered(s) \subseteq Covered(t) /\ Covered(s) # Covered(t)
    BY <1>3, <1>6, <2>2, <2>3, <2>4, <2>5, <2>6, <2>7, GrowLemma
  <2>9. /\ Cardinality(Covered(t))
             = Cardinality(Covered(s)) + (g.next - g.start) - Total(i .. j - 1, Sizes(s))
        /\ Cardinality(Covered(s)) \in Nat
    BY <1>3, <2>2, <2>4, <2>5, <2>6, <2>7, SpliceCount
  <2>10. /\ Total(i .. j - 1, Sizes(s)) = (s[i].next - s[i].start) + Total(i + 1 .. j - 1, Sizes(s))
         /\ Total(i + 1 .. j - 1, Sizes(s)) \in Nat
    <3>1. \A k \in i .. j - 1 : Sizes(s)[k] \in Nat
      BY <2>7, WithinSize
    <3>2. j - 1 \in Int /\ i <= j - 1
      BY <1>8
    <3>3. Sizes(s)[i] = s[i].next - s[i].start
      BY DEF Sizes
    <3>4. /\ Total(i .. j - 1, Sizes(s)) = Sizes(s)[i] + Total(i + 1 .. j - 1, Sizes(s))
          /\ Total(i + 1 .. j - 1, Sizes(s)) \in Nat
      BY <1>8, <3>1, <3>2, TotalEnds
    <3>5. QED
      BY <3>3, <3>4
  <2>11. FoundAgain(s, i, a, e) = (s[i].next - a) + Total(i + 1 .. j - 1, Sizes(s)) + 0
    BY <1>10, Zenon DEF FoundAgain, j
  <2>12. FoundAgain(s, i, a, e) \in Int
         /\ Cardinality(Covered(s)) + Len(p) = Cardinality(Covered(t)) + FoundAgain(s, i, a, e)
    <3> DEFINE T == Total(i + 1 .. j - 1, Sizes(s))
               A == s[i].start
               B == s[i].next
               n == Cardinality(Covered(s))
               l == Len(p)
    <3>1. /\ T \in Nat /\ A \in Int /\ B \in Int /\ n \in Nat
          /\ a \in Int /\ e \in Int /\ l = e - a
      BY <1>1, <1>2, <2>9, <2>10 DEF Slice
    <3>2. Cardinality(Covered(t)) = n + (e - A) - ((B - A) + T)
      BY <1>3, <2>9, <2>10
    <3>3. FoundAgain(s, i, a, e) = (B - a) + T + 0
      BY <2>11
    <3> HIDE DEF T, A, B, n, l
    <3>4. (B - a) + T + 0 \in Int
          /\ n + l = (n + (e - A) - ((B - A) + T)) + ((B - a) + T + 0)
      BY <3>1
    <3>5. QED
      BY <3>2, <3>3, <3>4 DEF n, l
  <2>13. QED
    BY <2>8, <2>12 DEF t
<1>11. QED
  BY <1>9, <1>10

\* fill_gaps_in_chunk on a payload that is the chunk's bytes a..e-1: the list
\* stays in order, nothing is lost, and unless the payload is a duplicate
\* something is gained.
LEMMA FillLemma ==
  ASSUME NEW s, GoodList(s), NEW p, NEW a, NEW e, Slice(p, a, e)
  PROVE  LET t == FillBlocks(s, a, p) IN
         /\ GoodList(t)
         /\ IsDuplicate(s, a, p) => t = s
         /\ ~ IsDuplicate(s, a, p) =>
              /\ Len(t) >= 1
              /\ Covered(s) \subseteq Covered(t)
              /\ Covered(s) # Covered(t)
         /\ DuplicateBytes(s, a, p) \in Int
         /\ Cardinality(Covered(s)) + Len(p) = Cardinality(Covered(t)) + DuplicateBytes(s, a, p)
<1> DEFINE i == StopAt(s, a)
           t == FillBlocks(s, a, p)
           d == DuplicateBytes(s, a, p)
           Counts == d \in Int /\ Cardinality(Covered(s)) + Len(p) = Cardinality(Covered(t)) + d
           Grows == /\ GoodList(t) /\ Len(t) >= 1
                    /\ Covered(s) \subseteq Covered(t)
                    /\ Covered(s) # Covered(t)
<1> HIDE DEF i, t, d
<1>1. /\ a \in Int /\ e \in Int /\ 0 <= a /\ a < e /\ e <= Length
      /\ a + Len(p) = e /\ Len(p) \in Int
  BY LengthType DEF Slice
<1>2. /\ s \in Seq(Block) /\ Len(s) \in Nat
      /\ \A k \in 1 .. Len(s) :
           /\ GoodBlock(s[k])
           /\ s[k].start \in Int /\ s[k].next \in Int
           /\ 0 <= s[k].start /\ s[k].start < s[k].next /\ s[k].next <= Length
      /\ \A k, l \in 1 .. Len(s) : k < l => s[k].next < s[l].start
  BY ListEnds
<1>b. Cardinality(Covered(s)) \in Int
  <2>1. Cardinality(Covered(s)) \in Nat
    BY CoveredFinite
  <2>2. QED
    BY <2>1
<1>c. i = StopAt(s, a) /\ d = DuplicateBytes(s, a, p)
  BY DEF i, d
<1>3. /\ i \in 1 .. Len(s) + 1
      /\ i <= Len(s) => Stops(s[i], a)
      /\ \A k \in 1 .. i - 1 : ~ Stops(s[k], a)
  BY <1>1, <1>2, StopAtLemma DEF i
<1>4. ASSUME NEW k \in 1 .. i - 1
      PROVE  s[k].next < a
  <2>1. k \in 1 .. Len(s)
    BY <1>2, <1>3
  <2>2. QED
    BY <1>1, <1>2, <1>3, <2>1 DEF Stops
<1>5. /\ GoodBlock(NewBlock(a, p))
      /\ NewBlock(a, p).start = a /\ NewBlock(a, p).next = e
  BY NewBlockGood
<1>6. CASE i > Len(s)
  <2>1. i = Len(s) + 1
    BY <1>2, <1>3, <1>6
  <2>2. t = Splice(s, i, i - 1, NewBlock(a, p))
    BY <1>6 DEF t, i, FillBlocks
  <2>3. Holds(NewBlock(a, p), a)
    BY <1>1, <1>5 DEF Holds
  <2>4. \A k \in 1 .. Len(s) : ~ Holds(s[k], a)
    BY <1>1, <1>2, <1>4, <2>1 DEF Holds
  <2>5. /\ i \in 1 .. Len(s) + 1 /\ i - 1 \in i - 1 .. Len(s)
        /\ \A k \in 1 .. i - 1 : s[k].next < NewBlock(a, p).start
        /\ \A k \in (i - 1) + 1 .. Len(s) : NewBlock(a, p).next < s[k].start
        /\ \A k \in i .. i - 1 : /\ NewBlock(a, p).start <= s[k].start
                                 /\ s[k].next <= NewBlock(a, p).next
    BY <1>1, <1>2, <1>4, <1>5, <2>1
  <2>6. Grows
    BY <1>1, <1>5, <2>2, <2>3, <2>4, <2>5, GrowLemma
  <2>7. ~ IsDuplicate(s, a, p)
    BY <1>2, <2>1 DEF IsDuplicate, i
  <2>8. d = 0
    <3>1. i > Len(s) /\ ~ (i <= Len(s))
      BY <1>2, <1>6, <2>1
    <3>2. QED
      BY <1>c, <2>7, <3>1, DuplicateBytesElse
  <2>9. Cardinality(Covered(t))
          = Cardinality(Covered(s)) + (e - a) - Total(i .. i - 1, Sizes(s))
    BY <1>5, <2>2, <2>5, SpliceCount
  <2>10. Total(i .. i - 1, Sizes(s)) = 0
    <3>1. i \in Int
      BY <1>2, <2>1
    <3>2. QED
      BY <3>1, TotalNone
  <2>11. Counts
    BY <1>1, <1>b, <2>8, <2>9, <2>10
  <2>12. QED
    BY <2>6, <2>7, <2>11 DEF t, d
<1>7. CASE i <= Len(s) /\ a < s[i].start
  <2>1. i \in 1 .. Len(s) /\ i \in Int
    BY <1>2, <1>3, <1>7
  <2>2. \A k \in 1 .. Len(s) : ~ Holds(s[k], a)
    <3> SUFFICES ASSUME NEW k \in 1 .. Len(s) PROVE ~ Holds(s[k], a)
      OBVIOUS
    <3>1. CASE k < i
      <4>1. k \in 1 .. i - 1
        BY <1>2, <2>1, <3>1
      <4>2. s[k].next < a /\ s[k].next \in Int
        BY <1>2, <1>4, <4>1
      <4>3. QED
        BY <1>1, <4>2 DEF Holds
    <3>2. CASE k = i
      BY <1>1, <1>2, <1>7, <3>2 DEF Holds
    <3>3. CASE k > i
      BY <1>1, <1>2, <1>7, <2>1, <3>3 DEF Holds
    <3>4. QED
      BY <2>1, <3>1, <3>2, <3>3
  <2>6. ~ IsDuplicate(s, a, p)
    BY <1>1, <1>2, <1>7, <2>1 DEF IsDuplicate, i
  <2>3. ASSUME e < s[i].start
        PROVE  Grows /\ Counts
    <3>1. t = Splice(s, i, i - 1, NewBlock(a, p))
      BY <1>1, <1>7, <2>1, <2>3 DEF t, i, FillBlocks
    <3>2. Holds(NewBlock(a, p), a)
      BY <1>1, <1>5 DEF Holds
    <3>3. ASSUME NEW k \in (i - 1) + 1 .. Len(s)
          PROVE  NewBlock(a, p).next < s[k].start
      <4>1. k \in 1 .. Len(s) /\ (k = i \/ i < k)
        BY <2>1
      <4>2. s[i].start <= s[k].start
        <5>1. CASE k = i
          BY <1>2, <2>1, <5>1
        <5>2. CASE i < k
          <6>1. s[i].start < s[i].next /\ s[i].next < s[k].start
            BY <1>2, <2>1, <4>1, <5>2
          <6>2. QED
            BY <1>2, <2>1, <4>1, <6>1
        <5>3. QED
          BY <4>1, <5>1, <5>2
      <4>3. QED
        BY <1>1, <1>2, <1>5, <2>1, <2>3, <4>1, <4>2
    <3>4. /\ i \in 1 .. Len(s) + 1 /\ i - 1 \in i - 1 .. Len(s)
          /\ \A k \in 1 .. i - 1 : s[k].next < NewBlock(a, p).start
          /\ \A k \in i .. i - 1 : /\ NewBlock(a, p).start <= s[k].start
                                   /\ s[k].next <= NewBlock(a, p).next
      BY <1>1, <1>2, <1>4, <1>5, <2>1
    <3>5. Grows
      BY <1>1, <1>5, <2>2, <3>1, <3>2, <3>3, <3>4, GrowLemma
    <3>6. d = 0
      <4>1. ~ (i > Len(s)) /\ i <= Len(s) /\ a < s[i].start /\ a + Len(p) < s[i].start
        BY <1>1, <1>2, <1>7, <2>1, <2>3
      <4>2. QED
        BY <1>c, <2>6, <4>1, DuplicateBytesElse
    <3>7. Cardinality(Covered(t))
            = Cardinality(Covered(s)) + (e - a) - Total(i .. i - 1, Sizes(s))
      BY <1>5, <3>1, <3>3, <3>4, SpliceCount
    <3>8. Total(i .. i - 1, Sizes(s)) = 0
      BY <2>1, TotalNone
    <3>9. QED
      BY <1>1, <1>b, <3>5, <3>6, <3>7, <3>8
  <2>4. ASSUME s[i].start <= e
        PROVE  Grows /\ Counts
    <3> DEFINE c == Prepend(s[i], p, s[i].start - a, a)
    <3>1. t = Splice(s, i, i, c)
      BY <1>1, <1>2, <1>7, <2>1, <2>4 DEF t, i, FillBlocks
    <3> HIDE DEF c
    <3>2. GoodBlock(c) /\ c.start = a /\ c.next = s[i].next
      BY <1>2, <1>7, <2>1, <2>4, PrependGood DEF c
    <3>3. Holds(c, a)
      BY <1>1, <1>2, <1>7, <2>1, <3>2 DEF Holds
    <3>4. /\ i \in 1 .. Len(s) + 1 /\ i \in i - 1 .. Len(s)
          /\ \A k \in 1 .. i - 1 : s[k].next < c.start
          /\ \A k \in i + 1 .. Len(s) : c.next < s[k].start
      BY <1>1, <1>2, <1>4, <2>1, <3>2
    <3>5. \A k \in i .. i : c.start <= s[k].start /\ s[k].next <= c.next
      <4>1. \A k \in i .. i : k = i
        BY <2>1
      <4>2. s[i].next <= s[i].next
        BY <1>2, <2>1
      <4>3. QED
        BY <1>1, <1>2, <1>7, <2>1, <3>2, <4>1, <4>2
    <3>6. Grows
      BY <1>1, <2>1, <2>2, <3>1, <3>2, <3>3, <3>4, <3>5, GrowLemma
    <3>7. d = Len(p) - (s[i].start - a)
      <4>1. ~ (i > Len(s)) /\ i <= Len(s) /\ a < s[i].start /\ ~ (a + Len(p) < s[i].start)
        BY <1>1, <1>2, <1>7, <2>1, <2>4
      <4>2. QED
        BY <1>c, <2>6, <4>1, DuplicateBytesElse
    <3>8. Cardinality(Covered(t))
            = Cardinality(Covered(s)) + (s[i].next - a) - Total(i .. i, Sizes(s))
      BY <3>1, <3>2, <3>4, <3>5, SpliceCount
    <3>9. Total(i .. i, Sizes(s)) = s[i].next - s[i].start
      BY <2>1, TotalSingle
    <3>10. Counts
      <4> DEFINE A == s[i].start
                 B == s[i].next
                 n == Cardinality(Covered(s))
                 l == Len(p)
      <4>1. A \in Int /\ B \in Int /\ n \in Int /\ l = e - a /\ a \in Int /\ e \in Int
        BY <1>1, <1>2, <1>b, <2>1
      <4>2. Cardinality(Covered(t)) = n + (B - a) - (B - A) /\ d = l - (A - a)
        BY <3>7, <3>8, <3>9
      <4> HIDE DEF A, B, n, l
      <4>3. d \in Int /\ n + l = Cardinality(Covered(t)) + d
        BY <4>1, <4>2
      <4>4. QED
        BY <4>3 DEF n, l
    <3>11. QED
      BY <3>6, <3>10
  <2>5. Grows /\ Counts
    <3>1. e < s[i].start \/ s[i].start <= e
      BY <1>1, <1>2, <2>1
    <3>2. QED
      BY <2>3, <2>4, <3>1
  <2>7. QED
    BY <2>5, <2>6 DEF t, d
<1>8. CASE i <= Len(s) /\ s[i].start <= a /\ e > s[i].next
  <2>1. i \in 1 .. Len(s)
    BY <1>2, <1>3, <1>8
  <2>2. t = AppendAndMerge(s, i, a, p)
    BY <1>1, <1>2, <1>8, <2>1 DEF t, i, FillBlocks
  <2>3. a <= s[i].next
    <3>1. a < s[i].start \/ a <= s[i].next
      BY <1>3, <1>8 DEF Stops
    <3>2. s[i].start \in Int /\ s[i].start <= a
      BY <1>2, <1>8, <2>1
    <3>3. QED
      BY <1>1, <3>1, <3>2
  <2>4. /\ Grows
        /\ FoundAgain(s, i, a, e) \in Int
        /\ Cardinality(Covered(s)) + Len(p) = Cardinality(Covered(t)) + FoundAgain(s, i, a, e)
    <3>1. /\ \A k \in 1 .. i - 1 : s[k].next < a
          /\ s[i].start <= a /\ a <= s[i].next /\ s[i].next < e
      BY <1>1, <1>2, <1>4, <1>8, <2>1, <2>3
    <3>2. LET u == AppendAndMerge(s, i, a, p) IN
          /\ GoodList(u) /\ Len(u) >= 1
          /\ Covered(s) \subseteq Covered(u)
          /\ Covered(s) # Covered(u)
          /\ FoundAgain(s, i, a, e) \in Int
          /\ Cardinality(Covered(s)) + Len(p) = Cardinality(Covered(u)) + FoundAgain(s, i, a, e)
      BY <2>1, <3>1, AppendLemma
    <3>3. QED
      BY <2>2, <3>2
  <2>5. ~ IsDuplicate(s, a, p)
    BY <1>1, <1>2, <1>8, <2>1 DEF IsDuplicate, i
  <2>6. ~ (a < s[i].start)
    BY <1>1, <1>2, <1>8, <2>1
  <2>7. d = FoundAgain(s, i, a, e)
    <3>1. Len(p) \in Nat /\ i = StopAt(s, a)
      BY <1>1 DEF i
    <3>2. DuplicateBytes(s, a, p) = FoundAgain(s, i, a, a + Len(p))
      BY <1>1, <2>1, <2>5, <2>6, <3>1, DuplicateBytesAppend
    <3>3. QED
      BY <1>1, <3>2 DEF d
  <2>8. QED
    BY <2>4, <2>5, <2>7 DEF t, d
<1>9. CASE i <= Len(s) /\ s[i].start <= a /\ e <= s[i].next
  <2>1. i \in 1 .. Len(s)
    BY <1>2, <1>3, <1>9
  <2>2. t = s
    BY <1>1, <1>2, <1>9, <2>1 DEF t, i, FillBlocks
  <2>3. IsDuplicate(s, a, p)
    BY <1>1, <1>2, <1>9, <2>1 DEF IsDuplicate, i
  <2>4. d = Len(p)
    <3>1. ~ (i > Len(s)) /\ ~ (a < s[i].start)
      BY <1>1, <1>2, <1>9, <2>1
    <3>2. QED
      BY <1>c, <2>3, <3>1, DuplicateBytesElse
  <2>5. Counts
    BY <1>1, <2>2, <2>4
  <2>6. QED
    BY <2>2, <2>3, <2>5 DEF t, d
<1>10. QED
  <2>1. i <= Len(s) => s[i].start \in Int /\ s[i].next \in Int
    BY <1>2, <1>3
  <2>2. i \in Int
    BY <1>2, <1>3
  <2>3. QED
    BY <1>1, <1>2, <1>6, <1>7, <1>8, <1>9, <2>1, <2>2

-----------------------------------------------------------------------------
(* Sequence numbers.                                                       *)

\* Unsigned subtraction undoes unsigned addition, also across the wrap.
LEMMA SeqLemma ==
  ASSUME NEW start \in SeqNum, NEW d \in SeqNum
  PROVE  SeqAdd(start, d) \in SeqNum /\ SeqSub(SeqAdd(start, d), start) = d
  BY WidthAssumption DEF SeqNum, SeqAdd, SeqSub

\* The cut removes exactly the bytes past the chunk's end.
LEMMA PastEndLemma ==
  ASSUME NEW start \in SeqNum, NEW d \in 0 .. Length - 1, NEW n \in 1 .. MaxPayload
  PROVE  PastEnd(SeqAdd(start, d), n, start) =
           IF d + n > Length THEN d + n - Length ELSE 0
  BY LengthType, WidthAssumption, BoundAssumption DEF PastEnd, SeqNum, SeqAdd, SeqSub

\* So what FillGaps passes on is a part of the chunk.
LEMMA KeptLemma ==
  ASSUME NEW start \in SeqNum, NEW d \in 0 .. Length - 1, NEW n \in 1 .. MaxPayload
  PROVE  LET seq  == SeqAdd(start, d)
             kept == SubSeq(Payload(SeqSub(seq, start), n), 1, n - PastEnd(seq, n, start))
             e    == IF d + n > Length THEN Length ELSE d + n
         IN  Slice(kept, d, e) /\ SeqSub(seq, start) = d
<1> DEFINE seq == SeqAdd(start, d)
           e   == IF d + n > Length THEN Length ELSE d + n
           q   == Payload(d, n)
<1>1. d \in SeqNum /\ d \in Int /\ n \in Int /\ Length \in Int
  BY LengthType, WidthAssumption, BoundAssumption DEF SeqNum
<1>2. SeqSub(seq, start) = d
  BY <1>1, SeqLemma
<1>3. n - PastEnd(seq, n, start) = e - d /\ e \in Int /\ d < e /\ e <= Length /\ e <= d + n
  BY <1>1, PastEndLemma
<1>4. q \in Seq(Byte) /\ Len(q) = n /\ \A k \in 1 .. e - d : q[k] = Content[d + k]
  <2>1. \A k \in 1 .. n : (IF d + k <= Length THEN Content[d + k] ELSE Foreign) \in Byte
    BY <1>1 DEF Byte
  <2>2. q \in Seq(Byte) /\ Len(q) = n
    BY <1>1, <2>1 DEF Payload
  <2>3. \A k \in 1 .. e - d : k \in 1 .. n /\ d + k <= Length
    BY <1>1, <1>3
  <2>4. QED
    BY <2>2, <2>3 DEF Payload
<1> HIDE DEF q, e
<1> DEFINE u == SubSeq(q, 1, e - d)
<1>5. u \in Seq(Byte) /\ Len(u) = e - d /\ \A k \in 1 .. e - d : u[k] = q[k]
  BY <1>1, <1>3, <1>4
<1>6. d \in 0 .. Length /\ e \in 0 .. Length
  BY <1>1, <1>3
<1> HIDE DEF u
<1>7. Slice(u, d, e)
  BY <1>3, <1>4, <1>5, <1>6 DEF Slice
<1>8. QED
  BY <1>2, <1>3, <1>7 DEF u, q, e

-----------------------------------------------------------------------------
\* The test that ends fill_gaps_in_chunk looks only at the size of the first
\* block; for a list in order it holds exactly when no byte is missing.
LEMMA DoneLemma ==
  ASSUME NEW s, GoodList(s), Len(s) >= 1
  PROVE  /\ Len(s[1].data) >= Length <=> Covered(s) = 0 .. Length - 1
         /\ Len(s[1].data) >= Length => s[1].data = Content
<1>1. /\ s \in Seq(Block) /\ Len(s) \in Nat
      /\ \A k \in 1 .. Len(s) :
           /\ GoodBlock(s[k])
           /\ s[k].start \in Int /\ s[k].next \in Int
           /\ 0 <= s[k].start /\ s[k].start < s[k].next /\ s[k].next <= Length
      /\ \A k, l \in 1 .. Len(s) : k < l => s[k].next < s[l].start
  BY ListEnds
<1>2. 1 \in 1 .. Len(s) /\ Length \in Int /\ Length > 0
  BY <1>1, LengthType
<1>3. /\ s[1].data \in Seq(Byte) /\ Len(s[1].data) = s[1].next - s[1].start
      /\ \A k \in 1 .. s[1].next - s[1].start : s[1].data[k] = Content[s[1].start + k]
  BY <1>1, <1>2 DEF GoodBlock, Slice
<1>4. ASSUME Len(s[1].data) >= Length
      PROVE  Covered(s) = 0 .. Length - 1 /\ s[1].data = Content
  <2>1. s[1].start = 0 /\ s[1].next = Length
    BY <1>1, <1>2, <1>3, <1>4
  <2>2. \A o \in 0 .. Length - 1 : o \in Covered(s)
    <3> SUFFICES ASSUME NEW o \in 0 .. Length - 1 PROVE o \in Covered(s)
      OBVIOUS
    <3>1. o \in Int /\ Holds(s[1], o)
      BY <1>2, <2>1 DEF Holds
    <3>2. QED
      BY <1>1, <1>2, <3>1, CoveredBy
  <2>3. Covered(s) \subseteq 0 .. Length - 1
    BY <1>1, CoveredInt
  <2>4. Content \in Seq(Byte) /\ Len(Content) = Length
    BY ContentAssumption, LengthType
  <2>5. Len(s[1].data) = Length /\ \A k \in 1 .. Length : s[1].data[k] = Content[k]
    BY <1>2, <1>3, <2>1
  <2>6. s[1].data = Content
    BY <1>3, <2>4, <2>5, SeqEqual
  <2>7. QED
    BY <2>2, <2>3, <2>6
<1>5. ASSUME Covered(s) = 0 .. Length - 1
      PROVE  Len(s[1].data) >= Length
  <2>1. 0 \in Covered(s) /\ Length - 1 \in Covered(s)
    BY <1>2, <1>5
  <2>2. PICK k \in 1 .. Len(s) : Holds(s[k], 0)
    BY <1>1, <2>1, CoveredBy
  <2>3. k = 1
    BY <1>1, <1>2, <2>2 DEF Holds
  <2>4. ASSUME s[1].next < Length
        PROVE  FALSE
    <3>1. s[1].next \in 0 .. Length - 1
      BY <1>1, <1>2, <2>4
    <3>2. PICK l \in 1 .. Len(s) : Holds(s[l], s[1].next)
      BY <1>1, <1>2, <1>5, <3>1, CoveredBy
    <3>3. CASE l = 1
      BY <1>1, <1>2, <3>2, <3>3 DEF Holds
    <3>4. CASE l > 1
      BY <1>1, <1>2, <3>2, <3>4 DEF Holds
    <3>5. QED
      BY <3>3, <3>4
  <2>5. s[1].start = 0 /\ s[1].next = Length
    BY <1>1, <1>2, <2>2, <2>3, <2>4 DEF Holds
  <2>6. QED
    BY <1>2, <1>3, <2>5
<1>6. QED
  BY <1>4, <1>5

-----------------------------------------------------------------------------
(***************************************************************************)
(* The inductive invariant: the list is in order, a flow's recorded start  *)
(* is the true one, a chunk that was handed over is complete, so that      *)
(* every later packet of it is a duplicate, and the statistics add up.     *)
(***************************************************************************)
IInv ==
  /\ flow_seq_map \in [Flow -> SeqNum \cup {Absent}]
  /\ \A f \in Flow : flow_seq_map[f] \in {Absent, StartSeq[f]}
  /\ GoodList(lcb)
  /\ uniquely_contributing_flows \subseteq Flow
  /\ tapped \in Nat
  /\ sent \in {<<>>, <<Content>>}
  /\ sent # <<>> => Covered(lcb) = 0 .. Length - 1
  /\ numDuplicateBytes \in Int
  /\ BytesAccounted

\* What one call of fill_gaps_in_chunk does, whatever the packet.
LEMMA FillGapsLemma ==
  ASSUME IInv, NEW f \in Flow, NEW d \in 0 .. Length - 1, NEW n \in 1 .. MaxPayload,
         FillGaps(f, SeqAdd(StartSeq[f], d), n, StartSeq[f])
  PROVE  /\ GoodList(lcb')
         /\ uniquely_contributing_flows' \subseteq Flow
         /\ tapped' \in Nat
         /\ numDuplicateBytes' \in Int
         /\ BytesAccounted'
         /\ \/ lcb' = lcb /\ sent' = sent
            \/ /\ Covered(lcb) \subseteq Covered(lcb') /\ Covered(lcb) # Covered(lcb')
               /\ sent = <<>>
               /\ sent' = IF Covered(lcb') = 0 .. Length - 1 THEN <<Content>> ELSE <<>>
<1> DEFINE start == StartSeq[f]
           seq   == SeqAdd(start, d)
           kept  == SubSeq(Payload(SeqSub(seq, start), n), 1, n - PastEnd(seq, n, start))
           e     == IF d + n > Length THEN Length ELSE d + n
           dup   == IsDuplicate(lcb, d, kept)
           more  == DuplicateBytes(lcb, d, kept)
<1>1. start \in SeqNum
  BY StartAssumption
<1>2. Slice(kept, d, e) /\ SeqSub(seq, start) = d
  BY <1>1, KeptLemma
<1>3. /\ lcb' = FillBlocks(lcb, d, kept)
      /\ numDuplicateBytes' = numDuplicateBytes + more
      /\ uniquely_contributing_flows' =
           IF dup THEN uniquely_contributing_flows
           ELSE uniquely_contributing_flows \cup {f}
      /\ sent' = IF ChunkDone(dup, lcb') THEN Append(sent, lcb'[1].data) ELSE sent
      /\ tapped' = tapped + Len(kept)
  BY <1>2 DEF FillGaps
<1> HIDE DEF start, seq, kept, e
<1>4. Len(kept) \in Nat
  BY <1>2, LengthType DEF Slice
<1>5. /\ GoodList(lcb')
      /\ dup => lcb' = lcb
      /\ ~ dup => /\ Len(lcb') >= 1
                  /\ Covered(lcb) \subseteq Covered(lcb')
                  /\ Covered(lcb) # Covered(lcb')
      /\ more \in Int
      /\ Cardinality(Covered(lcb)) + Len(kept) = Cardinality(Covered(lcb')) + more
  BY <1>2, <1>3, FillLemma DEF IInv
<1> HIDE DEF dup, more
<1>a. numDuplicateBytes' \in Int /\ BytesAccounted'
  <2> DEFINE m == Cardinality(Covered(lcb))
             w == Cardinality(Covered(lcb'))
             l == Len(kept)
  <2>1. /\ tapped = m + numDuplicateBytes /\ tapped \in Nat /\ numDuplicateBytes \in Int
        /\ tapped' = tapped + l /\ numDuplicateBytes' = numDuplicateBytes + more
        /\ more \in Int /\ l \in Nat /\ m + l = w + more
    BY <1>3, <1>4, <1>5 DEF IInv, BytesAccounted
  <2>2. m \in Nat /\ w \in Nat
    BY <1>5, CoveredFinite DEF IInv
  <2> HIDE DEF m, w, l
  <2>3. numDuplicateBytes' \in Int /\ tapped' = w + numDuplicateBytes'
    BY <2>1, <2>2
  <2>4. QED
    BY <2>3 DEF BytesAccounted, w
<1>6. uniquely_contributing_flows' \subseteq Flow /\ tapped' \in Nat
  BY <1>3, <1>4 DEF IInv
<1>7. CASE dup
  BY <1>3, <1>5, <1>6, <1>7, <1>a DEF ChunkDone
<1>8. CASE ~ dup
  <2>1. Covered(lcb') \subseteq 0 .. Length - 1
    BY <1>5, CoveredInt DEF GoodList
  <2>2. sent = <<>>
    BY <1>5, <1>8, <2>1 DEF IInv
  <2>3. /\ Len(lcb'[1].data) >= Length <=> Covered(lcb') = 0 .. Length - 1
        /\ Len(lcb'[1].data) >= Length => lcb'[1].data = Content
    BY <1>5, <1>8, DoneLemma
  <2>4. sent' = IF Covered(lcb') = 0 .. Length - 1 THEN Append(sent, Content) ELSE sent
    BY <1>3, <1>8, <2>3 DEF ChunkDone
  <2>5. Append(<<>>, Content) = <<Content>>
    OBVIOUS
  <2>6. sent' = IF Covered(lcb') = 0 .. Length - 1 THEN <<Content>> ELSE <<>>
    BY <2>2, <2>4, <2>5
  <2>7. QED
    BY <1>5, <1>6, <1>8, <1>a, <2>2, <2>6
<1>9. QED
  BY <1>7, <1>8

\* A step is a call of fill_gaps_in_chunk on a packet of some flow, and
\* leaves the recorded starts right.
LEMMA NextLemma ==
  ASSUME IInv, Next
  PROVE  /\ \E f \in Flow, d \in 0 .. Length - 1, n \in 1 .. MaxPayload :
              FillGaps(f, SeqAdd(StartSeq[f], d), n, StartSeq[f])
         /\ flow_seq_map' \in [Flow -> SeqNum \cup {Absent}]
         /\ \A f \in Flow : flow_seq_map'[f] \in {Absent, StartSeq[f]}
<1> PICK f \in Flow, n \in 1 .. MaxPayload :
      \/ HeaderPacket(f, n)
      \/ \E offset \in 1 .. Length - 1 : DataPacket(f, offset, n)
  BY DEF Next
<1>1. StartSeq[f] \in SeqNum /\ \A g \in Flow : StartSeq[g] \in SeqNum
  BY StartAssumption
<1>2. CASE HeaderPacket(f, n)
  <2>1. SeqAdd(StartSeq[f], 0) = StartSeq[f] /\ 0 \in 0 .. Length - 1
    BY <1>1, LengthType, WidthAssumption DEF SeqAdd, SeqNum
  <2>2. FillGaps(f, SeqAdd(StartSeq[f], 0), n, StartSeq[f])
    BY <1>2, <2>1 DEF HeaderPacket
  <2>3. flow_seq_map' = [flow_seq_map EXCEPT ![f] = StartSeq[f]]
    BY <1>2 DEF HeaderPacket
  <2>4. flow_seq_map' \in [Flow -> SeqNum \cup {Absent}]
    BY <1>1, <2>3 DEF IInv
  <2>5. \A g \in Flow : flow_seq_map'[g] \in {Absent, StartSeq[g]}
    BY <2>3 DEF IInv
  <2>6. QED
    BY <2>1, <2>2, <2>4, <2>5
<1>3. CASE \E offset \in 1 .. Length - 1 : DataPacket(f, offset, n)
  <2> PICK d \in 1 .. Length - 1 : DataPacket(f, d, n)
    BY <1>3
  <2>1. flow_seq_map[f] = StartSeq[f]
    BY DEF DataPacket, IInv
  <2>2. FillGaps(f, SeqAdd(StartSeq[f], d), n, StartSeq[f])
    BY <2>1 DEF DataPacket
  <2>3. d \in 0 .. Length - 1
    BY LengthType
  <2>4. flow_seq_map' = flow_seq_map
    BY DEF DataPacket
  <2>5. QED
    BY <2>2, <2>3, <2>4 DEF IInv
<1>4. QED
  BY <1>2, <1>3

\* The empty list of a new ReconstructedChunk satisfies the inductive invariant.
LEMMA InitIInv == Init => IInv
<1> SUFFICES ASSUME Init PROVE IInv
  OBVIOUS
<1>1. GoodList(lcb)
  BY DEF Init, GoodList, Apart
<1>2. flow_seq_map \in [Flow -> SeqNum \cup {Absent}]
  BY DEF Init
<1>3. \A f \in Flow : flow_seq_map[f] \in {Absent, StartSeq[f]}
  BY DEF Init
<1>4. numDuplicateBytes \in Int /\ BytesAccounted
  <2>1. Covered(lcb) = {}
    BY DEF Init, Covered
  <2>2. QED
    BY <2>1, FS_EmptySet DEF Init, BytesAccounted
<1>5. QED
  BY <1>1, <1>2, <1>3, <1>4 DEF Init, IInv

\* Every packet, through handle_ip and fill_gaps_in_chunk, preserves the
\* inductive invariant.
LEMMA StepIInv == IInv /\ [Next]_vars => IInv'
<1> SUFFICES ASSUME IInv, [Next]_vars PROVE IInv'
  OBVIOUS
<1>1. CASE Next
  <2>1. PICK f \in Flow, d \in 0 .. Length - 1, n \in 1 .. MaxPayload :
          FillGaps(f, SeqAdd(StartSeq[f], d), n, StartSeq[f])
    BY <1>1, NextLemma
  <2>2. /\ flow_seq_map' \in [Flow -> SeqNum \cup {Absent}]
        /\ \A g \in Flow : flow_seq_map'[g] \in {Absent, StartSeq[g]}
    BY <1>1, NextLemma
  <2>3. /\ GoodList(lcb')
        /\ uniquely_contributing_flows' \subseteq Flow
        /\ tapped' \in Nat
        /\ numDuplicateBytes' \in Int /\ BytesAccounted'
        /\ \/ lcb' = lcb /\ sent' = sent
           \/ /\ sent = <<>>
              /\ sent' = IF Covered(lcb') = 0 .. Length - 1 THEN <<Content>> ELSE <<>>
    BY <2>1, FillGapsLemma
  <2>4. QED
    BY <2>2, <2>3 DEF IInv
<1>2. CASE UNCHANGED vars
  BY <1>2 DEF IInv, vars, GoodList, Apart, Covered, BytesAccounted
<1>3. QED
  BY <1>1, <1>2

\* In every reachable state of the reassembly, IInv holds.
LEMMA Invariance == Spec => []IInv
  BY InitIInv, StepIInv, PTL DEF Spec

\* The reassembly state always has its types: in particular no block ever
\* reaches past the chunk.
THEOREM TypeCorrect == Spec => []TypeOK
<1>1. IInv => TypeOK
  <2> SUFFICES ASSUME IInv PROVE TypeOK
    OBVIOUS
  <2>1. Content \in Seq(Byte)
    BY ContentAssumption
  <2>2. sent \in Seq(Seq(Byte))
    <3>1. <<>> \in Seq(Seq(Byte)) /\ <<Content>> \in Seq(Seq(Byte))
      BY <2>1
    <3>2. QED
      BY <3>1, Zenon DEF IInv
  <2>3. QED
    BY <2>2 DEF IInv, TypeOK, GoodList
<1>2. QED
  BY <1>1, Invariance, PTL

\* fill_gaps_in_chunk keeps the block list sorted, with a gap between any two
\* blocks.
THEOREM BlocksStaySeparated == Spec => []BlocksSeparated
<1>1. IInv => BlocksSeparated
  BY ListEnds DEF IInv, BlocksSeparated
<1>2. QED
  BY <1>1, Invariance, PTL

\* Every block holds exactly the chunk's bytes of its range.
THEOREM BytesStayInPlace == Spec => []BytesInPlace
<1>1. IInv => BytesInPlace
  BY DEF IInv, BytesInPlace, GoodList, GoodBlock, Slice
<1>2. QED
  BY <1>1, Invariance, PTL

\* Whatever is handed to the sniffer plugin is the chunk.
THEOREM OnlyWholeChunksSent == Spec => []SentWhole
<1>1. IInv => SentWhole
  BY DEF IInv, SentWhole
<1>2. QED
  BY <1>1, Invariance, PTL

\* The chunk is handed to the sniffer plugin at most once.
THEOREM ChunkSentOnce == Spec => []SentOnce
<1>1. IInv => SentOnce
  <2>1. Len(<<>>) <= 1 /\ Len(<<Content>>) <= 1
    OBVIOUS
  <2>2. QED
    BY <2>1, Zenon DEF IInv, SentOnce
<1>2. QED
  BY <1>1, Invariance, PTL

\* The statistics add up: every payload byte given to fill_gaps_in_chunk is
\* stored now or counted in numDuplicateBytes.
THEOREM BytesStayAccounted == Spec => []BytesAccounted
<1>1. IInv => BytesAccounted
  BY DEF IInv
<1>2. QED
  BY <1>1, Invariance, PTL

\* fill_gaps_in_chunk implements the abstract assembly of a chunk.
THEOREM Refinement == Spec => ImplementsAssembly
<1>1. Init => Assembly!Init
  BY DEF Init, Assembly!Init, Covered
<1>2. IInv /\ [Next]_vars => [Assembly!Next]_(Assembly!vars)
  <2> SUFFICES ASSUME IInv, [Next]_vars PROVE [Assembly!Next]_(Assembly!vars)
    OBVIOUS
  <2>1. CASE UNCHANGED vars
    BY <2>1 DEF vars, Assembly!vars, Covered
  <2>2. CASE Next
    <3>1. PICK f \in Flow, d \in 0 .. Length - 1, n \in 1 .. MaxPayload :
            FillGaps(f, SeqAdd(StartSeq[f], d), n, StartSeq[f])
      BY <2>2, NextLemma
    <3>2. /\ GoodList(lcb')
          /\ \/ lcb' = lcb /\ sent' = sent
             \/ /\ Covered(lcb) \subseteq Covered(lcb') /\ Covered(lcb) # Covered(lcb')
                /\ sent = <<>>
                /\ sent' = IF Covered(lcb') = 0 .. Length - 1 THEN <<Content>> ELSE <<>>
      BY <3>1, FillGapsLemma
    <3>3. CASE lcb' = lcb /\ sent' = sent
      BY <3>3 DEF Assembly!vars, Covered
    <3>4. CASE /\ Covered(lcb) \subseteq Covered(lcb') /\ Covered(lcb) # Covered(lcb')
               /\ sent = <<>>
               /\ sent' = IF Covered(lcb') = 0 .. Length - 1 THEN <<Content>> ELSE <<>>
      <4> DEFINE S == Covered(lcb') \ Covered(lcb)
      <4>1. S # {} /\ Covered(lcb') = Covered(lcb) \cup S
        BY <3>4
      <4>2. Assembly!Offsets = 0 .. Length - 1
        BY DEF Assembly!Offsets, Length
      <4>3. S \in SUBSET (Assembly!Offsets \ Covered(lcb))
        BY <3>2, <4>2, CoveredInt DEF GoodList
      <4>4. Append(sent, Content) = <<Content>>
        BY <3>4
      <4>5. sent' = IF Covered(lcb') = Assembly!Offsets THEN Append(sent, Content) ELSE sent
        BY <3>4, <4>2, <4>4
      <4>6. Assembly!Learn(S)
        BY <4>1, <4>5 DEF Assembly!Learn
      <4>7. QED
        BY <4>3, <4>6 DEF Assembly!Next
    <3>5. QED
      BY <3>2, <3>3, <3>4
  <2>3. QED
    BY <2>1, <2>2
<1>3. QED
  BY <1>1, <1>2, Invariance, PTL DEF Spec, ImplementsAssembly, Assembly!Spec

=============================================================================
