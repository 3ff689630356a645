----------------------------- MODULE GtcdGetProofs -----------------------------
(***************************************************************************)
(* Proofs about GtcdGet, for every object, every size of the chunks and of *)
(* a reply, and any number of transfers: what a client was sent is in its  *)
(* place in the object, whatever order the chunks came in; and, if no      *)
(* object has the same chunk twice, the end is only announced to a client  *)
(* that has everything, and the refcounts of the storage add up.           *)
(***************************************************************************)
EXTENDS GtcdGet, SumTheorems, SequenceTheorems

-----------------------------------------------------------------------------
(* Where the chunks are in the object *)

Sizes(x) == [i \in 1 .. N(x) |-> SizeAt(x, i)]

\* The number of chunks, and their sizes.
LEMMA ChunksOfObject ==
  ASSUME NEW x \in Xfer
  PROVE  /\ N(x) \in Nat
         /\ \A i \in 1 .. N(x) : Descs[x][i] \in Id /\ SizeAt(x, i) \in Nat \ {0}
         /\ \A i \in 1 .. N(x) : Sizes(x)[i] = SizeAt(x, i) /\ Sizes(x)[i] \in Nat
<1>1. Descs[x] \in Seq(Id)
  BY DescsAssumption
<1>2. N(x) \in Nat /\ \A i \in 1 .. N(x) : Descs[x][i] \in Id
  BY <1>1, LenProperties, ElementOfSeq DEF N
<1>3. \A id \in Id : Size[id] \in Nat \ {0}
  BY SizeAssumption
<1>4. QED
  BY <1>2, <1>3 DEF SizeAt, Sizes

\* The bytes of a set of chunks are the sum of their sizes.
LEMMA BytesAreTotal ==
  ASSUME NEW x \in Xfer, NEW S \in SUBSET (1 .. N(x))
  PROVE  Bytes(x, S) = Total(S, Sizes(x)) /\ Bytes(x, S) \in Nat /\ IsFiniteSet(S)
<1> DEFINE g == [s \in SUBSET S |-> Total(s, Sizes(x))]
           Step(h) == [s \in SUBSET S |->
                         IF s = {} THEN 0
                         ELSE SizeAt(x, CHOOSE y \in s : TRUE) + h[s \ {CHOOSE y \in s : TRUE}]]
<1>1. IsFiniteSet(S)
  <2>1. N(x) \in Int /\ 1 \in Int
    BY ChunksOfObject
  <2>2. IsFiniteSet(1 .. N(x))
    BY <2>1, FS_Interval
  <2>3. QED
    BY <2>2, FS_Subset
<1>2. \A i \in S : Sizes(x)[i] \in Nat /\ Sizes(x)[i] = SizeAt(x, i)
  BY ChunksOfObject
<1>3. /\ Summed(S, Sizes(x), g)
      /\ \A h, k : Summed(S, Sizes(x), h) /\ Summed(S, Sizes(x), k) => h = k
  BY <1>1, <1>2, SumIsTotal
<1>4. ASSUME NEW h
      PROVE  (h = Step(h)) <=> Summed(S, Sizes(x), h)
  <2>1. ASSUME NEW s \in SUBSET S, s # {}
        PROVE  Sizes(x)[Chosen(s)] = SizeAt(x, CHOOSE y \in s : TRUE)
    <3>1. Chosen(s) \in S
      BY <2>1 DEF Chosen
    <3>2. QED
      BY <1>2, <3>1 DEF Chosen
  <2>2. Step(h) = [s \in SUBSET S |-> IF s = {} THEN 0
                                      ELSE Sizes(x)[Chosen(s)] + h[s \ {Chosen(s)}]]
    BY <2>1 DEF Chosen
  <2>3. QED
    BY <2>2 DEF Summed
<1>5. g = Step(g) /\ \A h : h = Step(h) => h = g
  BY <1>3, <1>4
<1>6. Bytes(x, S) = g[S]
  <2> HIDE DEF g
  <2>1. QED
    BY <1>5 DEF Bytes, MapThenSumSet, MapThenFoldSet
<1>7. Bytes(x, S) = Total(S, Sizes(x))
  BY <1>6
<1>8. QED
  BY <1>1, <1>2, <1>7, PairsFinite

\* The bytes of two sets of chunks.
LEMMA BytesOfBoth ==
  ASSUME NEW x \in Xfer, NEW A \in SUBSET (1 .. N(x)), NEW B \in SUBSET (1 .. N(x)), A \cap B = {}
  PROVE  Bytes(x, A \cup B) = Bytes(x, A) + Bytes(x, B)
<1>1. IsFiniteSet(1 .. N(x))
  BY BytesAreTotal
<1>2. \A i \in 1 .. N(x) : Sizes(x)[i] \in Nat
  BY ChunksOfObject
<1>3. ASSUME NEW S, IsFiniteSet(S), NEW w, \A i \in S : w[i] \in Nat
      PROVE  \A C, D \in SUBSET S : C \cap D = {} => Total(C \cup D, w) = Total(C, w) + Total(D, w)
  BY <1>3, TotalWithin
<1>4. \A C, D \in SUBSET (1 .. N(x)) :
         C \cap D = {} => Total(C \cup D, Sizes(x)) = Total(C, Sizes(x)) + Total(D, Sizes(x))
  BY <1>1, <1>2, <1>3
<1>5. QED
  BY <1>4, BytesAreTotal

\* A run of chunks fills the bytes from its first chunk to the one after its last.
LEMMA Offsets ==
  ASSUME NEW x \in Xfer
  PROVE  /\ Offset(x, 1) = 0
         /\ \A i \in 1 .. N(x) + 1 : Offset(x, i) \in Nat
         /\ Bytes(x, 1 .. N(x)) = Offset(x, N(x) + 1)
         /\ \A i \in 1 .. N(x) : \A j \in i .. N(x) :
              /\ Bytes(x, i .. j) \in Nat
              /\ Offset(x, j + 1) = Offset(x, i) + Bytes(x, i .. j)
         /\ \A i \in 1 .. N(x) : Offset(x, i + 1) = Offset(x, i) + SizeAt(x, i)
<1>1. N(x) \in Nat
  BY ChunksOfObject
<1>2. Offset(x, 1) = 0
  <2>1. 1 .. 1 - 1 = {}
    OBVIOUS
  <2>2. QED
    BY <2>1, BytesAreTotal, TotalEmpty DEF Offset
<1>3. \A i \in 1 .. N(x) + 1 : Offset(x, i) \in Nat
  <2>1. ASSUME NEW i \in 1 .. N(x) + 1
        PROVE  1 .. i - 1 \in SUBSET (1 .. N(x))
    BY <1>1
  <2>2. QED
    BY <2>1, BytesAreTotal DEF Offset
<1>4. Bytes(x, 1 .. N(x)) = Offset(x, N(x) + 1)
  BY <1>1 DEF Offset
<1>5. ASSUME NEW i \in 1 .. N(x), NEW j \in i .. N(x)
      PROVE  Bytes(x, i .. j) \in Nat /\ Offset(x, j + 1) = Offset(x, i) + Bytes(x, i .. j)
  <2>1. i .. j \in SUBSET (1 .. N(x)) /\ 1 .. i - 1 \in SUBSET (1 .. N(x))
    BY <1>1
  <2>2. (1 .. i - 1) \cap (i .. j) = {} /\ (1 .. i - 1) \cup (i .. j) = 1 .. (j + 1) - 1
    BY <1>1
  <2>3. Bytes(x, (1 .. i - 1) \cup (i .. j)) = Bytes(x, 1 .. i - 1) + Bytes(x, i .. j)
    BY <2>1, <2>2, BytesOfBoth
  <2>4. QED
    BY <2>1, <2>2, <2>3, BytesAreTotal DEF Offset
<1>6. ASSUME NEW i \in 1 .. N(x)
      PROVE  Offset(x, i + 1) = Offset(x, i) + SizeAt(x, i)
  <2>1. i .. i = {i} /\ i \in i .. N(x)
    BY <1>1
  <2>2. Bytes(x, {i}) = Total({i}, Sizes(x))
    BY BytesAreTotal
  <2>3. Total({i}, Sizes(x)) = SizeAt(x, i)
    BY TotalOne, ChunksOfObject
  <2>4. QED
    BY <1>5, <2>1, <2>2, <2>3
<1>7. QED
  BY <1>2, <1>3, <1>4, <1>5, <1>6

\* The order of the offsets is that of the chunks.
LEMMA OffsetsGrow ==
  ASSUME NEW x \in Xfer, NEW i \in 1 .. N(x) + 1, NEW k \in i .. N(x) + 1
  PROVE  Offset(x, i) <= Offset(x, k) /\ Offset(x, k) <= Offset(x, N(x) + 1)
<1>1. N(x) \in Nat
  BY ChunksOfObject
<1>2. ASSUME NEW m \in 1 .. N(x) + 1, NEW n \in m .. N(x) + 1
      PROVE  Offset(x, m) <= Offset(x, n)
  <2>1. CASE m = n
    BY <1>1, <2>1, Offsets
  <2>2. CASE m < n
    <3>1. m \in 1 .. N(x) /\ n - 1 \in m .. N(x) /\ (n - 1) + 1 = n
      BY <1>1, <2>2
    <3>2. Bytes(x, m .. n - 1) \in Nat /\ Offset(x, n) = Offset(x, m) + Bytes(x, m .. n - 1)
      BY <3>1, Offsets
    <3>3. Offset(x, m) \in Nat
      BY Offsets
    <3>4. QED
      BY <3>2, <3>3
  <2>3. QED
    BY <1>1, <2>1, <2>2
<1>3. k \in 1 .. N(x) + 1 /\ N(x) + 1 \in k .. N(x) + 1
  BY <1>1
<1>4. QED
  BY <1>2, <1>3

\* A nonempty set of numbers has a least one.
LEMMA Least ==
  ASSUME NEW T \in SUBSET Nat, T # {}
  PROVE  \E m \in T : \A n \in T : m <= n
<1>1. PICK m \in T : \A n \in T : ~ (<<n, m>> \in OpToRel(<, Nat))
  BY NatLessThanWellFounded, WFMin, Zenon
<1>2. \A n \in T : ~ (n < m)
  BY <1>1 DEF OpToRel
<1>3. QED
  BY <1>2

\* Every byte of the object is in a chunk.
LEMMA InSomeChunk ==
  ASSUME NEW x \in Xfer, NEW p \in 1 .. Offset(x, N(x) + 1)
  PROVE  \E i \in 1 .. N(x) : Offset(x, i) < p /\ p <= Offset(x, i + 1)
<1> DEFINE T == {i \in 1 .. N(x) : p <= Offset(x, i + 1)}
<1>1. N(x) \in Nat /\ Offset(x, 1) = 0 /\ \A i \in 1 .. N(x) + 1 : Offset(x, i) \in Nat
  BY ChunksOfObject, Offsets
<1>2. Offset(x, N(x) + 1) \in Nat /\ p \in Nat /\ 1 <= p /\ p <= Offset(x, N(x) + 1)
  BY <1>1
<1>3. N(x) # 0
  BY <1>1, <1>2
<1>4. N(x) \in T /\ T \in SUBSET Nat
  BY <1>1, <1>2, <1>3
<1>5. PICK m \in T : \A n \in T : m <= n
  BY <1>4, Least
<1>6. m \in 1 .. N(x) /\ p <= Offset(x, m + 1)
  BY <1>5
<1>7. Offset(x, m) < p
  <2>1. CASE m = 1
    BY <1>1, <1>2, <2>1
  <2>2. CASE m # 1
    <3>1. m - 1 \in 1 .. N(x) /\ m - 1 \notin T /\ (m - 1) + 1 = m
      BY <1>1, <1>5, <1>6, <2>2
    <3>2. ~ (p <= Offset(x, m)) /\ Offset(x, m) \in Nat
      BY <1>1, <1>6, <3>1
    <3>3. QED
      BY <1>2, <3>2
  <2>3. QED
    BY <2>1, <2>2
<1>8. QED
  BY <1>6, <1>7

\* The bytes that clients are sent.
Payload == UNION {{Object(x)[p] : p \in 1 .. Bytes(x, 1 .. N(x))} : x \in Xfer}

\* A function on 1 .. n is a sequence.
LEMMA SeqOf ==
  ASSUME NEW T, NEW n \in Nat, NEW f \in [1 .. n -> T]
  PROVE  f \in Seq(T) /\ Len(f) = n
<1>1. f \in Seq(T)
  BY SeqDef
<1>2. QED
  BY <1>1, LenProperties

\* The object.
LEMMA ObjectIsSeq ==
  ASSUME NEW x \in Xfer
  PROVE  Object(x) \in Seq(Payload) /\ Len(Object(x)) = Offset(x, N(x) + 1)
<1>1. Bytes(x, 1 .. N(x)) \in Nat /\ Bytes(x, 1 .. N(x)) = Offset(x, N(x) + 1)
  BY BytesAreTotal, Offsets
<1>2. Object(x) \in [1 .. Bytes(x, 1 .. N(x)) -> Payload]
  <2>1. ASSUME NEW p \in 1 .. Bytes(x, 1 .. N(x))
        PROVE  Object(x)[p] \in Payload
    BY DEF Payload
  <2>2. /\ DOMAIN Object(x) = 1 .. Bytes(x, 1 .. N(x))
        /\ Object(x) = [p \in DOMAIN Object(x) |-> Object(x)[p]]
    BY DEF Object
  <2>3. QED
    BY <2>1, <2>2
<1>3. QED
  BY <1>1, <1>2, SeqOf

\* The run that begins with chunk i is of chunks on storage.
LEMMA RunOnStorage ==
  ASSUME NEW x \in Xfer, NEW t, NEW i \in OnStorage(t), Len(t.descs_status) = N(x)
  PROVE  /\ i \in 1 .. N(x) /\ RunEnd(x, t, i) \in i .. N(x)
         /\ \A k \in i .. RunEnd(x, t, i) : k \in OnStorage(t)
<1> DEFINE T == {j \in i .. N(x) : ~ GoesOn(x, t, i, j)}
<1>1. N(x) \in Nat /\ i \in 1 .. N(x)
  BY ChunksOfObject DEF OnStorage
<1>2. N(x) \in T /\ T \in SUBSET Nat
  BY <1>1 DEF GoesOn
<1>3. PICK m \in T : \A n \in T : m <= n
  BY <1>2, Least
<1>4. m \in i .. N(x) /\ ~ GoesOn(x, t, i, m) /\ \A k \in i .. m - 1 : GoesOn(x, t, i, k)
  <2>1. ASSUME NEW k \in i .. m - 1
        PROVE  GoesOn(x, t, i, k)
    <3>1. k \in i .. N(x) /\ ~ (m <= k)
      BY <1>1, <1>3
    <3>2. QED
      BY <1>3, <3>1
  <2>2. QED
    BY <1>3, <2>1
<1>5. /\ RunEnd(x, t, i) \in i .. N(x)
      /\ \A k \in i .. RunEnd(x, t, i) - 1 : GoesOn(x, t, i, k)
  BY <1>4 DEF RunEnd
<1>6. ASSUME NEW k \in i .. RunEnd(x, t, i)
      PROVE  k \in OnStorage(t)
  <2>1. CASE k = i
    BY <2>1
  <2>2. CASE k # i
    <3>1. k - 1 \in i .. RunEnd(x, t, i) - 1 /\ (k - 1) + 1 = k /\ k \in 1 .. N(x)
      BY <1>1, <1>5, <2>2
    <3>2. GoesOn(x, t, i, k - 1)
      BY <1>5, <3>1
    <3>3. t.descs_status[k] = "DESC_ON_STORAGE"
      BY <3>1, <3>2 DEF GoesOn
    <3>4. QED
      BY <3>1, <3>3 DEF OnStorage
  <2>3. QED
    BY <2>1, <2>2
<1>7. QED
  BY <1>1, <1>5, <1>6

-----------------------------------------------------------------------------
(* Sequences *)

\* A part of a sequence.
LEMMA PartOfSeq ==
  ASSUME NEW T, NEW s \in Seq(T), NEW m \in Nat, NEW n \in Nat, m <= n, n <= Len(s)
  PROVE  /\ SubSeq(s, m + 1, n) \in Seq(T)
         /\ Len(SubSeq(s, m + 1, n)) = n - m
         /\ \A k \in 1 .. n - m : SubSeq(s, m + 1, n)[k] = s[m + k]
<1>1. Len(s) \in Nat /\ s \in [1 .. Len(s) -> T]
  BY LenProperties
<1>2. \A k \in m + 1 .. n : s[k] \in T
  BY <1>1
<1>3. SubSeq(s, m + 1, n) \in Seq(T)
  BY SubSeqProperties
<1>4. Len(SubSeq(s, m + 1, n)) = n - m
  <2>1. m + 1 <= n + 1
    OBVIOUS
  <2>2. QED
    BY <1>1, <2>1, SubSeqProperties
<1>5. ASSUME NEW k \in 1 .. n - m
      PROVE  SubSeq(s, m + 1, n)[k] = s[m + k]
  <2>1. k \in 1 .. n - (m + 1) + 1 /\ (m + 1) + k - 1 = m + k
    OBVIOUS
  <2>2. SubSeq(s, m + 1, n)[k] = s[(m + 1) + k - 1]
    BY <2>1
  <2>3. QED
    BY <2>1, <2>2
<1>6. QED
  BY <1>3, <1>4, <1>5

\* One sequence after another.
LEMMA TwoSeqs ==
  ASSUME NEW T, NEW s \in Seq(T), NEW r \in Seq(T)
  PROVE  /\ s \o r \in Seq(T)
         /\ Len(s) \in Nat /\ Len(r) \in Nat /\ Len(s \o r) = Len(s) + Len(r)
         /\ \A k \in 1 .. Len(s) : (s \o r)[k] = s[k]
         /\ \A k \in 1 .. Len(r) : (s \o r)[Len(s) + k] = r[k]
<1>1. Len(s) \in Nat /\ Len(r) \in Nat
  BY LenProperties
<1>2. s \o r \in Seq(T) /\ Len(s \o r) = Len(s) + Len(r)
  BY ConcatProperties
<1>3. \A k \in 1 .. Len(s) + Len(r) : (s \o r)[k] = IF k <= Len(s) THEN s[k] ELSE r[k - Len(s)]
  BY ConcatProperties
<1>4. ASSUME NEW k \in 1 .. Len(s)
      PROVE  (s \o r)[k] = s[k]
  BY <1>1, <1>3
<1>5. ASSUME NEW k \in 1 .. Len(r)
      PROVE  (s \o r)[Len(s) + k] = r[k]
  <2>1. Len(s) + k \in 1 .. Len(s) + Len(r) /\ ~ (Len(s) + k <= Len(s)) /\ (Len(s) + k) - Len(s) = k
    BY <1>1
  <2>2. QED
    BY <1>3, <2>1
<1>6. QED
  BY <1>1, <1>2, <1>4, <1>5

\* One more element.
LEMMA OneMore ==
  ASSUME NEW T, NEW s \in Seq(T), NEW e \in T
  PROVE  /\ Append(s, e) \in Seq(T)
         /\ Len(s) \in Nat /\ Len(Append(s, e)) = Len(s) + 1
         /\ \A k \in 1 .. Len(s) : Append(s, e)[k] = s[k]
         /\ Append(s, e)[Len(s) + 1] = e
<1>1. Len(s) \in Nat
  BY LenProperties
<1>2. QED
  BY <1>1, AppendProperties

-----------------------------------------------------------------------------
(* What a client was sent, and what is in the buffer *)

Statuses == {"DESC_UNKNOWN", "DESC_REQUESTED", "DESC_ON_STORAGE", "DESC_DONE"}

Reply == [offset : Nat, data : Seq(Payload)]

XferRecord ==
  [state : {"none", "descriptors", "ready", "removed"}, descs_status : Seq(Statuses),
   descs_count : Nat, descs_xfered : Nat, buf : Seq(Payload), buf_offset : Nat,
   fetching : BOOLEAN, xcb : BOOLEAN, err : BOOLEAN, replies : Nat, got : Seq(Reply),
   outcome : {"none", "end", "error"}]

\* data is the part of the object that begins after offset.
IsPart(x, offset, data) ==
  /\ offset + Len(data) <= Offset(x, N(x) + 1)
  /\ \A k \in 1 .. Len(data) : data[k] = Object(x)[offset + k]

\* The bytes in the replies before reply k.
SentBefore(got, k) == MapThenSumSet(LAMBDA m : Len(got[m].data), 1 .. k - 1)

GotRight(x, got) ==
  \A k \in 1 .. Len(got) :
    /\ IsPart(x, got[k].offset, got[k].data)
    /\ Mode[x] = "XFER_SEQUENTIAL" => got[k].offset = SentBefore(got, k)

\* The buffer is the part of the object at its offset.  In sequential mode it
\* begins where the replies end, and ends with chunk descs_count.
BufRight(x, t) ==
  /\ IsPart(x, t.buf_offset, t.buf)
  /\ Mode[x] = "XFER_SEQUENTIAL" =>
       /\ t.buf_offset = SentBefore(t.got, Len(t.got) + 1)
       /\ t.descs_count <= N(x)
       /\ t.buf_offset + Len(t.buf) = Offset(x, t.descs_count + 1)

\* The bytes before a reply are the sum of the sizes of those before it.
LEMMA SentIsTotal ==
  ASSUME NEW got \in Seq(Reply), NEW k \in 1 .. Len(got) + 1
  PROVE  LET sizes == [m \in 1 .. Len(got) |-> Len(got[m].data)] IN
           /\ SentBefore(got, k) = Total(1 .. k - 1, sizes)
           /\ SentBefore(got, k) \in Nat
           /\ IsFiniteSet(1 .. k - 1)
           /\ \A m \in 1 .. Len(got) : sizes[m] \in Nat
<1> DEFINE S == 1 .. k - 1
           sizes == [m \in 1 .. Len(got) |-> Len(got[m].data)]
           g == [s \in SUBSET S |-> Total(s, sizes)]
           Step(h) == [s \in SUBSET S |->
                         IF s = {} THEN 0
                         ELSE Len(got[CHOOSE y \in s : TRUE].data) + h[s \ {CHOOSE y \in s : TRUE}]]
<1>1. Len(got) \in Nat /\ \A m \in 1 .. Len(got) : got[m] \in Reply
  BY LenProperties, ElementOfSeq
<1>2. \A m \in 1 .. Len(got) : sizes[m] = Len(got[m].data) /\ sizes[m] \in Nat
  <2>1. ASSUME NEW m \in 1 .. Len(got)
        PROVE  Len(got[m].data) \in Nat
    <3>1. got[m].data \in Seq(Payload)
      BY <1>1 DEF Reply
    <3>2. QED
      BY <3>1, LenProperties
  <2>2. QED
    BY <2>1
<1>3. IsFiniteSet(S)
  <2>1. 1 \in Int /\ k - 1 \in Int
    BY <1>1
  <2>2. QED
    BY <2>1, FS_Interval
<1>4. S \subseteq 1 .. Len(got)
  BY <1>1
<1>5. \A m \in S : sizes[m] = Len(got[m].data) /\ sizes[m] \in Nat
  BY <1>2, <1>4
<1> HIDE DEF sizes, S
<1>6. /\ Summed(S, sizes, g)
      /\ \A h, j : Summed(S, sizes, h) /\ Summed(S, sizes, j) => h = j
  BY <1>3, <1>5, SumIsTotal
<1>7. ASSUME NEW h
      PROVE  (h = Step(h)) <=> Summed(S, sizes, h)
  <2>1. ASSUME NEW s \in SUBSET S, s # {}
        PROVE  sizes[Chosen(s)] = Len(got[CHOOSE y \in s : TRUE].data)
    <3>1. Chosen(s) \in S
      BY <2>1 DEF Chosen
    <3>2. QED
      BY <1>5, <3>1 DEF Chosen
  <2>2. Step(h) = [s \in SUBSET S |-> IF s = {} THEN 0
                                      ELSE sizes[Chosen(s)] + h[s \ {Chosen(s)}]]
    BY <2>1 DEF Chosen
  <2>3. QED
    BY <2>2 DEF Summed
<1>8. g = Step(g) /\ \A h : h = Step(h) => h = g
  BY <1>6, <1>7
<1>9. SentBefore(got, k) = g[S]
  <2> HIDE DEF g
  <2>1. QED
    BY <1>8 DEF SentBefore, S, MapThenSumSet, MapThenFoldSet
<1>10. SentBefore(got, k) = Total(S, sizes)
  BY <1>9
<1>11. Total(S, sizes) \in Nat
  BY <1>3, <1>5, PairsFinite
<1>12. QED
  BY <1>2, <1>3, <1>10, <1>11 DEF sizes, S

\* One more reply adds its bytes.
LEMMA SentMore ==
  ASSUME NEW got \in Seq(Reply), NEW r \in Reply
  PROVE  /\ SentBefore(<<>>, 1) = 0
         /\ \A k \in 1 .. Len(got) + 1 : SentBefore(Append(got, r), k) = SentBefore(got, k)
         /\ SentBefore(Append(got, r), Len(got) + 2) = SentBefore(got, Len(got) + 1) + Len(r.data)
<1> DEFINE more == Append(got, r)
           v == [m \in 1 .. Len(got) |-> Len(got[m].data)]
           w == [m \in 1 .. Len(more) |-> Len(more[m].data)]
<1>1. /\ more \in Seq(Reply) /\ Len(got) \in Nat /\ Len(more) = Len(got) + 1
      /\ \A k \in 1 .. Len(got) : more[k] = got[k]
      /\ more[Len(got) + 1] = r
  BY OneMore
<1>2. /\ \A k \in 1 .. Len(got) : v[k] = w[k]
      /\ w[Len(got) + 1] = Len(r.data) /\ Len(got) + 1 \in 1 .. Len(more)
  BY <1>1
<1>3. \A k \in 1 .. Len(got) + 1 :
         SentBefore(got, k) = Total(1 .. k - 1, v) /\ SentBefore(got, k) \in Nat
  BY SentIsTotal
<1>4. \A k \in 1 .. Len(got) + 2 :
         /\ SentBefore(more, k) = Total(1 .. k - 1, w)
         /\ IsFiniteSet(1 .. k - 1)
  <2>1. Len(more) + 1 = Len(got) + 2
    BY <1>1
  <2>2. QED
    BY <1>1, <2>1, SentIsTotal
<1>5. \A m \in 1 .. Len(more) : w[m] \in Nat
  <2>1. 1 \in 1 .. Len(more) + 1
    BY <1>1
  <2>2. QED
    BY <1>1, <2>1, SentIsTotal
<1> HIDE DEF v, w, more
<1>6. ASSUME NEW k \in 1 .. Len(got) + 1
      PROVE  SentBefore(more, k) = SentBefore(got, k)
  <2>1. k \in 1 .. Len(got) + 2 /\ 1 .. k - 1 \subseteq 1 .. Len(got)
    BY <1>1
  <2>2. \A m \in 1 .. k - 1 : v[m] = w[m]
    BY <1>2, <2>1
  <2>3. Total(1 .. k - 1, v) = Total(1 .. k - 1, w)
    BY <2>2, TotalSame
  <2>4. QED
    BY <1>3, <1>4, <2>1, <2>3
<1>7. SentBefore(more, Len(got) + 2) = SentBefore(got, Len(got) + 1) + Len(r.data)
  <2> DEFINE S == 1 .. Len(got) + 1
             last == Len(got) + 1
  <2>1. /\ last \in S /\ S \ {last} = 1 .. Len(got) /\ S = 1 .. (Len(got) + 2) - 1
        /\ 1 .. Len(got) = 1 .. (Len(got) + 1) - 1
        /\ Len(got) + 1 \in 1 .. Len(got) + 1 /\ Len(got) + 1 \in 1 .. Len(got) + 2
        /\ Len(got) + 2 \in 1 .. Len(got) + 2 /\ S = 1 .. Len(more)
    BY <1>1
  <2>2. IsFiniteSet(S) /\ SentBefore(more, Len(got) + 2) = Total(S, w)
    BY <1>4, <2>1
  <2>3. SentBefore(more, Len(got) + 1) = Total(S \ {last}, w)
    BY <1>4, <2>1
  <2>4. SentBefore(more, Len(got) + 1) = SentBefore(got, Len(got) + 1)
    BY <1>6, <2>1
  <2>5. SentBefore(got, Len(got) + 1) \in Nat /\ w[last] \in Nat /\ w[last] = Len(r.data)
    BY <1>2, <1>3, <1>5, <2>1
  <2>6. \A m \in S : w[m] \in Nat
    BY <1>5, <2>1
  <2> HIDE DEF S, last
  <2>7. Total(S, w) = w[last] + Total(S \ {last}, w)
    <3>1. last \in S /\ IsFiniteSet(S) /\ \A m \in S : w[m] \in Nat
      BY <2>1, <2>2, <2>6
    <3>2. QED
      BY <3>1, TotalSplit
  <2>8. QED
    BY <2>2, <2>3, <2>4, <2>5, <2>7
<1>8. SentBefore(<<>>, 1) = 0
  <2>1. <<>> \in Seq(Reply) /\ Len(<<>>) = 0 /\ 1 \in 1 .. Len(<<>>) + 1
    OBVIOUS
  <2>2. 1 .. 1 - 1 = {}
    OBVIOUS
  <2>3. SentBefore(<<>>, 1) = Total(1 .. 1 - 1, [m \in 1 .. Len(<<>>) |-> Len(<<>>[m].data)])
    BY <2>1, SentIsTotal
  <2>4. QED
    BY <2>2, <2>3, TotalEmpty
<1>9. QED
  BY <1>6, <1>7, <1>8 DEF more

\* A transfer has sent what is right, and is about to.
Right(x, t) ==
  /\ t \in XferRecord
  /\ GotRight(x, t.got)
  /\ t.state \in {"none", "descriptors"} => t = [NewXfer EXCEPT !.state = t.state]
  /\ t.state = "ready" => Len(t.descs_status) = N(x) /\ BufRight(x, t)

\* What does not change when data is put into the buffer.
SameClient(t, u) ==
  /\ u.state = t.state /\ u.fetching = t.fetching /\ u.xcb = t.xcb
  /\ u.replies = t.replies /\ u.got = t.got /\ u.outcome = t.outcome

\* Only chunks on storage have become done.
OnlyDone(x, t, u) ==
  \A k \in 1 .. N(x) : \/ u.descs_status[k] = t.descs_status[k]
                       \/ k \in OnStorage(t) /\ u.descs_status[k] = "DESC_DONE"

\* Appending the run that begins with chunk i, where the buffer is the part of the
\* object from base to there.
LEMMA MoveAppends ==
  ASSUME NEW x \in Xfer, NEW t \in XferRecord, Len(t.descs_status) = N(x), NEW i \in OnStorage(t),
         NEW base \in Nat, IsPart(x, base, t.buf), base + Len(t.buf) = Offset(x, i), NEW have
  PROVE  LET u == MoveIntoBuf(x, t, i, have)
             j == RunEnd(x, t, i)
         IN  /\ u \in XferRecord /\ SameClient(t, u)
             /\ u.buf_offset = t.buf_offset /\ u.descs_count = t.descs_count
             /\ Len(u.descs_status) = N(x) /\ OnlyDone(x, t, u)
             /\ ~ u.err => /\ IsPart(x, base, u.buf)
                           /\ base + Len(u.buf) = Offset(x, j + 1)
                           /\ u.descs_xfered = t.descs_xfered + (j - i + 1)
                           /\ \A k \in 1 .. N(x) :
                                u.descs_status[k] = IF k \in i .. j THEN "DESC_DONE"
                                                                  ELSE t.descs_status[k]
<1> DEFINE u == MoveIntoBuf(x, t, i, have)
           j == RunEnd(x, t, i)
           piece == SubSeq(Object(x), Offset(x, i) + 1, Offset(x, j + 1))
           st == [k \in 1 .. N(x) |-> IF k \in i .. j THEN "DESC_DONE" ELSE t.descs_status[k]]
           v == [t EXCEPT !.buf = @ \o piece, !.descs_status = st,
                          !.descs_xfered = @ + (j - i + 1)]
<1>1. N(x) \in Nat /\ i \in 1 .. N(x) /\ j \in i .. N(x)
  BY ChunksOfObject, RunOnStorage
<1> HIDE DEF j
<1>2. /\ Offset(x, i) \in Nat /\ Offset(x, j + 1) \in Nat /\ Offset(x, N(x) + 1) \in Nat
      /\ Offset(x, i) <= Offset(x, j + 1) /\ Offset(x, j + 1) <= Offset(x, N(x) + 1)
  <2>1. i \in 1 .. N(x) + 1 /\ j + 1 \in i .. N(x) + 1 /\ j + 1 \in 1 .. N(x) + 1 /\ N(x) + 1 \in 1 .. N(x) + 1
    BY <1>1
  <2>2. QED
    BY <2>1, Offsets, OffsetsGrow
<1>3. Object(x) \in Seq(Payload) /\ Len(Object(x)) = Offset(x, N(x) + 1)
  BY ObjectIsSeq
<1>4. /\ piece \in Seq(Payload) /\ Len(piece) = Offset(x, j + 1) - Offset(x, i)
      /\ \A k \in 1 .. Offset(x, j + 1) - Offset(x, i) : piece[k] = Object(x)[Offset(x, i) + k]
  BY <1>2, <1>3, PartOfSeq
<1>5. t.buf \in Seq(Payload) /\ t.descs_status \in Seq(Statuses) /\ t.descs_xfered \in Nat
  BY DEF XferRecord
<1>6. st \in Seq(Statuses) /\ Len(st) = N(x)
  <2>1. \A k \in 1 .. N(x) : t.descs_status[k] \in Statuses
    BY <1>5, ElementOfSeq
  <2>2. st \in [1 .. N(x) -> Statuses]
    BY <2>1 DEF Statuses
  <2>3. QED
    BY <1>1, <2>2, SeqOf
<1> HIDE DEF piece
<1>7. /\ t.buf \o piece \in Seq(Payload)
      /\ Len(t.buf) \in Nat /\ Len(piece) \in Nat
      /\ Len(t.buf \o piece) = Len(t.buf) + Len(piece)
      /\ \A k \in 1 .. Len(t.buf) : (t.buf \o piece)[k] = t.buf[k]
      /\ \A k \in 1 .. Len(piece) : (t.buf \o piece)[Len(t.buf) + k] = piece[k]
  <2>1. t.buf \in Seq(Payload) /\ piece \in Seq(Payload)
    BY <1>4, <1>5
  <2>2. QED
    BY <2>1, TwoSeqs
<1>8. base + Len(t.buf \o piece) = Offset(x, j + 1)
  <2>1. \A a, b, c, d \in Nat : a + b = c => a + (b + (d - c)) = d
    OBVIOUS
  <2>2. Len(t.buf \o piece) = Len(t.buf) + (Offset(x, j + 1) - Offset(x, i)) /\ Len(t.buf) \in Nat
    BY <1>4, <1>7
  <2>3. QED
    BY <1>2, <2>1, <2>2
<1>9. IsPart(x, base, t.buf \o piece)
  <2>1. base + Len(t.buf \o piece) <= Offset(x, N(x) + 1)
    BY <1>2, <1>8
  <2>2. ASSUME NEW k \in 1 .. Len(t.buf \o piece)
        PROVE  (t.buf \o piece)[k] = Object(x)[base + k]
    <3>1. CASE k <= Len(t.buf)
      <4>1. k \in 1 .. Len(t.buf)
        BY <1>7, <3>1
      <4>2. QED
        BY <1>7, <4>1 DEF IsPart
    <3>2. CASE ~ (k <= Len(t.buf))
      <4> DEFINE n == k - Len(t.buf)
      <4>1. n \in 1 .. Len(piece) /\ Len(t.buf) + n = k /\ Offset(x, i) + n = base + k
        <5>1. \A a, b, c, d, e \in Nat :
                 a + b = c /\ e \in 1 .. b + d /\ ~ (e <= b) =>
                   e - b \in 1 .. d /\ b + (e - b) = e /\ c + (e - b) = a + e
          OBVIOUS
        <5>2. k \in 1 .. Len(t.buf) + Len(piece) /\ k \in Nat /\ Len(t.buf) \in Nat /\ Len(piece) \in Nat
          BY <1>7
        <5>3. QED
          BY <1>2, <3>2, <5>1, <5>2
      <4>2. (t.buf \o piece)[Len(t.buf) + n] = piece[n]
        BY <1>7, <4>1
      <4>3. piece[n] = Object(x)[Offset(x, i) + n]
        BY <1>4, <4>1
      <4>4. QED
        BY <4>1, <4>2, <4>3
    <3>3. QED
      BY <3>1, <3>2
  <2>3. QED
    BY <2>1, <2>2 DEF IsPart
<1>10. v \in XferRecord /\ SameClient(t, v) /\ v.buf_offset = t.buf_offset /\ v.descs_count = t.descs_count
  <2>1. t.descs_xfered + (j - i + 1) \in Nat
    BY <1>1, <1>5
  <2>2. QED
    BY <1>6, <1>7, <2>1 DEF XferRecord, SameClient
<1>11. /\ v.descs_status = st /\ v.buf = t.buf \o piece /\ v.descs_xfered = t.descs_xfered + (j - i + 1)
       /\ \A k \in 1 .. N(x) : v.descs_status[k] = IF k \in i .. j THEN "DESC_DONE" ELSE t.descs_status[k]
  BY DEF XferRecord
<1>12. CASE u = v
  <2>1. \A k \in i .. j : k \in OnStorage(t)
    BY RunOnStorage DEF j
  <2>2. OnlyDone(x, t, v)
    BY <1>11, <2>1 DEF OnlyDone
  <2>3. QED
    BY <1>6, <1>8, <1>9, <1>10, <1>11, <1>12, <2>2 DEF j
<1>13. CASE u = [t EXCEPT !.err = TRUE]
  <2>1. u \in XferRecord /\ SameClient(t, u) /\ u.err /\ u.descs_status = t.descs_status
        /\ u.buf_offset = t.buf_offset /\ u.descs_count = t.descs_count
    BY <1>13 DEF XferRecord, SameClient
  <2>2. OnlyDone(x, t, u)
    BY <2>1 DEF OnlyDone
  <2>3. QED
    BY <2>1, <2>2
<1>14. u = v \/ u = [t EXCEPT !.err = TRUE]
  BY DEF MoveIntoBuf, j, piece
<1>15. QED
  BY <1>12, <1>13, <1>14

\* The first chunk on storage.
LEMMA MinOnStorage ==
  ASSUME NEW t, OnStorage(t) # {}
  PROVE  Min(OnStorage(t)) \in OnStorage(t)
<1>1. OnStorage(t) \in SUBSET Nat
  BY DEF OnStorage
<1>2. PICK m \in OnStorage(t) : \A n \in OnStorage(t) : m <= n
  BY <1>1, Least
<1>3. QED
  BY <1>2 DEF Min

\* transfer_data leaves the buffer right, unless a chunk was missing.
LEMMA LoadedRight ==
  ASSUME NEW x \in Xfer, NEW t, Right(x, t), t.state = "ready", NEW have
  PROVE  LET u == Loaded(x, t, have)
         IN  /\ u \in XferRecord /\ SameClient(t, u)
             /\ Len(u.descs_status) = N(x)
             /\ ~ u.err => BufRight(x, u)
<1> DEFINE u == Loaded(x, t, have)
<1>1. /\ t \in XferRecord /\ Len(t.descs_status) = N(x) /\ BufRight(x, t)
      /\ N(x) \in Nat /\ t.descs_count \in Nat /\ t.buf_offset \in Nat
  BY ChunksOfObject DEF Right, XferRecord
<1>2. CASE u = t
  BY <1>1, <1>2 DEF SameClient
<1>3. CASE /\ ~ t.err /\ Mode[x] = "XFER_SEQUENTIAL" /\ NextOnStorage(x, t)
           /\ u = [MoveIntoBuf(x, t, t.descs_count + 1, have)
                     EXCEPT !.descs_count = RunEnd(x, t, t.descs_count + 1)]
  <2> DEFINE i == t.descs_count + 1
             m == MoveIntoBuf(x, t, i, have)
             j == RunEnd(x, t, i)
  <2>1. i \in OnStorage(t)
    BY <1>3 DEF NextOnStorage
  <2>2. IsPart(x, t.buf_offset, t.buf) /\ t.buf_offset + Len(t.buf) = Offset(x, i)
        /\ t.buf_offset = SentBefore(t.got, Len(t.got) + 1)
    BY <1>1, <1>3 DEF BufRight
  <2>3. i \in 1 .. N(x) /\ j \in i .. N(x)
    BY <1>1, <2>1, RunOnStorage
  <2>4. /\ m \in XferRecord /\ SameClient(t, m)
        /\ m.buf_offset = t.buf_offset
        /\ Len(m.descs_status) = N(x)
        /\ ~ m.err => /\ IsPart(x, t.buf_offset, m.buf)
                      /\ t.buf_offset + Len(m.buf) = Offset(x, j + 1)
    BY <1>1, <2>1, <2>2, MoveAppends
  <2>5. u = [m EXCEPT !.descs_count = j]
    BY <1>3
  <2> HIDE DEF u, m, j, i
  <2>6. /\ u \in XferRecord /\ SameClient(t, u) /\ u.descs_status = m.descs_status
        /\ u.err = m.err /\ u.buf = m.buf /\ u.buf_offset = t.buf_offset /\ u.descs_count = j /\ u.got = t.got
    <3>1. j \in Nat
      BY <1>1, <2>3
    <3>2. QED
      BY <2>4, <2>5, <3>1 DEF XferRecord, SameClient
  <2>7. j <= N(x)
    BY <1>1, <2>3
  <2>8. ~ u.err => BufRight(x, u)
    BY <2>2, <2>4, <2>6, <2>7 DEF BufRight
  <2>9. QED
    BY <2>4, <2>6, <2>8 DEF u
<1>4. CASE /\ ~ t.err /\ Mode[x] # "XFER_SEQUENTIAL" /\ t.buf = <<>> /\ OnStorage(t) # {}
           /\ u = [MoveIntoBuf(x, t, Min(OnStorage(t)), have)
                     EXCEPT !.buf_offset = Offset(x, Min(OnStorage(t)))]
  <2> DEFINE i == Min(OnStorage(t))
             m == MoveIntoBuf(x, t, i, have)
  <2>1. i \in OnStorage(t)
    BY <1>1, <1>4, MinOnStorage
  <2>2. i \in 1 .. N(x) /\ Offset(x, i) \in Nat /\ Offset(x, N(x) + 1) \in Nat
        /\ Offset(x, i) <= Offset(x, N(x) + 1)
    <3>1. i \in 1 .. N(x)
      BY <1>1, <2>1 DEF OnStorage
    <3>2. i \in 1 .. N(x) + 1 /\ N(x) + 1 \in i .. N(x) + 1 /\ N(x) + 1 \in 1 .. N(x) + 1
      BY <1>1, <3>1
    <3>3. QED
      BY <3>1, <3>2, Offsets, OffsetsGrow
  <2>3. Len(t.buf) = 0
    BY <1>4
  <2>4. IsPart(x, Offset(x, i), t.buf) /\ Offset(x, i) + Len(t.buf) = Offset(x, i)
    BY <2>2, <2>3 DEF IsPart
  <2>5. /\ m \in XferRecord /\ SameClient(t, m)
        /\ Len(m.descs_status) = N(x)
        /\ ~ m.err => IsPart(x, Offset(x, i), m.buf)
    BY <1>1, <2>1, <2>2, <2>4, MoveAppends
  <2>6. u = [m EXCEPT !.buf_offset = Offset(x, i)]
    BY <1>4
  <2> HIDE DEF u, m, i
  <2>7. /\ u \in XferRecord /\ SameClient(t, u) /\ u.descs_status = m.descs_status
        /\ u.err = m.err /\ u.buf = m.buf /\ u.buf_offset = Offset(x, i)
    BY <2>2, <2>5, <2>6 DEF XferRecord, SameClient
  <2>8. ~ u.err => BufRight(x, u)
    BY <1>4, <2>5, <2>7 DEF BufRight
  <2>9. QED
    BY <2>5, <2>7, <2>8 DEF u
<1>5. QED
  BY <1>2, <1>3, <1>4 DEF Loaded

\* actual_transfer_data: what it sends is right, and what it leaves.
LEMMA SendsRight ==
  ASSUME NEW x \in Xfer, NEW t \in XferRecord, t.state = "ready", GotRight(x, t.got),
         Len(t.descs_status) = N(x), ~ t.err => BufRight(x, t)
  PROVE  LET u == ActualTransferData(x, t)
         IN  /\ Right(x, u) /\ u.state \in {"ready", "removed"}
             /\ u.xcb = t.xcb /\ u.fetching = t.fetching /\ u.replies = t.replies + 1
<1> DEFINE u == ActualTransferData(x, t)
           n == IF Len(t.buf) <= SEND_SIZE THEN Len(t.buf) ELSE SEND_SIZE
           r == [offset |-> t.buf_offset, data |-> SubSeq(t.buf, 1, n)]
           rest == SubSeq(t.buf, n + 1, Len(t.buf))
           last == Len(t.buf) <= SEND_SIZE /\ t.descs_xfered = N(x)
<1>1. /\ t.buf \in Seq(Payload) /\ t.buf_offset \in Nat /\ t.got \in Seq(Reply) /\ t.replies \in Nat
      /\ t.descs_count \in Nat
  BY DEF XferRecord
<1>2. CASE t.err
  <2>1. u = [t EXCEPT !.state = "removed", !.replies = @ + 1, !.outcome = "error"]
    BY <1>2 DEF ActualTransferData
  <2> HIDE DEF u
  <2>2. u \in XferRecord /\ u.got = t.got /\ u.state = "removed"
        /\ u.xcb = t.xcb /\ u.fetching = t.fetching /\ u.replies = t.replies + 1
    <3>1. t.replies + 1 \in Nat
      BY <1>1
    <3>2. u \in XferRecord
      BY <2>1, <3>1 DEF XferRecord
    <3>3. u.got = t.got /\ u.state = "removed" /\ u.replies = t.replies + 1
      BY <2>1 DEF XferRecord
    <3>4. u.xcb = t.xcb /\ u.fetching = t.fetching
      BY <2>1 DEF XferRecord
    <3>5. QED
      BY <3>2, <3>3, <3>4
  <2>3. Right(x, u)
    BY <2>2 DEF Right
  <2>4. QED
    BY <2>2, <2>3 DEF u
<1>3. CASE ~ t.err
  <2>1. u = [t EXCEPT !.got = Append(@, r), !.buf = rest, !.buf_offset = @ + n, !.replies = @ + 1,
                      !.state = IF last THEN "removed" ELSE @,
                      !.outcome = IF last THEN "end" ELSE @]
    BY <1>1, <1>3 DEF ActualTransferData, XferRecord
  <2>2. n \in Nat /\ Len(t.buf) \in Nat /\ n <= Len(t.buf) /\ Len(t.buf) <= Len(t.buf)
    BY <1>1, LenProperties, SizeAssumption
  <2> HIDE DEF n
  <2>3. /\ SubSeq(t.buf, 0 + 1, n) \in Seq(Payload) /\ Len(SubSeq(t.buf, 0 + 1, n)) = n - 0
        /\ \A k \in 1 .. n - 0 : SubSeq(t.buf, 0 + 1, n)[k] = t.buf[0 + k]
    BY <1>1, <2>2, PartOfSeq
  <2>4. r \in Reply /\ r.offset = t.buf_offset /\ Len(r.data) = n /\ \A k \in 1 .. n : r.data[k] = t.buf[k]
    <3>1. 0 + 1 = 1 /\ n - 0 = n
      BY <2>2
    <3>2. \A k \in 1 .. n : 0 + k = k
      BY <2>2
    <3>3. QED
      BY <1>1, <2>3, <3>1, <3>2 DEF Reply
  <2>5. /\ rest \in Seq(Payload) /\ Len(rest) = Len(t.buf) - n
        /\ \A k \in 1 .. Len(t.buf) - n : rest[k] = t.buf[n + k]
    BY <1>1, <2>2, PartOfSeq
  <2> HIDE DEF r, rest, u, last
  <2>6. /\ Append(t.got, r) \in Seq(Reply) /\ Len(t.got) \in Nat
        /\ Len(Append(t.got, r)) = Len(t.got) + 1
        /\ \A k \in 1 .. Len(t.got) : Append(t.got, r)[k] = t.got[k]
        /\ Append(t.got, r)[Len(t.got) + 1] = r
    BY <1>1, <2>4, OneMore
  <2>7. /\ u.got = Append(t.got, r) /\ u.buf = rest /\ u.buf_offset = t.buf_offset + n
        /\ u.replies = t.replies + 1 /\ u.xcb = t.xcb /\ u.fetching = t.fetching
        /\ u.descs_status = t.descs_status /\ u.descs_count = t.descs_count
        /\ u.state \in {"ready", "removed"}
    BY <2>1 DEF XferRecord
  <2>8. u \in XferRecord
    <3>1. t.buf_offset + n \in Nat /\ t.replies + 1 \in Nat
      BY <1>1, <2>2
    <3>2. QED
      BY <2>1, <2>5, <2>6, <3>1 DEF XferRecord
  <2>9. /\ SentBefore(u.got, Len(t.got) + 1) = SentBefore(t.got, Len(t.got) + 1)
        /\ \A k \in 1 .. Len(t.got) : SentBefore(u.got, k) = SentBefore(t.got, k)
        /\ SentBefore(u.got, Len(t.got) + 2) = SentBefore(t.got, Len(t.got) + 1) + n
    <3>1. \A k \in 1 .. Len(t.got) : k \in 1 .. Len(t.got) + 1
      BY <2>6
    <3>2. Len(t.got) + 1 \in 1 .. Len(t.got) + 1
      BY <2>6
    <3>3. QED
      BY <1>1, <2>4, <2>7, <3>1, <3>2, SentMore
  <2>10. Offset(x, N(x) + 1) \in Nat
    <3>1. N(x) + 1 \in 1 .. N(x) + 1
      BY ChunksOfObject
    <3>2. QED
      BY <3>1, Offsets
  <2>11. IsPart(x, t.buf_offset, t.buf)
    BY <1>3 DEF BufRight
  <2>12. IsPart(x, r.offset, r.data)
    <3>1. r.offset + Len(r.data) <= Offset(x, N(x) + 1)
      BY <1>1, <2>2, <2>4, <2>10, <2>11 DEF IsPart
    <3>2. \A k \in 1 .. n : k \in 1 .. Len(t.buf)
      BY <2>2
    <3>3. QED
      BY <2>4, <2>11, <3>1, <3>2 DEF IsPart
  <2>13. IsPart(x, u.buf_offset, u.buf)
    <3>1. (t.buf_offset + n) + Len(rest) <= Offset(x, N(x) + 1)
      BY <1>1, <2>2, <2>5, <2>10, <2>11 DEF IsPart
    <3>2. ASSUME NEW k \in 1 .. Len(rest)
          PROVE  rest[k] = Object(x)[(t.buf_offset + n) + k]
      <4>1. n + k \in 1 .. Len(t.buf) /\ k \in 1 .. Len(t.buf) - n
            /\ t.buf_offset + (n + k) = (t.buf_offset + n) + k
        BY <1>1, <2>2, <2>5
      <4>2. t.buf[n + k] = Object(x)[t.buf_offset + (n + k)]
        BY <2>11, <4>1 DEF IsPart
      <4>3. QED
        BY <2>5, <4>1, <4>2
    <3>3. QED
      BY <2>7, <3>1, <3>2 DEF IsPart
  <2>14. GotRight(x, u.got)
    <3>1. ASSUME NEW k \in 1 .. Len(t.got)
          PROVE  /\ IsPart(x, u.got[k].offset, u.got[k].data)
                 /\ Mode[x] = "XFER_SEQUENTIAL" => u.got[k].offset = SentBefore(u.got, k)
      <4>1. u.got[k] = t.got[k] /\ SentBefore(u.got, k) = SentBefore(t.got, k)
        BY <2>6, <2>7, <2>9
      <4>2. QED
        BY <4>1 DEF GotRight
    <3>2. /\ IsPart(x, u.got[Len(t.got) + 1].offset, u.got[Len(t.got) + 1].data)
          /\ Mode[x] = "XFER_SEQUENTIAL" =>
               u.got[Len(t.got) + 1].offset = SentBefore(u.got, Len(t.got) + 1)
      <4>1. u.got[Len(t.got) + 1] = r
        BY <2>6, <2>7
      <4>2. Mode[x] = "XFER_SEQUENTIAL" => r.offset = SentBefore(t.got, Len(t.got) + 1)
        BY <1>3, <2>4 DEF BufRight
      <4>3. QED
        BY <2>9, <2>12, <4>1, <4>2
    <3>3. \A k \in 1 .. Len(u.got) : k \in 1 .. Len(t.got) \/ k = Len(t.got) + 1
      BY <2>6, <2>7
    <3>4. QED
      BY <3>1, <3>2, <3>3 DEF GotRight
  <2>15. BufRight(x, u)
    <3>1. CASE Mode[x] = "XFER_SEQUENTIAL"
      <4>1. /\ t.buf_offset = SentBefore(t.got, Len(t.got) + 1)
            /\ t.descs_count <= N(x)
            /\ t.buf_offset + Len(t.buf) = Offset(x, t.descs_count + 1)
        BY <1>3, <3>1 DEF BufRight
      <4>2. Len(u.got) + 1 = Len(t.got) + 2
        BY <2>6, <2>7
      <4>3. u.buf_offset = SentBefore(u.got, Len(u.got) + 1)
        BY <2>7, <2>9, <4>1, <4>2
      <4>4. u.buf_offset + Len(u.buf) = t.buf_offset + Len(t.buf)
        BY <1>1, <2>2, <2>5, <2>7
      <4>5. QED
        BY <2>7, <2>13, <4>1, <4>3, <4>4 DEF BufRight
    <3>2. CASE Mode[x] # "XFER_SEQUENTIAL"
      BY <2>13, <3>2 DEF BufRight
    <3>3. QED
      BY <3>1, <3>2
  <2>16. QED
    BY <2>7, <2>8, <2>14, <2>15 DEF Right, u
<1>4. QED
  BY <1>2, <1>3

-----------------------------------------------------------------------------
(* The inductive invariant of what is sent *)

\* Whose turn it is: fetch_data is on the queue for a call of the client that
\* waits, and before anything is asked from the transfer plugin.
Turn(x) ==
  /\ x \in scheduled => xfer[x].state = "ready" /\ xfer[x].xcb /\ xfer[x].fetching /\ asked[x] = {}
  /\ ~ xfer[x].fetching => asked[x] = {}
  /\ xfer[x].state = "ready" /\ xfer[x].xcb => asks[x] = xfer[x].replies + 1

PlaceInv ==
  /\ xfer \in [Xfer -> XferRecord] /\ asks \in [Xfer -> Nat] /\ asked \in [Xfer -> SUBSET Nat]
  /\ scheduled \subseteq Xfer
  /\ \A x \in Xfer : /\ Right(x, xfer[x]) /\ asked[x] \subseteq 1 .. N(x)
                     /\ status = "up" => Turn(x)

\* A step that changes one transfer.
LEMMA OneChanges ==
  ASSUME PlaceInv, NEW x \in Xfer, NEW u, xfer' = [xfer EXCEPT ![x] = u], Right(x, u),
         asks' \in [Xfer -> Nat], asked' \in [Xfer -> SUBSET Nat], asked'[x] \subseteq 1 .. N(x),
         scheduled' \subseteq Xfer,
         \A y \in Xfer \ {x} : /\ asks'[y] = asks[y] /\ asked'[y] = asked[y]
                               /\ y \in scheduled' <=> y \in scheduled,
         status' = "up" => status = "up" /\ Turn(x)'
  PROVE  PlaceInv'
<1>1. u \in XferRecord
  BY DEF Right
<1>2. xfer' \in [Xfer -> XferRecord] /\ xfer'[x] = u /\ \A y \in Xfer \ {x} : xfer'[y] = xfer[y]
  BY <1>1 DEF PlaceInv
<1>3. ASSUME NEW y \in Xfer
      PROVE  Right(y, xfer'[y]) /\ asked'[y] \subseteq 1 .. N(y)
  BY <1>2 DEF PlaceInv
<1>4. ASSUME NEW y \in Xfer, status' = "up"
      PROVE  Turn(y)'
  <2>1. CASE y = x
    BY <1>4, <2>1
  <2>2. CASE y # x
    <3>1. Turn(y)
      BY <1>4 DEF PlaceInv
    <3>2. xfer'[y] = xfer[y] /\ asks'[y] = asks[y] /\ asked'[y] = asked[y] /\ (y \in scheduled' <=> y \in scheduled)
      BY <1>2, <2>2
    <3>3. QED
      BY <3>1, <3>2 DEF Turn
  <2>3. QED
    BY <2>1, <2>2
<1>5. \A y \in Xfer : Right(y, xfer[y])'
  BY <1>3 DEF Right, GotRight, BufRight, IsPart
<1>6. QED
  BY <1>2, <1>3, <1>4, <1>5 DEF PlaceInv

\* A step that changes none.
LEMMA NoneChanges ==
  ASSUME PlaceInv, xfer' = xfer, asks' \in [Xfer -> Nat], asked' \in [Xfer -> SUBSET Nat],
         \A y \in Xfer : asked'[y] \subseteq asked[y],
         scheduled' \subseteq Xfer, status' = "up" => status = "up" /\ \A y \in Xfer : Turn(y)'
  PROVE  PlaceInv'
<1>1. \A y \in Xfer : Right(y, xfer[y])'
  BY DEF PlaceInv, Right, GotRight, BufRight, IsPart
<1>2. QED
  BY <1>1 DEF PlaceInv

\* A handler ends with transfer_data.
LEMMA TransfersRight ==
  ASSUME PlaceInv, NEW x \in Xfer, NEW t, Right(x, t), t.state = "ready", NEW counts, NEW have,
         Transfers(x, t, counts, have)
  PROVE  \/ \E u : /\ xfer' = [xfer EXCEPT ![x] = u] /\ Right(x, u) /\ u.state \in {"ready", "removed"}
                   /\ u.xcb = t.xcb /\ u.fetching = t.fetching
                   /\ status' = status
         \/ xfer' = xfer /\ status' = "undefined"
<1> DEFINE u == TransferData(x, t, have)
           v == Loaded(x, t, have)
<1>1. v \in XferRecord /\ SameClient(t, v) /\ Len(v.descs_status) = N(x) /\ (~ v.err => BufRight(x, v))
  BY LoadedRight
<1>2. GotRight(x, t.got)
  BY DEF Right
<1>3. /\ Right(x, ActualTransferData(x, v)) /\ ActualTransferData(x, v).state \in {"ready", "removed"}
      /\ ActualTransferData(x, v).xcb = t.xcb /\ ActualTransferData(x, v).fetching = t.fetching
  <2>1. v.state = "ready" /\ GotRight(x, v.got)
    BY <1>1, <1>2 DEF SameClient
  <2>2. v.xcb = t.xcb /\ v.fetching = t.fetching
    BY <1>1 DEF SameClient
  <2> HIDE DEF v
  <2>3. QED
    BY <1>1, <2>1, <2>2, SendsRight
<1>4. u = t \/ u = ActualTransferData(x, v)
  BY DEF TransferData
<1>5. Right(x, u) /\ u.state \in {"ready", "removed"} /\ u.xcb = t.xcb /\ u.fetching = t.fetching
  BY <1>3, <1>4
<1>6. (xfer' = [xfer EXCEPT ![x] = u] /\ status' = status) \/ (xfer' = xfer /\ status' = "undefined")
  BY DEF Transfers
<1>7. QED
  BY <1>5, <1>6

\* Nothing is known of the object yet.
LEMMA NewIsRight ==
  ASSUME NEW x \in Xfer
  PROVE  /\ NewXfer \in XferRecord
         /\ Right(x, NewXfer)
         /\ Right(x, [NewXfer EXCEPT !.state = "descriptors"])
         /\ Right(x, [NewXfer EXCEPT !.state = "removed", !.outcome = "error"])
         /\ Right(x, [NewXfer EXCEPT !.state = "ready",
                                     !.descs_status = [i \in 1 .. N(x) |-> "DESC_UNKNOWN"]])
<1> DEFINE st == [i \in 1 .. N(x) |-> "DESC_UNKNOWN"]
           t == [NewXfer EXCEPT !.state = "ready", !.descs_status = st]
<1>1. /\ <<>> \in Seq(Payload) /\ <<>> \in Seq(Reply) /\ <<>> \in Seq(Statuses) /\ Len(<<>>) = 0
  OBVIOUS
<1>2. N(x) \in Nat
  BY ChunksOfObject
<1>3. st \in Seq(Statuses) /\ Len(st) = N(x)
  <2>1. st \in [1 .. N(x) -> Statuses]
    BY DEF Statuses
  <2>2. QED
    BY <1>2, <2>1, SeqOf
<1> HIDE DEF st
<1>4. /\ NewXfer \in XferRecord /\ NewXfer.got = <<>> /\ NewXfer.state = "none"
      /\ NewXfer = [NewXfer EXCEPT !.state = "none"]
  BY <1>1 DEF NewXfer, XferRecord
<1>5. /\ [NewXfer EXCEPT !.state = "descriptors"] \in XferRecord
      /\ [NewXfer EXCEPT !.state = "descriptors"].got = <<>>
      /\ [NewXfer EXCEPT !.state = "descriptors"].state = "descriptors"
  BY <1>1 DEF NewXfer, XferRecord
<1>6. /\ [NewXfer EXCEPT !.state = "removed", !.outcome = "error"] \in XferRecord
      /\ [NewXfer EXCEPT !.state = "removed", !.outcome = "error"].got = <<>>
      /\ [NewXfer EXCEPT !.state = "removed", !.outcome = "error"].state = "removed"
  BY <1>1 DEF NewXfer, XferRecord
<1>7. /\ t \in XferRecord /\ t.got = <<>> /\ t.state = "ready" /\ t.buf = <<>> /\ t.buf_offset = 0
      /\ t.descs_count = 0 /\ t.descs_status = st
  BY <1>1, <1>3 DEF NewXfer, XferRecord
<1>8. GotRight(x, <<>>)
  BY <1>1 DEF GotRight
<1>9. Offset(x, 1) = 0 /\ Offset(x, N(x) + 1) \in Nat
  <2>1. N(x) + 1 \in 1 .. N(x) + 1
    BY <1>2
  <2>2. QED
    BY <2>1, Offsets
<1>10. SentBefore(<<>>, 1) = 0
  <2>1. <<>> \in Seq(Reply)
    OBVIOUS
  <2>2. [offset |-> 0, data |-> <<>>] \in Reply
    BY <1>1 DEF Reply
  <2>3. QED
    BY <2>1, <2>2, SentMore
<1> HIDE DEF t
<1>11. BufRight(x, t)
  <2>1. IsPart(x, t.buf_offset, t.buf)
    BY <1>1, <1>7, <1>9 DEF IsPart
  <2>2. Len(t.got) + 1 = 1 /\ t.descs_count + 1 = 1 /\ t.buf_offset + Len(t.buf) = 0 /\ t.descs_count <= N(x)
    BY <1>1, <1>2, <1>7
  <2>3. QED
    BY <1>7, <1>9, <1>10, <2>1, <2>2 DEF BufRight
<1>12. Right(x, t)
  BY <1>3, <1>7, <1>8, <1>11 DEF Right
<1>13. Right(x, NewXfer)
  BY <1>4, <1>8 DEF Right
<1>14. Right(x, [NewXfer EXCEPT !.state = "descriptors"])
  BY <1>5, <1>8 DEF Right
<1>15. Right(x, [NewXfer EXCEPT !.state = "removed", !.outcome = "error"])
  BY <1>6, <1>8 DEF Right
<1>16. QED
  BY <1>4, <1>12, <1>13, <1>14, <1>15 DEF t, st

\* What concerns neither the buffer nor the replies.
LEMMA RightKept ==
  ASSUME NEW x \in Xfer, NEW t, Right(x, t), NEW u \in XferRecord, u.got = t.got,
         u.state \in {"ready", "removed"},
         u.state = "ready" => /\ t.state = "ready" /\ Len(u.descs_status) = N(x)
                              /\ u.buf = t.buf /\ u.buf_offset = t.buf_offset
                              /\ u.descs_count = t.descs_count
  PROVE  Right(x, u)
<1>1. GotRight(x, u.got)
  BY DEF Right
<1>2. CASE u.state = "ready"
  <2>1. BufRight(x, t)
    BY <1>2 DEF Right
  <2>2. BufRight(x, u)
    BY <1>2, <2>1 DEF BufRight
  <2>3. QED
    BY <1>1, <1>2, <2>2 DEF Right
<1>3. CASE u.state = "removed"
  BY <1>1, <1>3 DEF Right
<1>4. QED
  BY <1>2, <1>3

\* With other statuses for its chunks, a transfer sends the same.
LEMMA OtherStatuses ==
  ASSUME NEW x \in Xfer, NEW t, Right(x, t), t.state = "ready", NEW st \in [1 .. N(x) -> Statuses]
  PROVE  LET u == [t EXCEPT !.descs_status = st]
         IN  /\ Right(x, u) /\ Right(x, Xcb(u))
             /\ u.state = "ready" /\ Xcb(u).state = "ready"
             /\ u.fetching = t.fetching /\ Xcb(u).fetching = t.fetching
             /\ u.xcb = t.xcb /\ ~ Xcb(u).xcb /\ u.replies = t.replies
<1> DEFINE u == [t EXCEPT !.descs_status = st]
<1>1. t \in XferRecord /\ N(x) \in Nat
  BY ChunksOfObject DEF Right
<1>2. st \in Seq(Statuses) /\ Len(st) = N(x)
  BY <1>1, SeqOf
<1>3. /\ u \in XferRecord /\ u.got = t.got /\ u.state = "ready" /\ u.descs_status = st
      /\ u.buf = t.buf /\ u.buf_offset = t.buf_offset /\ u.descs_count = t.descs_count
      /\ u.fetching = t.fetching /\ u.xcb = t.xcb /\ u.replies = t.replies
  BY <1>1, <1>2 DEF XferRecord
<1> HIDE DEF u
<1>4. Right(x, u)
  BY <1>2, <1>3, RightKept
<1>5. /\ Xcb(u) \in XferRecord /\ Xcb(u).got = u.got /\ Xcb(u).state = "ready" /\ Xcb(u).descs_status = st
      /\ Xcb(u).buf = u.buf /\ Xcb(u).buf_offset = u.buf_offset /\ Xcb(u).descs_count = u.descs_count
      /\ Xcb(u).fetching = u.fetching /\ ~ Xcb(u).xcb
  BY <1>3 DEF XferRecord, Xcb
<1>6. Right(x, Xcb(u))
  BY <1>2, <1>3, <1>4, <1>5, RightKept
<1>7. QED
  BY <1>3, <1>4, <1>5, <1>6 DEF u

\* A transfer after a step of get_init.
Begun(x) == {[NewXfer EXCEPT !.state = "descriptors"],
             [NewXfer EXCEPT !.state = "removed", !.outcome = "error"],
             [NewXfer EXCEPT !.state = "ready", !.descs_status = [i \in 1 .. N(x) |-> "DESC_UNKNOWN"]]}

\* What the steps of get_init do.
LEMMA InitOutcome ==
  ASSUME PlaceInv, NEW x \in Xfer, GetInit(x) \/ DescriptorsArrive(x) \/ DescriptorsFail(x)
  PROVE  /\ status = "up" /\ UNCHANGED <<asks, scheduled, asked, stored, refs, others>>
         /\ xfer[x] = [NewXfer EXCEPT !.state = xfer[x].state]
         /\ ~ xfer[x].fetching /\ asked[x] = {} /\ x \notin scheduled
         /\ \/ xfer' = xfer /\ status' = "fatal"
            \/ status' = "up" /\ \E u \in Begun(x) : xfer' = [xfer EXCEPT ![x] = u]
<1>1. /\ status = "up" /\ Right(x, xfer[x]) /\ Turn(x)
      /\ UNCHANGED <<asks, scheduled, asked, stored, refs, others>>
  BY DEF PlaceInv, GetInit, DescriptorsArrive, DescriptorsFail
<1>2. xfer[x].state \in {"none", "descriptors"} /\ xfer[x] = [NewXfer EXCEPT !.state = xfer[x].state]
  BY <1>1 DEF Right, GetInit, DescriptorsArrive, DescriptorsFail
<1>3. ~ xfer[x].fetching /\ asked[x] = {} /\ x \notin scheduled
  <2>1. ~ xfer[x].fetching
    BY <1>2 DEF NewXfer
  <2>2. QED
    BY <1>1, <2>1 DEF Turn
<1> DEFINE u1 == [NewXfer EXCEPT !.state = "descriptors"]
           u2 == [NewXfer EXCEPT !.state = "removed", !.outcome = "error"]
           u3 == [NewXfer EXCEPT !.state = "ready", !.descs_status = [i \in 1 .. N(x) |-> "DESC_UNKNOWN"]]
<1>4. Ready(x) = u3
  BY <1>2 DEF Ready, NewXfer
<1>5. \/ xfer' = xfer /\ status' = "fatal"
      \/ /\ xfer' = [xfer EXCEPT ![x] = u1] \/ xfer' = [xfer EXCEPT ![x] = u2] \/ xfer' = [xfer EXCEPT ![x] = u3]
         /\ status' = "up"
  <2>0. ASSUME xfer' = [xfer EXCEPT ![x].state = "removed", ![x].outcome = "error"]
        PROVE  xfer' = [xfer EXCEPT ![x] = u2]
    <3>1. [[xfer[x] EXCEPT !.state = "removed"] EXCEPT !.outcome = "error"] = u2
      BY <1>2 DEF NewXfer
    <3>2. xfer' = [xfer EXCEPT ![x] = [[xfer[x] EXCEPT !.state = "removed"] EXCEPT !.outcome = "error"]]
      BY <2>0 DEF PlaceInv
    <3>3. QED
      BY <3>1, <3>2
  <2>1. CASE GetInit(x)
    <3>1. [xfer[x] EXCEPT !.state = "descriptors"] = u1
      BY <1>2 DEF NewXfer
    <3>2. \/ xfer' = [xfer EXCEPT ![x] = IF Descs[x] \in known THEN Ready(x)
                                          ELSE [xfer[x] EXCEPT !.state = "descriptors"]]
          \/ xfer' = [xfer EXCEPT ![x].state = "removed", ![x].outcome = "error"]
      BY <2>1 DEF GetInit, PlaceInv
    <3>3. status' = "up"
      BY <2>1 DEF GetInit
    <3>4. QED
      BY <1>4, <2>0, <3>1, <3>2, <3>3
  <2>2. CASE DescriptorsArrive(x)
    BY <1>1, <1>4, <2>2 DEF DescriptorsArrive
  <2>3. CASE DescriptorsFail(x)
    BY <1>1, <2>0, <2>3 DEF DescriptorsFail
  <2>4. QED
    BY <2>1, <2>2, <2>3
<1>6. u1 \in Begun(x) /\ u2 \in Begun(x) /\ u3 \in Begun(x)
  BY DEF Begun
<1> HIDE DEF u1, u2, u3
<1>7. QED
  BY <1>1, <1>2, <1>3, <1>5, <1>6

\* The steps of get_init.
LEMMA InitSteps ==
  ASSUME PlaceInv, NEW x \in Xfer, GetInit(x) \/ DescriptorsArrive(x) \/ DescriptorsFail(x)
  PROVE  PlaceInv'
<1>1. /\ asked[x] \subseteq 1 .. N(x) /\ asks \in [Xfer -> Nat] /\ asked \in [Xfer -> SUBSET Nat]
      /\ scheduled \subseteq Xfer
  BY DEF PlaceInv
<1>2. /\ status = "up" /\ UNCHANGED <<asks, scheduled, asked>> /\ asked[x] = {} /\ x \notin scheduled
      /\ \/ xfer' = xfer /\ status' = "fatal"
         \/ status' = "up" /\ \E u \in Begun(x) : xfer' = [xfer EXCEPT ![x] = u]
  BY InitOutcome
<1>3. ASSUME NEW u \in Begun(x), xfer' = [xfer EXCEPT ![x] = u], status' = "up"
      PROVE  PlaceInv'
  <2>1. Right(x, u) /\ ~ u.xcb /\ ~ u.fetching
    BY NewIsRight DEF Begun, NewXfer
  <2>2. xfer'[x] = u
    BY <1>3 DEF PlaceInv
  <2>3. Turn(x)'
    BY <1>2, <2>1, <2>2 DEF Turn
  <2>4. QED
    BY <1>1, <1>2, <1>3, <2>1, <2>3, OneChanges
<1>4. CASE xfer' = xfer /\ status' = "fatal"
  BY <1>1, <1>2, <1>4, NoneChanges
<1>5. QED
  BY <1>2, <1>3, <1>4

\* A handler that ends with transfer_data, for a call that is then answered.
LEMMA AnsweringStep ==
  ASSUME PlaceInv, NEW x \in Xfer, NEW t, Right(x, t), t.state = "ready", ~ t.xcb, NEW counts, NEW have,
         Transfers(x, t, counts, have), x \notin scheduled', ~ t.fetching => asked'[x] = {}, status = "up",
         asks' \in [Xfer -> Nat], asked' \in [Xfer -> SUBSET Nat], asked'[x] \subseteq 1 .. N(x),
         scheduled' \subseteq scheduled,
         \A y \in Xfer \ {x} : /\ asks'[y] = asks[y] /\ asked'[y] = asked[y]
                               /\ y \in scheduled' <=> y \in scheduled
  PROVE  PlaceInv'
<1>1. xfer \in [Xfer -> XferRecord] /\ scheduled' \subseteq Xfer
  BY DEF PlaceInv
<1>2. ASSUME NEW u, xfer' = [xfer EXCEPT ![x] = u], Right(x, u), u.xcb = t.xcb, u.fetching = t.fetching,
             status' = status
      PROVE  PlaceInv'
  <2>1. xfer'[x] = u
    BY <1>1, <1>2
  <2>2. Turn(x)'
    BY <1>2, <2>1 DEF Turn
  <2>3. QED
    BY <1>1, <1>2, <2>2, OneChanges
<1>3. CASE xfer' = xfer /\ status' = "undefined"
  <2>1. \A y \in Xfer : asked'[y] \subseteq 1 .. N(y)
    BY DEF PlaceInv
  <2>2. \A y \in Xfer : Right(y, xfer[y])'
    BY <1>3 DEF PlaceInv, Right, GotRight, BufRight, IsPart
  <2>3. QED
    BY <1>1, <1>3, <2>1, <2>2 DEF PlaceInv
<1>4. QED
  BY <1>2, <1>3, TransfersRight

\* A handler that ends without it.
LEMMA KeepingStep ==
  ASSUME PlaceInv, NEW x \in Xfer, NEW t, Right(x, t), NEW counts, Keeps(x, t, counts),
         asks' \in [Xfer -> Nat], asked' \in [Xfer -> SUBSET Nat], asked'[x] \subseteq 1 .. N(x),
         scheduled' \subseteq Xfer, status = "up",
         x \in scheduled' => t.state = "ready" /\ t.xcb /\ t.fetching /\ asked'[x] = {},
         ~ t.fetching => asked'[x] = {},
         t.state = "ready" /\ t.xcb => asks'[x] = t.replies + 1,
         \A y \in Xfer \ {x} : /\ asks'[y] = asks[y] /\ asked'[y] = asked[y]
                               /\ y \in scheduled' <=> y \in scheduled
  PROVE  PlaceInv'
<1>1. xfer' = [xfer EXCEPT ![x] = t] /\ status' = status
  BY DEF Keeps
<1>2. xfer'[x] = t
  BY <1>1 DEF PlaceInv
<1>3. Turn(x)'
  BY <1>2 DEF Turn
<1>4. QED
  BY <1>1, <1>3, OneChanges

\* What the invariant says of a transfer that is ready.
LEMMA ReadyFacts ==
  ASSUME PlaceInv, NEW x \in Xfer
  PROVE  /\ xfer \in [Xfer -> XferRecord] /\ asks \in [Xfer -> Nat] /\ asked \in [Xfer -> SUBSET Nat]
         /\ scheduled \subseteq Xfer /\ asked[x] \subseteq 1 .. N(x) /\ N(x) \in Nat
         /\ Right(x, xfer[x]) /\ xfer[x] \in XferRecord /\ asks[x] \in Nat /\ xfer[x].replies \in Nat
         /\ xfer[x].xcb \in BOOLEAN /\ xfer[x].fetching \in BOOLEAN
         /\ xfer[x].state = "ready" => Len(xfer[x].descs_status) = N(x)
         /\ status = "up" => Turn(x)
<1>1. Right(x, xfer[x]) /\ xfer[x] \in XferRecord
  BY DEF PlaceInv
<1>2. xfer[x].replies \in Nat /\ xfer[x].xcb \in BOOLEAN /\ xfer[x].fetching \in BOOLEAN
  BY <1>1 DEF XferRecord
<1>3. QED
  BY <1>1, <1>2, ChunksOfObject DEF PlaceInv, Right

\* get_data.
LEMMA GetDataStep ==
  ASSUME PlaceInv, NEW x \in Xfer, GetData(x)
  PROVE  PlaceInv'
<1> DEFINE t == xfer[x]
<1>1. /\ status = "up" /\ t.state = "ready" /\ asks[x] = t.replies
      /\ asks' = [asks EXCEPT ![x] = @ + 1] /\ UNCHANGED asked
  BY DEF GetData, Asks, InTable
<1>2. /\ Right(x, t) /\ t \in XferRecord /\ Turn(x) /\ asks[x] \in Nat /\ t.replies \in Nat /\ scheduled \subseteq Xfer
      /\ asked \in [Xfer -> SUBSET Nat] /\ asked[x] \subseteq 1 .. N(x) /\ Len(t.descs_status) = N(x)
  BY <1>1, ReadyFacts
<1>3. ~ t.xcb /\ x \notin scheduled /\ (~ t.fetching => asked[x] = {})
  <2>1. ~ t.xcb
    BY <1>1, <1>2 DEF Turn
  <2>2. QED
    BY <1>2, <2>1 DEF Turn
<1>4. /\ asks' \in [Xfer -> Nat] /\ asks'[x] = asks[x] + 1
      /\ \A y \in Xfer \ {x} : asks'[y] = asks[y] /\ asked'[y] = asked[y]
      /\ asked' \in [Xfer -> SUBSET Nat] /\ asked'[x] = asked[x]
  <2>1. asks \in [Xfer -> Nat] /\ asks[x] + 1 \in Nat
    BY <1>2 DEF PlaceInv
  <2>2. QED
    BY <1>1, <1>2, <2>1
<1> HIDE DEF t
<1>5. CASE Transfers(x, t, refs, stored) /\ UNCHANGED scheduled
  BY <1>1, <1>2, <1>3, <1>4, <1>5, AnsweringStep
<1>6. CASE /\ Keeps(x, [t EXCEPT !.replies = @ + 1, !.state = "removed", !.outcome = "end"], refs)
           /\ UNCHANGED scheduled
  <2> DEFINE u == [t EXCEPT !.replies = @ + 1, !.state = "removed", !.outcome = "end"]
  <2>1. u \in XferRecord /\ u.got = t.got /\ u.state = "removed" /\ u.fetching = t.fetching
    <3>1. t.replies + 1 \in Nat
      BY <1>2
    <3>2. QED
      BY <1>2, <3>1 DEF XferRecord
  <2> HIDE DEF u
  <2>2. Right(x, u)
    BY <1>2, <2>1, RightKept
  <2>3. Keeps(x, u, refs)
    BY <1>6 DEF u
  <2>4. QED
    BY <1>1, <1>2, <1>3, <1>4, <1>6, <2>1, <2>2, <2>3, KeepingStep
<1>7. CASE status' = "undefined" /\ UNCHANGED <<xfer, scheduled>>
  <2>1. \A y \in Xfer : asked'[y] \subseteq asked[y]
    BY <1>1
  <2>2. QED
    BY <1>2, <1>4, <1>7, <2>1, NoneChanges
<1>8. CASE /\ Keeps(x, [t EXCEPT !.xcb = TRUE, !.fetching = TRUE], refs)
           /\ scheduled' = IF t.fetching THEN scheduled ELSE scheduled \cup {x}
  <2> DEFINE u == [t EXCEPT !.xcb = TRUE, !.fetching = TRUE]
  <2>1. u \in XferRecord /\ u.got = t.got /\ u.state = "ready" /\ u.fetching /\ u.xcb /\ u.replies = t.replies
        /\ u.descs_status = t.descs_status /\ u.buf = t.buf /\ u.buf_offset = t.buf_offset
        /\ u.descs_count = t.descs_count
    BY <1>1, <1>2 DEF XferRecord, t
  <2> HIDE DEF u
  <2>2. Right(x, u)
    BY <1>1, <1>2, <2>1, RightKept DEF t
  <2>3. Keeps(x, u, refs)
    BY <1>8 DEF u
  <2>4. /\ scheduled' \subseteq Xfer
        /\ \A y \in Xfer \ {x} : y \in scheduled' <=> y \in scheduled
        /\ x \in scheduled' => asked'[x] = {}
    BY <1>2, <1>3, <1>4, <1>8
  <2>5. asks'[x] = u.replies + 1 /\ asked'[x] \subseteq 1 .. N(x)
    BY <1>1, <1>2, <1>4, <2>1 DEF t
  <2>6. QED
    BY <1>1, <1>4, <2>1, <2>2, <2>3, <2>4, <2>5, KeepingStep
<1>9. QED
  BY <1>5, <1>6, <1>7, <1>8 DEF GetData, t

\* fetch_data.
LEMMA FetchDataStep ==
  ASSUME PlaceInv, NEW x \in Xfer, FetchData(x)
  PROVE  PlaceInv'
<1> DEFINE here   == {i \in 1 .. N(x) : Descs[x][i] \in stored /\ refs[Descs[x][i]] >= 0}
           st     == [i \in 1 .. N(x) |-> IF i \in here THEN "DESC_ON_STORAGE" ELSE "DESC_REQUESTED"]
           counts == Retain(x, here)
           t      == [xfer[x] EXCEPT !.descs_status = st]
<1>1. /\ status = "up" /\ x \in scheduled /\ scheduled' = scheduled \ {x}
      /\ asked' = [asked EXCEPT ![x] = (1 .. N(x)) \ here] /\ UNCHANGED asks
      /\ Transfers(x, Xcb(t), counts, stored) \/ Keeps(x, t, counts)
  BY DEF FetchData, Dequeued
<1>2. /\ Right(x, xfer[x]) /\ Turn(x) /\ scheduled \subseteq Xfer /\ N(x) \in Nat
      /\ asked \in [Xfer -> SUBSET Nat] /\ asks \in [Xfer -> Nat]
  BY <1>1, ReadyFacts
<1>3. xfer[x].state = "ready" /\ xfer[x].xcb /\ xfer[x].fetching /\ asks[x] = xfer[x].replies + 1
  BY <1>1, <1>2 DEF Turn
<1>4. st \in [1 .. N(x) -> Statuses]
  BY DEF Statuses
<1> HIDE DEF st
<1>5. /\ Right(x, t) /\ Right(x, Xcb(t)) /\ t.state = "ready" /\ Xcb(t).state = "ready"
      /\ t.fetching /\ Xcb(t).fetching /\ ~ Xcb(t).xcb /\ t.replies = xfer[x].replies
  BY <1>2, <1>3, <1>4, OtherStatuses
<1> HIDE DEF t, counts
<1>6. /\ asked' \in [Xfer -> SUBSET Nat] /\ asked'[x] \subseteq 1 .. N(x)
      /\ asks' \in [Xfer -> Nat] /\ scheduled' \subseteq scheduled /\ x \notin scheduled'
      /\ \A y \in Xfer \ {x} : /\ asks'[y] = asks[y] /\ asked'[y] = asked[y]
                               /\ y \in scheduled' <=> y \in scheduled
  <2>1. (1 .. N(x)) \ here \in SUBSET Nat
    BY <1>2
  <2> HIDE DEF here
  <2>2. asked' \in [Xfer -> SUBSET Nat] /\ asked'[x] = (1 .. N(x)) \ here
    BY <1>1, <1>2, <2>1
  <2>3. \A y \in Xfer \ {x} : asked'[y] = asked[y]
    BY <1>1, <1>2
  <2>4. QED
    BY <1>1, <1>2, <2>2, <2>3
<1>7. CASE Transfers(x, Xcb(t), counts, stored)
  BY <1>1, <1>5, <1>6, <1>7, AnsweringStep
<1>8. CASE Keeps(x, t, counts)
  <2>1. asks'[x] = t.replies + 1 /\ scheduled' \subseteq Xfer
    BY <1>1, <1>2, <1>3, <1>5
  <2>2. QED
    BY <1>1, <1>5, <1>6, <1>8, <2>1, KeepingStep
<1>9. QED
  BY <1>1, <1>7, <1>8

\* xp_fetch_data_cb, with a chunk or with an error.
LEMMA CallbackStep ==
  ASSUME PlaceInv, NEW x \in Xfer, NEW i \in asked[x], ChunkArrives(x, i) \/ ChunkFails(x, i)
  PROVE  PlaceInv'
<1>1. /\ status = "up" /\ xfer[x].state = "ready" /\ asked' = [asked EXCEPT ![x] = @ \ {i}]
      /\ UNCHANGED <<asks, scheduled>>
  BY DEF ChunkArrives, ChunkFails, CalledBack, InTable
<1>2. /\ Right(x, xfer[x]) /\ xfer[x] \in XferRecord /\ Turn(x) /\ scheduled \subseteq Xfer /\ N(x) \in Nat
      /\ asked[x] \subseteq 1 .. N(x) /\ Len(xfer[x].descs_status) = N(x)
      /\ asked \in [Xfer -> SUBSET Nat] /\ asks \in [Xfer -> Nat]
  BY <1>1, ReadyFacts
<1>3. x \notin scheduled /\ xfer[x].fetching
  BY <1>2 DEF Turn
<1>4. /\ asked' \in [Xfer -> SUBSET Nat] /\ asked'[x] \subseteq 1 .. N(x)
      /\ asks' \in [Xfer -> Nat] /\ scheduled' \subseteq scheduled /\ x \notin scheduled'
      /\ \A y \in Xfer \ {x} : /\ asks'[y] = asks[y] /\ asked'[y] = asked[y]
                               /\ y \in scheduled' <=> y \in scheduled
  <2>1. asked' \in [Xfer -> SUBSET Nat] /\ asked'[x] = asked[x] \ {i}
    BY <1>1, <1>2
  <2>2. \A y \in Xfer \ {x} : asked'[y] = asked[y]
    BY <1>1, <1>2
  <2>3. QED
    BY <1>1, <1>2, <1>3, <2>1, <2>2
<1>5. ASSUME NEW t, Right(x, t), Right(x, Xcb(t)), t.state = "ready", Xcb(t).state = "ready",
             t.fetching, Xcb(t).fetching, ~ Xcb(t).xcb, t.xcb = xfer[x].xcb, t.replies = xfer[x].replies,
             NEW counts, NEW have, Transfers(x, Xcb(t), counts, have) \/ Keeps(x, t, counts)
      PROVE  PlaceInv'
  <2>1. CASE Transfers(x, Xcb(t), counts, have)
    BY <1>1, <1>4, <1>5, <2>1, AnsweringStep
  <2>2. CASE Keeps(x, t, counts)
    <3>1. t.state = "ready" /\ t.xcb => asks'[x] = t.replies + 1
      BY <1>1, <1>2, <1>5 DEF Turn
    <3>2. scheduled' \subseteq Xfer
      BY <1>1, <1>2
    <3>3. QED
      BY <1>1, <1>4, <1>5, <2>2, <3>1, <3>2, KeepingStep
  <2>3. QED
    BY <1>5, <2>1, <2>2
<1>6. CASE ChunkArrives(x, i)
  <2> DEFINE id     == Descs[x][i]
             marked == Marked(x, xfer[x], id)
             st     == [k \in 1 .. N(x) |-> IF k \in marked THEN "DESC_ON_STORAGE"
                                                           ELSE xfer[x].descs_status[k]]
             t      == [xfer[x] EXCEPT !.descs_status =
                          [k \in 1 .. N(x) |-> IF k \in marked THEN "DESC_ON_STORAGE" ELSE @[k]]]
             have   == IF marked = {} THEN stored ELSE stored \cup {id}
             counts == IF marked = {} THEN refs ELSE [refs EXCEPT ![id] = @ + 1]
  <2>1. Transfers(x, Xcb(t), counts, have) \/ Keeps(x, t, counts)
    BY <1>6 DEF ChunkArrives
  <2> HIDE DEF marked, have, counts
  <2>2. t = [xfer[x] EXCEPT !.descs_status = st]
    BY <1>2 DEF XferRecord
  <2>3. st \in [1 .. N(x) -> Statuses]
    <3>1. xfer[x].descs_status \in Seq(Statuses)
      BY <1>2 DEF XferRecord
    <3>2. \A k \in 1 .. N(x) : xfer[x].descs_status[k] \in Statuses
      BY <1>2, <3>1, ElementOfSeq
    <3>3. QED
      BY <3>2 DEF Statuses
  <2> HIDE DEF t, st
  <2>4. /\ Right(x, t) /\ Right(x, Xcb(t)) /\ t.state = "ready" /\ Xcb(t).state = "ready"
        /\ t.fetching /\ Xcb(t).fetching /\ ~ Xcb(t).xcb /\ t.replies = xfer[x].replies /\ t.xcb = xfer[x].xcb
    BY <1>1, <1>2, <1>3, <2>2, <2>3, OtherStatuses
  <2>5. QED
    BY <1>5, <2>1, <2>4
<1>7. CASE ChunkFails(x, i)
  <2> DEFINE t == [xfer[x] EXCEPT !.err = TRUE]
  <2>1. Transfers(x, Xcb(t), refs, stored) \/ Keeps(x, t, refs)
    BY <1>7 DEF ChunkFails
  <2>2. /\ t \in XferRecord /\ t.got = xfer[x].got /\ t.state = "ready"
        /\ t.descs_status = xfer[x].descs_status
        /\ t.buf = xfer[x].buf /\ t.buf_offset = xfer[x].buf_offset /\ t.descs_count = xfer[x].descs_count
        /\ t.fetching /\ t.xcb = xfer[x].xcb /\ t.replies = xfer[x].replies
    BY <1>1, <1>2, <1>3 DEF XferRecord
  <2> HIDE DEF t
  <2>3. Right(x, t)
    BY <1>1, <1>2, <2>2, RightKept
  <2>4. /\ Xcb(t) \in XferRecord /\ Xcb(t).got = t.got /\ Xcb(t).state = "ready"
        /\ Xcb(t).descs_status = t.descs_status
        /\ Xcb(t).buf = t.buf /\ Xcb(t).buf_offset = t.buf_offset /\ Xcb(t).descs_count = t.descs_count
        /\ Xcb(t).fetching /\ ~ Xcb(t).xcb
    BY <2>2 DEF XferRecord, Xcb
  <2>5. Right(x, Xcb(t))
    BY <1>2, <2>2, <2>3, <2>4, RightKept
  <2>6. QED
    BY <1>5, <2>1, <2>2, <2>3, <2>4, <2>5
<1>8. QED
  BY <1>6, <1>7

\* The steps that concern no transfer.
LEMMA QuietStep ==
  ASSUME PlaceInv,
         \/ \E x \in Xfer : \E i \in asked[x] : ChunkTooLate(x, i)
         \/ \E id \in Id : Overheard(id) \/ Purge(id)
         \/ UNCHANGED vars
  PROVE  PlaceInv'
<1>1. /\ UNCHANGED <<xfer, asks, scheduled, status>>
      /\ asked' = asked \/ \E x \in Xfer : \E i \in asked[x] : asked' = [asked EXCEPT ![x] = @ \ {i}]
  BY DEF ChunkTooLate, CalledBack, Overheard, Purge, vars
<1>2. asked \in [Xfer -> SUBSET Nat] /\ asks \in [Xfer -> Nat] /\ scheduled \subseteq Xfer
  BY DEF PlaceInv
<1>3. asked' \in [Xfer -> SUBSET Nat] /\ \A y \in Xfer : asked'[y] \subseteq asked[y]
  BY <1>1, <1>2
<1>4. ASSUME NEW y \in Xfer, status' = "up"
      PROVE  Turn(y)'
  <2>1. Turn(y) /\ asked'[y] \subseteq asked[y]
    BY <1>1, <1>3, <1>4 DEF PlaceInv
  <2>2. QED
    BY <1>1, <2>1 DEF Turn
<1>5. QED
  BY <1>1, <1>2, <1>3, <1>4, NoneChanges

\* The beginning.
LEMMA StartsRight ==
  ASSUME Init
  PROVE  PlaceInv /\ \A x \in Xfer : xfer[x] = NewXfer
<1>1. xfer \in [Xfer -> XferRecord] /\ \A x \in Xfer : xfer[x] = NewXfer /\ Right(x, NewXfer)
  BY NewIsRight DEF Init
<1>2. asks \in [Xfer -> Nat] /\ asked \in [Xfer -> SUBSET Nat] /\ scheduled = {} /\ \A x \in Xfer : asked[x] = {}
  BY DEF Init
<1>3. \A x \in Xfer : Turn(x)
  BY <1>1, <1>2 DEF Turn, NewXfer
<1>4. QED
  BY <1>1, <1>2, <1>3 DEF PlaceInv

\* The invariant of every reachable state.
THEOREM AlwaysPlaceInv == Spec => []PlaceInv
<1>1. Init => PlaceInv
  BY StartsRight
<1>2. PlaceInv /\ [Next]_vars => PlaceInv'
  <2> SUFFICES ASSUME PlaceInv, [Next]_vars PROVE PlaceInv'
    OBVIOUS
  <2>1. ASSUME NEW x \in Xfer, GetInit(x) \/ DescriptorsArrive(x) \/ DescriptorsFail(x)
        PROVE  PlaceInv'
    BY <2>1, InitSteps
  <2>2. ASSUME NEW x \in Xfer, GetData(x)
        PROVE  PlaceInv'
    BY <2>2, GetDataStep
  <2>3. ASSUME NEW x \in Xfer, FetchData(x)
        PROVE  PlaceInv'
    BY <2>3, FetchDataStep
  <2>4. ASSUME NEW x \in Xfer, NEW i \in asked[x], ChunkArrives(x, i) \/ ChunkFails(x, i)
        PROVE  PlaceInv'
    BY <2>4, CallbackStep
  <2>5. CASE \/ \E x \in Xfer : \E i \in asked[x] : ChunkTooLate(x, i)
             \/ \E id \in Id : Overheard(id) \/ Purge(id)
             \/ UNCHANGED vars
    BY <2>5, QuietStep
  <2>6. QED
    BY <2>1, <2>2, <2>3, <2>4, <2>5 DEF Next
<1>3. QED
  BY <1>1, <1>2, PTL DEF Spec

\* What a client was sent is right, for every object, order of arrival and size of a
\* reply: transfer_data and actual_transfer_data send the bytes that belong at the
\* offset they give, and in sequential mode one after the other.
THEOREM EveryReplyInPlace == Spec => []RepliesInPlace
<1>1. PlaceInv => RepliesInPlace
  <2> SUFFICES ASSUME PlaceInv, NEW x \in Xfer, NEW k \in 1 .. Len(xfer[x].got)
               PROVE  LET got == xfer[x].got IN
                        /\ got[k].data = SubSeq(Object(x), got[k].offset + 1, got[k].offset + Len(got[k].data))
                        /\ Mode[x] = "XFER_SEQUENTIAL" =>
                             got[k].offset = MapThenSumSet(LAMBDA m : Len(got[m].data), 1 .. k - 1)
    BY DEF RepliesInPlace
  <2> DEFINE got == xfer[x].got
             m == got[k].offset
             data == got[k].data
  <2>1. GotRight(x, got) /\ got \in Seq(Reply)
    BY DEF PlaceInv, Right, XferRecord
  <2>2. IsPart(x, m, data) /\ (Mode[x] = "XFER_SEQUENTIAL" => m = SentBefore(got, k))
    BY <2>1 DEF GotRight
  <2>3. m \in Nat /\ data \in Seq(Payload)
    <3>1. got[k] \in Reply
      BY <2>1, ElementOfSeq
    <3>2. QED
      BY <3>1 DEF Reply
  <2> HIDE DEF data, m
  <2>4. Object(x) \in Seq(Payload) /\ Len(Object(x)) = Offset(x, N(x) + 1)
    BY ObjectIsSeq
  <2>5. Len(data) \in Nat /\ data \in [1 .. Len(data) -> Payload]
    BY <2>3, LenProperties
  <2> DEFINE n == m + Len(data)
             part == SubSeq(Object(x), m + 1, n)
  <2>6. n \in Nat /\ m <= n /\ n <= Len(Object(x)) /\ n - m = Len(data)
    <3>1. n <= Offset(x, N(x) + 1)
      BY <2>2 DEF IsPart
    <3>2. QED
      BY <2>3, <2>4, <2>5, <3>1
  <2> HIDE DEF n
  <2>7. /\ part \in Seq(Payload) /\ Len(part) = n - m
        /\ \A j \in 1 .. n - m : part[j] = Object(x)[m + j]
    BY <2>3, <2>4, <2>6, PartOfSeq
  <2> HIDE DEF part
  <2>8. data = part
    <3>1. Len(part) = Len(data) /\ \A j \in 1 .. Len(data) : data[j] = part[j]
      BY <2>2, <2>6, <2>7 DEF IsPart
    <3>2. QED
      BY <2>3, <2>7, <3>1, SeqEqual
  <2>9. QED
    BY <2>2, <2>8 DEF data, m, n, part, SentBefore
<1>2. QED
  BY <1>1, AlwaysPlaceInv, PTL

-----------------------------------------------------------------------------
(* The inductive invariant of the end, and of the references *)

\* No object has the same chunk twice.  (If one has, xp_fetch_data_cb takes one
\* reference for all positions of the chunk, and the end gives back one for each.)
Distinct == \A x \in Xfer : \A i, k \in 1 .. N(x) : Descs[x][i] = Descs[x][k] => i = k

InPart(offset, data, p) == offset < p /\ p <= offset + Len(data)
InGot(got, p)           == \E k \in 1 .. Len(got) : InPart(got[k].offset, got[k].data, p)

Done(t) == {i \in 1 .. Len(t.descs_status) : t.descs_status[i] = "DESC_DONE"}

\* What was taken from the storage was sent or is in the buffer.
Counted(x, t) ==
  /\ t.descs_xfered = Cardinality(Done(t))
  /\ \A i \in Done(t) : \A p \in Offset(x, i) + 1 .. Offset(x, i + 1) :
       InGot(t.got, p) \/ InPart(t.buf_offset, t.buf, p)

\* As long as the end was not sent something is left to be sent; then nothing is.
Ends(x, t) ==
  /\ t.state = "ready" => /\ t.outcome = "none"
                          /\ Counted(x, t)
                          /\ t.descs_xfered = N(x) /\ t.buf = <<>> => N(x) = 0
  /\ t.outcome = "end" => \A p \in 1 .. Offset(x, N(x) + 1) : InGot(t.got, p)

\* Before fetch_data nothing is known of the chunks; then what was asked for is marked so.
Marks(x) ==
  xfer[x].state = "ready" =>
    /\ ~ xfer[x].fetching \/ x \in scheduled =>
         \A i \in 1 .. N(x) : xfer[x].descs_status[i] = "DESC_UNKNOWN"
    /\ \A i \in asked[x] : xfer[x].descs_status[i] = "DESC_REQUESTED"

\* The positions for which a transfer holds a reference to chunk id, ...
Holds(x, t, id) ==
  {i \in 1 .. Len(t.descs_status) :
     /\ Descs[x][i] = id
     /\ t.descs_status[i] \in {"DESC_ON_STORAGE", "DESC_DONE"}}

\* ... how many it has to give back, and how many all have that are in table f.
Share(x, t, id) == IF t.outcome = "end" THEN 0 ELSE Cardinality(Holds(x, t, id))
HeldIn(f, x, id) == Cardinality(Holds(x, f[x], id))
SumOf(f, id) == MapThenSumSet(LAMBDA x : HeldIn(f, x, id), {x \in Xfer : f[x].outcome # "end"})

\* The storage has the chunks that are referred to, as often as they are.
Accounts(f, counts, have) ==
  \A id \in Id : /\ counts[id] = others[id] + SumOf(f, id)
                 /\ counts[id] # 0 => id \in have

CountInv ==
  /\ PlaceInv
  /\ refs \in [Id -> Nat] /\ others \in [Id -> Nat]
  /\ \A x \in Xfer : Ends(x, xfer[x])
  /\ status = "up" => Accounts(xfer, refs, stored) /\ \A x \in Xfer : Marks(x)
  /\ MarkedIsStored

-----------------------------------------------------------------------------
(* Sums of references *)

\* The positions of a chunk are finitely many.
LEMMA HoldsFinite ==
  ASSUME NEW x, NEW t, t.descs_status \in Seq(Statuses), NEW id
  PROVE  /\ IsFiniteSet(Holds(x, t, id)) /\ Cardinality(Holds(x, t, id)) \in Nat
         /\ IsFiniteSet(Done(t)) /\ Share(x, t, id) \in Nat
<1>1. Len(t.descs_status) \in Nat
  BY LenProperties
<1>2. IsFiniteSet(1 .. Len(t.descs_status))
  <2>1. 1 \in Int /\ Len(t.descs_status) \in Int
    BY <1>1
  <2>2. QED
    BY <2>1, FS_Interval
<1>3. Holds(x, t, id) \in SUBSET (1 .. Len(t.descs_status)) /\ Done(t) \in SUBSET (1 .. Len(t.descs_status))
  BY DEF Holds, Done
<1>4. IsFiniteSet(Holds(x, t, id)) /\ IsFiniteSet(Done(t))
  BY <1>2, <1>3, FS_Subset
<1>5. Cardinality(Holds(x, t, id)) \in Nat
  BY <1>4, FS_CardinalityType
<1>6. QED
  BY <1>4, <1>5 DEF Share

Live(f)       == {x \in Xfer : f[x].outcome # "end"}
HeldBy(f, id) == [x \in Xfer |-> HeldIn(f, x, id)]

\* The references of all transfers, as a sum.
LEMMA SumOfIsTotal ==
  ASSUME NEW f \in [Xfer -> XferRecord], NEW id
  PROVE  /\ SumOf(f, id) = Total(Live(f), HeldBy(f, id))
         /\ SumOf(f, id) \in Nat /\ IsFiniteSet(Live(f))
         /\ \A x \in Xfer : HeldBy(f, id)[x] = HeldIn(f, x, id) /\ HeldIn(f, x, id) \in Nat
<1> DEFINE S == Live(f)
           w == HeldBy(f, id)
           g == [s \in SUBSET S |-> Total(s, w)]
           Step(h) == [s \in SUBSET S |->
                         IF s = {} THEN 0
                         ELSE HeldIn(f, CHOOSE y \in s : TRUE, id) + h[s \ {CHOOSE y \in s : TRUE}]]
<1>1. IsFiniteSet(S) /\ S \subseteq Xfer
  <2>1. S \in SUBSET Xfer
    BY DEF Live
  <2>2. QED
    BY <2>1, XferAssumption, FS_Subset
<1>2. \A x \in Xfer : w[x] = HeldIn(f, x, id) /\ w[x] \in Nat
  <2>1. ASSUME NEW x \in Xfer
        PROVE  HeldIn(f, x, id) \in Nat
    <3>1. f[x].descs_status \in Seq(Statuses)
      BY DEF XferRecord
    <3>2. QED
      BY <3>1, HoldsFinite DEF HeldIn
  <2>2. QED
    BY <2>1 DEF HeldBy
<1>3. \A x \in S : w[x] = HeldIn(f, x, id) /\ w[x] \in Nat
  BY <1>1, <1>2
<1> HIDE DEF S, w
<1>4. /\ Summed(S, w, g)
      /\ \A h, j : Summed(S, w, h) /\ Summed(S, w, j) => h = j
  BY <1>1, <1>3, SumIsTotal
<1>5. ASSUME NEW h
      PROVE  (h = Step(h)) <=> Summed(S, w, h)
  <2>1. ASSUME NEW s \in SUBSET S, s # {}
        PROVE  w[Chosen(s)] = HeldIn(f, CHOOSE y \in s : TRUE, id)
    <3>1. Chosen(s) \in S
      BY <2>1 DEF Chosen
    <3>2. QED
      BY <1>3, <3>1 DEF Chosen
  <2>2. Step(h) = [s \in SUBSET S |-> IF s = {} THEN 0
                                      ELSE w[Chosen(s)] + h[s \ {Chosen(s)}]]
    BY <2>1 DEF Chosen
  <2>3. QED
    BY <2>2 DEF Summed
<1>6. g = Step(g) /\ \A h : h = Step(h) => h = g
  BY <1>4, <1>5
<1>7. SumOf(f, id) = g[S]
  <2> HIDE DEF g
  <2>1. QED
    BY <1>6 DEF SumOf, S, Live, MapThenSumSet, MapThenFoldSet
<1>8. SumOf(f, id) = Total(S, w)
  BY <1>7
<1>9. Total(S, w) \in Nat
  BY <1>1, <1>3, PairsFinite
<1>10. QED
  BY <1>1, <1>2, <1>8, <1>9 DEF S, w

\* When one transfer changes, the sum changes by its share.
LEMMA SumChanges ==
  ASSUME NEW f \in [Xfer -> XferRecord], NEW g \in [Xfer -> XferRecord], NEW x \in Xfer,
         \A y \in Xfer \ {x} : g[y] = f[y], NEW id
  PROVE  \E rest \in Nat : /\ SumOf(f, id) = rest + Share(x, f[x], id)
                           /\ SumOf(g, id) = rest + Share(x, g[x], id)
<1> DEFINE rest(h) == Total(Live(h) \ {x}, HeldBy(h, id))
<1>1. ASSUME NEW h \in [Xfer -> XferRecord]
      PROVE  rest(h) \in Nat /\ SumOf(h, id) = rest(h) + Share(x, h[x], id)
  <2>1. /\ SumOf(h, id) = Total(Live(h), HeldBy(h, id)) /\ SumOf(h, id) \in Nat /\ IsFiniteSet(Live(h))
        /\ \A y \in Xfer : HeldBy(h, id)[y] = HeldIn(h, y, id) /\ HeldIn(h, y, id) \in Nat
    BY SumOfIsTotal
  <2>2. \A y \in Live(h) : HeldBy(h, id)[y] \in Nat
    BY <2>1 DEF Live
  <2>3. CASE x \in Live(h)
    <3>1. /\ Total(Live(h), HeldBy(h, id)) = HeldBy(h, id)[x] + rest(h)
          /\ rest(h) \in Nat
      BY <2>1, <2>2, <2>3, TotalSplit
    <3>2. Share(x, h[x], id) = HeldBy(h, id)[x]
      BY <2>1, <2>3 DEF Share, HeldIn, Live
    <3>3. HeldBy(h, id)[x] \in Nat
      BY <2>1
    <3> HIDE DEF rest
    <3>4. QED
      BY <2>1, <3>1, <3>2, <3>3
  <2>4. CASE x \notin Live(h)
    <3>1. Live(h) \ {x} = Live(h)
      BY <2>4
    <3>2. Share(x, h[x], id) = 0
      BY <2>4 DEF Share, Live
    <3>3. QED
      BY <2>1, <3>1, <3>2
  <2>5. QED
    BY <2>3, <2>4
<1>2. Live(f) \ {x} = Live(g) \ {x}
  BY DEF Live
<1>3. \A y \in Live(f) \ {x} : HeldBy(f, id)[y] = HeldBy(g, id)[y]
  BY DEF HeldBy, HeldIn, Live
<1>4. rest(f) = rest(g)
  BY <1>2, <1>3, TotalSame
<1> HIDE DEF rest
<1>5. QED
  BY <1>1, <1>4

\* A chunk that a transfer has marked is referred to.
LEMMA MarkedIsReferred ==
  ASSUME NEW f \in [Xfer -> XferRecord], NEW counts, NEW have, others \in [Id -> Nat],
         Accounts(f, counts, have), NEW x \in Xfer, f[x].outcome # "end",
         NEW i \in OnStorage(f[x]), Descs[x][i] \in Id
  PROVE  Descs[x][i] \in have
<1> DEFINE id == Descs[x][i]
<1>1. i \in Holds(x, f[x], id)
  BY DEF OnStorage, Holds
<1>2. f[x].descs_status \in Seq(Statuses)
  BY DEF XferRecord
<1>3. /\ IsFiniteSet(Holds(x, f[x], id)) /\ Cardinality(Holds(x, f[x], id)) \in Nat
      /\ Share(x, f[x], id) = Cardinality(Holds(x, f[x], id))
  BY <1>2, HoldsFinite DEF Share
<1>4. Cardinality(Holds(x, f[x], id)) # 0
  BY <1>1, <1>3, FS_EmptySet
<1>5. PICK rest \in Nat : SumOf(f, id) = rest + Share(x, f[x], id)
  BY SumChanges
<1>6. counts[id] = others[id] + SumOf(f, id) /\ others[id] \in Nat /\ (counts[id] # 0 => id \in have)
  BY DEF Accounts
<1> HIDE DEF id
<1>7. counts[id] # 0
  BY <1>3, <1>4, <1>5, <1>6
<1>8. QED
  BY <1>6, <1>7 DEF id

-----------------------------------------------------------------------------
(* What transfer_data does to the counts *)

\* Appending a run counts it, and covers its bytes.
LEMMA MoveCounts ==
  ASSUME NEW x \in Xfer, NEW t \in XferRecord, Len(t.descs_status) = N(x), NEW i \in OnStorage(t),
         NEW base \in Nat, IsPart(x, base, t.buf), base + Len(t.buf) = Offset(x, i), NEW have,
         t.descs_xfered = Cardinality(Done(t)),
         \A k \in Done(t) : \A p \in Offset(x, k) + 1 .. Offset(x, k + 1) :
           InGot(t.got, p) \/ InPart(base, t.buf, p),
         ~ MoveIntoBuf(x, t, i, have).err
  PROVE  LET u == MoveIntoBuf(x, t, i, have)
         IN  /\ u.descs_xfered = Cardinality(Done(u))
             /\ \A k \in Done(u) : \A p \in Offset(x, k) + 1 .. Offset(x, k + 1) :
                  InGot(u.got, p) \/ InPart(base, u.buf, p)
<1> DEFINE u == MoveIntoBuf(x, t, i, have)
           j == RunEnd(x, t, i)
<1>1. /\ u \in XferRecord /\ u.got = t.got /\ Len(u.descs_status) = N(x)
      /\ base + Len(u.buf) = Offset(x, j + 1)
      /\ u.descs_xfered = t.descs_xfered + (j - i + 1)
      /\ \A k \in 1 .. N(x) : u.descs_status[k] = IF k \in i .. j THEN "DESC_DONE" ELSE t.descs_status[k]
  BY MoveAppends DEF SameClient
<1>2. /\ N(x) \in Nat /\ i \in 1 .. N(x) /\ j \in i .. N(x)
      /\ \A k \in i .. j : k \in OnStorage(t)
  BY ChunksOfObject, RunOnStorage
<1> HIDE DEF u, j
<1>3. Done(u) = Done(t) \cup (i .. j) /\ Done(t) \cap (i .. j) = {}
  <2>1. \A k \in i .. j : k \in 1 .. N(x) /\ k \notin Done(t)
    BY <1>2 DEF OnStorage, Done
  <2>2. \A k : k \in Done(u) <=> k \in 1 .. N(x) /\ u.descs_status[k] = "DESC_DONE"
    BY <1>1 DEF Done
  <2>3. \A k : k \in Done(t) <=> k \in 1 .. N(x) /\ t.descs_status[k] = "DESC_DONE"
    BY DEF Done
  <2>4. \A k : k \in Done(u) <=> k \in Done(t) \/ k \in i .. j
    BY <1>1, <2>1, <2>2, <2>3
  <2>5. QED
    BY <2>1, <2>4
<1>4. u.descs_xfered = Cardinality(Done(u))
  <2>1. IsFiniteSet(Done(t)) /\ Cardinality(Done(t)) \in Nat
    <3>1. t.descs_status \in Seq(Statuses)
      BY DEF XferRecord
    <3>2. QED
      BY <3>1, HoldsFinite, FS_CardinalityType
  <2>2. IsFiniteSet(i .. j) /\ Cardinality(i .. j) = j - i + 1
    <3>1. i \in Int /\ j \in Int /\ ~ (i > j)
      BY <1>2
    <3>2. QED
      BY <3>1, FS_Interval
  <2>3. Cardinality(Done(t) \cap (i .. j)) = 0
    BY <1>3, FS_EmptySet
  <2>4. Cardinality(Done(t) \cup (i .. j))
          = Cardinality(Done(t)) + Cardinality(i .. j) - Cardinality(Done(t) \cap (i .. j))
    BY <2>1, <2>2, FS_Union
  <2>5. \A m, n \in Int : m + n - 0 = m + n
    OBVIOUS
  <2>6. j - i + 1 \in Int
    BY <1>2
  <2>7. QED
    BY <1>1, <1>3, <2>1, <2>2, <2>3, <2>4, <2>5, <2>6
<1>5. ASSUME NEW k \in Done(u), NEW p \in Offset(x, k) + 1 .. Offset(x, k + 1)
      PROVE  InGot(u.got, p) \/ InPart(base, u.buf, p)
  <2>1. k \in 1 .. N(x)
    BY <1>1 DEF Done
  <2>2. /\ Offset(x, i) \in Nat /\ Offset(x, j + 1) \in Nat /\ Offset(x, k) \in Nat /\ Offset(x, k + 1) \in Nat
        /\ Offset(x, i) <= Offset(x, j + 1)
    <3>1. /\ i \in 1 .. N(x) + 1 /\ j + 1 \in 1 .. N(x) + 1 /\ k \in 1 .. N(x) + 1 /\ k + 1 \in 1 .. N(x) + 1
          /\ j + 1 \in i .. N(x) + 1
      BY <1>2, <2>1
    <3>2. QED
      BY <3>1, Offsets, OffsetsGrow
  <2>3. Len(t.buf) \in Nat /\ Len(u.buf) \in Nat
    BY <1>1, LenProperties DEF XferRecord
  <2>4. CASE k \in Done(t)
    <3>1. InGot(t.got, p) \/ InPart(base, t.buf, p)
      BY <2>4
    <3>2. InPart(base, t.buf, p) => InPart(base, u.buf, p)
      BY <1>1, <2>2, <2>3 DEF InPart
    <3>3. QED
      BY <1>1, <3>1, <3>2
  <2>5. CASE k \in i .. j
    <3>1. /\ i \in 1 .. N(x) + 1 /\ k \in i .. N(x) + 1
          /\ k + 1 \in 1 .. N(x) + 1 /\ j + 1 \in k + 1 .. N(x) + 1
      BY <1>2, <2>5
    <3>2. Offset(x, i) <= Offset(x, k) /\ Offset(x, k + 1) <= Offset(x, j + 1)
      BY <3>1, OffsetsGrow
    <3>3. InPart(base, u.buf, p)
      BY <1>1, <2>2, <2>3, <3>2 DEF InPart
    <3>4. QED
      BY <3>3
  <2>6. QED
    BY <1>3, <2>4, <2>5
<1>6. QED
  BY <1>4, <1>5 DEF u

\* transfer_data: the data it puts into the buffer is counted.
LEMMA LoadedCounts ==
  ASSUME NEW x \in Xfer, NEW t, Right(x, t), t.state = "ready", Counted(x, t), NEW have
  PROVE  LET u == Loaded(x, t, have)
         IN  OnlyDone(x, t, u) /\ (~ u.err => Counted(x, u))
<1> DEFINE u == Loaded(x, t, have)
<1>1. /\ t \in XferRecord /\ Len(t.descs_status) = N(x) /\ BufRight(x, t)
      /\ N(x) \in Nat /\ t.descs_count \in Nat /\ t.buf_offset \in Nat
  BY ChunksOfObject DEF Right, XferRecord
<1>2. CASE u = t
  BY <1>2 DEF OnlyDone
<1>3. CASE /\ ~ t.err /\ Mode[x] = "XFER_SEQUENTIAL" /\ NextOnStorage(x, t)
           /\ u = [MoveIntoBuf(x, t, t.descs_count + 1, have)
                     EXCEPT !.descs_count = RunEnd(x, t, t.descs_count + 1)]
  <2> DEFINE i == t.descs_count + 1
             m == MoveIntoBuf(x, t, i, have)
             j == RunEnd(x, t, i)
  <2>1. i \in OnStorage(t)
    BY <1>3 DEF NextOnStorage
  <2>2. IsPart(x, t.buf_offset, t.buf) /\ t.buf_offset + Len(t.buf) = Offset(x, i)
    BY <1>1, <1>3 DEF BufRight
  <2>3. /\ m \in XferRecord /\ m.got = t.got /\ m.buf_offset = t.buf_offset /\ OnlyDone(x, t, m)
    BY <1>1, <2>1, <2>2, MoveAppends DEF SameClient
  <2>4. ~ m.err => /\ m.descs_xfered = Cardinality(Done(m))
                   /\ \A k \in Done(m) : \A p \in Offset(x, k) + 1 .. Offset(x, k + 1) :
                        InGot(m.got, p) \/ InPart(t.buf_offset, m.buf, p)
    BY <1>1, <2>1, <2>2, MoveCounts DEF Counted
  <2>5. u = [m EXCEPT !.descs_count = j]
    BY <1>3
  <2> HIDE DEF u, m, j, i
  <2>6. /\ u.descs_status = m.descs_status /\ u.descs_xfered = m.descs_xfered
        /\ u.err = m.err /\ u.buf = m.buf /\ u.buf_offset = t.buf_offset /\ u.got = m.got
    BY <2>3, <2>5 DEF XferRecord
  <2>7. Done(u) = Done(m) /\ OnlyDone(x, t, u)
    BY <2>3, <2>6 DEF Done, OnlyDone
  <2>8. ~ u.err => Counted(x, u)
    BY <2>4, <2>6, <2>7 DEF Counted
  <2>9. QED
    BY <2>7, <2>8 DEF u
<1>4. CASE /\ ~ t.err /\ Mode[x] # "XFER_SEQUENTIAL" /\ t.buf = <<>> /\ OnStorage(t) # {}
           /\ u = [MoveIntoBuf(x, t, Min(OnStorage(t)), have)
                     EXCEPT !.buf_offset = Offset(x, Min(OnStorage(t)))]
  <2> DEFINE i == Min(OnStorage(t))
             m == MoveIntoBuf(x, t, i, have)
  <2>1. i \in OnStorage(t)
    BY <1>1, <1>4, MinOnStorage
  <2>2. i \in 1 .. N(x) /\ Offset(x, i) \in Nat /\ Offset(x, N(x) + 1) \in Nat
        /\ Offset(x, i) <= Offset(x, N(x) + 1)
    <3>1. i \in 1 .. N(x)
      BY <1>1, <2>1 DEF OnStorage
    <3>2. i \in 1 .. N(x) + 1 /\ N(x) + 1 \in i .. N(x) + 1 /\ N(x) + 1 \in 1 .. N(x) + 1
      BY <1>1, <3>1
    <3>3. QED
      BY <3>1, <3>2, Offsets, OffsetsGrow
  <2>3. Len(t.buf) = 0
    BY <1>4
  <2>4. IsPart(x, Offset(x, i), t.buf) /\ Offset(x, i) + Len(t.buf) = Offset(x, i)
    BY <2>2, <2>3 DEF IsPart
  <2>5. \A k \in Done(t) : \A p \in Offset(x, k) + 1 .. Offset(x, k + 1) :
           InGot(t.got, p) \/ InPart(Offset(x, i), t.buf, p)
    <3>1. ASSUME NEW k \in Done(t), NEW p \in Offset(x, k) + 1 .. Offset(x, k + 1)
          PROVE  InGot(t.got, p)
      <4>1. InGot(t.got, p) \/ InPart(t.buf_offset, t.buf, p)
        BY DEF Counted
      <4>2. Offset(x, k) \in Nat /\ Offset(x, k + 1) \in Nat
        <5>1. k \in 1 .. N(x) + 1 /\ k + 1 \in 1 .. N(x) + 1
          BY <1>1 DEF Done
        <5>2. QED
          BY <5>1, Offsets
      <4>3. ~ InPart(t.buf_offset, t.buf, p)
        BY <1>1, <2>3, <4>2 DEF InPart
      <4>4. QED
        BY <4>1, <4>3
    <3>2. QED
      BY <3>1
  <2>6. /\ m \in XferRecord /\ m.got = t.got /\ OnlyDone(x, t, m)
    BY <1>1, <2>1, <2>2, <2>4, MoveAppends DEF SameClient
  <2>7. ~ m.err => /\ m.descs_xfered = Cardinality(Done(m))
                   /\ \A k \in Done(m) : \A p \in Offset(x, k) + 1 .. Offset(x, k + 1) :
                        InGot(m.got, p) \/ InPart(Offset(x, i), m.buf, p)
    BY <1>1, <2>1, <2>2, <2>4, <2>5, MoveCounts DEF Counted
  <2>8. u = [m EXCEPT !.buf_offset = Offset(x, i)]
    BY <1>4
  <2> HIDE DEF u, m, i
  <2>9. /\ u.descs_status = m.descs_status /\ u.descs_xfered = m.descs_xfered
        /\ u.err = m.err /\ u.buf = m.buf /\ u.buf_offset = Offset(x, i) /\ u.got = m.got
    BY <2>6, <2>8 DEF XferRecord
  <2>10. Done(u) = Done(m) /\ OnlyDone(x, t, u)
    BY <2>6, <2>9 DEF Done, OnlyDone
  <2>11. ~ u.err => Counted(x, u)
    BY <2>7, <2>9, <2>10 DEF Counted
  <2>12. QED
    BY <2>10, <2>11 DEF u
<1>5. QED
  BY <1>2, <1>3, <1>4 DEF Loaded

\* When as many chunks are done as there are, all are.
LEMMA AllDone ==
  ASSUME NEW x \in Xfer, NEW t \in XferRecord, Len(t.descs_status) = N(x),
         Cardinality(Done(t)) = N(x)
  PROVE  Done(t) = 1 .. N(x)
<1>1. N(x) \in Nat /\ 1 \in Int /\ N(x) \in Int
  BY ChunksOfObject
<1>2. IsFiniteSet(1 .. N(x)) /\ Cardinality(1 .. N(x)) = N(x)
  BY <1>1, FS_Interval
<1>3. Done(t) \in SUBSET (1 .. N(x))
  BY DEF Done
<1>4. QED
  BY <1>2, <1>3, FS_Subset

\* When all are done, every byte was sent or is in the buffer.
LEMMA AllCovered ==
  ASSUME NEW x \in Xfer, NEW t \in XferRecord, Len(t.descs_status) = N(x), Counted(x, t),
         t.descs_xfered = N(x), NEW p \in 1 .. Offset(x, N(x) + 1)
  PROVE  InGot(t.got, p) \/ InPart(t.buf_offset, t.buf, p)
<1>1. Done(t) = 1 .. N(x)
  BY AllDone DEF Counted
<1>2. PICK i \in 1 .. N(x) : Offset(x, i) < p /\ p <= Offset(x, i + 1)
  BY InSomeChunk
<1>3. Offset(x, i) \in Nat /\ Offset(x, i + 1) \in Nat /\ Offset(x, N(x) + 1) \in Nat
  <2>1. i \in 1 .. N(x) + 1 /\ i + 1 \in 1 .. N(x) + 1 /\ N(x) + 1 \in 1 .. N(x) + 1
    BY ChunksOfObject
  <2>2. QED
    BY <2>1, Offsets
<1>4. p \in Offset(x, i) + 1 .. Offset(x, i + 1)
  BY <1>2, <1>3
<1>5. QED
  BY <1>1, <1>4 DEF Counted

\* actual_transfer_data: the end is sent with the last byte.
LEMMA SendsEnd ==
  ASSUME NEW x \in Xfer, NEW t \in XferRecord, t.state = "ready", t.outcome = "none",
         Len(t.descs_status) = N(x), ~ t.err => Counted(x, t)
  PROVE  LET u == ActualTransferData(x, t)
         IN  /\ Ends(x, u) /\ u.descs_status = t.descs_status
             /\ u.outcome = "end" => Done(u) = 1 .. N(x)
<1> DEFINE u == ActualTransferData(x, t)
           n == IF Len(t.buf) <= SEND_SIZE THEN Len(t.buf) ELSE SEND_SIZE
           r == [offset |-> t.buf_offset, data |-> SubSeq(t.buf, 1, n)]
           rest == SubSeq(t.buf, n + 1, Len(t.buf))
           last == Len(t.buf) <= SEND_SIZE /\ t.descs_xfered = N(x)
<1>1. /\ t.buf \in Seq(Payload) /\ t.buf_offset \in Nat /\ t.got \in Seq(Reply)
      /\ Len(t.buf) \in Nat /\ SEND_SIZE \in Nat \ {0}
  BY LenProperties, SizeAssumption DEF XferRecord
<1>2. CASE t.err
  <2>1. u = [t EXCEPT !.state = "removed", !.replies = @ + 1, !.outcome = "error"]
    BY <1>2 DEF ActualTransferData
  <2> HIDE DEF u
  <2>2. u.state = "removed" /\ u.outcome = "error" /\ u.descs_status = t.descs_status
    BY <2>1 DEF XferRecord
  <2>3. Ends(x, u)
    BY <2>2 DEF Ends
  <2>4. QED
    BY <2>2, <2>3 DEF u
<1>3. CASE ~ t.err
  <2>1. u = [t EXCEPT !.got = Append(@, r), !.buf = rest, !.buf_offset = @ + n, !.replies = @ + 1,
                      !.state = IF last THEN "removed" ELSE @,
                      !.outcome = IF last THEN "end" ELSE @]
    BY <1>1, <1>3 DEF ActualTransferData, XferRecord
  <2>2. n \in Nat /\ n <= Len(t.buf) /\ Len(t.buf) <= Len(t.buf)
        /\ (Len(t.buf) <= SEND_SIZE => n = Len(t.buf)) /\ (~ (Len(t.buf) <= SEND_SIZE) => n < Len(t.buf))
    BY <1>1
  <2> HIDE DEF n
  <2>3. SubSeq(t.buf, 0 + 1, n) \in Seq(Payload) /\ Len(SubSeq(t.buf, 0 + 1, n)) = n - 0
    BY <1>1, <2>2, PartOfSeq
  <2>4. r \in Reply /\ r.offset = t.buf_offset /\ Len(r.data) = n
    <3>1. 0 + 1 = 1 /\ n - 0 = n
      BY <2>2
    <3>2. QED
      BY <1>1, <2>3, <3>1 DEF Reply
  <2>5. Len(rest) = Len(t.buf) - n
    BY <1>1, <2>2, PartOfSeq
  <2> HIDE DEF r, rest, u, last
  <2>6. /\ Len(t.got) \in Nat /\ Len(Append(t.got, r)) = Len(t.got) + 1
        /\ \A k \in 1 .. Len(t.got) : Append(t.got, r)[k] = t.got[k]
        /\ Append(t.got, r)[Len(t.got) + 1] = r
    BY <1>1, <2>4, OneMore
  <2>7. /\ u.got = Append(t.got, r) /\ u.buf = rest /\ u.buf_offset = t.buf_offset + n
        /\ u.descs_status = t.descs_status /\ u.descs_xfered = t.descs_xfered
        /\ u.state = IF last THEN "removed" ELSE "ready"
        /\ u.outcome = IF last THEN "end" ELSE "none"
    BY <2>1 DEF XferRecord
  <2>8. ASSUME NEW p \in Nat, InGot(t.got, p) \/ InPart(t.buf_offset, t.buf, p)
        PROVE  InGot(u.got, p) \/ InPart(u.buf_offset, u.buf, p)
    <3>1. CASE InGot(t.got, p)
      <4>1. PICK k \in 1 .. Len(t.got) : InPart(t.got[k].offset, t.got[k].data, p)
        BY <3>1 DEF InGot
      <4>2. k \in 1 .. Len(u.got) /\ u.got[k] = t.got[k]
        BY <2>6, <2>7
      <4>3. QED
        BY <4>1, <4>2 DEF InGot
    <3>2. CASE InPart(t.buf_offset, t.buf, p) /\ p <= t.buf_offset + n
      <4>1. InPart(r.offset, r.data, p)
        BY <2>4, <3>2 DEF InPart
      <4>2. Len(t.got) + 1 \in 1 .. Len(u.got) /\ u.got[Len(t.got) + 1] = r
        BY <2>6, <2>7
      <4>3. QED
        BY <4>1, <4>2 DEF InGot
    <3>3. CASE InPart(t.buf_offset, t.buf, p) /\ ~ (p <= t.buf_offset + n)
      <4>1. p <= (t.buf_offset + n) + (Len(t.buf) - n)
        BY <1>1, <2>2, <3>3 DEF InPart
      <4>2. InPart(u.buf_offset, u.buf, p)
        BY <1>1, <2>2, <2>5, <2>7, <3>3, <4>1 DEF InPart
      <4>3. QED
        BY <4>2
    <3>4. QED
      BY <2>8, <3>1, <3>2, <3>3
  <2>9. Counted(x, t) /\ Done(u) = Done(t)
    BY <1>3, <2>7 DEF Done
  <2>10. CASE last
    <3>1. Len(u.buf) = 0 /\ u.state = "removed" /\ u.outcome = "end" /\ t.descs_xfered = N(x)
      BY <1>1, <2>2, <2>5, <2>7, <2>10 DEF last
    <3>2. ASSUME NEW p \in 1 .. Offset(x, N(x) + 1)
          PROVE  InGot(u.got, p)
      <4>1. InGot(t.got, p) \/ InPart(t.buf_offset, t.buf, p)
        BY <2>9, <3>1, AllCovered
      <4>2. p \in Nat
        <5>1. Offset(x, N(x) + 1) \in Nat
          <6>1. N(x) + 1 \in 1 .. N(x) + 1
            BY ChunksOfObject
          <6>2. QED
            BY <6>1, Offsets
        <5>2. QED
          BY <5>1
      <4>3. ~ InPart(u.buf_offset, u.buf, p)
        BY <1>1, <2>2, <2>7, <3>1, <4>2 DEF InPart
      <4>4. QED
        BY <2>8, <4>1, <4>2, <4>3
    <3>3. Done(u) = 1 .. N(x)
      BY <2>9, <3>1, AllDone DEF Counted
    <3>4. Ends(x, u)
      BY <3>1, <3>2 DEF Ends
    <3>5. QED
      BY <2>7, <3>3, <3>4 DEF u
  <2>11. CASE ~ last
    <3>1. u.state = "ready" /\ u.outcome = "none"
      BY <2>7, <2>11
    <3>2. Counted(x, u)
      <4>1. u.descs_xfered = Cardinality(Done(u))
        BY <2>7, <2>9 DEF Counted
      <4>2. ASSUME NEW i \in Done(u), NEW p \in Offset(x, i) + 1 .. Offset(x, i + 1)
            PROVE  InGot(u.got, p) \/ InPart(u.buf_offset, u.buf, p)
        <5>1. i \in Done(t) /\ i \in 1 .. N(x)
          BY <2>9 DEF Done
        <5>2. InGot(t.got, p) \/ InPart(t.buf_offset, t.buf, p)
          BY <2>9, <5>1 DEF Counted
        <5>3. Offset(x, i) \in Nat /\ Offset(x, i + 1) \in Nat
          <6>1. i \in 1 .. N(x) + 1 /\ i + 1 \in 1 .. N(x) + 1
            BY <5>1, ChunksOfObject
          <6>2. QED
            BY <6>1, Offsets
        <5>4. p \in Nat
          BY <5>3
        <5>5. QED
          BY <2>8, <5>2, <5>4
      <4>3. QED
        BY <4>1, <4>2 DEF Counted
    <3>3. ASSUME u.descs_xfered = N(x)
          PROVE  u.buf # <<>>
      <4>1. ~ (Len(t.buf) <= SEND_SIZE)
        BY <2>7, <2>11, <3>3 DEF last
      <4>2. Len(u.buf) # 0
        BY <1>1, <2>2, <2>5, <2>7, <4>1
      <4>3. QED
        BY <4>2
    <3>4. Ends(x, u)
      BY <3>1, <3>2, <3>3 DEF Ends
    <3>5. u.outcome # "end"
      BY <3>1
    <3>6. QED
      BY <2>7, <3>4, <3>5 DEF u
  <2>12. QED
    BY <2>10, <2>11
<1>4. QED
  BY <1>2, <1>3

-----------------------------------------------------------------------------
(* What steps do to the counts *)

\* The marks of a transfer t, if fetch_data is still to come, and if req is asked for.
MarksOf(x, t, before, req) ==
  t.state = "ready" =>
    /\ before => \A i \in 1 .. N(x) : t.descs_status[i] = "DESC_UNKNOWN"
    /\ \A i \in req : t.descs_status[i] = "DESC_REQUESTED"

\* What is counted of t and u is the same.
SameCounts(t, u) ==
  /\ u.state = t.state /\ u.outcome = t.outcome /\ u.descs_xfered = t.descs_xfered
  /\ u.descs_status = t.descs_status /\ u.got = t.got /\ u.buf = t.buf /\ u.buf_offset = t.buf_offset

LEMMA CountsKept ==
  ASSUME NEW x, NEW t, NEW u, SameCounts(t, u)
  PROVE  /\ Ends(x, t) => Ends(x, u)
         /\ \A id : Share(x, u, id) = Share(x, t, id)
         /\ \A before, req : MarksOf(x, t, before, req) => MarksOf(x, u, before, req)
<1>1. Done(u) = Done(t)
  BY DEF SameCounts, Done
<1>2. Ends(x, t) => Ends(x, u)
  BY <1>1 DEF SameCounts, Ends, Counted
<1>3. ASSUME NEW id
      PROVE  Share(x, u, id) = Share(x, t, id)
  <2>1. Holds(x, u, id) = Holds(x, t, id)
    BY DEF SameCounts, Holds
  <2>2. QED
    BY <2>1 DEF SameCounts, Share
<1>4. ASSUME NEW before, NEW req
      PROVE  MarksOf(x, t, before, req) => MarksOf(x, u, before, req)
  BY DEF SameCounts, MarksOf
<1>5. QED
  BY <1>2, <1>3, <1>4

\* A transfer whose share does not change.
LEMMA AccountsKept ==
  ASSUME NEW f \in [Xfer -> XferRecord], NEW g \in [Xfer -> XferRecord], NEW x \in Xfer,
         \A y \in Xfer \ {x} : g[y] = f[y],
         \A id \in Id : Share(x, g[x], id) = Share(x, f[x], id),
         NEW counts, NEW have, Accounts(f, counts, have)
  PROVE  Accounts(g, counts, have)
<1>1. ASSUME NEW id \in Id
      PROVE  SumOf(g, id) = SumOf(f, id)
  <2>1. PICK rest \in Nat : /\ SumOf(f, id) = rest + Share(x, f[x], id)
                            /\ SumOf(g, id) = rest + Share(x, g[x], id)
    BY SumChanges
  <2>2. QED
    BY <2>1
<1>2. QED
  BY <1>1 DEF Accounts

\* The end gives back what the transfer holds.
LEMMA ReleaseAccounts ==
  ASSUME NEW f \in [Xfer -> XferRecord], NEW g \in [Xfer -> XferRecord], NEW x \in Xfer,
         \A y \in Xfer \ {x} : g[y] = f[y],
         Len(f[x].descs_status) = N(x), Len(g[x].descs_status) = N(x),
         f[x].outcome # "end", OnlyDone(x, f[x], g[x]),
         g[x].outcome = "end" => Done(g[x]) = 1 .. N(x),
         others \in [Id -> Nat],
         NEW counts \in [Id -> Nat], NEW have, Accounts(f, counts, have)
  PROVE  /\ Accounts(g, Release(x, g[x], counts, have), have)
         /\ Release(x, g[x], counts, have) \in [Id -> Nat]
<1> DEFINE rel == Release(x, g[x], counts, have)
<1>1. ASSUME NEW id \in Id
      PROVE  /\ rel[id] = others[id] + SumOf(g, id) /\ rel[id] \in Nat
             /\ rel[id] # 0 => id \in have
  <2>1. Holds(x, g[x], id) = Holds(x, f[x], id)
    BY DEF Holds, OnlyDone, OnStorage
  <2>2. /\ f[x].descs_status \in Seq(Statuses) /\ g[x].descs_status \in Seq(Statuses)
    BY DEF XferRecord
  <2>3. PICK rest \in Nat : /\ SumOf(f, id) = rest + Share(x, f[x], id)
                            /\ SumOf(g, id) = rest + Share(x, g[x], id)
    BY SumChanges
  <2>4. Cardinality(Holds(x, f[x], id)) \in Nat /\ Share(x, f[x], id) = Cardinality(Holds(x, f[x], id))
    BY <2>2, HoldsFinite DEF Share
  <2>5. /\ counts[id] = others[id] + SumOf(f, id) /\ counts[id] \in Nat /\ others[id] \in Nat
        /\ counts[id] # 0 => id \in have
    BY DEF Accounts
  <2>6. CASE g[x].outcome # "end"
    <3>1. rel[id] = counts[id]
      BY <2>6 DEF Release
    <3>2. Share(x, g[x], id) = Share(x, f[x], id)
      BY <2>1, <2>6 DEF Share
    <3>3. QED
      BY <2>3, <2>4, <2>5, <3>1, <3>2
  <2>7. CASE g[x].outcome = "end"
    <3>1. Share(x, g[x], id) = 0
      BY <2>7 DEF Share
    <3>2. {i \in 1 .. N(x) : Descs[x][i] = id} = Holds(x, f[x], id)
      <4>1. \A i \in 1 .. N(x) : g[x].descs_status[i] = "DESC_DONE"
        BY <2>7 DEF Done
      <4>2. QED
        BY <2>1, <4>1 DEF Holds
    <3>3. rel[id] = IF id \in have THEN counts[id] - Cardinality(Holds(x, f[x], id)) ELSE counts[id]
      BY <2>7, <3>2 DEF Release
    <3>4. counts[id] = others[id] + (rest + Cardinality(Holds(x, f[x], id))) /\ SumOf(g, id) = rest
      BY <2>3, <2>4, <2>5, <3>1
    <3> HIDE DEF rel
    <3>5. CASE id \in have
      BY <2>4, <2>5, <3>3, <3>4, <3>5
    <3>6. CASE id \notin have
      BY <2>4, <2>5, <3>3, <3>4, <3>6
    <3>7. QED
      BY <3>5, <3>6
  <2>8. QED
    BY <2>6, <2>7
<1>2. rel \in [Id -> Nat]
  <2>1. rel = [id \in Id |-> rel[id]]
    BY DEF Release
  <2> HIDE DEF rel
  <2>2. QED
    BY <1>1, <2>1
<1>3. Accounts(g, rel, have)
  BY <1>1 DEF Accounts
<1>4. QED
  BY <1>2, <1>3

\* A step after which the counts of one transfer are others.
LEMMA CountChanges ==
  ASSUME CountInv, PlaceInv', NEW x \in Xfer, NEW u, xfer' = [xfer EXCEPT ![x] = u], Ends(x, u),
         refs' \in [Id -> Nat], others' = others, status = "up", Accounts(xfer', refs', stored'),
         MarksOf(x, u, ~ u.fetching \/ x \in scheduled', asked'[x]),
         \A y \in Xfer \ {x} : asked'[y] = asked[y] /\ (y \in scheduled' <=> y \in scheduled)
  PROVE  CountInv'
<1>1. /\ xfer' \in [Xfer -> XferRecord] /\ xfer'[x] = u /\ \A y \in Xfer \ {x} : xfer'[y] = xfer[y]
      /\ others \in [Id -> Nat] /\ \A y \in Xfer : asked'[y] \subseteq 1 .. N(y)
  BY DEF CountInv, PlaceInv
<1>2. ASSUME NEW y \in Xfer
      PROVE  Ends(y, xfer'[y])
  BY <1>1 DEF CountInv
<1>3. ASSUME NEW y \in Xfer
      PROVE  Marks(y)'
  <2>1. CASE y = x
    BY <1>1, <2>1 DEF Marks, MarksOf
  <2>2. CASE y # x
    BY <1>1, <2>2 DEF CountInv, Marks
  <2>3. QED
    BY <2>1, <2>2
<1>4. MarkedIsStored'
  <2>1. ASSUME NEW y \in Xfer, xfer'[y].state = "ready", NEW i \in OnStorage(xfer'[y])
        PROVE  Descs[y][i] \in stored'
    <3>1. xfer'[y].outcome # "end"
      BY <1>2, <2>1 DEF Ends
    <3>2. Right(y, xfer'[y])
      BY DEF PlaceInv, Right, GotRight, BufRight, IsPart
    <3>3. Len(xfer'[y].descs_status) = N(y)
      BY <2>1, <3>2 DEF Right
    <3>4. Descs[y][i] \in Id
      <4>1. i \in 1 .. N(y)
        BY <3>3 DEF OnStorage
      <4>2. QED
        BY <4>1, ChunksOfObject
    <3>5. QED
      BY <1>1, <2>1, <3>1, <3>4, MarkedIsReferred
  <2>2. QED
    BY <2>1 DEF MarkedIsStored, InTable, OnStorage
<1>5. Accounts(xfer, refs, stored)'
  BY DEF Accounts
<1>6. \A y \in Xfer : Ends(y, xfer[y])'
  BY <1>2 DEF Ends, Counted, InGot, InPart, Done
<1>7. QED
  BY <1>1, <1>3, <1>4, <1>5, <1>6 DEF CountInv

\* A step after which the daemon's state is undefined, or the daemon gone.
LEMMA CountDown ==
  ASSUME CountInv, PlaceInv', UNCHANGED <<xfer, refs, others>>, stored \subseteq stored', status' # "up"
  PROVE  CountInv'
<1>1. \A y \in Xfer : Ends(y, xfer[y])'
  BY DEF CountInv, Ends, Counted, InGot, InPart, Done
<1>2. MarkedIsStored'
  BY DEF CountInv, MarkedIsStored, InTable, OnStorage
<1>3. QED
  BY <1>1, <1>2 DEF CountInv

\* A handler ends with transfer_data.
LEMMA ServingStep ==
  ASSUME CountInv, PlaceInv', NEW x \in Xfer, NEW t, Right(x, t), Ends(x, t), t.state = "ready",
         NEW counts \in [Id -> Nat], NEW have, stored \subseteq have, stored' = have, others' = others,
         Accounts([xfer EXCEPT ![x] = t], counts, have), status = "up", Transfers(x, t, counts, have),
         MarksOf(x, t, ~ t.fetching \/ x \in scheduled', asked'[x]),
         \A y \in Xfer \ {x} : asked'[y] = asked[y] /\ (y \in scheduled' <=> y \in scheduled)
  PROVE  CountInv'
<1> DEFINE u == TransferData(x, t, have)
           v == Loaded(x, t, have)
<1>1. /\ t \in XferRecord /\ Len(t.descs_status) = N(x) /\ t.outcome = "none" /\ Counted(x, t)
      /\ PlaceInv /\ xfer \in [Xfer -> XferRecord] /\ others \in [Id -> Nat]
  BY DEF Right, Ends, CountInv, PlaceInv
<1>2. CASE xfer' = [xfer EXCEPT ![x] = u] /\ refs' = Release(x, u, counts, have)
  <2>1. /\ v \in XferRecord /\ SameClient(t, v) /\ Len(v.descs_status) = N(x) /\ OnlyDone(x, t, v)
        /\ ~ v.err => BufRight(x, v) /\ Counted(x, v)
    BY <1>1, LoadedRight, LoadedCounts
  <2>2. GotRight(x, t.got)
    BY DEF Right
  <2>3. v.state = "ready" /\ v.outcome = "none" /\ GotRight(x, v.got) /\ v.fetching = t.fetching
    BY <1>1, <2>1, <2>2 DEF SameClient
  <2> HIDE DEF v
  <2>4. LET w == ActualTransferData(x, v)
        IN  /\ w \in XferRecord /\ Ends(x, w) /\ w.descs_status = v.descs_status /\ w.fetching = t.fetching
            /\ w.outcome = "end" => Done(w) = 1 .. N(x)
    BY <2>1, <2>3, SendsRight, SendsEnd DEF Right
  <2>5. u = t \/ u = ActualTransferData(x, v)
    BY DEF TransferData, v
  <2>6. /\ u \in XferRecord /\ Ends(x, u) /\ OnlyDone(x, t, u) /\ Len(u.descs_status) = N(x)
        /\ u.fetching = t.fetching /\ (u.outcome = "end" => Done(u) = 1 .. N(x))
    <3>1. CASE u = t
      BY <1>1, <3>1 DEF OnlyDone
    <3>2. CASE u = ActualTransferData(x, v)
      BY <2>1, <2>4, <3>2 DEF OnlyDone
    <3>3. QED
      BY <2>5, <3>1, <3>2
  <2> HIDE DEF u
  <2> DEFINE f == [xfer EXCEPT ![x] = t]
             g == [xfer EXCEPT ![x] = u]
  <2>7. /\ f \in [Xfer -> XferRecord] /\ g \in [Xfer -> XferRecord] /\ f[x] = t /\ g[x] = u
        /\ \A y \in Xfer \ {x} : g[y] = f[y]
    BY <1>1, <2>6
  <2>8. f[x].outcome # "end"
    BY <1>1, <2>7
  <2>9. Accounts(f, counts, have)
    OBVIOUS
  <2> HIDE DEF f, g
  <2>10. Accounts(g, Release(x, u, counts, have), have) /\ Release(x, u, counts, have) \in [Id -> Nat]
    BY <1>1, <2>6, <2>7, <2>8, <2>9, ReleaseAccounts
  <2>11. Accounts(xfer', refs', stored') /\ refs' \in [Id -> Nat]
    BY <1>2, <2>10 DEF g
  <2>12. MarksOf(x, u, ~ u.fetching \/ x \in scheduled', asked'[x])
    <3>1. asked'[x] \subseteq 1 .. N(x)
      BY DEF PlaceInv
    <3>2. \A i \in 1 .. N(x) : t.descs_status[i] \in {"DESC_UNKNOWN", "DESC_REQUESTED"} =>
                                 u.descs_status[i] = t.descs_status[i]
      BY <2>6 DEF OnlyDone, OnStorage
    <3>3. QED
      BY <2>6, <3>1, <3>2 DEF MarksOf
  <2>13. QED
    BY <1>2, <2>6, <2>11, <2>12, CountChanges
<1>3. CASE status' = "undefined" /\ UNCHANGED <<xfer, refs>>
  BY <1>3, CountDown
<1>4. QED
  BY <1>2, <1>3 DEF Transfers

\* A handler ends without it.
LEMMA HoldingStep ==
  ASSUME CountInv, PlaceInv', NEW x \in Xfer, NEW t, Ends(x, t),
         NEW counts \in [Id -> Nat], others' = others,
         Accounts([xfer EXCEPT ![x] = t], counts, stored'), status = "up", Keeps(x, t, counts),
         MarksOf(x, t, ~ t.fetching \/ x \in scheduled', asked'[x]),
         \A y \in Xfer \ {x} : asked'[y] = asked[y] /\ (y \in scheduled' <=> y \in scheduled)
  PROVE  CountInv'
<1>1. xfer' = [xfer EXCEPT ![x] = t] /\ refs' = counts
  BY DEF Keeps
<1>2. QED
  BY <1>1, CountChanges

\* Nothing was taken for a transfer that has just begun.
LEMMA BeginsEmpty ==
  ASSUME NEW x \in Xfer, NEW u,
         \/ u \in Begun(x)
         \/ u.state # "ready" /\ u = [NewXfer EXCEPT !.state = u.state]
  PROVE  /\ Ends(x, u) /\ MarksOf(x, u, TRUE, {})
         /\ \A id : Share(x, u, id) = 0
<1> DEFINE st == [i \in 1 .. N(x) |-> "DESC_UNKNOWN"]
<1>1. /\ N(x) \in Nat /\ Len(<<>>) = 0 /\ Len(st) = N(x)
      /\ \A i \in 1 .. N(x) : st[i] = "DESC_UNKNOWN"
  <2>1. N(x) \in Nat /\ st \in [1 .. N(x) -> Statuses]
    BY ChunksOfObject DEF Statuses
  <2>2. Len(st) = N(x)
    BY <2>1, SeqOf
  <2>3. QED
    BY <2>1, <2>2
<1> HIDE DEF st
<1>2. /\ u.descs_xfered = 0 /\ u.outcome # "end" /\ (u.state = "ready" => u.outcome = "none")
      /\ u.descs_status = <<>> \/ u.descs_status = st
      /\ u.state = "ready" => u.descs_status = st
  BY DEF Begun, NewXfer, st
<1>3. \A i \in 1 .. Len(u.descs_status) : u.descs_status[i] = "DESC_UNKNOWN"
  BY <1>1, <1>2
<1>4. Done(u) = {} /\ \A id : Holds(x, u, id) = {}
  BY <1>3 DEF Done, Holds
<1>5. Cardinality({}) = 0
  BY FS_EmptySet
<1>6. Counted(x, u)
  BY <1>2, <1>4, <1>5 DEF Counted
<1>7. Ends(x, u)
  BY <1>2, <1>6 DEF Ends
<1>8. MarksOf(x, u, TRUE, {})
  BY <1>1, <1>2 DEF MarksOf
<1>9. \A id : Share(x, u, id) = 0
  BY <1>4, <1>5 DEF Share
<1>10. QED
  BY <1>7, <1>8, <1>9

\* The steps of get_init.
LEMMA InitCounts ==
  ASSUME CountInv, PlaceInv', NEW x \in Xfer, GetInit(x) \/ DescriptorsArrive(x) \/ DescriptorsFail(x)
  PROVE  CountInv'
<1>1. /\ status = "up" /\ UNCHANGED <<asks, scheduled, asked, stored, refs, others>>
      /\ xfer[x] = [NewXfer EXCEPT !.state = xfer[x].state]
      /\ asked[x] = {}
      /\ \/ xfer' = xfer /\ status' = "fatal"
         \/ status' = "up" /\ \E u \in Begun(x) : xfer' = [xfer EXCEPT ![x] = u]
  BY InitOutcome DEF CountInv
<1>2. ASSUME NEW u \in Begun(x), xfer' = [xfer EXCEPT ![x] = u]
      PROVE  CountInv'
  <2>1. xfer \in [Xfer -> XferRecord] /\ xfer' \in [Xfer -> XferRecord] /\ refs \in [Id -> Nat]
        /\ Accounts(xfer, refs, stored)
    BY <1>1 DEF CountInv, PlaceInv
  <2>2. xfer'[x] = u /\ \A y \in Xfer \ {x} : xfer'[y] = xfer[y]
    BY <1>2, <2>1
  <2>3. xfer[x].state # "ready"
    BY <1>1, InitOutcome DEF GetInit, DescriptorsArrive, DescriptorsFail
  <2>4. /\ Ends(x, u) /\ MarksOf(x, u, TRUE, {})
        /\ \A id \in Id : Share(x, xfer'[x], id) = Share(x, xfer[x], id)
    <3>1. /\ Ends(x, u) /\ MarksOf(x, u, TRUE, {})
          /\ \A id : Share(x, u, id) = 0
      BY <1>2, BeginsEmpty
    <3> DEFINE t == xfer[x]
    <3>2. t = [NewXfer EXCEPT !.state = t.state] /\ t.state # "ready"
      BY <1>1, <2>3
    <3> HIDE DEF t
    <3>3. \A id : Share(x, t, id) = 0
      BY <3>2, BeginsEmpty
    <3>4. QED
      BY <2>2, <3>1, <3>3 DEF t
  <2>5. Accounts(xfer', refs', stored') /\ refs' \in [Id -> Nat]
    <3>1. Accounts(xfer', refs, stored)
      BY <2>1, <2>2, <2>4, AccountsKept
    <3>2. QED
      BY <1>1, <2>1, <3>1
  <2>6. MarksOf(x, u, ~ u.fetching \/ x \in scheduled', asked'[x])
    BY <1>1, <2>4 DEF MarksOf
  <2>7. QED
    BY <1>1, <1>2, <2>4, <2>5, <2>6, CountChanges
<1>3. CASE xfer' = xfer /\ status' = "fatal"
  BY <1>1, <1>3, CountDown
<1>4. QED
  BY <1>1, <1>2, <1>3

\* What the invariant says of a transfer that is ready.
LEMMA ReadyCounts ==
  ASSUME CountInv, status = "up", NEW x \in Xfer, xfer[x].state = "ready"
  PROVE  /\ Ends(x, xfer[x]) /\ Counted(x, xfer[x]) /\ xfer[x].outcome = "none"
         /\ Accounts(xfer, refs, stored) /\ refs \in [Id -> Nat] /\ others \in [Id -> Nat]
         /\ [xfer EXCEPT ![x] = xfer[x]] = xfer
         /\ MarksOf(x, xfer[x], ~ xfer[x].fetching \/ x \in scheduled, asked[x])
         /\ PlaceInv
<1>1. /\ Ends(x, xfer[x]) /\ Accounts(xfer, refs, stored) /\ refs \in [Id -> Nat] /\ others \in [Id -> Nat]
      /\ PlaceInv /\ Marks(x)
  BY DEF CountInv
<1>2. MarksOf(x, xfer[x], ~ xfer[x].fetching \/ x \in scheduled, asked[x])
  BY <1>1 DEF Marks, MarksOf
<1>3. Counted(x, xfer[x]) /\ xfer[x].outcome = "none"
  BY <1>1 DEF Ends
<1>4. xfer \in [Xfer -> XferRecord]
  BY <1>1 DEF PlaceInv
<1>5. QED
  BY <1>1, <1>2, <1>3, <1>4

\* get_data.
LEMMA GetDataCounts ==
  ASSUME CountInv, PlaceInv', NEW x \in Xfer, GetData(x)
  PROVE  CountInv'
<1> DEFINE t == xfer[x]
<1>1. /\ status = "up" /\ t.state = "ready" /\ UNCHANGED <<asked, stored, others>>
  BY DEF GetData, Asks, InTable
<1>2. /\ Ends(x, t) /\ Counted(x, t) /\ t.outcome = "none" /\ Accounts(xfer, refs, stored)
      /\ refs \in [Id -> Nat] /\ [xfer EXCEPT ![x] = t] = xfer
      /\ MarksOf(x, t, ~ t.fetching \/ x \in scheduled, asked[x])
      /\ PlaceInv
  BY <1>1, ReadyCounts
<1>3. /\ Right(x, t) /\ t \in XferRecord /\ xfer \in [Xfer -> XferRecord] /\ Len(t.descs_status) = N(x)
      /\ N(x) \in Nat /\ Turn(x) /\ asks[x] = t.replies /\ t.replies \in Nat
  BY <1>1, <1>2, ReadyFacts DEF GetData, Asks
<1>4. x \notin scheduled
  BY <1>1, <1>3 DEF Turn
<1> HIDE DEF t
<1>5. CASE Transfers(x, t, refs, stored) /\ UNCHANGED scheduled
  <2>1. /\ \A y \in Xfer \ {x} : asked'[y] = asked[y] /\ (y \in scheduled' <=> y \in scheduled)
        /\ MarksOf(x, t, ~ t.fetching \/ x \in scheduled', asked'[x])
        /\ Accounts([xfer EXCEPT ![x] = t], refs, stored)
    BY <1>1, <1>2, <1>5
  <2>2. QED
    BY <1>1, <1>2, <1>3, <1>5, <2>1, ServingStep
<1>6. CASE /\ t.buf = <<>> /\ t.descs_xfered = N(x)
           /\ Keeps(x, [t EXCEPT !.replies = @ + 1, !.state = "removed", !.outcome = "end"], refs)
           /\ UNCHANGED scheduled
  <2> DEFINE u == [t EXCEPT !.replies = @ + 1, !.state = "removed", !.outcome = "end"]
             g == [xfer EXCEPT ![x] = u]
  <2>1. u \in XferRecord /\ u.got = t.got /\ u.state = "removed" /\ u.outcome = "end"
    <3>1. t.replies + 1 \in Nat
      BY <1>3 DEF XferRecord
    <3>2. QED
      BY <1>3, <3>1 DEF XferRecord
  <2>2. Keeps(x, u, refs)
    BY <1>6
  <2> HIDE DEF u
  <2>3. N(x) = 0
    BY <1>1, <1>2, <1>6 DEF Ends
  <2>4. ASSUME NEW p \in 1 .. Offset(x, N(x) + 1)
        PROVE  InGot(u.got, p)
    <3>1. InGot(t.got, p) \/ InPart(t.buf_offset, t.buf, p)
      BY <1>2, <1>3, <1>6, AllCovered
    <3>2. p \in Nat /\ t.buf_offset \in Nat /\ Len(t.buf) = 0
      <4>1. Offset(x, N(x) + 1) \in Nat
        <5>1. N(x) + 1 \in 1 .. N(x) + 1
          BY <1>3
        <5>2. QED
          BY <5>1, Offsets
      <4>2. QED
        BY <1>3, <1>6, <4>1 DEF XferRecord
    <3>3. ~ InPart(t.buf_offset, t.buf, p)
      BY <3>2 DEF InPart
    <3>4. QED
      BY <2>1, <3>1, <3>3
  <2>5. Ends(x, u)
    BY <2>1, <2>4 DEF Ends
  <2>6. \A id \in Id : Share(x, u, id) = Share(x, t, id)
    <3>1. ASSUME NEW id \in Id
          PROVE  Share(x, u, id) = 0 /\ Share(x, t, id) = 0
      <4>1. Holds(x, t, id) = {}
        BY <1>3, <2>3 DEF Holds
      <4>2. QED
        BY <2>1, <4>1, FS_EmptySet DEF Share
    <3>2. QED
      BY <3>1
  <2>7. /\ g \in [Xfer -> XferRecord] /\ g[x] = u /\ \A y \in Xfer \ {x} : g[y] = xfer[y]
    BY <1>3, <2>1
  <2>8. Accounts(g, refs, stored)
    <3> HIDE DEF g
    <3>1. \A id \in Id : Share(x, g[x], id) = Share(x, xfer[x], id)
      BY <2>6, <2>7 DEF t
    <3>2. QED
      BY <1>2, <1>3, <2>7, <3>1, AccountsKept
  <2>9. /\ \A y \in Xfer \ {x} : asked'[y] = asked[y] /\ (y \in scheduled' <=> y \in scheduled)
        /\ MarksOf(x, u, ~ u.fetching \/ x \in scheduled', asked'[x])
        /\ Accounts([xfer EXCEPT ![x] = u], refs, stored')
    BY <1>1, <1>6, <2>1, <2>8 DEF MarksOf
  <2>10. QED
    BY <1>1, <1>2, <2>2, <2>5, <2>9, HoldingStep
<1>7. CASE status' = "undefined" /\ UNCHANGED <<xfer, refs>>
  BY <1>1, <1>7, CountDown
<1>8. CASE /\ Keeps(x, [t EXCEPT !.xcb = TRUE, !.fetching = TRUE], refs)
           /\ scheduled' = IF t.fetching THEN scheduled ELSE scheduled \cup {x}
  <2> DEFINE u == [t EXCEPT !.xcb = TRUE, !.fetching = TRUE]
             g == [xfer EXCEPT ![x] = u]
  <2>1. u \in XferRecord /\ SameCounts(t, u) /\ u.fetching
    BY <1>3 DEF XferRecord, SameCounts
  <2>2. Keeps(x, u, refs)
    BY <1>8
  <2> HIDE DEF u
  <2>3. Ends(x, u) /\ \A id : Share(x, u, id) = Share(x, t, id)
    BY <1>2, <2>1, CountsKept
  <2>4. /\ g \in [Xfer -> XferRecord] /\ g[x] = u /\ \A y \in Xfer \ {x} : g[y] = xfer[y]
    BY <1>3, <2>1
  <2>5. Accounts(g, refs, stored)
    <3> HIDE DEF g
    <3>1. \A id \in Id : Share(x, g[x], id) = Share(x, xfer[x], id)
      BY <2>3, <2>4 DEF t
    <3>2. QED
      BY <1>2, <1>3, <2>4, <3>1, AccountsKept
  <2>6. /\ \A y \in Xfer \ {x} : asked'[y] = asked[y] /\ (y \in scheduled' <=> y \in scheduled)
        /\ x \in scheduled' => ~ t.fetching
    BY <1>1, <1>4, <1>8
  <2>7. MarksOf(x, u, ~ u.fetching \/ x \in scheduled', asked'[x])
    BY <1>1, <1>2, <2>1, <2>6 DEF MarksOf, SameCounts
  <2>8. Accounts([xfer EXCEPT ![x] = u], refs, stored')
    BY <1>1, <2>5
  <2>9. QED
    BY <1>1, <1>2, <2>2, <2>3, <2>6, <2>7, <2>8, HoldingStep
<1>9. QED
  BY <1>5, <1>6, <1>7, <1>8 DEF GetData, t

\* A handler that serves a waiting call, or not.
LEMMA CallbackCounts ==
  ASSUME CountInv, PlaceInv', NEW x \in Xfer, NEW t, Right(x, t), Right(x, Xcb(t)), Ends(x, t), t.state = "ready",
         NEW counts \in [Id -> Nat], NEW have, stored \subseteq have, stored' = have, others' = others,
         Accounts([xfer EXCEPT ![x] = t], counts, have), status = "up",
         Transfers(x, Xcb(t), counts, have) \/ Keeps(x, t, counts),
         MarksOf(x, t, ~ t.fetching \/ x \in scheduled', asked'[x]),
         \A y \in Xfer \ {x} : asked'[y] = asked[y] /\ (y \in scheduled' <=> y \in scheduled)
  PROVE  CountInv'
<1> DEFINE v == Xcb(t)
           f == [xfer EXCEPT ![x] = t]
           g == [xfer EXCEPT ![x] = v]
<1>1. /\ t \in XferRecord /\ v \in XferRecord /\ SameCounts(t, v) /\ v.fetching = t.fetching /\ v.state = "ready"
  BY DEF Right, XferRecord, Xcb, SameCounts
<1>2. CASE Transfers(x, v, counts, have)
  <2>1. /\ f \in [Xfer -> XferRecord] /\ g \in [Xfer -> XferRecord] /\ f[x] = t /\ g[x] = v
        /\ \A y \in Xfer \ {x} : g[y] = f[y]
    BY <1>1 DEF CountInv, PlaceInv
  <2>2. /\ Ends(x, v) /\ MarksOf(x, v, ~ v.fetching \/ x \in scheduled', asked'[x])
        /\ \A id : Share(x, v, id) = Share(x, t, id)
    BY <1>1, CountsKept
  <2> HIDE DEF v
  <2>3. Accounts(f, counts, have)
    OBVIOUS
  <2>4. \A id \in Id : Share(x, g[x], id) = Share(x, f[x], id)
    BY <2>1, <2>2
  <2> HIDE DEF f, g
  <2>5. Accounts(g, counts, have)
    BY <2>1, <2>3, <2>4, AccountsKept
  <2>6. Accounts([xfer EXCEPT ![x] = v], counts, have)
    BY <2>5 DEF g
  <2>7. Right(x, v)
    BY DEF v
  <2>8. QED
    BY <1>1, <1>2, <2>2, <2>6, <2>7, ServingStep
<1>3. CASE Keeps(x, t, counts)
  BY <1>3, HoldingStep
<1>4. QED
  BY <1>2, <1>3

\* fetch_data: a reference is taken for every chunk that is there.
LEMMA FetchDataCounts ==
  ASSUME CountInv, PlaceInv', NEW x \in Xfer, FetchData(x)
  PROVE  CountInv'
<1> DEFINE here   == {i \in 1 .. N(x) : Descs[x][i] \in stored /\ refs[Descs[x][i]] >= 0}
           st     == [i \in 1 .. N(x) |-> IF i \in here THEN "DESC_ON_STORAGE" ELSE "DESC_REQUESTED"]
           counts == Retain(x, here)
           s      == xfer[x]
           t      == [xfer[x] EXCEPT !.descs_status = st]
<1>1. /\ status = "up" /\ x \in scheduled /\ scheduled' = scheduled \ {x}
      /\ asked' = [asked EXCEPT ![x] = (1 .. N(x)) \ here] /\ UNCHANGED <<stored, others>>
      /\ Transfers(x, Xcb(t), counts, stored) \/ Keeps(x, t, counts)
  BY DEF FetchData, Dequeued
<1>2. PlaceInv
  BY DEF CountInv
<1>3. /\ Right(x, s) /\ s \in XferRecord /\ Turn(x) /\ N(x) \in Nat /\ asked \in [Xfer -> SUBSET Nat]
      /\ xfer \in [Xfer -> XferRecord]
  BY <1>1, <1>2, ReadyFacts
<1>4. s.state = "ready" /\ s.fetching /\ Len(s.descs_status) = N(x)
  BY <1>1, <1>3 DEF Turn, Right
<1>5. /\ Ends(x, s) /\ Counted(x, s) /\ s.outcome = "none" /\ Accounts(xfer, refs, stored)
      /\ refs \in [Id -> Nat] /\ others \in [Id -> Nat]
      /\ MarksOf(x, s, ~ s.fetching \/ x \in scheduled, asked[x])
  BY <1>1, <1>4, ReadyCounts
<1>6. \A i \in 1 .. N(x) : s.descs_status[i] = "DESC_UNKNOWN"
  BY <1>1, <1>4, <1>5 DEF MarksOf
<1>7. Done(s) = {} /\ \A id : Holds(x, s, id) = {}
  BY <1>4, <1>6 DEF Done, Holds
<1>8. st \in [1 .. N(x) -> Statuses]
  BY DEF Statuses
<1>9. \A i \in 1 .. N(x) : st[i] = IF i \in here THEN "DESC_ON_STORAGE" ELSE "DESC_REQUESTED"
  OBVIOUS
<1>10. here \subseteq 1 .. N(x) /\ \A i \in here : Descs[x][i] \in stored
  OBVIOUS
<1> HIDE DEF st, s, here
<1>11. st \in Seq(Statuses) /\ Len(st) = N(x)
  BY <1>3, <1>8, SeqOf
<1>12. /\ t \in XferRecord /\ t.descs_status = st /\ t.descs_xfered = s.descs_xfered /\ t.got = s.got
       /\ t.buf = s.buf /\ t.buf_offset = s.buf_offset /\ t.state = "ready" /\ t.outcome = "none" /\ t.fetching
  BY <1>3, <1>4, <1>5, <1>11 DEF XferRecord, s
<1>13. Right(x, t) /\ Right(x, Xcb(t))
  BY <1>3, <1>4, <1>8, OtherStatuses DEF s
<1> HIDE DEF t
<1>14. Done(t) = {}
  BY <1>9, <1>11, <1>12 DEF Done
<1>15. Ends(x, t)
  <2>1. Counted(x, t)
    BY <1>5, <1>7, <1>12, <1>14 DEF Counted
  <2>2. s.descs_xfered = N(x) /\ s.buf = <<>> => N(x) = 0
    BY <1>4, <1>5 DEF Ends
  <2>3. QED
    BY <1>12, <2>1, <2>2 DEF Ends
<1>16. ASSUME NEW id \in Id
       PROVE  /\ Holds(x, t, id) = {i \in here : Descs[x][i] = id}
              /\ Cardinality(Holds(x, t, id)) \in Nat
              /\ Cardinality(Holds(x, t, id)) # 0 => id \in stored
  <2>1. Holds(x, t, id) = {i \in here : Descs[x][i] = id}
    BY <1>9, <1>10, <1>11, <1>12 DEF Holds
  <2>2. Cardinality(Holds(x, t, id)) \in Nat
    BY <1>11, <1>12, HoldsFinite
  <2>3. Cardinality({}) = 0
    BY FS_EmptySet
  <2>4. Holds(x, t, id) # {} => id \in stored
    BY <1>10, <2>1
  <2>5. QED
    BY <2>1, <2>2, <2>3, <2>4
<1>17. ASSUME NEW id \in Id
       PROVE  counts[id] = refs[id] + Cardinality(Holds(x, t, id))
  BY <1>16 DEF Retain
<1>18. counts \in [Id -> Nat]
  <2>1. counts = [id \in Id |-> counts[id]]
    BY DEF Retain
  <2>2. ASSUME NEW id \in Id
        PROVE  counts[id] \in Nat
    <3>1. refs[id] \in Nat
      BY <1>5
    <3>2. QED
      BY <1>16, <1>17, <3>1
  <2> HIDE DEF counts
  <2>3. QED
    BY <2>1, <2>2
<1> HIDE DEF counts
<1> DEFINE g == [xfer EXCEPT ![x] = t]
<1>19. /\ g \in [Xfer -> XferRecord] /\ g[x] = t /\ \A y \in Xfer \ {x} : g[y] = xfer[y]
  BY <1>3, <1>12
<1>20. Accounts(g, counts, stored)
  <2> HIDE DEF g
  <2>1. ASSUME NEW id \in Id
        PROVE  /\ counts[id] = others[id] + SumOf(g, id)
               /\ counts[id] # 0 => id \in stored
    <3>1. PICK rest \in Nat : /\ SumOf(xfer, id) = rest + Share(x, xfer[x], id)
                              /\ SumOf(g, id) = rest + Share(x, g[x], id)
      BY <1>3, <1>19, SumChanges
    <3>2. Share(x, xfer[x], id) = 0
      BY <1>5, <1>7, FS_EmptySet DEF Share, s
    <3>3. Share(x, g[x], id) = Cardinality(Holds(x, t, id))
      BY <1>12, <1>19 DEF Share
    <3>4. /\ refs[id] = others[id] + SumOf(xfer, id) /\ (refs[id] # 0 => id \in stored)
          /\ others[id] \in Nat /\ refs[id] \in Nat
      BY <1>5 DEF Accounts
    <3> DEFINE held == Cardinality(Holds(x, t, id))
    <3>5. counts[id] = refs[id] + held /\ held \in Nat /\ (held # 0 => id \in stored)
      BY <1>16, <1>17
    <3>6. SumOf(xfer, id) = rest /\ SumOf(g, id) = rest + held
      BY <3>1, <3>2, <3>3
    <3> HIDE DEF held
    <3>7. QED
      BY <3>4, <3>5, <3>6
  <2>2. QED
    BY <2>1 DEF Accounts
<1>21. /\ asked'[x] = (1 .. N(x)) \ here /\ x \notin scheduled'
       /\ \A y \in Xfer \ {x} : asked'[y] = asked[y] /\ (y \in scheduled' <=> y \in scheduled)
  BY <1>1, <1>3
<1>22. MarksOf(x, t, ~ t.fetching \/ x \in scheduled', asked'[x])
  BY <1>9, <1>12, <1>21 DEF MarksOf
<1>23. QED
  BY <1>1, <1>12, <1>13, <1>15, <1>18, <1>20, <1>21, <1>22, CallbackCounts

\* The callbacks of the transfer plugin: what was asked for, and what is asked for then.
LEMMA CalledBackFacts ==
  ASSUME CountInv, NEW x \in Xfer, NEW i \in asked[x], CalledBack(x, i), InTable(x), UNCHANGED scheduled
  PROVE  /\ status = "up" /\ xfer[x].state = "ready" /\ PlaceInv
         /\ Right(x, xfer[x]) /\ xfer[x] \in XferRecord /\ Len(xfer[x].descs_status) = N(x) /\ N(x) \in Nat
         /\ i \in 1 .. N(x) /\ Descs[x][i] \in Id /\ xfer[x].descs_status[i] = "DESC_REQUESTED"
         /\ x \notin scheduled' /\ xfer[x].fetching /\ asked'[x] = asked[x] \ {i}
         /\ \A k \in asked'[x] : k # i /\ k \in 1 .. N(x) /\ xfer[x].descs_status[k] = "DESC_REQUESTED"
         /\ \A y \in Xfer \ {x} : asked'[y] = asked[y] /\ (y \in scheduled' <=> y \in scheduled)
<1>1. /\ status = "up" /\ xfer[x].state = "ready" /\ PlaceInv /\ asked' = [asked EXCEPT ![x] = @ \ {i}]
  BY DEF CountInv, CalledBack, InTable
<1>2. /\ Right(x, xfer[x]) /\ xfer[x] \in XferRecord /\ Turn(x) /\ N(x) \in Nat
      /\ asked[x] \subseteq 1 .. N(x) /\ Len(xfer[x].descs_status) = N(x) /\ asked \in [Xfer -> SUBSET Nat]
  BY <1>1, ReadyFacts
<1>3. x \notin scheduled /\ xfer[x].fetching
  BY <1>2 DEF Turn
<1>4. i \in 1 .. N(x) /\ Descs[x][i] \in Id
  BY <1>2, ChunksOfObject
<1>5. \A k \in asked[x] : xfer[x].descs_status[k] = "DESC_REQUESTED"
  BY <1>1 DEF CountInv, Marks
<1>6. /\ asked'[x] = asked[x] \ {i}
      /\ \A y \in Xfer \ {x} : asked'[y] = asked[y] /\ (y \in scheduled' <=> y \in scheduled)
  BY <1>1, <1>2
<1>7. QED
  BY <1>1, <1>2, <1>3, <1>4, <1>5, <1>6

\* xp_fetch_data_cb with an error.
LEMMA ChunkFailsCounts ==
  ASSUME CountInv, PlaceInv', NEW x \in Xfer, NEW i \in asked[x], ChunkFails(x, i)
  PROVE  CountInv'
<1> DEFINE s == xfer[x]
           t == [xfer[x] EXCEPT !.err = TRUE]
           g == [xfer EXCEPT ![x] = t]
<1>1. /\ CalledBack(x, i) /\ InTable(x) /\ UNCHANGED <<scheduled, stored, others>>
      /\ Transfers(x, Xcb(t), refs, stored) \/ Keeps(x, t, refs)
  BY DEF ChunkFails
<1>2. /\ status = "up" /\ s.state = "ready" /\ PlaceInv
      /\ Right(x, s) /\ s \in XferRecord /\ Len(s.descs_status) = N(x) /\ x \notin scheduled' /\ s.fetching
      /\ \A k \in asked'[x] : s.descs_status[k] = "DESC_REQUESTED"
      /\ \A y \in Xfer \ {x} : asked'[y] = asked[y] /\ (y \in scheduled' <=> y \in scheduled)
  BY <1>1, CalledBackFacts
<1>3. /\ Ends(x, s) /\ Accounts(xfer, refs, stored) /\ refs \in [Id -> Nat]
      /\ xfer \in [Xfer -> XferRecord]
  BY <1>2, ReadyCounts DEF PlaceInv
<1>4. /\ t \in XferRecord /\ SameCounts(s, t) /\ t.fetching /\ t.state = "ready"
      /\ t.got = s.got /\ t.buf = s.buf /\ t.buf_offset = s.buf_offset /\ t.descs_count = s.descs_count
      /\ t.descs_status = s.descs_status
  BY <1>2 DEF XferRecord, SameCounts
<1>5. g \in [Xfer -> XferRecord] /\ g[x] = t /\ \A y \in Xfer \ {x} : g[y] = xfer[y]
  BY <1>3, <1>4
<1> HIDE DEF t
<1>6. Ends(x, t) /\ \A id : Share(x, t, id) = Share(x, s, id)
  BY <1>3, <1>4, CountsKept
<1>7. Right(x, t)
  BY <1>2, <1>4, RightKept
<1>8. Right(x, Xcb(t))
  <2>1. /\ Xcb(t) \in XferRecord /\ Xcb(t).got = t.got /\ Xcb(t).state = "ready"
        /\ Xcb(t).descs_status = t.descs_status
        /\ Xcb(t).buf = t.buf /\ Xcb(t).buf_offset = t.buf_offset /\ Xcb(t).descs_count = t.descs_count
    BY <1>4 DEF XferRecord, Xcb
  <2>2. QED
    BY <1>2, <1>4, <1>7, <2>1, RightKept
<1>9. Accounts(g, refs, stored)
  <2>1. \A id \in Id : Share(x, g[x], id) = Share(x, xfer[x], id)
    BY <1>5, <1>6
  <2> HIDE DEF g
  <2>2. QED
    BY <1>3, <1>5, <2>1, AccountsKept
<1>10. MarksOf(x, t, ~ t.fetching \/ x \in scheduled', asked'[x])
  BY <1>2, <1>4 DEF MarksOf
<1>11. QED
  BY <1>1, <1>2, <1>3, <1>4, <1>6, <1>7, <1>8, <1>9, <1>10, CallbackCounts

\* xp_fetch_data_cb with a chunk: one position is marked, one reference taken.
LEMMA ChunkArrivesCounts ==
  ASSUME Distinct, CountInv, PlaceInv', NEW x \in Xfer, NEW i \in asked[x], ChunkArrives(x, i)
  PROVE  CountInv'
<1> DEFINE s      == xfer[x]
           id     == Descs[x][i]
           marked == Marked(x, s, id)
           st     == [k \in 1 .. N(x) |-> IF k \in marked THEN "DESC_ON_STORAGE" ELSE s.descs_status[k]]
           t      == [xfer[x] EXCEPT !.descs_status = st]
           have   == IF marked = {} THEN stored ELSE stored \cup {id}
           counts == IF marked = {} THEN refs ELSE [refs EXCEPT ![id] = @ + 1]
           g      == [xfer EXCEPT ![x] = t]
<1>1. CalledBack(x, i) /\ InTable(x) /\ UNCHANGED <<scheduled, others>> /\ stored' = have
  BY DEF ChunkArrives
<1>2. /\ status = "up" /\ s.state = "ready" /\ PlaceInv
      /\ Right(x, s) /\ s \in XferRecord /\ Len(s.descs_status) = N(x) /\ N(x) \in Nat
      /\ i \in 1 .. N(x) /\ id \in Id /\ s.descs_status[i] = "DESC_REQUESTED"
      /\ x \notin scheduled' /\ s.fetching
      /\ \A k \in asked'[x] : k # i /\ k \in 1 .. N(x) /\ s.descs_status[k] = "DESC_REQUESTED"
      /\ \A y \in Xfer \ {x} : asked'[y] = asked[y] /\ (y \in scheduled' <=> y \in scheduled)
  BY <1>1, CalledBackFacts
<1>3. /\ Ends(x, s) /\ Counted(x, s) /\ s.outcome = "none" /\ Accounts(xfer, refs, stored)
      /\ refs \in [Id -> Nat] /\ others \in [Id -> Nat] /\ xfer \in [Xfer -> XferRecord]
  BY <1>2, ReadyCounts DEF PlaceInv
<1>4. Transfers(x, Xcb(t), counts, have) \/ Keeps(x, t, counts)
  <2>1. [xfer[x] EXCEPT !.descs_status = [k \in 1 .. N(x) |-> IF k \in marked THEN "DESC_ON_STORAGE" ELSE @[k]]]
          = t
    BY <1>2 DEF XferRecord
  <2> HIDE DEF marked, st, t, have, counts
  <2>2. QED
    BY <2>1 DEF ChunkArrives, marked, have, counts
<1>5. marked = {i}
  <2>1. \A k \in 1 .. N(x) : Descs[x][k] = id => k = i
    BY <1>2 DEF Distinct
  <2>2. \A k \in 1 .. i : k \in 1 .. N(x)
    BY <1>2
  <2>3. QED
    BY <1>2, <2>1, <2>2 DEF Marked
<1>6. have = stored \cup {id} /\ counts = [refs EXCEPT ![id] = @ + 1]
  BY <1>5
<1>7. \A k \in 1 .. N(x) : st[k] = IF k = i THEN "DESC_ON_STORAGE" ELSE s.descs_status[k]
  BY <1>5
<1>8. st \in [1 .. N(x) -> Statuses]
  <2>1. s.descs_status \in Seq(Statuses)
    BY <1>2 DEF XferRecord
  <2>2. \A k \in 1 .. N(x) : s.descs_status[k] \in Statuses
    BY <1>2, <2>1, ElementOfSeq
  <2>3. QED
    BY <2>2 DEF Statuses
<1> HIDE DEF marked, st, s, have, counts
<1>9. st \in Seq(Statuses) /\ Len(st) = N(x)
  BY <1>2, <1>8, SeqOf
<1>10. /\ t \in XferRecord /\ t.descs_status = st /\ t.descs_xfered = s.descs_xfered /\ t.got = s.got
       /\ t.buf = s.buf /\ t.buf_offset = s.buf_offset /\ t.state = "ready" /\ t.outcome = "none" /\ t.fetching
  BY <1>2, <1>3, <1>9 DEF XferRecord, s
<1>11. Right(x, t) /\ Right(x, Xcb(t))
  BY <1>2, <1>8, OtherStatuses DEF s
<1>12. g \in [Xfer -> XferRecord] /\ g[x] = t /\ \A y \in Xfer \ {x} : g[y] = xfer[y]
  BY <1>3, <1>10
<1> HIDE DEF t
<1>13. Done(t) = Done(s)
  BY <1>2, <1>7, <1>9, <1>10 DEF Done
<1>14. Ends(x, t)
  <2>1. Counted(x, t)
    BY <1>3, <1>10, <1>13 DEF Counted
  <2>2. s.descs_xfered = N(x) /\ s.buf = <<>> => N(x) = 0
    BY <1>2, <1>3 DEF Ends
  <2>3. QED
    BY <1>10, <2>1, <2>2 DEF Ends
<1>15. Share(x, t, id) = Share(x, s, id) + 1 /\ Share(x, s, id) \in Nat
  <2>1. Holds(x, t, id) = Holds(x, s, id) \cup {i}
    BY <1>2, <1>7, <1>9, <1>10 DEF Holds
  <2>2. i \notin Holds(x, s, id)
    BY <1>2 DEF Holds
  <2>3. /\ IsFiniteSet(Holds(x, s, id)) /\ Cardinality(Holds(x, s, id)) \in Nat
    BY <1>2, HoldsFinite DEF XferRecord
  <2>4. Cardinality(Holds(x, s, id) \cup {i}) = Cardinality(Holds(x, s, id)) + 1
    BY <2>2, <2>3, FS_AddElement
  <2>5. QED
    BY <1>3, <1>10, <2>1, <2>3, <2>4 DEF Share
<1>16. ASSUME NEW d \in Id, d # id
       PROVE  Share(x, t, d) = Share(x, s, d)
  <2>1. Holds(x, t, d) = Holds(x, s, d)
    BY <1>2, <1>7, <1>9, <1>10, <1>16 DEF Holds
  <2>2. QED
    BY <1>3, <1>10, <2>1 DEF Share
<1> HIDE DEF g, id
<1>17. Accounts(g, counts, have)
  <2>1. ASSUME NEW d \in Id
        PROVE  /\ counts[d] = others[d] + SumOf(g, d)
               /\ counts[d] # 0 => d \in have
    <3>1. PICK rest \in Nat : /\ SumOf(xfer, d) = rest + Share(x, xfer[x], d)
                              /\ SumOf(g, d) = rest + Share(x, g[x], d)
      BY <1>3, <1>12, SumChanges
    <3>2. /\ refs[d] = others[d] + SumOf(xfer, d) /\ (refs[d] # 0 => d \in stored)
          /\ others[d] \in Nat /\ refs[d] \in Nat
      BY <1>3 DEF Accounts
    <3>3. CASE d = id
      <4> DEFINE share == Share(x, s, d)
      <4>1. share \in Nat /\ SumOf(xfer, d) = rest + share /\ SumOf(g, d) = rest + (share + 1)
        BY <1>12, <1>15, <3>1, <3>3 DEF s
      <4>2. counts[d] = refs[d] + 1 /\ d \in have
        BY <1>2, <1>3, <1>6, <3>3
      <4> HIDE DEF share
      <4>3. QED
        BY <3>2, <4>1, <4>2
    <3>4. CASE d # id
      <4>1. SumOf(g, d) = SumOf(xfer, d)
        BY <1>12, <1>16, <3>1, <3>4 DEF s
      <4>2. counts[d] = refs[d] /\ (d \in stored => d \in have)
        BY <1>2, <1>3, <1>6, <3>4
      <4>3. QED
        BY <3>2, <4>1, <4>2
    <3>5. QED
      BY <3>3, <3>4
  <2>2. QED
    BY <2>1 DEF Accounts
<1>18. counts \in [Id -> Nat] /\ stored \subseteq have
  <2>1. refs[id] + 1 \in Nat
    BY <1>2, <1>3
  <2>2. QED
    BY <1>2, <1>3, <1>6, <2>1
<1>19. MarksOf(x, t, ~ t.fetching \/ x \in scheduled', asked'[x])
  BY <1>2, <1>7, <1>10 DEF MarksOf
<1>20. QED
  BY <1>1, <1>2, <1>4, <1>10, <1>11, <1>14, <1>17, <1>18, <1>19, CallbackCounts DEF g

\* The steps that concern no transfer.
LEMMA QuietCounts ==
  ASSUME CountInv, PlaceInv', UNCHANGED <<xfer, scheduled, status>>,
         \A y \in Xfer : asked'[y] \subseteq asked[y],
         \/ UNCHANGED <<refs, others, stored>>
         \/ \E id \in Id : Overheard(id) \/ Purge(id)
  PROVE  CountInv'
<1>1. refs' \in [Id -> Nat] /\ others' \in [Id -> Nat]
  <2>1. \A id \in Id : refs[id] + 1 \in Nat /\ others[id] + 1 \in Nat
    BY DEF CountInv
  <2>2. QED
    BY <2>1 DEF CountInv, Overheard, Purge
<1>2. \A y \in Xfer : Ends(y, xfer[y])'
  BY DEF CountInv, Ends, Counted, InGot, InPart, Done
<1>3. ASSUME NEW y \in Xfer, status = "up"
      PROVE  Marks(y)'
  <2>1. Marks(y)
    BY <1>3 DEF CountInv
  <2>2. QED
    BY <2>1 DEF Marks
<1>4. ASSUME status = "up", NEW d \in Id
      PROVE  /\ refs'[d] = others'[d] + SumOf(xfer, d)
             /\ refs'[d] # 0 => d \in stored'
  <2>1. /\ refs[d] = others[d] + SumOf(xfer, d) /\ (refs[d] # 0 => d \in stored)
        /\ refs[d] \in Nat /\ others[d] \in Nat /\ SumOf(xfer, d) \in Nat
    <3>1. SumOf(xfer, d) \in Nat
      BY SumOfIsTotal DEF CountInv, PlaceInv
    <3>2. QED
      BY <1>4, <3>1 DEF CountInv, Accounts
  <2>2. CASE UNCHANGED <<refs, others, stored>>
    BY <2>1, <2>2
  <2>3. ASSUME NEW id \in Id, Overheard(id)
        PROVE  /\ refs'[d] = others'[d] + SumOf(xfer, d)
               /\ refs'[d] # 0 => d \in stored'
    <3>1. /\ refs' = [refs EXCEPT ![id] = @ + 1] /\ others' = [others EXCEPT ![id] = @ + 1]
          /\ stored' = stored \cup {id} /\ refs \in [Id -> Nat] /\ others \in [Id -> Nat]
      BY <2>3 DEF Overheard, CountInv
    <3>2. CASE d = id
      <4>1. refs'[d] = refs[d] + 1 /\ others'[d] = others[d] + 1 /\ d \in stored'
        BY <3>1, <3>2
      <4>2. QED
        BY <2>1, <4>1
    <3>3. CASE d # id
      <4>1. refs'[d] = refs[d] /\ others'[d] = others[d] /\ (d \in stored => d \in stored')
        BY <3>1, <3>3
      <4>2. QED
        BY <2>1, <4>1
    <3>4. QED
      BY <3>2, <3>3
  <2>4. ASSUME NEW id \in Id, Purge(id)
        PROVE  /\ refs'[d] = others'[d] + SumOf(xfer, d)
               /\ refs'[d] # 0 => d \in stored'
    <3>1. refs' = refs /\ others' = others /\ stored' = stored \ {id} /\ refs[id] = 0
      BY <2>4 DEF Purge
    <3>2. QED
      BY <2>1, <3>1
  <2>5. QED
    BY <2>2, <2>3, <2>4
<1>5. status = "up" => Accounts(xfer, refs, stored)'
  BY <1>4 DEF Accounts
<1>6. MarkedIsStored'
  <2>1. CASE stored \subseteq stored'
    BY <2>1 DEF CountInv, MarkedIsStored, InTable, OnStorage
  <2>2. ASSUME NEW id \in Id, Purge(id), NEW y \in Xfer, xfer[y].state = "ready", NEW i \in OnStorage(xfer[y])
        PROVE  Descs[y][i] \in stored'
    <3>1. status = "up" /\ stored' = stored \ {id} /\ refs[id] = 0
      BY <2>2 DEF Purge
    <3>2. /\ xfer \in [Xfer -> XferRecord] /\ others \in [Id -> Nat] /\ PlaceInv
          /\ Accounts(xfer, refs, stored) /\ xfer[y].outcome # "end"
      BY <2>2, <3>1, ReadyCounts DEF PlaceInv
    <3>3. Accounts(xfer, refs, stored')
      BY <3>1, <3>2 DEF Accounts
    <3>4. Len(xfer[y].descs_status) = N(y)
      BY <2>2, <3>2, ReadyFacts
    <3>5. Descs[y][i] \in Id
      <4>1. i \in 1 .. N(y)
        BY <3>4 DEF OnStorage
      <4>2. QED
        BY <4>1, ChunksOfObject
    <3>6. QED
      BY <2>2, <3>2, <3>3, <3>5, MarkedIsReferred
  <2>3. CASE \E id \in Id : Purge(id)
    BY <2>2, <2>3 DEF MarkedIsStored, InTable, OnStorage
  <2>4. CASE \E id \in Id : Overheard(id)
    BY <2>1, <2>4 DEF Overheard
  <2>5. QED
    BY <2>1, <2>3, <2>4
<1>7. QED
  BY <1>1, <1>2, <1>3, <1>5, <1>6 DEF CountInv

\* The invariant of every reachable state, if no object has the same chunk twice.
THEOREM AlwaysCountInv ==
  ASSUME Distinct
  PROVE  Spec => []CountInv
<1>1. Init => CountInv
  <2> SUFFICES ASSUME Init PROVE CountInv
    OBVIOUS
  <2>1. PlaceInv /\ xfer \in [Xfer -> XferRecord] /\ \A x \in Xfer : xfer[x] = NewXfer
    BY StartsRight DEF PlaceInv
  <2>2. \A x \in Xfer : xfer[x].state = "none" /\ xfer[x] = [NewXfer EXCEPT !.state = xfer[x].state]
    <3>1. NewXfer.state = "none" /\ NewXfer = [NewXfer EXCEPT !.state = NewXfer.state]
      BY DEF NewXfer
    <3>2. QED
      BY <2>1, <3>1
  <2>3. ASSUME NEW x \in Xfer
        PROVE  Ends(x, xfer[x]) /\ \A id : Share(x, xfer[x], id) = 0
    <3> DEFINE t == xfer[x]
    <3>1. t.state # "ready" /\ t = [NewXfer EXCEPT !.state = t.state]
      BY <2>2
    <3> HIDE DEF t
    <3>2. Ends(x, t) /\ \A id : Share(x, t, id) = 0
      BY <3>1, BeginsEmpty
    <3>3. QED
      BY <3>2 DEF t
  <2>4. /\ refs \in [Id -> Nat] /\ others \in [Id -> Nat]
        /\ \A id \in Id : refs[id] = 0 /\ others[id] = 0
    BY DEF Init
  <2>5. ASSUME NEW id \in Id
        PROVE  SumOf(xfer, id) = 0
    <3>1. /\ SumOf(xfer, id) = Total(Live(xfer), HeldBy(xfer, id)) /\ IsFiniteSet(Live(xfer))
          /\ \A x \in Xfer : HeldBy(xfer, id)[x] = HeldIn(xfer, x, id)
      BY <2>1, SumOfIsTotal
    <3>2. \A x \in Live(xfer) : HeldBy(xfer, id)[x] = 0
      BY <2>3, <3>1 DEF Share, Live, HeldIn
    <3>3. QED
      BY <3>1, <3>2, TotalZero
  <2>6. Accounts(xfer, refs, stored)
    BY <2>4, <2>5 DEF Accounts
  <2>7. \A x \in Xfer : Marks(x)
    BY <2>2 DEF Marks
  <2>8. MarkedIsStored
    BY <2>2 DEF MarkedIsStored, InTable
  <2>9. QED
    BY <2>1, <2>3, <2>4, <2>6, <2>7, <2>8 DEF CountInv
<1>2. CountInv /\ [Next]_vars => CountInv'
  <2> SUFFICES ASSUME CountInv, [Next]_vars PROVE CountInv'
    OBVIOUS
  <2>1. PlaceInv
    BY DEF CountInv
  <2>2. ASSUME NEW x \in Xfer, GetInit(x) \/ DescriptorsArrive(x) \/ DescriptorsFail(x)
        PROVE  CountInv'
    BY <2>1, <2>2, InitSteps, InitCounts
  <2>3. ASSUME NEW x \in Xfer, GetData(x)
        PROVE  CountInv'
    BY <2>1, <2>3, GetDataStep, GetDataCounts
  <2>4. ASSUME NEW x \in Xfer, FetchData(x)
        PROVE  CountInv'
    BY <2>1, <2>4, FetchDataStep, FetchDataCounts
  <2>5. ASSUME NEW x \in Xfer, NEW i \in asked[x], ChunkArrives(x, i)
        PROVE  CountInv'
    BY <2>1, <2>5, CallbackStep, ChunkArrivesCounts
  <2>6. ASSUME NEW x \in Xfer, NEW i \in asked[x], ChunkFails(x, i)
        PROVE  CountInv'
    BY <2>1, <2>6, CallbackStep, ChunkFailsCounts
  <2>7. CASE \E x \in Xfer : \E i \in asked[x] : ChunkTooLate(x, i)
    <3>1. PlaceInv'
      BY <2>1, <2>7, QuietStep
    <3>2. UNCHANGED <<xfer, scheduled, status, refs, others, stored>> /\ \A y \in Xfer : asked'[y] \subseteq asked[y]
      BY <2>1, <2>7 DEF ChunkTooLate, CalledBack, PlaceInv
    <3>3. QED
      BY <3>1, <3>2, QuietCounts
  <2>8. CASE \E id \in Id : Overheard(id) \/ Purge(id)
    <3>1. PlaceInv'
      BY <2>1, <2>8, QuietStep
    <3>2. UNCHANGED <<xfer, scheduled, status>> /\ \A y \in Xfer : asked'[y] \subseteq asked[y]
      BY <2>8 DEF Overheard, Purge
    <3>3. QED
      BY <2>8, <3>1, <3>2, QuietCounts
  <2>9. CASE UNCHANGED vars
    <3>1. PlaceInv'
      BY <2>1, <2>9, QuietStep
    <3>2. UNCHANGED <<xfer, scheduled, status, refs, others, stored>> /\ \A y \in Xfer : asked'[y] \subseteq asked[y]
      BY <2>9 DEF vars
    <3>3. QED
      BY <3>1, <3>2, QuietCounts
  <2>10. QED
    BY <2>2, <2>3, <2>4, <2>5, <2>6, <2>7, <2>8, <2>9 DEF Next
<1>3. QED
  BY <1>1, <1>2, PTL DEF Spec

\* The refcounts of the storage are the references of the transfers that have not
\* sent their end, and those of others: fetch_data and xp_fetch_data_cb take as many
\* as actual_transfer_data gives back, however the transfers interleave.
THEOREM EveryReferenceAccounted ==
  ASSUME Distinct
  PROVE  Spec => []RefsAccounted
<1>1. CountInv => RefsAccounted
  BY DEF CountInv, Accounts, SumOf, HeldIn, Holds, RefsAccounted, Held
<1>2. QED
  BY <1>1, AlwaysCountInv, PTL

\* So get_chunk finds every chunk that a transfer has marked as on storage, whatever
\* other transfers release and the storage deletes.
THEOREM MarkedChunksStayStored ==
  ASSUME Distinct
  PROVE  Spec => []MarkedIsStored
<1>1. CountInv => MarkedIsStored
  BY DEF CountInv
<1>2. QED
  BY <1>1, AlwaysCountInv, PTL

\* A client that actual_transfer_data or get_data tells that this is the end has
\* received every byte of the object, in whatever order the chunks came.
THEOREM TheEndMeansAll ==
  ASSUME Distinct
  PROVE  Spec => []EndMeansAll
<1>1. CountInv => EndMeansAll
  <2> SUFFICES ASSUME CountInv, NEW x \in Xfer, xfer[x].outcome = "end"
               PROVE  LET got == xfer[x].got IN
                        UNION {got[k].offset + 1 .. got[k].offset + Len(got[k].data) : k \in 1 .. Len(got)}
                          = 1 .. Bytes(x, 1 .. N(x))
    BY DEF EndMeansAll
  <2> DEFINE got == xfer[x].got
             all == Offset(x, N(x) + 1)
             part(k) == got[k].offset + 1 .. got[k].offset + Len(got[k].data)
  <2>1. /\ GotRight(x, got) /\ got \in Seq(Reply)
        /\ \A p \in 1 .. all : InGot(got, p)
    BY DEF CountInv, PlaceInv, Right, XferRecord, Ends
  <2>2. all \in Nat /\ Bytes(x, 1 .. N(x)) = all
    <3>1. N(x) + 1 \in 1 .. N(x) + 1
      BY ChunksOfObject
    <3>2. QED
      BY <3>1, Offsets
  <2> HIDE DEF got, all
  <2>3. ASSUME NEW k \in 1 .. Len(got)
        PROVE  /\ got[k].offset \in Nat /\ Len(got[k].data) \in Nat
               /\ got[k].offset + Len(got[k].data) <= all
    <3>1. got[k] \in Reply
      BY <2>1, ElementOfSeq
    <3>2. got[k].offset \in Nat /\ Len(got[k].data) \in Nat
      BY <3>1, LenProperties DEF Reply
    <3>3. IsPart(x, got[k].offset, got[k].data)
      BY <2>1 DEF GotRight
    <3>4. QED
      BY <3>2, <3>3 DEF IsPart, all
  <2>4. ASSUME NEW k \in 1 .. Len(got)
        PROVE  part(k) \subseteq 1 .. all
    <3>1. \A m, n, l \in Nat : m + n <= l => m + 1 .. m + n \subseteq 1 .. l
      OBVIOUS
    <3>2. QED
      BY <2>2, <2>3, <3>1
  <2>5. ASSUME NEW p \in 1 .. all
        PROVE  \E k \in 1 .. Len(got) : p \in part(k)
    <3>1. PICK k \in 1 .. Len(got) : InPart(got[k].offset, got[k].data, p)
      BY <2>1 DEF InGot
    <3>2. p \in Nat
      BY <2>2
    <3>3. \A m, n, q \in Nat : m < q /\ q <= m + n => q \in m + 1 .. m + n
      OBVIOUS
    <3>4. p \in part(k)
      BY <2>3, <3>1, <3>2, <3>3 DEF InPart
    <3>5. QED
      BY <3>4
  <2> HIDE DEF part
  <2>6. UNION {part(k) : k \in 1 .. Len(got)} = 1 .. all
    BY <2>4, <2>5
  <2>7. QED
    BY <2>2, <2>6 DEF got, part
<1>2. QED
  BY <1>1, AlwaysCountInv, PTL
=============================================================================
