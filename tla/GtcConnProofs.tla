---------------------------- MODULE GtcConnProofs ----------------------------
(***************************************************************************)
(* Proofs about GtcConn, for every finite set of requests, every limit and *)
(* every set of faults.                                                    *)
(***************************************************************************)
EXTENDS GtcConn, FiniteSetTheorems, SequenceTheorems, TLAPS

-----------------------------------------------------------------------------
(* The inductive invariant *)

\* No element occurs twice in s.
Distinct(s) == \A i, j \in 1 .. Len(s) : s[i] = s[j] => i = j

\* r is an element of s.
In(r, s) == \E i \in 1 .. Len(s) : s[i] = r

\* Who holds the callback of r: the pending entry (-1), the handler that runs
\* (-2), its own tcpconnect (-3), an outstanding call (-4), or the entry k that
\* it waits on.
Held(k, r) ==
  \/ k = -1 /\ In(r, pending)
  \/ k = -2 /\ In(r, todo)
  \/ k = -3 /\ r \in connecting
  \/ k = -4 /\ rpc[r] # NoConn
  \/ k \in 1 .. Len(conn) /\ In(r, conn[k].wait_cb)

\* No list holds a callback twice.
DistinctLists ==
  /\ Distinct(pending) /\ Distinct(todo)
  /\ \A c \in 1 .. Len(conn) : Distinct(conn[c].wait_cb)

\* The callback of r has one holder until it is called, and none before the
\* request and afterwards.
OneHolder(r) ==
  /\ answers[r] <= 1
  /\ \A k, l \in Int : Held(k, r) /\ Held(l, r) => k = l
  /\ (\E k \in Int : Held(k, r)) <=> r \in issued /\ answers[r] = 0
  /\ r \notin issued => answers[r] = 0

\* An entry is cached once, until it is deleted.
CacheOK ==
  /\ Distinct(cache)
  /\ \A c \in 1 .. Len(conn) : /\ ~ IsCached(c) => conn[c].wait_cb = <<>>
                               /\ IsCached(c) => conn[c].opened >= 1

Accounted(c) ==
  conn[c].refcount = Cardinality(InFlight(c)) + conn[c].leaked - (conn[c].opened - 1)

RefcountOK == \A c \in 1 .. Len(conn) : IsCached(c) => Accounted(c)

IInv == /\ TypeOK /\ CacheOK /\ RefcountOK
        /\ status = "up" => DistinctLists /\ \A r \in Request : OneHolder(r)

\* The limit, as long as no descriptors are asked for: nothing else calls on an
\* entry whose slots are taken.
LimitOK == \A c \in 1 .. Len(conn) :
             IsCached(c) => conn[c].refcount <= MAX_RPCS_IN_FLIGHT + conn[c].leaked

\* When only chunks are asked for and there are no error replies: there is one
\* entry at a time, a dial only when there is none, and the slots that requests
\* wait for are taken, up to the one that the running handler is about to give
\* to the request it took off the list.
WakerOK ==
  /\ Len(cache) <= 1 /\ connecting = {}
  /\ pending # <<>> => cache = <<>>
  /\ \A c \in 1 .. Len(conn) :
       /\ conn[c].leaked = 0
       /\ conn[c].wait_cb # <<>> => conn[c].refcount + Len(todo) >= MAX_RPCS_IN_FLIGHT

-----------------------------------------------------------------------------
(* Lists of callbacks *)

\* Short lists.
LEMMA ShortLists ==
  ASSUME NEW S, NEW x \in S
  PROVE  /\ <<>> \in Seq(S) /\ Len(<<>>) = 0 /\ Distinct(<<>>) /\ \A q : ~ In(q, <<>>)
         /\ <<x>> \in Seq(S) /\ Len(<<x>>) = 1 /\ Distinct(<<x>>) /\ \A q : In(q, <<x>>) <=> q = x
  BY DEF Distinct, In

\* A list without elements is empty.
LEMMA NobodyIn ==
  ASSUME NEW S, NEW s \in Seq(S)
  PROVE  /\ s = <<>> <=> Len(s) = 0
         /\ s # <<>> => In(Head(s), s)
         /\ \A q : In(q, s) => q \in S
<1>1. s = <<>> <=> Len(s) = 0
  BY EmptySeq
<1>2. s # <<>> => 1 \in 1 .. Len(s) /\ Head(s) = s[1]
  BY <1>1, LenProperties
<1>3. QED
  BY <1>1, <1>2, ElementOfSeq DEF In

\* A callback is added at the end of a list.
LEMMA InAppend ==
  ASSUME NEW S, NEW s \in Seq(S), NEW x \in S
  PROVE  /\ Append(s, x) \in Seq(S) /\ Append(s, x) # <<>> /\ Len(Append(s, x)) = Len(s) + 1
         /\ \A q : In(q, Append(s, x)) <=> In(q, s) \/ q = x
         /\ Distinct(s) /\ ~ In(x, s) => Distinct(Append(s, x))
<1>1. /\ Append(s, x) \in Seq(S) /\ Append(s, x) # <<>> /\ Len(Append(s, x)) = Len(s) + 1
      /\ \A i \in 1 .. Len(s) : Append(s, x)[i] = s[i]
      /\ Append(s, x)[Len(s) + 1] = x /\ Len(s) \in Nat
  BY AppendProperties, LenProperties
<1>2. \A i : i \in 1 .. Len(s) + 1 <=> i \in 1 .. Len(s) \/ i = Len(s) + 1
  BY <1>1
<1>3. \A q : In(q, Append(s, x)) <=> In(q, s) \/ q = x
  BY <1>1, <1>2 DEF In
<1>4. Distinct(s) /\ ~ In(x, s) => Distinct(Append(s, x))
  BY <1>1, <1>2 DEF Distinct, In
<1>5. QED
  BY <1>1, <1>3, <1>4

\* The first callback is taken off a list.
LEMMA InTail ==
  ASSUME NEW S, NEW s \in Seq(S), s # <<>>
  PROVE  /\ Head(s) \in S /\ Tail(s) \in Seq(S) /\ Len(Tail(s)) = Len(s) - 1 /\ Len(s) \in Nat \ {0}
         /\ \A q : In(q, s) <=> In(q, Tail(s)) \/ q = Head(s)
         /\ Distinct(s) => Distinct(Tail(s)) /\ ~ In(Head(s), Tail(s))
<1>1. /\ Head(s) \in S /\ Tail(s) \in Seq(S) /\ Len(Tail(s)) = Len(s) - 1
      /\ \A i \in 1 .. Len(Tail(s)) : Tail(s)[i] = s[i + 1]
      /\ Len(s) \in Nat \ {0} /\ Head(s) = s[1]
  BY HeadTailProperties, EmptySeq
<1>2. ASSUME NEW q PROVE In(q, s) <=> In(q, Tail(s)) \/ q = Head(s)
  <2>1. ASSUME NEW i \in 1 .. Len(s), s[i] = q, q # Head(s) PROVE In(q, Tail(s))
    <3>1. i - 1 \in 1 .. Len(Tail(s)) /\ Tail(s)[i - 1] = q
      BY <1>1, <2>1
    <3>2. QED
      BY <3>1 DEF In
  <2>2. ASSUME NEW i \in 1 .. Len(Tail(s)), Tail(s)[i] = q PROVE In(q, s)
    <3>1. i + 1 \in 1 .. Len(s) /\ s[i + 1] = q
      BY <1>1, <2>2
    <3>2. QED
      BY <3>1 DEF In
  <2>3. In(Head(s), s)
    BY NobodyIn
  <2>4. QED
    BY <2>1, <2>2, <2>3 DEF In
<1>3. Distinct(s) => Distinct(Tail(s)) /\ ~ In(Head(s), Tail(s))
  <2> SUFFICES ASSUME Distinct(s) PROVE Distinct(Tail(s)) /\ ~ In(Head(s), Tail(s))
    OBVIOUS
  <2>1. \A i \in 1 .. Len(Tail(s)) : i + 1 \in 1 .. Len(s) /\ i + 1 # 1
    BY <1>1
  <2>2. QED
    BY <1>1, <2>1 DEF Distinct, In
<1>4. QED
  BY <1>1, <1>2, <1>3

\* One list is put before another.
LEMMA InConcat ==
  ASSUME NEW S, NEW s \in Seq(S), NEW t \in Seq(S)
  PROVE  /\ s \o t \in Seq(S) /\ Len(s \o t) = Len(s) + Len(t)
         /\ \A q : In(q, s \o t) <=> In(q, s) \/ In(q, t)
         /\ Distinct(s) /\ Distinct(t) /\ (\A q \in S : ~ (In(q, s) /\ In(q, t))) => Distinct(s \o t)
<1>1. /\ s \o t \in Seq(S) /\ Len(s \o t) = Len(s) + Len(t) /\ Len(s) \in Nat /\ Len(t) \in Nat
      /\ \A i \in 1 .. Len(s) + Len(t) :
           (s \o t)[i] = IF i <= Len(s) THEN s[i] ELSE t[i - Len(s)]
  BY ConcatProperties, LenProperties
<1>2. \A i \in 1 .. Len(s) : i \in 1 .. Len(s \o t) /\ (s \o t)[i] = s[i]
  BY <1>1
<1>3. \A i \in 1 .. Len(t) : Len(s) + i \in 1 .. Len(s \o t) /\ (s \o t)[Len(s) + i] = t[i]
  BY <1>1
<1>4. \A i \in 1 .. Len(s \o t) : \/ i \in 1 .. Len(s)
                                  \/ i - Len(s) \in 1 .. Len(t) /\ i = Len(s) + (i - Len(s))
  BY <1>1
<1>5. ASSUME NEW q PROVE In(q, s \o t) <=> In(q, s) \/ In(q, t)
  BY <1>2, <1>3, <1>4 DEF In
<1>6. ASSUME Distinct(s), Distinct(t), \A q \in S : ~ (In(q, s) /\ In(q, t))
      PROVE  Distinct(s \o t)
  <2> SUFFICES ASSUME NEW i \in 1 .. Len(s \o t), NEW j \in 1 .. Len(s \o t),
                      (s \o t)[i] = (s \o t)[j]
               PROVE  i = j
    BY DEF Distinct
  <2>1. CASE i \in 1 .. Len(s) /\ j \in 1 .. Len(s)
    BY <1>2, <1>6, <2>1 DEF Distinct
  <2>2. CASE i \notin 1 .. Len(s) /\ j \notin 1 .. Len(s)
    <3>1. i - Len(s) \in 1 .. Len(t) /\ j - Len(s) \in 1 .. Len(t)
      BY <1>4, <2>2
    <3>2. (s \o t)[i] = t[i - Len(s)] /\ (s \o t)[j] = t[j - Len(s)]
      BY <1>3, <1>4, <2>2
    <3>3. i - Len(s) = j - Len(s)
      BY <1>6, <3>1, <3>2 DEF Distinct
    <3>4. QED
      BY <1>1, <3>3
  <2>3. CASE i \in 1 .. Len(s) /\ j \notin 1 .. Len(s)
    <3>1. (s \o t)[i] = s[i] /\ (s \o t)[j] = t[j - Len(s)] /\ j - Len(s) \in 1 .. Len(t)
      BY <1>2, <1>3, <1>4, <2>3
    <3>2. In(s[i], s) /\ In(s[i], t) /\ s[i] \in S
      BY <2>3, <3>1, ElementOfSeq DEF In
    <3>3. QED
      BY <1>6, <3>2
  <2>4. CASE i \notin 1 .. Len(s) /\ j \in 1 .. Len(s)
    <3>1. (s \o t)[j] = s[j] /\ (s \o t)[i] = t[i - Len(s)] /\ i - Len(s) \in 1 .. Len(t)
      BY <1>2, <1>3, <1>4, <2>4
    <3>2. In(s[j], s) /\ In(s[j], t) /\ s[j] \in S
      BY <2>4, <3>1, ElementOfSeq DEF In
    <3>3. QED
      BY <1>6, <3>2
  <2>5. QED
    BY <2>1, <2>2, <2>3, <2>4
<1>7. QED
  BY <1>1, <1>5, <1>6

\* An element is removed from a list.
LEMMA InRemoveAt ==
  ASSUME NEW S, NEW s \in Seq(S), NEW n \in 1 .. Len(s)
  PROVE  /\ RemoveAt(s, n) \in Seq(S) /\ Len(RemoveAt(s, n)) = Len(s) - 1
         /\ Distinct(s) => /\ Distinct(RemoveAt(s, n))
                           /\ \A q : In(q, RemoveAt(s, n)) <=> In(q, s) /\ q # s[n]
<1> DEFINE a == SubSeq(s, 1, n - 1)
           b == SubSeq(s, n + 1, Len(s))
<1>1. Len(s) \in Nat /\ n \in Nat /\ n - 1 \in Int /\ n + 1 \in Int /\ \A i \in 1 .. Len(s) : s[i] \in S
  BY LenProperties, ElementOfSeq
<1>2. a \in Seq(S) /\ Len(a) = n - 1 /\ \A i \in 1 .. n - 1 : a[i] = s[i]
  <2>1. \A i \in 1 .. n - 1 : s[i] \in S
    BY <1>1
  <2>2. /\ a \in Seq(S) /\ Len(a) = IF 1 <= n - 1 THEN (n - 1) - 1 + 1 ELSE 0
        /\ \A i \in 1 .. (n - 1) - 1 + 1 : a[i] = s[1 + i - 1]
    BY <1>1, <2>1, SubSeqProperties
  <2> HIDE DEF a
  <2>3. QED
    BY <1>1, <2>2
<1>3. b \in Seq(S) /\ Len(b) = Len(s) - n /\ \A i \in 1 .. Len(s) - n : b[i] = s[n + i]
  <2>1. \A i \in n + 1 .. Len(s) : s[i] \in S
    BY <1>1
  <2>2. /\ b \in Seq(S) /\ Len(b) = IF n + 1 <= Len(s) THEN Len(s) - (n + 1) + 1 ELSE 0
        /\ \A i \in 1 .. Len(s) - (n + 1) + 1 : b[i] = s[(n + 1) + i - 1]
    BY <1>1, <2>1, SubSeqProperties
  <2> HIDE DEF b
  <2>3. QED
    BY <1>1, <2>2
<1>4. RemoveAt(s, n) = a \o b
  BY DEF RemoveAt
<1> HIDE DEF a, b
<1>5. RemoveAt(s, n) \in Seq(S) /\ Len(RemoveAt(s, n)) = Len(s) - 1
  <2>1. a \o b \in Seq(S) /\ Len(a \o b) = Len(a) + Len(b)
    BY <1>2, <1>3, InConcat
  <2>2. QED
    BY <1>1, <1>2, <1>3, <1>4, <2>1
<1>6. ASSUME Distinct(s)
      PROVE  Distinct(RemoveAt(s, n)) /\ \A q : In(q, RemoveAt(s, n)) <=> In(q, s) /\ q # s[n]
  <2>1. Distinct(a)
    BY <1>1, <1>2, <1>6 DEF Distinct
  <2>2. Distinct(b)
    <3>1. \A i \in 1 .. Len(b) : n + i \in 1 .. Len(s) /\ b[i] = s[n + i]
      BY <1>1, <1>3
    <3>2. \A i, j \in 1 .. Len(b) : n + i = n + j => i = j
      BY <1>1, <1>3
    <3>3. QED
      BY <1>6, <3>1, <3>2 DEF Distinct
  <2>3. ASSUME NEW q PROVE In(q, a) <=> \E i \in 1 .. Len(s) : s[i] = q /\ i < n
    BY <1>1, <1>2 DEF In
  <2>4. ASSUME NEW q PROVE In(q, b) <=> \E i \in 1 .. Len(s) : s[i] = q /\ i > n
    <3>1. ASSUME NEW i \in 1 .. Len(s), s[i] = q, i > n PROVE In(q, b)
      <4>1. i - n \in 1 .. Len(b) /\ b[i - n] = q
        BY <1>1, <1>3, <3>1
      <4>2. QED
        BY <4>1 DEF In
    <3>2. ASSUME NEW i \in 1 .. Len(b), b[i] = q PROVE \E j \in 1 .. Len(s) : s[j] = q /\ j > n
      <4>1. n + i \in 1 .. Len(s) /\ s[n + i] = q /\ n + i > n
        BY <1>1, <1>3, <3>2
      <4>2. QED
        BY <4>1
    <3>3. QED
      BY <3>1, <3>2 DEF In
  <2>5. \A q : ~ (In(q, a) /\ In(q, b))
    BY <1>1, <1>6, <2>3, <2>4 DEF Distinct
  <2>6. ASSUME NEW q PROVE In(q, a) \/ In(q, b) <=> In(q, s) /\ q # s[n]
    <3>1. In(q, s) <=> \E i \in 1 .. Len(s) : s[i] = q
      BY DEF In
    <3>2. \A i \in 1 .. Len(s) : s[i] = s[n] <=> i = n
      BY <1>6 DEF Distinct
    <3>3. \A i \in 1 .. Len(s) : i = n \/ i < n \/ i > n
      BY <1>1
    <3>4. n \in 1 .. Len(s) /\ ~ (n < n) /\ ~ (n > n)
      BY <1>1
    <3>5. QED
      BY <2>3, <2>4, <3>1, <3>2, <3>3, <3>4
  <2>7. QED
    BY <1>2, <1>3, <1>4, <2>1, <2>2, <2>5, <2>6, InConcat
<1>7. QED
  BY <1>5, <1>6

\* A list of different elements has as many as its length.
LEMMA CountDistinct ==
  ASSUME NEW S, NEW s \in Seq(S), Distinct(s), NEW T, \A q : q \in T <=> In(q, s)
  PROVE  IsFiniteSet(T) /\ Cardinality(T) = Len(s)
<1>1. Len(s) \in Nat /\ s \in [1 .. Len(s) -> S]
  BY LenProperties
<1>2. s \in [1 .. Len(s) -> T]
  BY <1>1, SeqDef DEF In
<1>3. s \in Bijection(1 .. Len(s), T)
  BY <1>2 DEF Bijection, Injection, Surjection, IsInjective, Distinct, In
<1>4. ExistsBijection(1 .. Len(s), T)
  BY <1>3 DEF ExistsBijection
<1>5. IsFiniteSet(1 .. Len(s)) /\ Cardinality(1 .. Len(s)) = Len(s)
  BY <1>1, FS_Interval
<1>6. QED
  BY <1>4, <1>5, FS_Bijection

-----------------------------------------------------------------------------
(* What the parts of a handler do to the entries *)

\* The types of the entries.
LEMMA EntryTypes ==
  ASSUME TypeOK
  PROVE  /\ conn \in Seq(ConnEntry) /\ Len(conn) \in Nat
         /\ cache \in Seq(1 .. Len(conn)) /\ Len(cache) \in Nat
         /\ \A c \in 1 .. Len(conn) : /\ conn[c] \in ConnEntry /\ conn[c].wait_cb \in Seq(Chunk)
                                      /\ conn[c].refcount \in Int /\ conn[c].eof \in BOOLEAN
                                      /\ conn[c].opened \in Nat /\ conn[c].leaked \in Nat
         /\ \A c : IsCached(c) <=> In(c, cache)
         /\ \A c : IsCached(c) => c \in 1 .. Len(conn)
<1>1. conn \in Seq(ConnEntry) /\ cache \in Seq(1 .. Len(conn))
  BY DEF TypeOK
<1>2. \A c \in 1 .. Len(conn) : conn[c] \in ConnEntry
  BY <1>1, ElementOfSeq
<1>3. Len(conn) \in Nat /\ Len(cache) \in Nat
  BY <1>1, LenProperties
<1>4. \A c : IsCached(c) <=> In(c, cache)
  BY DEF IsCached, In
<1>5. \A c : In(c, cache) => c \in 1 .. Len(conn)
  BY <1>1, NobodyIn
<1>6. QED
  BY <1>1, <1>2, <1>3, <1>4, <1>5 DEF ConnEntry

\* An entry is changed.
LEMMA ConnUpdate ==
  ASSUME TypeOK, NEW c \in 1 .. Len(conn), NEW e \in ConnEntry, conn' = [conn EXCEPT ![c] = e]
  PROVE  /\ conn' \in Seq(ConnEntry) /\ Len(conn') = Len(conn) /\ conn'[c] = e
         /\ \A d \in 1 .. Len(conn) : d # c => conn'[d] = conn[d]
<1>1. conn \in Seq(ConnEntry)
  BY DEF TypeOK
<1>2. /\ conn' \in Seq(ConnEntry) /\ Len(conn') = Len(conn)
      /\ \A j \in 1 .. Len(conn) : conn'[j] = IF j = c THEN e ELSE conn[j]
  BY <1>1, ExceptSeq
<1>3. QED
  BY <1>2

\* An entry is made.
LEMMA ConnMade ==
  ASSUME TypeOK, NEW n \in Nat, OpenConn(n)
  PROVE  /\ conn' \in Seq(ConnEntry) /\ Len(conn') = Len(conn) + 1 /\ Len(conn) \in Nat
         /\ conn'[Len(conn) + 1] = NewConn(n) /\ NewConn(n) \in ConnEntry
         /\ \A d \in 1 .. Len(conn) : conn'[d] = conn[d]
         /\ cache' \in Seq(1 .. Len(conn')) /\ Len(cache') = Len(cache) + 1
         /\ \A d : IsCached(d)' <=> IsCached(d) \/ d = Len(conn) + 1
         /\ Distinct(cache) => Distinct(cache)'
<1>1. NewConn(n) \in ConnEntry
  BY DEF NewConn, ConnEntry
<1>2. conn \in Seq(ConnEntry) /\ conn' = Append(conn, NewConn(n)) /\ Len(conn) \in Nat
  BY LenProperties DEF TypeOK, OpenConn
<1>3. /\ conn' \in Seq(ConnEntry) /\ Len(conn') = Len(conn) + 1
      /\ conn'[Len(conn) + 1] = NewConn(n)
      /\ \A d \in 1 .. Len(conn) : conn'[d] = conn[d]
  BY <1>1, <1>2, AppendProperties
<1>4. cache \in Seq(1 .. Len(conn')) /\ <<Len(conn) + 1>> \in Seq(1 .. Len(conn'))
  <2>1. 1 .. Len(conn) \subseteq 1 .. Len(conn') /\ Len(conn) + 1 \in 1 .. Len(conn')
    BY <1>2, <1>3
  <2>2. cache \in Seq(1 .. Len(conn))
    BY DEF TypeOK
  <2>3. cache \in Seq(1 .. Len(conn'))
    BY <2>1, <2>2, SeqMonotonic
  <2>4. QED
    BY <2>1, <2>3, ShortLists
<1>5. cache' = <<Len(conn) + 1>> \o cache
  BY DEF OpenConn
<1>6. ~ In(Len(conn) + 1, cache)
  BY <1>2, EntryTypes
<1>7. /\ Len(<<Len(conn) + 1>>) = 1 /\ Distinct(<<Len(conn) + 1>>)
      /\ \A q : In(q, <<Len(conn) + 1>>) <=> q = Len(conn) + 1
  BY ShortLists
<1>8. /\ cache' \in Seq(1 .. Len(conn')) /\ Len(cache') = 1 + Len(cache) /\ Len(cache) \in Nat
      /\ \A d : In(d, cache') <=> In(d, cache) \/ d = Len(conn) + 1
      /\ Distinct(cache) => Distinct(cache')
  <2> DEFINE new == <<Len(conn) + 1>>
  <2>1. /\ new \o cache \in Seq(1 .. Len(conn')) /\ Len(new \o cache) = Len(new) + Len(cache)
        /\ \A q : In(q, new \o cache) <=> In(q, new) \/ In(q, cache)
        /\ Distinct(new) /\ Distinct(cache)
             /\ (\A q \in 1 .. Len(conn') : ~ (In(q, new) /\ In(q, cache))) => Distinct(new \o cache)
    BY <1>4, InConcat
  <2> HIDE DEF new
  <2>2. /\ cache' = new \o cache /\ Len(new) = 1 /\ Distinct(new)
        /\ \A q : In(q, new) <=> q = Len(conn) + 1
    BY <1>5, <1>7 DEF new
  <2>3. Len(cache) \in Nat
    BY EntryTypes
  <2>4. QED
    BY <1>6, <2>1, <2>2, <2>3
<1>9. QED
  BY <1>1, <1>2, <1>3, <1>8 DEF IsCached, In, Distinct

\* delete: the entry is out of the cache, and whoever waits on it goes before rest.
LEMMA DeleteEffect ==
  ASSUME TypeOK, CacheOK, NEW c \in 1 .. Len(conn), NEW rest \in Seq(Chunk), DeleteConn(c, rest)
  PROVE  /\ conn' \in Seq(ConnEntry) /\ Len(conn') = Len(conn) /\ conn'[c] = Freed
         /\ \A d \in 1 .. Len(conn) : d # c => conn'[d] = conn[d]
         /\ cache' \in Seq(1 .. Len(conn)) /\ Len(cache') = Len(cache) - 1
         /\ \A d : IsCached(d)' <=> IsCached(d) /\ d # c
         /\ CacheOK'
         /\ todo' \in Seq(Chunk)
         /\ \A q : In(q, todo') <=> In(q, conn[c].wait_cb) \/ In(q, rest)
         /\ Distinct(conn[c].wait_cb) /\ Distinct(rest)
              /\ (\A q \in Chunk : ~ (In(q, conn[c].wait_cb) /\ In(q, rest))) => Distinct(todo')
<1>1. Freed \in ConnEntry /\ Freed.wait_cb = <<>>
  BY DEF Freed, ConnEntry
<1>2. /\ conn' \in Seq(ConnEntry) /\ Len(conn') = Len(conn) /\ conn'[c] = Freed
      /\ \A d \in 1 .. Len(conn) : d # c => conn'[d] = conn[d]
  BY <1>1, ConnUpdate DEF DeleteConn
<1>3. PICK n \in 1 .. Len(cache) : cache[n] = c /\ cache' = RemoveAt(cache, n)
  BY DEF DeleteConn
<1>4. /\ cache' \in Seq(1 .. Len(conn)) /\ Len(cache') = Len(cache) - 1
      /\ Distinct(cache')
      /\ \A d : In(d, cache') <=> In(d, cache) /\ d # c
  BY <1>3, InRemoveAt DEF TypeOK, CacheOK
<1>5. \A d : IsCached(d)' <=> IsCached(d) /\ d # c
  BY <1>4 DEF IsCached, In
<1>6. CacheOK'
  BY <1>1, <1>2, <1>4, <1>5 DEF CacheOK, Distinct
<1>7. conn[c].wait_cb \in Seq(Chunk)
  BY EntryTypes
<1>8. todo' = conn[c].wait_cb \o rest
  BY DEF DeleteConn
<1>9. QED
  BY <1>2, <1>4, <1>5, <1>6, <1>7, <1>8, InConcat

\* A call is made.
LEMMA CallMade ==
  ASSUME TypeOK, NEW r \in Request, rpc[r] = NoConn, NEW c \in Nat \ {0},
         rpc' = [rpc EXCEPT ![r] = c]
  PROVE  /\ Cardinality(InFlight(c)') = Cardinality(InFlight(c)) + 1
         /\ Cardinality(InFlight(c)) \in Nat
         /\ \A d \in Nat \ {0} : d # c => InFlight(d)' = InFlight(d)
<1>1. InFlight(c)' = InFlight(c) \cup {r} /\ r \notin InFlight(c)
  BY DEF TypeOK, InFlight, NoConn
<1>2. IsFiniteSet(InFlight(c))
  BY RequestAssumption, FS_Subset DEF InFlight
<1>3. \A d \in Nat \ {0} : d # c => InFlight(d)' = InFlight(d)
  BY DEF TypeOK, InFlight, NoConn
<1>4. QED
  BY <1>1, <1>2, <1>3, FS_AddElement, FS_CardinalityType

\* A call ends.
LEMMA CallEnded ==
  ASSUME TypeOK, NEW r \in Request, NEW c \in Nat \ {0}, rpc[r] = c,
         rpc' = [rpc EXCEPT ![r] = NoConn]
  PROVE  /\ Cardinality(InFlight(c)') = Cardinality(InFlight(c)) - 1
         /\ Cardinality(InFlight(c)) \in Nat
         /\ \A d \in Nat \ {0} : d # c => InFlight(d)' = InFlight(d)
<1>1. InFlight(c)' = InFlight(c) \ {r} /\ r \in InFlight(c)
  BY DEF TypeOK, InFlight, NoConn
<1>2. IsFiniteSet(InFlight(c))
  BY RequestAssumption, FS_Subset DEF InFlight
<1>3. \A d \in Nat \ {0} : d # c => InFlight(d)' = InFlight(d)
  BY DEF TypeOK, InFlight, NoConn
<1>4. QED
  BY <1>1, <1>2, <1>3, FS_RemoveElement, FS_CardinalityType

\* A step that changes one entry and the calls on it.
LEMMA RefcountStep ==
  ASSUME TypeOK, RefcountOK, NEW c, Len(conn') = Len(conn),
         \A d : IsCached(d)' => IsCached(d),
         \A d \in 1 .. Len(conn) : d # c => conn'[d] = conn[d],
         \A d \in Nat \ {0} : d # c => InFlight(d)' = InFlight(d),
         IsCached(c)' => Accounted(c)'
  PROVE  RefcountOK'
<1> SUFFICES ASSUME NEW d \in 1 .. Len(conn), IsCached(d)', d # c PROVE Accounted(d)'
  BY DEF RefcountOK
<1>1. Accounted(d) /\ d \in Nat \ {0}
  BY EntryTypes DEF RefcountOK
<1>2. conn'[d] = conn[d] /\ InFlight(d)' = InFlight(d)
  BY <1>1
<1>3. QED
  BY <1>1, <1>2 DEF Accounted

-----------------------------------------------------------------------------
(* What a step does to the holders of a callback *)

\* It is left where it is,
LEMMA HolderKept ==
  ASSUME NEW q \in Request, OneHolder(q), \A k \in Int : Held(k, q)' <=> Held(k, q),
         answers'[q] = answers[q], q \in issued' <=> q \in issued
  PROVE  OneHolder(q)'
  BY DEF OneHolder

\* it is put somewhere,
LEMMA HolderPlaced ==
  ASSUME NEW q \in Request, NEW l \in Int, \A k \in Int : Held(k, q)' <=> k = l,
         answers'[q] = 0, q \in issued'
  PROVE  OneHolder(q)'
  BY DEF OneHolder

\* it is called,
LEMMA HolderGone ==
  ASSUME NEW q \in Request, \A k \in Int : ~ Held(k, q)', answers'[q] = 1, q \in issued'
  PROVE  OneHolder(q)'
  BY DEF OneHolder

\* or, with all that from holds, it is moved to to.
LEMMA HolderMoved ==
  ASSUME NEW q \in Request, OneHolder(q), NEW from \in Int, NEW to \in Int, from # to,
         \A k \in Int : Held(k, q)' <=> \/ k = to /\ (Held(to, q) \/ Held(from, q))
                                        \/ k # to /\ k # from /\ Held(k, q),
         answers'[q] = answers[q], q \in issued' <=> q \in issued
  PROVE  OneHolder(q)'
  BY DEF OneHolder

\* Of all that from holds, some is moved to to, which held nothing.
LEMMA HolderSplit ==
  ASSUME NEW q \in Request, OneHolder(q), NEW from \in Int, NEW to \in Int, from # to, ~ Held(to, q),
         \A k \in Int : k # from /\ k # to => (Held(k, q)' <=> Held(k, q)),
         Held(from, q) <=> Held(from, q)' \/ Held(to, q)', ~ (Held(from, q)' /\ Held(to, q)'),
         answers'[q] = answers[q], q \in issued' <=> q \in issued
  PROVE  OneHolder(q)'
  BY DEF OneHolder

\* A handler takes up request r, which is new or the first in todo; rest is
\* what is then left to call.
TakesUp(r, rest) ==
  /\ IInv /\ status = "up" /\ status' = "up"
  /\ rest \in Seq(Chunk) /\ Distinct(rest) /\ ~ In(r, rest)
  /\ \A q \in Request : q # r => (In(q, rest) <=> In(q, todo))
  /\ \A k \in Int : Held(k, r) => k = -2
  /\ answers[r] = 0 /\ issued' = issued \cup {r}

\* Nobody else holds r.
LEMMA TakesUpAlone ==
  ASSUME NEW r \in Request, NEW rest, TakesUp(r, rest)
  PROVE  /\ rpc[r] = NoConn /\ ~ In(r, pending) /\ r \notin connecting
         /\ \A d \in 1 .. Len(conn) : ~ In(r, conn[d].wait_cb)
<1>1. Len(conn) \in Nat
  BY EntryTypes DEF TakesUp, IInv
<1>2. \A k \in Int : k # -2 => ~ Held(k, r)
  BY DEF TakesUp
<1>3. ~ Held(-1, r) /\ ~ Held(-3, r) /\ ~ Held(-4, r)
  BY <1>2
<1>4. \A d \in 1 .. Len(conn) : ~ Held(d, r)
  BY <1>1, <1>2
<1>5. QED
  BY <1>3, <1>4 DEF Held

\* refcount++ and the RPC.
LEMMA CallStep ==
  ASSUME NEW r \in Request, NEW rest, TakesUp(r, rest), NEW c, IsCached(c), Call(r, c, rest),
         UNCHANGED <<pending, dials, connecting>>
  PROVE  IInv'
<1>0. /\ TypeOK /\ CacheOK /\ RefcountOK /\ DistinctLists /\ \A q \in Request : OneHolder(q)
      /\ status' = "up" /\ rest \in Seq(Chunk) /\ issued' = issued \cup {r}
  BY DEF TakesUp, IInv
<1>1. /\ c \in 1 .. Len(conn) /\ conn[c] \in ConnEntry /\ Len(conn) \in Nat /\ conn[c].refcount \in Int
      /\ conn[c].leaked \in Nat /\ conn[c].opened \in Nat /\ conn[c].wait_cb \in Seq(Chunk)
      /\ c \in Nat \ {0} /\ cache \in Seq(1 .. Len(conn))
  BY <1>0, EntryTypes
<1>2. /\ rpc[r] = NoConn /\ ~ In(r, pending) /\ r \notin connecting
      /\ \A d \in 1 .. Len(conn) : ~ In(r, conn[d].wait_cb)
  BY TakesUpAlone
<1>3. CASE /\ conn' = [conn EXCEPT ![c].refcount = @ + 1]
           /\ rpc' = [rpc EXCEPT ![r] = c] /\ todo' = rest /\ UNCHANGED <<cache, answers>>
  <2> DEFINE e == [conn[c] EXCEPT !.refcount = @ + 1]
  <2>1. e \in ConnEntry /\ e.refcount = conn[c].refcount + 1 /\ e.wait_cb = conn[c].wait_cb
        /\ e.opened = conn[c].opened /\ e.leaked = conn[c].leaked
    <3>1. conn[c].refcount + 1 \in Int
      BY <1>1
    <3>2. QED
      BY <1>1, <3>1 DEF ConnEntry
  <2>2. conn' = [conn EXCEPT ![c] = e]
    BY <1>3
  <2> HIDE DEF e
  <2>3. /\ conn' \in Seq(ConnEntry) /\ Len(conn') = Len(conn) /\ conn'[c] = e
        /\ \A d \in 1 .. Len(conn) : d # c => conn'[d] = conn[d]
    BY <1>0, <1>1, <2>1, <2>2, ConnUpdate
  <2>4. \A d \in 1 .. Len(conn) : conn'[d].wait_cb = conn[d].wait_cb
    BY <2>1, <2>3
  <2>5. TypeOK'
    <3>1. rpc' \in [Request -> 0 .. Len(conn')]
      <4>1. rpc \in [Request -> 0 .. Len(conn)] /\ Len(conn') = Len(conn)
        BY <1>0, <2>3 DEF TypeOK
      <4>2. c \in 0 .. Len(conn)
        BY <1>1
      <4>3. QED
        BY <1>3, <4>1, <4>2
    <3>2. QED
      BY <1>0, <1>3, <2>3, <3>1 DEF TypeOK
  <2>6. CacheOK'
    BY <1>0, <1>3, <2>1, <2>3 DEF CacheOK, IsCached, Distinct
  <2>7. /\ Cardinality(InFlight(c)') = Cardinality(InFlight(c)) + 1
        /\ Cardinality(InFlight(c)) \in Nat
        /\ \A d \in Nat \ {0} : d # c => InFlight(d)' = InFlight(d)
    BY <1>0, <1>1, <1>2, <1>3, CallMade
  <2>8. RefcountOK'
    <3>1. /\ conn'[c].refcount = conn[c].refcount + 1 /\ conn'[c].leaked = conn[c].leaked
          /\ conn'[c].opened = conn[c].opened /\ conn[c].leaked \in Nat /\ conn[c].opened \in Nat
      BY <1>1, <2>1, <2>3
    <3>2. Accounted(c)
      BY <1>0, <1>1 DEF RefcountOK
    <3>3. Cardinality(InFlight(c)') = Cardinality(InFlight(c)) + 1 /\ Cardinality(InFlight(c)) \in Nat
      BY <2>7
    <3>4. Accounted(c)'
      BY <3>1, <3>2, <3>3 DEF Accounted
    <3>5. \A d : IsCached(d)' <=> IsCached(d)
      BY <1>3 DEF IsCached
    <3>6. QED
      BY <1>0, <2>3, <2>7, <3>4, <3>5, RefcountStep
  <2>9. DistinctLists'
    BY <1>0, <1>3, <2>3, <2>4 DEF DistinctLists, TakesUp, Distinct
  <2>10. ASSUME NEW q \in Request, q # r PROVE OneHolder(q)'
    <3>1. rpc'[q] = rpc[q] /\ (In(q, todo') <=> In(q, todo)) /\ answers'[q] = answers[q]
      BY <1>3, <2>10 DEF TakesUp
    <3>2. \A k \in Int : Held(k, q)' <=> Held(k, q)
      BY <2>3, <2>4, <3>1 DEF Held, In
    <3>3. QED
      BY <1>0, <2>10, <3>1, <3>2, HolderKept
  <2>11. OneHolder(r)'
    <3>1. rpc'[r] # NoConn /\ ~ In(r, todo')
      BY <1>0, <1>1, <1>3 DEF TakesUp, TypeOK, NoConn
    <3>3. \A k \in Int : Held(k, r)' <=> k = -4
      BY <1>2, <2>3, <2>4, <3>1 DEF Held, In
    <3>4. answers'[r] = 0 /\ r \in issued'
      BY <1>3 DEF TakesUp
    <3>5. QED
      BY <3>3, <3>4, HolderPlaced
  <2>12. QED
    BY <2>5, <2>6, <2>8, <2>9, <2>10, <2>11 DEF IInv
<1>4. CASE DeleteConn(c, rest) /\ Answer(r) /\ UNCHANGED rpc
  <2>1. /\ conn' \in Seq(ConnEntry) /\ Len(conn') = Len(conn) /\ conn'[c] = Freed
        /\ \A d \in 1 .. Len(conn) : d # c => conn'[d] = conn[d]
        /\ cache' \in Seq(1 .. Len(conn))
        /\ \A d : IsCached(d)' <=> IsCached(d) /\ d # c
        /\ CacheOK' /\ todo' \in Seq(Chunk)
        /\ \A q : In(q, todo') <=> In(q, conn[c].wait_cb) \/ In(q, rest)
        /\ Distinct(conn[c].wait_cb) /\ Distinct(rest)
             /\ (\A q \in Chunk : ~ (In(q, conn[c].wait_cb) /\ In(q, rest))) => Distinct(todo')
    BY <1>0, <1>1, <1>4, DeleteEffect
  <2>2. answers' = [answers EXCEPT ![r] = @ + 1] /\ answers'[r] = 1 /\ answers' \in [Request -> Nat]
    BY <1>0, <1>4 DEF Answer, TakesUp, TypeOK
  <2>3. TypeOK'
    BY <1>0, <1>4, <2>1, <2>2 DEF TypeOK
  <2>4. RefcountOK'
    BY <1>0, <1>4, <2>1, RefcountStep DEF InFlight
  <2>5. \A q \in Chunk : ~ (In(q, conn[c].wait_cb) /\ In(q, rest))
    <3> SUFFICES ASSUME NEW q \in Chunk, In(q, conn[c].wait_cb), In(q, rest) PROVE FALSE
      OBVIOUS
    <3>1. q \in Request /\ q # r
      BY DEF Request, TakesUp
    <3>2. Held(c, q) /\ Held(-2, q) /\ c # -2 /\ c \in Int
      BY <1>1, <3>1 DEF Held, TakesUp
    <3>3. QED
      BY <1>0, <3>1, <3>2 DEF OneHolder
  <2>6. DistinctLists'
    <3>1. Distinct(todo)'
      BY <1>0, <1>1, <2>1, <2>5 DEF DistinctLists, TakesUp, Distinct
    <3>2. \A d \in 1 .. Len(conn') : Distinct(conn'[d].wait_cb)
      <4>1. Distinct(Freed.wait_cb)
        BY DEF Freed, Distinct
      <4>2. QED
        BY <1>0, <2>1, <4>1 DEF DistinctLists
    <3>3. QED
      BY <1>0, <3>1, <3>2 DEF DistinctLists, Distinct
  <2>7. /\ \A q : ~ In(q, conn'[c].wait_cb)
        /\ \A q : \A d \in 1 .. Len(conn) : d # c => (In(q, conn'[d].wait_cb) <=> In(q, conn[d].wait_cb))
    BY <2>1 DEF Freed, In
  <2>8. ASSUME NEW q \in Request, q # r PROVE OneHolder(q)'
    <3>1. answers'[q] = answers[q] /\ (In(q, todo') <=> In(q, conn[c].wait_cb) \/ In(q, todo))
      BY <1>0, <2>1, <2>2, <2>8 DEF TakesUp, TypeOK
    <3>2. \A k \in Int : Held(k, q)' <=> \/ k = -2 /\ (Held(-2, q) \/ Held(c, q))
                                         \/ k # -2 /\ k # c /\ Held(k, q)
      BY <1>1, <1>4, <2>1, <2>7, <3>1 DEF Held
    <3>3. QED
      <4>1. c \in Int /\ c # -2 /\ (q \in issued' <=> q \in issued) /\ OneHolder(q)
        BY <1>0, <1>1, <2>8
      <4>2. QED
        BY <3>1, <3>2, <4>1, HolderMoved
  <2>9. OneHolder(r)'
    <3>2. ~ In(r, todo') /\ \A d \in 1 .. Len(conn) : ~ In(r, conn'[d].wait_cb)
      BY <1>1, <1>2, <2>1, <2>7 DEF TakesUp
    <3>3. \A k \in Int : ~ Held(k, r)'
      BY <1>2, <1>4, <2>1, <3>2 DEF Held, NoConn
    <3>4. r \in issued'
      BY <1>0
    <3>5. QED
      BY <2>2, <3>3, <3>4, HolderGone
  <2>10. QED
    BY <2>1, <2>3, <2>4, <2>6, <2>8, <2>9 DEF IInv
<1>5. QED
  BY <1>3, <1>4 DEF Call

\* get_chunk: the request is pending, waits, or is called.
LEMMA GetChunkStep ==
  ASSUME NEW r \in Chunk, NEW rest, TakesUp(r, rest), GetChunk(r, rest), UNCHANGED connecting
  PROVE  IInv'
<1>0. /\ TypeOK /\ CacheOK /\ RefcountOK /\ DistinctLists /\ \A q \in Request : OneHolder(q)
      /\ status' = "up" /\ rest \in Seq(Chunk) /\ issued' = issued \cup {r} /\ r \in Request
      /\ pending \in Seq(Chunk)
  BY DEF TakesUp, IInv, Request, TypeOK
<1>1. /\ rpc[r] = NoConn /\ ~ In(r, pending) /\ r \notin connecting
      /\ \A d \in 1 .. Len(conn) : ~ In(r, conn[d].wait_cb)
  BY <1>0, TakesUpAlone
<1>2. cache # <<>> => IsCached(Head(cache)) /\ Head(cache) \in 1 .. Len(conn)
  <2> SUFFICES ASSUME cache # <<>> PROVE IsCached(Head(cache)) /\ Head(cache) \in 1 .. Len(conn)
    OBVIOUS
  <2>1. cache \in Seq(1 .. Len(conn))
    BY <1>0, EntryTypes
  <2>2. In(Head(cache), cache)
    BY <2>1, NobodyIn
  <2>3. QED
    BY <1>0, <2>2, EntryTypes
<1>3. CASE /\ cache = <<>> /\ GetConnection(r) /\ todo' = rest /\ UNCHANGED <<conn, cache, rpc, answers>>
  <2>1. /\ pending' \in Seq(Chunk) /\ pending' # <<>>
        /\ \A q : In(q, pending') <=> In(q, pending) \/ q = r
        /\ Distinct(pending')
    <3>1. pending' = Append(pending, r) /\ Distinct(pending)
      BY <1>0, <1>3 DEF GetConnection, DistinctLists
    <3>2. QED
      BY <1>0, <1>1, <3>1, InAppend
  <2>2. dials' = 1
    <3>1. dials = IF pending = <<>> THEN 0 ELSE 1
      BY <1>0 DEF TypeOK
    <3>2. QED
      BY <1>3, <3>1 DEF GetConnection
  <2>3. TypeOK'
    BY <1>0, <1>3, <2>1, <2>2 DEF TypeOK
  <2>4. CacheOK' /\ RefcountOK'
    <3>1. CacheOK'
      BY <1>0, <1>3 DEF CacheOK, IsCached
    <3>2. RefcountOK'
      BY <1>0, <1>3 DEF RefcountOK, Accounted, IsCached, InFlight
    <3>3. QED
      BY <3>1, <3>2
  <2>5. DistinctLists'
    BY <1>0, <1>3, <2>1 DEF DistinctLists, TakesUp, Distinct
  <2>6. ASSUME NEW q \in Request, q # r PROVE OneHolder(q)'
    <3>1. (In(q, todo') <=> In(q, todo)) /\ (In(q, pending') <=> In(q, pending))
      BY <1>3, <2>1, <2>6 DEF TakesUp
    <3>2. \A k \in Int : Held(k, q)' <=> Held(k, q)
      BY <1>3, <3>1 DEF Held
    <3>3. QED
      BY <1>0, <1>3, <2>6, <3>2, HolderKept
  <2>7. OneHolder(r)'
    <3>1. \A k \in Int : Held(k, r)' <=> k = -1
      BY <1>1, <1>3, <2>1 DEF Held, TakesUp
    <3>2. answers'[r] = 0 /\ r \in issued' /\ r \in Request /\ -1 \in Int
      BY <1>0, <1>3 DEF TakesUp
    <3>3. QED
      BY <3>1, <3>2, HolderPlaced
  <2>8. QED
    BY <2>3, <2>4, <2>5, <2>6, <2>7 DEF IInv
<1>4. CASE /\ cache # <<>>
           /\ conn' = [conn EXCEPT ![Head(cache)].wait_cb = Append(@, r)]
           /\ todo' = rest /\ UNCHANGED <<cache, pending, dials, rpc, answers>>
  <2> PICK c \in 1 .. Len(conn) : c = Head(cache)
    BY <1>2, <1>4
  <2> DEFINE e == [conn[c] EXCEPT !.wait_cb = Append(conn[c].wait_cb, r)]
  <2>0. c \in 1 .. Len(conn) /\ IsCached(c)
    BY <1>2, <1>4
  <2>1. conn' = [conn EXCEPT ![c] = e]
    BY <1>4
  <2>2. conn[c] \in ConnEntry /\ conn[c].wait_cb \in Seq(Chunk) /\ Len(conn) \in Nat
    BY <1>0, <2>0, EntryTypes
  <2>3. /\ Append(conn[c].wait_cb, r) \in Seq(Chunk)
        /\ \A q : In(q, Append(conn[c].wait_cb, r)) <=> In(q, conn[c].wait_cb) \/ q = r
        /\ Distinct(Append(conn[c].wait_cb, r))
    BY <1>0, <1>1, <2>0, <2>2, InAppend DEF DistinctLists
  <2>4. /\ e \in ConnEntry /\ e.refcount = conn[c].refcount /\ e.opened = conn[c].opened
        /\ e.leaked = conn[c].leaked /\ e.wait_cb = Append(conn[c].wait_cb, r)
    BY <2>2, <2>3 DEF ConnEntry
  <2> HIDE DEF e
  <2>5. /\ conn' \in Seq(ConnEntry) /\ Len(conn') = Len(conn) /\ conn'[c] = e
        /\ \A d \in 1 .. Len(conn) : d # c => conn'[d] = conn[d]
    BY <1>0, <2>0, <2>1, <2>4, ConnUpdate
  <2>6. TypeOK'
    BY <1>0, <1>4, <2>5 DEF TypeOK
  <2>7. \A d : IsCached(d)' <=> IsCached(d)
    BY <1>4 DEF IsCached
  <2>8. CacheOK'
    BY <1>0, <1>4, <2>0, <2>4, <2>5, <2>7 DEF CacheOK, Distinct
  <2>9. RefcountOK'
    <3>1. Accounted(c)
      BY <1>0, <2>0 DEF RefcountOK
    <3>2. Accounted(c)'
      BY <1>4, <2>4, <2>5, <3>1 DEF Accounted, InFlight
    <3>3. \A d \in Nat \ {0} : InFlight(d)' = InFlight(d)
      BY <1>4 DEF InFlight
    <3>4. QED
      BY <1>0, <2>5, <2>7, <3>2, <3>3, RefcountStep
  <2>10. DistinctLists'
    <3>1. \A d \in 1 .. Len(conn') : Distinct(conn'[d].wait_cb)
      BY <1>0, <2>3, <2>4, <2>5 DEF DistinctLists
    <3>2. pending' = pending /\ todo' = rest /\ Distinct(pending) /\ Distinct(rest)
      BY <1>0, <1>4 DEF DistinctLists, TakesUp
    <3>3. QED
      BY <3>1, <3>2 DEF DistinctLists, Distinct
  <2>11. \A q : \A d \in 1 .. Len(conn) :
           In(q, conn'[d].wait_cb) <=> In(q, conn[d].wait_cb) \/ (d = c /\ q = r)
    BY <2>3, <2>4, <2>5
  <2>12. ASSUME NEW q \in Request, q # r PROVE OneHolder(q)'
    <3>1. In(q, todo') <=> In(q, todo)
      BY <1>4, <2>12 DEF TakesUp
    <3>2. \A k \in Int : Held(k, q)' <=> Held(k, q)
      BY <1>4, <2>5, <2>11, <2>12, <3>1 DEF Held
    <3>3. QED
      BY <1>0, <1>4, <2>12, <3>2, HolderKept
  <2>13. OneHolder(r)'
    <3>1. \A k \in Int : Held(k, r)' <=> k = c
      BY <1>1, <1>4, <2>0, <2>2, <2>5, <2>11 DEF Held, TakesUp
    <3>2. answers'[r] = 0 /\ r \in issued' /\ c \in Int
      BY <1>4, <2>0, <2>2 DEF TakesUp
    <3>3. QED
      BY <1>0, <3>1, <3>2, HolderPlaced
  <2>14. QED
    BY <2>6, <2>8, <2>9, <2>10, <2>12, <2>13 DEF IInv
<1>5. CASE cache # <<>> /\ Call(r, Head(cache), rest) /\ UNCHANGED <<pending, dials>>
  BY <1>0, <1>2, <1>5, CallStep
<1>6. QED
  BY <1>3, <1>4, <1>5 DEF GetChunk

\* A request that is new is taken up with nothing else to call.
LEMMA NewRequest ==
  ASSUME IInv, NEW r \in Request, Event, r \notin issued, issued' = issued \cup {r}, status' = "up"
  PROVE  TakesUp(r, <<>>)
<1>1. status = "up" /\ todo = <<>> /\ OneHolder(r)
  BY DEF IInv, Event
<1>2. <<>> \in Seq(Chunk) /\ Distinct(<<>>) /\ \A q : ~ In(q, <<>>)
  BY DEF Distinct, In
<1>3. \A k \in Int : ~ Held(k, r)
  BY <1>1 DEF OneHolder
<1>4. answers[r] = 0
  BY <1>1 DEF OneHolder
<1>5. QED
  BY <1>1, <1>2, <1>3, <1>4 DEF TakesUp

\* The next of the callbacks that are still to be called.
LEMMA NextWaiting ==
  ASSUME IInv, status = "up", todo # <<>>, UNCHANGED <<issued, status>>
  PROVE  Head(todo) \in Chunk /\ TakesUp(Head(todo), Tail(todo))
<1> DEFINE r == Head(todo)
<1>1. todo \in Seq(Chunk) /\ Distinct(todo) /\ \A q \in Request : OneHolder(q)
  BY DEF IInv, TypeOK, DistinctLists
<1>2. /\ r \in Chunk /\ Tail(todo) \in Seq(Chunk)
      /\ \A q : In(q, todo) <=> In(q, Tail(todo)) \/ q = r
      /\ Distinct(Tail(todo)) /\ ~ In(r, Tail(todo))
  BY <1>1, InTail
<1> HIDE DEF r
<1>3. r \in Request /\ Held(-2, r) /\ -2 \in Int
  BY <1>2 DEF Request, Held
<1>4. answers[r] = 0 /\ r \in issued /\ \A k \in Int : Held(k, r) => k = -2
  BY <1>1, <1>3 DEF OneHolder
<1>5. TakesUp(r, Tail(todo))
  BY <1>2, <1>4 DEF TakesUp
<1>6. QED
  BY <1>2, <1>5 DEF r

\* The sum that RefcountAccounted is about, when a call ends.
LEMMA SlotGivenBack ==
  ASSUME NEW c, NEW e, Accounted(c), conn'[c] = e,
         e.refcount \in Int, e.leaked \in Nat, e.opened = conn[c].opened,
         conn[c].refcount \in Int, conn[c].leaked \in Nat, conn[c].opened \in Nat,
         e.refcount - e.leaked = conn[c].refcount - conn[c].leaked - 1,
         Cardinality(InFlight(c)) \in Nat,
         Cardinality(InFlight(c)') = Cardinality(InFlight(c)) - 1
  PROVE  Accounted(c)'
<1> DEFINE n == Cardinality(InFlight(c))
           k == Cardinality(InFlight(c)')
<1>1. n \in Int /\ k \in Int /\ k = n - 1
  OBVIOUS
<1>2. conn[c].refcount = n + conn[c].leaked - (conn[c].opened - 1)
  BY DEF Accounted
<1>3. e.leaked \in Int /\ conn[c].leaked \in Int /\ conn[c].opened \in Int
  OBVIOUS
<1> HIDE DEF n, k
<1>4. e.refcount = k + e.leaked - (conn[c].opened - 1)
  BY <1>1, <1>2, <1>3
<1>5. QED
  BY <1>4 DEF Accounted, k

\* A call on c ends: its slot is given back or lost, and the first that waits on c
\* may be taken off the list to be called.
LEMMA ReplyStep ==
  ASSUME IInv, Event, NEW r \in Request, NEW c, rpc[r] = c, IsCached(c), Ends(r),
         NEW e \in ConnEntry, conn' = [conn EXCEPT ![c] = e],
         e.refcount - e.leaked = conn[c].refcount - conn[c].leaked - 1, e.opened = conn[c].opened,
         todo' \in Seq(Chunk), Distinct(e.wait_cb), Distinct(todo'),
         \A q : In(q, conn[c].wait_cb) <=> In(q, e.wait_cb) \/ In(q, todo'),
         \A q : ~ (In(q, e.wait_cb) /\ In(q, todo')),
         UNCHANGED <<cache, pending, dials, connecting, issued, status>>
  PROVE  IInv'
<1>0. /\ TypeOK /\ CacheOK /\ RefcountOK /\ DistinctLists /\ \A q \in Request : OneHolder(q)
      /\ status = "up" /\ todo = <<>>
  BY DEF Event, IInv
<1>1. /\ c \in 1 .. Len(conn) /\ Len(conn) \in Nat /\ c \in Nat \ {0} /\ c \in Int /\ c # NoConn
      /\ conn[c].refcount \in Int /\ conn[c].leaked \in Nat /\ conn[c].opened \in Nat
      /\ cache \in Seq(1 .. Len(conn))
  BY <1>0, EntryTypes DEF NoConn
<1>2. /\ conn' \in Seq(ConnEntry) /\ Len(conn') = Len(conn) /\ conn'[c] = e
      /\ \A d \in 1 .. Len(conn) : d # c => conn'[d] = conn[d]
  BY <1>0, <1>1, ConnUpdate
<1>3. /\ rpc' = [rpc EXCEPT ![r] = NoConn] /\ answers' = [answers EXCEPT ![r] = @ + 1]
      /\ rpc \in [Request -> 0 .. Len(conn)] /\ answers \in [Request -> Nat]
  BY <1>0 DEF Ends, Answer, TypeOK
<1>4. Held(-4, r) /\ answers[r] = 0 /\ r \in issued
  <2>1. Held(-4, r) /\ -4 \in Int
    BY <1>1 DEF Held
  <2>2. QED
    BY <1>0, <2>1 DEF OneHolder
<1>5. TypeOK'
  <2>1. rpc' \in [Request -> 0 .. Len(conn)] /\ answers' \in [Request -> Nat]
    BY <1>1, <1>3 DEF NoConn
  <2>2. QED
    BY <1>0, <1>2, <2>1 DEF TypeOK
<1>6. \A d : IsCached(d)' <=> IsCached(d)
  BY DEF IsCached
<1>7. CacheOK'
  BY <1>0, <1>1, <1>2, <1>6 DEF CacheOK, Distinct
<1>8. RefcountOK'
  <2>1. /\ Cardinality(InFlight(c)') = Cardinality(InFlight(c)) - 1
        /\ Cardinality(InFlight(c)) \in Nat
        /\ \A d \in Nat \ {0} : d # c => InFlight(d)' = InFlight(d)
    BY <1>0, <1>1, <1>3, CallEnded
  <2>2. e.refcount \in Int /\ e.leaked \in Nat
    BY DEF ConnEntry
  <2>3. Accounted(c)
    BY <1>0, <1>1 DEF RefcountOK
  <2>5. Accounted(c)'
    BY <1>1, <1>2, <2>1, <2>2, <2>3, SlotGivenBack
  <2>6. QED
    BY <1>0, <1>2, <1>6, <2>1, <2>5, RefcountStep
<1>9. DistinctLists'
  <2>1. \A d \in 1 .. Len(conn') : Distinct(conn'[d].wait_cb)
    BY <1>0, <1>2 DEF DistinctLists
  <2>2. QED
    BY <1>0, <2>1 DEF DistinctLists, Distinct
<1>10. ~ In(r, todo) /\ \A q : ~ In(q, todo)
  BY <1>0 DEF In
<1>11. ASSUME NEW q \in Request, q # r PROVE OneHolder(q)'
  <2>1. rpc'[q] = rpc[q] /\ answers'[q] = answers[q]
    BY <1>3, <1>11
  <2>2. \A k \in Int : k # c /\ k # -2 => (Held(k, q)' <=> Held(k, q))
    BY <1>2, <2>1 DEF Held
  <2>3. /\ Held(c, q)' <=> In(q, e.wait_cb)
        /\ Held(-2, q)' <=> In(q, todo')
        /\ Held(c, q) <=> In(q, conn[c].wait_cb)
        /\ ~ Held(-2, q)
    BY <1>1, <1>2, <1>10 DEF Held
  <2>4. c # -2 /\ -2 \in Int
    BY <1>1
  <2>5. QED
    BY <1>0, <1>1, <2>1, <2>2, <2>3, <2>4, HolderSplit
<1>12. OneHolder(r)'
  <2>1. \A k \in Int : k # -4 => ~ Held(k, r)
    BY <1>0, <1>4 DEF OneHolder
  <2>2. ~ Held(c, r) /\ ~ Held(-1, r) /\ ~ Held(-3, r) /\ \A d \in 1 .. Len(conn) : ~ Held(d, r)
    BY <1>1, <2>1
  <2>3. ~ In(r, conn[c].wait_cb) /\ \A d \in 1 .. Len(conn) : ~ In(r, conn[d].wait_cb)
    BY <1>1, <2>2 DEF Held
  <2>4. ~ In(r, todo') /\ \A d \in 1 .. Len(conn) : ~ In(r, conn'[d].wait_cb)
    BY <1>1, <1>2, <2>3
  <2>5. rpc'[r] = NoConn /\ answers'[r] = 1
    BY <1>3, <1>4
  <2>6. \A k \in Int : ~ Held(k, r)'
    BY <1>2, <2>2, <2>4, <2>5 DEF Held
  <2>7. QED
    BY <1>4, <2>5, <2>6, HolderGone
<1>13. QED
  BY <1>0, <1>5, <1>7, <1>8, <1>9, <1>11, <1>12 DEF IInv

\* get_chunk_internal_cb with the whole chunk, through check_outstanding.
LEMMA ChunkReplyStep ==
  ASSUME IInv, NEW r \in Request, ChunkReply(r)
  PROVE  IInv'
<1>0. /\ TypeOK /\ DistinctLists /\ Event
      /\ UNCHANGED <<cache, pending, dials, connecting, issued, status>>
  BY DEF ChunkReply, Event, IInv
<1> PICK c : c = rpc[r]
  OBVIOUS
<1>1. IsCached(c) /\ Ends(r) /\ CheckOutstanding(c)
  BY DEF ChunkReply
<1>2. /\ c \in 1 .. Len(conn) /\ conn[c] \in ConnEntry /\ conn[c].wait_cb \in Seq(Chunk)
      /\ conn[c].refcount \in Int /\ conn[c].leaked \in Nat
  BY <1>0, <1>1, EntryTypes
<1>3. conn[c].refcount - 1 \in Int
  BY <1>2
<1>4. CASE conn[c].wait_cb = <<>>
  <2> DEFINE e == [conn[c] EXCEPT !.refcount = conn[c].refcount - 1]
  <2>1. conn' = [conn EXCEPT ![c] = e] /\ todo' = <<>>
    BY <1>1, <1>4 DEF CheckOutstanding
  <2>2. /\ e \in ConnEntry /\ e.refcount = conn[c].refcount - 1 /\ e.wait_cb = conn[c].wait_cb
        /\ e.opened = conn[c].opened /\ e.leaked = conn[c].leaked
    BY <1>2, <1>3 DEF ConnEntry
  <2> HIDE DEF e
  <2>3. e.refcount - e.leaked = conn[c].refcount - conn[c].leaked - 1
    BY <1>2, <2>2
  <2>4. /\ todo' \in Seq(Chunk) /\ Distinct(e.wait_cb) /\ Distinct(todo')
        /\ \A q : ~ In(q, e.wait_cb) /\ ~ In(q, todo') /\ ~ In(q, conn[c].wait_cb)
    BY <1>4, <2>1, <2>2 DEF Distinct, In
  <2>5. QED
    BY <1>0, <1>1, <2>1, <2>2, <2>3, <2>4, ReplyStep
<1>5. CASE conn[c].wait_cb # <<>>
  <2> DEFINE e == [conn[c] EXCEPT !.refcount = conn[c].refcount - 1, !.wait_cb = Tail(conn[c].wait_cb)]
  <2>1. conn' = [conn EXCEPT ![c] = e] /\ todo' = <<Head(conn[c].wait_cb)>>
    BY <1>1, <1>5 DEF CheckOutstanding
  <2>2. /\ Tail(conn[c].wait_cb) \in Seq(Chunk) /\ Head(conn[c].wait_cb) \in Chunk
        /\ \A q : In(q, conn[c].wait_cb) <=> In(q, Tail(conn[c].wait_cb)) \/ q = Head(conn[c].wait_cb)
        /\ Distinct(Tail(conn[c].wait_cb)) /\ ~ In(Head(conn[c].wait_cb), Tail(conn[c].wait_cb))
    BY <1>0, <1>2, <1>5, InTail DEF DistinctLists
  <2>3. /\ e \in ConnEntry /\ e.refcount = conn[c].refcount - 1 /\ e.wait_cb = Tail(conn[c].wait_cb)
        /\ e.opened = conn[c].opened /\ e.leaked = conn[c].leaked
    BY <1>2, <1>3, <2>2 DEF ConnEntry
  <2> HIDE DEF e
  <2>4. e.refcount - e.leaked = conn[c].refcount - conn[c].leaked - 1
    BY <1>2, <2>3
  <2>5. /\ todo' \in Seq(Chunk) /\ Distinct(todo')
        /\ \A q : In(q, todo') <=> q = Head(conn[c].wait_cb)
    BY <2>1, <2>2, ShortLists
  <2>6. QED
    BY <1>0, <1>1, <2>1, <2>2, <2>3, <2>4, <2>5, ReplyStep
<1>6. QED
  BY <1>4, <1>5

\* The other ends of a call leave the waiting list alone.
LEMMA OtherReplyStep ==
  ASSUME IInv, NEW r \in Request, DirectReply(r) \/ ErrorReply(r)
  PROVE  IInv'
<1>0. /\ TypeOK /\ DistinctLists /\ Event
      /\ UNCHANGED <<cache, pending, dials, connecting, issued, status>>
      /\ todo' = <<>>
  BY DEF DirectReply, ErrorReply, Event, IInv
<1> PICK c : c = rpc[r]
  OBVIOUS
<1>1. IsCached(c) /\ Ends(r)
  BY DEF DirectReply, ErrorReply
<1>2. /\ c \in 1 .. Len(conn) /\ conn[c] \in ConnEntry /\ conn[c].wait_cb \in Seq(Chunk)
      /\ conn[c].refcount \in Int /\ conn[c].leaked \in Nat
  BY <1>0, <1>1, EntryTypes
<1>3. PICK e \in ConnEntry :
        /\ conn' = [conn EXCEPT ![c] = e]
        /\ e.wait_cb = conn[c].wait_cb /\ e.opened = conn[c].opened
        /\ e.refcount - e.leaked = conn[c].refcount - conn[c].leaked - 1
  <2>1. CASE conn' = [conn EXCEPT ![c].refcount = @ - 1]
    <3> DEFINE e == [conn[c] EXCEPT !.refcount = conn[c].refcount - 1]
    <3>0. conn[c].refcount - 1 \in Int
      BY <1>2
    <3>1. /\ e \in ConnEntry /\ e.refcount = conn[c].refcount - 1 /\ e.wait_cb = conn[c].wait_cb
          /\ e.opened = conn[c].opened /\ e.leaked = conn[c].leaked
      BY <1>2, <3>0 DEF ConnEntry
    <3>2. conn' = [conn EXCEPT ![c] = e]
      BY <2>1
    <3> HIDE DEF e
    <3>3. e.refcount - e.leaked = conn[c].refcount - conn[c].leaked - 1
      BY <1>2, <3>1
    <3>4. QED
      BY <3>1, <3>2, <3>3
  <2>2. CASE conn' = [conn EXCEPT ![c].leaked = @ + 1]
    <3> DEFINE e == [conn[c] EXCEPT !.leaked = conn[c].leaked + 1]
    <3>0. conn[c].leaked + 1 \in Nat
      BY <1>2
    <3>1. /\ e \in ConnEntry /\ e.refcount = conn[c].refcount /\ e.wait_cb = conn[c].wait_cb
          /\ e.opened = conn[c].opened /\ e.leaked = conn[c].leaked + 1
      BY <1>2, <3>0 DEF ConnEntry
    <3>2. conn' = [conn EXCEPT ![c] = e]
      BY <2>2
    <3> HIDE DEF e
    <3>3. e.refcount - e.leaked = conn[c].refcount - conn[c].leaked - 1
      BY <1>2, <3>1
    <3>4. QED
      BY <3>1, <3>2, <3>3
  <2>3. QED
    BY <2>1, <2>2 DEF DirectReply, ErrorReply
<1>4. /\ todo' \in Seq(Chunk) /\ Distinct(todo') /\ \A q : ~ In(q, todo')
  BY <1>0 DEF Distinct, In
<1>5. Distinct(e.wait_cb)
  BY <1>0, <1>2, <1>3 DEF DistinctLists
<1>6. QED
  BY <1>0, <1>1, <1>3, <1>4, <1>5, ReplyStep

\* An entry is deleted, with the call on it if there is one.
LEMMA DeleteStep ==
  ASSUME IInv, Event, NEW c, IsCached(c), DeleteConn(c, <<>>),
         NEW R, R \subseteq InFlight(c), \A q, r \in R : q = r,
         rpc' = [q \in Request |-> IF q \in R THEN NoConn ELSE rpc[q]],
         answers' = [q \in Request |-> IF q \in R THEN answers[q] + 1 ELSE answers[q]],
         UNCHANGED <<pending, dials, connecting, issued, status>>
  PROVE  IInv'
<1>0. /\ TypeOK /\ CacheOK /\ RefcountOK /\ DistinctLists /\ \A q \in Request : OneHolder(q)
      /\ status = "up" /\ todo = <<>>
  BY DEF Event, IInv
<1>1. /\ c \in 1 .. Len(conn) /\ Len(conn) \in Nat /\ c \in Nat \ {0} /\ c \in Int /\ c # NoConn /\ c # -2
  BY <1>0, EntryTypes DEF NoConn
<1>2. <<>> \in Seq(Chunk) /\ Distinct(<<>>) /\ \A q : ~ In(q, <<>>)
  BY DEF Distinct, In
<1>3. /\ conn' \in Seq(ConnEntry) /\ Len(conn') = Len(conn) /\ conn'[c] = Freed
      /\ \A d \in 1 .. Len(conn) : d # c => conn'[d] = conn[d]
      /\ cache' \in Seq(1 .. Len(conn))
      /\ \A d : IsCached(d)' <=> IsCached(d) /\ d # c
      /\ CacheOK' /\ todo' \in Seq(Chunk)
      /\ \A q : In(q, todo') <=> In(q, conn[c].wait_cb)
      /\ Distinct(conn[c].wait_cb) => Distinct(todo')
  BY <1>0, <1>1, <1>2, DeleteEffect
<1>4. TypeOK'
  <2>1. rpc' \in [Request -> 0 .. Len(conn)] /\ answers' \in [Request -> Nat]
    BY <1>0, <1>1 DEF TypeOK, NoConn
  <2>2. QED
    BY <1>0, <1>3, <2>1 DEF TypeOK
<1>5. RefcountOK'
  <2>1. \A d \in Nat \ {0} : d # c => InFlight(d)' = InFlight(d)
    BY DEF InFlight, NoConn
  <2>2. QED
    BY <1>0, <1>3, <2>1, RefcountStep
<1>6. DistinctLists'
  <2>1. Distinct(Freed.wait_cb)
    BY DEF Freed, Distinct
  <2>2. \A d \in 1 .. Len(conn') : Distinct(conn'[d].wait_cb)
    BY <1>0, <1>3, <2>1 DEF DistinctLists
  <2>3. Distinct(todo')
    BY <1>0, <1>1, <1>3 DEF DistinctLists
  <2>4. QED
    BY <1>0, <2>2, <2>3 DEF DistinctLists, Distinct
<1>7. /\ \A q : ~ In(q, conn'[c].wait_cb)
      /\ \A q : \A d \in 1 .. Len(conn) : d # c => (In(q, conn'[d].wait_cb) <=> In(q, conn[d].wait_cb))
  BY <1>3 DEF Freed, In
<1>8. \A q : ~ In(q, todo)
  BY <1>0, <1>2
<1>9. ASSUME NEW q \in Request, q \notin R PROVE OneHolder(q)'
  <2>1. rpc'[q] = rpc[q] /\ answers'[q] = answers[q]
    BY <1>9
  <2>2. \A k \in Int : Held(k, q)' <=> \/ k = -2 /\ (Held(-2, q) \/ Held(c, q))
                                       \/ k # -2 /\ k # c /\ Held(k, q)
    BY <1>1, <1>3, <1>7, <1>8, <2>1 DEF Held
  <2>3. OneHolder(q) /\ -2 \in Int
    BY <1>0
  <2>4. QED
    BY <1>1, <2>1, <2>2, <2>3, HolderMoved
<1>10. ASSUME NEW q \in R PROVE q \in Request /\ OneHolder(q)'
  <2>1. q \in Request /\ rpc[q] = c
    BY DEF InFlight
  <2>2. Held(-4, q) /\ -4 \in Int
    BY <1>1, <2>1 DEF Held
  <2>3. answers[q] = 0 /\ q \in issued /\ \A k \in Int : k # -4 => ~ Held(k, q)
    BY <1>0, <2>1, <2>2 DEF OneHolder
  <2>4. ~ Held(-1, q) /\ ~ Held(-3, q) /\ \A d \in 1 .. Len(conn) : ~ Held(d, q)
    BY <1>1, <2>3
  <2>5. \A d \in 1 .. Len(conn) : ~ In(q, conn[d].wait_cb)
    BY <2>4 DEF Held
  <2>6. ~ In(q, todo') /\ \A d \in 1 .. Len(conn) : ~ In(q, conn'[d].wait_cb)
    BY <1>1, <1>3, <1>7, <2>5
  <2>7. rpc'[q] = NoConn /\ answers'[q] = 1
    BY <2>1, <2>3
  <2>8. \A k \in Int : ~ Held(k, q)'
    BY <1>3, <2>4, <2>6, <2>7 DEF Held
  <2>9. QED
    BY <2>1, <2>3, <2>7, <2>8, HolderGone
<1>11. QED
  BY <1>0, <1>3, <1>4, <1>5, <1>6, <1>9, <1>10 DEF IInv

\* A connection is made, and the n requests R call on it.
LEMMA OpenStep ==
  ASSUME IInv, Event, NEW n \in Nat, n >= 1, OpenConn(n), NEW R \in SUBSET Request, Cardinality(R) = n,
         rpc' = [q \in Request |-> IF q \in R THEN Len(conn) + 1 ELSE rpc[q]],
         pending' \in Seq(Chunk), Distinct(pending'), dials' = IF pending' = <<>> THEN 0 ELSE 1,
         connecting' \subseteq Desc \cup Bitmap,
         \A q \in R : Held(-1, q) \/ Held(-3, q),
         \A q \in R : ~ In(q, pending') /\ q \notin connecting',
         \A q \in Request : q \notin R => /\ In(q, pending') <=> In(q, pending)
                                          /\ q \in connecting' <=> q \in connecting,
         UNCHANGED <<todo, issued, answers, status>>
  PROVE  IInv'
<1>0. /\ TypeOK /\ CacheOK /\ RefcountOK /\ DistinctLists /\ \A q \in Request : OneHolder(q)
      /\ status = "up" /\ todo = <<>>
  BY DEF Event, IInv
<1> PICK c : c = Len(conn) + 1
  OBVIOUS
<1>1. /\ conn' \in Seq(ConnEntry) /\ Len(conn') = c /\ Len(conn) \in Nat
      /\ conn'[c] = NewConn(n)
      /\ \A d \in 1 .. Len(conn) : conn'[d] = conn[d]
      /\ cache' \in Seq(1 .. Len(conn'))
      /\ \A d : IsCached(d)' <=> IsCached(d) \/ d = c
      /\ Distinct(cache')
  BY <1>0, ConnMade DEF CacheOK, Distinct
<1>2. /\ NewConn(n).refcount = 1 /\ NewConn(n).wait_cb = <<>> /\ NewConn(n).opened = n
      /\ NewConn(n).leaked = 0
  BY DEF NewConn
<1>3. \A d : d \in 1 .. Len(conn') <=> d \in 1 .. Len(conn) \/ d = c
  BY <1>1
<1>4. ASSUME NEW q \in R
      PROVE  /\ q \in Request /\ rpc[q] = NoConn /\ answers[q] = 0 /\ q \in issued
             /\ \A d \in 1 .. Len(conn) : ~ In(q, conn[d].wait_cb)
  <2>1. PICK k \in {-1, -3} : Held(k, q)
    OBVIOUS
  <2>2. q \in Request /\ OneHolder(q) /\ k \in Int
    BY <1>0, <2>1
  <2>3. answers[q] = 0 /\ q \in issued /\ \A l \in Int : Held(l, q) => l = k
    BY <2>1, <2>2 DEF OneHolder
  <2>4. ~ Held(-4, q) /\ \A d \in 1 .. Len(conn) : ~ Held(d, q)
    BY <1>1, <2>1, <2>3
  <2>5. QED
    BY <2>2, <2>3, <2>4 DEF Held
<1>5. TypeOK'
  <2>1. rpc' \in [Request -> 0 .. c]
    <3>1. rpc \in [Request -> 0 .. Len(conn)]
      BY <1>0 DEF TypeOK
    <3>2. c \in 0 .. c /\ 0 .. Len(conn) \subseteq 0 .. c
      BY <1>1
    <3>3. QED
      BY <3>1, <3>2
  <2>2. QED
    BY <1>0, <1>1, <2>1 DEF TypeOK
<1>6. CacheOK'
  <2>1. ASSUME NEW d \in 1 .. Len(conn')
        PROVE  /\ ~ IsCached(d)' => conn'[d].wait_cb = <<>>
               /\ IsCached(d)' => conn'[d].opened >= 1
    <3>1. CASE d = c
      BY <1>1, <1>2, <3>1
    <3>2. CASE d \in 1 .. Len(conn) /\ d # c
      BY <1>0, <1>1, <3>2 DEF CacheOK
    <3>3. QED
      BY <1>3, <3>1, <3>2
  <2>2. QED
    BY <1>1, <2>1 DEF CacheOK, Distinct
<1>7. RefcountOK'
  <2>1. InFlight(c)' = R
    <3>1. \A q \in Request : rpc[q] # c
      BY <1>0, <1>1 DEF TypeOK
    <3>2. QED
      BY <3>1 DEF InFlight
  <2>2. Accounted(c)'
    <3>1. Cardinality(InFlight(c)') = n /\ conn'[c].refcount = 1 /\ conn'[c].leaked = 0
          /\ conn'[c].opened = n
      BY <1>1, <1>2, <2>1
    <3>2. QED
      BY <3>1 DEF Accounted
  <2>3. ASSUME NEW d \in 1 .. Len(conn), IsCached(d)' PROVE Accounted(d)'
    <3>1. d # c /\ d # NoConn /\ IsCached(d) /\ Accounted(d)
      BY <1>0, <1>1, <2>3 DEF RefcountOK, NoConn
    <3>2. InFlight(d)' = InFlight(d)
      BY <1>4, <3>1 DEF InFlight
    <3>3. conn'[d] = conn[d]
      BY <1>1
    <3>4. QED
      BY <3>1, <3>2, <3>3 DEF Accounted
  <2>4. QED
    BY <1>3, <2>2, <2>3 DEF RefcountOK
<1>8. DistinctLists'
  <2>1. \A d \in 1 .. Len(conn') : Distinct(conn'[d].wait_cb)
    <3>1. Distinct(conn'[c].wait_cb)
      BY <1>1, <1>2 DEF Distinct
    <3>2. QED
      BY <1>0, <1>1, <1>3, <3>1 DEF DistinctLists
  <2>2. QED
    BY <1>0, <2>1 DEF DistinctLists, Distinct
<1>9. \A q : ~ In(q, conn'[c].wait_cb) /\ ~ In(q, todo')
  BY <1>0, <1>1, <1>2 DEF In
<1>10. ASSUME NEW q \in Request, q \notin R PROVE OneHolder(q)'
  <2>1. rpc'[q] = rpc[q] /\ (In(q, todo') <=> In(q, todo))
    BY <1>10 DEF In
  <2>2. \A k \in Int : Held(k, q)' <=> Held(k, q)
    BY <1>1, <1>3, <1>9, <1>10, <2>1 DEF Held
  <2>3. QED
    BY <1>0, <1>10, <2>2, HolderKept
<1>11. ASSUME NEW q \in R PROVE q \in Request /\ OneHolder(q)'
  <2>1. q \in Request /\ q \in issued' /\ answers'[q] = 0 /\ rpc'[q] # NoConn
    BY <1>1, <1>4 DEF NoConn
  <2>2. \A d \in 1 .. Len(conn') : ~ In(q, conn'[d].wait_cb)
    BY <1>1, <1>3, <1>4, <1>9
  <2>3. \A k \in Int : Held(k, q)' <=> k = -4
    BY <1>9, <2>1, <2>2 DEF Held
  <2>4. -4 \in Int
    OBVIOUS
  <2>5. QED
    BY <2>1, <2>3, <2>4, HolderPlaced
<1>12. QED
  BY <1>0, <1>5, <1>6, <1>7, <1>8, <1>10, <1>11 DEF IInv

\* establish_connection: all that is pending calls on the new connection.
LEMMA EstablishStep ==
  ASSUME IInv, EstablishConnection
  PROVE  IInv'
<1>1. /\ Event /\ pending # <<>> /\ dials > 0 /\ OpenConn(Len(pending)) /\ pending' = <<>>
      /\ dials' = dials - 1 /\ UNCHANGED <<connecting, todo, issued, answers, status>>
  BY DEF EstablishConnection
<1>2. /\ pending \in Seq(Chunk) /\ Distinct(pending) /\ dials = 1
      /\ connecting \subseteq Desc \cup Bitmap /\ \A q \in Request : OneHolder(q)
  <2>1. status = "up"
    BY <1>1 DEF Event
  <2>2. dials = IF pending = <<>> THEN 0 ELSE 1
    BY DEF IInv, TypeOK
  <2>3. QED
    BY <1>1, <2>1, <2>2 DEF IInv, TypeOK, DistinctLists
<1> DEFINE R == {q \in Request : In(q, pending)}
<1>3. \A q : q \in R <=> In(q, pending)
  BY <1>2, NobodyIn DEF Request
<1>4. Cardinality(R) = Len(pending) /\ Len(pending) \in Nat /\ Len(pending) >= 1
  <2>1. Cardinality(R) = Len(pending)
    BY <1>2, <1>3, CountDistinct
  <2>2. Len(pending) \in Nat \ {0}
    BY <1>1, <1>2, EmptySeq
  <2>3. QED
    BY <2>1, <2>2
<1>5. rpc' = [q \in Request |-> IF q \in R THEN Len(conn) + 1 ELSE rpc[q]]
  BY DEF EstablishConnection, In
<1>6. R \in SUBSET Request /\ \A q \in R : Held(-1, q)
  BY DEF Held
<1>7. pending' \in Seq(Chunk) /\ Distinct(pending') /\ \A q : ~ In(q, pending')
  BY <1>1 DEF Distinct, In
<1>8. dials' = IF pending' = <<>> THEN 0 ELSE 1
  BY <1>1, <1>2
<1>9. \A q \in R : q \notin connecting'
  <2> SUFFICES ASSUME NEW q \in R, q \in connecting PROVE FALSE
    BY <1>1
  <2>1. Held(-1, q) /\ Held(-3, q) /\ -1 \in Int /\ -3 \in Int /\ OneHolder(q)
    BY <1>2, <1>6 DEF Held
  <2>2. QED
    BY <2>1 DEF OneHolder
<1> HIDE DEF R
<1>10. \A q \in Request : q \notin R => (In(q, pending') <=> In(q, pending))
  BY <1>3, <1>7
<1>11. QED
  BY <1>1, <1>2, <1>4, <1>5, <1>6, <1>7, <1>8, <1>9, <1>10, OpenStep

\* get_descriptors_clnt and get_bitmap_clnt.
LEMMA DirectConnectStep ==
  ASSUME IInv, NEW r \in (Desc \cup Bitmap) \cap connecting, DirectConnect(r)
  PROVE  IInv'
<1>0. /\ Event /\ connecting' = connecting \ {r} /\ UNCHANGED <<pending, dials, todo, issued, status>>
      /\ r \in Request /\ r \in connecting
  BY DEF DirectConnect, Request
<1>1. /\ pending \in Seq(Chunk) /\ Distinct(pending) /\ dials = IF pending = <<>> THEN 0 ELSE 1
      /\ connecting \subseteq Desc \cup Bitmap /\ \A q \in Request : OneHolder(q)
      /\ TypeOK /\ CacheOK /\ RefcountOK /\ DistinctLists /\ status = "up"
  BY <1>0 DEF Event, IInv, TypeOK, DistinctLists
<1>2. Held(-3, r) /\ -3 \in Int
  BY <1>0 DEF Held
<1>3. answers[r] = 0 /\ r \in issued /\ \A k \in Int : k # -3 => ~ Held(k, r)
  BY <1>0, <1>1, <1>2 DEF OneHolder
<1>4. ~ Held(-1, r) /\ ~ Held(-2, r) /\ ~ Held(-4, r) /\ \A d \in 1 .. Len(conn) : ~ Held(d, r)
  BY <1>1, <1>3, EntryTypes
<1>5. CASE OpenConn(1) /\ rpc' = [rpc EXCEPT ![r] = Len(conn) + 1] /\ UNCHANGED answers
  <2> DEFINE R == {r}
  <2>1. Cardinality(R) = 1 /\ R \in SUBSET Request
    BY <1>0, FS_Singleton
  <2>2. rpc' = [q \in Request |-> IF q \in R THEN Len(conn) + 1 ELSE rpc[q]]
    BY <1>1, <1>5 DEF TypeOK
  <2>3. /\ pending' \in Seq(Chunk) /\ Distinct(pending')
        /\ dials' = IF pending' = <<>> THEN 0 ELSE 1
        /\ connecting' \subseteq Desc \cup Bitmap
    BY <1>0, <1>1
  <2>4. \A q \in R : Held(-3, q) /\ ~ In(q, pending') /\ q \notin connecting'
    BY <1>0, <1>2, <1>4 DEF Held
  <2>5. \A q \in Request : q \notin R => /\ In(q, pending') <=> In(q, pending)
                                         /\ q \in connecting' <=> q \in connecting
    BY <1>0
  <2> HIDE DEF R
  <2>6. UNCHANGED <<todo, issued, answers, status>> /\ OpenConn(1) /\ Event /\ 1 \in Nat /\ 1 >= 1
    BY <1>0, <1>5
  <2>7. QED
    BY <2>1, <2>2, <2>3, <2>4, <2>5, <2>6, OpenStep
<1>6. CASE Answer(r) /\ UNCHANGED <<conn, cache, rpc>>
  <2>1. answers' = [answers EXCEPT ![r] = @ + 1] /\ answers \in [Request -> Nat]
    BY <1>1, <1>6 DEF Answer, TypeOK
  <2>2. answers'[r] = 1 /\ answers' \in [Request -> Nat]
    BY <1>0, <1>3, <2>1
  <2>3. TypeOK' /\ CacheOK' /\ RefcountOK' /\ DistinctLists'
    <3>1. TypeOK'
      BY <1>0, <1>1, <1>6, <2>2 DEF TypeOK
    <3>2. CacheOK' /\ DistinctLists'
      BY <1>0, <1>1, <1>6 DEF CacheOK, DistinctLists, IsCached, Distinct
    <3>3. RefcountOK'
      BY <1>1, <1>6 DEF RefcountOK, Accounted, IsCached, InFlight
    <3>4. QED
      BY <3>1, <3>2, <3>3
  <2>4. ASSUME NEW q \in Request, q # r PROVE OneHolder(q)'
    <3>1. \A k \in Int : Held(k, q)' <=> Held(k, q)
      BY <1>0, <1>6, <2>4 DEF Held
    <3>2. answers'[q] = answers[q]
      BY <2>1, <2>4
    <3>3. QED
      BY <1>0, <1>1, <3>1, <3>2, HolderKept
  <2>5. OneHolder(r)'
    <3>1. \A k \in Int : ~ Held(k, r)'
      BY <1>0, <1>4, <1>6 DEF Held
    <3>2. QED
      BY <1>0, <1>3, <2>2, <3>1, HolderGone
  <2>6. QED
    BY <2>3, <2>4, <2>5 DEF IInv
<1>7. QED
  BY <1>5, <1>6 DEF DirectConnect

\* A connection that breaks.
LEMMA BreakStep ==
  ASSUME IInv, NEW c, ConnectionBreaks(c)
  PROVE  IInv'
<1>0. /\ Event /\ IsCached(c) /\ UNCHANGED <<pending, dials, connecting, issued>>
      /\ TypeOK /\ CacheOK /\ RefcountOK /\ DistinctLists /\ \A q \in Request : OneHolder(q)
      /\ status = "up"
  BY DEF ConnectionBreaks, Event, IInv
<1>1. CASE /\ conn' = [conn EXCEPT ![c].eof = TRUE]
           /\ UNCHANGED <<cache, rpc, todo, answers, status>>
  <2> DEFINE e == [conn[c] EXCEPT !.eof = TRUE]
  <2>1. c \in 1 .. Len(conn) /\ conn[c] \in ConnEntry
    BY <1>0, EntryTypes
  <2>2. /\ e \in ConnEntry /\ e.refcount = conn[c].refcount /\ e.wait_cb = conn[c].wait_cb
        /\ e.opened = conn[c].opened /\ e.leaked = conn[c].leaked
    BY <2>1 DEF ConnEntry
  <2>3. conn' = [conn EXCEPT ![c] = e]
    BY <1>1
  <2> HIDE DEF e
  <2>4. /\ conn' \in Seq(ConnEntry) /\ Len(conn') = Len(conn) /\ conn'[c] = e
        /\ \A d \in 1 .. Len(conn) : d # c => conn'[d] = conn[d]
    BY <1>0, <2>1, <2>2, <2>3, ConnUpdate
  <2>5. \A d \in 1 .. Len(conn) : /\ conn'[d].wait_cb = conn[d].wait_cb
                                  /\ conn'[d].opened = conn[d].opened
    BY <2>2, <2>4
  <2>6. \A d : IsCached(d)' <=> IsCached(d)
    BY <1>1 DEF IsCached
  <2>7. TypeOK' /\ CacheOK' /\ DistinctLists'
    BY <1>0, <1>1, <2>4, <2>5, <2>6 DEF TypeOK, CacheOK, DistinctLists, Distinct
  <2>8. RefcountOK'
    <3>1. Accounted(c)
      BY <1>0, <2>1 DEF RefcountOK
    <3>2. Accounted(c)'
      BY <1>1, <2>2, <2>4, <3>1 DEF Accounted, InFlight
    <3>3. \A d \in Nat \ {0} : InFlight(d)' = InFlight(d)
      BY <1>1 DEF InFlight
    <3>4. QED
      BY <1>0, <2>4, <2>6, <3>2, <3>3, RefcountStep
  <2>9. ASSUME NEW q \in Request PROVE OneHolder(q)'
    <3>1. \A k \in Int : Held(k, q)' <=> Held(k, q)
      BY <1>0, <1>1, <2>4, <2>5 DEF Held
    <3>2. QED
      BY <1>0, <1>1, <3>1, HolderKept
  <2>10. QED
    BY <2>7, <2>8, <2>9 DEF IInv
<1>2. ASSUME NEW r \in InFlight(c), InFlight(c) = {r}, DeleteConn(c, <<>>), Ends(r), UNCHANGED status
      PROVE  IInv'
  <2> DEFINE R == {r}
  <2>1. R \subseteq InFlight(c) /\ \A p, q \in R : p = q
    OBVIOUS
  <2>2. rpc' = [q \in Request |-> IF q \in R THEN NoConn ELSE rpc[q]]
    BY <1>0, <1>2 DEF Ends, TypeOK
  <2>3. answers' = [q \in Request |-> IF q \in R THEN answers[q] + 1 ELSE answers[q]]
    BY <1>0, <1>2 DEF Ends, Answer, TypeOK
  <2> HIDE DEF R
  <2>4. QED
    BY <1>0, <1>2, <2>1, <2>2, <2>3, DeleteStep
<1>3. ASSUME NEW r \in InFlight(c), Answer(r), status' = "undefined", UNCHANGED <<conn, cache, rpc, todo>>
      PROVE  IInv'
  <2>1. answers' \in [Request -> Nat]
    BY <1>0, <1>3 DEF Answer, TypeOK, InFlight
  <2>2. TypeOK' /\ CacheOK' /\ RefcountOK'
    <3>1. TypeOK'
      BY <1>0, <1>3, <2>1 DEF TypeOK
    <3>2. CacheOK'
      BY <1>0, <1>3 DEF CacheOK, IsCached
    <3>3. RefcountOK'
      BY <1>0, <1>3 DEF RefcountOK, Accounted, IsCached, InFlight
    <3>4. QED
      BY <3>1, <3>2, <3>3
  <2>3. QED
    BY <1>3, <2>2 DEF IInv
<1>4. QED
  BY <1>1, <1>2, <1>3 DEF ConnectionBreaks

\* The reaper.
LEMMA ReapStep ==
  ASSUME IInv, NEW c, ReapConnEntry(c)
  PROVE  IInv'
<1>0. /\ Event /\ IsCached(c) /\ DeleteConn(c, <<>>)
      /\ UNCHANGED <<pending, dials, connecting, rpc, issued, answers, status>>
      /\ TypeOK
  BY DEF ReapConnEntry, Event, IInv
<1> DEFINE R == {}
<1>1. /\ rpc' = [q \in Request |-> IF q \in R THEN NoConn ELSE rpc[q]]
      /\ answers' = [q \in Request |-> IF q \in R THEN answers[q] + 1 ELSE answers[q]]
  BY <1>0 DEF TypeOK
<1>2. R \subseteq InFlight(c) /\ \A p, q \in R : p = q
  OBVIOUS
<1> HIDE DEF R
<1>3. QED
  BY <1>0, <1>1, <1>2, DeleteStep

\* The steps after which the process is gone, or its state undefined.
LEMMA DownStep ==
  ASSUME IInv, UNCHANGED <<conn, cache, pending, dials, connecting, rpc, todo>>,
         issued' \subseteq Request, answers' \in [Request -> Nat],
         status' \in {"fatal", "null dereference", "undefined"}
  PROVE  IInv'
<1>1. TypeOK /\ CacheOK /\ RefcountOK
  BY DEF IInv
<1>2. TypeOK'
  BY <1>1 DEF TypeOK
<1>3. CacheOK'
  BY <1>1 DEF CacheOK, IsCached
<1>4. RefcountOK'
  BY <1>1 DEF RefcountOK, Accounted, IsCached, InFlight
<1>5. QED
  BY <1>2, <1>3, <1>4 DEF IInv

-----------------------------------------------------------------------------
(* The invariant holds *)

\* Nobody has asked for anything.
LEMMA InitIInv == Init => IInv
<1> SUFFICES ASSUME Init PROVE IInv
  OBVIOUS
<1>1. /\ conn = <<>> /\ cache = <<>> /\ pending = <<>> /\ todo = <<>> /\ dials = 0 /\ connecting = {}
      /\ rpc = [r \in Request |-> 0] /\ issued = {} /\ answers = [r \in Request |-> 0] /\ status = "up"
  BY DEF Init, NoConn
<1>2. Len(conn) = 0 /\ 1 .. Len(conn) = {} /\ 0 \in 0 .. Len(conn)
  BY <1>1
<1>3. TypeOK
  <2>1. conn \in Seq(ConnEntry) /\ cache \in Seq(1 .. Len(conn)) /\ pending \in Seq(Chunk) /\ todo \in Seq(Chunk)
    BY <1>1
  <2>2. QED
    BY <1>1, <1>2, <2>1 DEF TypeOK
<1>4. Distinct(<<>>) /\ \A q : ~ In(q, <<>>)
  BY DEF Distinct, In
<1>5. CacheOK /\ RefcountOK /\ DistinctLists
  BY <1>1, <1>2, <1>4 DEF CacheOK, RefcountOK, DistinctLists
<1>6. ASSUME NEW r \in Request PROVE OneHolder(r)
  <2>1. \A k \in Int : ~ Held(k, r)
    BY <1>1, <1>2, <1>4 DEF Held, NoConn
  <2>2. QED
    BY <1>1, <2>1 DEF OneHolder
<1>7. QED
  BY <1>3, <1>5, <1>6 DEF IInv

\* get_descriptors and get_bitmap without a cached entry: the request dials.
LEMMA DialStep ==
  ASSUME NEW r \in Desc \cup Bitmap, TakesUp(r, <<>>), todo = <<>>, connecting' = connecting \cup {r},
         UNCHANGED <<conn, cache, rpc, todo, answers, pending, dials>>
  PROVE  IInv'
<1>0. /\ TypeOK /\ CacheOK /\ RefcountOK /\ DistinctLists /\ \A q \in Request : OneHolder(q)
      /\ status' = "up" /\ issued' = issued \cup {r} /\ r \in Request /\ answers[r] = 0
  BY DEF TakesUp, IInv, Request
<1>1. /\ rpc[r] = NoConn /\ ~ In(r, pending) /\ \A d \in 1 .. Len(conn) : ~ In(r, conn[d].wait_cb)
  BY <1>0, TakesUpAlone
<1>2. TypeOK'
  BY <1>0 DEF TypeOK
<1>3. CacheOK' /\ RefcountOK' /\ DistinctLists'
  <2>1. CacheOK'
    BY <1>0 DEF CacheOK, IsCached
  <2>2. RefcountOK'
    BY <1>0 DEF RefcountOK, Accounted, IsCached, InFlight
  <2>3. DistinctLists'
    BY <1>0 DEF DistinctLists
  <2>4. QED
    BY <2>1, <2>2, <2>3
<1>4. ASSUME NEW q \in Request, q # r PROVE OneHolder(q)'
  <2>1. \A k \in Int : Held(k, q)' <=> Held(k, q)
    BY <1>4 DEF Held
  <2>2. QED
    BY <1>0, <1>4, <2>1, HolderKept
<1>5. OneHolder(r)'
  <2>1. ~ In(r, todo)
    BY DEF In
  <2>2. \A k \in Int : Held(k, r)' <=> k = -3
    BY <1>1, <2>1 DEF Held
  <2>3. r \in Request /\ -3 \in Int /\ r \in issued' /\ answers'[r] = 0
    BY <1>0
  <2>4. QED
    BY <2>2, <2>3, HolderPlaced
<1>6. QED
  BY <1>2, <1>3, <1>4, <1>5 DEF IInv

\* get_descriptors and get_bitmap.
LEMMA DirectRequestStep ==
  ASSUME IInv,
         \/ \E r \in Desc : RequestDescriptors(r)
         \/ \E r \in Bitmap : RequestBitmap(r)
  PROVE  IInv'
<1>1. PICK r \in Desc \cup Bitmap : RequestDescriptors(r) \/ RequestBitmap(r)
  OBVIOUS
<1>2. /\ Event /\ r \notin issued /\ issued' = issued \cup {r} /\ UNCHANGED <<pending, dials>>
      /\ r \in Request /\ todo = <<>> /\ status = "up"
  BY <1>1 DEF RequestDescriptors, RequestBitmap, Request, Event
<1>3. status' = "up" => TakesUp(r, <<>>)
  BY <1>2, NewRequest
<1>4. CASE /\ connecting' = connecting \cup {r}
           /\ UNCHANGED <<conn, cache, rpc, todo, answers, status>>
  BY <1>2, <1>3, <1>4, DialStep
<1>5. CASE /\ cache # <<>> /\ Call(r, Head(cache), <<>>) /\ UNCHANGED <<connecting, status>>
  <2>1. cache \in Seq(1 .. Len(conn))
    BY DEF IInv, TypeOK
  <2>2. IsCached(Head(cache))
    BY <1>5, <2>1, NobodyIn DEF IsCached, In
  <2>3. QED
    BY <1>2, <1>3, <1>5, <2>2, CallStep
<1>6. CASE /\ status' = "fatal"
           /\ UNCHANGED <<conn, cache, connecting, rpc, todo, answers>>
  <2>1. issued' \subseteq Request /\ answers' \in [Request -> Nat]
    BY <1>2, <1>6 DEF IInv, TypeOK
  <2>2. QED
    BY <1>2, <1>6, <2>1, DownStep
<1>7. QED
  BY <1>1, <1>4, <1>5, <1>6 DEF RequestDescriptors, RequestBitmap

\* Every step keeps the invariant.
LEMMA NextIInv == IInv /\ [Next]_vars => IInv'
<1> SUFFICES ASSUME IInv, [Next]_vars PROVE IInv'
  OBVIOUS
<1>1. ASSUME NEW r \in Chunk, RequestChunk(r) PROVE IInv'
  <2>1. r \in Request /\ TakesUp(r, <<>>)
    BY <1>1, NewRequest DEF RequestChunk, Request, Event
  <2>2. QED
    BY <1>1, <2>1, GetChunkStep DEF RequestChunk
<1>2. ASSUME RunWaiting PROVE IInv'
  <2>1. Head(todo) \in Chunk /\ TakesUp(Head(todo), Tail(todo))
    BY <1>2, NextWaiting DEF RunWaiting
  <2>2. QED
    BY <1>2, <2>1, GetChunkStep DEF RunWaiting
<1>3. ASSUME EstablishFails PROVE IInv'
  <2>1. answers' \in [Request -> Nat] /\ issued' \subseteq Request
    <3>1. pending \in Seq(Chunk) /\ answers \in [Request -> Nat] /\ issued \subseteq Request
      BY DEF IInv, TypeOK
    <3>2. PICK h : h = Head(pending)
      OBVIOUS
    <3>3. h \in Request
      BY <1>3, <3>1, <3>2, InTail DEF EstablishFails, Request
    <3>4. answers' = [answers EXCEPT ![h] = @ + 1] /\ issued' = issued
      BY <1>3, <3>2 DEF EstablishFails, Answer
    <3>5. QED
      BY <3>1, <3>3, <3>4
  <2>2. QED
    BY <1>3, <2>1, DownStep DEF EstablishFails
<1>4. ASSUME NEW r \in Request, CallbackAfterDelete(r) PROVE IInv'
  <2>1. answers' \in [Request -> Nat] /\ issued' \subseteq Request
    BY <1>4 DEF CallbackAfterDelete, IInv, TypeOK
  <2>2. QED
    BY <1>4, <2>1, DownStep DEF CallbackAfterDelete
<1>5. ASSUME NEW r \in Request, GetDescriptorsClnt(r) \/ GetBitmapClnt(r) PROVE IInv'
  BY <1>5, DirectConnectStep DEF GetDescriptorsClnt, GetBitmapClnt
<1>6. ASSUME NEW r \in Request, DescReply(r) \/ BitmapReply(r) \/ ErrorReply(r) PROVE IInv'
  BY <1>6, OtherReplyStep DEF DescReply, BitmapReply
<1>7. CASE UNCHANGED vars
  <2>1. TypeOK' /\ CacheOK' /\ RefcountOK'
    <3>1. TypeOK'
      BY <1>7 DEF vars, IInv, TypeOK
    <3>2. CacheOK'
      BY <1>7 DEF vars, IInv, CacheOK, IsCached
    <3>3. RefcountOK'
      BY <1>7 DEF vars, IInv, RefcountOK, Accounted, IsCached, InFlight
    <3>4. QED
      BY <3>1, <3>2, <3>3
  <2>2. status = "up" => DistinctLists'
    BY <1>7 DEF vars, IInv, DistinctLists, Distinct
  <2>3. ASSUME status = "up", NEW r \in Request PROVE OneHolder(r)'
    <3>1. \A k \in Int : Held(k, r)' <=> Held(k, r)
      BY <1>7 DEF vars, Held, In
    <3>2. QED
      BY <1>7, <2>3, <3>1, HolderKept DEF vars, IInv
  <2>4. QED
    BY <1>7, <2>1, <2>2, <2>3 DEF vars, IInv
<1>8. QED
  BY <1>1, <1>2, <1>3, <1>4, <1>5, <1>6, <1>7, DirectRequestStep, EstablishStep, ChunkReplyStep,
     BreakStep, ReapStep DEF Next

\* The invariant, of every behaviour.
LEMMA AlwaysIInv == Spec => []IInv
  BY InitIInv, NextIInv, PTL DEF Spec

-----------------------------------------------------------------------------
(* One place for every callback *)

\* p is a place where holder k keeps the callback of r.
PlaceOf(k, p, r) ==
  \/ k = -1 /\ \E i \in 1 .. Len(pending) : pending[i] = r /\ p = <<"pending", i>>
  \/ k = -2 /\ \E i \in 1 .. Len(todo) : todo[i] = r /\ p = <<"todo", i>>
  \/ k = -3 /\ r \in connecting /\ p = <<"connecting", r>>
  \/ k = -4 /\ rpc[r] \in 1 .. Len(conn) /\ p = <<"call", rpc[r]>>
  \/ k \in 1 .. Len(conn) /\ \E i \in 1 .. Len(conn[k].wait_cb) :
                               conn[k].wait_cb[i] = r /\ p = <<"waiting", k, i>>

\* The places are those of the holders, and a holder has one place for it.
LEMMA PlacesOfHolders ==
  ASSUME TypeOK, NEW r \in Request
  PROVE  /\ \A p : p \in Places(r) <=> \E k \in Int : PlaceOf(k, p, r)
         /\ \A k : Held(k, r) <=> \E p : PlaceOf(k, p, r)
         /\ DistinctLists => \A k, p, q : PlaceOf(k, p, r) /\ PlaceOf(k, q, r) => p = q
<1>1. Len(conn) \in Nat /\ rpc[r] \in 0 .. Len(conn)
  BY EntryTypes DEF TypeOK
<1>2. \A k \in 1 .. Len(conn) : k \in Int /\ k # -1 /\ k # -2 /\ k # -3 /\ k # -4
  BY <1>1
<1> DEFINE A(p) == \E i \in 1 .. Len(pending) : pending[i] = r /\ p = <<"pending", i>>
           B(p) == \E i \in 1 .. Len(todo) : todo[i] = r /\ p = <<"todo", i>>
           C(p) == r \in connecting /\ p = <<"connecting", r>>
           D(p) == rpc[r] \in 1 .. Len(conn) /\ p = <<"call", rpc[r]>>
           E(c, p) == \E i \in 1 .. Len(conn[c].wait_cb) :
                        conn[c].wait_cb[i] = r /\ p = <<"waiting", c, i>>
<1>3. ASSUME NEW k, NEW p
      PROVE  PlaceOf(k, p, r) <=> \/ (k = -1 /\ A(p)) \/ (k = -2 /\ B(p)) \/ (k = -3 /\ C(p))
                                  \/ (k = -4 /\ D(p)) \/ (k \in 1 .. Len(conn) /\ E(k, p))
  BY DEF PlaceOf
<1>4. ASSUME NEW p
      PROVE  p \in Places(r) <=> \/ A(p) \/ B(p) \/ C(p) \/ D(p) \/ \E c \in 1 .. Len(conn) : E(c, p)
  <2> DEFINE SA == {<<"pending", i>> : i \in {i \in 1 .. Len(pending) : pending[i] = r}}
             SB == {<<"todo", i>> : i \in {i \in 1 .. Len(todo) : todo[i] = r}}
             SE(c) == {<<"waiting", c, i>> : i \in {i \in 1 .. Len(conn[c].wait_cb) :
                                                      conn[c].wait_cb[i] = r}}
             SU == UNION {SE(c) : c \in 1 .. Len(conn)}
             SC == {<<"connecting", d>> : d \in {d \in connecting : d = r}}
             SD == {<<"call", c>> : c \in {c \in 1 .. Len(conn) : rpc[r] = c}}
  <2>1. Places(r) = SA \cup SB \cup SU \cup SC \cup SD
    BY DEF Places
  <2>2. p \in SA <=> A(p)
    OBVIOUS
  <2>3. p \in SB <=> B(p)
    OBVIOUS
  <2>4. p \in SC <=> C(p)
    OBVIOUS
  <2>5. p \in SD <=> D(p)
    OBVIOUS
  <2>6. ASSUME NEW c PROVE p \in SE(c) <=> E(c, p)
    OBVIOUS
  <2>7. p \in SU <=> \E c \in 1 .. Len(conn) : p \in SE(c)
    OBVIOUS
  <2> HIDE DEF SE
  <2> HIDE DEF SA, SB, SC, SD, SU, A, B, C, D, E
  <2>8. QED
    BY <2>1, <2>2, <2>3, <2>4, <2>5, <2>6, <2>7
<1>5. In(r, pending) <=> \E p : A(p)
  BY DEF In
<1>6. In(r, todo) <=> \E p : B(p)
  BY DEF In
<1>7. r \in connecting <=> \E p : C(p)
  OBVIOUS
<1>8. rpc[r] # NoConn <=> \E p : D(p)
  <2>1. rpc[r] # NoConn <=> rpc[r] \in 1 .. Len(conn)
    BY <1>1 DEF NoConn
  <2>2. QED
    BY <2>1
<1>9. ASSUME NEW c PROVE In(r, conn[c].wait_cb) <=> \E p : E(c, p)
  BY DEF In
<1>10. ASSUME DistinctLists, NEW p, NEW q
       PROVE  /\ (A(p) /\ A(q)) \/ (B(p) /\ B(q)) \/ (C(p) /\ C(q)) \/ (D(p) /\ D(q)) => p = q
              /\ \A c \in 1 .. Len(conn) : E(c, p) /\ E(c, q) => p = q
  <2>1. Distinct(pending) /\ Distinct(todo) /\ \A c \in 1 .. Len(conn) : Distinct(conn[c].wait_cb)
    BY <1>10 DEF DistinctLists
  <2>2. /\ A(p) /\ A(q) => p = q
        /\ B(p) /\ B(q) => p = q
    BY <2>1 DEF Distinct
  <2>3. /\ C(p) /\ C(q) => p = q
        /\ D(p) /\ D(q) => p = q
    OBVIOUS
  <2>4. ASSUME NEW c \in 1 .. Len(conn), E(c, p), E(c, q) PROVE p = q
    BY <2>1, <2>4 DEF Distinct
  <2> HIDE DEF A, B, C, D, E
  <2>5. QED
    BY <2>2, <2>3, <2>4
<1> HIDE DEF A, B, C, D, E
<1>11. ASSUME NEW p PROVE p \in Places(r) <=> \E k \in Int : PlaceOf(k, p, r)
  <2>1. -1 \in Int /\ -2 \in Int /\ -3 \in Int /\ -4 \in Int
    OBVIOUS
  <2>2. QED
    BY <1>2, <1>3, <1>4, <2>1, Zenon
<1>12. ASSUME NEW k PROVE Held(k, r) <=> \E p : PlaceOf(k, p, r)
  BY <1>2, <1>3, <1>5, <1>6, <1>7, <1>8, <1>9 DEF Held
<1>13. ASSUME DistinctLists, NEW k, NEW p, NEW q, PlaceOf(k, p, r), PlaceOf(k, q, r) PROVE p = q
  <2>1. \/ (A(p) /\ A(q)) \/ (B(p) /\ B(q)) \/ (C(p) /\ C(q)) \/ (D(p) /\ D(q))
        \/ k \in 1 .. Len(conn) /\ E(k, p) /\ E(k, q)
    BY <1>2, <1>3, <1>13
  <2>2. QED
    BY <1>10, <1>13, <2>1
<1>14. QED
  BY <1>11, <1>12, <1>13

\* The types of the client's state, and that a dial always finds the pending entry
\* it was made for: establish_connection never exits for the lack of one.
THEOREM TypesHold == Spec => []TypeOK
<1>1. IInv => TypeOK
  BY DEF IInv
<1>2. QED
  BY <1>1, AlwaysIInv, PTL

\* No callback is lost or called twice: for any number of requests of every kind
\* and any faults, as long as the daemon is up, a request that was made and not
\* answered is in exactly one of the lists, tables or calls that will call its
\* callback, and one that was answered is in none.
THEOREM EveryCallbackOnce == Spec => []ExactlyOnce
<1>1. ASSUME IInv, status = "up", NEW r \in Request
      PROVE  /\ answers[r] <= 1
             /\ Places(r) # {} <=> r \in issued /\ answers[r] = 0
             /\ \A p, q \in Places(r) : p = q
  <2>1. TypeOK /\ DistinctLists /\ OneHolder(r)
    BY <1>1 DEF IInv
  <2>2. /\ \A p : p \in Places(r) <=> \E k \in Int : PlaceOf(k, p, r)
        /\ \A k : Held(k, r) <=> \E p : PlaceOf(k, p, r)
        /\ \A k, p, q : PlaceOf(k, p, r) /\ PlaceOf(k, q, r) => p = q
    BY <2>1, PlacesOfHolders
  <2>3. (\E p : p \in Places(r)) <=> \E k \in Int : Held(k, r)
    BY <2>2
  <2>4. \A p, q \in Places(r) : p = q
    <3> SUFFICES ASSUME NEW p \in Places(r), NEW q \in Places(r) PROVE p = q
      OBVIOUS
    <3>1. PICK k \in Int : PlaceOf(k, p, r)
      BY <2>2
    <3>2. PICK l \in Int : PlaceOf(l, q, r)
      BY <2>2
    <3>3. Held(k, r) /\ Held(l, r)
      BY <2>2, <3>1, <3>2
    <3>4. k = l
      BY <2>1, <3>3 DEF OneHolder
    <3>5. QED
      BY <2>2, <3>1, <3>2, <3>4
  <2>5. QED
    BY <2>1, <2>3, <2>4 DEF OneHolder
<1>2. IInv => ExactlyOnce
  BY <1>1 DEF ExactlyOnce
<1>3. QED
  BY <1>2, AlwaysIInv, PTL

\* What refcount counts, on every path through get_chunk, get_descriptors,
\* get_bitmap, establish_connection and the ends of a call.
THEOREM RefcountMeaning == Spec => []RefcountAccounted
<1>1. IInv => RefcountAccounted
  BY DEF IInv, RefcountOK, Accounted, RefcountAccounted
<1>2. QED
  BY <1>1, AlwaysIInv, PTL

-----------------------------------------------------------------------------
(* The limit *)

\* One cached entry changes.
LEMMA LimitEntry ==
  ASSUME TypeOK, LimitOK, NEW c \in 1 .. Len(conn), NEW e \in ConnEntry, conn' = [conn EXCEPT ![c] = e],
         e.refcount <= MAX_RPCS_IN_FLIGHT + e.leaked, UNCHANGED cache
  PROVE  LimitOK'
<1>1. /\ Len(conn') = Len(conn) /\ conn'[c] = e
      /\ \A d \in 1 .. Len(conn) : d # c => conn'[d] = conn[d]
  BY ConnUpdate
<1>2. \A d : IsCached(d)' <=> IsCached(d)
  BY DEF IsCached
<1>3. QED
  BY <1>1, <1>2 DEF LimitOK

\* An entry is deleted.
LEMMA LimitDelete ==
  ASSUME TypeOK, CacheOK, LimitOK, NEW c, IsCached(c), NEW rest \in Seq(Chunk), DeleteConn(c, rest)
  PROVE  LimitOK'
<1>1. c \in 1 .. Len(conn)
  BY EntryTypes
<1>2. /\ Len(conn') = Len(conn)
      /\ \A d \in 1 .. Len(conn) : d # c => conn'[d] = conn[d]
      /\ \A d : IsCached(d)' <=> IsCached(d) /\ d # c
  BY <1>1, DeleteEffect
<1>3. QED
  BY <1>2 DEF LimitOK

\* A new entry has one slot taken.
LEMMA LimitOpen ==
  ASSUME TypeOK, LimitOK, NEW n \in Nat, OpenConn(n)
  PROVE  LimitOK'
<1>1. /\ Len(conn') = Len(conn) + 1 /\ Len(conn) \in Nat
      /\ conn'[Len(conn) + 1] = NewConn(n)
      /\ \A d \in 1 .. Len(conn) : conn'[d] = conn[d]
      /\ \A d : IsCached(d)' <=> IsCached(d) \/ d = Len(conn) + 1
  BY ConnMade
<1>2. NewConn(n).refcount = 1 /\ NewConn(n).leaked = 0
  BY DEF NewConn
<1>3. NewConn(n).refcount <= MAX_RPCS_IN_FLIGHT + NewConn(n).leaked
  BY <1>2, LimitAssumption
<1>4. \A d : d \in 1 .. Len(conn') <=> d \in 1 .. Len(conn) \/ d = Len(conn) + 1
  BY <1>1
<1>5. ASSUME NEW d \in 1 .. Len(conn), IsCached(d)'
      PROVE  conn'[d].refcount <= MAX_RPCS_IN_FLIGHT + conn'[d].leaked
  <2>1. IsCached(d) /\ conn'[d] = conn[d]
    BY <1>1, <1>5
  <2>2. QED
    BY <2>1 DEF LimitOK
<1>6. QED
  BY <1>1, <1>3, <1>4, <1>5 DEF LimitOK

\* A call on an entry with a free slot.
LEMMA LimitCall ==
  ASSUME TypeOK, CacheOK, LimitOK, cache # <<>>, conn[Head(cache)].refcount < MAX_RPCS_IN_FLIGHT,
         NEW r, NEW rest \in Seq(Chunk), Call(r, Head(cache), rest)
  PROVE  LimitOK'
<1>1. cache \in Seq(1 .. Len(conn))
  BY EntryTypes
<1> PICK c : c = Head(cache)
  OBVIOUS
<1>2. IsCached(c)
  BY <1>1, NobodyIn DEF IsCached, In
<1>3. /\ c \in 1 .. Len(conn) /\ conn[c] \in ConnEntry /\ conn[c].refcount \in Int
      /\ conn[c].leaked \in Nat
  BY <1>2, EntryTypes
<1>4. CASE conn' = [conn EXCEPT ![c].refcount = @ + 1] /\ UNCHANGED cache
  <2> DEFINE e == [conn[c] EXCEPT !.refcount = conn[c].refcount + 1]
  <2>1. conn[c].refcount + 1 \in Int
    BY <1>3
  <2>2. e \in ConnEntry /\ e.refcount = conn[c].refcount + 1 /\ e.leaked = conn[c].leaked
    BY <1>3, <2>1 DEF ConnEntry
  <2>3. conn' = [conn EXCEPT ![c] = e]
    BY <1>4
  <2> HIDE DEF e
  <2>4. e.refcount <= MAX_RPCS_IN_FLIGHT + e.leaked
    BY <1>3, <2>2, LimitAssumption
  <2>5. QED
    BY <1>3, <1>4, <2>2, <2>3, <2>4, LimitEntry
<1>5. CASE DeleteConn(c, rest)
  BY <1>2, <1>5, LimitDelete
<1>6. QED
  BY <1>4, <1>5 DEF Call

\* get_chunk looks at the limit before it calls.
LEMMA LimitGetChunk ==
  ASSUME TypeOK, CacheOK, LimitOK, NEW r \in Chunk, NEW rest \in Seq(Chunk), GetChunk(r, rest)
  PROVE  LimitOK'
<1>1. CASE UNCHANGED <<conn, cache>>
  BY <1>1 DEF LimitOK, IsCached
<1>2. CASE /\ cache # <<>> /\ UNCHANGED cache
           /\ conn' = [conn EXCEPT ![Head(cache)].wait_cb = Append(@, r)]
  <2> PICK c : c = Head(cache)
    OBVIOUS
  <2>1. cache \in Seq(1 .. Len(conn))
    BY EntryTypes
  <2>2. IsCached(c)
    BY <1>2, <2>1, NobodyIn DEF IsCached, In
  <2>3. c \in 1 .. Len(conn) /\ conn[c] \in ConnEntry /\ conn[c].wait_cb \in Seq(Chunk)
    BY <2>2, EntryTypes
  <2> DEFINE e == [conn[c] EXCEPT !.wait_cb = Append(conn[c].wait_cb, r)]
  <2>4. Append(conn[c].wait_cb, r) \in Seq(Chunk)
    BY <2>3, InAppend
  <2>5. e \in ConnEntry /\ e.refcount = conn[c].refcount /\ e.leaked = conn[c].leaked
    BY <2>3, <2>4 DEF ConnEntry
  <2>6. conn' = [conn EXCEPT ![c] = e]
    BY <1>2
  <2> HIDE DEF e
  <2>7. conn[c].refcount <= MAX_RPCS_IN_FLIGHT + conn[c].leaked
    BY <2>2, <2>3 DEF LimitOK
  <2>8. QED
    BY <1>2, <2>3, <2>5, <2>6, <2>7, LimitEntry
<1>3. CASE cache # <<>> /\ conn[Head(cache)].refcount < MAX_RPCS_IN_FLIGHT /\ Call(r, Head(cache), rest)
  BY <1>3, LimitCall
<1>4. QED
  BY <1>1, <1>2, <1>3 DEF GetChunk

\* The end of a call gives its slot back, or raises what is lost.
LEMMA LimitReply ==
  ASSUME IInv, LimitOK, NEW c, IsCached(c), UNCHANGED cache,
         \/ CheckOutstanding(c)
         \/ conn' = [conn EXCEPT ![c].refcount = @ - 1]
         \/ conn' = [conn EXCEPT ![c].leaked = @ + 1]
         \/ conn' = [conn EXCEPT ![c].eof = TRUE]
  PROVE  LimitOK'
<1>0. TypeOK
  BY DEF IInv
<1>1. /\ c \in 1 .. Len(conn) /\ conn[c] \in ConnEntry /\ conn[c].refcount \in Int
      /\ conn[c].leaked \in Nat /\ conn[c].wait_cb \in Seq(Chunk)
  BY <1>0, EntryTypes
<1>2. conn[c].refcount <= MAX_RPCS_IN_FLIGHT + conn[c].leaked
  BY <1>1 DEF LimitOK
<1>3. conn[c].refcount - 1 \in Int /\ conn[c].leaked + 1 \in Nat /\ MAX_RPCS_IN_FLIGHT \in Nat
  BY <1>1, LimitAssumption
<1>4. ASSUME NEW e \in ConnEntry, conn' = [conn EXCEPT ![c] = e],
             \/ e.refcount = conn[c].refcount - 1 /\ e.leaked = conn[c].leaked
             \/ e.refcount = conn[c].refcount /\ e.leaked = conn[c].leaked + 1
             \/ e.refcount = conn[c].refcount /\ e.leaked = conn[c].leaked
      PROVE  LimitOK'
  <2>1. e.refcount <= MAX_RPCS_IN_FLIGHT + e.leaked
    BY <1>1, <1>2, <1>3, <1>4
  <2>2. QED
    BY <1>0, <1>1, <1>4, <2>1, LimitEntry
<1>5. CASE conn' = [conn EXCEPT ![c].refcount = @ - 1]
  <2> DEFINE e == [conn[c] EXCEPT !.refcount = conn[c].refcount - 1]
  <2>1. e \in ConnEntry /\ e.refcount = conn[c].refcount - 1 /\ e.leaked = conn[c].leaked
    BY <1>1, <1>3 DEF ConnEntry
  <2>2. conn' = [conn EXCEPT ![c] = e]
    BY <1>5
  <2> HIDE DEF e
  <2>3. QED
    BY <1>4, <2>1, <2>2
<1>6. CASE conn[c].wait_cb # <<>> /\ conn' = [conn EXCEPT ![c].refcount = @ - 1, ![c].wait_cb = Tail(@)]
  <2> DEFINE e == [conn[c] EXCEPT !.refcount = conn[c].refcount - 1, !.wait_cb = Tail(conn[c].wait_cb)]
  <2>1. Tail(conn[c].wait_cb) \in Seq(Chunk)
    BY <1>1, <1>6, InTail
  <2>2. e \in ConnEntry /\ e.refcount = conn[c].refcount - 1 /\ e.leaked = conn[c].leaked
    BY <1>1, <1>3, <2>1 DEF ConnEntry
  <2>3. conn' = [conn EXCEPT ![c] = e]
    BY <1>6
  <2> HIDE DEF e
  <2>4. QED
    BY <1>4, <2>2, <2>3
<1>7. CASE conn' = [conn EXCEPT ![c].leaked = @ + 1]
  <2> DEFINE e == [conn[c] EXCEPT !.leaked = conn[c].leaked + 1]
  <2>1. e \in ConnEntry /\ e.refcount = conn[c].refcount /\ e.leaked = conn[c].leaked + 1
    BY <1>1, <1>3 DEF ConnEntry
  <2>2. conn' = [conn EXCEPT ![c] = e]
    BY <1>7
  <2> HIDE DEF e
  <2>3. QED
    BY <1>4, <2>1, <2>2
<1>8. CASE conn' = [conn EXCEPT ![c].eof = TRUE]
  <2> DEFINE e == [conn[c] EXCEPT !.eof = TRUE]
  <2>1. e \in ConnEntry /\ e.refcount = conn[c].refcount /\ e.leaked = conn[c].leaked
    BY <1>1 DEF ConnEntry
  <2>2. conn' = [conn EXCEPT ![c] = e]
    BY <1>8
  <2> HIDE DEF e
  <2>3. QED
    BY <1>4, <2>1, <2>2
<1>9. QED
  BY <1>5, <1>6, <1>7, <1>8 DEF CheckOutstanding

\* As long as no descriptors are asked for, every step keeps the limit.
LEMMA NextLimit ==
  ASSUME Desc = {}, IInv, LimitOK, [Next]_vars
  PROVE  LimitOK'
<1>0. TypeOK /\ CacheOK /\ todo \in Seq(Chunk) /\ pending \in Seq(Chunk) /\ <<>> \in Seq(Chunk)
  <2>1. <<>> \in Seq(Chunk)
    OBVIOUS
  <2>2. QED
    BY <2>1 DEF IInv, TypeOK
<1>1. ASSUME UNCHANGED <<conn, cache>> PROVE LimitOK'
  BY <1>1 DEF LimitOK, IsCached
<1>2. ASSUME NEW r \in Chunk, RequestChunk(r) PROVE LimitOK'
  BY <1>0, <1>2, LimitGetChunk DEF RequestChunk
<1>3. ASSUME RunWaiting PROVE LimitOK'
  <2>1. Head(todo) \in Chunk /\ Tail(todo) \in Seq(Chunk)
    BY <1>0, <1>3, InTail DEF RunWaiting
  <2>2. QED
    BY <1>0, <1>3, <2>1, LimitGetChunk DEF RunWaiting
<1>4. ASSUME NEW r \in Bitmap, RequestBitmap(r) PROVE LimitOK'
  BY <1>0, <1>1, <1>4, LimitCall DEF RequestBitmap
<1>5. ASSUME EstablishConnection PROVE LimitOK'
  <2>1. Len(pending) \in Nat
    BY <1>0, LenProperties
  <2>2. QED
    BY <1>0, <1>5, <2>1, LimitOpen DEF EstablishConnection
<1>6. ASSUME NEW r, GetDescriptorsClnt(r) \/ GetBitmapClnt(r) PROVE LimitOK'
  <2>1. OpenConn(1) \/ UNCHANGED <<conn, cache>>
    BY <1>6 DEF GetDescriptorsClnt, GetBitmapClnt, DirectConnect
  <2>2. 1 \in Nat
    OBVIOUS
  <2>3. QED
    BY <1>0, <1>1, <2>1, <2>2, LimitOpen
<1>7. ASSUME NEW r \in Request, ChunkReply(r) \/ BitmapReply(r) \/ ErrorReply(r) PROVE LimitOK'
  <2> PICK c : c = rpc[r]
    OBVIOUS
  <2>1. /\ IsCached(c) /\ UNCHANGED cache
        /\ \/ CheckOutstanding(c)
           \/ conn' = [conn EXCEPT ![c].refcount = @ - 1]
           \/ conn' = [conn EXCEPT ![c].leaked = @ + 1]
    BY <1>7 DEF ChunkReply, BitmapReply, DirectReply, ErrorReply
  <2>2. QED
    BY <2>1, LimitReply
<1>8. ASSUME NEW c, ConnectionBreaks(c) PROVE LimitOK'
  <2>1. /\ IsCached(c)
        /\ \/ conn' = [conn EXCEPT ![c].eof = TRUE] /\ UNCHANGED cache
           \/ DeleteConn(c, <<>>)
           \/ UNCHANGED <<conn, cache>>
    BY <1>8 DEF ConnectionBreaks
  <2>2. QED
    BY <1>0, <1>1, <2>1, LimitReply, LimitDelete
<1>9. ASSUME NEW c, ReapConnEntry(c) PROVE LimitOK'
  BY <1>0, <1>9, LimitDelete DEF ReapConnEntry
<1>10. ASSUME NEW r, CallbackAfterDelete(r) PROVE LimitOK'
  BY <1>1, <1>10 DEF CallbackAfterDelete
<1>11. ASSUME EstablishFails PROVE LimitOK'
  BY <1>1, <1>11 DEF EstablishFails
<1>12. CASE UNCHANGED vars
  BY <1>1, <1>12 DEF vars
<1>13. \A r \in Request : ~ DescReply(r)
  BY DEF DescReply
<1>14. QED
  BY <1>2, <1>3, <1>4, <1>5, <1>6, <1>7, <1>8, <1>9, <1>10, <1>11, <1>12, <1>13 DEF Next

\* How far a peer can be overrun when no descriptors are asked for: an entry has at
\* most MAX_RPCS_IN_FLIGHT calls outstanding, plus those, all but one, that were
\* pending when it was made and that establish_connection did not count.
THEOREM CallsBounded ==
  ASSUME Desc = {}
  PROVE  Spec => []RaisedLimit
<1>1. Init => LimitOK
  <2>1. Init => 1 .. Len(conn) = {}
    BY DEF Init
  <2>2. QED
    BY <2>1 DEF LimitOK
<1>2. IInv /\ LimitOK /\ [Next]_vars => LimitOK'
  BY NextLimit
<1>3. ASSUME IInv, LimitOK PROVE RaisedLimit
  <2> SUFFICES ASSUME NEW c \in 1 .. Len(conn), IsCached(c)
               PROVE  Cardinality(InFlight(c)) <= MAX_RPCS_IN_FLIGHT + conn[c].opened - 1
    BY DEF RaisedLimit
  <2>1. TypeOK /\ Accounted(c) /\ conn[c].refcount <= MAX_RPCS_IN_FLIGHT + conn[c].leaked
    BY <1>3 DEF IInv, RefcountOK, LimitOK
  <2>2. conn[c].refcount \in Int /\ conn[c].leaked \in Nat /\ conn[c].opened \in Nat
    BY <2>1, EntryTypes
  <2>3. Cardinality(InFlight(c)) \in Nat
    <3>1. IsFiniteSet(InFlight(c))
      BY RequestAssumption, FS_Subset DEF InFlight
    <3>2. QED
      BY <3>1, FS_CardinalityType
  <2>4. conn[c].refcount = Cardinality(InFlight(c)) + conn[c].leaked - (conn[c].opened - 1)
    BY <2>1 DEF Accounted
  <2>5. QED
    BY <2>1, <2>2, <2>3, <2>4, LimitAssumption
<1>4. QED
  BY <1>1, <1>2, <1>3, AlwaysIInv, PTL DEF Spec

-----------------------------------------------------------------------------
(* Who waits is called *)

\* Nobody waits on an entry that is not cached, so only the cached one counts.
LEMMA WakerFrom ==
  ASSUME CacheOK', Len(cache') <= 1, connecting' = {}, pending' # <<>> => cache' = <<>>,
         \A c \in 1 .. Len(conn') : conn'[c].leaked = 0,
         \A c \in 1 .. Len(conn') :
           IsCached(c)' /\ conn'[c].wait_cb # <<>> =>
             conn'[c].refcount + Len(todo') >= MAX_RPCS_IN_FLIGHT
  PROVE  WakerOK'
  BY DEF WakerOK, CacheOK

\* The entry at the front of the cache is the only one.
LEMMA OnlyEntry ==
  ASSUME TypeOK, WakerOK, cache # <<>>, NEW c, c = Head(cache)
  PROVE  /\ IsCached(c) /\ c \in 1 .. Len(conn) /\ \A d : IsCached(d) => d = c
         /\ pending = <<>> /\ Len(cache) = 1
<1>1. cache \in Seq(1 .. Len(conn)) /\ Len(cache) \in Nat
  BY EntryTypes
<1>2. Len(cache) = 1
  <2>1. Len(cache) # 0 /\ Len(cache) <= 1 /\ Len(cache) \in Nat
    BY <1>1, EmptySeq DEF WakerOK
  <2>2. \A n \in Nat : n # 0 /\ n <= 1 => n = 1
    OBVIOUS
  <2>3. QED
    BY <2>1, <2>2
<1>3. In(c, cache) /\ c = cache[1]
  BY <1>1, <1>2, NobodyIn, LenProperties
<1>4. \A d : In(d, cache) => d = c
  BY <1>2, <1>3 DEF In
<1>5. pending = <<>>
  BY DEF WakerOK
<1>6. QED
  BY <1>2, <1>3, <1>4, <1>5, EntryTypes

\* One entry changes, and the cache does not.
LEMMA WakerEntry ==
  ASSUME TypeOK, CacheOK, WakerOK, NEW c, IsCached(c), NEW e \in ConnEntry,
         conn' = [conn EXCEPT ![c] = e], e.leaked = 0, e.opened = conn[c].opened,
         e.wait_cb # <<>> => e.refcount + Len(todo') >= MAX_RPCS_IN_FLIGHT,
         UNCHANGED <<cache, pending, connecting>>
  PROVE  WakerOK'
<1>1. c \in 1 .. Len(conn) /\ cache \in Seq(1 .. Len(conn))
  BY EntryTypes
<1>2. /\ Len(conn') = Len(conn) /\ conn'[c] = e
      /\ \A d \in 1 .. Len(conn) : d # c => conn'[d] = conn[d]
  BY <1>1, ConnUpdate
<1>3. \A d : IsCached(d)' <=> IsCached(d)
  BY DEF IsCached
<1>4. cache # <<>>
  <2> SUFFICES ASSUME cache = <<>> PROVE FALSE
    OBVIOUS
  <2>1. Len(cache) = 0
    OBVIOUS
  <2>2. QED
    BY <2>1 DEF IsCached
<1>5. \A d : IsCached(d) => d = c
  <2> PICK h : h = Head(cache)
    OBVIOUS
  <2>1. \A d : IsCached(d) => d = h
    BY <1>4, OnlyEntry
  <2>2. QED
    BY <2>1
<1>6. CacheOK'
  <2>1. Distinct(cache)'
    BY DEF CacheOK, Distinct
  <2>2. ASSUME NEW d \in 1 .. Len(conn')
        PROVE  (~ IsCached(d)' => conn'[d].wait_cb = <<>>) /\ (IsCached(d)' => conn'[d].opened >= 1)
    BY <1>1, <1>2, <1>3 DEF CacheOK
  <2>3. QED
    BY <2>1, <2>2 DEF CacheOK
<1>7. Len(cache') <= 1 /\ connecting' = {} /\ (pending' # <<>> => cache' = <<>>)
  BY DEF WakerOK
<1>8. \A d \in 1 .. Len(conn') : conn'[d].leaked = 0
  BY <1>2 DEF WakerOK
<1>9. \A d \in 1 .. Len(conn') :
        IsCached(d)' /\ conn'[d].wait_cb # <<>> => conn'[d].refcount + Len(todo') >= MAX_RPCS_IN_FLIGHT
  BY <1>2, <1>3, <1>5
<1>10. QED
  BY <1>6, <1>7, <1>8, <1>9, WakerFrom

\* The entry is deleted: all that waited on it is in todo.
LEMMA WakerDelete ==
  ASSUME TypeOK, CacheOK, WakerOK, NEW c, IsCached(c), NEW rest \in Seq(Chunk), DeleteConn(c, rest),
         UNCHANGED <<pending, connecting>>
  PROVE  WakerOK'
<1>1. c \in 1 .. Len(conn) /\ cache \in Seq(1 .. Len(conn)) /\ Len(cache) \in Nat
  BY EntryTypes
<1>2. /\ Len(conn') = Len(conn) /\ conn'[c] = Freed
      /\ \A d \in 1 .. Len(conn) : d # c => conn'[d] = conn[d]
      /\ cache' \in Seq(1 .. Len(conn)) /\ Len(cache') = Len(cache) - 1
      /\ \A d : IsCached(d)' <=> IsCached(d) /\ d # c
      /\ CacheOK'
  BY <1>1, DeleteEffect
<1>3. Len(cache) <= 1 /\ Len(cache') \in Nat
  BY <1>2, LenProperties DEF WakerOK
<1>4. Len(cache') = 0
  BY <1>1, <1>2, <1>3
<1>5. cache' = <<>> /\ \A d : ~ IsCached(d)'
  <2>1. cache' = <<>>
    BY <1>2, <1>4, EmptySeq
  <2>2. 1 .. Len(cache') = {}
    BY <1>4
  <2>3. QED
    BY <2>1, <2>2 DEF IsCached
<1>6. \A d \in 1 .. Len(conn') : conn'[d].leaked = 0
  BY <1>2 DEF WakerOK, Freed
<1>7. connecting' = {} /\ Len(cache') <= 1
  BY <1>4 DEF WakerOK
<1>8. QED
  BY <1>2, <1>5, <1>6, <1>7, WakerFrom

\* get_chunk: a request waits only where the slots are taken, and what the end of a
\* call took off the list, if it is not the one that waits now, has the free slot.
LEMMA WakerGetChunk ==
  ASSUME TypeOK, CacheOK, WakerOK, NEW r \in Chunk, NEW rest \in Seq(Chunk), GetChunk(r, rest),
         rest = todo \/ (todo # <<>> /\ rest = Tail(todo)), UNCHANGED connecting
  PROVE  WakerOK'
<1>0. /\ Len(rest) \in Nat /\ Len(todo) \in Nat /\ Len(rest) + 1 >= Len(todo)
      /\ MAX_RPCS_IN_FLIGHT \in Nat
  <2>1. todo \in Seq(Chunk)
    BY DEF TypeOK
  <2>2. Len(todo) \in Nat /\ Len(rest) \in Nat
    BY <2>1, LenProperties
  <2>3. todo # <<>> => Len(Tail(todo)) = Len(todo) - 1
    BY <2>1, InTail
  <2>4. QED
    BY <2>2, <2>3, LimitAssumption
<1>1. CASE cache = <<>> /\ UNCHANGED <<conn, cache>>
  <2>1. \A d : ~ IsCached(d)
    BY <1>1 DEF IsCached
  <2>2. \A d : ~ IsCached(d)'
    BY <1>1, <2>1 DEF IsCached
  <2>3. CacheOK'
    BY <1>1 DEF CacheOK, IsCached, Distinct
  <2>4. Len(cache') <= 1 /\ connecting' = {} /\ \A d \in 1 .. Len(conn') : conn'[d].leaked = 0
    BY <1>1 DEF WakerOK
  <2>5. QED
    BY <1>1, <2>2, <2>3, <2>4, WakerFrom
<1>2. CASE cache # <<>> /\ UNCHANGED pending
  <2> PICK c : c = Head(cache)
    OBVIOUS
  <2>1. IsCached(c) /\ c \in 1 .. Len(conn)
    BY <1>2, OnlyEntry
  <2>2. /\ conn[c] \in ConnEntry /\ conn[c].wait_cb \in Seq(Chunk) /\ conn[c].refcount \in Int
    BY <2>1, EntryTypes
  <2>3. conn[c].leaked = 0
    BY <2>1 DEF WakerOK
  <2>4. conn[c].wait_cb # <<>> => conn[c].refcount + Len(todo) >= MAX_RPCS_IN_FLIGHT
    BY <2>1 DEF WakerOK
  <2>5. CASE /\ conn[c].refcount >= MAX_RPCS_IN_FLIGHT /\ UNCHANGED cache /\ todo' = rest
             /\ conn' = [conn EXCEPT ![c].wait_cb = Append(@, r)]
    <3> DEFINE e == [conn[c] EXCEPT !.wait_cb = Append(conn[c].wait_cb, r)]
    <3>1. Append(conn[c].wait_cb, r) \in Seq(Chunk)
      BY <2>2, InAppend
    <3>2. /\ e \in ConnEntry /\ e.refcount = conn[c].refcount /\ e.leaked = conn[c].leaked
          /\ e.opened = conn[c].opened
      BY <2>2, <3>1 DEF ConnEntry
    <3>3. conn' = [conn EXCEPT ![c] = e]
      BY <2>5
    <3> HIDE DEF e
    <3>4. e.refcount + Len(todo') >= MAX_RPCS_IN_FLIGHT
      BY <1>0, <2>2, <2>5, <3>2
    <3>5. QED
      BY <1>2, <2>1, <2>3, <2>5, <3>2, <3>3, <3>4, WakerEntry
  <2>6. CASE UNCHANGED cache /\ todo' = rest /\ conn' = [conn EXCEPT ![c].refcount = @ + 1]
    <3> DEFINE e == [conn[c] EXCEPT !.refcount = conn[c].refcount + 1]
    <3>1. conn[c].refcount + 1 \in Int
      BY <2>2
    <3>2. /\ e \in ConnEntry /\ e.refcount = conn[c].refcount + 1 /\ e.leaked = conn[c].leaked
          /\ e.opened = conn[c].opened /\ e.wait_cb = conn[c].wait_cb
      BY <2>2, <3>1 DEF ConnEntry
    <3>3. conn' = [conn EXCEPT ![c] = e]
      BY <2>6
    <3> HIDE DEF e
    <3>4. e.wait_cb # <<>> => e.refcount + Len(todo') >= MAX_RPCS_IN_FLIGHT
      BY <1>0, <2>2, <2>4, <2>6, <3>2
    <3>5. QED
      BY <1>2, <2>1, <2>3, <2>6, <3>2, <3>3, <3>4, WakerEntry
  <2>7. CASE DeleteConn(c, rest)
    BY <1>2, <2>1, <2>7, WakerDelete
  <2>8. QED
    BY <1>2, <2>5, <2>6, <2>7 DEF GetChunk, Call
<1>3. QED
  BY <1>1, <1>2 DEF GetChunk

\* check_outstanding: the slot that becomes free is that of the request it calls.
LEMMA WakerReply ==
  ASSUME TypeOK, CacheOK, WakerOK, todo = <<>>, NEW c, IsCached(c), CheckOutstanding(c),
         UNCHANGED <<cache, pending, connecting>>
  PROVE  WakerOK'
<1>1. /\ c \in 1 .. Len(conn) /\ conn[c] \in ConnEntry /\ conn[c].wait_cb \in Seq(Chunk)
      /\ conn[c].refcount \in Int
  BY EntryTypes
<1>2. conn[c].leaked = 0 /\ (conn[c].wait_cb # <<>> => conn[c].refcount + Len(todo) >= MAX_RPCS_IN_FLIGHT)
  BY <1>1 DEF WakerOK
<1>3. conn[c].refcount - 1 \in Int /\ Len(todo) = 0 /\ MAX_RPCS_IN_FLIGHT \in Nat
  BY <1>1, LimitAssumption
<1>4. CASE conn[c].wait_cb = <<>>
  <2> DEFINE e == [conn[c] EXCEPT !.refcount = conn[c].refcount - 1]
  <2>1. e \in ConnEntry /\ e.wait_cb = <<>> /\ e.leaked = 0 /\ e.opened = conn[c].opened
    BY <1>1, <1>2, <1>3, <1>4 DEF ConnEntry
  <2>2. conn' = [conn EXCEPT ![c] = e]
    BY <1>4 DEF CheckOutstanding
  <2> HIDE DEF e
  <2>3. QED
    BY <2>1, <2>2, WakerEntry
<1>5. CASE conn[c].wait_cb # <<>>
  <2> DEFINE e == [conn[c] EXCEPT !.refcount = conn[c].refcount - 1, !.wait_cb = Tail(conn[c].wait_cb)]
  <2>1. Tail(conn[c].wait_cb) \in Seq(Chunk)
    BY <1>1, <1>5, InTail
  <2>2. /\ e \in ConnEntry /\ e.refcount = conn[c].refcount - 1 /\ e.leaked = 0
        /\ e.opened = conn[c].opened
    BY <1>1, <1>2, <1>3, <2>1 DEF ConnEntry
  <2>3. conn' = [conn EXCEPT ![c] = e] /\ todo' = <<Head(conn[c].wait_cb)>>
    BY <1>5 DEF CheckOutstanding
  <2> HIDE DEF e
  <2>4. Len(todo') = 1
    BY <2>3
  <2>5. e.refcount + Len(todo') >= MAX_RPCS_IN_FLIGHT
    BY <1>1, <1>2, <1>3, <1>5, <2>2, <2>4
  <2>6. QED
    BY <2>2, <2>3, <2>5, WakerEntry
<1>6. QED
  BY <1>4, <1>5

\* As long as only chunks are asked for and no reply is an error, every step keeps
\* a waker for who waits.
LEMMA NextWaker ==
  ASSUME Desc = {}, Bitmap = {}, "reply" \notin Faults, IInv, WakerOK, [Next]_vars
  PROVE  WakerOK'
<1>0. /\ TypeOK /\ CacheOK /\ todo \in Seq(Chunk) /\ pending \in Seq(Chunk) /\ <<>> \in Seq(Chunk)
      /\ Len(todo) \in Nat
  <2>1. <<>> \in Seq(Chunk)
    OBVIOUS
  <2>2. TypeOK /\ CacheOK /\ todo \in Seq(Chunk) /\ pending \in Seq(Chunk)
    BY DEF IInv, TypeOK
  <2>3. QED
    BY <2>1, <2>2, LenProperties
<1>1. ASSUME UNCHANGED <<conn, cache, pending, connecting, todo>> PROVE WakerOK'
  BY <1>1 DEF WakerOK
<1>2. ASSUME NEW r \in Chunk, RequestChunk(r) PROVE WakerOK'
  BY <1>0, <1>2, WakerGetChunk DEF RequestChunk, Event
<1>3. ASSUME RunWaiting PROVE WakerOK'
  <2>1. Head(todo) \in Chunk /\ Tail(todo) \in Seq(Chunk)
    BY <1>0, <1>3, InTail DEF RunWaiting
  <2>2. QED
    BY <1>0, <1>3, <2>1, WakerGetChunk DEF RunWaiting
<1>4. ASSUME EstablishConnection PROVE WakerOK'
  <2> PICK n : n = Len(pending)
    OBVIOUS
  <2>1. /\ n \in Nat /\ OpenConn(n) /\ pending # <<>> /\ pending' = <<>> /\ connecting' = connecting
        /\ todo = <<>> /\ todo' = <<>>
    BY <1>0, <1>4, LenProperties DEF EstablishConnection, Event
  <2>2. cache = <<>> /\ connecting = {}
    BY <2>1 DEF WakerOK
  <2>3. /\ Len(conn') = Len(conn) + 1 /\ Len(conn) \in Nat
        /\ conn'[Len(conn) + 1] = NewConn(n)
        /\ \A d \in 1 .. Len(conn) : conn'[d] = conn[d]
        /\ Len(cache') = Len(cache) + 1
    BY <1>0, <2>1, ConnMade
  <2>4. NewConn(n).leaked = 0 /\ NewConn(n).wait_cb = <<>>
    BY DEF NewConn
  <2>5. \A d : d \in 1 .. Len(conn') <=> d \in 1 .. Len(conn) \/ d = Len(conn) + 1
    BY <2>3
  <2>6. Len(cache') <= 1
    BY <2>2, <2>3
  <2>7. \A d \in 1 .. Len(conn) :
          /\ conn[d].leaked = 0
          /\ conn[d].wait_cb # <<>> => conn[d].refcount + Len(todo) >= MAX_RPCS_IN_FLIGHT
    BY DEF WakerOK
  <2>8. \A d \in 1 .. Len(conn') :
          /\ conn'[d].leaked = 0
          /\ conn'[d].wait_cb # <<>> => conn'[d].refcount + Len(todo') >= MAX_RPCS_IN_FLIGHT
    BY <2>1, <2>3, <2>4, <2>5, <2>7
  <2>9. QED
    BY <2>1, <2>2, <2>6, <2>8 DEF WakerOK
<1>5. ASSUME NEW r \in Request, ChunkReply(r) PROVE WakerOK'
  <2> PICK c : c = rpc[r]
    OBVIOUS
  <2>1. IsCached(c) /\ CheckOutstanding(c) /\ todo = <<>> /\ UNCHANGED <<cache, pending, connecting>>
    BY <1>5 DEF ChunkReply, Event
  <2>2. QED
    BY <1>0, <2>1, WakerReply
<1>6. ASSUME NEW c, ConnectionBreaks(c) PROVE WakerOK'
  <2>1. /\ IsCached(c) /\ UNCHANGED <<pending, connecting>>
        /\ \/ conn' = [conn EXCEPT ![c].eof = TRUE] /\ UNCHANGED <<cache, todo>>
           \/ DeleteConn(c, <<>>)
           \/ UNCHANGED <<conn, cache, todo>>
    BY <1>6 DEF ConnectionBreaks
  <2>2. CASE conn' = [conn EXCEPT ![c].eof = TRUE] /\ UNCHANGED <<cache, todo>>
    <3> DEFINE e == [conn[c] EXCEPT !.eof = TRUE]
    <3>1. c \in 1 .. Len(conn) /\ conn[c] \in ConnEntry
      BY <1>0, <2>1, EntryTypes
    <3>2. /\ e \in ConnEntry /\ e.refcount = conn[c].refcount /\ e.leaked = conn[c].leaked
          /\ e.opened = conn[c].opened /\ e.wait_cb = conn[c].wait_cb
      BY <3>1 DEF ConnEntry
    <3>3. conn' = [conn EXCEPT ![c] = e]
      BY <2>2
    <3> HIDE DEF e
    <3>4. e.leaked = 0 /\ (e.wait_cb # <<>> => e.refcount + Len(todo') >= MAX_RPCS_IN_FLIGHT)
      BY <2>2, <3>1, <3>2 DEF WakerOK
    <3>5. QED
      BY <1>0, <2>1, <2>2, <3>2, <3>3, <3>4, WakerEntry
  <2>3. QED
    BY <1>0, <1>1, <2>1, <2>2, WakerDelete
<1>7. ASSUME NEW c, ReapConnEntry(c) PROVE WakerOK'
  BY <1>0, <1>7, WakerDelete DEF ReapConnEntry
<1>8. ASSUME NEW r, CallbackAfterDelete(r) PROVE WakerOK'
  BY <1>1, <1>8 DEF CallbackAfterDelete
<1>9. ASSUME EstablishFails PROVE WakerOK'
  BY <1>1, <1>9 DEF EstablishFails
<1>10. CASE UNCHANGED vars
  BY <1>1, <1>10 DEF vars
<1>11. \A r : ~ (\/ GetDescriptorsClnt(r) \/ GetBitmapClnt(r) \/ DescReply(r) \/ BitmapReply(r)
                 \/ ErrorReply(r))
  BY DEF GetDescriptorsClnt, GetBitmapClnt, DescReply, BitmapReply, ErrorReply
<1>12. QED
  BY <1>2, <1>3, <1>4, <1>5, <1>6, <1>7, <1>8, <1>9, <1>10, <1>11 DEF Next

\* No request waits in vain: when only chunks are asked for and no reply is an error,
\* an entry that requests wait on has a call outstanding, whose end, through
\* check_outstanding or ~conn_entry, calls one of them; whatever breaks or idles out.
THEOREM WaitersAreCalled ==
  ASSUME Desc = {}, Bitmap = {}, "reply" \notin Faults
  PROVE  Spec => []WaitersHaveAWaker
<1>1. Init => WakerOK
  <2> SUFFICES ASSUME Init PROVE WakerOK
    OBVIOUS
  <2>1. cache = <<>> /\ connecting = {} /\ conn = <<>>
    BY DEF Init
  <2>2. Len(cache) <= 1 /\ 1 .. Len(conn) = {}
    BY <2>1
  <2>3. QED
    BY <2>1, <2>2 DEF WakerOK
<1>2. IInv /\ WakerOK /\ [Next]_vars => WakerOK'
  BY NextWaker
<1>3. ASSUME IInv, WakerOK PROVE WaitersHaveAWaker
  <2> SUFFICES ASSUME Event, NEW c \in 1 .. Len(conn), conn[c].wait_cb # <<>>
               PROVE  conn[c].refcount >= MAX_RPCS_IN_FLIGHT /\ InFlight(c) # {}
    BY DEF WaitersHaveAWaker
  <2>1. TypeOK /\ IsCached(c) /\ conn[c].opened >= 1
    BY <1>3 DEF IInv, CacheOK
  <2>2. Accounted(c)
    BY <1>3, <2>1 DEF IInv, RefcountOK
  <2>3. conn[c].refcount \in Int /\ conn[c].opened \in Nat
    BY <2>1, EntryTypes
  <2>4. conn[c].leaked = 0 /\ conn[c].refcount + Len(todo) >= MAX_RPCS_IN_FLIGHT
    BY <1>3 DEF WakerOK
  <2>5. Len(todo) = 0
    BY DEF Event
  <2>6. conn[c].refcount >= MAX_RPCS_IN_FLIGHT
    BY <2>3, <2>4, <2>5
  <2>7. conn[c].refcount = Cardinality(InFlight(c)) + conn[c].leaked - (conn[c].opened - 1)
    BY <2>2 DEF Accounted
  <2>8. Cardinality(InFlight(c)) # 0
    BY <2>1, <2>3, <2>4, <2>6, <2>7, LimitAssumption
  <2>9. QED
    BY <2>6, <2>8, FS_EmptySet
<1>4. QED
  BY <1>1, <1>2, <1>3, AlwaysIInv, PTL DEF Spec

=============================================================================
