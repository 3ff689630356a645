---------------------------- MODULE GtcdStartProofs ----------------------------
(***************************************************************************)
(* Proofs about GtcdStart, for every number of processes, every set of     *)
(* sockets, ports and plugins, and every configuration file: a daemon that *)
(* is up is reachable and runs as its file says, and nothing but a reason  *)
(* outside it stops a daemon from coming up.                               *)
(***************************************************************************)
EXTENDS GtcdStart, Integers, FiniteSetTheorems, SequenceTheorems, WellFoundedInduction, TLAPS

-----------------------------------------------------------------------------
(* The inductive invariant *)

Heads       == {"storage", "transfer", "routing", "sniffer"}
Name        == STRING \ {Blank, "null"}
Reason      == {"socket", "config", "chain", "port", "routes", "configure"}
SocketSteps == {"bind"} \cup Between
Plugin      == [name : STRING, next : STRING \cup {Blank}, more : Seq(Name)]

ProcRecord ==
  [pc : Gone \cup SocketSteps \cup {"parse", "storage", "transfer", "running"},
   listen : Sock \cup {Blank}, file : Seq(Line), cur : Sock \cup {Blank}, listening : SUBSET Sock,
   sp_list : Seq(Line), xp_list : Seq(Line), sPluginPtr : Seq(Plugin), xPluginPtr : Seq(Plugin),
   xpvec : Seq(Name), sp : STRING \cup {Blank},
   xp : STRING \cup {Blank}, why : Reason \cup {Blank}]

\* The state has its types.
StartType ==
  /\ proc \in [Daemon -> ProcRecord]
  /\ path \in [Sock -> Daemon \cup {None}] /\ port \in [Port -> Daemon \cup {None}]

\* The chain of line j leads to lines behind it.
Forward(lines, j) ==
  \A k \in 1 .. Len(lines[j].chain) :
    \E m \in j + 1 .. Len(lines) : lines[m].name = lines[j].chain[k]

\* s is the beginning of t.
Begins(s, t) == Len(s) <= Len(t) /\ \A j \in 1 .. Len(s) : s[j] = t[j]

\* The lines behind the first n of the section were good, tab has their plugins, and
\* last is that of the first of them.
SectionBuilt(lines, n, tab, last, known) ==
  /\ \A j \in n + 1 .. Len(lines) : lines[j].name \in known /\ Forward(lines, j)
  /\ Built(tab) = {lines[j].name : j \in n + 1 .. Len(lines)}
  /\ last = IF n = Len(lines) THEN Blank ELSE lines[n + 1].name

StorageBuilt(p, n) ==
  LET lines == Parsed[p.file].sp IN
  /\ SectionBuilt(lines, n, p.sPluginPtr, p.sp, StoragePlugins)
  /\ \A j \in n + 1 .. Len(lines) : Len(lines[j].chain) <= 1

\* Plugin q is chained to ch alone, or to the list ch.
ChainedTo(q, ch) ==
  /\ q.more = IF Len(ch) > 1 THEN ch ELSE <<>>
  /\ q.next = IF Len(ch) = 1 THEN ch[1] ELSE Blank

TransferBuilt(p, n) ==
  LET lines == Parsed[p.file].xp
      tab   == p.xPluginPtr IN
  /\ SectionBuilt(lines, n, tab, p.xp, XferPlugins)
  /\ Len(tab) = Len(lines) - n
  /\ \A i \in 1 .. Len(tab) :
       /\ tab[i].name = lines[Len(lines) + 1 - i].name
       /\ (\A j \in 1 .. i - 1 : tab[j].more = <<>>) => ChainedTo(tab[i], lines[Len(lines) + 1 - i].chain)
  /\ (\A i \in 1 .. Len(tab) : tab[i].more = <<>>) => p.xpvec = <<>>
  /\ p.xpvec = <<>> <=> \A j \in n + 1 .. Len(lines) : Len(lines[j].chain) <= 1
  /\ \A j \in n + 1 .. Len(lines) :
       lines[j].name = "gtc" =>
         /\ PortOf(lines[j]) \in Port
         /\ Len(lines[j].chain) = 1 => \E m \in j + 1 .. Len(lines) : Len(lines[m].chain) > 1
         /\ \A m \in n + 1 .. Len(lines) :
              m # j /\ lines[m].name = "gtc" => PortOf(lines[m]) # PortOf(lines[j])

NothingBuilt(p) ==
  /\ p.sPluginPtr = <<>> /\ p.sp = Blank /\ p.xPluginPtr = <<>> /\ p.xpvec = <<>> /\ p.xp = Blank

AllBuilt(p) ==
  /\ ~ Parsed[p.file].errors /\ StorageBuilt(p, 0) /\ TransferBuilt(p, 0)

\* Where a process is: it takes its own socket, reads the file, builds the plugins of the
\* storage and of the transfer, takes the socket of its sniffer, and is up.
TakesOwn(p) ==
  p.pc \in SocketSteps /\ p.listening = {} /\ p.cur = p.listen /\ NothingBuilt(p)

ReadsFile(p) ==
  p.pc = "parse" /\ p.listening = {p.listen} /\ NothingBuilt(p)

BuildsStorage(p) ==
  /\ p.pc = "storage" /\ p.listening = {p.listen} /\ ~ Parsed[p.file].errors
  /\ Begins(p.sp_list, Parsed[p.file].sp) /\ StorageBuilt(p, Len(p.sp_list))
  /\ p.xp_list = Parsed[p.file].xp
  /\ p.xPluginPtr = <<>> /\ p.xpvec = <<>> /\ p.xp = Blank

BuildsTransfer(p) ==
  /\ p.pc = "transfer" /\ p.listening = {p.listen} /\ ~ Parsed[p.file].errors
  /\ StorageBuilt(p, 0)
  /\ Begins(p.xp_list, Parsed[p.file].xp) /\ TransferBuilt(p, Len(p.xp_list))

TakesSniffers(p) ==
  /\ p.pc \in SocketSteps /\ p.listening = {p.listen} /\ p.xp_list = <<>>
  /\ SnifferInfo[p.file] = [res |-> "tcp", sock |-> p.cur] /\ AllBuilt(p)

IsUp(p) ==
  /\ p.pc = "running" /\ p.listening = {p.listen} \cup SniffSocket(p.file) /\ p.xp_list = <<>>
  /\ SnifferInfo[p.file].res \in {"tcp", "none"} /\ AllBuilt(p)

ProcInv(p) ==
  /\ p.pc \in Gone => p.listening = {}
  /\ p.pc \notin Gone => /\ p.file \in File
                         /\ {p.listen} \cup SniffSocket(p.file) \subseteq Sock
                         /\ \/ TakesOwn(p) \/ ReadsFile(p) \/ BuildsStorage(p)
                            \/ BuildsTransfer(p) \/ TakesSniffers(p) \/ IsUp(p)

\* The ports of the gtc plugins that a process has built.
GtcBuilt(p) ==
  LET lines == Parsed[p.file].xp
  IN  IF p.xPluginPtr = <<>> THEN {}
      ELSE {PortOf(lines[j]) : j \in {i \in Len(p.xp_list) + 1 .. Len(lines) : lines[i].name = "gtc"}}

\* A port is taken by the process that built a gtc plugin for it.
PortInv ==
  /\ \A d \in Daemon : Alive(d) => \A p \in GtcBuilt(proc[d]) : p \in Port /\ port[p] = d
  /\ \A p \in Port : port[p] # None => Alive(port[p]) /\ p \in GtcBuilt(proc[port[p]])

\* One process at a time goes through the steps of a socket; what it unlinks nobody
\* listens on, and the socket of a process that listens stays in its place.
SocketInv ==
  /\ \A d, e \in Daemon : d # e /\ proc[d].pc \in Between /\ proc[e].pc \in Between
                             => proc[d].cur # proc[e].cur
  /\ \A d \in Daemon :
       /\ proc[d].pc = "unlink" => ~ Answers(proc[d].cur)
       /\ proc[d].pc = "rebind" => path[proc[d].cur] = None
       /\ proc[d].pc = "listen" => path[proc[d].cur] = d
       /\ Alive(d) => \A s \in proc[d].listening : path[s] = d

StartInv == /\ StartType
            /\ \A d \in Daemon : ProcInv(proc[d])
            /\ PortInv
            /\ ~ overlap => SocketInv

-----------------------------------------------------------------------------
(* The parser of the configuration file *)

\* A nonempty set of numbers has a least one.
LEMMA LeastNumber ==
  ASSUME NEW T \in SUBSET Nat, T # {}
  PROVE  \E m \in T : \A n \in T : m <= n
<1>1. PICK m \in T : \A n \in T : ~ (<<n, m>> \in OpToRel(<, Nat))
  BY NatLessThanWellFounded, WFMin, Zenon
<1>2. \A n \in T : ~ (n < m)
  BY <1>1 DEF OpToRel
<1>3. QED
  BY <1>2

\* The word that is none is none of the others.
LEMMA BlankIsNone == Blank \notin Heads \cup {"none"} /\ Blank \notin Name
<1>1. Blank # "storage" /\ Blank # "transfer" /\ Blank # "routing" /\ Blank # "sniffer" /\ Blank # "none"
  BY DEF Blank
<1>2. Blank \notin Name
  BY DEF Blank, Name
<1>3. QED
  BY <1>1, <1>2 DEF Heads

StartState == [state |-> "none", saw |-> {}, errors |-> FALSE, sp |-> <<>>, xp |-> <<>>]

\* st is what the parser has found after each of the first n lines.
Parses(f, st, n) ==
  st = [k \in 0 .. n |-> IF k = 0 THEN StartState ELSE ConfigLine(st[k - 1], f[k])]

\* The parser gets through the file.
LEMMA ParserEnds ==
  ASSUME NEW f \in Seq(Line)
  PROVE  \E st : Parses(f, st, Len(f)) /\ ParseLines(f) = st[Len(f)]
<1> DEFINE T == {n \in Nat : ~ \E st : Parses(f, st, n)}
<1>1. T = {}
  <2> SUFFICES ASSUME T # {} PROVE FALSE
    OBVIOUS
  <2>1. PICK m \in T : \A n \in T : m <= n
    BY LeastNumber
  <2>2. m # 0
    <3>1. Parses(f, [k \in 0 .. 0 |-> StartState], 0)
      BY DEF Parses
    <3>2. QED
      BY <2>1, <3>1
  <2>3. PICK st : Parses(f, st, m - 1)
    BY <2>1, <2>2
  <2> DEFINE u == [k \in 0 .. m |-> IF k = m THEN ConfigLine(st[m - 1], f[m]) ELSE st[k]]
  <2>4. \A k \in 0 .. m - 1 : u[k] = st[k]
    BY <2>1, <2>2
  <2>5. \A k \in 0 .. m - 1 : st[k] = IF k = 0 THEN StartState ELSE ConfigLine(st[k - 1], f[k])
    BY <2>3 DEF Parses
  <2>6. ASSUME NEW k \in 0 .. m
        PROVE  u[k] = IF k = 0 THEN StartState ELSE ConfigLine(u[k - 1], f[k])
    <3>1. CASE k = m
      BY <2>1, <2>2, <2>4, <3>1
    <3>2. CASE k # m
      <4>1. k \in 0 .. m - 1 /\ (k # 0 => k - 1 \in 0 .. m - 1)
        BY <2>1, <3>2
      <4>2. QED
        BY <2>4, <2>5, <4>1
    <3>3. QED
      BY <3>1, <3>2
  <2>7. Parses(f, u, m)
    BY <2>6 DEF Parses
  <2>8. QED
    BY <2>1, <2>7
<1>2. \E st : Parses(f, st, Len(f))
  <2>1. Len(f) \in Nat
    BY LenProperties
  <2>2. QED
    BY <1>1, <2>1
<1> DEFINE P(st) == st = [k \in 0 .. Len(f) |->
                            IF k = 0 THEN [state |-> "none", saw |-> {}, errors |-> FALSE,
                                           sp |-> <<>>, xp |-> <<>>]
                            ELSE ConfigLine(st[k - 1], f[k])]
           chosen == CHOOSE st : P(st)
<1>3. ParseLines(f) = chosen[Len(f)]
  BY DEF ParseLines
<1>4. \E st : P(st)
  BY <1>2 DEF Parses, StartState
<1>5. P(chosen)
  <2> HIDE DEF P
  <2>1. QED
    BY <1>4
<1>6. Parses(f, chosen, Len(f))
  BY <1>5 DEF Parses, StartState
<1>7. QED
  BY <1>3, <1>6

ParseState ==
  [state : Heads \cup {"none"}, saw : SUBSET Heads, errors : BOOLEAN, sp : Seq(Line), xp : Seq(Line)]

\* In the first k lines every line is in a section, and no section comes twice.
Orderly(f, k) ==
  /\ \A i \in 1 .. k : f[i].head = Blank => \E h \in 1 .. i : f[h].head # Blank
  /\ \A i, j \in 1 .. k : f[i].head # Blank /\ f[i].head = f[j].head => i = j

\* The last header in the first k lines, if there is one, is c.
LastHead(f, k, c) ==
  IF c = "none" THEN k = 0
  ELSE \E h \in 1 .. k : f[h].head = c /\ \A j \in h + 1 .. k : f[j].head = Blank

\* s has the lines of section sec that are among the first k, which follow each other.
Gathered(f, k, sec, c, s) ==
  \E a \in 0 .. k :
    /\ \A i \in 1 .. k : i \in Lines(f, sec) <=> i \in a + 1 .. a + Len(s)
    /\ a + Len(s) <= k
    /\ \A j \in 1 .. Len(s) : s[j] = f[a + j]
    /\ c = sec => a + Len(s) = k

\* What the parser knows after k lines.
Parsing(f, k, s) ==
  /\ s \in ParseState
  /\ s.saw = {f[i].head : i \in {j \in 1 .. k : f[j].head # Blank}}
  /\ ~ s.errors <=> Orderly(f, k)
  /\ ~ s.errors => /\ LastHead(f, k, s.state)
                   /\ Gathered(f, k, "storage", s.state, s.sp)
                   /\ Gathered(f, k, "transfer", s.state, s.xp)

\* Which section a line is in, by the last header.
LEMMA SectionOfLine ==
  ASSUME NEW f \in Seq(Line), NEW k \in 1 .. Len(f), NEW c \in Heads, LastHead(f, k - 1, c),
         f[k].head = Blank, NEW sec \in Heads
  PROVE  k \in Lines(f, sec) <=> c = sec
<1>1. Len(f) \in Nat
  BY LenProperties
<1>2. PICK h \in 1 .. k - 1 : f[h].head = c /\ \A j \in h + 1 .. k - 1 : f[j].head = Blank
  BY DEF LastHead, Heads
<1>3. k \in DOMAIN f
  BY <1>1, LenProperties
<1>4. ASSUME c = sec
      PROVE  k \in Lines(f, sec)
  <2>1. h \in 1 .. k /\ \A j \in h + 1 .. k : f[j].head = Blank
    BY <1>1, <1>2
  <2>2. QED
    BY <1>2, <1>3, <1>4, <2>1 DEF Lines
<1>5. ASSUME k \in Lines(f, sec)
      PROVE  c = sec
  <2>1. PICK g \in 1 .. k : f[g].head = sec /\ \A j \in g + 1 .. k : f[j].head = Blank
    BY <1>5 DEF Lines
  <2>2. sec # Blank /\ c # Blank
    BY BlankIsNone
  <2>3. g # k
    BY <2>1, <2>2
  <2>4. ~ (g < h)
    <3>1. ASSUME g < h
          PROVE  f[h].head = Blank
      BY <1>1, <1>2, <2>1, <3>1
    <3>2. QED
      BY <1>2, <2>2, <3>1
  <2>5. ~ (h < g)
    <3>1. ASSUME h < g
          PROVE  f[g].head = Blank
      BY <1>1, <1>2, <2>1, <2>3, <3>1
    <3>2. QED
      BY <2>1, <2>2, <3>1
  <2>6. QED
    BY <1>1, <1>2, <2>1, <2>4, <2>5
<1>6. QED
  BY <1>4, <1>5

\* A line that is not a header, in a section.
LEMMA GatherLine ==
  ASSUME NEW f \in Seq(Line), NEW k \in 1 .. Len(f), f[k].head = Blank,
         NEW c \in Heads, LastHead(f, k - 1, c), NEW sec \in Heads,
         NEW s \in Seq(Line), Gathered(f, k - 1, sec, c, s)
  PROVE  Gathered(f, k, sec, c, IF c = sec THEN Append(s, f[k]) ELSE s)
<1>1. Len(f) \in Nat /\ f[k] \in Line /\ Len(s) \in Nat
  BY LenProperties, ElementOfSeq
<1>2. PICK a \in 0 .. k - 1 :
        /\ \A i \in 1 .. k - 1 : i \in Lines(f, sec) <=> i \in a + 1 .. a + Len(s)
        /\ a + Len(s) <= k - 1
        /\ \A j \in 1 .. Len(s) : s[j] = f[a + j]
        /\ c = sec => a + Len(s) = k - 1
  BY DEF Gathered
<1>3. k \in Lines(f, sec) <=> c = sec
  BY SectionOfLine
<1> DEFINE t == IF c = sec THEN Append(s, f[k]) ELSE s
<1>4. CASE c = sec
  <2>1. Len(t) = Len(s) + 1 /\ t[Len(s) + 1] = f[k] /\ \A j \in 1 .. Len(s) : t[j] = s[j]
    BY <1>1, <1>4, AppendProperties
  <2>2. \A i \in 1 .. k : i \in Lines(f, sec) <=> i \in a + 1 .. a + Len(t)
    BY <1>1, <1>2, <1>3, <1>4, <2>1
  <2>3. \A j \in 1 .. Len(t) : t[j] = f[a + j]
    BY <1>1, <1>2, <1>4, <2>1
  <2>4. a \in 0 .. k /\ a + Len(t) = k
    BY <1>1, <1>2, <1>4, <2>1
  <2>5. Len(t) \in Nat /\ a + Len(t) <= k
    BY <1>1, <2>1, <2>4
  <2>6. Gathered(f, k, sec, c, t)
    <3> HIDE DEF t
    <3>1. QED
      BY <2>2, <2>3, <2>4, <2>5 DEF Gathered
  <2>7. QED
    BY <2>6
<1>5. CASE c # sec
  <2>1. \A i \in 1 .. k : i \in Lines(f, sec) <=> i \in a + 1 .. a + Len(s)
    BY <1>1, <1>2, <1>3, <1>5
  <2>2. a \in 0 .. k /\ a + Len(s) <= k
    BY <1>1, <1>2
  <2>3. QED
    BY <1>2, <1>5, <2>1, <2>2 DEF Gathered
<1>6. QED
  BY <1>4, <1>5

\* A header: of the section that begins there is nothing yet.
LEMMA GatherHeader ==
  ASSUME NEW f \in Seq(Line), NEW k \in 1 .. Len(f), f[k].head # Blank, Orderly(f, k),
         NEW c, NEW sec \in Heads, NEW s \in Seq(Line), Gathered(f, k - 1, sec, c, s)
  PROVE  Gathered(f, k, sec, f[k].head, s)
<1>1. Len(f) \in Nat /\ Len(s) \in Nat
  BY LenProperties
<1>2. PICK a \in 0 .. k - 1 :
        /\ \A i \in 1 .. k - 1 : i \in Lines(f, sec) <=> i \in a + 1 .. a + Len(s)
        /\ a + Len(s) <= k - 1
        /\ \A j \in 1 .. Len(s) : s[j] = f[a + j]
  BY DEF Gathered
<1>3. k \notin Lines(f, sec)
  BY DEF Lines
<1>4. CASE f[k].head # sec
  <2>1. \A i \in 1 .. k : i \in Lines(f, sec) <=> i \in a + 1 .. a + Len(s)
    BY <1>1, <1>2, <1>3
  <2>2. a \in 0 .. k /\ a + Len(s) <= k
    BY <1>1, <1>2
  <2>3. QED
    BY <1>2, <1>4, <2>1, <2>2 DEF Gathered
<1>5. CASE f[k].head = sec
  <2>1. ASSUME NEW i \in 1 .. k - 1
        PROVE  i \notin Lines(f, sec)
    <3>1. \A h \in 1 .. k - 1 : f[h].head # sec
      BY <1>1, <1>5 DEF Orderly
    <3>2. \A h \in 1 .. i : f[h].head # sec
      BY <1>1, <3>1
    <3>3. QED
      BY <3>2 DEF Lines
  <2>2. Len(s) = 0
    <3>1. ASSUME Len(s) # 0
          PROVE  a + 1 \in 1 .. k - 1 /\ a + 1 \in a + 1 .. a + Len(s)
      BY <1>1, <1>2, <3>1
    <3>2. QED
      BY <1>2, <2>1, <3>1
  <2>3. \A i \in 1 .. k : i \in Lines(f, sec) <=> i \in k + 1 .. k + Len(s)
    BY <1>1, <1>3, <2>1, <2>2
  <2>4. \A j \in 1 .. Len(s) : s[j] = f[k + j]
    BY <2>2
  <2>5. k \in 0 .. k /\ k + Len(s) <= k /\ k + Len(s) = k
    BY <1>1, <2>2
  <2>6. QED
    BY <2>3, <2>4, <2>5 DEF Gathered
<1>6. QED
  BY <1>4, <1>5

\* Whether the lines are in order is known line by line.
LEMMA OrderlyStep ==
  ASSUME NEW f \in Seq(Line), NEW k \in 1 .. Len(f)
  PROVE  Orderly(f, k) <=>
           /\ Orderly(f, k - 1)
           /\ f[k].head = Blank => \E h \in 1 .. k - 1 : f[h].head # Blank
           /\ f[k].head # Blank => \A h \in 1 .. k - 1 : f[h].head # f[k].head
<1>1. Len(f) \in Nat /\ k \in Nat \ {0}
  BY LenProperties
<1>2. 1 .. k = (1 .. k - 1) \cup {k} /\ k \notin 1 .. k - 1
  BY <1>1
<1>3. ASSUME f[k].head = Blank
      PROVE  (\E h \in 1 .. k : f[h].head # Blank) <=> (\E h \in 1 .. k - 1 : f[h].head # Blank)
  BY <1>2, <1>3
<1>4. QED
  BY <1>2, <1>3 DEF Orderly

\* What the parser knows before the first line.
LEMMA ParseStart ==
  ASSUME NEW f \in Seq(Line)
  PROVE  Parsing(f, 0, StartState)
<1> DEFINE s == StartState
<1>1. s.state = "none" /\ s.saw = {} /\ s.errors = FALSE /\ s.sp = <<>> /\ s.xp = <<>>
  BY DEF StartState
<1>2. s \in ParseState
  BY EmptySeq DEF StartState, ParseState
<1>3. 1 .. 0 = {}
  OBVIOUS
<1>4. Orderly(f, 0)
  BY <1>3 DEF Orderly
<1>5. {f[i].head : i \in {j \in 1 .. 0 : f[j].head # Blank}} = {}
  BY <1>3
<1>6. ASSUME NEW sec \in Heads
      PROVE  Gathered(f, 0, sec, "none", <<>>)
  <2>1. Len(<<>>) = 0
    BY EmptySeq
  <2>2. \A i \in 1 .. 0 : i \in Lines(f, sec) <=> i \in 0 + 1 .. 0 + Len(<<>>)
    BY <1>3
  <2>3. 0 \in 0 .. 0 /\ 0 + Len(<<>>) <= 0 /\ (\A j \in 1 .. Len(<<>>) : <<>>[j] = f[0 + j])
        /\ 0 + Len(<<>>) = 0
    BY <2>1
  <2>4. QED
    BY <2>2, <2>3 DEF Gathered
<1>7. Gathered(f, 0, "storage", s.state, s.sp) /\ Gathered(f, 0, "transfer", s.state, s.xp)
  BY <1>1, <1>6 DEF Heads
<1>8. LastHead(f, 0, s.state)
  BY <1>1 DEF LastHead
<1>9. QED
  <2> HIDE DEF s
  <2>1. Parsing(f, 0, s)
    BY <1>1, <1>2, <1>4, <1>5, <1>7, <1>8 DEF Parsing
  <2>2. QED
    BY <2>1 DEF s

\* What it knows after the next one.
LEMMA ParseStep ==
  ASSUME NEW f \in Seq(Line), NEW k \in 1 .. Len(f), NEW s, Parsing(f, k - 1, s)
  PROVE  Parsing(f, k, ConfigLine(s, f[k]))
<1> DEFINE line == f[k]
           t    == ConfigLine(s, f[k])
<1> SUFFICES Parsing(f, k, t)
  OBVIOUS
<1>0. t = ConfigLine(s, line)
  OBVIOUS
<1> HIDE DEF t
<1>1. /\ Len(f) \in Nat /\ k \in Nat /\ 1 <= k /\ k <= Len(f)
      /\ line \in Line
  BY LenProperties, ElementOfSeq
<1>2. /\ s \in ParseState /\ s.sp \in Seq(Line) /\ s.xp \in Seq(Line) /\ s.errors \in BOOLEAN
      /\ s.saw = {f[i].head : i \in {j \in 1 .. k - 1 : f[j].head # Blank}}
      /\ ~ s.errors <=> Orderly(f, k - 1)
      /\ ~ s.errors => /\ LastHead(f, k - 1, s.state)
                       /\ Gathered(f, k - 1, "storage", s.state, s.sp)
                       /\ Gathered(f, k - 1, "transfer", s.state, s.xp)
  BY DEF Parsing, ParseState
<1>3. /\ "storage" \in Heads /\ "transfer" \in Heads /\ "none" \notin Heads /\ Blank \notin Heads
      /\ line.head # Blank => line.head \in Heads
  BY <1>1, BlankIsNone DEF Heads, Line
<1>4. {i \in 1 .. k : f[i].head # Blank}
        = {i \in 1 .. k - 1 : f[i].head # Blank} \cup (IF line.head = Blank THEN {} ELSE {k})
  BY <1>1
<1>5. CASE line.head # Blank /\ line.head \in s.saw
  <2>1. t = [s EXCEPT !.errors = TRUE]
    BY <1>0, <1>5 DEF ConfigLine
  <2>2. t \in ParseState /\ t.errors = TRUE /\ t.saw = s.saw
    BY <1>2, <2>1 DEF ParseState
  <2>3. t.saw = {f[i].head : i \in {j \in 1 .. k : f[j].head # Blank}}
    BY <1>2, <1>4, <1>5, <2>2
  <2>4. ~ Orderly(f, k)
    BY <1>2, <1>5, OrderlyStep
  <2>5. QED
    BY <2>2, <2>3, <2>4 DEF Parsing
<1>6. CASE line.head # Blank /\ line.head \notin s.saw
  <2>1. t = [s EXCEPT !.state = line.head, !.saw = s.saw \cup {line.head}]
    BY <1>0, <1>6 DEF ConfigLine
  <2>2. /\ t \in ParseState /\ t.errors = s.errors /\ t.saw = s.saw \cup {line.head}
        /\ t.state = line.head /\ t.sp = s.sp /\ t.xp = s.xp
    BY <1>2, <1>3, <1>6, <2>1 DEF ParseState
  <2>3. t.saw = {f[i].head : i \in {j \in 1 .. k : f[j].head # Blank}}
    BY <1>2, <1>4, <1>6, <2>2
  <2>4. Orderly(f, k) <=> Orderly(f, k - 1)
    BY <1>2, <1>6, OrderlyStep
  <2>5. LastHead(f, k, line.head)
    <3>1. \A j \in k + 1 .. k : f[j].head = Blank
      BY <1>1
    <3>2. QED
      BY <1>1, <1>3, <1>6, <3>1 DEF LastHead
  <2>6. ASSUME ~ s.errors
        PROVE  Gathered(f, k, "storage", line.head, s.sp) /\ Gathered(f, k, "transfer", line.head, s.xp)
    BY <1>2, <1>3, <1>6, <2>4, <2>6, GatherHeader
  <2>7. QED
    BY <1>2, <2>2, <2>3, <2>4, <2>5, <2>6 DEF Parsing
<1>7. CASE line.head = Blank
  <2>1. t = CASE s.state = "none"     -> [s EXCEPT !.errors = TRUE]
              [] s.state = "storage"  -> [s EXCEPT !.sp = Append(s.sp, line)]
              [] s.state = "transfer" -> [s EXCEPT !.xp = Append(s.xp, line)]
              [] OTHER                -> s
    BY <1>0, <1>7 DEF ConfigLine
  <2>2. /\ t.saw = s.saw /\ t.state = s.state
        /\ t.errors = (s.errors \/ s.state = "none")
        /\ t.sp = IF s.state = "storage" THEN Append(s.sp, line) ELSE s.sp
        /\ t.xp = IF s.state = "transfer" THEN Append(s.xp, line) ELSE s.xp
        /\ t \in ParseState
    <3>1. Append(s.sp, line) \in Seq(Line) /\ Append(s.xp, line) \in Seq(Line)
      BY <1>1, <1>2, AppendProperties
    <3>2. CASE s.state = "none"
      BY <1>2, <2>1, <3>2 DEF ParseState
    <3>3. CASE s.state = "storage"
      BY <1>2, <2>1, <3>1, <3>3 DEF ParseState
    <3>4. CASE s.state = "transfer"
      BY <1>2, <2>1, <3>1, <3>4 DEF ParseState
    <3>5. CASE s.state \notin {"none", "storage", "transfer"}
      BY <1>2, <2>1, <3>5 DEF ParseState
    <3>6. QED
      BY <3>2, <3>3, <3>4, <3>5
  <2>3. t.saw = {f[i].head : i \in {j \in 1 .. k : f[j].head # Blank}}
    BY <1>2, <1>4, <1>7, <2>2
  <2>4. ~ s.errors => (s.state = "none" <=> ~ \E h \in 1 .. k - 1 : f[h].head # Blank)
    <3>1. ASSUME ~ s.errors, s.state = "none"
          PROVE  1 .. k - 1 = {}
      BY <1>1, <1>2, <3>1 DEF LastHead
    <3>2. ASSUME ~ s.errors, s.state # "none"
          PROVE  \E h \in 1 .. k - 1 : f[h].head # Blank
      <4>1. s.state \in Heads
        BY <1>2, <3>2 DEF ParseState
      <4>2. QED
        BY <1>2, <1>3, <3>2, <4>1 DEF LastHead
    <3>3. QED
      BY <3>1, <3>2
  <2>5. ~ t.errors <=> Orderly(f, k)
    BY <1>2, <1>7, <2>2, <2>4, OrderlyStep
  <2>6. ASSUME ~ t.errors
        PROVE  /\ LastHead(f, k, t.state)
               /\ Gathered(f, k, "storage", t.state, t.sp) /\ Gathered(f, k, "transfer", t.state, t.xp)
    <3>1. ~ s.errors /\ s.state \in Heads /\ s.state # "none"
      BY <1>2, <2>2, <2>6 DEF ParseState
    <3>2. LastHead(f, k, s.state)
      <4>1. PICK h \in 1 .. k - 1 : f[h].head = s.state /\ \A j \in h + 1 .. k - 1 : f[j].head = Blank
        BY <1>2, <3>1 DEF LastHead
      <4>2. h \in 1 .. k /\ \A j \in h + 1 .. k : f[j].head = Blank
        BY <1>1, <1>7, <4>1
      <4>3. QED
        BY <3>1, <4>1, <4>2 DEF LastHead
    <3>3. /\ Gathered(f, k, "storage", s.state, IF s.state = "storage" THEN Append(s.sp, line) ELSE s.sp)
          /\ Gathered(f, k, "transfer", s.state, IF s.state = "transfer" THEN Append(s.xp, line) ELSE s.xp)
      BY <1>2, <1>3, <1>7, <3>1, GatherLine
    <3>4. QED
      BY <2>2, <3>2, <3>3
  <2>7. QED
    BY <2>2, <2>3, <2>5, <2>6 DEF Parsing
<1>8. QED
  BY <1>5, <1>6, <1>7

\* What it knows at the end of the file.
LEMMA ParseEnd ==
  ASSUME NEW f \in Seq(Line)
  PROVE  Parsing(f, Len(f), ParseLines(f))
<1>1. PICK st : Parses(f, st, Len(f)) /\ ParseLines(f) = st[Len(f)]
  BY ParserEnds
<1>2. Len(f) \in Nat
  BY LenProperties
<1> DEFINE T == {n \in 0 .. Len(f) : ~ Parsing(f, n, st[n])}
<1>3. T = {}
  <2> SUFFICES ASSUME T # {} PROVE FALSE
    OBVIOUS
  <2>1. T \in SUBSET Nat
    BY <1>2
  <2>2. PICK m \in T : \A n \in T : m <= n
    BY <2>1, LeastNumber
  <2>3. st[0] = StartState /\ \A k \in 1 .. Len(f) : st[k] = ConfigLine(st[k - 1], f[k])
    BY <1>1, <1>2 DEF Parses
  <2>4. m # 0
    BY <2>2, <2>3, ParseStart
  <2>5. m \in 1 .. Len(f) /\ m - 1 \in 0 .. Len(f) /\ m - 1 \notin T
    BY <1>2, <2>2, <2>4
  <2>6. Parsing(f, m - 1, st[m - 1])
    BY <2>5
  <2>7. Parsing(f, m, st[m])
    BY <2>3, <2>5, <2>6, ParseStep
  <2>8. QED
    BY <2>2, <2>7
<1>4. QED
  BY <1>1, <1>2, <1>3

-----------------------------------------------------------------------------
(* What the two parsers find *)

WellFormed(f) ==
  /\ Orderly(f, Len(f))
  /\ \A sec \in {"storage", "transfer"} : \E h \in 1 .. Len(f) : f[h].head = sec

\* s has the lines of section sec, which follow each other.
Section(f, sec, s) ==
  \E a \in 0 .. Len(f) : /\ Lines(f, sec) = a + 1 .. a + Len(s) /\ a + Len(s) <= Len(f)
                         /\ \A j \in 1 .. Len(s) : s[j] = f[a + j]

\* The files are sequences of lines, and the sockets in them are sockets.
LEMMA FilesHaveLines ==
  ASSUME NEW f \in File
  PROVE  f \in Seq(Line) /\ Len(f) \in Nat /\ DOMAIN f = 1 .. Len(f) /\ SniffSocket(f) \subseteq Sock
<1>1. PICK d \in Daemon : \E a \in Starts[d] : f = a.file
  BY DEF File, Daemon
<1>2. f \in Seq(Line) /\ SniffSocket(f) \subseteq Sock
  BY <1>1, StartsAssumption
<1>3. QED
  BY <1>2, LenProperties

\* parse_config refuses every file that is not well-formed, and else has its sections.
LEMMA ParsedFile ==
  ASSUME NEW f \in File
  PROVE  /\ Parsed[f].sp \in Seq(Line) /\ Parsed[f].xp \in Seq(Line) /\ Parsed[f].errors \in BOOLEAN
         /\ ~ Parsed[f].errors <=> WellFormed(f)
         /\ ~ Parsed[f].errors => /\ Section(f, "storage", Parsed[f].sp)
                                  /\ Section(f, "transfer", Parsed[f].xp)
<1> DEFINE s == ParseLines(f)
           t == [s EXCEPT !.errors = s.errors \/ ~ ({"storage", "transfer"} \subseteq s.saw)]
<1>1. f \in Seq(Line) /\ Len(f) \in Nat /\ DOMAIN f = 1 .. Len(f)
  BY FilesHaveLines
<1>2. Parsing(f, Len(f), s)
  BY <1>1, ParseEnd
<1>3. Parsed[f] = t
  BY DEF Parsed, parse_config
<1>4. s \in ParseState
  BY <1>2 DEF Parsing
<1> HIDE DEF s
<1>5. /\ t.errors = (s.errors \/ ~ ({"storage", "transfer"} \subseteq s.saw))
      /\ t.sp = s.sp /\ t.xp = s.xp /\ s.sp \in Seq(Line) /\ s.xp \in Seq(Line) /\ s.errors \in BOOLEAN
  BY <1>4 DEF ParseState
<1>6. ASSUME NEW sec \in {"storage", "transfer"}
      PROVE  sec \in s.saw <=> (\E h \in 1 .. Len(f) : f[h].head = sec)
  <2>1. sec # Blank
    BY <1>6, BlankIsNone DEF Heads
  <2>2. s.saw = {f[i].head : i \in {j \in 1 .. Len(f) : f[j].head # Blank}}
    BY <1>2 DEF Parsing
  <2>3. QED
    BY <2>1, <2>2
<1>7. ~ t.errors <=> WellFormed(f)
  <2>1. ~ s.errors <=> Orderly(f, Len(f))
    BY <1>2 DEF Parsing
  <2>2. {"storage", "transfer"} \subseteq s.saw <=> (\A sec \in {"storage", "transfer"} : sec \in s.saw)
    OBVIOUS
  <2>3. QED
    BY <1>5, <1>6, <2>1, <2>2 DEF WellFormed
<1>8. ASSUME NEW sec \in Heads, NEW c, NEW lines \in Seq(Line), Gathered(f, Len(f), sec, c, lines)
      PROVE  Section(f, sec, lines)
  <2>1. PICK a \in 0 .. Len(f) :
          /\ \A i \in 1 .. Len(f) : i \in Lines(f, sec) <=> i \in a + 1 .. a + Len(lines)
          /\ a + Len(lines) <= Len(f)
          /\ \A j \in 1 .. Len(lines) : lines[j] = f[a + j]
    BY <1>8 DEF Gathered
  <2>2. Len(lines) \in Nat
    BY LenProperties
  <2>3. Lines(f, sec) \subseteq 1 .. Len(f)
    BY <1>1 DEF Lines
  <2>4. a + 1 .. a + Len(lines) \subseteq 1 .. Len(f)
    BY <1>1, <2>1, <2>2
  <2>5. Lines(f, sec) = a + 1 .. a + Len(lines)
    BY <2>1, <2>3, <2>4
  <2>6. QED
    BY <2>1, <2>5 DEF Section
<1>9. ~ t.errors => Section(f, "storage", s.sp) /\ Section(f, "transfer", s.xp)
  <2> SUFFICES ASSUME ~ t.errors PROVE Section(f, "storage", s.sp) /\ Section(f, "transfer", s.xp)
    OBVIOUS
  <2>1. Gathered(f, Len(f), "storage", s.state, s.sp) /\ Gathered(f, Len(f), "transfer", s.state, s.xp)
    BY <1>2, <1>5 DEF Parsing
  <2>2. "storage" \in Heads /\ "transfer" \in Heads
    BY DEF Heads
  <2>3. QED
    BY <1>5, <1>8, <2>1, <2>2
<1>10. QED
  BY <1>3, <1>5, <1>7, <1>9

\* The sniffer's parser takes the first line of the first section.
LEMMA SnifferFile ==
  ASSUME NEW f \in File
  PROVE  LET info == SnifferInfo[f] IN
         /\ info = [res |-> info.res, sock |-> info.sock]
         /\ info.res \in {"errors", "none", "tcp", "assert"}
         /\ info.res = "errors" <=> (\A h \in 1 .. Len(f) : f[h].head # "sniffer")
         /\ info.res = "assert" => \E h \in 1 .. Len(f) - 1 : f[h].head = "sniffer" /\ ~ Pair(f[h + 1])
         /\ info.res \in {"tcp", "none"} =>
              \E h \in 1 .. Len(f) : f[h].head = "sniffer" /\ (h < Len(f) => Pair(f[h + 1]))
         /\ info.res = "tcp" => SniffSocket(f) = {info.sock}
         /\ info.res = "none" => SniffSocket(f) = {}
<1> DEFINE at   == {i \in DOMAIN f : f[i].head = "sniffer"}
           h    == CHOOSE i \in at : \A j \in at : i <= j
           info == SnifferInfo[f]
<1>1. f \in Seq(Line) /\ Len(f) \in Nat /\ DOMAIN f = 1 .. Len(f)
  BY FilesHaveLines
<1>2. info = parse_config_sniffer_info(f)
  BY DEF SnifferInfo
<1> HIDE DEF info
<1>3. CASE at = {}
  <2>1. info = [res |-> "errors", sock |-> Blank]
    BY <1>2, <1>3 DEF parse_config_sniffer_info
  <2>2. QED
    BY <1>1, <1>3, <2>1 DEF info
<1>4. CASE at # {}
  <2>1. \E i \in at : \A j \in at : i <= j
    <3>1. at \in SUBSET Nat
      BY <1>1
    <3>2. QED
      BY <1>4, <3>1, LeastNumber
  <2>2. h \in at /\ \A j \in at : h <= j
    BY <2>1
  <2>0. info = CASE at = {}                  -> [res |-> "errors", sock |-> Blank]
                 [] at # {} /\ h = Len(f)    -> [res |-> "none", sock |-> Blank]
                 [] OTHER ->
                      IF ~ Pair(f[h + 1]) THEN [res |-> "assert", sock |-> Blank]
                      ELSE IF f[h + 1].name = "tcp" THEN [res |-> "tcp", sock |-> f[h + 1].conf]
                      ELSE [res |-> "none", sock |-> Blank]
    BY <1>2, Zenon DEF parse_config_sniffer_info
  <2>3. /\ h = Len(f) => info = [res |-> "none", sock |-> Blank]
        /\ h # Len(f) =>
             /\ ~ Pair(f[h + 1]) => info = [res |-> "assert", sock |-> Blank]
             /\ Pair(f[h + 1]) /\ f[h + 1].name = "tcp" =>
                  info = [res |-> "tcp", sock |-> f[h + 1].conf]
             /\ Pair(f[h + 1]) /\ f[h + 1].name # "tcp" =>
                  info = [res |-> "none", sock |-> Blank]
    <3> HIDE DEF at, h
    <3>1. QED
      BY <1>4, <2>0, Zenon
  <2> DEFINE good(i) == /\ f[i].head = "sniffer"
                        /\ \A j \in 1 .. i - 1 : f[j].head # "sniffer"
                        /\ Pair(f[i + 1]) /\ f[i + 1].name = "tcp"
  <2>4. SniffSocket(f) = {f[i + 1].conf : i \in {g \in 1 .. Len(f) - 1 : good(g)}}
    BY DEF SniffSocket
  <2> HIDE DEF h
  <2>5. h \in 1 .. Len(f) /\ f[h].head = "sniffer" /\ \A j \in 1 .. h - 1 : f[j].head # "sniffer"
    BY <1>1, <2>2
  <2>6. ASSUME NEW g \in 1 .. Len(f) - 1, good(g)
        PROVE  g = h
    BY <1>1, <2>5, <2>6
  <2> HIDE DEF good, at
  <2>7. ASSUME h \in 1 .. Len(f) - 1, good(h)
        PROVE  SniffSocket(f) = {f[h + 1].conf}
    <3>1. {g \in 1 .. Len(f) - 1 : good(g)} = {h}
      BY <2>6, <2>7
    <3>2. QED
      BY <2>4, <3>1
  <2>8. ASSUME ~ (h \in 1 .. Len(f) - 1 /\ good(h))
        PROVE  SniffSocket(f) = {}
    <3>1. {g \in 1 .. Len(f) - 1 : good(g)} = {}
      BY <2>6, <2>8
    <3>2. QED
      BY <2>4, <3>1
  <2> DEFINE Found(i) == /\ i = [res |-> i.res, sock |-> i.sock]
                         /\ i.res \in {"none", "tcp", "assert"}
                         /\ i.res = "assert" =>
                              \E g \in 1 .. Len(f) - 1 : f[g].head = "sniffer" /\ ~ Pair(f[g + 1])
                         /\ i.res \in {"tcp", "none"} =>
                              \E g \in 1 .. Len(f) : /\ f[g].head = "sniffer"
                                                     /\ g < Len(f) => Pair(f[g + 1])
                         /\ i.res = "tcp" => SniffSocket(f) = {i.sock}
                         /\ i.res = "none" => SniffSocket(f) = {}
  <2>9. Found(info)
    <3>1. CASE h = Len(f)
      <4>1. info = [res |-> "none", sock |-> Blank]
        BY <2>3, <3>1
      <4>2. SniffSocket(f) = {}
        <5>1. h \notin 1 .. Len(f) - 1
          BY <1>1, <3>1
        <5>2. QED
          BY <2>8, <5>1
      <4>3. ~ (h < Len(f))
        BY <1>1, <3>1
      <4>4. QED
        BY <2>5, <4>1, <4>2, <4>3 DEF Blank
    <3>2. CASE h # Len(f) /\ ~ Pair(f[h + 1])
      <4>1. info = [res |-> "assert", sock |-> Blank]
        BY <2>3, <3>2
      <4>2. h \in 1 .. Len(f) - 1
        BY <1>1, <2>5, <3>2 DEF Blank
      <4>3. QED
        BY <2>5, <3>2, <4>1, <4>2 DEF Blank
    <3>3. CASE h # Len(f) /\ Pair(f[h + 1]) /\ f[h + 1].name = "tcp"
      <4>1. info = [res |-> "tcp", sock |-> f[h + 1].conf]
        BY <2>3, <3>3
      <4>2. h \in 1 .. Len(f) - 1
        <5>1. Len(f) \in Nat /\ h \in 1 .. Len(f) /\ h # Len(f)
          BY <1>1, <2>5, <3>3, Zenon
        <5>2. QED
          BY <5>1
      <4>3. SniffSocket(f) = {f[h + 1].conf}
        <5>1. good(h)
          BY <2>5, <3>3 DEF Blank, good
        <5>2. QED
          BY <2>7, <4>2, <5>1
      <4>4. QED
        BY <2>5, <3>3, <4>1, <4>3 DEF Blank
    <3>4. CASE h # Len(f) /\ Pair(f[h + 1]) /\ f[h + 1].name # "tcp"
      <4>1. info = [res |-> "none", sock |-> Blank]
        BY <2>3, <3>4
      <4>2. ~ good(h)
        BY <3>4 DEF Blank, good
      <4>3. SniffSocket(f) = {}
        BY <2>8, <4>2
      <4>4. QED
        BY <2>5, <3>4, <4>1, <4>3 DEF Blank
    <3>5. QED
      BY <3>1, <3>2, <3>3, <3>4
  <2>10. info.res # "errors" /\ ~ (\A g \in 1 .. Len(f) : f[g].head # "sniffer")
    BY <2>5, <2>9
  <2>11. QED
    BY <2>9, <2>10 DEF info
<1>5. QED
  BY <1>3, <1>4

-----------------------------------------------------------------------------
(* Steps of one process *)

\* 0 is not a process.
LEMMA NoneIsNobody == None \notin Daemon /\ Daemon \subseteq Nat
BY NumDaemonsAssumption DEF None, Daemon

\* A step that changes one process and keeps the parts of the invariant that it can disturb.
LEMMA OneProcess ==
  ASSUME StartInv, NEW d \in Daemon, NEW q \in ProcRecord, proc' = [proc EXCEPT ![d] = q], ProcInv(q),
         path' \in [Sock -> Daemon \cup {None}], port' \in [Port -> Daemon \cup {None}],
         \A p \in Port : port'[p] # port[p] => {port[p], port'[p]} \subseteq {d, None},
         q.pc \notin Gone => \A p \in GtcBuilt(q) : p \in Port /\ port'[p] = d,
         \A p \in Port : port'[p] = d => q.pc \notin Gone /\ p \in GtcBuilt(q),
         ~ overlap' => SocketInv'
  PROVE  StartInv'
<1>1. /\ proc \in [Daemon -> ProcRecord] /\ port \in [Port -> Daemon \cup {None}]
      /\ \A e \in Daemon : ProcInv(proc[e])
      /\ \A e \in Daemon : Alive(e) => \A p \in GtcBuilt(proc[e]) : p \in Port /\ port[p] = e
      /\ \A p \in Port : port[p] # None => Alive(port[p]) /\ p \in GtcBuilt(proc[port[p]])
  BY DEF StartInv, StartType, PortInv
<1>2. proc' \in [Daemon -> ProcRecord] /\ proc'[d] = q /\ \A e \in Daemon \ {d} : proc'[e] = proc[e]
  BY <1>1
<1>3. StartType'
  BY <1>2 DEF StartType
<1>4. \A e \in Daemon : ProcInv(proc'[e])
  BY <1>1, <1>2
<1>5. ASSUME NEW e \in Daemon, Alive(e)', NEW p \in GtcBuilt(proc'[e])
      PROVE  p \in Port /\ port'[p] = e
  <2>1. CASE e = d
    BY <1>2, <1>5, <2>1 DEF Alive
  <2>2. CASE e # d
    <3>1. Alive(e) /\ p \in GtcBuilt(proc[e]) /\ p \in Port /\ port[p] = e
      BY <1>1, <1>2, <1>5, <2>2 DEF Alive
    <3>2. QED
      BY <2>2, <3>1, NoneIsNobody
  <2>3. QED
    BY <2>1, <2>2
<1>6. ASSUME NEW p \in Port, port'[p] # None
      PROVE  proc'[port'[p]].pc \notin Gone /\ p \in GtcBuilt(proc'[port'[p]])
  <2>1. CASE port'[p] = d
    BY <1>2, <2>1 DEF Alive
  <2>2. CASE port'[p] # d
    <3>1. port[p] = port'[p] /\ port[p] \in Daemon \ {d}
      BY <1>1, <1>6, <2>2
    <3>2. QED
      BY <1>1, <1>2, <1>6, <3>1 DEF Alive
  <2>3. QED
    BY <2>1, <2>2
<1>7. PortInv'
  BY <1>5, <1>6 DEF PortInv, Alive
<1>8. QED
  BY <1>3, <1>4, <1>7 DEF StartInv

\* What is built is the same when the table and the last plugin are.
LEMMA BuiltAlike ==
  ASSUME NEW p, NEW q, q.file = p.file
  PROVE  /\ q.sPluginPtr = p.sPluginPtr /\ q.sp = p.sp =>
              \A n : StorageBuilt(q, n) <=> StorageBuilt(p, n)
         /\ q.xPluginPtr = p.xPluginPtr /\ q.xp = p.xp /\ q.xpvec = p.xpvec =>
              \A n : TransferBuilt(q, n) <=> TransferBuilt(p, n)
         /\ q.xPluginPtr = p.xPluginPtr /\ q.xp_list = p.xp_list => GtcBuilt(q) = GtcBuilt(p)
<1>1. q.sPluginPtr = p.sPluginPtr /\ q.sp = p.sp =>
        \A n : StorageBuilt(q, n) <=> StorageBuilt(p, n)
  BY ZenonT(30) DEF StorageBuilt
<1>2. q.xPluginPtr = p.xPluginPtr /\ q.xp = p.xp /\ q.xpvec = p.xpvec =>
        \A n : TransferBuilt(q, n) <=> TransferBuilt(p, n)
  BY ZenonT(30) DEF TransferBuilt
<1>3. q.xPluginPtr = p.xPluginPtr /\ q.xp_list = p.xp_list => GtcBuilt(q) = GtcBuilt(p)
  BY ZenonT(30) DEF GtcBuilt
<1>4. QED
  BY <1>1, <1>2, <1>3

\* A step on a socket within the take-over.
LEMMA SocketStep ==
  ASSUME NEW p \in ProcRecord, ProcInv(p), p.pc \in SocketSteps, NEW pc \in SocketSteps,
         NEW q, q = [p EXCEPT !.pc = pc]
  PROVE  /\ q \in ProcRecord /\ ProcInv(q) /\ GtcBuilt(q) = GtcBuilt(p)
         /\ q.pc = pc /\ q.cur = p.cur /\ q.listening = p.listening
         /\ p.pc \notin Gone /\ q.pc \notin Gone /\ p.cur \in Sock
<1>1. /\ q \in ProcRecord /\ q.pc = pc /\ q.listen = p.listen /\ q.file = p.file /\ q.cur = p.cur
      /\ q.listening = p.listening /\ q.sp_list = p.sp_list /\ q.xp_list = p.xp_list
      /\ q.sPluginPtr = p.sPluginPtr /\ q.xPluginPtr = p.xPluginPtr /\ q.xpvec = p.xpvec
      /\ q.sp = p.sp /\ q.xp = p.xp /\ q.why = p.why
  BY DEF ProcRecord
<1>2. \A x \in SocketSteps : x \notin Gone /\ x \notin {"parse", "storage", "transfer", "running"}
  BY DEF SocketSteps, Gone, Between
<1>3. p.file \in File /\ {p.listen} \cup SniffSocket(p.file) \subseteq Sock
  BY <1>2 DEF ProcInv
<1>4. TakesOwn(p) \/ TakesSniffers(p)
  BY <1>2 DEF ProcInv, ReadsFile, BuildsStorage, BuildsTransfer, IsUp
<1>5. TakesOwn(p) => TakesOwn(q) /\ p.cur \in Sock
  BY <1>1, <1>3 DEF TakesOwn, NothingBuilt
<1>6. TakesSniffers(p) => TakesSniffers(q)
  BY <1>1, BuiltAlike DEF TakesSniffers, AllBuilt
<1>7. TakesSniffers(p) => p.cur \in Sock
  <2> SUFFICES ASSUME TakesSniffers(p) PROVE p.cur \in Sock
    OBVIOUS
  <2>1. SnifferInfo[p.file] = [res |-> "tcp", sock |-> p.cur]
    BY DEF TakesSniffers
  <2>2. PICK info : info = SnifferInfo[p.file]
    OBVIOUS
  <2>3. info.res = "tcp" => SniffSocket(p.file) = {info.sock}
    BY <1>3, <2>2, SnifferFile, Zenon
  <2>4. SniffSocket(p.file) = {p.cur}
    BY <2>1, <2>2, <2>3
  <2>5. QED
    BY <1>3, <2>4
<1>8. QED
  BY <1>1, <1>2, <1>3, <1>4, <1>5, <1>6, <1>7, BuiltAlike DEF ProcInv

\* A process in the take-over of a socket.
LEMMA OnSocket ==
  ASSUME StartInv, NEW e \in Daemon, proc[e].pc \in SocketSteps
  PROVE  proc[e] \in ProcRecord /\ ProcInv(proc[e]) /\ proc[e].cur \in Sock
<1>1. proc[e] \in ProcRecord /\ ProcInv(proc[e])
  BY DEF StartInv, StartType
<1>2. PICK q : q = [proc[e] EXCEPT !.pc = proc[e].pc]
  OBVIOUS
<1>3. QED
  BY <1>1, <1>2, SocketStep

\* A step of the take-over of a socket that nobody else is taking over.
LEMMA SocketChange ==
  ASSUME StartInv, SocketInv, NEW d \in Daemon, NEW q \in ProcRecord, proc' = [proc EXCEPT ![d] = q],
         NEW s \in Sock, proc[d].pc \in SocketSteps, proc[d].cur = s, q.cur = s, q.pc \notin Gone,
         \A e \in Daemon \ {d} : proc[e].pc \in Between => proc[e].cur # s,
         \A r \in Sock \ {s} : path'[r] = path[r],
         q.listening \subseteq proc[d].listening \cup {s},
         q.pc = "unlink" => path' = path /\ q.listening = proc[d].listening /\ ~ Answers(s),
         q.pc = "rebind" => path'[s] = None,
         q.pc = "listen" \/ s \in q.listening => path'[s] = d,
         \A e \in Daemon \ {d} : Alive(e) /\ s \in proc[e].listening => path'[s] = path[s]
  PROVE  SocketInv'
<1>1. /\ proc \in [Daemon -> ProcRecord] /\ \A r \in Sock : path[r] \in Daemon \cup {None}
  BY DEF StartInv, StartType
<1>2. proc'[d] = q /\ \A e \in Daemon \ {d} : proc'[e] = proc[e]
  BY <1>1
<1>3. \A e \in Daemon : proc[e].pc \in Between => proc[e].cur \in Sock
  BY OnSocket DEF SocketSteps
<1>4. \A e \in Daemon : proc[e].listening \subseteq Sock
  BY <1>1 DEF ProcRecord
<1>5. Alive(d) /\ Alive(d)'
  BY <1>2 DEF Alive, SocketSteps, Gone, Between
<1>6. \A x \in Daemon : Alive(x)' <=> Alive(x)
  BY <1>2, <1>5 DEF Alive
<1>7. ASSUME NEW e \in Daemon, NEW g \in Daemon, e # g,
             proc'[e].pc \in Between, proc'[g].pc \in Between
      PROVE  proc'[e].cur # proc'[g].cur
  <2>1. CASE e = d
    BY <1>2, <1>7, <2>1
  <2>2. CASE g = d
    BY <1>2, <1>7, <2>2
  <2>3. CASE e # d /\ g # d
    BY <1>2, <1>7, <2>3 DEF SocketInv
  <2>4. QED
    BY <2>1, <2>2, <2>3
<1>8. ASSUME NEW r \in Sock, path'[r] = path[r], r # s \/ q.listening = proc[d].listening,
             path'[r] # None, proc'[path'[r]].pc \notin Gone, r \in proc'[path'[r]].listening
      PROVE  Answers(r)
  <2>1. path[r] \in Daemon
    BY <1>1, <1>8
  <2>2. Alive(path[r])
    BY <1>6, <1>8, <2>1 DEF Alive
  <2>3. r \in proc[path[r]].listening
    <3>1. CASE path[r] = d
      BY <1>2, <1>8, <3>1
    <3>2. CASE path[r] # d
      BY <1>2, <1>8, <2>1, <3>2
    <3>3. QED
      BY <3>1, <3>2
  <2>4. QED
    BY <1>8, <2>2, <2>3 DEF Answers
<1>9. ASSUME NEW e \in Daemon, proc'[e].pc = "unlink"
      PROVE  ~ (/\ path'[proc'[e].cur] # None
                /\ proc'[path'[proc'[e].cur]].pc \notin Gone
                /\ proc'[e].cur \in proc'[path'[proc'[e].cur]].listening)
  <2>1. CASE e = d
    <3>1. proc'[e].cur = s /\ path' = path /\ q.listening = proc[d].listening /\ ~ Answers(s)
      BY <1>2, <1>9, <2>1
    <3>2. QED
      BY <1>8, <3>1
  <2>2. CASE e # d
    <3>1. proc'[e] = proc[e] /\ proc[e].pc = "unlink" /\ proc[e].pc \in Between
      BY <1>2, <1>9, <2>2 DEF Between
    <3>2. proc[e].cur \in Sock \ {s} /\ ~ Answers(proc[e].cur)
      BY <1>3, <2>2, <3>1 DEF SocketInv
    <3>3. QED
      BY <1>8, <3>1, <3>2
  <2>3. QED
    BY <2>1, <2>2
<1>10. ASSUME NEW e \in Daemon
       PROVE  /\ proc'[e].pc = "rebind" => path'[proc'[e].cur] = None
              /\ proc'[e].pc = "listen" => path'[proc'[e].cur] = e
  <2>1. CASE e = d
    BY <1>2, <2>1
  <2>2. CASE e # d
    <3>1. proc'[e] = proc[e]
      BY <1>2, <2>2
    <3>2. proc[e].pc \in {"rebind", "listen"} => proc[e].cur \in Sock \ {s}
      BY <1>3, <2>2 DEF Between
    <3>3. QED
      BY <3>1, <3>2 DEF SocketInv
  <2>3. QED
    BY <2>1, <2>2
<1>11. ASSUME NEW e \in Daemon, proc'[e].pc \notin Gone, NEW r \in proc'[e].listening
       PROVE  path'[r] = e
  <2>1. Alive(e)
    BY <1>6, <1>11 DEF Alive
  <2>2. CASE e = d
    <3>1. r \in proc[d].listening \cup {s} /\ r \in q.listening
      BY <1>2, <1>11, <2>2
    <3>2. CASE r = s
      BY <2>2, <3>1, <3>2
    <3>3. CASE r # s
      <4>1. r \in Sock /\ path[r] = d
        BY <1>4, <2>1, <2>2, <3>1, <3>3 DEF SocketInv
      <4>2. QED
        BY <2>2, <3>3, <4>1
    <3>4. QED
      BY <3>2, <3>3
  <2>3. CASE e # d
    <3>1. proc'[e] = proc[e] /\ r \in Sock /\ path[r] = e
      BY <1>2, <1>4, <1>11, <2>1, <2>3 DEF SocketInv
    <3>2. QED
      BY <1>11, <2>1, <2>3, <3>1
  <2>4. QED
    BY <2>2, <2>3
<1>12. QED
  BY <1>7, <1>9, <1>10, <1>11 DEF SocketInv, Answers, Alive

\* A step that has nothing to do with sockets, or gives them up.
LEMMA SocketsKept ==
  ASSUME StartInv, SocketInv, NEW d \in Daemon, NEW q \in ProcRecord, proc' = [proc EXCEPT ![d] = q],
         path' = path, q.pc \notin Between, q.listening \subseteq proc[d].listening
  PROVE  SocketInv'
<1>1. /\ proc \in [Daemon -> ProcRecord] /\ \A r \in Sock : path[r] \in Daemon \cup {None}
      /\ \A e \in Daemon : proc[e].listening \subseteq Sock
  BY DEF StartInv, StartType, ProcRecord
<1>2. proc'[d] = q /\ \A e \in Daemon \ {d} : proc'[e] = proc[e]
  BY <1>1
<1>3. \A e \in Daemon : proc[e].listening # {} => Alive(e)
  BY DEF StartInv, ProcInv, Alive
<1>4. \A e \in Daemon : proc'[e].pc \in Between => e # d /\ proc'[e] = proc[e]
  BY <1>2
<1>5. \A e \in Daemon : \A r \in proc'[e].listening : r \in proc[e].listening
  BY <1>2
<1>6. ASSUME NEW e \in Daemon, proc'[e].pc = "unlink", path[proc[e].cur] # None,
             proc[e].cur \in proc'[path[proc[e].cur]].listening
      PROVE  FALSE
  <2>1. proc[e].pc = "unlink" /\ proc[e].cur \in Sock /\ ~ Answers(proc[e].cur)
    BY <1>4, <1>6, OnSocket DEF SocketInv, Between, SocketSteps
  <2>2. path[proc[e].cur] \in Daemon
    BY <1>1, <1>6, <2>1
  <2>3. proc[e].cur \in proc[path[proc[e].cur]].listening
    BY <1>5, <1>6, <2>2
  <2>4. QED
    BY <1>3, <1>6, <2>1, <2>2, <2>3 DEF Answers
<1>7. \A e, g \in Daemon : e # g /\ proc'[e].pc \in Between /\ proc'[g].pc \in Between
                               => proc'[e].cur # proc'[g].cur
  BY <1>4 DEF SocketInv
<1>8. \A e \in Daemon :
         /\ proc'[e].pc = "unlink" => ~ (/\ path'[proc'[e].cur] # None
                                         /\ proc'[path'[proc'[e].cur]].pc \notin Gone
                                         /\ proc'[e].cur \in proc'[path'[proc'[e].cur]].listening)
         /\ proc'[e].pc = "rebind" => path'[proc'[e].cur] = None
         /\ proc'[e].pc = "listen" => path'[proc'[e].cur] = e
  BY <1>4, <1>6 DEF SocketInv, Between
<1>9. \A e \in Daemon : \A r \in proc'[e].listening : path'[r] = e
  <2> SUFFICES ASSUME NEW e \in Daemon, NEW r \in proc'[e].listening PROVE path[r] = e
    OBVIOUS
  <2>1. r \in proc[e].listening /\ Alive(e)
    BY <1>3, <1>5
  <2>2. QED
    BY <2>1 DEF SocketInv
<1>10. QED
  BY <1>7, <1>8, <1>9 DEF SocketInv, Answers, Alive

\* A step that changes neither the ports nor what was built for them.
LEMMA KeepsPorts ==
  ASSUME StartInv, NEW d \in Daemon, NEW q \in ProcRecord, proc' = [proc EXCEPT ![d] = q], ProcInv(q),
         Alive(d), q.pc \notin Gone, GtcBuilt(q) = GtcBuilt(proc[d]), port' = port,
         path' \in [Sock -> Daemon \cup {None}], ~ overlap' => SocketInv'
  PROVE  StartInv'
<1>1. port' \in [Port -> Daemon \cup {None}] /\ PortInv
  BY DEF StartInv, StartType
<1>2. \A p \in GtcBuilt(q) : p \in Port /\ port'[p] = d
  BY <1>1 DEF PortInv
<1>3. \A p \in Port : port'[p] = d => p \in GtcBuilt(q)
  BY <1>1, NoneIsNobody DEF PortInv
<1>4. QED
  BY <1>1, <1>2, <1>3, OneProcess

\* The end of a process.
LEMMA EndKeeps ==
  ASSUME StartInv, NEW d \in Daemon, Alive(d), NEW pc \in {"fatal", "dead"},
         NEW why \in Reason \cup {Blank}, End(d, pc, why), path' = path, overlap' = overlap
  PROVE  StartInv'
<1> DEFINE q == [Idle EXCEPT !.pc = pc, !.why = why]
<1>1. /\ q \in ProcRecord /\ q.pc = pc /\ q.listening = {}
      /\ pc \in Gone /\ pc \notin Between
  <2>1. \A S : <<>> \in Seq(S)
    BY EmptySeq
  <2>2. Idle \in ProcRecord /\ Idle.listening = {}
    BY <2>1 DEF Idle, ProcRecord, Gone
  <2>3. pc \in Gone /\ pc \notin Between
    BY DEF Gone, Between
  <2>4. QED
    BY <2>2, <2>3 DEF ProcRecord
<1>2. proc' = [proc EXCEPT ![d] = q]
  BY DEF End
<1> HIDE DEF q
<1>3. ProcInv(q)
  BY <1>1 DEF ProcInv
<1>4. /\ port \in [Port -> Daemon \cup {None}] /\ path \in [Sock -> Daemon \cup {None}]
      /\ ~ overlap => SocketInv
  BY DEF StartInv, StartType
<1>5. port' = [p \in Port |-> IF port[p] = d THEN None ELSE port[p]]
  BY DEF End
<1>6. port' \in [Port -> Daemon \cup {None}] /\ \A p \in Port : port'[p] # d
  BY <1>4, <1>5, NoneIsNobody
<1>7. \A p \in Port : port'[p] # port[p] => {port[p], port'[p]} \subseteq {d, None}
  BY <1>5
<1>8. ~ overlap' => SocketInv'
  BY <1>1, <1>2, <1>4, SocketsKept
<1>9. QED
  BY <1>1, <1>2, <1>3, <1>4, <1>6, <1>7, <1>8, OneProcess

\* A process that gives up.
LEMMA FatalKeeps ==
  ASSUME StartInv, NEW d \in Daemon, Alive(d), NEW why \in Reason, Fatal(d, why)
  PROVE  StartInv'
<1>1. End(d, "fatal", why) /\ path' = path /\ overlap' = overlap
  BY DEF Fatal
<1>2. "fatal" \in {"fatal", "dead"} /\ why \in Reason \cup {Blank}
  OBVIOUS
<1>3. QED
  BY <1>1, <1>2, EndKeeps

\* bind finds no file, and the socket is the process's; or it finds one.
LEMMA BindKeeps ==
  ASSUME StartInv, NEW d \in Daemon, Bind(d)
  PROVE  StartInv'
<1>0. PICK s : s = proc[d].cur
  OBVIOUS
<1>1. proc[d].pc = "bind" /\ proc[d].pc \in SocketSteps /\ "listen" \in SocketSteps /\ "probe" \in SocketSteps
  BY DEF Bind, SocketSteps, Between
<1>2. proc[d] \in ProcRecord /\ ProcInv(proc[d]) /\ s \in Sock
  BY <1>0, <1>1, OnSocket
<1>3. path \in [Sock -> Daemon \cup {None}] /\ (~ overlap => SocketInv) /\ port' = port
  BY DEF StartInv, StartType, Bind
<1>4. ~ overlap' => /\ ~ overlap
                    /\ \A e \in Daemon \ {d} : proc[e].pc \in Between => proc[e].cur # s
  BY <1>0 DEF Bind
<1>5. CASE path[s] = None /\ path' = [path EXCEPT ![s] = d] /\ Goto(d, "listen")
  <2>1. PICK q : q = [proc[d] EXCEPT !.pc = "listen"]
    OBVIOUS
  <2>2. /\ q \in ProcRecord /\ ProcInv(q) /\ GtcBuilt(q) = GtcBuilt(proc[d])
        /\ q.pc = "listen" /\ q.cur = s /\ q.listening = proc[d].listening
        /\ proc[d].pc \notin Gone /\ q.pc \notin Gone
    BY <1>0, <1>1, <1>2, <2>1, SocketStep
  <2>3. proc' = [proc EXCEPT ![d] = q]
    BY <1>5, <2>1 DEF Goto
  <2>4. path' \in [Sock -> Daemon \cup {None}] /\ path'[s] = d /\ \A r \in Sock \ {s} : path'[r] = path[r]
    BY <1>2, <1>3, <1>5
  <2>5. ASSUME ~ overlap'
        PROVE  SocketInv'
    <3>1. \A e \in Daemon : Alive(e) => s \notin proc[e].listening
      BY <1>3, <1>4, <1>5, <2>5, NoneIsNobody DEF SocketInv
    <3>2. Alive(d)
      BY <2>2 DEF Alive
    <3>3. q.listening \subseteq proc[d].listening \cup {s}
      BY <2>2
    <3>4. QED
      BY <1>0, <1>1, <1>2, <1>3, <1>4, <2>2, <2>3, <2>4, <2>5, <3>1, <3>3, SocketChange
  <2>6. QED
    BY <1>3, <2>2, <2>3, <2>4, <2>5, KeepsPorts DEF Alive
<1>6. CASE path[s] # None /\ Goto(d, "probe") /\ UNCHANGED path
  <2>1. PICK q : q = [proc[d] EXCEPT !.pc = "probe"]
    OBVIOUS
  <2>2. /\ q \in ProcRecord /\ ProcInv(q) /\ GtcBuilt(q) = GtcBuilt(proc[d])
        /\ q.pc = "probe" /\ q.cur = s /\ q.listening = proc[d].listening
        /\ proc[d].pc \notin Gone /\ q.pc \notin Gone
    BY <1>0, <1>1, <1>2, <2>1, SocketStep
  <2>3. proc' = [proc EXCEPT ![d] = q]
    BY <1>6, <2>1 DEF Goto
  <2>4. path' = path
    BY <1>6
  <2>5. ASSUME ~ overlap'
        PROVE  SocketInv'
    <3>1. s \in q.listening => path[s] = d
      BY <1>3, <1>4, <2>2, <2>5 DEF SocketInv, Alive
    <3>2. q.listening \subseteq proc[d].listening \cup {s}
      BY <2>2
    <3>3. q.pc # "unlink" /\ q.pc # "rebind" /\ q.pc # "listen"
      BY <2>2
    <3>4. \A r \in Sock \ {s} : path'[r] = path[r]
      BY <2>4
    <3>5. path'[s] = path[s]
      BY <2>4
    <3>6. SocketInv /\ \A e \in Daemon \ {d} : proc[e].pc \in Between => proc[e].cur # s
      BY <1>3, <1>4, <2>5
    <3>7. /\ proc[d].pc \in SocketSteps /\ proc[d].cur = s /\ s \in Sock
          /\ q \in ProcRecord /\ q.cur = s /\ q.pc \notin Gone
      BY <1>0, <1>1, <1>2, <2>2
    <3>8. q.pc = "listen" \/ s \in q.listening => path'[s] = d
      BY <3>1, <3>3, <3>5
    <3>9. \A e \in Daemon \ {d} : Alive(e) /\ s \in proc[e].listening => path'[s] = path[s]
      BY <3>5
    <3>10. QED
      BY <2>3, <3>2, <3>3, <3>4, <3>6, <3>7, <3>8, <3>9, SocketChange
  <2>6. QED
    BY <1>3, <2>2, <2>3, <2>4, <2>5, KeepsPorts DEF Alive
<1>7. QED
  BY <1>0, <1>5, <1>6 DEF Bind

\* A step within the take-over of a socket.
LEMMA SocketMove ==
  ASSUME StartInv, NEW d \in Daemon, proc[d].pc \in SocketSteps, NEW pc \in SocketSteps,
         Goto(d, pc), port' = port, path' \in [Sock -> Daemon \cup {None}], NEW s, s = proc[d].cur,
         ~ overlap' =>
           /\ SocketInv
           /\ \A e \in Daemon \ {d} : proc[e].pc \in Between => proc[e].cur # s
           /\ \A r \in Sock \ {s} : path'[r] = path[r]
           /\ pc = "unlink" => path' = path /\ ~ Answers(s)
           /\ pc = "rebind" => path'[s] = None
           /\ pc = "listen" \/ s \in proc[d].listening => path'[s] = d
           /\ \A e \in Daemon \ {d} : Alive(e) /\ s \in proc[e].listening => path'[s] = path[s]
  PROVE  StartInv'
<1>1. proc[d] \in ProcRecord /\ ProcInv(proc[d]) /\ s \in Sock
  BY OnSocket
<1>2. PICK q : q = [proc[d] EXCEPT !.pc = pc]
  OBVIOUS
<1>3. /\ q \in ProcRecord /\ ProcInv(q) /\ GtcBuilt(q) = GtcBuilt(proc[d])
      /\ q.pc = pc /\ q.cur = s /\ q.listening = proc[d].listening
      /\ proc[d].pc \notin Gone /\ q.pc \notin Gone
  BY <1>1, <1>2, SocketStep
<1>4. proc' = [proc EXCEPT ![d] = q]
  BY <1>2 DEF Goto
<1>5. ASSUME ~ overlap'
      PROVE  SocketInv'
  <2>1. q.pc = "unlink" => path' = path /\ q.listening = proc[d].listening /\ ~ Answers(s)
    BY <1>3, <1>5
  <2>2. q.pc = "rebind" => path'[s] = None
    BY <1>3, <1>5
  <2>3. q.pc = "listen" \/ s \in q.listening => path'[s] = d
    BY <1>3, <1>5
  <2>4. q.listening \subseteq proc[d].listening \cup {s}
    BY <1>3
  <2>5. QED
    BY <1>1, <1>3, <1>4, <1>5, <2>1, <2>2, <2>3, <2>4, SocketChange
<1>6. QED
  BY <1>3, <1>4, <1>5, KeepsPorts DEF Alive

\* Nobody else takes over a socket that a process has between bind and listen.
LEMMA AloneOnSocket ==
  ASSUME SocketInv, NEW d \in Daemon, proc[d].pc \in Between
  PROVE  \A e \in Daemon \ {d} : proc[e].pc \in Between => proc[e].cur # proc[d].cur
BY DEF SocketInv

\* Somebody answers on the socket, and the process ends; or its file is to be removed.
LEMMA ProbeKeeps ==
  ASSUME StartInv, NEW d \in Daemon, Probe(d)
  PROVE  StartInv'
<1>1. /\ proc[d].pc = "probe" /\ proc[d].pc \in SocketSteps /\ "unlink" \in SocketSteps
      /\ proc[d].pc \in Between /\ Alive(d)
  BY DEF Probe, SocketSteps, Between, Alive, Gone
<1>2. CASE Answers(proc[d].cur) /\ Fatal(d, "socket")
  <2>1. "socket" \in Reason
    BY DEF Reason
  <2>2. QED
    BY <1>1, <1>2, <2>1, FatalKeeps, Zenon
<1>3. CASE ~ Answers(proc[d].cur) /\ Goto(d, "unlink") /\ UNCHANGED <<path, port, conn, overlap>>
  <2>1. path' = path /\ port' = port /\ overlap' = overlap
    BY <1>3
  <2>2. path \in [Sock -> Daemon \cup {None}] /\ (~ overlap => SocketInv)
    BY DEF StartInv, StartType
  <2>3. PICK s : s = proc[d].cur
    OBVIOUS
  <2>4. ASSUME ~ overlap
        PROVE  /\ \A e \in Daemon \ {d} : proc[e].pc \in Between => proc[e].cur # s
               /\ s \in proc[d].listening => path[s] = d
    BY <1>1, <2>2, <2>3, <2>4, AloneOnSocket DEF SocketInv
  <2>5. QED
    BY <1>1, <1>3, <2>1, <2>2, <2>3, <2>4, SocketMove
<1>4. QED
  BY <1>2, <1>3 DEF Probe

\* The file that is removed is nobody's who listens.
LEMMA UnlinkKeeps ==
  ASSUME StartInv, NEW d \in Daemon, Unlink(d)
  PROVE  StartInv'
<1>1. /\ proc[d].pc = "unlink" /\ proc[d].pc \in SocketSteps /\ "rebind" \in SocketSteps
      /\ proc[d].pc \in Between /\ Alive(d)
  BY DEF Unlink, SocketSteps, Between, Alive, Gone
<1>2. PICK s : s = proc[d].cur
  OBVIOUS
<1>3. path' = [path EXCEPT ![s] = None] /\ port' = port /\ overlap' = overlap /\ Goto(d, "rebind")
  BY <1>2 DEF Unlink
<1>4. path \in [Sock -> Daemon \cup {None}] /\ (~ overlap => SocketInv) /\ s \in Sock
  BY <1>1, <1>2, OnSocket DEF StartInv, StartType
<1>5. /\ path' \in [Sock -> Daemon \cup {None}] /\ path'[s] = None
      /\ \A r \in Sock \ {s} : path'[r] = path[r]
  BY <1>3, <1>4
<1>6. ASSUME ~ overlap
      PROVE  /\ \A e \in Daemon \ {d} : proc[e].pc \in Between => proc[e].cur # s
             /\ \A e \in Daemon : Alive(e) => s \notin proc[e].listening
  <2>1. SocketInv /\ ~ Answers(s)
    BY <1>1, <1>2, <1>4, <1>6 DEF SocketInv
  <2>2. \A e \in Daemon : Alive(e) /\ s \in proc[e].listening => path[s] = e
    BY <2>1 DEF SocketInv
  <2>3. \A e \in Daemon : Alive(e) => s \notin proc[e].listening
    BY <2>1, <2>2, NoneIsNobody DEF Answers
  <2>4. QED
    BY <1>1, <1>2, <2>1, <2>3, AloneOnSocket
<1>7. QED
  BY <1>1, <1>2, <1>3, <1>4, <1>5, <1>6, SocketMove

\* The socket file is made again.
LEMMA RebindKeeps ==
  ASSUME StartInv, NEW d \in Daemon, Rebind(d)
  PROVE  StartInv'
<1>1. /\ proc[d].pc = "rebind" /\ proc[d].pc \in SocketSteps /\ "listen" \in SocketSteps
      /\ proc[d].pc \in Between /\ Alive(d)
  BY DEF Rebind, SocketSteps, Between, Alive, Gone
<1>2. PICK s : s = proc[d].cur
  OBVIOUS
<1>3. CASE path[s] # None /\ Fatal(d, "socket")
  <2>1. "socket" \in Reason
    BY DEF Reason
  <2>2. QED
    BY <1>1, <1>3, <2>1, FatalKeeps, Zenon
<1>4. CASE /\ path[s] = None /\ path' = [path EXCEPT ![s] = d] /\ Goto(d, "listen")
           /\ port' = port /\ overlap' = overlap
  <2>1. path \in [Sock -> Daemon \cup {None}] /\ (~ overlap => SocketInv) /\ s \in Sock
    BY <1>1, <1>2, OnSocket DEF StartInv, StartType
  <2>2. /\ path' \in [Sock -> Daemon \cup {None}] /\ path'[s] = d
        /\ \A r \in Sock \ {s} : path'[r] = path[r]
    BY <1>4, <2>1
  <2>3. ASSUME ~ overlap
        PROVE  /\ \A e \in Daemon \ {d} : proc[e].pc \in Between => proc[e].cur # s
               /\ \A e \in Daemon : Alive(e) => s \notin proc[e].listening
    <3>1. \A e \in Daemon : Alive(e) /\ s \in proc[e].listening => path[s] = e
      BY <2>1, <2>3 DEF SocketInv
    <3>2. QED
      BY <1>1, <1>2, <1>4, <2>1, <2>3, <3>1, AloneOnSocket, NoneIsNobody
  <2>4. QED
    BY <1>1, <1>2, <1>4, <2>1, <2>2, <2>3, SocketMove
<1>5. QED
  BY <1>2, <1>3, <1>4 DEF Rebind

\* What the step a process is at says of it.
LEMMA WhereItIs ==
  ASSUME StartInv, NEW d \in Daemon
  PROVE  LET p == proc[d] IN
         /\ p \in ProcRecord /\ ProcInv(p)
         /\ Alive(d) => p.file \in File /\ {p.listen} \cup SniffSocket(p.file) \subseteq Sock
         /\ p.pc = "parse" => Alive(d) /\ ReadsFile(p)
         /\ p.pc = "storage" => Alive(d) /\ BuildsStorage(p)
         /\ p.pc = "transfer" => Alive(d) /\ BuildsTransfer(p)
         /\ p.pc = "running" => Alive(d) /\ IsUp(p)
         /\ p.pc \in SocketSteps => Alive(d) /\ (TakesOwn(p) \/ TakesSniffers(p))
<1> DEFINE p == proc[d]
<1>1. p \in ProcRecord /\ ProcInv(p)
  BY DEF StartInv, StartType
<1>2. /\ \A x \in SocketSteps : x \notin Gone \cup {"parse", "storage", "transfer", "running"}
      /\ \A x \in {"parse", "storage", "transfer", "running"} : x \notin Gone
  BY DEF SocketSteps, Gone, Between
<1>3. p.pc \notin Gone => /\ p.file \in File /\ {p.listen} \cup SniffSocket(p.file) \subseteq Sock
                          /\ \/ TakesOwn(p) \/ ReadsFile(p) \/ BuildsStorage(p)
                             \/ BuildsTransfer(p) \/ TakesSniffers(p) \/ IsUp(p)
  BY <1>1 DEF ProcInv
<1>4. /\ TakesOwn(p) \/ TakesSniffers(p) => p.pc \in SocketSteps
      /\ ReadsFile(p) => p.pc = "parse"
      /\ BuildsStorage(p) => p.pc = "storage"
      /\ BuildsTransfer(p) => p.pc = "transfer"
      /\ IsUp(p) => p.pc = "running"
  BY DEF TakesOwn, TakesSniffers, ReadsFile, BuildsStorage, BuildsTransfer, IsUp
<1> HIDE DEF p
<1>5. /\ p.pc = "parse" => ReadsFile(p)
      /\ p.pc = "storage" => BuildsStorage(p)
      /\ p.pc = "transfer" => BuildsTransfer(p)
      /\ p.pc = "running" => IsUp(p)
  BY <1>2, <1>3, <1>4
<1>6. p.pc \in SocketSteps => TakesOwn(p) \/ TakesSniffers(p)
  <2>1. p.pc \in SocketSteps => /\ p.pc \notin Gone /\ p.pc # "parse" /\ p.pc # "storage"
                                /\ p.pc # "transfer" /\ p.pc # "running"
    BY <1>2
  <2>2. QED
    BY <1>3, <1>4, <2>1
<1>7. Alive(d) <=> p.pc \notin Gone
  BY DEF Alive, p
<1>8. QED
  BY <1>1, <1>2, <1>3, <1>5, <1>6, <1>7 DEF p

\* A process listens on its socket, and goes on to its file or is up.
LEMMA ListenKeeps ==
  ASSUME StartInv, NEW d \in Daemon, Listen(d)
  PROVE  StartInv'
<1>1. PICK s, p : s = proc[d].cur /\ p = proc[d]
  OBVIOUS
<1>2. PICK pc : pc = IF p.listening = {} THEN "parse" ELSE "running"
  OBVIOUS
<1>3. PICK q : q = [p EXCEPT !.listening = p.listening \cup {s}, !.pc = pc]
  OBVIOUS
<1>4. /\ p.pc = "listen" /\ p.pc \in SocketSteps /\ p.pc \in Between /\ Alive(d)
      /\ p \in ProcRecord /\ s \in Sock /\ ProcInv(p)
      /\ p.file \in File /\ {p.listen} \cup SniffSocket(p.file) \subseteq Sock
      /\ TakesOwn(p) \/ TakesSniffers(p)
  <2>1. p.pc = "listen" /\ p.pc \in SocketSteps /\ p.pc \in Between
    BY <1>1 DEF Listen, SocketSteps, Between
  <2>2. QED
    BY <1>1, <2>1, OnSocket, WhereItIs
<1>5. proc' = [proc EXCEPT ![d] = q] /\ path' = path /\ port' = port /\ overlap' = overlap
  BY <1>1, <1>2, <1>3 DEF Listen
<1>6. pc \in {"parse", "running"} /\ pc \notin Gone /\ pc \notin Between
  BY <1>2 DEF Gone, Between
<1>7. /\ q \in ProcRecord /\ q.pc = pc /\ q.listen = p.listen /\ q.file = p.file /\ q.cur = s
      /\ q.listening = p.listening \cup {s} /\ q.xp_list = p.xp_list
      /\ q.sPluginPtr = p.sPluginPtr /\ q.xPluginPtr = p.xPluginPtr /\ q.xpvec = p.xpvec
      /\ q.sp = p.sp /\ q.xp = p.xp
  BY <1>1, <1>3, <1>4, <1>6 DEF ProcRecord
<1>8. TakesOwn(p) => ReadsFile(q)
  BY <1>1, <1>2, <1>7 DEF TakesOwn, ReadsFile, NothingBuilt
<1>9. TakesSniffers(p) => IsUp(q)
  <2> SUFFICES ASSUME TakesSniffers(p) PROVE IsUp(q)
    OBVIOUS
  <2>1. /\ SnifferInfo[p.file] = [res |-> "tcp", sock |-> s] /\ p.listening = {p.listen}
        /\ p.xp_list = <<>> /\ AllBuilt(p)
    BY <1>1 DEF TakesSniffers
  <2>2. SniffSocket(p.file) = {s}
    BY <1>4, <2>1, SnifferFile
  <2>3. AllBuilt(q)
    BY <1>7, <2>1, BuiltAlike DEF AllBuilt
  <2>4. pc = "running"
    BY <1>2, <2>1
  <2>5. QED
    BY <1>7, <2>1, <2>2, <2>3, <2>4 DEF IsUp
<1>10. ProcInv(q) /\ GtcBuilt(q) = GtcBuilt(p)
  BY <1>4, <1>6, <1>7, <1>8, <1>9, BuiltAlike DEF ProcInv
<1>11. path \in [Sock -> Daemon \cup {None}] /\ (~ overlap => SocketInv)
  BY DEF StartInv, StartType
<1>12. ASSUME ~ overlap
       PROVE  SocketInv'
  <2>1. path[s] = d
    BY <1>1, <1>4, <1>11, <1>12 DEF SocketInv
  <2>2. \A e \in Daemon \ {d} : proc[e].pc \in Between => proc[e].cur # s
    BY <1>1, <1>4, <1>11, <1>12, AloneOnSocket
  <2>3. q.pc # "unlink" /\ q.pc # "rebind"
    BY <1>6, <1>7
  <2>4. /\ \A r \in Sock \ {s} : path'[r] = path[r]
        /\ q.pc = "listen" \/ s \in q.listening => path'[s] = d
        /\ \A e \in Daemon \ {d} : Alive(e) /\ s \in proc[e].listening => path'[s] = path[s]
        /\ q.listening \subseteq proc[d].listening \cup {s}
    BY <1>1, <1>5, <1>7, <2>1
  <2>5. /\ proc[d].pc \in SocketSteps /\ proc[d].cur = s /\ s \in Sock
        /\ q \in ProcRecord /\ q.cur = s /\ q.pc \notin Gone /\ SocketInv
    BY <1>1, <1>4, <1>6, <1>7, <1>11, <1>12
  <2>6. QED
    BY <1>5, <2>2, <2>3, <2>4, <2>5, SocketChange
<1>13. QED
  BY <1>1, <1>4, <1>5, <1>6, <1>7, <1>10, <1>11, <1>12, KeepsPorts

-----------------------------------------------------------------------------
(* The steps that build the plugins *)

\* What keeps the invariant of a step that has no part in sockets or ports.
LEMMA QuietStep ==
  ASSUME StartInv, NEW d \in Daemon, NEW q \in ProcRecord, proc' = [proc EXCEPT ![d] = q], ProcInv(q),
         Alive(d), q.pc \notin Gone \cup Between, q.listening \subseteq proc[d].listening,
         GtcBuilt(q) = GtcBuilt(proc[d]), UNCHANGED <<path, port, overlap>>
  PROVE  StartInv'
<1>1. path \in [Sock -> Daemon \cup {None}] /\ (~ overlap => SocketInv)
  BY DEF StartInv, StartType
<1>2. ~ overlap' => SocketInv'
  BY <1>1, SocketsKept
<1>3. QED
  BY <1>1, <1>2, KeepsPorts

\* Nothing of a section is built.
LEMMA SectionStart ==
  ASSUME NEW lines \in Seq(Line), NEW known
  PROVE  SectionBuilt(lines, Len(lines), <<>>, Blank, known)
<1>1. Len(lines) \in Nat
  BY LenProperties
<1>2. Len(lines) + 1 .. Len(lines) = {}
  BY <1>1
<1>3. Built(<<>>) = {}
  BY DEF Built
<1>4. QED
  BY <1>2, <1>3 DEF SectionBuilt

\* One more plugin of a section, chained to plugins that are there.
LEMMA SectionStep ==
  ASSUME NEW lines \in Seq(Line), NEW n \in 1 .. Len(lines), NEW tab \in Seq(Plugin), NEW last, NEW known,
         SectionBuilt(lines, n, tab, last, known), NEW q \in Plugin, q.name = lines[n].name,
         lines[n].name \in known, ToSet(lines[n].chain) \subseteq Built(tab)
  PROVE  SectionBuilt(lines, n - 1, Append(tab, q), lines[n].name, known)
<1>1. Len(lines) \in Nat /\ lines[n].chain \in Seq(Name)
  <2>1. lines[n] \in Line
    BY ElementOfSeq
  <2>2. QED
    BY <2>1, LenProperties DEF Line, Name
<1>2. /\ \A j \in n + 1 .. Len(lines) : lines[j].name \in known /\ Forward(lines, j)
      /\ Built(tab) = {lines[j].name : j \in n + 1 .. Len(lines)}
  BY DEF SectionBuilt
<1>3. n - 1 + 1 .. Len(lines) = {n} \cup (n + 1 .. Len(lines))
  BY <1>1
<1>4. Built(Append(tab, q)) = Built(tab) \cup {q.name}
  <2>1. /\ Append(tab, q) \in Seq(Plugin) /\ Len(Append(tab, q)) = Len(tab) + 1
        /\ \A i \in 1 .. Len(tab) : Append(tab, q)[i] = tab[i]
        /\ Append(tab, q)[Len(tab) + 1] = q
    BY AppendProperties
  <2>2. /\ DOMAIN Append(tab, q) = 1 .. Len(tab) + 1 /\ DOMAIN tab = 1 .. Len(tab)
    BY <2>1, LenProperties
  <2>3. PICK new : new = Append(tab, q)
    OBVIOUS
  <2>4. {new[i].name : i \in 1 .. Len(tab) + 1} = {tab[i].name : i \in 1 .. Len(tab)} \cup {q.name}
    <3>0. Len(tab) \in Nat
      BY LenProperties
    <3>1. 1 .. Len(tab) + 1 = (1 .. Len(tab)) \cup {Len(tab) + 1}
      BY <3>0
    <3>2. QED
      BY <2>1, <2>3, <3>1
  <2>5. QED
    BY <2>2, <2>3, <2>4 DEF Built
<1>5. Forward(lines, n)
  <2> SUFFICES ASSUME NEW k \in 1 .. Len(lines[n].chain)
               PROVE  \E m \in n + 1 .. Len(lines) : lines[m].name = lines[n].chain[k]
    BY DEF Forward
  <2>1. lines[n].chain[k] \in ToSet(lines[n].chain)
    <3>1. k \in DOMAIN lines[n].chain
      BY <1>1, LenProperties
    <3>2. QED
      BY <3>1 DEF ToSet
  <2>2. lines[n].chain[k] \in {lines[j].name : j \in n + 1 .. Len(lines)}
    BY <1>2, <2>1
  <2>3. QED
    BY <2>2
<1>6. \A j \in n - 1 + 1 .. Len(lines) : lines[j].name \in known /\ Forward(lines, j)
  BY <1>2, <1>3, <1>5
<1>7. Built(Append(tab, q)) = {lines[j].name : j \in n - 1 + 1 .. Len(lines)}
  BY <1>2, <1>3, <1>4
<1>8. n - 1 # Len(lines) /\ n - 1 + 1 = n
  BY <1>1
<1>9. QED
  BY <1>6, <1>7, <1>8 DEF SectionBuilt

\* The last of the lines that are left, and what is left after it.
LEMMA NextLine ==
  ASSUME NEW lines \in Seq(Line), NEW left \in Seq(Line), Begins(left, lines), left # <<>>
  PROVE  /\ Len(left) \in 1 .. Len(lines) /\ Last(left) = lines[Len(left)] /\ Last(left) \in Line
         /\ Front(left) \in Seq(Line) /\ Len(Front(left)) = Len(left) - 1 /\ Begins(Front(left), lines)
<1>1. Len(left) \in Nat /\ Len(lines) \in Nat /\ Len(left) # 0 /\ Len(left) <= Len(lines)
  BY LenProperties, EmptySeq DEF Begins
<1>2. Last(left) = left[Len(left)] /\ left[Len(left)] = lines[Len(left)]
  BY <1>1 DEF Last, Begins
<1>3. Last(left) \in Line
  BY <1>1, <1>2, ElementOfSeq
<1>4. PICK n \in Nat : n = Len(left) - 1
  BY <1>1
<1>5. Front(left) = SubSeq(left, 1, n)
  BY <1>4 DEF Front
<1>6. \A i \in 1 .. n : left[i] \in Line
  BY <1>1, <1>4, ElementOfSeq
<1>7. /\ Front(left) \in Seq(Line) /\ Len(Front(left)) = n
      /\ \A i \in 1 .. n : Front(left)[i] = left[i]
  <2>1. /\ SubSeq(left, 1, n) \in Seq(Line)
        /\ Len(SubSeq(left, 1, n)) = IF 1 <= n THEN n - 1 + 1 ELSE 0
        /\ \A i \in 1 .. n - 1 + 1 : SubSeq(left, 1, n)[i] = left[1 + i - 1]
    BY <1>6, SubSeqProperties
  <2>2. QED
    BY <1>5, <2>1
<1>8. Begins(Front(left), lines)
  BY <1>1, <1>4, <1>7 DEF Begins
<1>9. QED
  BY <1>1, <1>2, <1>3, <1>4, <1>7, <1>8

\* The file is read: errors end the process, and nothing is built yet otherwise.
LEMMA ParseKeeps ==
  ASSUME StartInv, NEW d \in Daemon, Parse(d)
  PROVE  StartInv'
<1>1. PICK p, st : p = proc[d] /\ st = Parsed[p.file]
  OBVIOUS
<1>2. /\ p.pc = "parse" /\ Alive(d) /\ p \in ProcRecord /\ ReadsFile(p)
      /\ p.file \in File /\ {p.listen} \cup SniffSocket(p.file) \subseteq Sock
  <2>1. p.pc = "parse"
    BY <1>1 DEF Parse
  <2>2. QED
    BY <1>1, <2>1, WhereItIs
<1>3. CASE Fatal(d, "config")
  <2>1. "config" \in Reason
    BY DEF Reason
  <2>2. QED
    BY <1>2, <1>3, <2>1, FatalKeeps, Zenon
<1>4. CASE /\ ~ st.errors
           /\ proc' = [proc EXCEPT ![d].pc = "storage", ![d].sp_list = st.sp, ![d].xp_list = st.xp]
           /\ UNCHANGED <<path, port, conn, overlap>>
  <2>1. st.sp \in Seq(Line) /\ st.xp \in Seq(Line)
    BY <1>1, <1>2, ParsedFile
  <2>2. PICK q : q = [p EXCEPT !.pc = "storage", !.sp_list = st.sp, !.xp_list = st.xp]
    OBVIOUS
  <2>3. proc' = [proc EXCEPT ![d] = q] /\ UNCHANGED <<path, port, overlap>>
    BY <1>1, <1>4, <2>2
  <2>4. /\ q \in ProcRecord /\ q.pc = "storage" /\ q.listen = p.listen /\ q.file = p.file
        /\ q.listening = p.listening /\ q.sp_list = st.sp /\ q.xp_list = st.xp
        /\ q.sPluginPtr = p.sPluginPtr /\ q.xPluginPtr = p.xPluginPtr /\ q.xpvec = p.xpvec
        /\ q.sp = p.sp /\ q.xp = p.xp
    BY <1>2, <2>1, <2>2 DEF ProcRecord
  <2>5. StorageBuilt(q, Len(q.sp_list))
    <3>1. SectionBuilt(st.sp, Len(st.sp), <<>>, Blank, StoragePlugins)
      BY <2>1, SectionStart
    <3>2. q.sPluginPtr = <<>> /\ q.sp = Blank
      BY <1>2, <2>4 DEF ReadsFile, NothingBuilt
    <3>3. Len(st.sp) + 1 .. Len(st.sp) = {}
      BY <2>1, LenProperties
    <3>4. QED
      BY <1>1, <2>4, <3>1, <3>2, <3>3 DEF StorageBuilt
  <2>6. Begins(st.sp, st.sp)
    BY <2>1, LenProperties DEF Begins
  <2>7. BuildsStorage(q)
    BY <1>1, <1>2, <1>4, <2>4, <2>5, <2>6 DEF BuildsStorage, ReadsFile, NothingBuilt
  <2>8. q.pc \notin Gone \cup Between
    BY <2>4 DEF Gone, Between
  <2>9. ProcInv(q)
    BY <1>2, <2>4, <2>7, <2>8 DEF ProcInv
  <2>10. GtcBuilt(q) = GtcBuilt(proc[d])
    BY <1>1, <1>2, <2>4 DEF GtcBuilt, ReadsFile, NothingBuilt
  <2>11. QED
    BY <1>1, <1>2, <2>3, <2>4, <2>8, <2>9, <2>10, QuietStep
<1>5. QED
  BY <1>1, <1>3, <1>4 DEF Parse

\* One plugin of the storage.
LEMMA StoragePluginKeeps ==
  ASSUME StartInv, NEW d \in Daemon, StoragePlugin(d)
  PROVE  StartInv'
<1>1. PICK p, e, lines, n : /\ p = proc[d] /\ e = Last(p.sp_list)
                            /\ lines = Parsed[p.file].sp /\ n = Len(p.sp_list)
  OBVIOUS
<1>2. PICK new : new = [name |-> e.name, next |-> IF e.chain = <<>> THEN Blank ELSE e.chain[1],
                        more |-> <<>>]
  OBVIOUS
<1>3. /\ p.pc = "storage" /\ Alive(d) /\ p \in ProcRecord /\ BuildsStorage(p) /\ p.sp_list # <<>>
      /\ p.file \in File /\ {p.listen} \cup SniffSocket(p.file) \subseteq Sock
  <2>1. p.pc = "storage" /\ p.sp_list # <<>>
    BY <1>1 DEF StoragePlugin
  <2>2. QED
    BY <1>1, <2>1, WhereItIs
<1>4. CASE Fatal(d, "chain") \/ Fatal(d, "configure")
  <2>1. "chain" \in Reason /\ "configure" \in Reason
    BY DEF Reason
  <2>2. QED
    BY <1>3, <1>4, <2>1, FatalKeeps, Zenon
<1>5. CASE /\ e.name \in StoragePlugins
           /\ Len(e.chain) <= 1 /\ ToSet(e.chain) \subseteq Built(p.sPluginPtr)
           /\ proc' = [proc EXCEPT ![d].sp_list = Front(@), ![d].sPluginPtr = Append(@, new),
                                   ![d].sp = e.name]
           /\ UNCHANGED <<path, port, conn, overlap>>
  <2>1. /\ lines \in Seq(Line) /\ p.sp_list \in Seq(Line) /\ p.sPluginPtr \in Seq(Plugin)
        /\ Begins(p.sp_list, lines) /\ StorageBuilt(p, n)
    BY <1>1, <1>3, ParsedFile DEF ProcRecord, BuildsStorage
  <2>2. PICK left : left = Front(p.sp_list)
    OBVIOUS
  <2>3. /\ n \in 1 .. Len(lines) /\ e = lines[n] /\ e \in Line
        /\ left \in Seq(Line) /\ Len(left) = n - 1 /\ Begins(left, lines)
    BY <1>1, <1>3, <2>1, <2>2, NextLine
  <2>4. new \in Plugin /\ new.name = e.name
    <3>1. e.name \in STRING /\ e.chain \in Seq(Name)
      BY <2>3 DEF Line, Name
    <3>2. e.chain # <<>> => e.chain[1] \in STRING
      <4>1. e.chain # <<>> => 1 \in 1 .. Len(e.chain)
        BY <3>1, LenProperties, EmptySeq
      <4>2. QED
        BY <3>1, <4>1, ElementOfSeq DEF Name
    <3>3. <<>> \in Seq(Name)
      BY EmptySeq
    <3>4. QED
      BY <1>2, <3>1, <3>2, <3>3 DEF Plugin
  <2>5. PICK q : q = [p EXCEPT !.sp_list = left, !.sPluginPtr = Append(p.sPluginPtr, new), !.sp = e.name]
    OBVIOUS
  <2>6. proc' = [proc EXCEPT ![d] = q] /\ UNCHANGED <<path, port, overlap>>
    BY <1>1, <1>5, <2>2, <2>5
  <2>7. Append(p.sPluginPtr, new) \in Seq(Plugin) /\ e.name \in STRING
    BY <2>1, <2>3, <2>4, AppendProperties DEF Line
  <2>8. /\ q \in ProcRecord /\ q.pc = "storage" /\ q.listen = p.listen /\ q.file = p.file
        /\ q.listening = p.listening /\ q.sp_list = left /\ q.xp_list = p.xp_list
        /\ q.sPluginPtr = Append(p.sPluginPtr, new) /\ q.xPluginPtr = p.xPluginPtr
        /\ q.xpvec = p.xpvec /\ q.sp = e.name /\ q.xp = p.xp
    BY <1>3, <2>3, <2>5, <2>7 DEF ProcRecord
  <2>9. SectionBuilt(lines, n - 1, Append(p.sPluginPtr, new), e.name, StoragePlugins)
    <3>1. SectionBuilt(lines, n, p.sPluginPtr, p.sp, StoragePlugins)
      BY <1>1, <2>1 DEF StorageBuilt
    <3>2. QED
      BY <1>5, <2>1, <2>3, <2>4, <3>1, SectionStep
  <2>10. \A j \in n - 1 + 1 .. Len(lines) : Len(lines[j].chain) <= 1
    <3>1. \A j \in n + 1 .. Len(lines) : Len(lines[j].chain) <= 1
      BY <1>1, <2>1 DEF StorageBuilt
    <3>2. Len(lines) \in Nat
      BY <2>1, LenProperties
    <3>3. QED
      BY <1>5, <2>3, <3>1, <3>2
  <2>11. StorageBuilt(q, Len(q.sp_list))
    BY <1>1, <2>3, <2>8, <2>9, <2>10 DEF StorageBuilt
  <2>12. BuildsStorage(q)
    BY <1>1, <1>3, <2>3, <2>8, <2>11 DEF BuildsStorage
  <2>13. q.pc \notin Gone \cup Between
    BY <2>8 DEF Gone, Between
  <2>14. ProcInv(q) /\ GtcBuilt(q) = GtcBuilt(proc[d])
    BY <1>1, <1>3, <2>8, <2>12, <2>13, BuiltAlike DEF ProcInv
  <2>15. QED
    BY <1>1, <1>3, <2>6, <2>8, <2>13, <2>14, QuietStep
<1>6. QED
  BY <1>1, <1>2, <1>4, <1>5, Zenon DEF StoragePlugin

\* The storage is built, and nothing of the transfer.
LEMMA StorageEndKeeps ==
  ASSUME StartInv, NEW d \in Daemon, StorageEnd(d)
  PROVE  StartInv'
<1>1. PICK p, lines : p = proc[d] /\ lines = Parsed[p.file].xp
  OBVIOUS
<1>2. /\ p.pc = "storage" /\ Alive(d) /\ p \in ProcRecord /\ BuildsStorage(p) /\ p.sp_list = <<>>
      /\ p.file \in File /\ {p.listen} \cup SniffSocket(p.file) \subseteq Sock
  <2>1. p.pc = "storage" /\ p.sp_list = <<>>
    BY <1>1 DEF StorageEnd
  <2>2. QED
    BY <1>1, <2>1, WhereItIs
<1>3. PICK q : q = [p EXCEPT !.pc = "transfer"]
  OBVIOUS
<1>4. proc' = [proc EXCEPT ![d] = q] /\ UNCHANGED <<path, port, overlap>>
  BY <1>1, <1>3 DEF StorageEnd, Goto
<1>5. /\ q \in ProcRecord /\ q.pc = "transfer" /\ q.listen = p.listen /\ q.file = p.file
      /\ q.listening = p.listening /\ q.sp_list = p.sp_list /\ q.xp_list = p.xp_list
      /\ q.sPluginPtr = p.sPluginPtr /\ q.xPluginPtr = p.xPluginPtr /\ q.xpvec = p.xpvec
      /\ q.sp = p.sp /\ q.xp = p.xp
  BY <1>2, <1>3 DEF ProcRecord
<1>6. lines \in Seq(Line) /\ Len(lines) \in Nat
  BY <1>1, <1>2, ParsedFile, LenProperties
<1>7. /\ p.xp_list = lines /\ p.xPluginPtr = <<>> /\ p.xpvec = <<>> /\ p.xp = Blank
      /\ p.listening = {p.listen} /\ ~ Parsed[p.file].errors /\ StorageBuilt(p, 0)
  BY <1>1, <1>2 DEF BuildsStorage
<1>8. TransferBuilt(q, Len(q.xp_list))
  <2>1. SectionBuilt(lines, Len(lines), <<>>, Blank, XferPlugins)
    BY <1>6, SectionStart
  <2>2. Len(lines) + 1 .. Len(lines) = {} /\ Len(<<>>) = Len(lines) - Len(lines) /\ 1 .. Len(<<>>) = {}
    BY <1>6
  <2>3. QED
    BY <1>1, <1>5, <1>7, <2>1, <2>2 DEF TransferBuilt
<1>9. Begins(q.xp_list, lines)
  BY <1>5, <1>6, <1>7 DEF Begins
<1>10. BuildsTransfer(q)
  BY <1>1, <1>5, <1>7, <1>8, <1>9, BuiltAlike DEF BuildsTransfer
<1>11. q.pc \notin Gone \cup Between
  BY <1>5 DEF Gone, Between
<1>12. ProcInv(q)
  BY <1>2, <1>5, <1>10, <1>11 DEF ProcInv
<1>13. GtcBuilt(q) = GtcBuilt(proc[d])
  BY <1>1, <1>5, BuiltAlike
<1>14. QED
  BY <1>1, <1>2, <1>4, <1>5, <1>11, <1>12, <1>13, QuietStep

\* The transfer is built, and the process is up or goes on to the socket of its sniffer.
LEMMA SnifferPluginKeeps ==
  ASSUME StartInv, NEW d \in Daemon, SnifferPlugin(d)
  PROVE  StartInv'
<1>1. PICK p, info : p = proc[d] /\ info = SnifferInfo[p.file]
  OBVIOUS
<1>2. /\ p.pc = "transfer" /\ Alive(d) /\ p \in ProcRecord /\ BuildsTransfer(p) /\ p.xp_list = <<>>
      /\ p.file \in File /\ {p.listen} \cup SniffSocket(p.file) \subseteq Sock
  <2>1. p.pc = "transfer" /\ p.xp_list = <<>>
    BY <1>1 DEF SnifferPlugin
  <2>2. QED
    BY <1>1, <2>1, WhereItIs
<1>3. AllBuilt(p) /\ p.listening = {p.listen}
  BY <1>2 DEF BuildsTransfer, AllBuilt
<1>4. CASE Fatal(d, "config")
  <2>1. "config" \in Reason
    BY DEF Reason
  <2>2. QED
    BY <1>2, <1>4, <2>1, FatalKeeps, Zenon
<1>5. CASE info.res = "none" /\ Goto(d, "running") /\ UNCHANGED <<path, port, conn, overlap>>
  <2>1. SniffSocket(p.file) = {}
    BY <1>1, <1>2, <1>5, SnifferFile
  <2>2. PICK q : q = [p EXCEPT !.pc = "running"]
    OBVIOUS
  <2>3. proc' = [proc EXCEPT ![d] = q] /\ UNCHANGED <<path, port, overlap>>
    BY <1>1, <1>5, <2>2 DEF Goto
  <2>4. /\ q \in ProcRecord /\ q.pc = "running" /\ q.listen = p.listen /\ q.file = p.file
        /\ q.listening = p.listening /\ q.xp_list = p.xp_list
        /\ q.sPluginPtr = p.sPluginPtr /\ q.xPluginPtr = p.xPluginPtr /\ q.xpvec = p.xpvec
        /\ q.sp = p.sp /\ q.xp = p.xp
    BY <1>2, <2>2 DEF ProcRecord
  <2>5. AllBuilt(q) /\ GtcBuilt(q) = GtcBuilt(proc[d])
    BY <1>1, <1>3, <2>4, BuiltAlike DEF AllBuilt
  <2>6. IsUp(q)
    BY <1>1, <1>2, <1>3, <1>5, <2>1, <2>4, <2>5 DEF IsUp
  <2>7. q.pc \notin Gone \cup Between
    BY <2>4 DEF Gone, Between
  <2>8. ProcInv(q)
    BY <1>2, <2>4, <2>6, <2>7 DEF ProcInv
  <2>9. QED
    BY <1>1, <1>2, <2>3, <2>4, <2>5, <2>7, <2>8, QuietStep
<1>6. CASE /\ info.res = "tcp"
           /\ proc' = [proc EXCEPT ![d].pc = "bind", ![d].cur = info.sock]
           /\ UNCHANGED <<path, port, conn, overlap>>
  <2>1. SniffSocket(p.file) = {info.sock} /\ info = [res |-> "tcp", sock |-> info.sock]
    <3>1. info = [res |-> info.res, sock |-> info.sock]
          /\ (info.res = "tcp" => SniffSocket(p.file) = {info.sock})
      BY <1>1, <1>2, SnifferFile, Zenon
    <3>2. QED
      BY <1>6, <3>1, Zenon
  <2>2. PICK q : q = [p EXCEPT !.pc = "bind", !.cur = info.sock]
    OBVIOUS
  <2>3. proc' = [proc EXCEPT ![d] = q] /\ UNCHANGED <<path, port, overlap>>
    BY <1>1, <1>6, <2>2
  <2>4. info.sock \in Sock /\ "bind" \in SocketSteps
    BY <1>2, <2>1 DEF SocketSteps
  <2>5. /\ q \in ProcRecord /\ q.pc = "bind" /\ q.listen = p.listen /\ q.file = p.file
        /\ q.cur = info.sock /\ q.listening = p.listening /\ q.xp_list = p.xp_list
        /\ q.sPluginPtr = p.sPluginPtr /\ q.xPluginPtr = p.xPluginPtr /\ q.xpvec = p.xpvec
        /\ q.sp = p.sp /\ q.xp = p.xp
    BY <1>2, <2>2, <2>4 DEF ProcRecord
  <2>6. AllBuilt(q) /\ GtcBuilt(q) = GtcBuilt(proc[d])
    BY <1>1, <1>3, <2>5, BuiltAlike DEF AllBuilt
  <2>7. TakesSniffers(q)
    BY <1>1, <1>2, <1>3, <2>1, <2>4, <2>5, <2>6 DEF TakesSniffers
  <2>8. q.pc \notin Gone \cup Between
    BY <2>5 DEF Gone, Between
  <2>9. ProcInv(q)
    BY <1>2, <2>5, <2>7, <2>8 DEF ProcInv
  <2>10. QED
    BY <1>1, <1>2, <2>3, <2>5, <2>6, <2>8, <2>9, QuietStep
<1>7. QED
  BY <1>1, <1>4, <1>5, <1>6 DEF SnifferPlugin

\* A list that follows another is empty when both are.
LEMMA ConcatEmpty ==
  ASSUME NEW S, NEW s \in Seq(S), NEW t \in Seq(S)
  PROVE  s \o t \in Seq(S) /\ (s \o t = <<>> <=> s = <<>> /\ t = <<>>) /\ (s = <<>> => s \o t = t)
<1>1. s \o t \in Seq(S) /\ Len(s \o t) = Len(s) + Len(t) /\ Len(s) \in Nat /\ Len(t) \in Nat
  BY ConcatProperties, LenProperties
<1>2. \A u \in Seq(S) : u = <<>> <=> Len(u) = 0
  BY EmptySeq
<1>3. s \o t = <<>> <=> s = <<>> /\ t = <<>>
  BY <1>1, <1>2
<1>4. s = <<>> => s \o t = t
  BY ConcatEmptySeq
<1>5. QED
  BY <1>1, <1>3, <1>4

\* xpvec when line e has been taken.
Lengthened(vec, e) == vec \o (IF Len(e.chain) > 1 THEN e.chain ELSE <<>>)

\* It is empty when it was and the line has no list.
LEMMA Lengthens ==
  ASSUME NEW old \in Seq(Name), NEW e \in Line, NEW vec, vec = Lengthened(old, e)
  PROVE  /\ vec \in Seq(Name)
         /\ (vec = <<>>) <=> (old = <<>> /\ Len(e.chain) <= 1)
         /\ old = <<>> => vec = IF Len(e.chain) > 1 THEN e.chain ELSE <<>>
         /\ e.chain \in Seq(Name) /\ Len(e.chain) \in Nat /\ (e.chain = <<>> <=> Len(e.chain) = 0)
<1>1. e.chain \in Seq(Name)
  BY DEF Line, Name
<1>2. Len(e.chain) \in Nat /\ (e.chain = <<>> <=> Len(e.chain) = 0)
  BY <1>1, LenProperties, EmptySeq
<1>3. PICK list : list = IF Len(e.chain) > 1 THEN e.chain ELSE <<>>
  OBVIOUS
<1>4. list \in Seq(Name)
  <2>1. <<>> \in Seq(Name)
    BY EmptySeq
  <2>2. QED
    BY <1>1, <1>3, <2>1
<1>5. list = <<>> <=> Len(e.chain) <= 1
  BY <1>2, <1>3
<1>6. /\ old \o list \in Seq(Name) /\ (old \o list = <<>> <=> old = <<>> /\ list = <<>>)
      /\ old = <<>> => old \o list = list
  BY <1>4, ConcatEmpty
<1>7. vec = old \o list
  BY <1>3 DEF Lengthened
<1>8. QED
  BY <1>1, <1>2, <1>3, <1>5, <1>6, <1>7

\* The only number between 0 and 2.
LEMMA OnlyOne == \A k \in Nat : (k <= 1 /\ k # 0) <=> k = 1
OBVIOUS

\* What NewXfer makes of line e, vec being what xpvec has become.
MadeFor(new, e, vec) ==
  /\ new.name = e.name /\ new.more = vec
  /\ new.next = IF vec # <<>> \/ e.chain = <<>> THEN Blank ELSE e.chain[1]

\* What the gtc plugin asks of line n, the lines behind it being built.
GtcFits(lines, n, new) ==
  lines[n].name = "gtc" =>
    /\ new.next = Blank /\ PortOf(lines[n]) \in Port
    /\ \A m \in n + 1 .. Len(lines) : lines[m].name = "gtc" => PortOf(lines[m]) # PortOf(lines[n])

\* One more plugin of the transfer, with what configure requires of it.
LEMMA TransferStep ==
  ASSUME NEW p \in ProcRecord, NEW lines \in Seq(Line), lines = Parsed[p.file].xp,
         NEW n \in 1 .. Len(lines), TransferBuilt(p, n), NEW e \in Line, e = lines[n],
         NEW vec, vec = Lengthened(p.xpvec, e), NEW new \in Plugin, MadeFor(new, e, vec),
         e.name \in XferPlugins, ToSet(e.chain) \subseteq Built(p.xPluginPtr), GtcFits(lines, n, new),
         NEW q, q.file = p.file, q.xPluginPtr = Append(p.xPluginPtr, new), q.xpvec = vec, q.xp = e.name
  PROVE  TransferBuilt(q, n - 1) /\ vec \in Seq(Name)
<1>1. PICK tab, len, t : tab = p.xPluginPtr /\ len = Len(lines) /\ t = Len(tab)
  OBVIOUS
<1>2. /\ len \in Nat /\ n \in 1 .. len /\ tab \in Seq(Plugin) /\ p.xpvec \in Seq(Name) /\ e.chain \in Seq(Name)
      /\ n - 1 + 1 = n /\ n - 1 + 1 .. len = {n} \cup (n + 1 .. len)
  <2>1. len \in Nat /\ n \in 1 .. len
    BY <1>1, LenProperties
  <2>2. tab \in Seq(Plugin) /\ p.xpvec \in Seq(Name)
    BY <1>1 DEF ProcRecord
  <2>3. e.chain \in Seq(Name)
    BY DEF Line, Name
  <2>4. QED
    BY <2>1, <2>2, <2>3
<1>3. /\ SectionBuilt(lines, n, tab, p.xp, XferPlugins) /\ t = len - n
      /\ \A i \in 1 .. t :
           /\ tab[i].name = lines[len + 1 - i].name
           /\ (\A j \in 1 .. i - 1 : tab[j].more = <<>>) => ChainedTo(tab[i], lines[len + 1 - i].chain)
      /\ (\A i \in 1 .. t : tab[i].more = <<>>) => p.xpvec = <<>>
      /\ (p.xpvec = <<>>) <=> (\A j \in n + 1 .. len : Len(lines[j].chain) <= 1)
      /\ \A j \in n + 1 .. len :
           lines[j].name = "gtc" =>
             /\ PortOf(lines[j]) \in Port
             /\ Len(lines[j].chain) = 1 => \E m \in j + 1 .. len : Len(lines[m].chain) > 1
             /\ \A m \in n + 1 .. len : m # j /\ lines[m].name = "gtc" => PortOf(lines[m]) # PortOf(lines[j])
  BY <1>1, Zenon DEF TransferBuilt
<1>4. Len(e.chain) \in Nat /\ (e.chain = <<>> <=> Len(e.chain) = 0)
  BY Lengthens, <1>2
<1>5. /\ vec \in Seq(Name) /\ ((vec = <<>>) <=> (p.xpvec = <<>> /\ Len(e.chain) <= 1))
      /\ p.xpvec = <<>> => vec = IF Len(e.chain) > 1 THEN e.chain ELSE <<>>
  <2>1. p.xpvec \in Seq(Name)
    BY <1>2, Zenon
  <2>2. QED
    BY Lengthens, <2>1, Zenon
<1>6. PICK tab2 : tab2 = Append(tab, new)
  OBVIOUS
<1>7. /\ tab2 \in Seq(Plugin) /\ Len(tab2) = t + 1 /\ tab2[t + 1] = new
      /\ \A i \in 1 .. t : tab2[i] = tab[i]
  BY <1>1, <1>2, <1>6, AppendProperties
<1>8. SectionBuilt(lines, n - 1, tab2, e.name, XferPlugins)
  BY <1>1, <1>2, <1>3, <1>6, SectionStep DEF MadeFor
<1>9. Len(tab2) = len - (n - 1) /\ len + 1 - (t + 1) = n /\ t \in Nat
  <2>1. t = len - n
    BY <1>3, Zenon
  <2>2. Len(tab2) = t + 1
    BY <1>7, Zenon
  <2>3. len \in Nat /\ n \in 1 .. len
    BY <1>2, Zenon
  <2>4. QED
    BY <2>1, <2>2, <2>3
<1>10. ASSUME p.xpvec = <<>>
       PROVE  ChainedTo(new, e.chain)
  <2>1. vec = IF Len(e.chain) > 1 THEN e.chain ELSE <<>>
    BY <1>5, <1>10
  <2>2. new.more = IF Len(e.chain) > 1 THEN e.chain ELSE <<>>
    BY <2>1 DEF MadeFor
  <2>3. new.next = IF Len(e.chain) = 1 THEN e.chain[1] ELSE Blank
    <3>1. new.next = IF vec # <<>> \/ e.chain = <<>> THEN Blank ELSE e.chain[1]
      BY Zenon DEF MadeFor
    <3>2. PICK k \in Nat : k = Len(e.chain)
      BY <1>4
    <3>3. (vec = <<>> <=> k <= 1) /\ (e.chain = <<>> <=> k = 0)
      BY <1>4, <1>5, <1>10, <3>2, Zenon
    <3>4. (k <= 1 /\ k # 0) <=> k = 1
      BY <3>2, OnlyOne, Zenon
    <3>5. (vec # <<>> \/ e.chain = <<>>) <=> k # 1
      BY <3>3, <3>4, Zenon
    <3>6. QED
      BY <3>1, <3>2, <3>5, Zenon
  <2>4. QED
    BY <2>2, <2>3 DEF ChainedTo
<1>11. ASSUME NEW i \in 1 .. Len(tab2)
       PROVE  /\ tab2[i].name = lines[len + 1 - i].name
              /\ (\A j \in 1 .. i - 1 : tab2[j].more = <<>>) => ChainedTo(tab2[i], lines[len + 1 - i].chain)
  <2>1. CASE i \in 1 .. t
    <3>1. \A j \in 1 .. i - 1 : tab2[j] = tab[j]
      BY <1>7, <1>9, <2>1
    <3>2. QED
      BY <1>3, <1>7, <2>1, <3>1
  <2>2. CASE i = t + 1
    <3>1. tab2[i] = new /\ lines[len + 1 - i] = e
      BY <1>7, <1>9, <2>2
    <3>2. ASSUME \A j \in 1 .. i - 1 : tab2[j].more = <<>>
          PROVE  p.xpvec = <<>>
      <4>1. \A j \in 1 .. t : tab[j].more = <<>>
        BY <1>7, <1>9, <2>2, <3>2
      <4>2. QED
        BY <1>3, <4>1
    <3>3. QED
      BY <1>10, <3>1, <3>2 DEF MadeFor
  <2>3. QED
    BY <1>7, <1>9, <2>1, <2>2
<1>12. (\A i \in 1 .. Len(tab2) : tab2[i].more = <<>>) => vec = <<>>
  <2>1. t + 1 \in 1 .. Len(tab2) /\ tab2[t + 1].more = vec
    BY <1>7, <1>9 DEF MadeFor
  <2>2. QED
    BY <2>1, Zenon
<1>13. (vec = <<>>) <=> (\A j \in n - 1 + 1 .. len : Len(lines[j].chain) <= 1)
  BY <1>2, <1>3, <1>4, <1>5
<1>14. ASSUME NEW j \in n - 1 + 1 .. len, lines[j].name = "gtc"
       PROVE  /\ PortOf(lines[j]) \in Port
              /\ Len(lines[j].chain) = 1 => \E m \in j + 1 .. len : Len(lines[m].chain) > 1
              /\ \A m \in n - 1 + 1 .. len : m # j /\ lines[m].name = "gtc" => PortOf(lines[m]) # PortOf(lines[j])
  <2>1. CASE j = n
    <3>1. lines[j] = e /\ PortOf(lines[j]) \in Port
      BY <1>14, <2>1 DEF GtcFits
    <3>2. ASSUME Len(e.chain) = 1
          PROVE  \E m \in n + 1 .. len : Len(lines[m].chain) > 1
      <4>1. e.chain # <<>> /\ Len(e.chain) <= 1
        BY <1>4, <3>2
      <4>2. p.xpvec # <<>>
        <5>1. ASSUME vec = <<>>
              PROVE  FALSE
          <6>1. Blank \in Name
            <7>1. new.next = e.chain[1]
              BY <4>1, <5>1 DEF MadeFor
            <7>2. e.chain[1] \in Name
              BY <1>2, <3>2, ElementOfSeq
            <7>3. new.next = Blank
              BY <1>14, <2>1 DEF GtcFits
            <7>4. QED
              BY <7>1, <7>2, <7>3
          <6>2. QED
            BY <6>1, BlankIsNone
        <5>2. QED
          BY <1>5, <4>1, <5>1
      <4>3. PICK m \in n + 1 .. len : ~ (Len(lines[m].chain) <= 1)
        BY <1>3, <4>2
      <4>4. Len(lines[m].chain) \in Nat
        <5>1. m \in 1 .. Len(lines)
          BY <1>1, <1>2
        <5>2. lines[m] \in Line
          BY <5>1, ElementOfSeq
        <5>3. lines[m].chain \in Seq(Name)
          BY <5>2 DEF Line, Name
        <5>4. QED
          BY <5>3, LenProperties
      <4>5. QED
        BY <4>3, <4>4
    <3>3. ASSUME NEW m \in n - 1 + 1 .. len, m # j, lines[m].name = "gtc"
          PROVE  PortOf(lines[m]) # PortOf(lines[j])
      <4>1. m \in n + 1 .. len
        BY <1>2, <2>1, <3>3
      <4>2. QED
        BY <1>1, <1>14, <2>1, <3>3, <4>1 DEF GtcFits
    <3>4. QED
      BY <2>1, <3>1, <3>2, <3>3
  <2>2. CASE j # n
    <3>1. j \in n + 1 .. len
      BY <1>2, <1>14, <2>2
    <3>2. ASSUME NEW m \in n - 1 + 1 .. len, m # j, lines[m].name = "gtc"
          PROVE  PortOf(lines[m]) # PortOf(lines[j])
      <4>1. CASE m = n
        BY <1>1, <1>14, <3>1, <3>2, <4>1 DEF GtcFits
      <4>2. CASE m # n
        <5>1. m \in n + 1 .. len
          BY <1>2, <3>2, <4>2
        <5>2. QED
          BY <1>3, <1>14, <3>1, <3>2, <5>1
      <4>3. QED
        BY <4>1, <4>2
    <3>3. QED
      BY <1>3, <1>14, <3>1, <3>2
  <2>3. QED
    BY <2>1, <2>2
<1>15. TransferBuilt(q, n - 1)
  <2>1. q.xPluginPtr = tab2 /\ Parsed[q.file].xp = lines /\ q.xpvec = vec /\ q.xp = e.name
    BY <1>1, <1>6
  <2>2. Len(tab2) = Len(lines) - (n - 1)
    BY <1>1, <1>9
  <2>3. \A i \in 1 .. Len(tab2) :
          /\ tab2[i].name = lines[Len(lines) + 1 - i].name
          /\ (\A j \in 1 .. i - 1 : tab2[j].more = <<>>)
                => ChainedTo(tab2[i], lines[Len(lines) + 1 - i].chain)
    BY <1>1, <1>11, Zenon
  <2>4. (vec = <<>>) <=> (\A j \in n - 1 + 1 .. Len(lines) : Len(lines[j].chain) <= 1)
    BY <1>1, <1>13, Zenon
  <2>5. \A j \in n - 1 + 1 .. Len(lines) :
          lines[j].name = "gtc" =>
            /\ PortOf(lines[j]) \in Port
            /\ Len(lines[j].chain) = 1 => \E m \in j + 1 .. Len(lines) : Len(lines[m].chain) > 1
            /\ \A m \in n - 1 + 1 .. Len(lines) :
                 m # j /\ lines[m].name = "gtc" => PortOf(lines[m]) # PortOf(lines[j])
    BY <1>1, <1>14, Zenon
  <2>6. QED
    BY <1>8, <1>12, <2>1, <2>2, <2>3, <2>4, <2>5, Zenon DEF TransferBuilt
<1>16. QED
  BY <1>5, <1>15

\* The ports of the lines behind the first n.
GtcPorts(lines, n) ==
  {PortOf(lines[j]) : j \in {i \in n + 1 .. Len(lines) : lines[i].name = "gtc"}}

LEMMA GtcPortsStep ==
  ASSUME NEW lines \in Seq(Line), NEW n \in 1 .. Len(lines)
  PROVE  /\ lines[n].name = "gtc" => GtcPorts(lines, n - 1) = {PortOf(lines[n])} \cup GtcPorts(lines, n)
         /\ lines[n].name # "gtc" => GtcPorts(lines, n - 1) = GtcPorts(lines, n)
<1>1. n - 1 + 1 .. Len(lines) = {n} \cup (n + 1 .. Len(lines))
  BY LenProperties
<1>2. QED
  BY <1>1 DEF GtcPorts

\* The ports a process has built for are those of the lines it has taken.
LEMMA GtcBuiltPorts ==
  ASSUME NEW p \in ProcRecord, TransferBuilt(p, Len(p.xp_list)), Parsed[p.file].xp \in Seq(Line)
  PROVE  GtcBuilt(p) = GtcPorts(Parsed[p.file].xp, Len(p.xp_list))
<1>1. PICK lines, n, tab : lines = Parsed[p.file].xp /\ n = Len(p.xp_list) /\ tab = p.xPluginPtr
  OBVIOUS
<1>2. CASE tab = <<>>
  <2>1. Len(tab) = Len(lines) - n
    BY <1>1, Zenon DEF TransferBuilt
  <2>2. p.xp_list \in Seq(Line)
    BY DEF ProcRecord
  <2>3. Len(tab) = 0 /\ n \in Nat /\ Len(lines) \in Nat
    <3>1. Len(<<>>) = 0
      BY EmptySeq
    <3>2. QED
      BY <1>1, <1>2, <2>2, <3>1, LenProperties
  <2>4. n + 1 .. Len(lines) = {}
    BY <2>1, <2>3
  <2>5. GtcPorts(lines, n) = {}
    BY <2>4 DEF GtcPorts
  <2>6. GtcBuilt(p) = {}
    BY <1>1, <1>2, Zenon DEF GtcBuilt
  <2>7. QED
    BY <1>1, <2>5, <2>6
<1>3. CASE tab # <<>>
  BY <1>1, <1>3, Zenon DEF GtcBuilt, GtcPorts
<1>4. QED
  BY <1>2, <1>3

\* The plugin that TransferPlugin makes.
LEMMA NewPlugin ==
  ASSUME NEW d \in Daemon, NEW p \in ProcRecord, p = proc[d], NEW e \in Line,
         NEW vec, vec = Vector(d, e), NEW new, new = NewXfer(d, e)
  PROVE  vec = Lengthened(p.xpvec, e) /\ MadeFor(new, e, vec) /\ new \in Plugin
<1>1. vec = Lengthened(p.xpvec, e)
  BY Zenon DEF Vector, Lengthened
<1>2. p.xpvec \in Seq(Name)
  BY DEF ProcRecord
<1>3. vec \in Seq(Name) /\ e.chain \in Seq(Name) /\ Len(e.chain) \in Nat /\ (e.chain = <<>> <=> Len(e.chain) = 0)
  BY <1>1, <1>2, Lengthens, Zenon
<1>4. PICK next : next = IF vec # <<>> \/ e.chain = <<>> THEN Blank ELSE e.chain[1]
  OBVIOUS
<1>5. new = [name |-> e.name, more |-> vec, next |-> next]
  BY <1>4, Zenon DEF NewXfer
<1>6. next \in STRING \cup {Blank}
  <2>1. CASE vec # <<>> \/ e.chain = <<>>
    BY <1>4, <2>1
  <2>2. CASE ~ (vec # <<>> \/ e.chain = <<>>)
    <3>1. 1 \in 1 .. Len(e.chain)
      <4>1. Len(e.chain) # 0
        BY <1>3, <2>2, Zenon
      <4>2. QED
        BY <1>3, <4>1
    <3>2. e.chain[1] \in Name
      BY <1>3, <3>1, ElementOfSeq
    <3>3. QED
      BY <1>4, <2>2, <3>2 DEF Name
  <2>3. QED
    BY <2>1, <2>2
<1>7. new.name = e.name /\ new.more = vec /\ new.next = next
  BY <1>5
<1>8. MadeFor(new, e, vec)
  BY <1>4, <1>7, Zenon DEF MadeFor
<1>9. e.name \in STRING
  BY DEF Line
<1>10. new \in Plugin
  BY <1>3, <1>5, <1>6, <1>9 DEF Plugin
<1>11. QED
  BY <1>1, <1>8, <1>10

\* What TransferPlugin does when the plugin is built.
TakesPlugin(d, e, vec, new) ==
  /\ Buildable(d, e) /\ ~ Misconfigured(d, e) /\ ~ PortTaken(e)
  /\ proc' = [proc EXCEPT ![d].xp_list = Front(@), ![d].xpvec = vec,
                          ![d].xPluginPtr = Append(@, new), ![d].xp = e.name]
  /\ port' = IF e.name = "gtc" THEN [port EXCEPT ![PortOf(e)] = d] ELSE port
  /\ UNCHANGED <<path, conn, overlap>>

\* The process has the ports of the lines behind the first n, and those that changed hands were free.
HasPorts(d, lines, n) ==
  /\ port' \in [Port -> Daemon \cup {None}]
  /\ \A c \in Port : port'[c] # port[c] => {port[c], port'[c]} \subseteq {d, None}
  /\ \A c \in GtcPorts(lines, n) : c \in Port /\ port'[c] = d
  /\ \A c \in Port : port'[c] = d => c \in GtcPorts(lines, n)

\* The ports that change hands, and what the gtc plugin finds.
LEMMA PortsOfPlugin ==
  ASSUME StartInv, NEW d \in Daemon, Alive(d), NEW lines \in Seq(Line),
         NEW n \in 1 .. Len(lines), NEW e, e = lines[n], NEW vec, NEW new, new = NewXfer(d, e),
         GtcBuilt(proc[d]) = GtcPorts(lines, n), TakesPlugin(d, e, vec, new)
  PROVE  GtcFits(lines, n, new) /\ HasPorts(d, lines, n - 1)
<1>1. port \in [Port -> Daemon \cup {None}]
  BY DEF StartInv, StartType
<1>2. \A c \in GtcPorts(lines, n) : c \in Port /\ port[c] = d
  BY DEF StartInv, PortInv
<1>3. \A c \in Port : port[c] = d => c \in GtcPorts(lines, n)
  BY NoneIsNobody DEF StartInv, PortInv
<1>4. CASE e.name = "gtc"
  <2>1. new.next = Blank /\ PortOf(e) \in Port /\ port[PortOf(e)] = None /\ port' = [port EXCEPT ![PortOf(e)] = d]
    BY <1>4, Zenon DEF TakesPlugin, Misconfigured, PortTaken
  <2>2. \A m \in n + 1 .. Len(lines) : lines[m].name = "gtc" => PortOf(lines[m]) \in GtcPorts(lines, n)
    BY DEF GtcPorts
  <2>3. \A m \in n + 1 .. Len(lines) : lines[m].name = "gtc" => PortOf(lines[m]) # PortOf(lines[n])
    <3>1. PortOf(e) \notin GtcPorts(lines, n)
      BY <1>2, <2>1, NoneIsNobody
    <3>2. QED
      BY <2>2, <3>1, Zenon
  <2>4. GtcFits(lines, n, new)
    BY <2>1, <2>3, Zenon DEF GtcFits
  <2>5. GtcPorts(lines, n - 1) = {PortOf(e)} \cup GtcPorts(lines, n)
    BY <1>4, GtcPortsStep, Zenon
  <2>6. PICK c0 : c0 = PortOf(e)
    OBVIOUS
  <2>7. c0 \in Port /\ port' = [port EXCEPT ![c0] = d] /\ port[c0] = None
    BY <2>1, <2>6, Zenon
  <2>8. GtcPorts(lines, n - 1) = {c0} \cup GtcPorts(lines, n)
    BY <2>5, <2>6, Zenon
  <2>9. \A c \in Port : port'[c] = IF c = c0 THEN d ELSE port[c]
    BY <1>1, <2>7, Zenon
  <2>10. /\ port' \in [Port -> Daemon \cup {None}]
         /\ \A c \in Port : port'[c] # port[c] => {port[c], port'[c]} \subseteq {d, None}
    BY <1>1, <2>7, <2>9, Zenon
  <2>11. \A c \in GtcPorts(lines, n - 1) : c \in Port /\ port'[c] = d
    BY <1>2, <2>7, <2>8, <2>9, Zenon
  <2>12. \A c \in Port : port'[c] = d => c \in GtcPorts(lines, n - 1)
    BY <1>3, <2>8, <2>9, Zenon
  <2>13. QED
    BY <2>4, <2>10, <2>11, <2>12, Zenon DEF HasPorts
<1>5. CASE e.name # "gtc"
  <2>1. port' = port
    BY <1>5, Zenon DEF TakesPlugin
  <2>2. GtcPorts(lines, n - 1) = GtcPorts(lines, n)
    BY <1>5, GtcPortsStep, Zenon
  <2>3. GtcFits(lines, n, new)
    BY <1>5, Zenon DEF GtcFits
  <2>4. QED
    BY <1>1, <1>2, <1>3, <2>1, <2>2, <2>3, Zenon DEF HasPorts
<1>6. QED
  BY <1>4, <1>5, Zenon

\* One plugin of the transfer.
LEMMA TransferPluginKeeps ==
  ASSUME StartInv, NEW d \in Daemon, TransferPlugin(d)
  PROVE  StartInv'
<1>1. PICK p, e, lines, n : /\ p = proc[d] /\ e = Last(p.xp_list)
                            /\ lines = Parsed[p.file].xp /\ n = Len(p.xp_list)
  OBVIOUS
<1>2. PICK vec, new : vec = Vector(d, e) /\ new = NewXfer(d, e)
  OBVIOUS
<1>3. /\ p.pc = "transfer" /\ Alive(d) /\ p \in ProcRecord /\ BuildsTransfer(p) /\ p.xp_list # <<>>
      /\ p.file \in File /\ {p.listen} \cup SniffSocket(p.file) \subseteq Sock
  <2>1. p.pc = "transfer" /\ p.xp_list # <<>>
    BY <1>1, Zenon DEF TransferPlugin
  <2>2. QED
    BY <1>1, <2>1, WhereItIs
<1>4. CASE Fatal(d, "chain") \/ Fatal(d, "config") \/ Fatal(d, "port") \/ Fatal(d, "configure")
  <2>1. "chain" \in Reason /\ "config" \in Reason /\ "port" \in Reason /\ "configure" \in Reason
    BY DEF Reason
  <2>2. QED
    BY <1>3, <1>4, <2>1, FatalKeeps, Zenon
<1>5. CASE TakesPlugin(d, e, vec, new)
  <2>1. /\ lines \in Seq(Line) /\ p.xp_list \in Seq(Line) /\ p.xPluginPtr \in Seq(Plugin)
        /\ Begins(p.xp_list, lines) /\ TransferBuilt(p, n)
    BY <1>1, <1>3, ParsedFile DEF ProcRecord, BuildsTransfer
  <2>2. PICK left : left = Front(p.xp_list)
    OBVIOUS
  <2>3. /\ n \in 1 .. Len(lines) /\ e = lines[n] /\ e \in Line
        /\ left \in Seq(Line) /\ Len(left) = n - 1 /\ Begins(left, lines)
    BY <1>1, <1>3, <2>1, <2>2, NextLine
  <2>4. vec = Lengthened(p.xpvec, e) /\ MadeFor(new, e, vec) /\ new \in Plugin
    BY <1>1, <1>2, <1>3, <2>3, NewPlugin, Zenon
  <2>5. PICK q : q = [p EXCEPT !.xp_list = left, !.xpvec = vec,
                               !.xPluginPtr = Append(p.xPluginPtr, new), !.xp = e.name]
    OBVIOUS
  <2>6. proc' = [proc EXCEPT ![d] = q] /\ UNCHANGED <<path, overlap>>
    BY <1>1, <1>5, <2>2, <2>5 DEF TakesPlugin
  <2>7. GtcBuilt(p) = GtcPorts(lines, n)
    BY <1>1, <1>3, <2>1, GtcBuiltPorts, Zenon
  <2>8. GtcFits(lines, n, new) /\ HasPorts(d, lines, n - 1)
    <3>1. GtcBuilt(proc[d]) = GtcPorts(lines, n) /\ Alive(d) /\ lines \in Seq(Line) /\ n \in 1 .. Len(lines) /\ e = lines[n]
      BY <1>1, <1>3, <2>1, <2>3, <2>7, Zenon
    <3>2. new = NewXfer(d, e)
      BY <1>2, Zenon
    <3>3. QED
      BY <1>5, <3>1, <3>2, PortsOfPlugin, Zenon
  <2>9. e.name \in XferPlugins /\ ToSet(e.chain) \subseteq Built(p.xPluginPtr)
    BY <1>1, <1>5, Zenon DEF TakesPlugin, Buildable
  <2>10. p.xpvec \in Seq(Name) /\ vec \in Seq(Name) /\ Append(p.xPluginPtr, new) \in Seq(Plugin) /\ e.name \in STRING
    <3>1. p.xpvec \in Seq(Name)
      BY <1>3 DEF ProcRecord
    <3>2. vec \in Seq(Name)
      BY <2>3, <2>4, <3>1, Lengthens, Zenon
    <3>3. Append(p.xPluginPtr, new) \in Seq(Plugin)
      BY <2>1, <2>4, AppendProperties, Zenon
    <3>4. e.name \in STRING
      BY <2>3 DEF Line
    <3>5. QED
      BY <3>1, <3>2, <3>3, <3>4
  <2>11. /\ q \in ProcRecord /\ q.pc = "transfer" /\ q.listen = p.listen /\ q.file = p.file
         /\ q.listening = p.listening /\ q.sp_list = p.sp_list /\ q.xp_list = left
         /\ q.sPluginPtr = p.sPluginPtr /\ q.xPluginPtr = Append(p.xPluginPtr, new)
         /\ q.xpvec = vec /\ q.sp = p.sp /\ q.xp = e.name
    BY <1>3, <2>3, <2>5, <2>10 DEF ProcRecord
  <2>12. TransferBuilt(q, Len(q.xp_list))
    <3>1. TransferBuilt(q, n - 1)
      BY <1>1, <1>3, <2>1, <2>3, <2>4, <2>8, <2>9, <2>11, TransferStep, Zenon
    <3>2. QED
      BY <2>3, <2>11, <3>1, Zenon
  <2>13. BuildsTransfer(q)
    BY <1>1, <1>3, <2>3, <2>11, <2>12, BuiltAlike DEF BuildsTransfer
  <2>14. q.pc \notin Gone \cup Between
    BY <2>11 DEF Gone, Between
  <2>15. ProcInv(q)
    BY <1>3, <2>11, <2>13, <2>14 DEF ProcInv
  <2>16. GtcBuilt(q) = GtcPorts(lines, n - 1)
    <3>1. Parsed[q.file].xp = lines /\ Len(q.xp_list) = n - 1
      BY <1>1, <2>3, <2>11, Zenon
    <3>2. QED
      BY <2>1, <2>11, <2>12, <3>1, GtcBuiltPorts, Zenon
  <2>17. path' \in [Sock -> Daemon \cup {None}] /\ (~ overlap' => SocketInv')
    <3>1. path \in [Sock -> Daemon \cup {None}] /\ (~ overlap => SocketInv)
      BY DEF StartInv, StartType
    <3>2. q.listening \subseteq proc[d].listening
      BY <1>1, <2>11
    <3>3. ASSUME ~ overlap
          PROVE  SocketInv'
      <4>1. SocketInv /\ path' = path /\ q.pc \notin Between
        BY <2>6, <2>14, <3>1, <3>3
      <4>2. QED
        BY <2>6, <2>11, <3>2, <4>1, SocketsKept, Zenon
    <3>4. QED
      BY <2>6, <3>1, <3>3
  <2>18. QED
    BY <2>6, <2>8, <2>11, <2>14, <2>15, <2>16, <2>17, OneProcess, Zenon DEF HasPorts
<1>6. QED
  BY <1>1, <1>2, <1>4, <1>5, Zenon DEF TransferPlugin, TakesPlugin

-----------------------------------------------------------------------------
(* Every step *)

\* The processes are started in their order.
InOrder == \E k \in 0 .. NumDaemons : Started = 1 .. k

\* A process that is being started was not.
LEMMA StartsNew ==
  ASSUME InOrder, NEW d \in Daemon, d = Cardinality(Started) + 1
  PROVE  proc[d].pc = "idle" /\ Started \cup {d} = 1 .. d
<1>1. PICK k \in 0 .. NumDaemons : Started = 1 .. k
  BY DEF InOrder
<1>2. k \in Nat
  BY <1>1, NumDaemonsAssumption
<1>3. Cardinality(1 .. k) = k
  <2>1. Cardinality(1 .. k) = IF 1 > k THEN 0 ELSE k - 1 + 1
    BY <1>2, FS_Interval
  <2>2. QED
    BY <1>2, <2>1
<1>4. d = k + 1
  BY <1>1, <1>3
<1>5. d \notin Started
  BY <1>1, <1>2, <1>4
<1>6. proc[d].pc = "idle"
  BY <1>5 DEF Started
<1>7. QED
  BY <1>1, <1>2, <1>4, <1>6

LEMMA StartKeeps ==
  ASSUME StartInv, InOrder, NEW d \in Daemon, NEW a \in Starts[d], Start(d, a)
  PROVE  StartInv' /\ InOrder'
<1>1. PICK q : q = [Idle EXCEPT !.pc = "bind", !.listen = a.listen, !.file = a.file, !.cur = a.listen]
  OBVIOUS
<1>2. /\ proc' = [proc EXCEPT ![d] = q] /\ path' = path /\ port' = port /\ overlap' = overlap
      /\ d = Cardinality(Started) + 1
  BY <1>1, Zenon DEF Start
<1>3. proc[d].pc = "idle" /\ Started \cup {d} = 1 .. d
  BY <1>2, StartsNew
<1>4. /\ a.file \in Seq(Line) /\ {a.listen} \cup SniffSocket(a.file) \subseteq Sock /\ a.file \in File
      /\ "bind" \in SocketSteps
  BY StartsAssumption DEF File, SocketSteps, Daemon
<1>5. Idle \in ProcRecord /\ Idle.listening = {} /\ NothingBuilt(Idle)
  <2>1. \A S : <<>> \in Seq(S)
    BY EmptySeq
  <2>2. Idle \in ProcRecord
    BY <2>1 DEF Idle, ProcRecord, Gone
  <2>3. Idle.listening = {} /\ NothingBuilt(Idle)
    BY DEF Idle, NothingBuilt
  <2>4. QED
    BY <2>2, <2>3
<1>6. /\ q \in ProcRecord /\ q.pc = "bind" /\ q.listen = a.listen /\ q.file = a.file /\ q.cur = a.listen
      /\ q.listening = {} /\ q.sPluginPtr = Idle.sPluginPtr /\ q.sp = Idle.sp
      /\ q.xPluginPtr = Idle.xPluginPtr /\ q.xpvec = Idle.xpvec /\ q.xp = Idle.xp
  BY <1>1, <1>4, <1>5 DEF ProcRecord
<1>7. q.pc \notin Gone /\ q.pc \notin Between
  BY <1>6 DEF Gone, Between
<1>8. NothingBuilt(q)
  BY <1>5, <1>6, Zenon DEF NothingBuilt
<1>9. TakesOwn(q)
  BY <1>4, <1>6, <1>8 DEF TakesOwn
<1>10. ProcInv(q)
  BY <1>4, <1>6, <1>7, <1>9, Zenon DEF ProcInv
<1>11. GtcBuilt(q) = {}
  BY <1>8, Zenon DEF NothingBuilt, GtcBuilt
<1>12. /\ port \in [Port -> Daemon \cup {None}] /\ path \in [Sock -> Daemon \cup {None}] /\ PortInv
       /\ ~ overlap => SocketInv
  BY DEF StartInv, StartType
<1>13. \A p \in Port : port[p] # d
  BY <1>3, <1>12, NoneIsNobody DEF PortInv, Alive, Gone
<1>14. ~ overlap' => SocketInv'
  BY <1>2, <1>6, <1>7, <1>12, SocketsKept
<1>15. StartInv'
  BY <1>2, <1>6, <1>7, <1>10, <1>11, <1>12, <1>13, <1>14, OneProcess
<1>16. InOrder'
  <2>1. proc \in [Daemon -> ProcRecord]
    BY DEF StartInv, StartType
  <2>2. \A e \in Daemon : proc'[e].pc # "idle" <=> (proc[e].pc # "idle" \/ e = d)
    BY <1>2, <1>6, <2>1
  <2>3. Started' = Started \cup {d}
    BY <2>2 DEF Started
  <2>4. d \in 0 .. NumDaemons
    BY NumDaemonsAssumption DEF Daemon
  <2>5. QED
    BY <1>3, <2>3, <2>4 DEF InOrder
<1>17. QED
  BY <1>15, <1>16

\* A process that is started stays so, and starts no other.
LEMMA OrderKept ==
  ASSUME StartInv, InOrder, NEW d \in Daemon,
         Step(d) \/ NoRoutes(d) \/ Die(d) \/ UNCHANGED proc
  PROVE  InOrder'
<1>1. proc \in [Daemon -> ProcRecord]
  BY DEF StartInv, StartType
<1>2. SUFFICES \A e \in Daemon : proc'[e].pc = "idle" <=> proc[e].pc = "idle"
  BY DEF InOrder, Started
<1>3. ASSUME NEW pc, pc # "idle", proc[d].pc # "idle", Goto(d, pc)
      PROVE  \A e \in Daemon : proc'[e].pc = "idle" <=> proc[e].pc = "idle"
  BY <1>1, <1>3 DEF Goto, ProcRecord
<1>4. ASSUME NEW pc, NEW why, pc # "idle", proc[d].pc # "idle", End(d, pc, why)
      PROVE  \A e \in Daemon : proc'[e].pc = "idle" <=> proc[e].pc = "idle"
  BY <1>1, <1>4 DEF End, Idle
<1>5. ASSUME NEW why, proc[d].pc # "idle", Fatal(d, why)
      PROVE  \A e \in Daemon : proc'[e].pc = "idle" <=> proc[e].pc = "idle"
  BY <1>4, <1>5 DEF Fatal
<1>6. CASE Bind(d)
  BY <1>3, <1>6 DEF Bind
<1>7. CASE Probe(d)
  BY <1>3, <1>5, <1>7 DEF Probe
<1>8. CASE Unlink(d)
  BY <1>3, <1>8 DEF Unlink
<1>9. CASE Rebind(d)
  BY <1>3, <1>5, <1>9 DEF Rebind
<1>10. CASE Listen(d)
  BY <1>1, <1>10 DEF Listen, ProcRecord
<1>11. CASE Parse(d)
  <2>1. CASE Fatal(d, "config")
    BY <1>5, <1>11, <2>1 DEF Parse
  <2>2. CASE proc' = [proc EXCEPT ![d].pc = "storage", ![d].sp_list = Parsed[proc[d].file].sp,
                                  ![d].xp_list = Parsed[proc[d].file].xp]
    BY <1>1, <1>11, <2>2 DEF Parse, ProcRecord
  <2>3. QED
    BY <1>11, <2>1, <2>2 DEF Parse
<1>12. CASE StoragePlugin(d)
  <2>1. PICK e, new, left, tab :
          /\ e = Last(proc[d].sp_list) /\ left = Front(proc[d].sp_list)
          /\ new = [name |-> e.name, next |-> IF e.chain = <<>> THEN Blank ELSE e.chain[1], more |-> <<>>]
          /\ tab = Append(proc[d].sPluginPtr, new)
    OBVIOUS
  <2>2. /\ proc[d].pc = "storage"
        /\ \/ \E why : Fatal(d, why)
           \/ proc' = [proc EXCEPT ![d].sp_list = Front(@), ![d].sPluginPtr = Append(@, new), ![d].sp = e.name]
    BY <1>12, <2>1, Zenon DEF StoragePlugin
  <2>3. CASE proc' = [proc EXCEPT ![d].sp_list = Front(@), ![d].sPluginPtr = Append(@, new), ![d].sp = e.name]
    <3>1. proc' = [proc EXCEPT ![d] = [proc[d] EXCEPT !.sp_list = left, !.sPluginPtr = tab, !.sp = e.name]]
      BY <2>1, <2>3
    <3>2. proc'[d].pc = proc[d].pc /\ \A g \in Daemon \ {d} : proc'[g] = proc[g]
      BY <1>1, <3>1 DEF ProcRecord
    <3>3. QED
      BY <3>2, Zenon
  <2>4. QED
    BY <1>5, <2>2, <2>3
<1>13. CASE StorageEnd(d)
  BY <1>3, <1>13 DEF StorageEnd
<1>14. CASE TransferPlugin(d)
  <2>1. PICK e, vec, new, left, tab :
          /\ e = Last(proc[d].xp_list) /\ left = Front(proc[d].xp_list)
          /\ vec = Vector(d, e) /\ new = NewXfer(d, e) /\ tab = Append(proc[d].xPluginPtr, new)
    OBVIOUS
  <2>2. /\ proc[d].pc = "transfer"
        /\ (\E why : Fatal(d, why)) \/ TakesPlugin(d, e, vec, new)
    BY <1>14, <2>1, Zenon DEF TransferPlugin, TakesPlugin
  <2>3. CASE TakesPlugin(d, e, vec, new)
    <3>1. proc' = [proc EXCEPT ![d] = [proc[d] EXCEPT !.xp_list = left, !.xpvec = vec,
                                                      !.xPluginPtr = tab, !.xp = e.name]]
      BY <2>1, <2>3 DEF TakesPlugin
    <3>2. proc'[d].pc = proc[d].pc /\ \A g \in Daemon \ {d} : proc'[g] = proc[g]
      BY <1>1, <3>1 DEF ProcRecord
    <3>3. QED
      BY <3>2, Zenon
  <2>4. QED
    BY <1>5, <2>2, <2>3
<1>15. CASE SnifferPlugin(d)
  BY <1>1, <1>3, <1>5, <1>15 DEF SnifferPlugin, ProcRecord
<1>16. CASE NoRoutes(d)
  BY <1>5, <1>16 DEF NoRoutes
<1>17. CASE Die(d)
  BY <1>4, <1>17 DEF Die, Alive, Gone
<1>18. CASE UNCHANGED proc
  BY <1>18
<1>19. QED
  BY <1>6, <1>7, <1>8, <1>9, <1>10, <1>11, <1>12, <1>13, <1>14, <1>15, <1>16, <1>17, <1>18 DEF Step

\* A process that gives up for want of routes, or is killed.
LEMMA NoRoutesKeeps ==
  ASSUME StartInv, NEW d \in Daemon, NoRoutes(d)
  PROVE  StartInv'
<1>1. proc[d].pc = "transfer" /\ Fatal(d, "routes")
  BY Zenon DEF NoRoutes
<1>2. Alive(d)
  BY <1>1 DEF Alive, Gone
<1>3. "routes" \in Reason
  BY DEF Reason
<1>4. QED
  BY <1>1, <1>2, <1>3, FatalKeeps, Zenon

LEMMA DieKeeps ==
  ASSUME StartInv, NEW d \in Daemon, Die(d)
  PROVE  StartInv'
<1>1. Alive(d) /\ End(d, "dead", Blank) /\ path' = path /\ overlap' = overlap
  BY Zenon DEF Die
<1>2. "dead" \in {"fatal", "dead"} /\ Blank \in Reason \cup {Blank}
  OBVIOUS
<1>3. QED
  BY <1>1, <1>2, EndKeeps, Zenon

\* The clients touch nothing of the processes.
LEMMA UnchangedKeeps ==
  ASSUME StartInv, UNCHANGED <<proc, path, port, overlap>>
  PROVE  StartInv'
<1>1. StartType'
  BY DEF StartInv, StartType
<1>2. (\A d \in Daemon : ProcInv(proc[d]))'
  BY DEF StartInv
<1>3. PortInv'
  BY DEF StartInv, PortInv, Alive
<1>4. (~ overlap => SocketInv)'
  BY DEF StartInv, SocketInv, Answers, Alive
<1>5. QED
  BY <1>1, <1>2, <1>3, <1>4 DEF StartInv

LEMMA StartInvInit == Init => StartInv /\ InOrder
<1> SUFFICES ASSUME Init PROVE StartInv /\ InOrder
  OBVIOUS
<1>1. /\ \A d \in Daemon : proc[d] = Idle /\ DOMAIN proc = Daemon
      /\ proc = [d \in Daemon |-> Idle]
      /\ path = [s \in Sock |-> None] /\ port = [p \in Port |-> None]
  BY DEF Init
<1>2. Idle.pc = "idle" /\ Idle.listening = {} /\ Idle.pc \in Gone
  BY DEF Idle, Gone
<1>3. Idle \in ProcRecord
  <2>1. \A S : <<>> \in Seq(S)
    BY EmptySeq
  <2>2. QED
    BY <2>1 DEF Idle, ProcRecord, Gone
<1>4. StartType
  BY <1>1, <1>3 DEF StartType
<1>5. \A d \in Daemon : ProcInv(proc[d])
  BY <1>1, <1>2 DEF ProcInv
<1>6. \A d \in Daemon : ~ Alive(d)
  BY <1>1, <1>2 DEF Alive
<1>7. PortInv
  BY <1>1, <1>6 DEF PortInv
<1>8. SocketInv
  <2>1. \A d \in Daemon : proc[d].pc \notin Between
    BY <1>1, <1>2 DEF Between
  <2>2. QED
    BY <1>6, <2>1 DEF SocketInv, Between
<1>9. InOrder
  <2>1. Started = {}
    BY <1>1, <1>2 DEF Started
  <2>2. 1 .. 0 = {} /\ 0 \in 0 .. NumDaemons
    BY NumDaemonsAssumption
  <2>3. QED
    BY <2>1, <2>2 DEF InOrder
<1>10. QED
  BY <1>4, <1>5, <1>7, <1>8, <1>9 DEF StartInv

LEMMA StartInvStep == StartInv /\ InOrder /\ [Next]_vars => StartInv' /\ InOrder'
<1> SUFFICES ASSUME StartInv, InOrder, [Next]_vars PROVE StartInv' /\ InOrder'
  OBVIOUS
<1>1. ASSUME NEW d \in Daemon, NEW a \in Starts[d], Start(d, a)
      PROVE  StartInv' /\ InOrder'
  BY <1>1, StartKeeps
<1>2. ASSUME NEW d \in Daemon, Step(d)
      PROVE  StartInv'
  BY <1>2, BindKeeps, ProbeKeeps, UnlinkKeeps, RebindKeeps, ListenKeeps, ParseKeeps, StoragePluginKeeps,
     StorageEndKeeps, TransferPluginKeeps, SnifferPluginKeeps, Zenon DEF Step
<1>3. ASSUME NEW d \in Daemon, NoRoutes(d) \/ Die(d)
      PROVE  StartInv'
  BY <1>3, NoRoutesKeeps, DieKeeps, Zenon
<1>4. ASSUME NEW d \in Daemon, Step(d) \/ NoRoutes(d) \/ Die(d)
      PROVE  StartInv' /\ InOrder'
  BY <1>2, <1>3, <1>4, OrderKept, Zenon
<1>5. ASSUME NEW d \in Daemon, NEW c \in Client, accept_connection(d, c)
      PROVE  StartInv' /\ InOrder'
  BY <1>5, UnchangedKeeps, OrderKept DEF accept_connection
<1>6. ASSUME UNCHANGED <<proc, path, port, overlap>>
      PROVE  StartInv' /\ InOrder'
  <2>1. 1 \in Daemon
    BY NumDaemonsAssumption DEF Daemon
  <2>2. QED
    BY <1>6, <2>1, UnchangedKeeps, OrderKept
<1>7. ASSUME NEW c \in Client, NEW s \in Sock, Connect(c, s)
      PROVE  StartInv' /\ InOrder'
  BY <1>6, <1>7 DEF Connect
<1>8. UNCHANGED vars => UNCHANGED <<proc, path, port, overlap>>
  BY DEF vars
<1>9. QED
  BY <1>1, <1>4, <1>5, <1>6, <1>7, <1>8, Zenon DEF Next

\* The inductive invariant holds, and processes are started in their order.
THEOREM AlwaysStartInv == Spec => [](StartInv /\ InOrder)
<1>1. Init => StartInv /\ InOrder
  BY StartInvInit
<1>2. (StartInv /\ InOrder) /\ [Next]_vars => (StartInv /\ InOrder)'
  BY StartInvStep
<1>3. QED
  BY <1>1, <1>2, PTL DEF Spec

-----------------------------------------------------------------------------
(* What the files of the processes are *)

\* s has the lines of the section, that begin behind the first a of the file.
KeptFrom(f, sec, s, a) ==
  /\ \A i \in Lines(f, sec) : i \in Int /\ i - a \in 1 .. Len(s) /\ f[i] = s[i - a]
  /\ \A j \in 1 .. Len(s) : a + j \in Lines(f, sec) /\ f[a + j] = s[j]

\* The lines of a section of the file and those that the parser has kept.
LEMMA SectionLines ==
  ASSUME NEW f \in Seq(Line), NEW sec, NEW s \in Seq(Line), Section(f, sec, s)
  PROVE  \E a \in Nat : KeptFrom(f, sec, s, a)
<1>1. Len(f) \in Nat /\ Len(s) \in Nat
  BY LenProperties
<1>2. PICK a \in 0 .. Len(f) : /\ Lines(f, sec) = a + 1 .. a + Len(s)
                               /\ \A j \in 1 .. Len(s) : s[j] = f[a + j]
  BY DEF Section
<1>3. a \in Nat
  BY <1>1
<1>4. ASSUME NEW i \in Lines(f, sec)
      PROVE  i \in Int /\ i - a \in 1 .. Len(s) /\ f[i] = s[i - a]
  <2>1. i \in a + 1 .. a + Len(s)
    BY <1>2, <1>4
  <2>2. i \in Int /\ i - a \in 1 .. Len(s) /\ a + (i - a) = i
    BY <1>1, <1>3, <2>1
  <2>3. s[i - a] = f[a + (i - a)]
    BY <1>2, <2>2
  <2>4. QED
    BY <2>2, <2>3
<1>5. \A j \in 1 .. Len(s) : a + j \in Lines(f, sec) /\ f[a + j] = s[j]
  BY <1>1, <1>2, <1>3
<1>6. QED
  BY <1>3, <1>4, <1>5 DEF KeptFrom

\* The chains of a section lead forward in the file when they do in what was kept of it.
LEMMA ForwardChains ==
  ASSUME NEW f \in Seq(Line), NEW sec, NEW s \in Seq(Line), Section(f, sec, s)
  PROVE  ChainsForward(f, sec) <=> (\A j \in 1 .. Len(s) : Forward(s, j))
<1>0. PICK a \in Nat : KeptFrom(f, sec, s, a)
  BY SectionLines
<1>1. /\ \A i \in Lines(f, sec) : i \in Int /\ i - a \in 1 .. Len(s) /\ f[i] = s[i - a]
      /\ \A j \in 1 .. Len(s) : a + j \in Lines(f, sec) /\ f[a + j] = s[j]
  BY <1>0 DEF KeptFrom
<1>2. Len(s) \in Nat
  BY LenProperties
<1>3. \A j \in 1 .. Len(s) : DOMAIN s[j].chain = 1 .. Len(s[j].chain)
  <2> SUFFICES ASSUME NEW j \in 1 .. Len(s) PROVE DOMAIN s[j].chain = 1 .. Len(s[j].chain)
    OBVIOUS
  <2>1. s[j] \in Line
    BY ElementOfSeq
  <2>2. s[j].chain \in Seq(Name)
    BY <2>1 DEF Line, Name
  <2>3. QED
    BY <2>2, LenProperties
<1>4. ASSUME ChainsForward(f, sec), NEW j \in 1 .. Len(s)
      PROVE  Forward(s, j)
  <2> SUFFICES ASSUME NEW k \in 1 .. Len(s[j].chain)
               PROVE  \E m \in j + 1 .. Len(s) : s[m].name = s[j].chain[k]
    BY DEF Forward
  <2>1. a + j \in Lines(f, sec) /\ f[a + j] = s[j] /\ k \in DOMAIN f[a + j].chain
    BY <1>1, <1>3
  <2>2. PICK g \in Lines(f, sec) : g > a + j /\ f[g].name = s[j].chain[k]
    BY <1>4, <2>1 DEF ChainsForward
  <2>3. g \in Int /\ g - a \in 1 .. Len(s) /\ f[g] = s[g - a]
    BY <1>1
  <2>4. g - a \in j + 1 .. Len(s)
    BY <1>2, <2>2, <2>3
  <2>5. QED
    BY <2>2, <2>3, <2>4
<1>5. ASSUME \A j \in 1 .. Len(s) : Forward(s, j)
      PROVE  ChainsForward(f, sec)
  <2> SUFFICES ASSUME NEW i \in Lines(f, sec), NEW k \in DOMAIN f[i].chain
               PROVE  \E g \in Lines(f, sec) : g > i /\ f[g].name = f[i].chain[k]
    BY DEF ChainsForward
  <2>1. i \in Int /\ i - a \in 1 .. Len(s) /\ f[i] = s[i - a]
    BY <1>1
  <2>2. PICK j \in 1 .. Len(s) : j = i - a
    BY <2>1
  <2>3. Forward(s, j) /\ k \in 1 .. Len(s[j].chain)
    BY <1>3, <1>5, <2>1, <2>2
  <2>4. PICK m \in j + 1 .. Len(s) : s[m].name = s[j].chain[k]
    BY <2>3 DEF Forward
  <2>5. m \in 1 .. Len(s) /\ a + m > i
    BY <1>2, <2>1, <2>2, <2>4
  <2>6. a + m \in Lines(f, sec) /\ f[a + m] = s[m]
    BY <1>1, <2>5
  <2>7. QED
    BY <2>1, <2>2, <2>4, <2>5, <2>6
<1>6. QED
  BY <1>4, <1>5

\* What the storage section of a good file is like.
GoodStorage(s) ==
  \A j \in 1 .. Len(s) : s[j].name \in StoragePlugins /\ Len(s[j].chain) <= 1 /\ Forward(s, j)

\* And the transfer section.
GoodTransfer(s) ==
  \A j \in 1 .. Len(s) :
    /\ s[j].name \in XferPlugins /\ Forward(s, j)
    /\ s[j].name = "gtc" =>
         /\ PortOf(s[j]) \in Port
         /\ Len(s[j].chain) = 1 => \E m \in j + 1 .. Len(s) : Len(s[m].chain) > 1
         /\ \A m \in 1 .. Len(s) : m # j /\ s[m].name = "gtc" => PortOf(s[m]) # PortOf(s[j])

\* The transfer section of the file is good when what was kept of it is.
LEMMA TransferSection ==
  ASSUME NEW f \in Seq(Line), NEW s \in Seq(Line), Section(f, "transfer", s)
  PROVE  GoodTransfer(s) <=>
           /\ ChainsForward(f, "transfer")
           /\ \A i \in Lines(f, "transfer") :
                /\ f[i].name \in XferPlugins
                /\ f[i].name = "gtc" =>
                     /\ PortOf(f[i]) \in Port
                     /\ Len(f[i].chain) = 1 => \E j \in Lines(f, "transfer") : j > i /\ Len(f[j].chain) > 1
                     /\ \A j \in Lines(f, "transfer") : j # i /\ f[j].name = "gtc" => PortOf(f[j]) # PortOf(f[i])
<1>0. PICK a \in Nat : KeptFrom(f, "transfer", s, a)
  BY SectionLines
<1>1. /\ \A i \in Lines(f, "transfer") : i \in Int /\ i - a \in 1 .. Len(s) /\ f[i] = s[i - a]
      /\ \A j \in 1 .. Len(s) : a + j \in Lines(f, "transfer") /\ f[a + j] = s[j]
  BY <1>0 DEF KeptFrom
<1>2. PICK L, n : L = Lines(f, "transfer") /\ n = Len(s) /\ n \in Nat
  BY LenProperties
<1>3. /\ \A i \in L : i \in Int /\ i - a \in 1 .. n /\ f[i] = s[i - a]
      /\ \A j \in 1 .. n : a + j \in L /\ f[a + j] = s[j]
  BY <1>1, <1>2
<1>4. ChainsForward(f, "transfer") <=> (\A j \in 1 .. n : Forward(s, j))
  BY <1>2, ForwardChains
<1>5. \A j \in 1 .. n, m \in 1 .. n : (a + m > a + j <=> m \in j + 1 .. n) /\ (a + m # a + j <=> m # j)
  BY <1>2
<1>6. \A i, j \in L : (j > i <=> j - a \in i - a + 1 .. n) /\ (j # i <=> j - a # i - a)
  BY <1>2, <1>3
<1>7. ASSUME GoodTransfer(s), NEW i \in L
      PROVE  /\ f[i].name \in XferPlugins
             /\ f[i].name = "gtc" =>
                  /\ PortOf(f[i]) \in Port
                  /\ Len(f[i].chain) = 1 => \E j \in L : j > i /\ Len(f[j].chain) > 1
                  /\ \A j \in L : j # i /\ f[j].name = "gtc" => PortOf(f[j]) # PortOf(f[i])
  <2>1. PICK g \in 1 .. n : g = i - a /\ f[i] = s[g]
    BY <1>3
  <2>2. /\ s[g].name \in XferPlugins
        /\ s[g].name = "gtc" =>
             /\ PortOf(s[g]) \in Port
             /\ Len(s[g].chain) = 1 => \E m \in g + 1 .. n : Len(s[m].chain) > 1
             /\ \A m \in 1 .. n : m # g /\ s[m].name = "gtc" => PortOf(s[m]) # PortOf(s[g])
    BY <1>2, <1>7 DEF GoodTransfer
  <2>3. ASSUME NEW m \in g + 1 .. n, Len(s[m].chain) > 1
        PROVE  \E j \in L : j > i /\ Len(f[j].chain) > 1
    <3>1. m \in 1 .. n
      BY <1>2
    <3>2. a + m \in L /\ f[a + m] = s[m] /\ a + m > i
      BY <1>2, <1>3, <2>1, <3>1
    <3>3. QED
      BY <2>3, <3>2
  <2>4. ASSUME NEW j \in L, j # i, f[j].name = "gtc", f[i].name = "gtc"
        PROVE  PortOf(f[j]) # PortOf(f[i])
    <3>1. j - a \in 1 .. n /\ f[j] = s[j - a] /\ j - a # g
      BY <1>3, <1>6, <2>1, <2>4
    <3>2. QED
      BY <2>1, <2>2, <2>4, <3>1
  <2>5. QED
    BY <2>1, <2>2, <2>3, <2>4
<1>8. ASSUME \A j \in 1 .. n : Forward(s, j), NEW j \in 1 .. n,
             \A i \in L :
               /\ f[i].name \in XferPlugins
               /\ f[i].name = "gtc" =>
                    /\ PortOf(f[i]) \in Port
                    /\ Len(f[i].chain) = 1 => \E k \in L : k > i /\ Len(f[k].chain) > 1
                    /\ \A k \in L : k # i /\ f[k].name = "gtc" => PortOf(f[k]) # PortOf(f[i])
      PROVE  /\ s[j].name \in XferPlugins /\ Forward(s, j)
             /\ s[j].name = "gtc" =>
                  /\ PortOf(s[j]) \in Port
                  /\ Len(s[j].chain) = 1 => \E m \in j + 1 .. n : Len(s[m].chain) > 1
                  /\ \A m \in 1 .. n : m # j /\ s[m].name = "gtc" => PortOf(s[m]) # PortOf(s[j])
  <2>1. PICK i \in L : i = a + j /\ f[i] = s[j]
    BY <1>3
  <2>2. ASSUME s[j].name = "gtc", Len(s[j].chain) = 1
        PROVE  \E m \in j + 1 .. n : Len(s[m].chain) > 1
    <3>1. PICK k \in L : k > i /\ Len(f[k].chain) > 1
      BY <1>8, <2>1, <2>2
    <3>2. k - a \in j + 1 .. n /\ f[k] = s[k - a]
      <4>1. k \in Int /\ k - a \in 1 .. n /\ f[k] = s[k - a]
        BY <1>3, <3>1, Zenon
      <4>2. j + 1 <= k - a
        BY <2>1, <3>1, <4>1
      <4>3. QED
        BY <1>2, <4>1, <4>2
    <3>3. QED
      BY <3>1, <3>2
  <2>3. ASSUME s[j].name = "gtc", NEW m \in 1 .. n, m # j, s[m].name = "gtc"
        PROVE  PortOf(s[m]) # PortOf(s[j])
    <3>1. a + m \in L /\ f[a + m] = s[m] /\ a + m # i
      BY <1>2, <1>3, <2>1, <2>3
    <3>2. QED
      BY <1>8, <2>1, <2>3, <3>1
  <2>4. QED
    BY <1>8, <2>1, <2>2, <2>3
<1>9. QED
  BY <1>2, <1>4, <1>7, <1>8 DEF GoodTransfer

\* The same of the storage section.
LEMMA StorageSection ==
  ASSUME NEW f \in Seq(Line), NEW s \in Seq(Line), Section(f, "storage", s)
  PROVE  GoodStorage(s) <=>
           /\ ChainsForward(f, "storage")
           /\ \A i \in Lines(f, "storage") : f[i].name \in StoragePlugins /\ Len(f[i].chain) <= 1
<1>1. PICK a \in Nat : KeptFrom(f, "storage", s, a)
  BY SectionLines
<1>2. /\ \A i \in Lines(f, "storage") : i \in Int /\ i - a \in 1 .. Len(s) /\ f[i] = s[i - a]
      /\ \A j \in 1 .. Len(s) : a + j \in Lines(f, "storage") /\ f[a + j] = s[j]
  BY <1>1 DEF KeptFrom
<1>3. ChainsForward(f, "storage") <=> (\A j \in 1 .. Len(s) : Forward(s, j))
  BY ForwardChains
<1>4. (\A i \in Lines(f, "storage") : f[i].name \in StoragePlugins /\ Len(f[i].chain) <= 1)
        <=> (\A j \in 1 .. Len(s) : s[j].name \in StoragePlugins /\ Len(s[j].chain) <= 1)
  BY <1>2
<1>5. QED
  BY <1>3, <1>4, Zenon DEF GoodStorage

\* A file is good when the parsers find nothing wrong and the lines of both sections are good.
LEMMA GoodConfigIs ==
  ASSUME NEW f \in File
  PROVE  GoodConfig(f) <=> /\ ~ Parsed[f].errors
                           /\ GoodStorage(Parsed[f].sp) /\ GoodTransfer(Parsed[f].xp)
                           /\ SnifferInfo[f].res \in {"tcp", "none"}
<1>1. f \in Seq(Line) /\ Len(f) \in Nat /\ DOMAIN f = 1 .. Len(f)
  BY FilesHaveLines
<1>2. PICK sp, xp, info : sp = Parsed[f].sp /\ xp = Parsed[f].xp /\ info = SnifferInfo[f]
  OBVIOUS
<1>3. /\ sp \in Seq(Line) /\ xp \in Seq(Line)
      /\ ~ Parsed[f].errors <=> WellFormed(f)
      /\ ~ Parsed[f].errors => Section(f, "storage", sp) /\ Section(f, "transfer", xp)
  BY <1>2, ParsedFile, Zenon
<1> DEFINE StorageLines == \A i \in Lines(f, "storage") : f[i].name \in StoragePlugins /\ Len(f[i].chain) <= 1
           TransferLines ==
             \A i \in Lines(f, "transfer") :
               /\ f[i].name \in XferPlugins
               /\ f[i].name = "gtc" =>
                    /\ PortOf(f[i]) \in Port
                    /\ Len(f[i].chain) = 1 => \E j \in Lines(f, "transfer") : j > i /\ Len(f[j].chain) > 1
                    /\ \A j \in Lines(f, "transfer") : j # i /\ f[j].name = "gtc" => PortOf(f[j]) # PortOf(f[i])
           SnifferLines == /\ \E h \in DOMAIN f : f[h].head = "sniffer"
                           /\ \A h \in DOMAIN f : f[h].head = "sniffer" /\ h < Len(f) => Pair(f[h + 1])
<1>4. GoodConfig(f) <=> /\ WellFormed(f) /\ SnifferLines /\ StorageLines /\ TransferLines
                        /\ ChainsForward(f, "storage") /\ ChainsForward(f, "transfer")
  <2>1. (\A sec \in {"storage", "transfer", "sniffer"} : \E h \in DOMAIN f : f[h].head = sec) <=>
          /\ \A sec \in {"storage", "transfer"} : \E h \in 1 .. Len(f) : f[h].head = sec
          /\ \E h \in DOMAIN f : f[h].head = "sniffer"
    BY <1>1
  <2>2. Orderly(f, Len(f)) <=>
          /\ \A i \in DOMAIN f : f[i].head = Blank => \E h \in 1 .. i : f[h].head # Blank
          /\ \A i, j \in DOMAIN f : f[i].head # Blank /\ f[i].head = f[j].head => i = j
    BY <1>1, Zenon DEF Orderly
  <2>3. QED
    BY <2>1, <2>2, Zenon DEF GoodConfig, WellFormed
<1>5. ASSUME WellFormed(f)
      PROVE  SnifferLines <=> info.res \in {"tcp", "none"}
  <2>1. /\ info.res \in {"errors", "none", "tcp", "assert"}
        /\ info.res = "errors" <=> (\A h \in 1 .. Len(f) : f[h].head # "sniffer")
        /\ info.res = "assert" => \E h \in 1 .. Len(f) - 1 : f[h].head = "sniffer" /\ ~ Pair(f[h + 1])
        /\ info.res \in {"tcp", "none"} =>
             \E h \in 1 .. Len(f) : f[h].head = "sniffer" /\ (h < Len(f) => Pair(f[h + 1]))
    BY <1>2, SnifferFile, Zenon
  <2>2. \A i, j \in 1 .. Len(f) : f[i].head = "sniffer" /\ f[j].head = "sniffer" => i = j
    <3>1. \A i, j \in 1 .. Len(f) : f[i].head # Blank /\ f[i].head = f[j].head => i = j
      BY <1>5, Zenon DEF WellFormed, Orderly
    <3>2. "sniffer" # Blank
      BY DEF Blank
    <3>3. QED
      BY <3>1, <3>2, Zenon
  <2>3. ASSUME SnifferLines
        PROVE  info.res \in {"tcp", "none"}
    <3>1. info.res # "errors"
      BY <1>1, <2>1, <2>3, Zenon
    <3>2. info.res # "assert"
      <4>1. ASSUME NEW h \in 1 .. Len(f) - 1, f[h].head = "sniffer", ~ Pair(f[h + 1])
            PROVE  FALSE
        <5>1. h \in DOMAIN f /\ h < Len(f)
          <6>1. h \in 1 .. Len(f) - 1
            BY <4>1, Zenon
          <6>2. h \in 1 .. Len(f) /\ h < Len(f)
            BY <1>1, <6>1
          <6>3. QED
            BY <1>1, <6>2
        <5>2. QED
          BY <2>3, <4>1, <5>1, Zenon
      <4>2. QED
        BY <2>1, <4>1, Zenon
    <3>3. QED
      BY <2>1, <3>1, <3>2, Zenon
  <2>4. ASSUME info.res \in {"tcp", "none"}
        PROVE  SnifferLines
    <3>1. PICK h \in 1 .. Len(f) : f[h].head = "sniffer" /\ (h < Len(f) => Pair(f[h + 1]))
      BY <2>1, <2>4, Zenon
    <3>2. QED
      BY <1>1, <2>2, <3>1, Zenon
  <2>5. QED
    BY <2>3, <2>4, Zenon
<1>6. ASSUME WellFormed(f)
      PROVE  /\ GoodStorage(sp) <=> ChainsForward(f, "storage") /\ StorageLines
             /\ GoodTransfer(xp) <=> ChainsForward(f, "transfer") /\ TransferLines
  <2>1. Section(f, "storage", sp) /\ Section(f, "transfer", xp)
    BY <1>3, <1>6, Zenon
  <2>2. GoodStorage(sp) <=> ChainsForward(f, "storage") /\ StorageLines
    BY <1>1, <1>3, <2>1, StorageSection, Zenon
  <2>3. GoodTransfer(xp) <=> ChainsForward(f, "transfer") /\ TransferLines
    BY <1>1, <1>3, <2>1, TransferSection, Zenon
  <2>4. QED
    BY <2>2, <2>3, Zenon
<1> HIDE DEF StorageLines, TransferLines, SnifferLines
<1>7. QED
  BY <1>2, <1>3, <1>4, <1>5, <1>6, Zenon

\* A process whose plugins are all built has a good file.
LEMMA GoodWhenBuilt ==
  ASSUME NEW p \in ProcRecord, p.file \in File, AllBuilt(p), SnifferInfo[p.file].res \in {"tcp", "none"}
  PROVE  p.file \in GoodFiles
<1>1. PICK sp, xp : sp = Parsed[p.file].sp /\ xp = Parsed[p.file].xp
  OBVIOUS
<1>2. ~ Parsed[p.file].errors /\ StorageBuilt(p, 0) /\ TransferBuilt(p, 0)
  BY Zenon DEF AllBuilt
<1>3. \A s : 0 + 1 .. Len(s) = 1 .. Len(s)
  OBVIOUS
<1>4. GoodStorage(sp)
  <2>1. \A j \in 0 + 1 .. Len(sp) : sp[j].name \in StoragePlugins /\ Forward(sp, j) /\ Len(sp[j].chain) <= 1
    BY <1>1, <1>2, Zenon DEF StorageBuilt, SectionBuilt
  <2>2. QED
    BY <1>3, <2>1, Zenon DEF GoodStorage
<1>5. GoodTransfer(xp)
  <2>1. \A j \in 0 + 1 .. Len(xp) :
          /\ xp[j].name \in XferPlugins /\ Forward(xp, j)
          /\ xp[j].name = "gtc" =>
               /\ PortOf(xp[j]) \in Port
               /\ Len(xp[j].chain) = 1 => \E m \in j + 1 .. Len(xp) : Len(xp[m].chain) > 1
               /\ \A m \in 0 + 1 .. Len(xp) : m # j /\ xp[m].name = "gtc" => PortOf(xp[m]) # PortOf(xp[j])
    BY <1>1, <1>2, Zenon DEF TransferBuilt, SectionBuilt
  <2>2. 0 + 1 .. Len(xp) = 1 .. Len(xp)
    BY <1>3, Zenon
  <2>3. QED
    BY <2>1, <2>2, Zenon DEF GoodTransfer
<1>6. GoodConfig(p.file)
  BY <1>1, <1>2, <1>4, <1>5, GoodConfigIs, Zenon
<1>7. QED
  BY <1>6 DEF GoodFiles

-----------------------------------------------------------------------------
(* The theorems *)

\* The socket files of a daemon that is up lead to it, unless two went through one socket at once.
THEOREM DaemonsReachable == Spec => []ServerReachable
<1>1. StartInv => ServerReachable
  <2> SUFFICES ASSUME StartInv, ~ overlap, NEW d \in Daemon, proc[d].pc = "running", NEW s \in Sockets(d)
               PROVE  path[s] = d /\ s \in proc[d].listening
    BY Zenon DEF ServerReachable
  <2>1. Alive(d) /\ IsUp(proc[d]) /\ SocketInv
    BY WhereItIs DEF StartInv
  <2>2. s \in proc[d].listening
    BY <2>1 DEF IsUp, Sockets
  <2>3. QED
    BY <2>1, <2>2 DEF SocketInv
<1>2. QED
  BY <1>1, AlwaysStartInv, PTL

\* The plugin of the first line of a section is the last one built.
LEMMA FirstLine ==
  ASSUME NEW f \in Seq(Line), NEW sec, NEW s \in Seq(Line), Section(f, sec, s), NEW last,
         last = IF 0 = Len(s) THEN Blank ELSE s[0 + 1].name,
         NEW i \in Lines(f, sec), \A j \in Lines(f, sec) : i <= j
  PROVE  f[i].name = last
<1>1. PICK a \in Nat : KeptFrom(f, sec, s, a)
  BY SectionLines
<1>2. /\ i \in Int /\ i - a \in 1 .. Len(s) /\ f[i] = s[i - a]
      /\ \A j \in 1 .. Len(s) : a + j \in Lines(f, sec) /\ f[a + j] = s[j]
  BY <1>1 DEF KeptFrom
<1>3. Len(s) \in Nat
  BY LenProperties
<1>4. 1 \in 1 .. Len(s)
  BY <1>2, <1>3
<1>5. i <= a + 1
  BY <1>2, <1>4, Zenon
<1>6. i - a = 1
  BY <1>2, <1>3, <1>5
<1>7. 0 # Len(s) /\ 0 + 1 = 1
  BY <1>3, <1>4
<1>8. last = s[1].name
  BY <1>7, Zenon
<1>9. QED
  BY <1>2, <1>6, <1>8, Zenon

\* A daemon that is up has a good file, and the plugins that the file asks for.
THEOREM DaemonsRunAsConfigured == Spec => []RunsAsConfigured
<1>1. ASSUME StartInv, NEW d \in Daemon, proc[d].pc = "running"
      PROVE  /\ proc[d].file \in GoodFiles
             /\ \A i \in DOMAIN proc[d].xPluginPtr :
                  (\A j \in 1 .. i - 1 : proc[d].xPluginPtr[j].more = <<>>)
                    => Wired(d, proc[d].xPluginPtr[i])
             /\ \A sec \in {"storage", "transfer"} : \A i \in Lines(proc[d].file, sec) :
                  (\A j \in Lines(proc[d].file, sec) : i <= j)
                    => proc[d].file[i].name = IF sec = "storage" THEN proc[d].sp ELSE proc[d].xp
  <2>1. PICK p, f, sp, xp : p = proc[d] /\ f = p.file /\ sp = Parsed[f].sp /\ xp = Parsed[f].xp
    OBVIOUS
  <2>2. p \in ProcRecord /\ f \in File /\ IsUp(p)
    BY <1>1, <2>1, WhereItIs
  <2>3. AllBuilt(p) /\ SnifferInfo[f].res \in {"tcp", "none"}
    BY <2>1, <2>2 DEF IsUp
  <2>4. f \in GoodFiles
    BY <2>1, <2>2, <2>3, GoodWhenBuilt, Zenon
  <2>5. f \in Seq(Line)
    BY <2>2, FilesHaveLines
  <2>6. ~ Parsed[f].errors /\ StorageBuilt(p, 0) /\ TransferBuilt(p, 0)
    BY <2>1, <2>3, Zenon DEF AllBuilt
  <2>7. /\ sp \in Seq(Line) /\ xp \in Seq(Line)
        /\ Section(f, "storage", sp) /\ Section(f, "transfer", xp)
    BY <2>1, <2>2, <2>6, ParsedFile, Zenon
  <2>8. ASSUME NEW i \in DOMAIN p.xPluginPtr, \A j \in 1 .. i - 1 : p.xPluginPtr[j].more = <<>>
        PROVE  Wired(d, p.xPluginPtr[i])
    <3>1. PICK tab, n : tab = p.xPluginPtr /\ n = Len(xp)
      OBVIOUS
    <3>2. /\ Len(tab) = Len(xp) - 0
          /\ \A j \in 1 .. Len(tab) :
               /\ tab[j].name = xp[Len(xp) + 1 - j].name
               /\ (\A k \in 1 .. j - 1 : tab[k].more = <<>>) => ChainedTo(tab[j], xp[Len(xp) + 1 - j].chain)
      BY <2>1, <2>6, <3>1, Zenon DEF TransferBuilt
    <3>3. tab \in Seq(Plugin) /\ n \in Nat /\ Len(tab) = n /\ DOMAIN tab = 1 .. n
      <4>1. tab \in Seq(Plugin)
        BY <2>2, <3>1 DEF ProcRecord
      <4>2. n \in Nat
        BY <2>7, <3>1, LenProperties
      <4>3. Len(tab) = n - 0
        BY <3>1, <3>2, Zenon
      <4>4. DOMAIN tab = 1 .. Len(tab)
        BY <4>1, LenProperties
      <4>5. n - 0 = n
        BY <4>2
      <4>6. QED
        BY <4>1, <4>2, <4>3, <4>4, <4>5, Zenon
    <3>4. i \in 1 .. n
      BY <2>8, <3>1, <3>3, Zenon
    <3>5. PICK m \in 1 .. n : m = n + 1 - i
      BY <3>3, <3>4
    <3>6. tab[i].name = xp[m].name /\ ChainedTo(tab[i], xp[m].chain)
      BY <2>8, <3>1, <3>2, <3>3, <3>4, <3>5, Zenon
    <3>7. PICK a \in Nat : KeptFrom(f, "transfer", xp, a)
      BY <2>5, <2>7, SectionLines, Zenon
    <3>8. a + m \in Lines(f, "transfer") /\ f[a + m] = xp[m]
      BY <3>1, <3>7, Zenon DEF KeptFrom
    <3>9. QED
      BY <2>1, <3>1, <3>6, <3>8, Zenon DEF Wired, ChainedTo
  <2>9. ASSUME NEW i \in Lines(f, "storage"), \A j \in Lines(f, "storage") : i <= j
        PROVE  f[i].name = p.sp
    <3>1. p.sp = IF 0 = Len(sp) THEN Blank ELSE sp[0 + 1].name
      BY <2>1, <2>6, Zenon DEF StorageBuilt, SectionBuilt
    <3>2. QED
      BY <2>5, <2>7, <2>9, <3>1, FirstLine, Zenon
  <2>10. ASSUME NEW i \in Lines(f, "transfer"), \A j \in Lines(f, "transfer") : i <= j
         PROVE  f[i].name = p.xp
    <3>1. p.xp = IF 0 = Len(xp) THEN Blank ELSE xp[0 + 1].name
      BY <2>1, <2>6, Zenon DEF TransferBuilt, SectionBuilt
    <3>2. QED
      BY <2>5, <2>7, <2>10, <3>1, FirstLine, Zenon
  <2>11. ASSUME NEW sec \in {"storage", "transfer"}, NEW i \in Lines(f, sec), \A j \in Lines(f, sec) : i <= j
         PROVE  f[i].name = IF sec = "storage" THEN p.sp ELSE p.xp
    <3>1. CASE sec = "storage"
      BY <2>9, <2>11, <3>1, Zenon
    <3>2. CASE sec = "transfer"
      <4>1. sec # "storage"
        BY <3>2
      <4>2. QED
        BY <2>10, <2>11, <3>2, <4>1, Zenon
    <3>3. QED
      BY <2>11, <3>1, <3>2, Zenon
  <2>12. QED
    BY <2>1, <2>4, <2>8, <2>11, Zenon
<1>2. StartInv => RunsAsConfigured
  BY <1>1, Zenon DEF RunsAsConfigured
<1>3. QED
  BY <1>2, AlwaysStartInv, PTL

\* The ports a process has built for are ports of its file.
LEMMA BuiltInPorts ==
  ASSUME StartInv, NEW d \in Daemon, Alive(d), NEW c \in GtcBuilt(proc[d])
  PROVE  c \in Ports(d)
<1>1. PICK p, f, xp : p = proc[d] /\ f = p.file /\ xp = Parsed[f].xp
  OBVIOUS
<1>2. p \in ProcRecord /\ ProcInv(p) /\ f \in File /\ p.pc \notin Gone
  BY <1>1, WhereItIs DEF Alive
<1>3. p.xPluginPtr # <<>>
  BY <1>1, Zenon DEF GtcBuilt
<1>4. ~ Parsed[f].errors
  <2>1. BuildsTransfer(p) \/ TakesSniffers(p) \/ IsUp(p)
    BY <1>2, <1>3, Zenon DEF ProcInv, TakesOwn, ReadsFile, BuildsStorage, NothingBuilt
  <2>2. QED
    BY <1>1, <2>1, Zenon DEF BuildsTransfer, TakesSniffers, IsUp, AllBuilt
<1>5. f \in Seq(Line) /\ xp \in Seq(Line) /\ Section(f, "transfer", xp)
  BY <1>1, <1>2, <1>4, ParsedFile, FilesHaveLines, Zenon
<1>6. PICK n : n = Len(p.xp_list)
  OBVIOUS
<1>7. PICK j \in n + 1 .. Len(xp) : xp[j].name = "gtc" /\ c = PortOf(xp[j])
  <2>1. c \in {PortOf(xp[j]) : j \in {i \in n + 1 .. Len(xp) : xp[i].name = "gtc"}}
    BY <1>1, <1>3, <1>6, Zenon DEF GtcBuilt
  <2>2. QED
    BY <2>1, Zenon
<1>8. j \in 1 .. Len(xp)
  <2>1. n \in Nat /\ Len(xp) \in Nat
    BY <1>2, <1>5, <1>6, LenProperties DEF ProcRecord
  <2>2. QED
    BY <2>1
<1>9. PICK a \in Nat : KeptFrom(f, "transfer", xp, a)
  BY <1>5, SectionLines, Zenon
<1>10. a + j \in Lines(f, "transfer") /\ f[a + j] = xp[j]
  BY <1>8, <1>9, Zenon DEF KeptFrom
<1>11. QED
  BY <1>1, <1>7, <1>10, Zenon DEF Ports

\* The next line of a good file is good, and nothing is missing for its plugin.
LEMMA GoodNext ==
  ASSUME NEW s \in Seq(Line), NEW n \in 1 .. Len(s), NEW tab, NEW last, NEW known,
         SectionBuilt(s, n, tab, last, known), Forward(s, n)
  PROVE  ToSet(s[n].chain) \subseteq Built(tab)
<1>1. s[n] \in Line
  BY ElementOfSeq
<1>2. s[n].chain \in Seq(Name)
  BY <1>1 DEF Line, Name
<1>3. DOMAIN s[n].chain = 1 .. Len(s[n].chain)
  BY <1>2, LenProperties
<1>4. \A k \in 1 .. Len(s[n].chain) : s[n].chain[k] \in {s[j].name : j \in n + 1 .. Len(s)}
  BY DEF Forward
<1>5. Built(tab) = {s[j].name : j \in n + 1 .. Len(s)}
  BY Zenon DEF SectionBuilt
<1>6. ASSUME NEW x \in ToSet(s[n].chain)
      PROVE  x \in Built(tab)
  <2>1. PICK k \in DOMAIN s[n].chain : x = s[n].chain[k]
    BY Zenon DEF ToSet
  <2>2. QED
    BY <1>3, <1>4, <1>5, <2>1, Zenon
<1>7. QED
  BY <1>6, Zenon

\* Why a process has given up.
Explained(d) ==
  \/ proc'[d].why \in {"routes", "configure"} \/ ~ Proper(d) \/ overlap
  \/ \E e \in Daemon \ {d} : Alive(e) /\ Rivals(d, e)

\* A socket that answers is another's, when the process has one socket for each use.
LEMMA ProbeExplained ==
  ASSUME StartInv, NEW d \in Daemon, proc[d].pc = "probe", Answers(proc[d].cur)
  PROVE  Explained(d)
<1> SUFFICES ASSUME Proper(d), ~ overlap
             PROVE  \E e \in Daemon \ {d} : Alive(e) /\ Rivals(d, e)
  BY Zenon DEF Explained
<1>1. PICK p, s, e : p = proc[d] /\ s = p.cur /\ e = path[s]
  OBVIOUS
<1>2. p.pc \in SocketSteps /\ s \in Sock
  BY <1>1, OnSocket DEF SocketSteps, Between
<1>3. /\ Alive(d) /\ (TakesOwn(p) \/ TakesSniffers(p))
      /\ p.file \in File /\ {p.listen} \cup SniffSocket(p.file) \subseteq Sock
  BY <1>1, <1>2, WhereItIs
<1>4. e \in Daemon /\ Alive(e) /\ s \in proc[e].listening
  <2>1. path[s] \in Daemon \cup {None}
    BY <1>2 DEF StartInv, StartType
  <2>2. QED
    BY <1>1, <2>1 DEF Answers
<1>5. s \in {p.listen} \cup SniffSocket(p.file) /\ s \notin p.listening
  <2>1. CASE TakesOwn(p)
    BY <1>1, <2>1 DEF TakesOwn
  <2>2. CASE TakesSniffers(p)
    <3>1. SnifferInfo[p.file] = [res |-> "tcp", sock |-> s] /\ p.listening = {p.listen}
      BY <1>1, <2>2 DEF TakesSniffers
    <3>2. SniffSocket(p.file) = {s}
      BY <1>3, <3>1, SnifferFile
    <3>3. p.listen \notin SniffSocket(p.file)
      BY <1>1, Zenon DEF Proper
    <3>4. QED
      BY <3>1, <3>2, <3>3
  <2>3. QED
    BY <1>3, <2>1, <2>2
<1>6. e # d
  BY <1>1, <1>4, <1>5, Zenon
<1>7. s \in Sockets(e)
  <2>1. ProcInv(proc[e]) /\ proc[e].pc \notin Gone
    BY <1>4, WhereItIs DEF Alive
  <2>2. proc[e].listening \subseteq {proc[e].listen} \cup SniffSocket(proc[e].file)
    BY <2>1 DEF ProcInv, TakesOwn, ReadsFile, BuildsStorage, BuildsTransfer, TakesSniffers, IsUp
  <2>3. QED
    BY <1>4, <2>2 DEF Sockets
<1>8. s \in Sockets(d)
  BY <1>1, <1>5 DEF Sockets
<1>9. Rivals(d, e)
  BY <1>7, <1>8 DEF Rivals
<1>10. QED
  BY <1>4, <1>6, <1>9

\* With a good file every plugin of the storage can be built.
LEMMA StorageExplained ==
  ASSUME StartInv, NEW d \in Daemon, proc[d].pc = "storage", proc[d].sp_list # <<>>,
         NEW e, e = Last(proc[d].sp_list), Proper(d)
  PROVE  /\ e.name \in StoragePlugins /\ Len(e.chain) <= 1
         /\ ToSet(e.chain) \subseteq Built(proc[d].sPluginPtr)
<1>1. PICK p, s, n : p = proc[d] /\ s = Parsed[p.file].sp /\ n = Len(p.sp_list)
  OBVIOUS
<1>2. p \in ProcRecord /\ p.file \in File /\ BuildsStorage(p)
  BY <1>1, WhereItIs
<1>3. s \in Seq(Line) /\ p.sp_list \in Seq(Line)
  BY <1>1, <1>2, ParsedFile DEF ProcRecord
<1>4. Begins(p.sp_list, s) /\ StorageBuilt(p, n)
  BY <1>1, <1>2 DEF BuildsStorage
<1>5. n \in 1 .. Len(s) /\ e = s[n]
  BY <1>1, <1>3, <1>4, NextLine
<1>6. GoodConfig(p.file)
  BY <1>1 DEF Proper, GoodFiles
<1>7. GoodStorage(s)
  BY <1>1, <1>2, <1>6, GoodConfigIs, Zenon
<1>8. s[n].name \in StoragePlugins /\ Len(s[n].chain) <= 1 /\ Forward(s, n)
  BY <1>5, <1>7, Zenon DEF GoodStorage
<1>9. SectionBuilt(s, n, p.sPluginPtr, p.sp, StoragePlugins)
  BY <1>1, <1>4, Zenon DEF StorageBuilt
<1>10. ToSet(s[n].chain) \subseteq Built(p.sPluginPtr)
  BY <1>3, <1>5, <1>8, <1>9, GoodNext, Zenon
<1>11. QED
  BY <1>1, <1>5, <1>8, <1>10, Zenon

\* With a good file every plugin of the transfer can be built, if its port is not another's.
LEMMA TransferExplained ==
  ASSUME StartInv, NEW d \in Daemon, proc[d].pc = "transfer", proc[d].xp_list # <<>>,
         NEW e, e = Last(proc[d].xp_list), Proper(d)
  PROVE  /\ Buildable(d, e) /\ ~ Misconfigured(d, e)
         /\ PortTaken(e) => \E g \in Daemon \ {d} : Alive(g) /\ Rivals(d, g)
<1>1. PICK p, f, s, n : p = proc[d] /\ f = p.file /\ s = Parsed[f].xp /\ n = Len(p.xp_list)
  OBVIOUS
<1>2. p \in ProcRecord /\ f \in File /\ BuildsTransfer(p) /\ Alive(d)
  BY <1>1, WhereItIs
<1>3. s \in Seq(Line) /\ p.xp_list \in Seq(Line) /\ f \in Seq(Line)
  BY <1>1, <1>2, ParsedFile, FilesHaveLines DEF ProcRecord
<1>4. Begins(p.xp_list, s) /\ TransferBuilt(p, n) /\ ~ Parsed[f].errors
  BY <1>1, <1>2 DEF BuildsTransfer
<1>5. n \in 1 .. Len(s) /\ e = s[n] /\ e \in Line
  BY <1>1, <1>3, <1>4, NextLine
<1>6. GoodConfig(f)
  BY <1>1 DEF Proper, GoodFiles
<1>7. GoodTransfer(s)
  BY <1>1, <1>2, <1>6, GoodConfigIs, Zenon
<1>8. /\ e.name \in XferPlugins /\ Forward(s, n)
      /\ e.name = "gtc" =>
           /\ PortOf(e) \in Port
           /\ Len(e.chain) = 1 => \E m \in n + 1 .. Len(s) : Len(s[m].chain) > 1
           /\ \A m \in 1 .. Len(s) : m # n /\ s[m].name = "gtc" => PortOf(s[m]) # PortOf(e)
  BY <1>5, <1>7, Zenon DEF GoodTransfer
<1>9. Buildable(d, e)
  <2>1. SectionBuilt(s, n, p.xPluginPtr, p.xp, XferPlugins)
    BY <1>1, <1>4, Zenon DEF TransferBuilt
  <2>2. ToSet(e.chain) \subseteq Built(p.xPluginPtr)
    BY <1>3, <1>5, <1>8, <2>1, GoodNext, Zenon
  <2>3. QED
    BY <1>1, <1>8, <2>2, Zenon DEF Buildable
<1>10. ASSUME Misconfigured(d, e)
       PROVE  FALSE
  <2>1. e.name = "gtc" /\ NewXfer(d, e).next # Blank
    BY <1>8, <1>10, Zenon DEF Misconfigured
  <2>2. PICK vec, new : vec = Vector(d, e) /\ new = NewXfer(d, e)
    OBVIOUS
  <2>3. vec = Lengthened(p.xpvec, e) /\ MadeFor(new, e, vec)
    BY <1>1, <1>2, <1>5, <2>2, NewPlugin, Zenon
  <2>4. vec = <<>> /\ e.chain # <<>>
    BY <2>1, <2>2, <2>3, Zenon DEF MadeFor
  <2>5. p.xpvec \in Seq(Name)
    BY <1>2 DEF ProcRecord
  <2>6. /\ p.xpvec = <<>> /\ Len(e.chain) <= 1
        /\ Len(e.chain) \in Nat /\ Len(e.chain) # 0
    BY <1>5, <2>3, <2>4, <2>5, Lengthens, Zenon
  <2>7. Len(e.chain) = 1
    BY <2>6, OnlyOne, Zenon
  <2>8. PICK m \in n + 1 .. Len(s) : Len(s[m].chain) > 1
    BY <1>8, <2>1, <2>7, Zenon
  <2>9. Len(s[m].chain) <= 1
    BY <1>1, <1>4, <2>6, Zenon DEF TransferBuilt
  <2>10. Len(s[m].chain) \in Nat
    <3>1. m \in 1 .. Len(s)
      BY <1>3, <1>5, LenProperties
    <3>2. s[m] \in Line
      BY <1>3, <3>1, ElementOfSeq
    <3>3. s[m].chain \in Seq(Name)
      BY <3>2 DEF Line, Name
    <3>4. QED
      BY <3>3, LenProperties
  <2>11. QED
    BY <2>8, <2>9, <2>10
<1>11. ASSUME PortTaken(e)
       PROVE  \E g \in Daemon \ {d} : Alive(g) /\ Rivals(d, g)
  <2>1. PICK c, g : c = PortOf(e) /\ g = port[c]
    OBVIOUS
  <2>2. e.name = "gtc" /\ c \in Port /\ g # None
    BY <1>8, <1>11, <2>1, Zenon DEF PortTaken
  <2>3. g \in Daemon /\ Alive(g) /\ c \in GtcBuilt(proc[g])
    <3>1. port[c] \in Daemon \cup {None} /\ PortInv
      BY <2>2 DEF StartInv, StartType
    <3>2. QED
      BY <2>1, <2>2, <3>1 DEF PortInv
  <2>4. c \in Ports(g)
    BY <2>3, BuiltInPorts
  <2>5. c \in Ports(d)
    <3>1. Section(f, "transfer", s)
      BY <1>1, <1>2, <1>4, ParsedFile, Zenon
    <3>2. PICK a \in Nat : KeptFrom(f, "transfer", s, a)
      BY <1>3, <3>1, SectionLines, Zenon
    <3>3. a + n \in Lines(f, "transfer") /\ f[a + n] = e
      BY <1>5, <3>2, Zenon DEF KeptFrom
    <3>4. QED
      BY <1>1, <2>1, <2>2, <3>3, Zenon DEF Ports
  <2>6. g # d
    <3>1. ASSUME g = d
          PROVE  FALSE
      <4>1. GtcBuilt(p) = GtcPorts(s, n)
        BY <1>1, <1>2, <1>3, <1>4, GtcBuiltPorts, Zenon
      <4>2. c \in GtcPorts(s, n)
        BY <1>1, <2>3, <3>1, <4>1, Zenon
      <4>3. PICK m \in n + 1 .. Len(s) : s[m].name = "gtc" /\ c = PortOf(s[m])
        BY <4>2, Zenon DEF GtcPorts
      <4>4. m \in 1 .. Len(s) /\ m # n
        BY <1>3, <1>5, LenProperties
      <4>5. QED
        BY <1>8, <2>1, <2>2, <4>3, <4>4, Zenon
    <3>2. QED
      BY <3>1
  <2>7. Rivals(d, g)
    BY <2>4, <2>5 DEF Rivals
  <2>8. QED
    BY <2>3, <2>6, <2>7
<1>12. QED
  BY <1>9, <1>10, <1>11

\* A step that ends the process d by an error is one of d, and has its reason.
LEMMA StepExplained ==
  ASSUME StartInv, [Next]_vars, NEW d \in Daemon, Alive(d), proc'[d].pc = "fatal"
  PROVE  Explained(d)
<1>1. proc \in [Daemon -> ProcRecord] /\ proc[d].pc # "fatal"
  BY DEF StartInv, StartType, Alive, Gone
<1>2. ASSUME NEW e \in Daemon, NEW q, proc' = [proc EXCEPT ![e] = q]
      PROVE  e = d /\ q.pc = "fatal"
  BY <1>1, <1>2
<1>3. ASSUME NEW e \in Daemon, NEW pc, Goto(e, pc)
      PROVE  pc = "fatal"
  BY <1>1, <1>3 DEF Goto, ProcRecord
<1>4. ASSUME NEW e \in Daemon, NEW why, Fatal(e, why)
      PROVE  e = d /\ proc'[d].why = why
  <2>1. proc' = [proc EXCEPT ![e] = [Idle EXCEPT !.pc = "fatal", !.why = why]]
    BY <1>4, Zenon DEF Fatal, End
  <2>2. e = d
    BY <1>2, <2>1, Zenon
  <2>3. [Idle EXCEPT !.pc = "fatal", !.why = why].why = why
    BY DEF Idle
  <2>4. QED
    BY <1>1, <2>1, <2>2, <2>3
<1>5. ~ UNCHANGED proc
  BY <1>1
<1>6. ASSUME NEW e \in Daemon, NEW a \in Starts[e], Start(e, a)
      PROVE  FALSE
  <2>1. PICK q : q = [Idle EXCEPT !.pc = "bind", !.listen = a.listen, !.file = a.file, !.cur = a.listen]
    OBVIOUS
  <2>2. q.pc = "fatal"
    BY <1>2, <1>6, <2>1, Zenon DEF Start
  <2>3. q.pc = "bind"
    BY <2>1 DEF Idle
  <2>4. QED
    BY <2>2, <2>3
<1>7. ASSUME NEW e \in Daemon, Bind(e) \/ Unlink(e) \/ StorageEnd(e)
      PROVE  FALSE
  BY <1>3, <1>7 DEF Bind, Unlink, StorageEnd
<1>8. ASSUME NEW e \in Daemon, Probe(e)
      PROVE  Explained(d)
  <2>1. ~ Goto(e, "unlink")
    BY <1>3, <1>8
  <2>2. proc[e].pc = "probe" /\ Answers(proc[e].cur) /\ e = d
    BY <1>4, <1>8, <2>1, Zenon DEF Probe
  <2>3. QED
    BY <2>2, ProbeExplained, Zenon
<1>9. ASSUME NEW e \in Daemon, Rebind(e)
      PROVE  Explained(d)
  <2>1. ~ Goto(e, "listen")
    BY <1>3, <1>9
  <2>2. proc[e].pc = "rebind" /\ path[proc[e].cur] # None
    BY <1>9, <2>1, Zenon DEF Rebind
  <2>3. overlap
    BY <2>2 DEF StartInv, SocketInv
  <2>4. QED
    BY <2>3, Zenon DEF Explained
<1>10. ASSUME NEW e \in Daemon, Listen(e)
       PROVE  FALSE
  <2>1. PICK q : q = [proc[e] EXCEPT !.listening = @ \cup {proc[e].cur},
                                     !.pc = IF proc[e].listening = {} THEN "parse" ELSE "running"]
    OBVIOUS
  <2>2. proc' = [proc EXCEPT ![e] = q] /\ q.pc # "fatal"
    BY <1>1, <1>10, <2>1 DEF Listen, ProcRecord
  <2>3. QED
    BY <1>2, <2>2, Zenon
<1>11. ASSUME NEW e \in Daemon, Parse(e)
       PROVE  Explained(d)
  <2>1. PICK st : st = Parsed[proc[e].file]
    OBVIOUS
  <2>2. CASE st.errors /\ Fatal(e, "config")
    <3>1. e = d
      BY <1>4, <2>2, Zenon
    <3>2. proc[d].file \in GoodFiles => GoodConfig(proc[d].file) /\ proc[d].file \in File
      BY Zenon DEF GoodFiles
    <3>3. ~ Proper(d)
      BY <2>1, <2>2, <3>1, <3>2, GoodConfigIs, Zenon DEF Proper
    <3>4. QED
      BY <3>3, Zenon DEF Explained
  <2>3. CASE proc' = [proc EXCEPT ![e].pc = "storage", ![e].sp_list = st.sp, ![e].xp_list = st.xp]
    <3>1. PICK q : q = [proc[e] EXCEPT !.pc = "storage", !.sp_list = st.sp, !.xp_list = st.xp]
      OBVIOUS
    <3>2. proc' = [proc EXCEPT ![e] = q] /\ q.pc # "fatal"
      BY <1>1, <2>3, <3>1 DEF ProcRecord
    <3>3. QED
      BY <1>2, <3>2, Zenon
  <2>4. QED
    BY <1>11, <2>1, <2>2, <2>3, Zenon DEF Parse
<1>19. ASSUME NEW e \in Daemon, Fatal(e, "routes") \/ Fatal(e, "configure")
       PROVE  Explained(d)
  <2>1. proc'[d].why = "routes" \/ proc'[d].why = "configure"
    BY <1>4, <1>19, Zenon
  <2>2. proc'[d].why \in {"routes", "configure"}
    BY <2>1
  <2>3. QED
    BY <2>2, Zenon DEF Explained
<1>12. ASSUME NEW e \in Daemon, StoragePlugin(e)
       PROVE  Explained(d)
  <2>1. PICK l, new, left, tab :
          /\ l = Last(proc[e].sp_list) /\ left = Front(proc[e].sp_list)
          /\ new = [name |-> l.name, next |-> IF l.chain = <<>> THEN Blank ELSE l.chain[1], more |-> <<>>]
          /\ tab = Append(proc[e].sPluginPtr, new)
    OBVIOUS
  <2>2. /\ proc[e].pc = "storage" /\ proc[e].sp_list # <<>>
        /\ \/ /\ ~ (/\ l.name \in StoragePlugins /\ Len(l.chain) <= 1
                    /\ ToSet(l.chain) \subseteq Built(proc[e].sPluginPtr))
              /\ Fatal(e, "chain")
           \/ Fatal(e, "configure")
           \/ proc' = [proc EXCEPT ![e].sp_list = Front(@), ![e].sPluginPtr = Append(@, new), ![e].sp = l.name]
    BY <1>12, <2>1, Zenon DEF StoragePlugin
  <2>3. CASE proc' = [proc EXCEPT ![e].sp_list = Front(@), ![e].sPluginPtr = Append(@, new), ![e].sp = l.name]
    <3>1. PICK q : q = [proc[e] EXCEPT !.sp_list = left, !.sPluginPtr = tab, !.sp = l.name]
      OBVIOUS
    <3>2. proc' = [proc EXCEPT ![e] = q]
      BY <2>1, <2>3, <3>1
    <3>3. q.pc = proc[e].pc
      BY <1>1, <3>1 DEF ProcRecord
    <3>4. q.pc # "fatal"
      BY <2>2, <3>3
    <3>5. QED
      BY <1>2, <3>2, <3>4, Zenon
  <2>4. CASE /\ ~ (/\ l.name \in StoragePlugins /\ Len(l.chain) <= 1
                   /\ ToSet(l.chain) \subseteq Built(proc[e].sPluginPtr))
             /\ Fatal(e, "chain")
    <3>1. e = d
      BY <1>4, <2>4, Zenon
    <3>2. ~ Proper(d)
      BY <2>1, <2>2, <2>4, <3>1, StorageExplained, Zenon
    <3>3. QED
      BY <3>2, Zenon DEF Explained
  <2>5. QED
    BY <1>19, <2>2, <2>3, <2>4, Zenon
<1>13. ASSUME NEW e \in Daemon, TransferPlugin(e)
       PROVE  Explained(d)
  <2>1. PICK l, vec, new, left, tab :
          /\ l = Last(proc[e].xp_list) /\ left = Front(proc[e].xp_list)
          /\ vec = Vector(e, l) /\ new = NewXfer(e, l) /\ tab = Append(proc[e].xPluginPtr, new)
    OBVIOUS
  <2>2. /\ proc[e].pc = "transfer" /\ proc[e].xp_list # <<>>
        /\ \/ TakesPlugin(e, l, vec, new)
           \/ ~ Buildable(e, l) /\ Fatal(e, "chain")
           \/ Misconfigured(e, l) /\ Fatal(e, "config")
           \/ PortTaken(l) /\ Fatal(e, "port")
           \/ Fatal(e, "configure")
    BY <1>13, <2>1, Zenon DEF TransferPlugin, TakesPlugin
  <2>3. CASE TakesPlugin(e, l, vec, new)
    <3>1. PICK q : q = [proc[e] EXCEPT !.xp_list = left, !.xpvec = vec, !.xPluginPtr = tab, !.xp = l.name]
      OBVIOUS
    <3>2. proc' = [proc EXCEPT ![e] = q]
      BY <2>1, <2>3, <3>1 DEF TakesPlugin
    <3>3. q.pc = proc[e].pc
      BY <1>1, <3>1 DEF ProcRecord
    <3>4. q.pc # "fatal"
      BY <2>2, <3>3
    <3>5. QED
      BY <1>2, <3>2, <3>4, Zenon
  <2>4. ASSUME Proper(d), e = d
        PROVE  /\ Buildable(d, l) /\ ~ Misconfigured(d, l)
               /\ PortTaken(l) => \E g \in Daemon \ {d} : Alive(g) /\ Rivals(d, g)
    BY <2>1, <2>2, <2>4, TransferExplained, Zenon
  <2>5. QED
    BY <1>4, <1>19, <2>2, <2>3, <2>4, Zenon DEF Explained
<1>14. ASSUME NEW e \in Daemon, SnifferPlugin(e)
       PROVE  Explained(d)
  <2>1. PICK info : info = SnifferInfo[proc[e].file]
    OBVIOUS
  <2>2. ~ Goto(e, "running")
    BY <1>3
  <2>3. CASE info.res \in {"errors", "assert"} /\ Fatal(e, "config")
    <3>1. e = d
      BY <1>4, <2>3, Zenon
    <3>2. info.res \notin {"tcp", "none"}
      BY <2>3
    <3>3. ~ Proper(d)
      BY <2>1, <3>1, <3>2, GoodConfigIs, Zenon DEF Proper, GoodFiles
    <3>4. QED
      BY <3>3, Zenon DEF Explained
  <2>4. CASE proc' = [proc EXCEPT ![e].pc = "bind", ![e].cur = info.sock]
    <3>1. PICK q : q = [proc[e] EXCEPT !.pc = "bind", !.cur = info.sock]
      OBVIOUS
    <3>2. proc' = [proc EXCEPT ![e] = q] /\ q.pc # "fatal"
      BY <1>1, <2>4, <3>1 DEF ProcRecord
    <3>3. QED
      BY <1>2, <3>2, Zenon
  <2>5. QED
    BY <1>14, <2>1, <2>2, <2>3, <2>4, Zenon DEF SnifferPlugin
<1>15. ASSUME NEW e \in Daemon, NoRoutes(e)
       PROVE  Explained(d)
  <2>1. Fatal(e, "routes")
    BY <1>15, Zenon DEF NoRoutes
  <2>2. QED
    BY <1>19, <2>1, Zenon
<1>16. ASSUME NEW e \in Daemon, Die(e)
       PROVE  FALSE
  <2>1. proc' = [proc EXCEPT ![e] = [Idle EXCEPT !.pc = "dead", !.why = Blank]]
    BY <1>16, Zenon DEF Die, End
  <2>2. [Idle EXCEPT !.pc = "dead", !.why = Blank].pc = "fatal"
    BY <1>2, <2>1, Zenon
  <2>3. QED
    BY <2>2 DEF Idle, Blank
<1>17. (\E e \in Daemon, c \in Client : accept_connection(e, c)) \/ (\E c \in Client, s \in Sock : Connect(c, s))
         \/ UNCHANGED vars => UNCHANGED proc
  BY DEF accept_connection, Connect, vars
<1>18. QED
  BY <1>5, <1>6, <1>7, <1>8, <1>9, <1>10, <1>11, <1>12, <1>13, <1>14, <1>15, <1>16, <1>17, Zenon
     DEF Next, Step

\* A daemon gives up only for a reason outside it: no routes, a plugin that fails to configure, a
\* bad configuration, a race for its socket, or a living daemon that uses one of its sockets or its port.
THEOREM FailuresExplained == Spec => FatalExplained
<1>1. StartInv /\ [Next]_vars =>
        [\A d \in Daemon : Alive(d) /\ proc'[d].pc = "fatal" =>
           \/ proc'[d].why \in {"routes", "configure"} \/ ~ Proper(d) \/ overlap
           \/ \E e \in Daemon \ {d} : Alive(e) /\ Rivals(d, e)]_vars
  BY StepExplained, Zenon DEF Explained
<1>2. QED
  BY <1>1, AlwaysStartInv, PTL DEF Spec, FatalExplained
=============================================================================
