----------------------------- MODULE GtcdStart -----------------------------
(***************************************************************************)
(* Start-up of gtcd (main.cc, configfile.cc, snifferPlugin_tcp.cc): the    *)
(* daemon takes over its Unix socket, reads its configuration file, builds *)
(* its chains of plugins, takes the TCP port of the gtc transfer plugin    *)
(* and the Unix socket of the sniffer plugin, and only then enters the     *)
(* event loop (amain).  Several processes share the sockets and the ports  *)
(* of one machine; any of them may die at any step, leaving its socket     *)
(* files behind, and a later one is then started in its place.             *)
(***************************************************************************)
EXTENDS Naturals, Sequences, SequencesExt, FiniteSets

CONSTANTS
    NumDaemons,     \* processes started, one after the other (their pids)
    MaxAlive,       \* bound on the processes alive at once
    Client,         \* clients that connect to a socket once
    Starts,         \* Starts[d]: the command lines process d may be given,
                    \* [listen: socket of -p, file: file of -f]
    Sock,           \* names of Unix sockets
    Port,           \* TCP ports
    DEFAULT_PORT,   \* the port of a gtc plugin that is given none
    StoragePlugins, \* names in sPluginTab
    XferPlugins     \* names in xPluginTab

ASSUME NumDaemonsAssumption == NumDaemons \in Nat \ {0}
ASSUME MaxAliveAssumption == MaxAlive \in 1..NumDaemons
ASSUME PortAssumption == Port \subseteq STRING /\ DEFAULT_PORT \in Port

Daemon == 1..NumDaemons
None == 0

(***************************************************************************)
(* A configuration file is a sequence of lines.  A line is a section       *)
(* header, or words in a section: a name, the plugins it is chained to     *)
(* (none for "" and "null") and a parameter.                               *)
(***************************************************************************)
Blank == "-"    \* no word, or the empty string

Header(s) == [head |-> s, name |-> Blank, chain |-> << >>, conf |-> Blank]
Words(n, ch, c) == [head |-> Blank, name |-> n, chain |-> ch, conf |-> c]

Line == [head : {Blank, "storage", "transfer", "routing", "sniffer"}, name : STRING,
         chain : Seq(STRING \ {Blank, "null"}), conf : STRING]

(* Two words that the sniffer's parser can take in pairs: one word alone,
   or a pair whose second word is taken for another "tcp", and pop_front
   asserts *)
Pair(line) ==
    line.head = Blank /\ line.conf # Blank /\ (line.conf = "tcp" => line.name = "tcp")

(* The socket that the first line of the first sniffer section names *)
SniffSocket(file) ==
    {file[h + 1].conf : h \in {i \in 1..(Len(file) - 1) :
                                  /\ file[i].head = "sniffer"
                                  /\ \A j \in 1..(i - 1) : file[j].head # "sniffer"
                                  /\ Pair(file[i + 1]) /\ file[i + 1].name = "tcp"}}

ASSUME StartsAssumption ==
    \A d \in Daemon : \A a \in Starts[d] :
        a.file \in Seq(Line) /\ {a.listen} \cup SniffSocket(a.file) \subseteq Sock

-----------------------------------------------------------------------------
(* configfile.cc *)

ConfigLine(st, line) ==
    IF line.head # Blank
    THEN IF line.head \in st.saw
         THEN [st EXCEPT !.errors = TRUE]
         ELSE [st EXCEPT !.state = line.head, !.saw = @ \cup {line.head}]
    ELSE CASE st.state = "none"     -> [st EXCEPT !.errors = TRUE]
           [] st.state = "storage"  -> [st EXCEPT !.sp = Append(@, line)]
           [] st.state = "transfer" -> [st EXCEPT !.xp = Append(@, line)]
           [] OTHER                 -> st

(* What the loop over the lines has found at its end *)
ParseLines(file) ==
    LET st[k \in 0..Len(file)] ==
            IF k = 0 THEN [state |-> "none", saw |-> {}, errors |-> FALSE,
                           sp |-> << >>, xp |-> << >>]
            ELSE ConfigLine(st[k - 1], file[k])
    IN  st[Len(file)]

(* mutant: the sections are not required *)
parse_config_NoMissing(file) == ParseLines(file)

(* errors: a duplicate header, a line before any header, or no storage or
   no transfer section *)
parse_config(file) ==
    LET st == ParseLines(file)
    IN  [st EXCEPT !.errors = @ \/ ~({"storage", "transfer"} \subseteq st.saw)]

(* The sniffer's section is read by a parser of its own, that knows no
   other header: the first line after "[sniffer]" is taken as two words. *)
parse_config_sniffer_info(file) ==
    LET at == {i \in DOMAIN file : file[i].head = "sniffer"}
        h  == CHOOSE i \in at : \A j \in at : i <= j
    IN  CASE at = {}                    -> [res |-> "errors", sock |-> Blank]
          [] at # {} /\ h = Len(file)   -> [res |-> "none", sock |-> Blank]
          [] OTHER ->
               IF ~Pair(file[h + 1]) THEN [res |-> "assert", sock |-> Blank]
               ELSE IF file[h + 1].name = "tcp"
                    THEN [res |-> "tcp", sock |-> file[h + 1].conf]
                    ELSE [res |-> "none", sock |-> Blank]

(* What the two parsers find in the files *)
File == {a.file : a \in UNION {Starts[d] : d \in 1..NumDaemons}}
Parsed == [f \in File |-> parse_config(f)]
SnifferInfo == [f \in File |-> parse_config_sniffer_info(f)]

-----------------------------------------------------------------------------

VARIABLES
    proc,       \* proc[d]: a process
    path,       \* path[s]: the process whose socket the file s is, or None
    port,       \* port[p]: the process that listens on TCP port p, or None
    conn,       \* conn[c]: [st, d], a client's connection
    overlap     \* two processes were at once between bind and listen of the
                \* same socket (a history variable)

vars == <<proc, path, port, conn, overlap>>

NoPlugin == [name |-> Blank, next |-> Blank, more |-> << >>]

Idle == [pc |-> "idle", listen |-> Blank, file |-> << >>, cur |-> Blank,
         listening |-> {}, sp_list |-> << >>, xp_list |-> << >>,
         sPluginPtr |-> << >>, xPluginPtr |-> << >>, xpvec |-> << >>,
         sp |-> Blank, xp |-> Blank, why |-> Blank]

Gone == {"idle", "fatal", "dead"}
Alive(d) == proc[d].pc \notin Gone
Started == {d \in Daemon : proc[d].pc # "idle"}

Goto(d, pc) == proc' = [proc EXCEPT ![d].pc = pc]

(* A process that ends gives up its port and its connections, never its
   socket files. *)
End(d, pc, why) ==
    /\ proc' = [proc EXCEPT ![d] = [Idle EXCEPT !.pc = pc, !.why = why]]
    /\ port' = [p \in Port |-> IF port[p] = d THEN None ELSE port[p]]
    /\ conn' = [c \in Client |-> IF conn[c].d = d THEN [st |-> "reset", d |-> d] ELSE conn[c]]

Fatal(d, why) == End(d, "fatal", why) /\ UNCHANGED <<path, overlap>>

Init ==
    /\ proc = [d \in Daemon |-> Idle]
    /\ path = [s \in Sock |-> None]
    /\ port = [p \in Port |-> None]
    /\ conn = [c \in Client |-> [st |-> "idle", d |-> None]]
    /\ overlap = FALSE

(* main(): the options are read and gtcd_start is called *)
Start(d, a) ==
    /\ d = Cardinality(Started) + 1
    /\ Cardinality({e \in Daemon : Alive(e)}) < MaxAlive
    /\ proc' = [proc EXCEPT ![d] = [Idle EXCEPT !.pc = "bind", !.listen = a.listen,
                                        !.file = a.file, !.cur = a.listen]]
    /\ UNCHANGED <<path, port, conn, overlap>>

-----------------------------------------------------------------------------
(* gtcd_start and snifferPlugin_tcp::snifferd_start: the same steps on two
   sockets, proc[d].cur being the one at hand *)

Between == {"probe", "unlink", "rebind", "listen"}

(* unixsocket() *)
Bind(d) ==
    LET s == proc[d].cur IN
    /\ proc[d].pc = "bind"
    /\ overlap' = (overlap \/ \E e \in Daemon \ {d} : /\ proc[e].cur = s
                                                      /\ proc[e].pc \in Between)
    /\ \/ path[s] = None /\ path' = [path EXCEPT ![s] = d] /\ Goto(d, "listen")
       \/ path[s] # None /\ Goto(d, "probe") /\ UNCHANGED path
    /\ UNCHANGED <<port, conn>>

(* connect() succeeds when the process the file belongs to is alive and
   has called listen on it *)
Answers(s) == path[s] # None /\ Alive(path[s]) /\ s \in proc[path[s]].listening

(* mutant: the socket file is removed whoever answers *)
Probe_Always(d) ==
    /\ proc[d].pc = "probe"
    /\ Goto(d, "unlink")
    /\ UNCHANGED <<path, port, conn, overlap>>

Probe(d) ==
    /\ proc[d].pc = "probe"
    /\ \/ Answers(proc[d].cur) /\ Fatal(d, "socket")
       \/ ~Answers(proc[d].cur) /\ Goto(d, "unlink") /\ UNCHANGED <<path, port, conn, overlap>>

(* mutant: the socket file is not removed *)
Unlink_Skip(d) ==
    /\ proc[d].pc = "unlink"
    /\ Goto(d, "rebind")
    /\ UNCHANGED <<path, port, conn, overlap>>

Unlink(d) ==
    /\ proc[d].pc = "unlink"
    /\ path' = [path EXCEPT ![proc[d].cur] = None]
    /\ Goto(d, "rebind")
    /\ UNCHANGED <<port, conn, overlap>>

Rebind(d) ==
    LET s == proc[d].cur IN
    /\ proc[d].pc = "rebind"
    /\ \/ /\ path[s] = None
          /\ path' = [path EXCEPT ![s] = d] /\ Goto(d, "listen")
          /\ UNCHANGED <<port, conn, overlap>>
       \/ path[s] # None /\ Fatal(d, "socket")

(* listen(), then the rest of main() or, for the second socket, amain() *)
Listen(d) ==
    /\ proc[d].pc = "listen"
    /\ proc' = [proc EXCEPT ![d].listening = @ \cup {proc[d].cur},
                            ![d].pc = IF proc[d].listening = {} THEN "parse" ELSE "running"]
    /\ UNCHANGED <<path, port, conn, overlap>>

-----------------------------------------------------------------------------
(* instantiate_plugins *)

(* mutant: errors are reported, and nothing more *)
Parse_Warns(d) ==
    LET st == Parsed[proc[d].file] IN
    /\ proc[d].pc = "parse" /\ ~st.errors
    /\ proc' = [proc EXCEPT ![d].pc = "storage", ![d].sp_list = st.sp,
                            ![d].xp_list = st.xp]
    /\ UNCHANGED <<path, port, conn, overlap>>

Parse(d) ==
    LET st == Parsed[proc[d].file] IN
    /\ proc[d].pc = "parse"
    /\ \/ st.errors /\ Fatal(d, "config")
       \/ /\ ~st.errors
          /\ proc' = [proc EXCEPT ![d].pc = "storage", ![d].sp_list = st.sp,
                                  ![d].xp_list = st.xp]
          /\ UNCHANGED <<path, port, conn, overlap>>

Built(tab) == {tab[i].name : i \in DOMAIN tab}

(* The lines are taken from the end of the section; the plugin a line is
   chained to must have been built, or a null pointer is followed.  (A list
   is looked up as if it were one name.)  Its configure may fail. *)
StoragePlugin(d) ==
    LET e == Last(proc[d].sp_list)
        p == [name |-> e.name, next |-> IF e.chain = << >> THEN Blank ELSE e.chain[1],
              more |-> << >>]
        ok == /\ e.name \in StoragePlugins
              /\ Len(e.chain) <= 1 /\ ToSet(e.chain) \subseteq Built(proc[d].sPluginPtr)
    IN
    /\ proc[d].pc = "storage" /\ proc[d].sp_list # << >>
    /\ \/ ~ok /\ Fatal(d, "chain")
       \/ ok /\ Fatal(d, "configure")
       \/ /\ ok
          /\ proc' = [proc EXCEPT ![d].sp_list = Front(@),
                                  ![d].sPluginPtr = Append(@, p), ![d].sp = e.name]
          /\ UNCHANGED <<path, port, conn, overlap>>

(* m->set_storagePlugin *)
StorageEnd(d) ==
    /\ proc[d].pc = "storage" /\ proc[d].sp_list = << >>
    /\ Goto(d, "transfer")
    /\ UNCHANGED <<path, port, conn, overlap>>

(* xpvec keeps the plugins of a list for every plugin built after it: when
   it is not empty no single plugin is passed on. *)
Vector(d, e) == proc[d].xpvec \o (IF Len(e.chain) > 1 THEN e.chain ELSE << >>)

NewXfer(d, e) ==
    [name |-> e.name, more |-> Vector(d, e),
     next |-> IF Vector(d, e) # << >> \/ e.chain = << >> THEN Blank ELSE e.chain[1]]

(* What the line at hand needs before its plugin can be configured *)
Buildable(d, e) ==
    /\ e.name \in XferPlugins
    /\ ToSet(e.chain) \subseteq Built(proc[d].xPluginPtr)

PortOf(e) == IF e.conf = Blank THEN DEFAULT_PORT ELSE e.conf

(* The constructor of the gtc plugin takes no next plugin, and its
   parameter is a port number or nothing. *)
Misconfigured(d, e) == e.name = "gtc" /\ (NewXfer(d, e).next # Blank \/ PortOf(e) \notin Port)

(* xferPlugin_gtc::configure takes the port; those of the other transfer
   plugins take nothing that processes share, and may fail *)
PortTaken(e) == e.name = "gtc" /\ port[PortOf(e)] # None

TransferPlugin(d) ==
    LET e == Last(proc[d].xp_list) IN
    /\ proc[d].pc = "transfer" /\ proc[d].xp_list # << >>
    /\ \/ ~Buildable(d, e) /\ Fatal(d, "chain")
       \/ Buildable(d, e) /\ Misconfigured(d, e) /\ Fatal(d, "config")
       \/ Buildable(d, e) /\ ~Misconfigured(d, e) /\ PortTaken(e) /\ Fatal(d, "port")
       \/ Buildable(d, e) /\ e.name # "gtc" /\ Fatal(d, "configure")
       \/ /\ Buildable(d, e) /\ ~Misconfigured(d, e) /\ ~PortTaken(e)
          /\ proc' = [proc EXCEPT ![d].xp_list = Front(@), ![d].xpvec = Vector(d, e),
                                  ![d].xPluginPtr = Append(@, NewXfer(d, e)), ![d].xp = e.name]
          /\ port' = IF e.name = "gtc" THEN [port EXCEPT ![PortOf(e)] = d] ELSE port
          /\ UNCHANGED <<path, conn, overlap>>

(* No olsr_route.sh, or no routing table in what it wrote, when the gtc
   plugin is configured *)
NoRoutes(d) ==
    LET e == Last(proc[d].xp_list) IN
    /\ proc[d].pc = "transfer" /\ proc[d].xp_list # << >>
    /\ e.name = "gtc" /\ Buildable(d, e) /\ ~Misconfigured(d, e)
    /\ Fatal(d, "routes")

(* m->set_xferPlugin, the chunker, and snifferPlugin_tcp's
   setup_sniffer_info *)
SnifferPlugin(d) ==
    LET info == SnifferInfo[proc[d].file] IN
    /\ proc[d].pc = "transfer" /\ proc[d].xp_list = << >>
    /\ \/ info.res \in {"errors", "assert"} /\ Fatal(d, "config")
       \/ info.res = "none" /\ Goto(d, "running") /\ UNCHANGED <<path, port, conn, overlap>>
       \/ /\ info.res = "tcp"
          /\ proc' = [proc EXCEPT ![d].pc = "bind", ![d].cur = info.sock]
          /\ UNCHANGED <<path, port, conn, overlap>>

-----------------------------------------------------------------------------
(* The event loop, the clients and the end of a process *)

(* A client's connect: the kernel queues it from the listen on. *)
Connect(c, s) ==
    /\ conn[c].st = "idle" /\ Answers(s)
    /\ conn' = [conn EXCEPT ![c] = [st |-> "queued", d |-> path[s]]]
    /\ UNCHANGED <<proc, path, port, overlap>>

accept_connection(d, c) ==
    /\ proc[d].pc = "running"
    /\ conn[c] = [st |-> "queued", d |-> d]
    /\ conn' = [conn EXCEPT ![c].st = "served"]
    /\ UNCHANGED <<proc, path, port, overlap>>

Die(d) == Alive(d) /\ End(d, "dead", Blank) /\ UNCHANGED <<path, overlap>>

Step(d) ==
    \/ Bind(d) \/ Probe(d) \/ Unlink(d) \/ Rebind(d) \/ Listen(d)
    \/ Parse(d) \/ StoragePlugin(d) \/ StorageEnd(d) \/ TransferPlugin(d)
    \/ SnifferPlugin(d)

Next ==
    \/ \E d \in Daemon :
         \/ \E a \in Starts[d] : Start(d, a)
         \/ Step(d) \/ NoRoutes(d) \/ Die(d)
         \/ \E c \in Client : accept_connection(d, c)
    \/ \E c \in Client, s \in Sock : Connect(c, s)

Spec == Init /\ [][Next]_vars

(* The processes are scheduled, and the event loop serves what select
   reports; nobody has to start a process, to connect or to die. *)
FairSpec ==
    /\ Spec
    /\ \A d \in Daemon : /\ WF_vars(Step(d))
                         /\ \A c \in Client : WF_vars(accept_connection(d, c))

-----------------------------------------------------------------------------
(* The lines of a section: those whose last header before them is the
   first header of that name *)
Lines(file, sec) ==
    {i \in DOMAIN file :
        /\ file[i].head = Blank
        /\ \E h \in 1..i : /\ file[h].head = sec
                           /\ \A j \in (h + 1)..i : file[j].head = Blank}

(* Chained only to plugins on later lines of the section *)
ChainsForward(file, sec) ==
    \A i \in Lines(file, sec) : \A k \in DOMAIN file[i].chain :
        \E j \in Lines(file, sec) : j > i /\ file[j].name = file[i].chain[k]

(* The gtc plugins use different ports, and are given no next plugin:
   nothing is chained to them, or what is goes into the list that is kept
   from a plugin built before. *)
GoodConfig(file) ==
    /\ \A i \in DOMAIN file : file[i].head = Blank => \E h \in 1..i : file[h].head # Blank
    /\ \A i, j \in DOMAIN file : file[i].head # Blank /\ file[i].head = file[j].head => i = j
    /\ \A sec \in {"storage", "transfer", "sniffer"} : \E h \in DOMAIN file : file[h].head = sec
    /\ \A i \in Lines(file, "storage") : file[i].name \in StoragePlugins /\ Len(file[i].chain) <= 1
    /\ \A i \in Lines(file, "transfer") :
         /\ file[i].name \in XferPlugins
         /\ file[i].name = "gtc" =>
              /\ PortOf(file[i]) \in Port
              /\ Len(file[i].chain) = 1 => \E j \in Lines(file, "transfer") :
                                              j > i /\ Len(file[j].chain) > 1
              /\ \A j \in Lines(file, "transfer") :
                    j # i /\ file[j].name = "gtc" => PortOf(file[j]) # PortOf(file[i])
    /\ ChainsForward(file, "storage") /\ ChainsForward(file, "transfer")
    /\ \A h \in DOMAIN file : file[h].head = "sniffer" /\ h < Len(file) => Pair(file[h + 1])

GoodFiles == {f \in File : GoodConfig(f)}

Sockets(d) == {proc[d].listen} \cup SniffSocket(proc[d].file)
Ports(d) ==
    {PortOf(proc[d].file[i]) : i \in {j \in Lines(proc[d].file, "transfer") :
                                        proc[d].file[j].name = "gtc"}}

(* Started with a good file, and with another socket for the sniffer than
   its own *)
Proper(d) == proc[d].file \in GoodFiles /\ proc[d].listen \notin SniffSocket(proc[d].file)

Rivals(d, e) == Sockets(d) \cap Sockets(e) # {} \/ Ports(d) \cap Ports(e) # {}

(* Unless two daemons went through the bind, connect, unlink, bind, listen
   of one socket at the same time (the race the comment in gtcd_start
   admits), the socket files of a daemon that is up lead to it: no other
   daemon's start-up takes them away, however many died and left theirs. *)
ServerReachable ==
    ~overlap => \A d \in Daemon : proc[d].pc = "running" =>
                    \A s \in Sockets(d) : path[s] = d /\ s \in proc[d].listening

(* A daemon ends its start-up by an error only for a reason outside it: no
   routes, a plugin that fails to configure, a bad configuration (one socket
   for the daemon and its sniffer included), or a living daemon that uses
   one of its sockets or its port.
   What earlier daemons left behind stops nobody. *)
FatalExplained ==
    [][\A d \in Daemon : Alive(d) /\ proc'[d].pc = "fatal" =>
         \/ proc'[d].why \in {"routes", "configure"} \/ ~Proper(d) \/ overlap
         \/ \E e \in Daemon \ {d} : Alive(e) /\ Rivals(d, e)]_vars

(* p is wired as a line of the file says that has its name: to one next
   plugin, or to the list of several *)
Wired(d, p) ==
    \E i \in Lines(proc[d].file, "transfer") :
        LET ch == proc[d].file[i].chain IN
        /\ p.name = proc[d].file[i].name
        /\ p.more = IF Len(ch) > 1 THEN ch ELSE << >>
        /\ p.next = IF Len(ch) = 1 THEN ch[1] ELSE Blank

(* A daemon that is up has a good configuration: instantiate_plugins and
   the two parsers refuse every other one.  It uses the plugins of the
   first lines of their sections, and they are chained as their lines say,
   up to the first one built with a list of plugins.  (xpvec is not emptied,
   so that every plugin built later gets that list too.) *)
RunsAsConfigured ==
    \A d \in Daemon : proc[d].pc = "running" =>
        /\ proc[d].file \in GoodFiles
        /\ \A i \in DOMAIN proc[d].xPluginPtr :
             (\A j \in 1..(i - 1) : proc[d].xPluginPtr[j].more = << >>)
                => Wired(d, proc[d].xPluginPtr[i])
        /\ \A sec \in {"storage", "transfer"} : \A i \in Lines(proc[d].file, sec) :
             (\A j \in Lines(proc[d].file, sec) : i <= j)
                => proc[d].file[i].name = IF sec = "storage" THEN proc[d].sp ELSE proc[d].xp

(* A daemon started alone with a good configuration comes up, whatever
   sockets others left, unless it is killed, has no routes, a plugin fails
   to configure, or another one is started next to it.  And a connection the kernel queued, be it before
   the daemon reached its event loop, is served or is reset by the end of
   the daemon. *)
RestartWorks ==
    /\ \A d \in Daemon :
         (/\ proc[d].pc = "bind" /\ Proper(d)
          /\ \A e \in Daemon \ {d} : ~Alive(e))
         ~> (\/ proc[d].pc \in {"running", "dead"} \/ proc[d].why \in {"routes", "configure"}
             \/ \E e \in Daemon \ {d} : Alive(e))
    /\ \A c \in Client : conn[c].st = "queued" ~> conn[c].st \in {"served", "reset"}
=============================================================================
