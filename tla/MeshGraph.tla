------------------------------ MODULE MeshGraph ------------------------------
(***************************************************************************)
(* The graph code that the two planners of the mesh share word for word     *)
(* (scripts/map_command_and_control/setup/code/rpp.c and swarm.c): adding   *)
(* and removing links, Dijkstra's algorithm one iteration at a time, and    *)
(* the route read back from it.                                             *)
(*                                                                         *)
(* A Graph is a record: link maps the pairs <<from, to>> that have a link   *)
(* to its cost, flow maps them to the flow put on it, and valid, d, pi and  *)
(* S are the arrays of the program.  Interfaces and channels are always 0,  *)
(* and the order of a list of links never matters, because no two links of  *)
(* a list have the same end.  Costs are naturals; the program has doubles.  *)
(***************************************************************************)
EXTENDS Integers, SequencesExt

CONSTANTS NUM_NODES,   \* the argument of the program
          MAX_SR_LEN   \* size of a maximum source route, 25 in the code

ASSUME MeshAssumption == NUM_NODES \in Nat \ {0} /\ MAX_SR_LEN \in Nat \ {0, 1}

Node   == 1 .. NUM_NODES
NIL    == 10000
INFLEN == 2147483647

NoRoute == <<>>

\* The arrays are not initialised by the code, but none is read before it is set.
init_graph == [link  |-> <<>>, flow |-> <<>>,
               valid |-> [v \in Node |-> FALSE],
               d     |-> [v \in Node |-> INFLEN],
               pi    |-> [v \in Node |-> NIL],
               S     |-> [v \in Node |-> FALSE]]

find_link(from, to, g) == <<from, to>> \in DOMAIN g.link

\* Adds a link, or gives the one that is there its new cost.
add_link(from, to, cost, g) ==
  [g EXCEPT !.link = (<<from, to>> :> cost) @@ @,
            !.flow = @ @@ (<<from, to>> :> 0),
            !.valid[from] = TRUE, !.valid[to] = TRUE]

RemoveLinks(g, gone) == [g EXCEPT !.link = Restrict(@, DOMAIN @ \ gone),
                                  !.flow = Restrict(@, DOMAIN @ \ gone)]

del_link(from, to, g) == RemoveLinks(g, {<<from, to>>})

del_vertex(vertex, g) ==
  [RemoveLinks(g, {p \in DOMAIN g.link : vertex \in {p[1], p[2]}})
     EXCEPT !.valid[vertex] = FALSE]

\* The loop over the arrays ends before NUM_NODES.
reset_graph(g) ==
  LET Reset(a, x) == [v \in Node |-> IF v < NUM_NODES THEN x ELSE a[v]]
  IN  [link  |-> <<>>, flow |-> <<>>,
       valid |-> Reset(g.valid, FALSE), d |-> Reset(g.d, INFLEN),
       pi    |-> Reset(g.pi, NIL),      S |-> Reset(g.S, FALSE)]

\* dst has no links when it is called.
copy_graph(src) == [src EXCEPT !.flow = [p \in DOMAIN src.link |-> 0]]

\* Every link gets its reverse, with the same cost.
bidirectionalize_graph(g) ==
  LET back == [p \in {<<q[2], q[1]>> : q \in DOMAIN g.link} |-> g.link[<<p[2], p[1]>>]]
  IN  [g EXCEPT !.link = back @@ @, !.flow = @ @@ [p \in DOMAIN back |-> 0],
                !.valid = [v \in Node |-> @[v] \/ \E p \in DOMAIN back : v \in {p[1], p[2]}]]

init_single_source(s, g) ==
  [g EXCEPT !.d    = [v \in Node |-> IF v = s THEN 0 ELSE INFLEN],
            !.pi   = [v \in Node |-> NIL],
            !.S    = [v \in Node |-> FALSE],
            !.flow = [p \in DOMAIN @ |-> 0]]

Open(g) == {u \in Node : ~ g.S[u] /\ g.d[u] < INFLEN}

\* The open node of least distance, the first of several.
extract_min_q(g) ==
  IF Open(g) = {} THEN NIL
  ELSE CHOOSE u \in Open(g) : \A w \in Open(g) : \/ g.d[u] < g.d[w]
                                                 \/ g.d[u] = g.d[w] /\ u <= w

\* Mutant: the last link seen wins.
relax_Always(u, g) ==
  LET Better(v) == find_link(u, v, g) /\ ~ g.S[v]
  IN  [g EXCEPT !.d  = [v \in Node |-> IF Better(v) THEN g.d[u] + g.link[<<u, v>>] ELSE @[v]],
                !.pi = [v \in Node |-> IF Better(v) THEN u ELSE @[v]]]

\* What relax does to every node that u has a link to.
relax(u, g) ==
  LET Better(v) == /\ find_link(u, v, g)
                   /\ ~ g.S[v]
                   /\ g.d[v] > g.d[u] + g.link[<<u, v>>]
  IN  [g EXCEPT !.d  = [v \in Node |-> IF Better(v) THEN g.d[u] + g.link[<<u, v>>] ELSE @[v]],
                !.pi = [v \in Node |-> IF Better(v) THEN u ELSE @[v]]]

\* One iteration of the loop of dijkstra: u is made permanent.
dijkstra(u, g) == relax(u, [g EXCEPT !.S[u] = TRUE])

\* The nodes from dest back to src, at most MAX_SR_LEN of them.
TraceBack(src, dest, g) ==
  LET step[n \in 1 .. MAX_SR_LEN] ==
        IF n = 1 THEN <<dest>>
        ELSE LET p == step[n - 1]
             IN  IF Last(p) = src \/ g.pi[Last(p)] = NIL THEN p
                 ELSE Append(p, g.pi[Last(p)])
  IN  IF g.d[dest] < INFLEN THEN step[MAX_SR_LEN] ELSE <<>>

\* Mutant: the limit is off by one.
get_route_Short(src, dest, g) ==
  LET rpath == TraceBack(src, dest, g)
  IN  IF Len(rpath) < 2 \/ Len(rpath) >= MAX_SR_LEN - 1 THEN NoRoute ELSE Reverse(rpath)

\* The route from src to dest after dijkstra from src, or NoRoute for NULL.
get_route(src, dest, g) ==
  LET rpath == TraceBack(src, dest, g)
  IN  IF Len(rpath) < 2 \/ Len(rpath) >= MAX_SR_LEN THEN NoRoute ELSE Reverse(rpath)
=============================================================================
