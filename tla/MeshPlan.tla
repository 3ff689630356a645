------------------------------- MODULE MeshPlan -------------------------------
(***************************************************************************)
(* The planners of the wireless mesh (map_command_and_control/setup/code):  *)
(*                                                                         *)
(*  - rpp, which prints the shortest route from one node to every other     *)
(*    node of interest (its search for a configuration comes after exit(1)  *)
(*    and is never reached);                                                *)
(*  - swarm, which assigns the mesh nodes to gateways: every configuration  *)
(*    of the configuration file is given a rank, from a tree per gateway    *)
(*    and a model of its cycle time, and the membership and the routing     *)
(*    tables of the configuration with the lowest rank are written.         *)
(*                                                                         *)
(* Both run once, from the files they are given, on global graphs that are  *)
(* reset and reused for each gateway of each configuration.  The gateways   *)
(* are the last NUM_GATEWAYS nodes.  An action is one iteration of a loop.  *)
(* Ranks are doubled and not divided by the number of mesh nodes, and the   *)
(* square root is rounded down: the program computes with doubles.          *)
(***************************************************************************)
EXTENDS MeshGraph, FiniteSets

CONSTANTS
  NUM_GATEWAYS, NUM_CONFIGS,
  MetricFiles,   \* the metric files considered: sequences of <<from, to, cost>>
  ConflictFile,  \* lines <<source, interferer or -1, destination, throughput>>
  ConfigFile,    \* lines <<number, configuration>>
  TREE_TYPES,    \* ways to build a tree: "DIJKSTRA" is compiled, "ITERATIVE" commented out
  SOURCE, SKIP,  \* the node rpp routes from, 11, and the nodes it leaves out
  RANK_LIMIT     \* the initial best_rank, 1000000

MeshNode == 1 .. NUM_NODES - NUM_GATEWAYS
Gateway  == Node \ MeshNode

ASSUME PlanAssumption == /\ NUM_GATEWAYS \in Node
                         /\ NUM_CONFIGS \in Nat
                         /\ SOURCE \in Node
                         /\ SKIP \subseteq Node

VARIABLES
  program,      \* which of the two programs runs
  TREE_TYPE,
  metric_graph, subgraph, tree_graph,
  pc,           \* the loop the program is in
  phase,        \* "search", "print" or "routes"
  config,       \* the configuration looked at
  gw,           \* the gateway looked at
  rank,         \* sum over the gateways so far
  ranks,        \* what execute_configuration returned, for every configuration so far
  best_config, best_rank,
  Q,            \* nodes the iterative construction has not attached yet
  todo,         \* routes still to be printed, as <<from, to>>
  table,        \* lines of TABLE-OUTPUT, with the gateway
  member,       \* lines of MEMBER-OUTPUT
  paths         \* routes rpp has printed, by destination

search == <<config, gw, rank, ranks, best_config, best_rank>>
output == <<todo, table, member, paths>>
vars   == <<program, TREE_TYPE, metric_graph, subgraph, tree_graph, pc, phase, Q,
            search, output>>

-----------------------------------------------------------------------------
(* The input files *)

read_metric_file(file) ==
  FoldLeft(LAMBDA g, line : add_link(line[1], line[2], line[3], g), init_graph, file)

\* The lines of the conflict file that are not skipped.
ConflictLines ==
  SelectSeq(ConflictFile, LAMBDA line : /\ line[1] # -1
                                        /\ line[1] <= NUM_NODES
                                        /\ line[3] <= NUM_NODES
                                        /\ line[1] # line[3])

thro_graph ==
  FoldLeft(LAMBDA g, line : IF line[2] = -1 THEN add_link(line[1], line[3], line[4], g) ELSE g,
           init_graph, ConflictLines)

\* s1, s2, de and t.
Conflicts == SelectSeq(ConflictLines, LAMBDA line : line[2] # -1)

\* configs[c][i]: the gateway of node i, counted from 0; the last line for c counts.
configs == FoldLeft(LAMBDA f, line : (line[1] :> line[2]) @@ f, <<>>, ConfigFile)

-----------------------------------------------------------------------------
(* The model of a tree's cycle time *)

Children(v, g) == {w \in Node : find_link(v, w, g)}

\* The number of nodes below each node; puts on every link from a parent to
\* one of the nodes at or below root the number of nodes it leads to.
count_children(root, g) ==
  LET count[v \in Node]   == MapThenSumSet(LAMBDA w : 1 + count[w], Children(v, g))
      visited[v \in Node] == {v} \cup UNION {visited[w] : w \in Children(v, g)}
  IN  [g EXCEPT !.flow = [p \in DOMAIN g.link |->
                            IF p[2] \in visited[root] /\ g.pi[p[2]] = p[1]
                            THEN count[p[2]] + 1 ELSE @[p]]]

OutLinks(v, g) == {p \in DOMAIN g.link : p[1] = v}
mark_l(v, g)   == MapThenSumSet(LAMBDA p : g.flow[p], OutLinks(v, g))
mark_t(v, g)   == MapThenSumSet(LAMBDA p : g.flow[p] * g.link[p], OutLinks(v, g))

\* Whether s makes more than a quarter of the links of k lose more than a
\* quarter of their throughput.
check_int(k, s) ==
  LET links  == {v \in DOMAIN Conflicts : /\ Conflicts[v][1] = k
                                          /\ Conflicts[v][2] = s
                                          /\ find_link(k, Conflicts[v][3], thro_graph)
                                          /\ thro_graph.link[<<k, Conflicts[v][3]>>] > 0}
      interf == {v \in links :
                   4 * Conflicts[v][4] < 3 * thro_graph.link[<<k, Conflicts[v][3]>>]}
  IN  4 * Cardinality(interf) > Cardinality(links)

\* The flow of the links that interfere with k, weighted by the squares of their costs.
get_int(k, g) ==
  MapThenSumSet(LAMBDA p : g.flow[p] * g.link[p] * g.link[p],
                {p \in DOMAIN g.link : p[1] # k /\ p[2] # k /\ check_int(k, p[1])})

Sqrt(n) == CHOOSE r \in 0 .. n : r * r <= n /\ (r + 1) * (r + 1) > n

get_b(k, g) == mark_t(k, g) + Sqrt(mark_t(k, g) * mark_t(k, g) + 2 * mark_l(k, g) * get_int(k, g))

\* The largest cycle time of a node, times the number of nodes, for a graph
\* that count_children has marked.
model_tree(g, num_nodes_in_config) ==
  num_nodes_in_config * Max({0} \cup {get_b(k, g) : k \in Node})

-----------------------------------------------------------------------------
(* The tree of a gateway *)

FirstGateway == NUM_NODES - NUM_GATEWAYS + 1
Members(c, w) == {i \in MeshNode : configs[c][i] = w - FirstGateway}

\* reset_graph(subgraph) and copy_graph leave nothing of the subgraph before.
construct_graph_for_a_subconfiguration(c, w) ==
  FoldSet(del_vertex, copy_graph(metric_graph), Node \ (Members(c, w) \cup {w}))

disconnected(g) == \E v \in Node : g.valid[v] /\ g.d[v] = INFLEN

\* The links from the parents that dijkstra found, with their costs in the network.
make_tree_graph(g, root, tree) ==
  LET Add(v, t) == add_link(g.pi[v], v, metric_graph.link[<<g.pi[v], v>>], t)
  IN  [FoldSet(Add, tree, {v \in Node \ {root} : g.d[v] < INFLEN})
         EXCEPT !.pi = g.pi, !.d = g.d]

\* The rank of the tree with i attached to j, -1 when there is no such link.
model_performance(i, j, nodes_in_tree) ==
  IF find_link(j, i, metric_graph)
  THEN LET g == [add_link(j, i, metric_graph.link[<<j, i>>], tree_graph) EXCEPT !.pi[i] = j]
       IN  model_tree(count_children(gw, g), nodes_in_tree)
  ELSE -1

\* The subgraph of the next gateway; the tree graph is reset.
BeginTree ==
  /\ pc = "subgraph"
  /\ LET g == construct_graph_for_a_subconfiguration(config, gw)
     IN  \/ /\ TREE_TYPE = "DIJKSTRA"
            /\ subgraph' = init_single_source(gw, g)
            /\ tree_graph' = reset_graph(tree_graph)
            /\ pc' = "dijkstra"
            /\ UNCHANGED Q
         \/ /\ TREE_TYPE = "ITERATIVE"
            /\ subgraph' = g
            /\ tree_graph' = [reset_graph(tree_graph) EXCEPT !.valid[gw] = TRUE]
            /\ Q' = {i \in Node : g.valid[i]} \ {gw}
            /\ pc' = "iterate"
  /\ UNCHANGED <<program, TREE_TYPE, metric_graph, phase, search, output>>

DijkstraStep ==
  /\ pc = "dijkstra"
  /\ extract_min_q(subgraph) # NIL
  /\ subgraph' = dijkstra(extract_min_q(subgraph), subgraph)
  /\ UNCHANGED <<program, TREE_TYPE, metric_graph, tree_graph, pc, phase, Q, search, output>>

DijkstraEnd ==
  /\ pc = "dijkstra"
  /\ extract_min_q(subgraph) = NIL
  /\ \/ /\ disconnected(subgraph)
        /\ pc' = "failed"
        /\ UNCHANGED tree_graph
     \/ /\ ~ disconnected(subgraph)
        /\ pc' = "built"
        /\ tree_graph' = make_tree_graph(subgraph, gw, tree_graph)
  /\ UNCHANGED <<program, TREE_TYPE, metric_graph, subgraph, phase, Q, search, output>>

\* num_nodes: the gateway is taken off whether or not it was counted.
NumLeft == Cardinality(Q) - (IF subgraph.valid[gw] THEN 0 ELSE 1)

NodesInTree == 1 + Cardinality({i \in Node : subgraph.valid[i]} \ ({gw} \cup Q))

\* One round of the iterative construction: of all ways to attach a node, the
\* one ranked highest, the first of several.
Attach ==
  /\ pc = "iterate"
  /\ NumLeft > 0
  /\ LET ways == {w \in Q \X {j \in Node : tree_graph.valid[j]} : w[1] # w[2]}
         xput == [w \in ways |-> model_performance(w[1], w[2], NodesInTree)]
         best == CHOOSE w \in ways : \A u \in ways :
                   \/ xput[w] > xput[u]
                   \/ xput[w] = xput[u] /\ (w[1] < u[1] \/ (w[1] = u[1] /\ w[2] <= u[2]))
     IN  \/ /\ \A w \in ways : xput[w] = -1
            /\ pc' = "failed"
            /\ UNCHANGED <<tree_graph, Q>>
         \/ /\ \E w \in ways : xput[w] > -1
            /\ tree_graph' = [add_link(best[2], best[1], metric_graph.link[<<best[2], best[1]>>],
                                       tree_graph) EXCEPT !.pi[best[1]] = best[2]]
            /\ Q' = Q \ {best[1]}
            /\ UNCHANGED pc
  /\ UNCHANGED <<program, TREE_TYPE, metric_graph, subgraph, phase, search, output>>

AttachEnd ==
  /\ pc = "iterate"
  /\ NumLeft <= 0
  /\ pc' = "built"
  /\ UNCHANGED <<program, TREE_TYPE, metric_graph, subgraph, tree_graph, phase, Q, search, output>>

-----------------------------------------------------------------------------
(* The search *)

\* Mutant: the rank goes on from the last configuration.
NextConfig_KeepRank ==
  /\ pc = "config"
  /\ config < NUM_CONFIGS
  /\ gw' = FirstGateway /\ pc' = "subgraph"
  /\ UNCHANGED <<program, TREE_TYPE, metric_graph, subgraph, tree_graph, phase, Q,
                 rank, config, ranks, best_config, best_rank, output>>

\* execute_configuration begins: no rank yet, the first gateway next.
NextConfig ==
  /\ pc = "config"
  /\ config < NUM_CONFIGS
  /\ rank' = 0 /\ gw' = FirstGateway /\ pc' = "subgraph"
  /\ UNCHANGED <<program, TREE_TYPE, metric_graph, subgraph, tree_graph, phase, Q,
                 config, ranks, best_config, best_rank, output>>

\* execute_configuration returned r.
Tally(r) ==
  /\ ranks' = Append(ranks, r)
  /\ IF r > 0 /\ r < best_rank
     THEN best_config' = config /\ best_rank' = r
     ELSE UNCHANGED <<best_config, best_rank>>
  /\ config' = config + 1
  /\ pc' = "config"

\* The tree of a gateway is modelled; after the last one the rank is complete.
ModelTree ==
  /\ pc = "built" /\ phase = "search"
  /\ tree_graph' = count_children(gw, tree_graph)
  /\ rank' = rank + model_tree(tree_graph', Cardinality(Members(config, gw)))
  /\ \/ /\ gw < NUM_NODES
        /\ gw' = gw + 1 /\ pc' = "subgraph"
        /\ UNCHANGED <<config, ranks, best_config, best_rank>>
     \/ /\ gw = NUM_NODES
        /\ Tally(rank')
        /\ UNCHANGED gw
  /\ UNCHANGED <<program, TREE_TYPE, metric_graph, subgraph, phase, Q, output>>

\* A gateway does not reach all its nodes.
TreeFails ==
  /\ pc = "failed"
  /\ \/ /\ phase = "search"
        /\ Tally(0)
     \/ /\ phase = "print"
        /\ pc' = "done"
        /\ UNCHANGED <<config, ranks, best_config, best_rank>>
  /\ UNCHANGED <<program, TREE_TYPE, metric_graph, subgraph, tree_graph, phase, Q,
                 gw, rank, output>>

\* The best configuration is built again and printed; without one, main
\* prints configs[-1], which is not a pointer.
EndSearch ==
  /\ pc = "config"
  /\ config = NUM_CONFIGS
  /\ phase' = "print"
  /\ config' = best_config /\ gw' = FirstGateway
  /\ pc' = IF best_config = -1 THEN "crash" ELSE "subgraph"
  /\ UNCHANGED <<program, TREE_TYPE, metric_graph, subgraph, tree_graph, Q,
                 rank, ranks, best_config, best_rank, output>>

-----------------------------------------------------------------------------
(* Printing routes *)

\* The pairs print_routing_tables asks a route for, in its order.
TablePairs(g, w) ==
  SelectSeq([k \in 1 .. NUM_NODES * NUM_NODES |->
               <<((k - 1) \div NUM_NODES) + 1, ((k - 1) % NUM_NODES) + 1>>],
            LAMBDA p : p[1] # p[2] /\ \A i \in {p[1], p[2]} : g.valid[i] /\ (i \in Gateway => i = w))

BeginTable ==
  /\ pc = "built" /\ phase = "print"
  /\ tree_graph' = bidirectionalize_graph(tree_graph)
  /\ todo' = TablePairs(tree_graph', gw)
  /\ pc' = "route"
  /\ UNCHANGED <<program, TREE_TYPE, metric_graph, subgraph, phase, Q, search,
                 table, member, paths>>

\* The destinations the main loop of rpp asks a route to.
RppRoutes == SelectSeq([k \in Node |-> <<SOURCE, k>>],
                       LAMBDA p : p[2] \notin SKIP \cup {SOURCE})

RouteGraph == IF phase = "routes" THEN metric_graph ELSE tree_graph

SetRouteGraph(g) ==
  IF phase = "routes" THEN metric_graph' = g /\ UNCHANGED tree_graph
                      ELSE tree_graph' = g /\ UNCHANGED metric_graph

\* get_route begins: dijkstra is run anew for every pair.
RouteBegin ==
  /\ pc = "route" /\ todo # <<>>
  /\ SetRouteGraph(init_single_source(Head(todo)[1], RouteGraph))
  /\ pc' = "trace"
  /\ UNCHANGED <<program, TREE_TYPE, subgraph, phase, Q, search, output>>

RouteStep ==
  /\ pc = "trace"
  /\ extract_min_q(RouteGraph) # NIL
  /\ SetRouteGraph(dijkstra(extract_min_q(RouteGraph), RouteGraph))
  /\ UNCHANGED <<program, TREE_TYPE, subgraph, pc, phase, Q, search, output>>

\* The route is printed.  rpp says when there is none; the tables take its
\* second node without asking.
RouteEnd ==
  /\ pc = "trace"
  /\ extract_min_q(RouteGraph) = NIL
  /\ LET from  == Head(todo)[1]
         to    == Head(todo)[2]
         route == get_route(from, to, RouteGraph)
     IN  \/ /\ phase = "routes"
            /\ paths' = (to :> route) @@ paths
            /\ pc' = "route"
            /\ UNCHANGED table
         \/ /\ phase = "print" /\ route = NoRoute
            /\ pc' = "crash"
            /\ UNCHANGED <<table, paths>>
         \/ /\ phase = "print" /\ route # NoRoute
            /\ table' = table \cup {<<gw, from, to, route[2]>>}
            /\ pc' = "route"
            /\ UNCHANGED paths
  /\ todo' = Tail(todo)
  /\ UNCHANGED <<program, TREE_TYPE, metric_graph, subgraph, tree_graph, phase, Q, search,
                 member>>

\* print_membership, and the next gateway.
TableEnd ==
  /\ pc = "route" /\ todo = <<>> /\ phase = "print"
  /\ member' = member \cup ({v \in MeshNode \cup {gw} : tree_graph.valid[v]} \X {gw})
  /\ IF gw < NUM_NODES THEN gw' = gw + 1 /\ pc' = "subgraph"
                       ELSE UNCHANGED gw /\ pc' = "done"
  /\ UNCHANGED <<program, TREE_TYPE, metric_graph, subgraph, tree_graph, phase, Q,
                 config, rank, ranks, best_config, best_rank, todo, table, paths>>

RoutesEnd ==
  /\ pc = "route" /\ todo = <<>> /\ phase = "routes"
  /\ pc' = "done"
  /\ UNCHANGED <<program, TREE_TYPE, metric_graph, subgraph, tree_graph, phase, Q, search, output>>

-----------------------------------------------------------------------------
Init ==
  /\ program \in {"rpp", "swarm"}
  /\ TREE_TYPE \in IF program = "rpp" THEN {"DIJKSTRA"} ELSE TREE_TYPES
  /\ \E file \in MetricFiles : metric_graph = read_metric_file(file)
  /\ subgraph = init_graph /\ tree_graph = init_graph
  /\ config = 0 /\ gw = FirstGateway /\ rank = 0 /\ ranks = <<>>
  /\ best_config = -1 /\ best_rank = RANK_LIMIT
  /\ Q = {} /\ table = {} /\ member = {} /\ paths = <<>>
  /\ \/ program = "rpp"   /\ pc = "route"  /\ phase = "routes" /\ todo = RppRoutes
     \/ program = "swarm" /\ pc = "config" /\ phase = "search" /\ todo = <<>>

\* The program has ended.
Ended == pc \in {"done", "crash"} /\ UNCHANGED vars

Next ==
  \/ NextConfig \/ EndSearch \/ TreeFails \/ ModelTree
  \/ BeginTree \/ DijkstraStep \/ DijkstraEnd \/ Attach \/ AttachEnd
  \/ BeginTable \/ RouteBegin \/ RouteStep \/ RouteEnd \/ TableEnd \/ RoutesEnd
  \/ Ended

Spec == Init /\ [][Next]_vars

-----------------------------------------------------------------------------
(* Reference definitions *)

\* Least cost from s to every node, by rounds over all links.
Distance(s, g) ==
  LET round[n \in 0 .. NUM_NODES] ==
        IF n = 0 THEN [v \in Node |-> IF v = s THEN 0 ELSE INFLEN]
        ELSE LET p == round[n - 1]
             IN  [v \in Node |->
                    Min({p[v]} \cup {p[u] + g.link[<<u, v>>] :
                           u \in {u \in Node : find_link(u, v, g) /\ p[u] < INFLEN}})]
  IN  round[NUM_NODES]

\* Whether some route of least cost from s to v, dist being Distance(s, g),
\* has MAX_SR_LEN nodes or more.
LongAtLeastCost(s, v, g, dist) ==
  LET ends[n \in 1 .. NUM_NODES] ==
        IF n = 1 THEN {s}
        ELSE {w \in Node : \E u \in ends[n - 1] : /\ find_link(u, w, g)
                                                  /\ dist[w] = dist[u] + g.link[<<u, w>>]}
  IN  \E n \in MAX_SR_LEN .. NUM_NODES : v \in ends[n]

\* The nodes that appear in the metric file.
Listed == {v \in Node : metric_graph.valid[v]}

\* Every node of the configuration that appears in the metric file can be
\* reached from its gateway through nodes of the same gateway.
Feasible(c) ==
  \A w \in Gateway :
    LET own   == Members(c, w) \cup {w}
        links == {p \in DOMAIN metric_graph.link : p[1] \in own /\ p[2] \in own}
        dist  == Distance(w, [link |-> Restrict(metric_graph.link, links)])
    IN  \A i \in Members(c, w) \cap Listed : dist[i] < INFLEN

\* Two nodes of the tree with more hops between them than a source route has.
TooFarApart ==
  \E i, j \in Node :
    LET hops == Distance(i, [link |-> [p \in DOMAIN tree_graph.link |-> 1]])
    IN  hops[j] < INFLEN /\ hops[j] + 1 >= MAX_SR_LEN

-----------------------------------------------------------------------------
(* Properties *)

\* A configuration has a positive rank exactly when each gateway reaches all
\* its nodes without the help of another gateway's nodes (and has some); the
\* one chosen has the lowest rank of these; none is chosen only if there is none.
\* And a rank does not depend on the configurations looked at before: one listed
\* twice has the same rank, although the graphs are reset in part and reused.
\* (With Dijkstra trees.  The iterative ones depend on which nodes are valid, and
\* reset_graph leaves the last node as the previous configuration had it.)
SearchSound ==
  TREE_TYPE = "DIJKSTRA" =>
    /\ \A k \in DOMAIN ranks : ranks[k] > 0 <=> Feasible(k - 1) /\ Listed \cap MeshNode # {}
    /\ \A j, k \in DOMAIN ranks : configs[j - 1] = configs[k - 1] => ranks[j] = ranks[k]
    /\ phase = "print" =>
         LET good == {k \in DOMAIN ranks : ranks[k] > 0 /\ ranks[k] < RANK_LIMIT}
         IN  IF good = {} THEN best_config = -1
             ELSE best_config + 1 \in good /\ \A k \in good : ranks[best_config + 1] <= ranks[k]

\* Once the tables are printed, a packet that follows them from any member of
\* a gateway reaches any other, and the members printed are those configured.
\* swarm fails to print them only when the search has found no configuration, or
\* when two nodes of a tree are too far apart for a source route.
TablesDeliver ==
  /\ pc = "crash" /\ TREE_TYPE = "DIJKSTRA" => best_config = -1 \/ TooFarApart
  /\ pc = "done" /\ phase = "print" =>
    \A w \in Gateway :
      LET with == {i \in Node : <<i, w>> \in member}
          hop(i, j) == {n \in Node : <<w, i, j, n>> \in table}
          at(i, j)  == LET step[n \in 0 .. NUM_NODES] ==
                             IF n = 0 THEN {i}
                             ELSE UNION {IF m = j THEN {j} ELSE hop(m, j) : m \in step[n - 1]}
                       IN  step[NUM_NODES]
      IN  /\ \A i, j \in with : i # j => at(i, j) = {j}
          /\ TREE_TYPE = "DIJKSTRA" => with \cap MeshNode = Members(config, w) \cap Listed

\* A route that rpp prints goes along links of the network, from the source to
\* the destination, at the least cost; it prints none only when the destination
\* cannot be reached, or when a route of least cost has MAX_SR_LEN nodes (of
\* several routes of least cost it may have found that one).
RoutesShortest ==
  \A to \in DOMAIN paths :
    LET r == paths[to]
        dist == Distance(SOURCE, metric_graph)
    IN  IF r = NoRoute
        THEN \/ dist[to] = INFLEN
             \/ LongAtLeastCost(SOURCE, to, metric_graph, dist)
        ELSE /\ r[1] = SOURCE /\ Last(r) = to
             /\ \A n \in 1 .. Len(r) - 1 : find_link(r[n], r[n + 1], metric_graph)
             /\ dist[to] = MapThenSumSet(LAMBDA n : metric_graph.link[<<r[n], r[n + 1]>>],
                                         1 .. Len(r) - 1)
=============================================================================
