-------------------------- MODULE ForwardingTable --------------------------
(***************************************************************************)
(* The forwarding tables the controller makes of the base routes           *)
(*   internal/controller/topology/fib.go   computeFIB                      *)
(*   internal/controller/topology/dag.go   cycles found and pruned         *)
(* Every node is told, for the address of every other, the first hops of   *)
(* its base routes.  As each hop decides anew, the first hops must not     *)
(* lead in a circle: edges are taken out of the graph of all of them, and  *)
(* the hops out of the tables, until it has none.  Go walks its maps in    *)
(* any order, so any edge that closes a circle may be the one.             *)
(***************************************************************************)
EXTENDS Integers, FiniteSets

CONSTANTS TransitNodes, \* three nodes with base routes between them
          FibRouteKs    \* how many base routes there may be per pair: 1, 2

ASSUME ForwardingAssumption == IsFiniteSet(TransitNodes)

VARIABLES firsts,  \* pair -> the first hops of its base routes
          vips,    \* nodes whose address is known
          fib,     \* source -> destination -> next hops, {} for no entry
          graph,   \* source -> successors
          fibStep  \* "build", "prune", "done"

fibVars == <<firsts, vips, fib, graph, fibStep>>

FibPairs == {p \in TransitNodes \X TransitNodes : p[1] # p[2]}
NoEntries == [s \in TransitNodes |-> [d \in TransitNodes |-> {}]]

(* Base routes go directly or over a third node, where the links exist.    *)
Ways(links, p) == {h \in TransitNodes \ {p[1]} : <<p[1], h>> \in links /\ (h = p[2] \/ <<h, p[2]>> \in links)}
BaseRoutes(links, direct, k) ==
    [p \in FibPairs |-> LET ways == Ways(links, p)
                        IN  IF Cardinality(ways) <= k THEN ways
                            ELSE IF p \in direct THEN {p[2]} ELSE ways \ {p[2]}]

FibInit ==
    /\ firsts \in {BaseRoutes(links, direct, k) : links \in SUBSET FibPairs, direct \in SUBSET FibPairs, k \in FibRouteKs}
    /\ vips \in SUBSET TransitNodes
    /\ fib = NoEntries /\ graph = [s \in TransitNodes |-> {}] /\ fibStep = "build"

FibTypeOK ==
    /\ \A s, d \in TransitNodes : fib[s][d] \subseteq TransitNodes \ {s}
    /\ \A s \in TransitNodes : graph[s] \subseteq TransitNodes
    /\ fibStep \in {"build", "prune", "done"}

-----------------------------------------------------------------------------
buildPerSourceFIB ==
    [s \in TransitNodes |-> [d \in TransitNodes |->
        IF s # d /\ d \in vips THEN firsts[<<s, d>>] ELSE {}]]

buildForwardingGraph(tables) == [s \in TransitNodes |-> UNION {tables[s][d] : d \in TransitNodes}]

Build ==
    /\ fibStep = "build" /\ fibStep' = "prune"
    /\ fib' = buildPerSourceFIB /\ graph' = buildForwardingGraph(fib')
    /\ UNCHANGED <<firsts, vips>>

(* Reachable by one edge or more.                                          *)
Reached(g, from) ==
    LET more[n \in 0 .. Cardinality(TransitNodes)] ==
          IF n = 0 THEN g[from] ELSE more[n - 1] \cup UNION {g[m] : m \in more[n - 1]}
    IN  more[Cardinality(TransitNodes)]
AnyEdge(g) == {p \in FibPairs : p[2] \in g[p[1]]}
ClosingEdges(g) == {p \in AnyEdge(g) : p[1] \in Reached(g, p[2])}

removeDirect(tables, from, to) == [tables EXCEPT ![from][to] = @ \ {to}]
removeNextHop(tables, from, to) == [tables EXCEPT ![from] = [d \in TransitNodes |-> @[d] \ {to}]]

PruneEdge(e) ==
    /\ fibStep = "prune" /\ e \in ClosingEdges(graph)
    /\ graph' = [graph EXCEPT ![e[1]] = @ \ {e[2]}]
    /\ fib' = removeNextHop(fib, e[1], e[2])
    /\ UNCHANGED <<firsts, vips, fibStep>>

Convert ==
    /\ fibStep = "prune" /\ ClosingEdges(graph) = {}
    /\ fibStep' = "done"
    /\ UNCHANGED <<firsts, vips, fib, graph>>

FibNext == Build \/ Convert \/ \E e \in FibPairs : PruneEdge(e)

FibSpec == FibInit /\ [][FibNext]_fibVars

-----------------------------------------------------------------------------
Circular(g) == \E n \in TransitNodes : n \in Reached(g, n)

\* However the nodes choose among the next hops they were told, a packet never passes a
\* node twice; every hop is the first of a base route; and where the first hops make no
\* circle every one of them is told (computeFIB, pruneGraphCycles).
FibSound ==
    fibStep = "done" =>
        /\ \A d \in vips : ~Circular([s \in TransitNodes |-> fib[s][d]])
        /\ graph = buildForwardingGraph(fib)
        /\ \A p \in FibPairs : fib[p[1]][p[2]] \subseteq firsts[p]
        /\ ~Circular(buildForwardingGraph(buildPerSourceFIB)) => fib = buildPerSourceFIB
=============================================================================
