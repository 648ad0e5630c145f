--------------------------- MODULE TopoOptimizer ---------------------------
(***************************************************************************)
(* The topology optimizer of the controller (package                       *)
(* internal/controller/topology: eligibility.go, prune.go, assign.go,      *)
(* graph.go, kpaths.go, optimizer.go, incremental.go).                     *)
(*                                                                         *)
(* Optimize is a pure function from the reported ingresses and the quality *)
(* matrix to roles, neighbours, K baseline routes and probe sets;          *)
(* ApplyEdgeEvents brings such a result up to date with a batch of edge    *)
(* events without computing every route again.  This module has only the   *)
(* functions: TopoIncremental checks them, TopoService uses them.          *)
(*                                                                         *)
(* Nodes and ingresses are naturals, and their order is the lexicographic  *)
(* order of the identifiers the code sorts by.  Routes, and the order in   *)
(* which Dijkstra and Yen break ties, are modelled exactly; versions are   *)
(* left to TopoService.                                                    *)
(***************************************************************************)
EXTENDS Integers, Sequences, FiniteSets, TLC, Functions
Ext == INSTANCE FiniteSetsExt

CONSTANTS
    TopoNode,       \* node identifiers, in the order of their names
    TopoIngress,    \* ingress identifiers of a node, in the order of their names
    MaxPeers,       \* OptimizerParams.MaxPeers
    IngressK,       \* OptimizerParams.IngressK
    RouteK,         \* OptimizerParams.RouteK
    LeafUplinks,    \* OptimizerParams.LeafUplinks
    ProbeLimit,     \* OptimizerParams.ProbeLimit (ProbeFull is never set)
    DirtyPercent,   \* defaultDirtyThreshold, in percent
    Links,          \* the <<source, destination, ingress>> that events are about
    Weights         \* the weights that events report

\* Node and ingress names are ordered; 0 is kept for the core vertex of a node.
ASSUME OptimizerAssumption ==
    /\ TopoNode \subseteq Nat /\ IsFiniteSet(TopoNode)
    /\ TopoIngress \subseteq Nat \ {0} /\ IsFiniteSet(TopoIngress)
    /\ {MaxPeers, IngressK, RouteK, LeafUplinks, ProbeLimit} \subseteq Nat \ {0}
    /\ Links \subseteq TopoNode \X TopoNode \X TopoIngress
    /\ Weights \subseteq Nat
    /\ DirtyPercent \in Nat

(***************************************************************************)
(* Helpers: the n cheapest elements of S, ties broken by name, and         *)
(* sequences compared element by element.                                  *)
(***************************************************************************)
Nearest(cost, n) ==
    {x \in DOMAIN cost :
        Cardinality({y \in DOMAIN cost : \/ cost[y] < cost[x]
                                         \/ cost[y] = cost[x] /\ y < x}) < n}

VertexBefore(u, v) == u[1] < v[1] \/ (u[1] = v[1] /\ u[2] < v[2])

comparePathSeq(p, q) ==
    \/ Len(p) < Len(q) /\ p = SubSeq(q, 1, Len(p))
    \/ \E i \in 1..Len(p) : /\ i <= Len(q)
                            /\ SubSeq(p, 1, i - 1) = SubSeq(q, 1, i - 1)
                            /\ VertexBefore(p[i], q[i])

(***************************************************************************)
(* An input is [nodes, qm].  nodes maps every node that reported to        *)
(* [sure, reach]: its ingresses of high confidence, and all that count as  *)
(* reachable.  qm maps the measured <<source, destination, ingress>> to    *)
(* their weights, the smaller the better.                                  *)
(***************************************************************************)
IsInput(in) ==
    /\ in = [nodes |-> in.nodes, qm |-> in.qm]
    /\ DOMAIN in.nodes \subseteq TopoNode
    /\ in.nodes \in [DOMAIN in.nodes -> [sure : SUBSET TopoIngress, reach : SUBSET TopoIngress]]
    /\ DOMAIN in.qm \subseteq TopoNode \X TopoNode \X TopoIngress
    /\ in.qm \in [DOMAIN in.qm -> Nat]

Eligible(in, n) == in.nodes[n].sure \cap in.nodes[n].reach # {}
Transits(in) == {n \in DOMAIN in.nodes : Eligible(in, n)}
Leaves(in)   == DOMAIN in.nodes \ Transits(in)

Reach(in, n) == in.nodes[n].reach
Measured(in, s, d) == {k \in Reach(in, d) : <<s, d, k>> \in DOMAIN in.qm}
bestQuality(in, s, d) == Ext!Min({in.qm[<<s, d, k>>] : k \in Measured(in, s, d)})

\* A link nobody has measured stays usable between transits, at a price.
DefaultWeight == 1000000
EdgeW(in, s, d, k) ==
    IF <<s, d, k>> \in DOMAIN in.qm THEN in.qm[<<s, d, k>>] ELSE DefaultWeight

(***************************************************************************)
(* Prune: the top MaxPeers peers of every transit, closed under symmetry,  *)
(* and for every direction the IngressK best ingresses.                    *)
(***************************************************************************)
TopPeers(in, a) ==
    Nearest([b \in {t \in Transits(in) \ {a} : Reach(in, t) # {}} |->
                IF Measured(in, a, b) # {} THEN bestQuality(in, a, b) ELSE DefaultWeight],
            MaxPeers)

PeerPairsOneWay(in) ==   \* mutant: no closure under symmetry
    {p \in Transits(in) \X Transits(in) : p[2] \in TopPeers(in, p[1])}

PeerPairs(in) ==
    {p \in Transits(in) \X Transits(in) :
        p[2] \in TopPeers(in, p[1]) \/ p[1] \in TopPeers(in, p[2])}

TopIngresses(in, s, d) ==
    Nearest([k \in Reach(in, d) |-> EdgeW(in, s, d, k)], IngressK)

Prune(in) ==
    UNION {{<<p[1], p[2], k>> : k \in TopIngresses(in, p[1], p[2])} :
              p \in PeerPairs(in)}

(***************************************************************************)
(* Neighbours: sets of <<peer, ingresses>>.                                *)
(***************************************************************************)
TransitNeighbors(pruned, t) ==
    {<<b, {k \in TopoIngress : <<t, b, k>> \in pruned}>> :
        b \in {e[2] : e \in {x \in pruned : x[1] = t}}}

LeafNeighbors(in, l) ==
    {<<b, Measured(in, l, b)>> :
        b \in Nearest([t \in {x \in Transits(in) : Measured(in, l, x) # {}} |->
                           bestQuality(in, l, t)], LeafUplinks)}

Neighbors(in, pruned) ==
    [n \in DOMAIN in.nodes |-> IF n \in Transits(in) THEN TransitNeighbors(pruned, n)
                                                     ELSE LeafNeighbors(in, n)]

(***************************************************************************)
(* The split graph: the core vertex <<n, 0>> of a transit, one vertex      *)
(* <<n, k>> per ingress, and a free edge from every ingress to its core.   *)
(***************************************************************************)
Core(n) == <<n, 0>>

BuildSplitGraph(in, pruned) ==
    [e \in {<<Core(p[1]), <<p[2], p[3]>>>> : p \in pruned}
           \cup {<<<<p[2], p[3]>>, Core(p[2])>> : p \in pruned} |->
        IF e[1][2] = 0 THEN EdgeW(in, e[1][1], e[2][1], e[2][2]) ELSE 0]

(***************************************************************************)
(* One shortest path.  A label is [w, path]; a vertex is settled in the    *)
(* order of <<weight, vertex>>, and a path that is only as good as the one *)
(* already found does not replace it.  The answer is the set of the one    *)
(* label of dst, or {} when dst cannot be reached.                         *)
(***************************************************************************)
Vertices(g) == {e[1] : e \in DOMAIN g} \cup {e[2] : e \in DOMAIN g}

Nearer(s, x, y) ==
    \/ s.label[x].w < s.label[y].w
    \/ s.label[x].w = s.label[y].w /\ VertexBefore(x, y)

NextVertex(s) ==
    CHOOSE x \in DOMAIN s.label \ s.done :
        \A y \in DOMAIN s.label \ s.done : y # x => Nearer(s, x, y)

RelaxedLast(s, u, g, removedV, removedE) ==   \* mutant: the last way found to a vertex stays
    {e \in DOMAIN g : /\ e[1] = u /\ e[2] \notin removedV \cup s.done /\ e \notin removedE}

Relaxed(s, u, g, removedV, removedE) ==
    {e \in DOMAIN g : /\ e[1] = u /\ e[2] \notin removedV /\ e \notin removedE
                      /\ e[2] \in DOMAIN s.label => s.label[u].w + g[e] < s.label[e[2]].w}

Label(s, u, g, edges) ==
    LET heads == {e[2] : e \in edges}
    IN  [v \in DOMAIN s.label \cup heads |->
            IF v \in heads THEN [w |-> s.label[u].w + g[<<u, v>>], path |-> Append(s.label[u].path, v)]
                           ELSE s.label[v]]

Settle(s, u, g, edges) == [label |-> Label(s, u, g, edges), done |-> s.done \cup {u}]

Step(s, g, dst, removedV, removedE) ==
    IF DOMAIN s.label = s.done \/ dst \in s.done THEN s
    ELSE IF NextVertex(s) = dst THEN [s EXCEPT !.done = @ \cup {dst}]
    ELSE Settle(s, NextVertex(s), g, Relaxed(s, NextVertex(s), g, removedV, removedE))

Answer(s, dst) == IF dst \in s.done THEN {s.label[dst]} ELSE {}

dijkstra(g, src, dst, removedV, removedE) ==
    LET run[i \in 0..Cardinality(Vertices(g))] ==
            IF i = 0 THEN [label |-> [v \in {src} |-> [w |-> 0, path |-> <<src>>]], done |-> {}]
                     ELSE Step(run[i - 1], g, dst, removedV, removedE)
    IN IF {src, dst} \cap removedV = {} THEN Answer(run[Cardinality(Vertices(g))], dst) ELSE {}

prefixWeight(g, path, i) ==
    LET w[j \in 1..i] == IF j = 1 THEN 0 ELSE w[j - 1] + g[<<path[j - 1], path[j]>>]
    IN w[i]

(***************************************************************************)
(* Yen's algorithm: the sequence of up to K routes, the next one chosen    *)
(* among the candidates by <<weight, path>>.  A candidate leaves the last  *)
(* route found at its i-th vertex.                                         *)
(***************************************************************************)
RemovedEdges(found, prev, i) ==
    {<<p[i], p[i + 1]>> :
        p \in {q \in Range(found) : Len(q) > i /\ SubSeq(q, 1, i) = SubSeq(prev, 1, i)}}

Joined(g, prev, i, spurs) ==
    {[w |-> prefixWeight(g, prev, i) + s.w, path |-> SubSeq(prev, 1, i - 1) \o s.path] : s \in spurs}

Spur(g, found, prev, i, dst) ==
    Joined(g, prev, i, dijkstra(g, prev[i], dst, {prev[j] : j \in 1..(i - 1)},
                                RemovedEdges(found, prev, i)))

NewCandidates(g, found, prev, dst) ==
    {c \in UNION {Spur(g, found, prev, i, dst) : i \in 1..(Len(prev) - 1)} :
        c.path \notin Range(found)}

Cheapest(cands) ==
    CHOOSE c \in cands : \A d \in cands \ {c} :
        c.w < d.w \/ (c.w = d.w /\ comparePathSeq(c.path, d.path))

TakeBest(found, cands) ==
    IF cands = {} THEN [found |-> found, cands |-> {}]
    ELSE [found |-> Append(found, Cheapest(cands).path), cands |-> cands \ {Cheapest(cands)}]

Extend(g, s, n, dst) ==
    IF Len(s.found) < n - 1 THEN s
    ELSE TakeBest(s.found, s.cands \cup NewCandidates(g, s.found, s.found[n - 1], dst))

FirstRoute(labels) == IF labels = {} THEN <<>> ELSE <<(CHOOSE l \in labels : TRUE).path>>

KShortest(g, src, dst) ==
    LET run[n \in 1..RouteK] ==
            IF n = 1 THEN [found |-> FirstRoute(dijkstra(g, src, dst, {}, {})), cands |-> {}]
                     ELSE Extend(g, run[n - 1], n, dst)
    IN run[RouteK].found

\* The hops of a path: its ingress vertices, as <<node, ingress>>.
compressPath(path) ==
    LET hops[i \in 0..Len(path)] ==
            IF i = 0 THEN <<>>
            ELSE IF path[i][2] = 0 THEN hops[i - 1] ELSE Append(hops[i - 1], path[i])
    IN hops[Len(path)]

HopSeqs(paths) ==
    [i \in DOMAIN paths |-> compressPath(paths[i])]

RoutesOf(g, pair) == HopSeqs(KShortest(g, Core(pair[1]), Core(pair[2])))

TransitPairs(in) == {p \in Transits(in) \X Transits(in) : p[1] # p[2]}

\* A pair without a route is not in the map.
Routed(b) == RestrictValues(b, LAMBDA routes : routes # <<>>)

BaselineRoutes(in, pruned) ==
    LET g == BuildSplitGraph(in, pruned)
    IN Routed([p \in TransitPairs(in) |-> RoutesOf(g, p)])

(***************************************************************************)
(* Probe sets: the nearest measured nodes that have an ingress, closed     *)
(* under symmetry for the probers that have an ingress themselves.         *)
(***************************************************************************)
buildProbeSets(in) ==
    LET hasIngress(n) == Reach(in, n) # {}
        sampled(s) ==
            Nearest([d \in {x \in DOMAIN in.nodes \ {s} : hasIngress(x) /\ Measured(in, s, x) # {}} |->
                        bestQuality(in, s, d)], ProbeLimit)
    IN [s \in DOMAIN in.nodes |->
           {<<d, Reach(in, d)>> : d \in sampled(s) \cup
                {x \in DOMAIN in.nodes \ {s} : hasIngress(x) /\ s \in sampled(x)}}]

Roles(in) == [n \in DOMAIN in.nodes |-> IF n \in Transits(in) THEN "transit" ELSE "leaf"]

Optimize(in) ==
    LET pruned == Prune(in)
    IN [roles     |-> Roles(in),
        neighbors |-> Neighbors(in, pruned),
        baseline  |-> BaselineRoutes(in, pruned),
        probes    |-> buildProbeSets(in)]

(***************************************************************************)
(* The incremental optimizer.  An event is [edge, kind, w]; DEGRADED and   *)
(* RECOVERED are handled alike, by the weight they carry.                  *)
(***************************************************************************)
EdgeDelta == [edge : Links, kind : {"down"}, w : {0}]
             \cup [edge : Links, kind : {"weight"}, w : Weights]

ApplyDelta(qm, e) ==
    IF e.kind = "down" THEN Restrict(qm, DOMAIN qm \ {e.edge})
                       ELSE [l \in DOMAIN qm \cup {e.edge} |-> IF l = e.edge THEN e.w ELSE qm[l]]

ApplyDeltas(qm, events) ==
    LET acc[i \in 0..Len(events)] ==
            IF i = 0 THEN qm ELSE ApplyDelta(acc[i - 1], events[i])
    IN acc[Len(events)]

\* Rule 2 of dirtyPairs: an event that may make an edge cheaper, or creates one.
hasDecrease(events, oldQM) ==
    \E e \in Range(events) :
        e.kind = "weight" /\ (e.edge \in DOMAIN oldQM => e.w < oldQM[e.edge])

\* Rule 1: the edges that were deleted or made more expensive.
RaisedEdges(events, oldQM) ==
    {e.edge : e \in {x \in Range(events) :
        x.kind = "weight" => x.edge \in DOMAIN oldQM /\ x.w >= oldQM[x.edge]}}

\* The pruned edges a route of pair crosses.
Crossed(pair, hops) ==
    {<<IF i = 1 THEN pair[1] ELSE hops[i - 1][1], hops[i][1], hops[i][2]>> : i \in DOMAIN hops}

dirtyPairsFirstHop(in, baseline, events, oldQM) ==   \* mutant: looks at first hops only
    IF hasDecrease(events, oldQM) THEN TransitPairs(in)
    ELSE {p \in DOMAIN baseline : \E hops \in Range(baseline[p]) :
             <<p[1], hops[1][1], hops[1][2]>> \in RaisedEdges(events, oldQM)}

dirtyPairs(in, baseline, events, oldQM) ==
    IF hasDecrease(events, oldQM) THEN TransitPairs(in)
    ELSE {p \in DOMAIN baseline : \E hops \in Range(baseline[p]) :
             Crossed(p, hops) \cap RaisedEdges(events, oldQM) # {}}

incrementalKeepNeighbors(in, pruned, dirty, old) ==   \* mutant: same structure, same neighbours
    LET g == BuildSplitGraph(in, pruned)
        kept == {p \in TransitPairs(in) \ dirty : p \in DOMAIN old.baseline}
    IN [old EXCEPT !.probes = buildProbeSets(in),
                   !.baseline = Routed([p \in dirty \cup kept |->
                          IF p \in dirty THEN RoutesOf(g, p) ELSE old.baseline[p]])]

incrementalRecompute(in, pruned, dirty, old) ==
    LET g == BuildSplitGraph(in, pruned)
        kept == {p \in TransitPairs(in) \ dirty : p \in DOMAIN old.baseline}
    IN [roles     |-> Roles(in),
        neighbors |-> Neighbors(in, pruned),
        baseline  |-> Routed([p \in dirty \cup kept |->
                          IF p \in dirty THEN RoutesOf(g, p) ELSE old.baseline[p]]),
        probes    |-> buildProbeSets(in)]

(***************************************************************************)
(* samePrunedEdges compares the edges and leaves their weights aside.      *)
(***************************************************************************)
structureChanged(in, new) == Prune(in) # Prune(new)

TakesIncremental(in, new, old, events) ==
    /\ ~structureChanged(in, new)
    /\ 100 * Cardinality(dirtyPairs(new, old.baseline, events, in.qm))
          < DirtyPercent * Cardinality(TransitPairs(new)) \/ TransitPairs(new) = {}

ApplyEdgeEvents(in, old, events) ==
    LET new == [in EXCEPT !.qm = ApplyDeltas(@, events)]
    IN [input  |-> new,
        result |-> IF TakesIncremental(in, new, old, events)
                   THEN incrementalRecompute(new, Prune(new),
                            dirtyPairs(new, old.baseline, events, in.qm), old)
                   ELSE Optimize(new)]
=============================================================================
