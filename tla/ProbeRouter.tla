---------------------------- MODULE ProbeRouter ----------------------------
(***************************************************************************)
(* How the nodes choose the first hop to a target by probing:              *)
(*   internal/nodecore/proberouter/router.go, enum.go                      *)
(*   internal/nodecore/dataplane/dataplane.go    the frames of a probe     *)
(*   internal/nodecore/nodestore/store.go        the routes it restarts on *)
(*   cmd/corelink-node/main.go                   how they are put together *)
(*                                                                         *)
(* One target.  A round copies the peers, probes without a lock, and then  *)
(* applies what it found to whatever the node has become; the routes it    *)
(* broadcasts on the way (RouteSync) are how two nodes that would send to  *)
(* the target through each other notice.                                   *)
(*                                                                         *)
(* Delays are in tenths of a millisecond.  Every probe of a round sees the *)
(* links as they are when the round starts.                                *)
(***************************************************************************)
EXTENDS Integers, Sequences, FiniteSets

CONSTANTS
    ProbeNodes,     \* all nodes
    Routers,        \* the nodes whose router is modelled
    ProbeTarget,
    VipOrder,       \* the order of the virtual addresses (netip.Addr.Compare)
    LinkDelays,     \* the delay of every link while it is up
    NoNode,
    ChangingLinks,  \* the links that go down and come back
    MaxLinkChanges, MaxDisturbances  \* bounds: the second on new peers, restarts and lost frames

NodePairs == {p \in SUBSET ProbeNodes : Cardinality(p) = 2}

ASSUME ProbeAssumption ==
    /\ ProbeTarget \in ProbeNodes \ Routers /\ Routers \subseteq ProbeNodes
    /\ NoNode \notin ProbeNodes
    /\ VipOrder \in [ProbeNodes -> Nat] /\ LinkDelays \in [NodePairs -> Nat \ {0}]
    /\ ChangingLinks \subseteq NodePairs
    /\ \A m, n \in ProbeNodes : VipOrder[m] = VipOrder[n] => m = n

VARIABLES
    down,        \* the links that are down
    peers,       \* the peers of the configuration (ProbeRouter.peers)
    round,       \* a round under way: what its probes found
    best,        \* the route chosen (ProbeRouter.best)
    rankedHops,  \* the first hops the data plane tries, each with its delay
    maxHops,     \* length of the route chosen (Agent.maxRouteHops)
    peerRoutes,  \* what each peer broadcast last (ProbeRouter.peerRoutes)
    syncs,       \* RouteSync frames under way
    savedHop,    \* the row of the target in node.db
    probeBounds

routerVars == <<peers, round, best, rankedHops, maxHops, peerRoutes, savedHop>>
probeVars == <<down, routerVars, syncs, probeBounds>>

NoRound == [running |-> FALSE, hasTarget |-> FALSE, found |-> {}]
NoBest == [hop |-> NoNode, delay |-> 0, route |-> <<>>, stale |-> FALSE]
NoEntry == [hop |-> NoNode, ms |-> 0]

ProbeInit ==
    /\ down = {}
    /\ peers = [n \in Routers |-> ProbeNodes \ {n}]
    /\ round = [n \in Routers |-> NoRound]
    /\ best = [n \in Routers |-> NoBest]
    /\ rankedHops = [n \in Routers |-> {}]
    /\ maxHops = [n \in Routers |-> 3]
    /\ peerRoutes = [n \in Routers |-> [m \in ProbeNodes |-> NoEntry]]
    /\ syncs = {} /\ savedHop = [n \in Routers |-> NoNode]
    /\ probeBounds = [links |-> 0, others |-> 0]

----------------------------------------------------------------------------
(* Probes.                                                                  *)

\* The first of the hops a node can reach (ReachableHops, whose order is that of a map
\* and is kept until the links change).
Linked(m, dn) == {n \in ProbeNodes \ {m} : {m, n} \notin dn}
FirstReachable(m, dn) == {n \in Linked(m, dn) : \A o \in Linked(m, dn) : VipOrder[n] <= VipOrder[o]}

\* How long a frame takes from m to n, over their link or, where the sender may, over the
\* first hop it can reach; 0 when it does not arrive (sendProbeFrame).
sendProbeFrame(m, n, noRelay, dn) ==
    IF m = n \/ ({m, n} \in dn /\ noRelay) THEN 0
    ELSE IF {m, n} \notin dn THEN LinkDelays[{m, n}]
    ELSE IF \E r \in FirstReachable(m, dn) : {r, n} \notin dn
    THEN LET r == CHOOSE r \in FirstReachable(m, dn) : TRUE
         IN  LinkDelays[{m, r}] + LinkDelays[{r, n}]
    ELSE 0

\* The delay from n to the k-th hop of a route: the first hop may be reached over a
\* relay, the next ones may not (HandleProbeFrame).
Forward(n, route, dn) ==
    LET leg(i) == sendProbeFrame(IF i = 1 THEN n ELSE route[i - 1], route[i], i > 1, dn)
        upTo[k \in 0 .. Len(route)] ==
            IF k = 0 THEN 0
            ELSE IF leg(k) = 0 \/ (k > 1 /\ upTo[k - 1] = 0) THEN 0 ELSE upTo[k - 1] + leg(k)
    IN  upTo

\* The hops that answer, each with its round trip (SendProbeAll).
SendProbeAll(n, route, dn) ==
    LET there == Forward(n, route, dn)
        back(k) == sendProbeFrame(route[k], n, FALSE, dn)
    IN  {[hop |-> k, delay |-> there[k] + back(k)] :
            k \in {k \in 1 .. Len(route) : there[k] > 0 /\ back(k) > 0}}

\* The routes to the target over at most two of the other nodes (enumRoutes).
enumRoutes(n) ==
    LET others == ProbeNodes \ {n, ProbeTarget}
    IN  {<<ProbeTarget>>} \cup {<<v, ProbeTarget>> : v \in others}
        \cup {<<v[1], v[2], ProbeTarget>> : v \in {v \in others \X others : v[1] # v[2]}}

\* What a round finds: of a route the answer of the farthest hop counts, whichever hop
\* that is.
probeTargetRanked(n, dn) ==
    UNION {LET answers == SendProbeAll(n, route, dn)
           IN  {[hop |-> route[1], route |-> route, delay |-> a.delay, far |-> route[a.hop]] :
                    a \in {a \in answers : \A o \in answers : o.hop <= a.hop}} :
           route \in enumRoutes(n)}

\* The same, worked out once for every state of the links.
ProbeResults ==
    {[node |-> n, down |-> dn, found |-> probeTargetRanked(n, dn)] : n \in Routers, dn \in SUBSET ChangingLinks}

Found(n) == (CHOOSE r \in ProbeResults : r.node = n /\ r.down = down).found

Nearest(found) == {r \in found : \A o \in found : r.delay <= o.delay}

----------------------------------------------------------------------------
(* Rounds (Run, probeAndApply).                                             *)

\* SetPeers, from the configuration: with the target, without it, or without anyone.
SetPeers(n) ==
    /\ probeBounds.others < MaxDisturbances
    /\ \E ps \in {ProbeNodes \ {n}, ProbeNodes \ {n, ProbeTarget}, {}} \ {peers[n]} :
           peers' = [peers EXCEPT ![n] = ps]
    /\ probeBounds' = [probeBounds EXCEPT !.others = @ + 1]
    /\ UNCHANGED <<down, round, best, rankedHops, maxHops, peerRoutes, syncs, savedHop>>

\* A round starts on the ticker, which may fire at any time, or on a signal: the signals
\* there are (triggerCh) make no difference to what may happen.
StartRound(n) ==
    /\ ~round[n].running /\ peers[n] # {}
    /\ round' = [round EXCEPT ![n] =
         [running |-> TRUE, hasTarget |-> ProbeTarget \in peers[n],
          found |-> IF ProbeTarget \in peers[n] THEN Found(n) ELSE {}]]
    /\ UNCHANGED <<down, peers, best, rankedHops, maxHops, peerRoutes, syncs, savedHop, probeBounds>>

Abs(x) == IF x < 0 THEN -x ELSE x

\* The routes hysteresis keeps: the present first hop, unless its delay moved by more
\* than a quarter or another route is better by more than a twentieth.
Kept(n, found, first) ==
    LET cur == best[n]
        same == Nearest({r \in found : r.hop = cur.hop})
    IN  IF cur.hop = NoNode \/ cur.stale \/ cur.delay = 0 THEN {first}
        ELSE {IF 4 * Abs(r.delay - cur.delay) > cur.delay \/ 20 * first.delay < 19 * r.delay
              THEN first ELSE r : r \in same} \cup (IF same = {} THEN {first} ELSE {})

Chosen(r) == [hop |-> r.hop, delay |-> r.delay, route |-> r.route, stale |-> FALSE]

\* On the wire a delay is a whole number of milliseconds (EncodeProbePayload).
Milliseconds(d) == d \div 10

\* A comparison without the order of the addresses.
iYieldNoTie(n, sel, entry) == sel.delay > 10 * entry.ms

\* Whether it is this node that gives way: its delay, against the one it was told.
iYield(n, sel, entry) ==
    \/ sel.delay > 10 * entry.ms
    \/ sel.delay = 10 * entry.ms /\ VipOrder[n] > VipOrder[sel.hop]

\* checkLoopAndYield: the routes a node settles on when the peer it chose has announced
\* that it goes through this node.  A yielded route's label matches none (route <<>>).
checkLoopAndYield(n, sel, found, first) ==
    LET entry == peerRoutes[n][sel.hop]
        others == {r \in found \ {first} : r.hop # sel.hop}
    IN  IF sel.hop # ProbeTarget /\ entry.hop = n /\ iYield(n, sel, entry) /\ others # {}
        THEN {[Chosen(r) EXCEPT !.route = <<>>] : r \in Nearest(others)}
        ELSE {sel}

\* broadcastOneRoute: before it is known whether the node gives way.  The last one stands
\* for those before it that are still under way.
Broadcast(n, sel) ==
    {[from |-> n, to |-> m, hop |-> sel.hop, ms |-> Milliseconds(sel.delay)] : m \in Routers \ {n}}

\* SetRankedHops: the first hops, in the order of their nearest route.
Ranked(found) ==
    {[hop |-> r.hop, delay |-> r.delay, far |-> r.far] :
        r \in {r \in found : r \in Nearest({o \in found : o.hop = r.hop})}}

\* A data plane that keeps the hops it has when the round found none.
AppliedKeeping(n, b, ranked) ==
    /\ best' = [best EXCEPT ![n] = b]
    /\ rankedHops' = [rankedHops EXCEPT ![n] = IF ranked = {} THEN @ ELSE ranked]
    /\ maxHops' = [maxHops EXCEPT ![n] = IF Len(b.route) > 1 /\ ~b.stale THEN Len(b.route) ELSE 1]
    /\ savedHop' = [savedHop EXCEPT ![n] = IF b.hop = NoNode THEN @ ELSE b.hop]
    /\ round' = [round EXCEPT ![n] = NoRound]

\* What one round leaves in the node, and in node.db where routes are only written over.
Applied(n, b, ranked) ==
    /\ best' = [best EXCEPT ![n] = b]
    /\ rankedHops' = [rankedHops EXCEPT ![n] = ranked]
    /\ maxHops' = [maxHops EXCEPT ![n] = IF Len(b.route) > 1 /\ ~b.stale THEN Len(b.route) ELSE 1]
    /\ savedHop' = [savedHop EXCEPT ![n] = IF b.hop = NoNode THEN @ ELSE b.hop]
    /\ round' = [round EXCEPT ![n] = NoRound]

\* Without an answer the route of the last round is kept as a stale one.
FinishRound(n) ==
    /\ round[n].running
    /\ LET found == round[n].found
       IN  \/ /\ found = {}
              /\ Applied(n, IF round[n].hasTarget /\ best[n] # NoBest
                            THEN [best[n] EXCEPT !.stale = TRUE] ELSE NoBest, {})
              /\ UNCHANGED syncs
           \/ \E first \in Nearest(found) :
                \E r \in Kept(n, found, first) :
                  /\ \E b \in checkLoopAndYield(n, Chosen(r), found, first) : Applied(n, b, Ranked(found))
                  /\ syncs' = {s \in syncs : s.from # n} \cup Broadcast(n, Chosen(r))
    /\ UNCHANGED <<down, peers, peerRoutes, probeBounds>>

\* ReceiveRouteSync.
ReceiveRouteSync(s) ==
    /\ syncs' = syncs \ {s}
    /\ peerRoutes' = [peerRoutes EXCEPT ![s.to][s.from] = [hop |-> s.hop, ms |-> s.ms]]
    /\ UNCHANGED <<down, peers, round, best, rankedHops, maxHops, savedHop, probeBounds>>

SyncLost(s) ==
    /\ probeBounds.others < MaxDisturbances
    /\ syncs' = syncs \ {s}
    /\ probeBounds' = [probeBounds EXCEPT !.others = @ + 1]
    /\ UNCHANGED <<down, routerVars>>

\* A node starts on the route it saved (setupNodeCore).
RestartRouter(n) ==
    /\ probeBounds.others < MaxDisturbances
    /\ probeBounds' = [probeBounds EXCEPT !.others = @ + 1]
    /\ round' = [round EXCEPT ![n] = NoRound] /\ best' = [best EXCEPT ![n] = NoBest]
    /\ peerRoutes' = [peerRoutes EXCEPT ![n] = [m \in ProbeNodes |-> NoEntry]]
    /\ maxHops' = [maxHops EXCEPT ![n] = 3]
    /\ rankedHops' = [rankedHops EXCEPT ![n] =
            IF savedHop[n] = NoNode THEN {} ELSE {[hop |-> savedHop[n], delay |-> 0, far |-> ProbeTarget]}]
    /\ UNCHANGED <<down, peers, syncs, savedHop>>

LinkChanges(p) ==
    /\ probeBounds.links < MaxLinkChanges
    /\ down' = IF p \in down THEN down \ {p} ELSE down \cup {p}
    /\ probeBounds' = [probeBounds EXCEPT !.links = @ + 1]
    /\ UNCHANGED <<routerVars, syncs>>

SyncStep(n) == \E s \in syncs : s.from = n /\ ReceiveRouteSync(s)
RoundStep(n) == StartRound(n) \/ FinishRound(n)
RouterStep == \E n \in Routers : RoundStep(n) \/ SyncStep(n)

ProbeNext ==
    \/ RouterStep
    \/ \E n \in Routers : SetPeers(n) \/ RestartRouter(n)
    \/ \E s \in syncs : SyncLost(s)
    \/ \E p \in ChangingLinks : LinkChanges(p)

\* The ticker of Run fires again and again, and a round ends.
ProbeFairness ==
    \A n \in Routers : WF_probeVars(RoundStep(n)) /\ WF_probeVars(SyncStep(n))

ProbeSpec == ProbeInit /\ [][ProbeNext]_probeVars
ProbeFairSpec == ProbeSpec /\ ProbeFairness

----------------------------------------------------------------------------
(* Properties.                                                              *)

RouteType(n) == [hop : (ProbeNodes \ {n}) \cup {NoNode}, delay : Nat, route : Seq(ProbeNodes), stale : BOOLEAN]

ProbeTypeOK ==
    /\ down \subseteq ChangingLinks
    /\ \A n \in Routers :
        /\ peers[n] \subseteq ProbeNodes /\ best[n] \in RouteType(n)
        /\ \A r \in rankedHops[n] : r.hop \in ProbeNodes \ {n} /\ r.delay \in Nat /\ r.far \in ProbeNodes
        /\ maxHops[n] \in 1 .. 3 /\ savedHop[n] \in ProbeNodes \cup {NoNode}
    /\ \A s \in syncs : s.from \in Routers /\ s.to \in Routers

\* Two nodes that reach the target through each other.
Mutual(m, n) == best[m].hop = n /\ best[n].hop = m /\ ~best[m].stale /\ ~best[n].stale

HasOther(m, n) == \E o \in ProbeNodes \ {m, n, ProbeTarget} : o \in Linked(m, down)

\* A node without a peer probes nothing and keeps the hops it had (router.go:198-200).
Probes(n) == peers[n] # {}

\* Two nodes do not go on choosing each other: when they have another peer to go through,
\* the announcements make one of them give way, whatever changed or was lost before
\* (checkLoopAndYield).
MutualEnds ==
    \A m, n \in Routers :
        VipOrder[m] < VipOrder[n] =>
            ~<>[](Mutual(m, n) /\ Probes(m) /\ Probes(n) /\ HasOther(m, n) /\ HasOther(n, m))

\* Whatever round was under way when the configuration lost the target, the data plane
\* comes to have no hops for it.
RoutesFollowPeers ==
    \A n \in Routers :
        <>[](ProbeTarget \notin peers[n] /\ Probes(n)) => <>[](rankedHops[n] = {} /\ best[n] = NoBest)
=============================================================================
