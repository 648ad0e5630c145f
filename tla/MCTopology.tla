----------------------------- MODULE MCTopology -----------------------------
(***************************************************************************)
(* The topology service, as MCTopoService instantiates it, an incremental  *)
(* optimizer on a larger graph, or the pruning of a forwarding table; part *)
(* names the one that runs.                                                *)
(***************************************************************************)
EXTENDS MCTopoService, TopoIncremental, ForwardingTable

Sure(ks) == [sure |-> ks, reach |-> ks]

(***************************************************************************)
(* Four transits, the third with two ingresses, and a leaf.  Ring: 1, 2    *)
(* and 3 choose one another, nobody chooses 4, and paths cost the same at  *)
(* some weights.  Tie: of 2 to 4 the three paths after the first cost the  *)
(* same, and the loss of the direct link changes which of them Yen takes.  *)
(***************************************************************************)
SmallNodes == [n \in 1..5 |-> CASE n = 3 -> Sure({1, 2})
                               [] n = 5 -> Sure({})
                               [] OTHER -> Sure({1})]

SmallLinks == {<<1, 2, 1>>, <<2, 4, 1>>, <<5, 2, 1>>}

SmallStart ==
    {[nodes |-> SmallNodes,
      qm |-> (<<1, 2, 1>> :> v) @@ (<<2, 3, 1>> :> w) @@ (<<3, 1, 1>> :> 1) @@ (<<2, 1, 1>> :> 7)
                @@ (<<3, 2, 1>> :> 4) @@ (<<1, 3, 1>> :> 4) @@ (<<4, 3, 1>> :> 1)
                @@ (<<5, 2, 1>> :> 2) @@ (<<5, 1, 1>> :> 5)] :
        v, w \in {1, 6}}
    \cup
    {[nodes |-> [SmallNodes EXCEPT ![3] = Sure({1})],
      qm |-> (<<2, 3, 1>> :> 1) @@ (<<3, 4, 1>> :> 2) @@ (<<3, 1, 1>> :> 1) @@ (<<1, 4, 1>> :> 2)
                @@ (<<2, 1, 1>> :> 2) @@ (<<2, 4, 1>> :> 4) @@ (<<4, 2, 1>> :> 1) @@ (<<1, 2, 1>> :> 5)]}
-----------------------------------------------------------------------------
VARIABLE part

topologyVars == <<vars, incVars, fibVars, part>>

TopologyInit ==
    /\ part \in {"service", "incremental", "fib"}
    /\ Init
    /\ IF part = "incremental" THEN IncInit ELSE lastInput = 0 /\ lastResult = 0
    /\ IF part = "fib" THEN FibInit
       ELSE firsts = 0 /\ vips = 0 /\ fib = 0 /\ graph = 0 /\ fibStep = "done"

TopologyNext ==
    \/ part = "service" /\ Next /\ UNCHANGED <<incVars, fibVars, part>>
    \/ part = "incremental" /\ IncNext /\ UNCHANGED <<vars, fibVars, part>>
    \/ part = "fib" /\ FibNext /\ UNCHANGED <<vars, incVars, part>>

TopologyFairness ==
    /\ WF_vars(part = "service" /\ Tick)
    /\ WF_vars(part = "service" /\ MinIntervalElapsed)
    /\ \A n \in Node : /\ WF_vars(part = "service" /\ FinishReport(n))
                       /\ WF_vars(part = "service" /\ FetchConfig(n))

TopologySpec == TopologyInit /\ [][TopologyNext]_topologyVars /\ TopologyFairness

-----------------------------------------------------------------------------
\* The fast path changes the time it takes and, of routes that cost the same, which ones are
\* kept (incremental.go:19-21): else the result is that of Optimize, and its routes are
\* sound; and no forwarding table made of routes leads a packet in a circle (fib.go, dag.go).
ResultsSound ==
    /\ part = "incremental" => SameButTies /\ RoutesSound
    /\ part = "fib" => FibSound
=============================================================================
