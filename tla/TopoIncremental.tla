-------------------------- MODULE TopoIncremental --------------------------
(***************************************************************************)
(* The IncrementalOptimizer of internal/controller/topology/incremental.go *)
(* as a state machine: it keeps the last input and the last result, and    *)
(* batches of edge events move both.  The file promises that the result    *)
(* never differs from what Optimize makes of the new input (the iron law   *)
(* of incremental.go:19-21); it may, in which of the routes that cost the  *)
(* same are the K that are kept, and in nothing else.                      *)
(***************************************************************************)
EXTENDS TopoOptimizer

CONSTANTS
    Start,          \* the inputs a baseline may be established from
    MaxBatch        \* bound: events of one batch

ASSUME BatchAssumption == MaxBatch \in Nat /\ \A in \in Start : IsInput(in)

-----------------------------------------------------------------------------
VARIABLES
    lastInput,      \* IncrementalOptimizer.lastInput
    lastResult      \* IncrementalOptimizer.lastResult

incVars == <<lastInput, lastResult>>

IncInit ==
    /\ lastInput \in Start
    /\ lastResult = Optimize(lastInput)

Batch == UNION {[1..n -> EdgeDelta] : n \in 1..MaxBatch}

Apply(events) ==
    LET o == ApplyEdgeEvents(lastInput, lastResult, events)
    IN lastInput' = o.input /\ lastResult' = o.result

IncNext == \E events \in Batch : Apply(events)

IncSpec == IncInit /\ [][IncNext]_incVars

-----------------------------------------------------------------------------
(***************************************************************************)
(* Properties.                                                             *)
(***************************************************************************)

\* What a route costs at the present weights.
RouteWeight(p, hops) ==
    LET from(i) == IF i = 1 THEN p[1] ELSE hops[i - 1][1]
        w[i \in 0..Len(hops)] ==
            IF i = 0 THEN 0 ELSE w[i - 1] + EdgeW(lastInput, from(i), hops[i][1], hops[i][2])
    IN w[Len(hops)]

\* Whichever path ApplyEdgeEvents takes, its result is what Optimize makes of the new input
\* but for the choice among routes that cost the same (incremental.go:19-21): the
\* same roles, neighbours and probe targets, and for every pair as many routes, the first as
\* dear as the first, the second as the second.  The hazard is a route kept from the cache
\* that the new weights make dearer than one it could be replaced with.
SameButTies ==
    LET full == Optimize(lastInput)
    IN  /\ lastResult = [full EXCEPT !.baseline = lastResult.baseline]
        /\ DOMAIN lastResult.baseline = DOMAIN full.baseline
        /\ \A p \in DOMAIN full.baseline :
              /\ DOMAIN lastResult.baseline[p] = DOMAIN full.baseline[p]
              /\ \A i \in DOMAIN full.baseline[p] :
                    RouteWeight(p, lastResult.baseline[p][i]) = RouteWeight(p, full.baseline[p][i])

Walkable(p, hops) ==
    /\ hops[Len(hops)][1] = p[2]
    /\ Cardinality({hops[i][1] : i \in DOMAIN hops} \cup {p[1]}) = Len(hops) + 1
    /\ \A c \in Crossed(p, hops) :
          \E nb \in lastResult.neighbors[c[1]] : nb[1] = c[2] /\ c[3] \in nb[2]

\* Whichever path the routes came by, traffic flows both ways or not at all (prune.go:26-29)
\* although each side picks its top peers alone; a route ends at its destination, visits
\* no node twice and goes on from every hop to a neighbour, through an ingress, that the
\* hop was given too, although routes and neighbours are computed apart; and the first of
\* the routes of a pair is never dearer than the others at their present weights.
RoutesSound ==
    \A p \in DOMAIN lastResult.baseline :
        LET routes == lastResult.baseline[p]
        IN  /\ <<p[2], p[1]>> \in DOMAIN lastResult.baseline
            /\ \A i \in DOMAIN routes : Walkable(p, routes[i])
            /\ \A i, j \in DOMAIN routes :
                  i < j => RouteWeight(p, routes[i]) <= RouteWeight(p, routes[j])
=============================================================================
