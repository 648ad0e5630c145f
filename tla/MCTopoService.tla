--------------------------- MODULE MCTopoService ----------------------------
(***************************************************************************)
(* Instances of TopoService for TLC: two nodes with one ingress each, of   *)
(* which one reports quality and events, and the optimizer of the          *)
(* controller, evaluated once for every input of the instance.             *)
(***************************************************************************)
EXTENDS TopoService

OneLink == {<<1, 2, 1>>}

Opt == INSTANCE TopoOptimizer WITH
    TopoNode <- Node, TopoIngress <- Ingress, MaxPeers <- 1, IngressK <- 1, RouteK <- 2,
    LeafUplinks <- 1, ProbeLimit <- 1, DirtyPercent <- 60, Links <- OneLink, Weights <- {3}

TwoReports == {[sure |-> {1}, ings |-> {1}], [sure |-> {}, ings |-> {1}]}
OneSample  == {<<2, 1>> :> 5}

AllLimits ==
    [ingress |-> 2, quality |-> 1, event |-> 1, restart |-> 1, nodeRestart |-> 1]

\* Two nodes report, and the controller restarts.
RestartLimits ==
    [ingress |-> 2, quality |-> 0, event |-> 0, restart |-> 1, nodeRestart |-> 0]

Partial(S, T) == UNION {[D -> T] : D \in SUBSET S}

Inputs ==
    [nodes : Partial(Node, [sure : SUBSET Ingress, reach : SUBSET Ingress]),
     qm    : Partial(OneLink, {3, 5})]

\* Joined to the empty function, TLC keeps it as a table.
Results == <<>> @@ [in \in Inputs |-> Opt!Optimize(in)]

OptimizeTable(in) == Results[in]

\* What the proofs assume of the optimizer.
ASSUME OptimizerFits == \A in \in Inputs : RolesFit(OptimizeTable(in))

OptDeltas == Opt!EdgeDelta
OptApplyDeltas(qm, events) == Opt!ApplyDeltas(qm, events)
=============================================================================
