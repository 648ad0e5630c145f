--------------------------- MODULE MCNodeServices ---------------------------
(***************************************************************************)
(* Instances, for TLC, of the services a node runs in the background and   *)
(* that share no state: link probing, the probe router, the choice of a    *)
(* relay, the failover between the control plane's endpoints and the port  *)
(* mappings.  A behaviour is one of exactly one of them, which part names; *)
(* the others stay in their initial states.                                *)
(***************************************************************************)
EXTENDS LinkProbe, ProbeRouter, RelaySelector, Failover, Portmap, TLC

CONSTANTS pa, pb, pc, pd,   \* nodes of ProbeRouter
          d1, r1,           \* links of LinkProbe
          ra, rb, rc        \* candidates of RelaySelector

VARIABLE part

serviceVars == <<linkVars, probeVars, selVars, foVars, pmVars, part>>

ServiceInit ==
    /\ LinkInit /\ ProbeInit /\ SelInit /\ PmInit /\ FoInit
    /\ part \in {"links", "routes", "relay", "failover", "portmap"}
    /\ part # "failover" => deaf = {}
    /\ part # "links" => fsmConfig = DefaultLinkConfig

ServiceNext ==
    \/ part = "links"    /\ LinkNext  /\ UNCHANGED <<probeVars, selVars, foVars, pmVars, part>>
    \/ part = "routes"   /\ ProbeNext /\ UNCHANGED <<linkVars, selVars, foVars, pmVars, part>>
    \/ part = "relay"    /\ SelNext   /\ UNCHANGED <<linkVars, probeVars, foVars, pmVars, part>>
    \/ part = "failover" /\ FoNext    /\ UNCHANGED <<linkVars, probeVars, selVars, pmVars, part>>
    \/ part = "portmap"  /\ PmNext    /\ UNCHANGED <<linkVars, probeVars, selVars, foVars, part>>

\* The fairness of each service, while it is the one that runs.
ServiceFairness ==
    /\ WF_linkVars(part = "links" /\ DirectStart) /\ WF_linkVars(part = "links" /\ Tick)
    /\ WF_linkVars(part = "links" /\ TimePasses)
    /\ WF_linkVars(part = "links" /\ ProbeLoopStep("direct"))
    /\ WF_linkVars(part = "links" /\ EventArrives("direct"))
    /\ \A n \in Routers : /\ WF_probeVars(part = "routes" /\ RoundStep(n))
                          /\ WF_probeVars(part = "routes" /\ SyncStep(n))
    /\ WF_selVars(part = "relay" /\ TickStep)
    /\ WF_foVars(part = "failover" /\ LoopStep) /\ WF_foVars(part = "failover" /\ PollStep)
    /\ WF_pmVars(part = "portmap" /\ RaceStep) /\ WF_pmVars(part = "portmap" /\ MapTickStep)

ServiceSpec == ServiceInit /\ [][ServiceNext]_serviceVars /\ ServiceFairness

-----------------------------------------------------------------------------
(* The instance.                                                           *)

\* Three nodes reach the fourth; the links of two of them to it come and go.
ByLetter  == (pa :> 1) @@ (pb :> 2) @@ (pc :> 3) @@ (pd :> 4)
Flaky     == {{pa, pd}, {pb, pd}}
SixDelays == ({pa, pb} :> 10) @@ ({pa, pc} :> 12) @@ ({pb, pc} :> 13)
             @@ ({pc, pd} :> 11) @@ ({pa, pd} :> 15) @@ ({pb, pd} :> 16)

ThreeRelays == <<ra, rb, rc>>

\* The thresholds of the library and those of the program.
BothConfigs == {DefaultLinkConfig, ProductionLinkConfig}

-----------------------------------------------------------------------------
(* Properties.                                                             *)

ServiceTypeOK ==
    /\ part = "links" => LinkTypeOK
    /\ part = "routes" => ProbeTypeOK
    /\ part = "relay" => SelTypeOK
    /\ part = "failover" => FoTypeOK
    /\ part = "portmap" => PmTypeOK

\* What others hold of the node is what it knows of: the controller the state of a link,
\* but for reports that were lost, the gateway no mapping that a race won and forgot
\* (Reporter.OnProbe, Reporter.Tick; portmap.go:277-297).
OthersAgree ==
    /\ part = "links" => ControllerKnowsState
    /\ part = "portmap" => LosersRemoved

\* What the network and the configuration have become for good is what a node comes to
\* believe: of its links (Reporter), of who leads to whom (checkLoopAndYield), and of the
\* peers its routes may use (probeAndApply against SetPeers).  And what it has lost it gets
\* back while something is there to replace it: the channel to the control plane and the
\* better endpoint (failover.go), a relay that answers (Selector.Tick), a port mapping
\* (Lifecycle.Tick).
ServicesConverge ==
    /\ LinksSettle /\ MutualEnds /\ RoutesFollowPeers
    /\ <>[](part # "failover") \/ (StaysConnected /\ ReturnsToBetter)
    /\ LeavesDeadRelay /\ LostIsRebuilt
=============================================================================
