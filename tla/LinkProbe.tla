----------------------------- MODULE LinkProbe -----------------------------
(***************************************************************************)
(* How a node watches the links to its neighbours and what the controller  *)
(* learns of them:                                                         *)
(*   internal/nodecore/probe/linkstate_machine.go   one machine per link   *)
(*   internal/nodecore/probe/report.go, relay_probe.go, tcp_prober.go      *)
(*   cmd/corelink-node/main.go                      the two probe loops    *)
(*   internal/controller/ingress/receiver.go        what is kept of a      *)
(*                                                  report                 *)
(*                                                                         *)
(* The loop of the direct links and the loop over the relays share the     *)
(* reporter.  A result is fed to the machine under the reporter's lock and *)
(* the event it makes is sent after it, so the two are separate steps.     *)
(*                                                                         *)
(* Round-trip times are small integers, 0 the time of a probe that failed; *)
(* the smoothed baseline is any value between the old one and the sample.  *)
(* Time is the age of the timers, each up to the value it is compared      *)
(* with.  The prober measures no loss: it is always 0.                     *)
(***************************************************************************)
EXTENDS Integers, FiniteSets

CONSTANTS
    DirectLinks,   \* pairs of a neighbour and one of its entries, as in probe_targets
    RelayLinks,    \* pairs of a neighbour and a relay (MultiRelayProber)
    NoLink,
    Rtts,          \* round-trip times
    LinkConfigs,   \* the values of ReporterConfig.FSM, below
    MinQuiet,      \* QualityDamping.MinInterval, in steps of time
    RttThreshold,  \* QualityDamping.RTTThreshold
    MaxLinkFaults,   \* bound on changes of a path and lost reports together
    MaxTargetChanges

Links == DirectLinks \cup RelayLinks

\* LinkFSMConfig as DefaultLinkFSMConfig gives it, but for smaller numbers, and as the
\* program has it: runNode leaves the field out of the ReporterConfig, whose zeros let
\* no link recover (the loss of a probe, 0, is not below 0).  Losses are levels: 0 below
\* the one that recovers, 2 above the one that degrades.
DefaultLinkConfig == [downConfirm |-> 2, hold |-> 1, recover |-> 1,
                      degradeLoss |-> 1, recoverLoss |-> 1, factors |-> TRUE, smooth |-> TRUE]
ProductionLinkConfig == [downConfirm |-> 0, hold |-> 0, recover |-> 0,
                         degradeLoss |-> 0, recoverLoss |-> 0, factors |-> FALSE, smooth |-> FALSE]

ASSUME LinkAssumption ==
    /\ Rtts \subseteq Nat \ {0} /\ NoLink \notin Links /\ DirectLinks \cap RelayLinks = {}
    /\ LinkConfigs \subseteq [downConfirm : Nat, hold : Nat, recover : Nat,
                             degradeLoss : Nat, recoverLoss : Nat, factors : BOOLEAN, smooth : BOOLEAN]
    /\ MinQuiet \in Nat /\ RttThreshold \in Nat

VARIABLES
    fsmConfig,  \* the thresholds of the machines (Reporter.cfg.FSM)
    targets,    \* the direct links the node has been told to probe
    path,       \* the round-trip time of a link, 0 while it is down
    machine,    \* the machine of each link that has one (Reporter.fsms)
    sample,     \* the last result (Reporter.samples)
    reported,   \* the result last reported (Reporter.lastReported)
    activeLinks, \* the links of the last SetTargets (Reporter.targets)
    quiet,      \* time since the last quality report
    prober,     \* the loop of the direct links and the loop over the relays:
                \* links to probe, link and event to send
    view,       \* controller: the last event it received of a link
    reportedQuality, \* controller: the links of the last quality report and their results
    missed,     \* links about which the controller was not told of a change
    linkBounds

reporterVars == <<machine, sample, reported, activeLinks>>
linkVars == <<fsmConfig, targets, path, reporterVars, quiet, prober, view, reportedQuality, missed, linkBounds>>

NoTimer == -1
NoResult == -1
Empty == [l \in {} |-> 0]
Resting == [phase |-> "rest", todo |-> {}, link |-> NoLink, event |-> "none"]

LinkInit ==
    /\ fsmConfig \in LinkConfigs
    /\ targets = {} /\ path = [l \in Links |-> 0]
    /\ machine = Empty /\ sample = Empty /\ reported = Empty /\ activeLinks = {}
    /\ quiet = MinQuiet
    /\ prober = [loop \in {"direct", "relay"} |-> Resting]
    /\ view = [l \in Links |-> "Healthy"] /\ reportedQuality = Empty /\ missed = {}
    /\ linkBounds = [faults |-> 0, targets |-> 0]

Within(f, ls) == [l \in DOMAIN f \cap ls |-> f[l]]
With(f, l, v) == [k \in DOMAIN f \cup {l} |-> IF k = l THEN v ELSE f[k]]

----------------------------------------------------------------------------
(* The machine of a link.                                                   *)

NewMachine == [state |-> "Healthy", fails |-> 0, base |-> 0,
               degrading |-> NoTimer, recovering |-> NoTimer]

MachineOf(l) == IF l \in DOMAIN machine THEN machine[l] ELSE NewMachine

ToDown(m) == m.fails + 1 >= fsmConfig.downConfirm

ObserveFail(m) ==
    [m EXCEPT !.fails = IF ToDown(m) THEN fsmConfig.downConfirm ELSE @ + 1,
              !.recovering = NoTimer,
              !.degrading = IF ToDown(m) THEN NoTimer ELSE @,
              !.state = IF ToDown(m) THEN "Down" ELSE @]

IsDegradeTrigger(m, rtt) ==
    \/ 0 > fsmConfig.degradeLoss
    \/ fsmConfig.factors /\ 2 * rtt > 3 * m.base

IsRecoverTrigger(m, rtt) ==
    /\ 0 < fsmConfig.recoverLoss
    /\ fsmConfig.factors => 5 * rtt <= 6 * m.base

\* The values the smoothed baseline may take (updateBaseline).
Smoothed(m, rtt) ==
    IF m.state = "Healthy" /\ fsmConfig.smooth /\ ~IsDegradeTrigger(m, rtt)
    THEN {b \in 1 .. (m.base + rtt) : b \in m.base .. rtt \cup rtt .. m.base}
    ELSE {m.base}

Started(timer) == IF timer = NoTimer THEN 0 ELSE timer

ObserveHealthy(m, rtt, b) ==
    IF ~IsDegradeTrigger(m, rtt) THEN [m EXCEPT !.degrading = NoTimer, !.base = b]
    ELSE IF Started(m.degrading) >= fsmConfig.hold
    THEN [m EXCEPT !.state = "Degraded", !.degrading = NoTimer, !.recovering = NoTimer]
    ELSE [m EXCEPT !.degrading = Started(@)]

\* A timer that starts anew with every good sample.
ObserveUnhealthyRestarting(m, rtt) ==
    IF ~IsRecoverTrigger(m, rtt) \/ fsmConfig.recover > 0 THEN [m EXCEPT !.recovering = 0]
    ELSE [m EXCEPT !.state = "Healthy", !.recovering = NoTimer, !.base = rtt]

ObserveUnhealthy(m, rtt) ==
    IF ~IsRecoverTrigger(m, rtt) THEN [m EXCEPT !.recovering = NoTimer]
    ELSE IF Started(m.recovering) >= fsmConfig.recover
    THEN [m EXCEPT !.state = "Healthy", !.degrading = NoTimer, !.recovering = NoTimer, !.base = rtt]
    ELSE [m EXCEPT !.recovering = Started(@)]

\* The first successful sample is the baseline.
Succeeded(m, rtt) == [m EXCEPT !.fails = 0, !.base = IF @ = 0 THEN rtt ELSE @]

\* The machines a result may leave (Observe).
Observe(m, rtt) ==
    IF rtt = 0 THEN {ObserveFail(m)}
    ELSE LET s == Succeeded(m, rtt)
         IN  IF m.state = "Healthy" THEN {ObserveHealthy(s, rtt, b) : b \in Smoothed(s, rtt)}
             ELSE {ObserveUnhealthy(s, rtt)}

----------------------------------------------------------------------------
(* The loops (driveProbeLoop, MultiRelayProber.Run) and the reporter.       *)

\* The direct loop first makes the targets the active ones (SetTargets): of a link that
\* is not among them nothing is kept.
DirectStart ==
    /\ prober["direct"].phase = "rest"
    /\ activeLinks' = targets
    /\ prober' = [prober EXCEPT !["direct"].phase = "probe", !["direct"].todo = targets]
    /\ machine' = Within(machine, targets)
    /\ sample' = Within(sample, targets) /\ reported' = Within(reported, targets)
    /\ missed' = missed \cup {l \in DOMAIN machine \ targets :
                               view[l] # "Healthy" \/ machine[l].state # "Healthy"}
    /\ UNCHANGED <<fsmConfig, targets, path, quiet, view, reportedQuality, linkBounds>>

RelayStart ==
    /\ prober["relay"].phase = "rest" /\ RelayLinks # {}
    /\ prober' = [prober EXCEPT !["relay"].phase = "probe", !["relay"].todo = RelayLinks]
    /\ UNCHANGED <<fsmConfig, targets, path, reporterVars, quiet, view, reportedQuality, missed, linkBounds>>

\* A result that is kept to itself when it brings a link back.
OnProbeQuiet(loop, l) ==
    /\ prober[loop].phase = "probe" /\ prober[loop].link = NoLink /\ l \in prober[loop].todo
    /\ \E m \in Observe(MachineOf(l), path[l]) :
        /\ machine' = With(machine, l, m)
        /\ LET changed == m.state # MachineOf(l).state /\ m.state # "Healthy"
           IN  prober' = [prober EXCEPT ![loop].todo = @ \ {l},
                                        ![loop].link = IF changed THEN l ELSE NoLink,
                                        ![loop].event = IF changed THEN m.state ELSE "none"]
    /\ sample' = With(sample, l, path[l])
    /\ UNCHANGED <<fsmConfig, targets, path, reported, activeLinks, quiet, view, reportedQuality, missed, linkBounds>>

\* OnProbe: a machine that changes its state has an event to send.
OnProbe(loop, l) ==
    /\ prober[loop].phase = "probe" /\ prober[loop].link = NoLink /\ l \in prober[loop].todo
    /\ \E m \in Observe(MachineOf(l), path[l]) :
        /\ machine' = With(machine, l, m)
        /\ LET changed == m.state # MachineOf(l).state
           IN  prober' = [prober EXCEPT ![loop].todo = @ \ {l},
                                        ![loop].link = IF changed THEN l ELSE NoLink,
                                        ![loop].event = IF changed THEN m.state ELSE "none"]
    /\ sample' = With(sample, l, path[l])
    /\ UNCHANGED <<fsmConfig, targets, path, reported, activeLinks, quiet, view, reportedQuality, missed, linkBounds>>

SendEvent(loop) == prober' = [prober EXCEPT ![loop].link = NoLink, ![loop].event = "none"]

\* EmitEvent: ReportEdgeEvent reaches the controller, or is given up.
EventArrives(loop) ==
    LET l == prober[loop].link
    IN  /\ l # NoLink
        /\ view' = [view EXCEPT ![l] = prober[loop].event]
        /\ missed' = IF MachineOf(l).state = prober[loop].event THEN missed \ {l} ELSE missed \cup {l}
        /\ SendEvent(loop)
        /\ UNCHANGED <<fsmConfig, targets, path, reporterVars, quiet, reportedQuality, linkBounds>>

EventLost(loop) ==
    /\ prober[loop].link # NoLink /\ linkBounds.faults < MaxLinkFaults
    /\ missed' = missed \cup {prober[loop].link}
    /\ linkBounds' = [linkBounds EXCEPT !.faults = @ + 1]
    /\ SendEvent(loop)
    /\ UNCHANGED <<fsmConfig, targets, path, reporterVars, quiet, view, reportedQuality>>

AbsDiff(a, b) == IF a >= b THEN a - b ELSE b - a

\* isQualitySignificant.
IsQualitySignificant(a, b) == (a = 0) # (b = 0) \/ AbsDiff(a, b) >= RttThreshold

\* The links of a report: the active ones, or all where no link is active.
InReport == IF activeLinks = {} THEN DOMAIN sample ELSE DOMAIN sample \cap activeLinks

Changed(l) == IF l \in DOMAIN reported THEN IsQualitySignificant(reported[l], sample[l]) ELSE TRUE

\* Tick, once the loop has probed every link: the report, which the controller keeps
\* in place of the last one, or may not receive.
Tick ==
    /\ prober["direct"].phase = "probe" /\ prober["direct"].todo = {} /\ prober["direct"].link = NoLink
    /\ prober' = [prober EXCEPT !["direct"] = Resting]
    /\ IF quiet >= MinQuiet /\ \E l \in InReport : Changed(l)
       THEN /\ reported' = [l \in DOMAIN reported \cup InReport |->
                                IF l \in InReport THEN sample[l] ELSE reported[l]]
            /\ quiet' = 0
            /\ \/ reportedQuality' = Within(sample, InReport) /\ UNCHANGED linkBounds
               \/ /\ linkBounds.faults < MaxLinkFaults
                  /\ linkBounds' = [linkBounds EXCEPT !.faults = @ + 1]
                  /\ UNCHANGED reportedQuality
       ELSE UNCHANGED <<reported, quiet, reportedQuality, linkBounds>>
    /\ UNCHANGED <<fsmConfig, targets, path, machine, sample, activeLinks, view, missed>>

RelayEnd ==
    /\ prober["relay"].phase = "probe" /\ prober["relay"].todo = {} /\ prober["relay"].link = NoLink
    /\ prober' = [prober EXCEPT !["relay"] = Resting]
    /\ UNCHANGED <<fsmConfig, targets, path, reporterVars, quiet, view, reportedQuality, missed, linkBounds>>

----------------------------------------------------------------------------
(* The network, the configuration and time.                                 *)

PathChanges(l) ==
    /\ linkBounds.faults < MaxLinkFaults
    /\ \E r \in (Rtts \cup {0}) \ {path[l]} : path' = [path EXCEPT ![l] = r]
    /\ linkBounds' = [linkBounds EXCEPT !.faults = @ + 1]
    /\ UNCHANGED <<fsmConfig, targets, reporterVars, quiet, prober, view, reportedQuality, missed>>

\* OnConfig of runNode.
TargetsChange ==
    /\ linkBounds.targets < MaxTargetChanges
    /\ targets' \in (SUBSET DirectLinks) \ {targets}
    /\ linkBounds' = [linkBounds EXCEPT !.targets = @ + 1]
    /\ UNCHANGED <<fsmConfig, path, reporterVars, quiet, prober, view, reportedQuality, missed>>

Older(timer, limit) == IF timer = NoTimer \/ timer >= limit THEN timer ELSE timer + 1

TimePasses ==
    /\ quiet' = Older(quiet, MinQuiet)
    /\ machine' = [l \in DOMAIN machine |->
                     [machine[l] EXCEPT !.degrading = Older(@, fsmConfig.hold),
                                        !.recovering = Older(@, fsmConfig.recover)]]
    /\ UNCHANGED <<fsmConfig, targets, path, sample, reported, activeLinks, prober, view, reportedQuality, missed, linkBounds>>

ProbeLoopStep(loop) == \E l \in Links : OnProbe(loop, l)
LinkStep == DirectStart \/ RelayStart \/ Tick \/ RelayEnd \/ TimePasses
            \/ \E loop \in {"direct", "relay"} : ProbeLoopStep(loop) \/ EventArrives(loop)

LinkNext ==
    \/ LinkStep
    \/ \E loop \in {"direct", "relay"} : EventLost(loop)
    \/ \E l \in Links : PathChanges(l)
    \/ TargetsChange

\* The ticker of each loop keeps ticking and time passes: no step of the loops waits
\* for the network for longer than a timeout.
LinkFairness ==
    /\ WF_linkVars(DirectStart) /\ WF_linkVars(Tick) /\ WF_linkVars(TimePasses)
    /\ WF_linkVars(ProbeLoopStep("direct")) /\ WF_linkVars(EventArrives("direct"))

----------------------------------------------------------------------------
(* Properties.                                                              *)

MachineType ==
    [state : {"Healthy", "Degraded", "Down"}, fails : 0 .. fsmConfig.downConfirm,
     base : Nat, degrading : NoTimer .. fsmConfig.hold, recovering : NoTimer .. fsmConfig.recover]

LinkTypeOK ==
    /\ fsmConfig \in LinkConfigs
    /\ targets \subseteq DirectLinks /\ activeLinks \subseteq DirectLinks
    /\ \A l \in DOMAIN machine : machine[l] \in MachineType
    /\ DOMAIN machine = DOMAIN sample /\ DOMAIN reported \subseteq DOMAIN sample
    /\ missed \subseteq Links

\* The links whose event is under way.
Announcing == {prober[loop].link : loop \in {"direct", "relay"}}

\* The controller knows the state of every link but of those about which a report was
\* lost or whose machine was dropped while it was not healthy: the two loops, which
\* send after they release the lock, never send a link's events out of order.
ControllerKnowsState ==
    \A l \in (DOMAIN machine) \ (missed \cup Announcing) : view[l] = machine[l].state

\* Thresholds with which a machine that has left Healthy can come back.
Recovers == fsmConfig.recoverLoss > 0

\* Of a link that stays up and as fast as it can be, or stays down, the controller is sent
\* the result when it differs from the last one it was sent; the one that is down becomes
\* Down, the one that is up becomes Healthy where the thresholds let a machine recover.
LinksSettle ==
    \A l \in DirectLinks :
        /\ <>[](l \in targets /\ path[l] = 1) =>
             <>[](/\ l \in DOMAIN machine /\ ~Changed(l)
                  /\ Recovers => MachineOf(l).state = "Healthy")
        /\ <>[](l \in targets /\ path[l] = 0) =>
             <>[](MachineOf(l).state = "Down" /\ ~Changed(l))

LinkSpec == LinkInit /\ [][LinkNext]_linkVars
LinkFairSpec == LinkSpec /\ LinkFairness
=============================================================================
