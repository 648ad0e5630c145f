---------------------------- MODULE TopoService ----------------------------
(***************************************************************************)
(* The topology service of the controller: reports of the nodes arrive at  *)
(* the Receiver (internal/controller/ingress/receiver.go), TopoService     *)
(* (internal/controller/topology/service.go) turns them into versioned     *)
(* assignments, saves each result, and has the nodes notified; a node      *)
(* fetches its assignment with its configuration and decides what to keep  *)
(* (cmd/corelink-node/main.go).                                            *)
(*                                                                         *)
(* A flush holds TopoService.mu from end to end and is one step.  A report *)
(* of ingresses is two: the set is stored under the mutex of the Receiver, *)
(* and the recomputation is asked for after it was released.  How a        *)
(* notification becomes a fetch is the subject of ConfigSync; here owed    *)
(* are the nodes that have one under way.  A node handles one              *)
(* configuration after the other, so that a fetch is one step too.         *)
(*                                                                         *)
(* The optimizer is a parameter, which TopoOptimizer gives.  The result of *)
(* ApplyEdgeEvents is what BestTopology makes of the input with the events in  *)
(* it, as TopoIncremental finds.                                           *)
(***************************************************************************)
EXTENDS Integers, Sequences, FiniteSets, TLC
F == INSTANCE Functions

CONSTANTS
    Node,       \* the registered nodes
    Ingress,    \* ingress identifiers
    BestTopology(_),        \* from an input [nodes, qm] to [roles, neighbors, baseline, probes]
    AfterEvents(_, _),  \* a quality matrix after a sequence of edge events
    EdgeEvents,  \* the edge events
    Reports,    \* the ingress sets nodes report: [sure, ings], sure of high confidence
    Samples,    \* the quality reports: functions from <<destination, ingress>> to weights
    Limit,      \* bound: how often each kind of step may happen
    Budget,     \* bound: how many such steps may happen in all
    MaxFaults   \* bound: saves that fail

Kinds == {"ingress", "quality", "event", "restart", "nodeRestart"}

ASSUME ServiceAssumption ==
    /\ Reports \subseteq [sure : SUBSET Ingress, ings : SUBSET Ingress]
    /\ Limit \in [Kinds -> Nat] /\ {Budget, MaxFaults} \subseteq Nat
    /\ IsFiniteSet(Node) /\ Cardinality(Node) > 1

\* The roles of a result are those of nodes (optimizer.go, assignRoles).
RolesFit(res) == /\ DOMAIN res.roles \subseteq Node
                 /\ \A n \in DOMAIN res.roles : res.roles[n] \in {"leaf", "transit"}

-----------------------------------------------------------------------------
VARIABLES
    sets,           \* Receiver.ingressSets
    quality,        \* Receiver.quality
    calls,          \* nodes whose ReportIngress has stored its set, and not returned
    inc,            \* TopoService.inc: {} or the one lastInput
    pending,        \* TopoService.pendingEvents
    version,        \* TopoService.version
    last,           \* TopoService.lastResult: {} or the one result
    assignments,    \* TopoService.assignments
    due,            \* canRecomputeNow(): damping lets the next trigger recompute
    rows,           \* the table topo_results: [version, result]
    owed,           \* nodes whose notification has not led to a fetch yet
    held,           \* what a node goes by, [version, role, neighbors, probes]
    used,           \* how often each kind of step has happened
    faults          \* how many saves have failed

receiver == <<sets, quality>>
service  == <<inc, version, last, assignments, due, rows, faults>>
vars     == <<receiver, calls, service, pending, owed, held, used>>

Spend(kind) == /\ used[kind] < Limit[kind]
               /\ F!SumFunction(used) < Budget
               /\ used' = [used EXCEPT ![kind] = @ + 1]

(***************************************************************************)
(* Snapshot: an ingress counts as reachable when it is sure, or when some  *)
(* node has a quality sample of it.                                        *)
(***************************************************************************)
Quality ==
    [e \in UNION {{<<s, k[1], k[2]>> : k \in DOMAIN quality[s]} : s \in DOMAIN quality} |->
        quality[e[1]][<<e[2], e[3]>>]]

Covered(n) == {k \in Ingress : \E e \in DOMAIN Quality : e[2] = n /\ e[3] = k}

Snapshot ==
    [nodes |-> [n \in DOMAIN sets |->
                  [sure  |-> sets[n].sure,
                   reach |-> sets[n].sure \cup (sets[n].ings \cap Covered(n))]],
     qm    |-> Quality]

\* An ingress that the Receiver does not know is sent without its address.
IngressDetail(ss, b, ks) == IF b \in DOMAIN ss THEN ks \cap ss[b].ings ELSE {}

buildAssignments(res, v, ss) ==
    [n \in DOMAIN res.roles |->
        [version   |-> v,
         role      |-> res.roles[n],
         neighbors |-> {<<nb[1], IngressDetail(ss, nb[1], nb[2])>> : nb \in res.neighbors[n]},
         probes    |-> res.probes[n]]]

(***************************************************************************)
(* flushLocked.  It works on events, the pending ones and the one that has *)
(* just come in, and told are nodes that are to be notified anyway.        *)
(***************************************************************************)
applyResultOldVersion(res, told) ==   \* mutant: assignments built before the version moves
    /\ version' = version + 1
    /\ rows' = {r \in rows : r.version # version'} \cup {[version |-> version', result |-> res]}
    /\ assignments' = buildAssignments(res, version, sets)
    /\ last' = {res}
    /\ due' = FALSE
    /\ owed' = owed \cup told \cup DOMAIN assignments'
    /\ UNCHANGED faults

applyResult(res, told) ==
    /\ version' = version + 1
    /\ rows' = {r \in rows : r.version # version'} \cup {[version |-> version', result |-> res]}
    /\ assignments' = buildAssignments(res, version', sets)
    /\ last' = {res}
    /\ due' = FALSE
    /\ owed' = owed \cup told \cup DOMAIN assignments'
    /\ UNCHANGED faults

saveFails(told) ==
    /\ faults < MaxFaults /\ faults' = faults + 1
    /\ version' = version + 1
    /\ owed' = owed \cup told
    /\ UNCHANGED <<rows, assignments, last, due>>

noChange(told) ==
    /\ owed' = owed \cup told
    /\ UNCHANGED <<version, rows, assignments, last, due, faults>>

flushIncrementalKeepsPending(events, told) ==   \* mutant: drains only with a new version
    /\ events # <<>> /\ inc # {}
    /\ \E base \in inc :
          LET in == [base EXCEPT !.qm = AfterEvents(@, events)]
              res == BestTopology(in)
          IN \/ last = {res} /\ noChange(told) /\ inc' = {in} /\ pending' = events
             \/ last # {res} /\ applyResult(res, told) /\ inc' = {in} /\ pending' = <<>>
             \/ last # {res} /\ saveFails(told) /\ inc' = {} /\ pending' = events

flushIncremental(events, told) ==
    /\ events # <<>> /\ inc # {}
    /\ \E base \in inc :
          LET in == [base EXCEPT !.qm = AfterEvents(@, events)]
              res == BestTopology(in)
          IN \/ last = {res} /\ noChange(told) /\ inc' = {in} /\ pending' = <<>>
             \/ last # {res} /\ applyResult(res, told) /\ inc' = {in} /\ pending' = <<>>
             \/ last # {res} /\ saveFails(told) /\ inc' = {} /\ pending' = events

flushFull(events, told) ==
    /\ events = <<>> \/ inc = {}
    /\ LET in == Snapshot
           res == BestTopology(in)
       IN /\ inc' = {in}
          /\ \/ last = {res} /\ noChange(told) /\ pending' = <<>>
             \/ last # {res} /\ applyResult(res, told) /\ pending' = <<>>
             \/ last # {res} /\ saveFails(told) /\ pending' = events

flush(events, told) == flushIncremental(events, told) \/ flushFull(events, told)

\* Tick and OnEvent leave early when damping does not let them recompute.
trigger(events, told) ==
    \/ /\ due
       /\ flush(events, told)
    \/ /\ ~due
       /\ pending' = events
       /\ owed' = owed \cup told
       /\ UNCHANGED service

(***************************************************************************)
(* Triggers: the periodic tick, edge events, reports.                      *)
(***************************************************************************)
Tick ==
    /\ due
    /\ flush(pending, {})
    /\ UNCHANGED <<receiver, calls, held, used>>

MinIntervalElapsed ==
    /\ ~due
    /\ due' = TRUE
    /\ UNCHANGED <<receiver, calls, inc, version, last, assignments, rows, pending,
                   owed, held, used, faults>>

OnEvent(e) ==
    /\ Spend("event")
    /\ trigger(Append(pending, e), {})
    /\ UNCHANGED <<receiver, calls, held>>

ReportIngress(n, report) ==
    /\ Spend("ingress")
    /\ sets' = [m \in DOMAIN sets \cup {n} |-> IF m = n THEN report ELSE sets[m]]
    /\ calls' = calls \cup {n}
    /\ UNCHANGED <<quality, service, pending, owed, held>>

FinishReport(n) ==
    /\ n \in calls
    /\ calls' = calls \ {n}
    /\ trigger(pending, {n})
    /\ UNCHANGED <<receiver, held, used>>

ReportQuality(n, report) ==
    /\ Spend("quality")
    /\ \A k \in DOMAIN report : k[1] # n
    /\ quality' = [m \in DOMAIN quality \cup {n} |-> IF m = n THEN report ELSE quality[m]]
    /\ UNCHANGED <<sets, calls, service, pending, owed, held>>

(***************************************************************************)
(* Nodes.  A node without assignment is sent all others as neighbours.     *)
(* Neighbours and probe targets are always taken over, role and version    *)
(* only together and when the version is newer or the role another one.    *)
(***************************************************************************)
buildFullMeshFallback(ss, n) ==
    [version   |-> 0,
     role      |-> "leaf",
     neighbors |-> {<<b, IngressDetail(ss, b, Ingress)>> : b \in Node \ {n}},
     probes    |-> {}]

AssignmentForNode(n) ==
    IF n \in DOMAIN assignments THEN assignments[n] ELSE buildFullMeshFallback(sets, n)

OnConfig(h, a) ==
    IF a.version > h.version \/ a.role # h.role THEN a
    ELSE [h EXCEPT !.neighbors = a.neighbors, !.probes = a.probes]

FetchConfig(n) ==
    /\ n \in owed
    /\ held' = [held EXCEPT ![n] = OnConfig(@, AssignmentForNode(n))]
    /\ owed' = owed \ {n}
    /\ UNCHANGED <<receiver, calls, service, pending, used>>

NodeRestart(n) ==
    /\ Spend("nodeRestart")
    /\ held' = [held EXCEPT ![n] = AssignmentForNode(n)]
    /\ UNCHANGED <<receiver, calls, service, pending, owed>>

(***************************************************************************)
(* The controller restarts: what is in memory is gone, and the last row is *)
(* loaded, before any report.  A notification survives when it had become  *)
(* a generation in the database.                                           *)
(***************************************************************************)
Latest == CHOOSE r \in rows : \A x \in rows : x.version <= r.version

LoadNothing ==
    /\ rows = {}
    /\ version' = 0 /\ last' = {} /\ assignments' = <<>>

LoadForgetsVersion ==   \* mutant: the version counter starts anew
    /\ rows # {}
    /\ version' = 0
    /\ last' = {Latest.result}
    /\ assignments' = buildAssignments(Latest.result, Latest.version, <<>>)

LoadOldest ==   \* mutant: ORDER BY version ASC
    /\ rows # {}
    /\ \E first \in rows :
          /\ \A x \in rows : first.version <= x.version
          /\ version' = first.version
          /\ last' = {first.result}
          /\ assignments' = buildAssignments(first.result, first.version, <<>>)

Load ==
    /\ rows # {}
    /\ version' = Latest.version
    /\ last' = {Latest.result}
    /\ assignments' = buildAssignments(Latest.result, Latest.version, <<>>)

Restart ==
    /\ Spend("restart")
    /\ LoadNothing \/ Load
    /\ sets' = <<>> /\ quality' = <<>>
    /\ calls' = {}
    /\ inc' = {} /\ pending' = <<>> /\ due' = TRUE
    /\ \E kept \in SUBSET owed : owed' = kept
    /\ UNCHANGED <<rows, held, faults>>

-----------------------------------------------------------------------------
Init ==
    /\ sets = <<>> /\ quality = <<>>
    /\ calls = {}
    /\ inc = {} /\ pending = <<>> /\ version = 0 /\ last = {} /\ assignments = <<>>
    /\ due = TRUE
    /\ rows = {}
    /\ owed = {}
    /\ held = [n \in Node |-> buildFullMeshFallback(<<>>, n)]
    /\ used = [kind \in Kinds |-> 0]
    /\ faults = 0

ControllerStep ==
    \/ Tick
    \/ MinIntervalElapsed
    \/ \E e \in EdgeEvents : OnEvent(e)
    \/ Restart

NodeStep(n) ==
    \/ \E report \in Reports : ReportIngress(n, report)
    \/ FinishReport(n)
    \/ \E report \in Samples : ReportQuality(n, report)
    \/ FetchConfig(n)
    \/ NodeRestart(n)

Next == ControllerStep \/ \E n \in Node : NodeStep(n)

Spec == Init /\ [][Next]_vars

\* The ticker runs, time passes, handlers return, and a node that was notified
\* fetches (ConfigSync).  Nothing makes a report, an event or a restart happen.
Fairness ==
    /\ WF_vars(Tick)
    /\ WF_vars(MinIntervalElapsed)
    /\ \A n \in Node : /\ WF_vars(FinishReport(n))
                       /\ WF_vars(FetchConfig(n))

FairSpec == Spec /\ Fairness
-----------------------------------------------------------------------------
(***************************************************************************)
(* Properties.                                                             *)
(***************************************************************************)
\* Types, and the version counter is not behind the table.
TypeOK ==
    /\ DOMAIN sets \subseteq Node /\ \A n \in DOMAIN sets : sets[n] \in Reports
    /\ DOMAIN quality \subseteq Node /\ \A n \in DOMAIN quality : quality[n] \in Samples
    /\ calls \subseteq DOMAIN sets
    /\ Cardinality(inc) <= 1 /\ pending \in Seq(EdgeEvents)
    /\ version \in Nat /\ Cardinality(last) <= 1
    /\ DOMAIN assignments \subseteq Node
    /\ due \in BOOLEAN
    /\ \A r \in rows : r.version \in 1..version
    /\ owed \subseteq Node
    /\ \A n \in Node : held[n].version \in Nat /\ held[n].role \in {"leaf", "transit"}
    /\ used \in [Kinds -> Nat] /\ faults \in 0..MaxFaults

\* What an assignment says apart from addresses.
Content(a) == <<a.role, {nb[1] : nb \in a.neighbors}, a.probes>>

\* What is handed to nodes under a version is what the table holds under that
\* version, although a save may fail and its version is then used up: a
\* restart brings back what the nodes were told (service.go:172-180).
ServedIsSaved ==
    \A n \in DOMAIN assignments : \E r \in rows :
        /\ r.version = assignments[n].version
        /\ n \in DOMAIN r.result.roles
        /\ Content(assignments[n]) = Content(buildAssignments(r.result, r.version, sets)[n])

\* A version names one result for good: across failed saves and restarts no
\* row is written again with another content, so that a node that compares
\* versions (main.go:636) compares contents.  SaveResult is an upsert and would
\* not object.
VersionsNotReused == [][rows \subseteq rows']_vars

\* Once the reports stop, the service settles on what BestTopology makes of the
\* last ones, and every node in that topology goes by it: role, version,
\* neighbours with their addresses and probe targets, whatever triggers damping
\* suppressed, saves failed and events were applied on the way.  A restart
\* loses the reports and is left out here.
Settled ==
    LET want == buildAssignments(BestTopology(Snapshot), version, sets)
        named(a) == <<a.role, a.neighbors, a.probes>>
    IN /\ DOMAIN assignments = DOMAIN want
       /\ \A n \in DOMAIN want : /\ named(assignments[n]) = named(want[n])
                                  /\ held[n] = assignments[n]

Settles == <>[](used["restart"] > 0 \/ Settled)

\* A node that has an assignment does not lose it: reports are replaced and
\* never withdrawn (receiver.go:92), and a restart "serves as soon as it has
\* loaded" (main.go:371), sparing the nodes "topology churn" (topostore/store.go:2).
KeepsAssignments == [][DOMAIN assignments \subseteq DOMAIN assignments']_vars
=============================================================================
