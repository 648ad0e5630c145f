-------------------------- MODULE Topology_proofs --------------------------
(***************************************************************************)
(* Proofs about the topology: the versions of TopoService name saved       *)
(* results, for any optimizer, any number of nodes and any bounds; the     *)
(* tables of ForwardingTable lead no packet in a circle, for any nodes and *)
(* base routes; and the routes TopoIncremental keeps are the shortest, for *)
(* any graph, weights and batches of events.                               *)
(***************************************************************************)
EXTENDS MCTopology, SequenceTheorems, FiniteSetTheorems, WellFoundedInduction, TLAPS

-----------------------------------------------------------------------------
(* What is served comes from one row, whose version it carries.            *)
FromRow(r) ==
    \A n \in DOMAIN assignments :
        /\ n \in DOMAIN r.result.roles
        /\ assignments[n].version = r.version
        /\ Content(assignments[n]) = Content(buildAssignments(r.result, r.version, sets)[n])

(* The table never runs ahead of the counter, and has a last row.          *)
TableInv ==
    /\ version \in Nat
    /\ \A r \in rows : r.version \in Nat /\ r.version <= version
    /\ rows # {} => \E r \in rows : \A x \in rows : x.version <= r.version

ServedInv == DOMAIN assignments = {} \/ \E r \in rows : FromRow(r)

IInv == TableInv /\ ServedInv

(* The content of an assignment does not depend on the version, nor on     *)
(* what the Receiver knows of addresses.                                   *)
LEMMA ContentOfResult ==
    ASSUME NEW res, NEW v, NEW w, NEW ss, NEW tt, NEW n \in DOMAIN res.roles
    PROVE  Content(buildAssignments(res, v, ss)[n]) = Content(buildAssignments(res, w, tt)[n])
<1> DEFINE nbs(xx) == {<<nb[1], IngressDetail(xx, nb[1], nb[2])>> : nb \in res.neighbors[n]}
           peers == {nb[1] : nb \in res.neighbors[n]}
<1>1. ASSUME NEW xx PROVE {nb[1] : nb \in nbs(xx)} = peers
  <2>1. ASSUME NEW x \in {nb[1] : nb \in nbs(xx)} PROVE x \in peers
    <3>1. PICK y \in nbs(xx) : x = y[1]
      OBVIOUS
    <3>2. PICK nb \in res.neighbors[n] : y = <<nb[1], IngressDetail(xx, nb[1], nb[2])>>
      OBVIOUS
    <3>3. y[1] = nb[1]
      BY <3>2
    <3> QED BY <3>1, <3>3
  <2>2. ASSUME NEW x \in peers PROVE x \in {nb[1] : nb \in nbs(xx)}
    <3>1. PICK nb \in res.neighbors[n] : x = nb[1]
      OBVIOUS
    <3>2. <<nb[1], IngressDetail(xx, nb[1], nb[2])>> \in nbs(xx)
      OBVIOUS
    <3>3. <<nb[1], IngressDetail(xx, nb[1], nb[2])>>[1] = x
      BY <3>1
    <3> QED BY <3>2, <3>3
  <2> QED BY <2>1, <2>2
<1>2. ASSUME NEW xx, NEW u
      PROVE  Content(buildAssignments(res, u, xx)[n]) = <<res.roles[n], peers, res.probes[n]>>
  <2>1. buildAssignments(res, u, xx)[n] =
            [version |-> u, role |-> res.roles[n], neighbors |-> nbs(xx),
             probes |-> res.probes[n]]
    BY DEF buildAssignments
  <2> HIDE DEF nbs, peers
  <2> QED BY <2>1, <1>1 DEF Content
<1> QED BY <1>2

LEMMA AssignmentsOfResult ==
    ASSUME NEW res, NEW v, NEW ss
    PROVE  /\ DOMAIN buildAssignments(res, v, ss) = DOMAIN res.roles
           /\ \A n \in DOMAIN res.roles : buildAssignments(res, v, ss)[n].version = v
BY DEF buildAssignments

-----------------------------------------------------------------------------
(* The effects of the parts of a flush on the table and what is served.    *)
LEMMA ApplyKeeps ==
    ASSUME NEW res, NEW told, IInv, applyResult(res, told)
    PROVE  IInv' /\ rows \subseteq rows'
<1>0. PICK row : row = [version |-> version + 1, result |-> res]
  OBVIOUS
<1>1. /\ version' = version + 1 /\ version' \in Nat
      /\ rows' = {r \in rows : r.version # version + 1} \cup {row}
      /\ assignments' = buildAssignments(res, version + 1, sets)
  BY <1>0 DEF applyResult, IInv, TableInv
<1>2. \A r \in rows : r.version \in Nat /\ r.version <= version
  BY DEF IInv, TableInv
<1>3. version \in Nat
  BY DEF IInv, TableInv
<1>4. \A r \in rows : r.version # version + 1
  BY <1>2, <1>3
<1>5. rows' = rows \cup {row}
  BY <1>1, <1>4
<1>6. row.version = version + 1 /\ row.result = res
  BY <1>0
<1>7. \A r \in rows' : r.version \in Nat /\ r.version <= version'
  BY <1>1, <1>2, <1>3, <1>5, <1>6
<1>8. TableInv'
  BY <1>1, <1>5, <1>6, <1>7 DEF TableInv
<1>9. FromRow(row)'
  <2> SUFFICES ASSUME NEW n \in DOMAIN assignments'
               PROVE  /\ n \in DOMAIN row.result.roles
                      /\ assignments'[n].version = row.version
                      /\ Content(assignments'[n])
                            = Content(buildAssignments(row.result, row.version, sets')[n])
    BY <1>1 DEF FromRow
  <2>1. n \in DOMAIN res.roles /\ assignments'[n].version = version + 1
    BY <1>1, AssignmentsOfResult
  <2>2. Content(assignments'[n]) = Content(buildAssignments(res, version + 1, sets')[n])
    BY <1>1, <2>1, ContentOfResult
  <2> QED BY <2>1, <2>2, <1>6
<1>10. ServedInv'
  BY <1>5, <1>9 DEF ServedInv
<1> QED BY <1>5, <1>8, <1>10 DEF IInv
(* While neither the table nor the assignments change, reports do not      *)
(* change the content that is served.                                      *)
LEMMA ReportsKeep ==
    ASSUME ServedInv, UNCHANGED <<rows, assignments>>
    PROVE  ServedInv'
<1>1. CASE DOMAIN assignments = {}
  BY <1>1 DEF ServedInv
<1>2. CASE \E r \in rows : FromRow(r)
  <2>1. PICK r \in rows : FromRow(r)
    BY <1>2
  <2>2. ASSUME NEW n \in DOMAIN assignments
        PROVE  Content(buildAssignments(r.result, r.version, sets)[n])
                  = Content(buildAssignments(r.result, r.version, sets')[n])
    BY <2>1, ContentOfResult DEF FromRow
  <2>3. FromRow(r)'
    BY <2>1, <2>2 DEF FromRow
  <2> QED BY <2>3 DEF ServedInv
<1> QED BY <1>1, <1>2 DEF ServedInv

LEMMA TableKept ==
    ASSUME TableInv, version' \in {version, version + 1}, UNCHANGED rows
    PROVE  TableInv'
<1>1. version' \in Nat /\ version <= version'
  BY DEF TableInv
<1>2. \A r \in rows' : r.version \in Nat /\ r.version <= version'
  BY <1>1 DEF TableInv
<1> QED BY <1>1, <1>2 DEF TableInv

LEMMA FlushKeeps ==
    ASSUME NEW events, NEW told, IInv, flush(events, told)
    PROVE  IInv' /\ rows \subseteq rows'
<1>1. ASSUME NEW res, applyResult(res, told) PROVE IInv' /\ rows \subseteq rows'
  BY <1>1, ApplyKeeps
<1>2. CASE saveFails(told)
  <2>1. version' = version + 1 /\ UNCHANGED <<rows, assignments>>
    BY <1>2 DEF saveFails
  <2> QED BY <2>1, ReportsKeep, TableKept DEF IInv
<1>3. CASE noChange(told)
  <2>1. version' = version /\ UNCHANGED <<rows, assignments>>
    BY <1>3 DEF noChange
  <2> QED BY <2>1, ReportsKeep, TableKept DEF IInv
<1>4. CASE flushIncremental(events, told)
  BY <1>1, <1>2, <1>3, <1>4 DEF flushIncremental
<1>5. CASE flushFull(events, told)
  BY <1>1, <1>2, <1>3, <1>5 DEF flushFull
<1> QED BY <1>4, <1>5 DEF flush

LEMMA TriggerKeeps ==
    ASSUME NEW events, NEW told, IInv, trigger(events, told)
    PROVE  IInv' /\ rows \subseteq rows'
<1>1. CASE flush(events, told)
  BY <1>1, FlushKeeps
<1>2. CASE UNCHANGED service
  <2>1. version' = version /\ UNCHANGED <<rows, assignments>>
    BY <1>2 DEF service
  <2> QED BY <2>1, ReportsKeep, TableKept DEF IInv
<1> QED BY <1>1, <1>2 DEF trigger

(* A restart serves the last row again, and goes on from its version.      *)
LEMMA RestartKeeps ==
    ASSUME IInv, Restart
    PROVE  IInv' /\ rows' = rows
<1>1. rows' = rows
  BY DEF Restart
<1>2. CASE LoadNothing
  <2>1. rows = {} /\ version' = 0 /\ assignments' = <<>>
    BY <1>2 DEF LoadNothing
  <2>2. DOMAIN assignments' = {}
    BY <2>1
  <2> QED BY <1>1, <2>1, <2>2 DEF IInv, TableInv, ServedInv
<1>3. CASE Load
  <2>1. Latest \in rows /\ \A x \in rows : x.version <= Latest.version
    BY <1>3 DEF Load, IInv, TableInv, Latest
  <2>2. PICK row \in rows : row = Latest
    BY <2>1
  <2>3. /\ version' = row.version
        /\ assignments' = buildAssignments(row.result, row.version, <<>>)
    BY <1>3, <2>2 DEF Load
  <2>4. row.version \in Nat /\ \A x \in rows : x.version \in Nat /\ x.version <= row.version
    BY <2>1, <2>2 DEF IInv, TableInv
  <2>5. TableInv'
    BY <1>1, <2>3, <2>4 DEF TableInv
  <2>6. FromRow(row)'
    <3> SUFFICES ASSUME NEW n \in DOMAIN assignments'
                 PROVE  /\ n \in DOMAIN row.result.roles
                        /\ assignments'[n].version = row.version
                        /\ Content(assignments'[n])
                              = Content(buildAssignments(row.result, row.version, sets')[n])
      BY DEF FromRow
    <3>1. n \in DOMAIN row.result.roles /\ assignments'[n].version = row.version
      BY <2>3, AssignmentsOfResult
    <3> QED BY <2>3, <3>1, ContentOfResult
  <2> QED BY <1>1, <2>5, <2>6 DEF IInv, ServedInv
<1> QED BY <1>1, <1>2, <1>3 DEF Restart

-----------------------------------------------------------------------------
LEMMA InitHolds == Init => IInv
<1> SUFFICES ASSUME Init PROVE IInv
  OBVIOUS
<1>1. version = 0 /\ rows = {} /\ assignments = <<>>
  BY DEF Init
<1>2. DOMAIN assignments = {}
  BY <1>1
<1> QED BY <1>1, <1>2 DEF IInv, TableInv, ServedInv

LEMMA StepKeeps ==
    ASSUME IInv, [Next]_vars
    PROVE  IInv' /\ rows \subseteq rows'
<1>1. CASE UNCHANGED <<version, rows, assignments>>
  BY <1>1, ReportsKeep, TableKept DEF IInv
<1>2. CASE Tick
  BY <1>2, FlushKeeps DEF Tick
<1>3. CASE MinIntervalElapsed
  BY <1>1, <1>3 DEF MinIntervalElapsed
<1>4. ASSUME NEW e \in EdgeEvents, OnEvent(e) PROVE IInv' /\ rows \subseteq rows'
  BY <1>4, TriggerKeeps DEF OnEvent
<1>5. CASE Restart
  BY <1>5, RestartKeeps
<1>6. ASSUME NEW n \in Node, NodeStep(n) PROVE IInv' /\ rows \subseteq rows'
  <2>1. ASSUME NEW report \in Reports, ReportIngress(n, report)
        PROVE  IInv' /\ rows \subseteq rows'
    BY <1>1, <2>1 DEF ReportIngress, service
  <2>2. CASE FinishReport(n)
    BY <2>2, TriggerKeeps DEF FinishReport
  <2>3. ASSUME NEW report \in Samples, ReportQuality(n, report)
        PROVE  IInv' /\ rows \subseteq rows'
    BY <1>1, <2>3 DEF ReportQuality, service
  <2>4. CASE FetchConfig(n)
    BY <1>1, <2>4 DEF FetchConfig, service
  <2>5. CASE NodeRestart(n)
    BY <1>1, <2>5 DEF NodeRestart, service
  <2> QED BY <1>6, <2>1, <2>2, <2>3, <2>4, <2>5 DEF NodeStep
<1>7. CASE UNCHANGED vars
  BY <1>1, <1>7 DEF vars, service
<1> QED BY <1>2, <1>3, <1>4, <1>5, <1>6, <1>7 DEF Next, ControllerStep

-----------------------------------------------------------------------------
(* The version counter and the table agree, and what is served is one row  *)
(* of the table, in every reachable state.                                 *)
THEOREM ServiceInvariant == Spec => []IInv
<1>1. IInv /\ [Next]_vars => IInv'
  BY StepKeeps
<1> QED BY <1>1, InitHolds, PTL DEF Spec

(* What nodes are handed under a version is what the table holds under it  *)
(* (applyResultLocked, Load).                                              *)
THEOREM ServedIsSavedHolds == Spec => []ServedIsSaved
<1>1. IInv => ServedIsSaved
  <2> SUFFICES ASSUME ServedInv PROVE ServedIsSaved
    BY DEF IInv
  <2>1. CASE DOMAIN assignments = {}
    BY <2>1 DEF ServedIsSaved
  <2>2. CASE \E r \in rows : FromRow(r)
    BY <2>2 DEF FromRow, ServedIsSaved
  <2> QED BY <2>1, <2>2 DEF ServedInv
<1> QED BY <1>1, ServiceInvariant, PTL

(* No version is saved twice with different results, across failed saves   *)
(* and restarts (flushLocked, SaveResult, Load).                           *)
THEOREM VersionsNotReusedHolds == Spec => VersionsNotReused
<1>1. IInv /\ [Next]_vars => [rows \subseteq rows']_vars
  BY StepKeeps
<1> QED BY <1>1, ServiceInvariant, PTL DEF Spec, VersionsNotReused

-----------------------------------------------------------------------------
(* Types.  What the nodes go by comes of the results of the optimizer; of  *)
(* the optimizer it is enough that its roles are roles of nodes.           *)
Fields == {"version", "role", "neighbors", "probes"}
Assigned(a) == DOMAIN a = Fields /\ a.version \in Nat /\ a.role \in {"leaf", "transit"}

ReceiverTypes ==
    /\ DOMAIN sets \subseteq Node /\ \A n \in DOMAIN sets : sets[n] \in Reports
    /\ DOMAIN quality \subseteq Node /\ \A n \in DOMAIN quality : quality[n] \in Samples
    /\ calls \subseteq DOMAIN sets
HeldTypes ==
    /\ DOMAIN held = Node /\ \A n \in Node : Assigned(held[n])
    /\ used \in [Kinds -> Nat]
ServiceTypes ==
    /\ \A i \in inc : DOMAIN i = {"nodes", "qm"} /\ DOMAIN i.nodes \subseteq Node
    /\ \A i, j \in inc : i = j
    /\ \A r, s \in last : r = s
    /\ version \in Nat
    /\ \A n \in DOMAIN assignments : n \in Node /\ Assigned(assignments[n])
    /\ \A r \in rows : r.version \in 1 .. version /\ RolesFit(r.result)
    /\ due \in BOOLEAN /\ faults \in 0 .. MaxFaults
QueueTypes == pending \in Seq(EdgeEvents) /\ owed \subseteq Node

Fits == \A in : DOMAIN in.nodes \subseteq Node => RolesFit(BestTopology(in))

LEMMA AssignmentsTyped ==
    ASSUME NEW res, RolesFit(res), NEW v \in Nat, NEW ss
    PROVE  \A n \in DOMAIN buildAssignments(res, v, ss) : n \in Node /\ Assigned(buildAssignments(res, v, ss)[n])
BY DEF buildAssignments, RolesFit, Assigned, Fields

LEMMA ApplyTypes ==
    ASSUME ServiceTypes, QueueTypes, NEW res, RolesFit(res), NEW told, told \subseteq Node, applyResult(res, told),
           NEW i, DOMAIN i = {"nodes", "qm"}, DOMAIN i.nodes \subseteq Node, inc' = {i}
    PROVE  ServiceTypes' /\ owed' \subseteq Node
<1>a. PICK v : v = version + 1
  OBVIOUS
<1>b. PICK ss : ss = sets
  OBVIOUS
<1>1. /\ version' = v /\ v \in Nat /\ v \in 1 .. v /\ 1 .. version \subseteq 1 .. v
      /\ rows' = {r \in rows : r.version # v} \cup {[version |-> v, result |-> res]}
      /\ assignments' = buildAssignments(res, v, ss) /\ last' = {res} /\ due' = FALSE
      /\ owed' = owed \cup told \cup DOMAIN assignments' /\ faults' = faults
  BY <1>a, <1>b DEF applyResult, ServiceTypes
<1>2. \A n \in DOMAIN assignments' : n \in Node /\ Assigned(assignments'[n])
  BY <1>1, AssignmentsTyped
<1>3. \A r \in rows' : r.version \in 1 .. v /\ RolesFit(r.result)
  <2>1. ASSUME NEW r \in rows' PROVE r \in rows \/ r = [version |-> v, result |-> res]
    BY <1>1
  <2>2. ASSUME NEW r \in rows PROVE r.version \in 1 .. v /\ RolesFit(r.result)
    BY <1>1 DEF ServiceTypes
  <2>3. ASSUME NEW r, r = [version |-> v, result |-> res] PROVE r.version \in 1 .. v /\ RolesFit(r.result)
    <3>1. r.version = v /\ r.result = res
      BY <2>3
    <3> QED
      BY <1>1, <3>1
  <2> QED
    BY <2>1, <2>2, <2>3
<1> QED
  BY <1>1, <1>2, <1>3 DEF ServiceTypes, QueueTypes

LEMMA FlushTypes ==
    ASSUME Fits, ServiceTypes, QueueTypes, ReceiverTypes, NEW events \in Seq(EdgeEvents), NEW told, told \subseteq Node,
           flush(events, told)
    PROVE  ServiceTypes' /\ QueueTypes'
<1>1. ASSUME NEW i, DOMAIN i = {"nodes", "qm"}, DOMAIN i.nodes \subseteq Node, NEW res, res = BestTopology(i),
             \/ last = {res} /\ noChange(told) /\ inc' = {i} /\ pending' = <<>>
             \/ last # {res} /\ applyResult(res, told) /\ inc' = {i} /\ pending' = <<>>
             \/ last # {res} /\ saveFails(told) /\ inc' \in {{}, {i}} /\ pending' = events
      PROVE  ServiceTypes' /\ QueueTypes'
  <2>1. RolesFit(res)
    <3>1. RolesFit(BestTopology(i))
      BY <1>1, Zenon DEF Fits
    <3> QED
      BY <1>1, <3>1
  <2>2. pending' \in Seq(EdgeEvents)
    <3>1. pending' = <<>> \/ pending' = events
      BY <1>1
    <3>2. <<>> \in Seq(EdgeEvents) /\ events \in Seq(EdgeEvents)
      OBVIOUS
    <3> QED
      BY <3>1, <3>2
  <2>3. CASE noChange(told) /\ inc' = {i}
    BY <1>1, <2>2, <2>3 DEF noChange, ServiceTypes, QueueTypes
  <2>4. CASE applyResult(res, told) /\ inc' = {i}
    BY <1>1, <2>1, <2>2, <2>4, ApplyTypes DEF QueueTypes
  <2>5. CASE saveFails(told) /\ inc' \in {{}, {i}}
    <3>1. /\ version \in Nat /\ version' = version + 1 /\ 1 .. version \subseteq 1 .. version' /\ version' \in Nat
          /\ faults' \in 0 .. MaxFaults
      BY <2>5, ServiceAssumption DEF saveFails, ServiceTypes
    <3> QED
      BY <1>1, <2>2, <2>5, <3>1 DEF saveFails, ServiceTypes, QueueTypes
  <2> QED
    BY <1>1, <2>3, <2>4, <2>5
<1>2. CASE flushIncremental(events, told)
  <2>1. PICK base \in inc :
          LET in == [base EXCEPT !.qm = AfterEvents(@, events)]
              res == BestTopology(in)
          IN \/ last = {res} /\ noChange(told) /\ inc' = {in} /\ pending' = <<>>
             \/ last # {res} /\ applyResult(res, told) /\ inc' = {in} /\ pending' = <<>>
             \/ last # {res} /\ saveFails(told) /\ inc' = {} /\ pending' = events
    BY <1>2 DEF flushIncremental
  <2>2. PICK in : in = [base EXCEPT !.qm = AfterEvents(@, events)]
    OBVIOUS
  <2>3. DOMAIN in = {"nodes", "qm"} /\ DOMAIN in.nodes \subseteq Node
    BY <2>2 DEF ServiceTypes
  <2>4. PICK res : res = BestTopology(in)
    OBVIOUS
  <2>5. \/ last = {res} /\ noChange(told) /\ inc' = {in} /\ pending' = <<>>
        \/ last # {res} /\ applyResult(res, told) /\ inc' = {in} /\ pending' = <<>>
        \/ last # {res} /\ saveFails(told) /\ inc' = {} /\ pending' = events
    BY <2>1, <2>2, <2>4
  <2> QED
    BY <1>1, <2>3, <2>4, <2>5
<1>3. CASE flushFull(events, told)
  <2>1. PICK in : in = Snapshot
    OBVIOUS
  <2>2. DOMAIN in = {"nodes", "qm"} /\ DOMAIN in.nodes \subseteq Node
    BY <2>1 DEF Snapshot, ReceiverTypes
  <2>3. PICK res : res = BestTopology(in)
    OBVIOUS
  <2>4. /\ inc' = {in}
        /\ \/ last = {res} /\ noChange(told) /\ pending' = <<>>
           \/ last # {res} /\ applyResult(res, told) /\ pending' = <<>>
           \/ last # {res} /\ saveFails(told) /\ pending' = events
    BY <1>3, <2>1, <2>3 DEF flushFull
  <2> QED
    BY <1>1, <2>2, <2>3, <2>4
<1> QED
  BY <1>2, <1>3 DEF flush

LEMMA TriggerTypes ==
    ASSUME Fits, ServiceTypes, QueueTypes, ReceiverTypes, NEW events \in Seq(EdgeEvents), NEW told, told \subseteq Node,
           trigger(events, told)
    PROVE  ServiceTypes' /\ QueueTypes'
<1>1. CASE flush(events, told)
  BY <1>1, FlushTypes
<1>2. CASE pending' = events /\ owed' = owed \cup told /\ UNCHANGED service
  BY <1>2 DEF service, ServiceTypes, QueueTypes
<1> QED
  BY <1>1, <1>2 DEF trigger

TypeInv == ReceiverTypes /\ HeldTypes /\ ServiceTypes /\ QueueTypes

LEMMA SpendTypes ==
    ASSUME HeldTypes, NEW kind \in Kinds, Spend(kind) PROVE used' \in [Kinds -> Nat]
<1>1. used' = [used EXCEPT ![kind] = @ + 1]
  BY DEF Spend
<1> QED
  BY <1>1 DEF HeldTypes

LEMMA MeshTyped ==
    ASSUME NEW ss, NEW n PROVE Assigned(buildFullMeshFallback(ss, n))
BY DEF Assigned, Fields, buildFullMeshFallback

LEMMA GivenTyped ==
    ASSUME ServiceTypes, NEW n \in Node PROVE Assigned(AssignmentForNode(n))
<1>1. CASE n \in DOMAIN assignments
  BY <1>1 DEF ServiceTypes, AssignmentForNode
<1>2. CASE n \notin DOMAIN assignments
  <2>1. PICK ss : ss = sets
    OBVIOUS
  <2>2. AssignmentForNode(n) = buildFullMeshFallback(ss, n)
    BY <1>2, <2>1 DEF AssignmentForNode
  <2> QED
    BY <2>2, MeshTyped
<1> QED
  BY <1>1, <1>2

LEMMA OnConfigTyped ==
    \A h, a : Assigned(h) /\ Assigned(a) => Assigned(OnConfig(h, a))
BY DEF Assigned, Fields, OnConfig

LEMMA TypeInit == Init => TypeInv
<1> SUFFICES ASSUME Init PROVE TypeInv
  OBVIOUS
<1>1. HeldTypes
  BY MeshTyped DEF Init, HeldTypes
<1>2. ReceiverTypes /\ QueueTypes
  BY DEF Init, ReceiverTypes, QueueTypes
<1>3. ServiceTypes
  BY ServiceAssumption DEF Init, ServiceTypes
<1> QED
  BY <1>1, <1>2, <1>3 DEF TypeInv

LEMMA RestartTypes ==
    ASSUME TypeInv, IInv, Restart PROVE TypeInv'
<1>1. ReceiverTypes' /\ QueueTypes'
  BY DEF Restart, TypeInv, ReceiverTypes, QueueTypes
<1>2. HeldTypes'
  <2>1. used' \in [Kinds -> Nat]
    BY SpendTypes DEF Restart, TypeInv, Kinds
  <2> QED
    BY <2>1 DEF Restart, TypeInv, HeldTypes
<1>3. /\ inc' = {} /\ due' = TRUE /\ rows' = rows /\ faults' = faults /\ faults \in 0 .. MaxFaults
  BY DEF Restart, TypeInv, ServiceTypes
<1>4. ASSUME LoadNothing PROVE ServiceTypes'
  BY <1>3, <1>4 DEF LoadNothing, ServiceTypes
<1>5. ASSUME Load PROVE ServiceTypes'
  <2>1. Latest \in rows /\ \A x \in rows : x.version <= Latest.version
    BY <1>5 DEF Load, IInv, TableInv, Latest
  <2>2. PICK row \in rows : row = Latest
    BY <2>1
  <2>a. PICK v : v = row.version
    OBVIOUS
  <2>b. PICK res : res = row.result
    OBVIOUS
  <2>3. version' = v /\ last' = {res} /\ assignments' = buildAssignments(res, v, <<>>)
    BY <1>5, <2>2, <2>a, <2>b DEF Load
  <2>4. v \in Nat /\ RolesFit(res) /\ \A r \in rows : r.version \in 1 .. v /\ RolesFit(r.result)
    BY <2>1, <2>2, <2>a, <2>b DEF TypeInv, ServiceTypes
  <2>5. \A n \in DOMAIN assignments' : n \in Node /\ Assigned(assignments'[n])
    BY <2>3, <2>4, AssignmentsTyped
  <2> QED
    BY <1>3, <2>3, <2>4, <2>5 DEF ServiceTypes
<1> QED
  BY <1>1, <1>2, <1>4, <1>5 DEF TypeInv, Restart

LEMMA NodeTypes ==
    ASSUME Fits, TypeInv, NEW n \in Node, NodeStep(n) PROVE TypeInv'
<1>1. ASSUME NEW report \in Reports, ReportIngress(n, report) PROVE TypeInv'
  <2>1. used' \in [Kinds -> Nat]
    BY <1>1, SpendTypes DEF ReportIngress, TypeInv, Kinds
  <2>2. ReceiverTypes'
    BY <1>1 DEF ReportIngress, TypeInv, ReceiverTypes
  <2> QED
    BY <1>1, <2>1, <2>2 DEF ReportIngress, service, TypeInv, HeldTypes, ServiceTypes, QueueTypes
<1>2. CASE FinishReport(n)
  <2>1. ServiceTypes' /\ QueueTypes'
    <3>1. pending \in Seq(EdgeEvents) /\ {n} \subseteq Node /\ trigger(pending, {n})
      BY <1>2 DEF FinishReport, TypeInv, QueueTypes
    <3>2. PICK events \in Seq(EdgeEvents) : events = pending
      BY <3>1
    <3> QED
      BY <3>1, <3>2, TriggerTypes DEF TypeInv
  <2> QED
    BY <1>2, <2>1 DEF FinishReport, receiver, TypeInv, HeldTypes, ReceiverTypes
<1>3. ASSUME NEW report \in Samples, ReportQuality(n, report) PROVE TypeInv'
  <2>1. used' \in [Kinds -> Nat]
    BY <1>3, SpendTypes DEF ReportQuality, TypeInv, Kinds
  <2>2. ReceiverTypes'
    BY <1>3 DEF ReportQuality, TypeInv, ReceiverTypes
  <2> QED
    BY <1>3, <2>1, <2>2 DEF ReportQuality, service, TypeInv, HeldTypes, ServiceTypes, QueueTypes
<1>4. CASE FetchConfig(n)
  <2>1. PICK a : a = AssignmentForNode(n)
    OBVIOUS
  <2>2. PICK h : h = held[n]
    OBVIOUS
  <2>3. Assigned(a) /\ Assigned(h)
    BY <2>1, <2>2, GivenTyped DEF TypeInv, HeldTypes
  <2>4. Assigned(OnConfig(h, a)) /\ held' = [held EXCEPT ![n] = OnConfig(h, a)]
    BY <1>4, <2>1, <2>2, <2>3, OnConfigTyped DEF FetchConfig
  <2>5. HeldTypes'
    BY <1>4, <2>4 DEF FetchConfig, TypeInv, HeldTypes
  <2> QED
    BY <1>4, <2>5 DEF FetchConfig, receiver, service, TypeInv, ReceiverTypes, ServiceTypes, QueueTypes
<1>5. CASE NodeRestart(n)
  <2>1. used' \in [Kinds -> Nat]
    BY <1>5, SpendTypes DEF NodeRestart, TypeInv, Kinds
  <2>2. HeldTypes'
    BY <1>5, <2>1, GivenTyped DEF NodeRestart, TypeInv, HeldTypes
  <2> QED
    BY <1>5, <2>2 DEF NodeRestart, receiver, service, TypeInv, ReceiverTypes, ServiceTypes, QueueTypes
<1> QED
  BY <1>1, <1>2, <1>3, <1>4, <1>5 DEF NodeStep

LEMMA TypeStep ==
    ASSUME Fits, TypeInv, IInv, [Next]_vars PROVE TypeInv'
<1>1. CASE Tick
  <2>1. pending \in Seq(EdgeEvents) /\ {} \subseteq Node /\ flush(pending, {})
    BY <1>1 DEF Tick, TypeInv, QueueTypes
  <2>2. PICK events \in Seq(EdgeEvents) : events = pending
    BY <2>1
  <2>3. ServiceTypes' /\ QueueTypes'
    BY <2>1, <2>2, FlushTypes DEF TypeInv
  <2> QED
    BY <1>1, <2>3 DEF Tick, receiver, TypeInv, HeldTypes, ReceiverTypes
<1>2. CASE MinIntervalElapsed
  BY <1>2 DEF MinIntervalElapsed, receiver, TypeInv, HeldTypes, ReceiverTypes, ServiceTypes, QueueTypes
<1>3. ASSUME NEW e \in EdgeEvents, OnEvent(e) PROVE TypeInv'
  <2>1. Append(pending, e) \in Seq(EdgeEvents) /\ {} \subseteq Node /\ trigger(Append(pending, e), {})
    BY <1>3 DEF OnEvent, TypeInv, QueueTypes
  <2>2. PICK events \in Seq(EdgeEvents) : events = Append(pending, e)
    BY <2>1
  <2>3. ServiceTypes' /\ QueueTypes'
    BY <2>1, <2>2, TriggerTypes DEF TypeInv
  <2>4. used' \in [Kinds -> Nat]
    BY <1>3, SpendTypes DEF OnEvent, TypeInv, Kinds
  <2> QED
    BY <1>3, <2>3, <2>4 DEF OnEvent, receiver, TypeInv, HeldTypes, ReceiverTypes
<1>4. CASE Restart
  BY <1>4, RestartTypes
<1>5. CASE UNCHANGED vars
  BY <1>5 DEF vars, receiver, service, TypeInv, HeldTypes, ReceiverTypes, ServiceTypes, QueueTypes
<1> QED
  BY <1>1, <1>2, <1>3, <1>4, <1>5, NodeTypes DEF Next, ControllerStep

\* The variables of the service keep their types, no saved version is ahead of the counter,
\* and a node holds a role, for any optimizer whose roles are roles of nodes.
THEOREM ServiceTypesHold == ASSUME Fits PROVE Spec => []TypeOK
<1>1. TypeInv => TypeOK
  <2> SUFFICES ASSUME TypeInv PROVE TypeOK
    OBVIOUS
  <2>1. inc = {} \/ \E x \in inc : inc = {x}
    BY DEF TypeInv, ServiceTypes
  <2>2. last = {} \/ \E x \in last : last = {x}
    BY DEF TypeInv, ServiceTypes
  <2>3. \A S : (S = {} \/ \E x \in S : S = {x}) => Cardinality(S) <= 1
    <3>1. ASSUME NEW S, S = {} PROVE Cardinality(S) <= 1
      BY <3>1, FS_EmptySet
    <3>2. ASSUME NEW S, NEW x, S = {x} PROVE Cardinality(S) <= 1
      BY <3>2, FS_Singleton
    <3> QED
      BY <3>1, <3>2
  <2>4. Cardinality(inc) <= 1 /\ Cardinality(last) <= 1
    BY <2>1, <2>2, <2>3
  <2> QED
    BY <2>4 DEF TypeInv, HeldTypes, ReceiverTypes, ServiceTypes, QueueTypes, Assigned, TypeOK
<1>2. TypeInv /\ IInv /\ [Next]_vars => TypeInv'
  BY TypeStep
<1> QED
  BY <1>1, <1>2, TypeInit, ServiceInvariant, PTL DEF Spec
\* A function defined by steps exists: the first place where it would not cannot be.
ByStep(f, n, z, next) == f[0] = z /\ \A i \in 1 .. n : f[i] = next[i][f[i - 1]]
LEMMA RecursionExists ==
  ASSUME NEW n \in Nat, NEW S, NEW z \in S, NEW next \in [1 .. n -> [S -> S]]
  PROVE  \E f \in [0 .. n -> S] : ByStep(f, n, z, next)
<1> DEFINE Upto(m) == \E f \in [0 .. m -> S] : f[0] = z /\ \A i \in 1 .. m : f[i] = next[i][f[i - 1]]
           Bad == {m \in 0 .. n : ~Upto(m)}
<1>1. Upto(0)
  <2>1. PICK f : f = [i \in 0 .. 0 |-> z]
    OBVIOUS
  <2>2. f \in [0 .. 0 -> S] /\ f[0] = z /\ \A i \in 1 .. 0 : f[i] = next[i][f[i - 1]]
    BY <2>1
  <2> QED
    BY <2>2
<1>2. ASSUME NEW m \in 1 .. n, Upto(m - 1) PROVE Upto(m)
  <2>1. PICK g \in [0 .. m - 1 -> S] : g[0] = z /\ \A i \in 1 .. m - 1 : g[i] = next[i][g[i - 1]]
    BY <1>2
  <2>2. PICK f : f = [i \in 0 .. m |-> IF i = m THEN next[m][g[m - 1]] ELSE g[i]]
    OBVIOUS
  <2>3. next[m] \in [S -> S] /\ g[m - 1] \in S
    BY <2>1
  <2>4. f \in [0 .. m -> S] /\ f[m] = next[m][g[m - 1]] /\ \A i \in 0 .. m - 1 : f[i] = g[i]
    BY <2>2, <2>3
  <2>5. f[0] = z /\ \A i \in 1 .. m : f[i] = next[i][f[i - 1]]
    BY <2>1, <2>4
  <2> QED
    BY <2>4, <2>5
<1>3. ASSUME Bad # {} PROVE FALSE
  <2>1. PICK m \in Bad : \A k \in Bad : ~(<<k, m>> \in OpToRel(<, Nat))
    <3>1. Bad \subseteq Nat
      OBVIOUS
    <3> HIDE DEF Bad
    <3> QED
      BY <1>3, <3>1, NatLessThanWellFounded, WFMin
  <2>2. m \in 0 .. n /\ ~Upto(m)
    BY <2>1
  <2>3. \A k \in 0 .. n : k < m => Upto(k)
    <3> HIDE DEF Upto
    <3> TAKE k \in 0 .. n
    <3> HAVE k < m
    <3>1. <<k, m>> \in OpToRel(<, Nat)
      BY <2>2 DEF OpToRel
    <3>2. k \notin Bad
      BY <2>1, <3>1
    <3> QED
      BY <3>2
  <2>4. m # 0
    BY <1>1, <2>2
  <2>5. m \in 1 .. n /\ Upto(m - 1)
    <3> HIDE DEF Upto
    <3> QED
      BY <2>2, <2>3, <2>4
  <2> HIDE DEF Upto
  <2> QED
    BY <1>2, <2>2, <2>5
<1>4. n \notin Bad
  BY <1>3
<1>5. PICK f \in [0 .. n -> S] : f[0] = z /\ \A i \in 1 .. n : f[i] = next[i][f[i - 1]]
  BY <1>4
<1>6. ByStep(f, n, z, next)
  BY <1>5 DEF ByStep
<1> QED
  BY <1>5, <1>6

\* What the first value has and every step keeps, all values have.
LEMMA StaysIn ==
  ASSUME NEW n \in Nat, NEW S, NEW f, f[0] \in S, \A i \in 1 .. n : f[i - 1] \in S => f[i] \in S
  PROVE  \A i \in 0 .. n : f[i] \in S
<1> DEFINE Bad == {i \in 0 .. n : f[i] \notin S}
<1>1. ASSUME Bad # {} PROVE FALSE
  <2>1. Bad \subseteq Nat
    OBVIOUS
  <2>2. PICK m \in Bad : \A k \in Bad : ~(<<k, m>> \in OpToRel(<, Nat))
    <3> HIDE DEF Bad
    <3> QED
      BY <1>1, <2>1, NatLessThanWellFounded, WFMin
  <2>3. m \in 0 .. n /\ f[m] \notin S
    BY <2>2
  <2>4. m # 0
    BY <2>3
  <2>5. m \in 1 .. n /\ m - 1 \in 0 .. n
    BY <2>3, <2>4
  <2>6. PICK k : k = m - 1
    OBVIOUS
  <2>7. <<k, m>> \in OpToRel(<, Nat)
    BY <2>5, <2>6 DEF OpToRel
  <2>8. k \notin Bad
    BY <2>2, <2>7
  <2>9. f[m - 1] \in S
    BY <2>5, <2>6, <2>8
  <2> QED
    BY <2>3, <2>5, <2>9
<1> QED
  BY <1>1

-----------------------------------------------------------------------------
(***************************************************************************)
(* The forwarding tables. First what Reached finds in any graph of a       *)
(* finite set of nodes, then the invariant of computeFIB and the pruning.  *)
(***************************************************************************)
Graphs == [TransitNodes -> SUBSET TransitNodes]
Onward(g, S) == S \cup UNION {g[m] : m \in S}
Layers(f, g, from) ==
    /\ f \in [0 .. Cardinality(TransitNodes) -> SUBSET TransitNodes]
    /\ f[0] = g[from]
    /\ \A i \in 1 .. Cardinality(TransitNodes) : f[i] = Onward(g, f[i - 1])

LEMMA NodeCount == Cardinality(TransitNodes) \in Nat
BY ForwardingAssumption, FS_CardinalityType

\* Reached is the last of the layers its recursive function goes through.
LEMMA ReachedByLayers ==
  ASSUME NEW g \in Graphs, NEW from \in TransitNodes
  PROVE  \E f : Layers(f, g, from) /\ Reached(g, from) = f[Cardinality(TransitNodes)]
<1> DEFINE S == SUBSET TransitNodes
<1>1. PICK n : n = Cardinality(TransitNodes)
  OBVIOUS
<1>2. n \in Nat
  BY <1>1, NodeCount
<1>3. PICK next : next = [i \in 1 .. n |-> [q \in S |-> Onward(g, q)]]
  OBVIOUS
<1>4. next \in [1 .. n -> [S -> S]] /\ \A i \in 1 .. n : \A q \in S : next[i][q] = Onward(g, q)
  <2>1. ASSUME NEW q \in S PROVE Onward(g, q) \in S
    BY DEF Onward, Graphs
  <2> HIDE DEF S
  <2> QED
    BY <1>3, <2>1
<1>5. g[from] \in S
  BY DEF Graphs
<1>6. PICK f \in [0 .. n -> S] : ByStep(f, n, g[from], next)
  <2> HIDE DEF S
  <2> QED
    BY <1>2, <1>4, <1>5, RecursionExists
<1>7. f[0] = g[from] /\ \A i \in 1 .. n : f[i] = Onward(g, f[i - 1])
  <2>1. f[0] = g[from] /\ \A i \in 1 .. n : f[i] = next[i][f[i - 1]]
    BY <1>6 DEF ByStep
  <2>2. \A i \in 1 .. n : f[i - 1] \in S
    BY <1>2, <1>6
  <2> HIDE DEF S
  <2> QED
    BY <1>4, <2>1, <2>2
<1> DEFINE Rec(h) == [i \in 0 .. Cardinality(TransitNodes) |->
                        IF i = 0 THEN g[from] ELSE h[i - 1] \cup UNION {g[m] : m \in h[i - 1]}]
           more == CHOOSE h : h = Rec(h)
<1>8. f = Rec(f)
  <2>1. f = [i \in 0 .. n |-> f[i]]
    BY <1>6
  <2>2. \A i \in 0 .. n : f[i] = IF i = 0 THEN g[from] ELSE f[i - 1] \cup UNION {g[m] : m \in f[i - 1]}
    BY <1>2, <1>7 DEF Onward
  <2> QED
    BY <1>1, <2>1, <2>2
<1>9. more = Rec(more)
  <2> HIDE DEF Rec
  <2> QED
    BY <1>8, Zenon
<1>10. PICK w : w = Rec(w) /\ Reached(g, from) = w[n]
  <2>1. Reached(g, from) = more[n]
    BY <1>1 DEF Reached
  <2> HIDE DEF Rec, more
  <2> QED
    BY <1>9, <2>1
<1>11. w[0] = g[from] /\ \A i \in 1 .. n : w[i] = Onward(g, w[i - 1])
  <2>1. \A i \in 0 .. n : w[i] = Rec(w)[i]
    <3> HIDE DEF Rec
    <3> QED
      BY <1>10
  <2>2. 0 \in 0 .. Cardinality(TransitNodes)
    BY <1>1, <1>2
  <2>3. w[0] = g[from]
    BY <1>1, <2>1, <2>2
  <2>4. ASSUME NEW i \in 1 .. n PROVE w[i] = Onward(g, w[i - 1])
    <3>1. i \in 0 .. Cardinality(TransitNodes) /\ i # 0
      BY <1>1, <1>2
    <3>2. w[i] = Rec(w)[i]
      <4> HIDE DEF Rec
      <4> QED
        BY <1>1, <2>1, <3>1
    <3> QED
      BY <3>1, <3>2 DEF Onward
  <2> QED
    BY <2>3, <2>4
<1>12. \A i \in 0 .. n : w[i] = f[i]
  <2> DEFINE One == {1}
  <2>1. PICK same : same = [i \in 0 .. n |-> IF w[i] = f[i] THEN 1 ELSE 0]
    OBVIOUS
  <2>2. same[0] \in One
    BY <1>2, <1>7, <1>11, <2>1
  <2>3. \A i \in 1 .. n : same[i - 1] \in One => same[i] \in One
    BY <1>2, <1>7, <1>11, <2>1
  <2>4. \A i \in 0 .. n : same[i] \in One
    <3> HIDE DEF One
    <3> QED
      BY <1>2, <2>2, <2>3, StaysIn
  <2> QED
    BY <2>1, <2>4
<1>13. Layers(f, g, from) /\ Reached(g, from) = f[Cardinality(TransitNodes)]
  <2>1. w[n] = f[n]
    BY <1>2, <1>12
  <2> QED
    BY <1>1, <1>6, <1>7, <1>10, <2>1 DEF Layers
<1> QED
  BY <1>13

\* What a layer has, the last one has.
LEMMA LayersGrow ==
  ASSUME NEW g, NEW from, NEW f, Layers(f, g, from), NEW i \in 0 .. Cardinality(TransitNodes)
  PROVE  f[i] \subseteq f[Cardinality(TransitNodes)]
<1>1. PICK n : n = Cardinality(TransitNodes)
  OBVIOUS
<1>2. n \in Nat /\ i \in 0 .. n
  BY <1>1, NodeCount
<1>3. PICK h : h = [k \in 0 .. n |-> IF k < i THEN f[i] ELSE f[k]]
  OBVIOUS
<1> DEFINE S == {x \in SUBSET TransitNodes : f[i] \subseteq x}
<1>4. h[0] \in S
  <2>1. f[i] \in SUBSET TransitNodes /\ (i = 0 => f[0] = f[i])
    BY <1>1, <1>2 DEF Layers
  <2>2. h[0] = f[i]
    BY <1>2, <1>3, <2>1
  <2> QED
    BY <2>1, <2>2
<1>5. ASSUME NEW k \in 1 .. n, h[k - 1] \in S PROVE h[k] \in S
  <2>1. CASE k <= i
    <3>1. h[k] = f[i] /\ f[i] \in SUBSET TransitNodes
      BY <1>1, <1>2, <1>3, <2>1 DEF Layers
    <3> QED
      BY <3>1
  <2>2. CASE k > i
    <3>1. h[k] = f[k] /\ h[k - 1] = f[k - 1]
      BY <1>2, <1>3, <2>2
    <3>2. f[k] \in SUBSET TransitNodes /\ f[k] = Onward(g, f[k - 1])
      BY <1>1, <1>2 DEF Layers
    <3> QED
      BY <1>5, <3>1, <3>2 DEF Onward
  <2> QED
    BY <1>2, <2>1, <2>2
<1>6. \A k \in 0 .. n : h[k] \in S
  <2> HIDE DEF S
  <2> QED
    BY <1>2, <1>4, <1>5, StaysIn
<1>7. h[n] = f[n]
  BY <1>2, <1>3
<1> QED
  BY <1>1, <1>2, <1>6, <1>7

\* A node that reaches itself does so over an edge that closes the circle.
LEMMA CircleCloses ==
  ASSUME NEW g \in Graphs, \A n \in TransitNodes : n \notin g[n], Circular(g)
  PROVE  ClosingEdges(g) # {}
<1>1. PICK n \in TransitNodes : n \in Reached(g, n)
  BY DEF Circular
<1>2. PICK f : Layers(f, g, n) /\ Reached(g, n) = f[Cardinality(TransitNodes)]
  BY ReachedByLayers
<1>3. PICK K : K = Cardinality(TransitNodes)
  OBVIOUS
<1>4. K \in Nat
  BY <1>3, NodeCount
<1> DEFINE Without == {x \in SUBSET TransitNodes : n \notin x}
<1>5. f[0] \in Without
  BY <1>2 DEF Layers, Graphs
<1>6. \E i \in 1 .. K : f[i - 1] \in Without /\ f[i] \notin Without
  <2>1. SUFFICES ASSUME \A i \in 1 .. K : f[i - 1] \in Without => f[i] \in Without PROVE FALSE
    OBVIOUS
  <2>2. \A i \in 0 .. K : f[i] \in Without
    <3> HIDE DEF Without
    <3> QED
      BY <1>4, <1>5, <2>1, StaysIn
  <2>3. f[K] \in Without
    <3> HIDE DEF Without
    <3> QED
      BY <1>4, <2>2
  <2> QED
    BY <1>1, <1>2, <1>3, <2>3
<1>7. PICK i \in 1 .. K : f[i - 1] \in Without /\ f[i] \notin Without
  BY <1>6
<1>8. f[i] \in SUBSET TransitNodes /\ f[i] = Onward(g, f[i - 1])
  BY <1>2, <1>3, <1>4 DEF Layers
<1>9. PICK m \in f[i - 1] : n \in g[m]
  BY <1>7, <1>8 DEF Onward
<1>10. m \in TransitNodes /\ m # n
  BY <1>7, <1>9
<1>11. m \in Reached(g, n)
  <2>1. PICK k : k = i - 1
    OBVIOUS
  <2>2. k \in 0 .. Cardinality(TransitNodes)
    BY <1>3, <1>4, <2>1
  <2>3. f[k] \subseteq f[Cardinality(TransitNodes)]
    BY <1>2, <2>2, LayersGrow
  <2> QED
    BY <1>2, <1>9, <2>1, <2>3
<1>12. <<m, n>> \in ClosingEdges(g)
  <2>1. <<m, n>>[1] = m /\ <<m, n>>[2] = n
    OBVIOUS
  <2>2. <<m, n>> \in FibPairs
    BY <1>10, <2>1 DEF FibPairs
  <2>3. <<m, n>> \in AnyEdge(g)
    BY <1>9, <2>1, <2>2 DEF AnyEdge
  <2> QED
    BY <1>11, <2>1, <2>3 DEF ClosingEdges
<1> QED
  BY <1>12

\* A set a step adds nothing to, no further step adds to; the layers come to one before
\* they run out of nodes.
ClosedIn(g, S) == \A m \in S : g[m] \subseteq S

LEMMA ReachedIsClosed ==
  ASSUME NEW g \in Graphs, NEW from \in TransitNodes
  PROVE  ClosedIn(g, Reached(g, from)) /\ g[from] \subseteq Reached(g, from)
<1>1. PICK f : Layers(f, g, from) /\ Reached(g, from) = f[Cardinality(TransitNodes)]
  BY ReachedByLayers
<1>2. PICK K : K = Cardinality(TransitNodes)
  OBVIOUS
<1>3. K \in Nat
  BY <1>2, NodeCount
<1> DEFINE Large(i, x) == Cardinality(x) >= i + 1
           S == {q \in Nat \X SUBSET TransitNodes : Large(q[1], q[2]) \/ ClosedIn(g, q[2])}
<1>4. PICK h : h = [i \in 0 .. K |-> <<i, f[i]>>]
  OBVIOUS
<1>5. \A i \in 0 .. K : h[i] = <<i, f[i]>> /\ f[i] \in SUBSET TransitNodes
  BY <1>1, <1>2, <1>4 DEF Layers
<1>6. h[0] \in S
  <2>1. h[0] = <<0, f[0]>> /\ f[0] \in SUBSET TransitNodes
    BY <1>3, <1>5
  <2>2. CASE f[0] = {}
    BY <2>1, <2>2 DEF ClosedIn
  <2>3. CASE f[0] # {}
    <3>1. IsFiniteSet(f[0])
      BY <2>1, ForwardingAssumption, FS_Subset
    <3>2. Cardinality(f[0]) \in Nat /\ Cardinality(f[0]) # 0
      BY <2>3, <3>1, FS_CardinalityType, FS_EmptySet
    <3>3. Large(0, f[0])
      BY <3>2
    <3> HIDE DEF Large
    <3> QED
      BY <2>1, <3>3
  <2> QED
    BY <2>2, <2>3
<1>7. ASSUME NEW i \in 1 .. K, h[i - 1] \in S PROVE h[i] \in S
  <2>1. PICK k : k = i - 1
    OBVIOUS
  <2>2. i \in Nat /\ i \in 0 .. K /\ k \in 0 .. K /\ k \in Nat /\ i = k + 1
    BY <1>3, <2>1
  <2>3. h[i] = <<i, f[i]>> /\ h[k] = <<k, f[k]>> /\ f[i] \in SUBSET TransitNodes /\ f[k] \in SUBSET TransitNodes
    BY <1>5, <2>2
  <2>4. f[i] = Onward(g, f[k])
    BY <1>1, <1>2, <2>1 DEF Layers
  <2>5. Large(k, f[k]) \/ ClosedIn(g, f[k])
    <3> HIDE DEF Large
    <3> QED
      BY <1>7, <2>1, <2>3
  <2>6. CASE ClosedIn(g, f[k])
    <3>1. f[i] = f[k]
      BY <2>4, <2>6 DEF Onward, ClosedIn
    <3> HIDE DEF Large
    <3> QED
      BY <2>2, <2>3, <2>6, <3>1
  <2>7. CASE Large(k, f[k]) /\ ~ClosedIn(g, f[k])
    <3>1. PICK x \in f[i] : x \notin f[k]
      BY <2>4, <2>7 DEF Onward, ClosedIn
    <3>2. f[k] \cup {x} \subseteq f[i] /\ IsFiniteSet(f[i]) /\ IsFiniteSet(f[k])
      BY <2>3, <2>4, <3>1, ForwardingAssumption, FS_Subset DEF Onward
    <3>3. Cardinality(f[k] \cup {x}) = Cardinality(f[k]) + 1
      BY <3>1, <3>2, FS_AddElement
    <3>4. Cardinality(f[k] \cup {x}) <= Cardinality(f[i])
      BY <3>2, FS_Subset
    <3>5. Cardinality(f[k]) \in Nat /\ Cardinality(f[i]) \in Nat
      BY <3>2, FS_CardinalityType
    <3>6. Large(i, f[i])
      BY <2>2, <2>7, <3>3, <3>4, <3>5
    <3> HIDE DEF Large
    <3> QED
      BY <2>2, <2>3, <3>6
  <2> QED
    BY <2>5, <2>6, <2>7
<1>8. \A i \in 0 .. K : h[i] \in S
  <2> HIDE DEF S
  <2> QED
    BY <1>3, <1>6, <1>7, StaysIn
<1>9. Large(K, f[K]) \/ ClosedIn(g, f[K])
  <2>1. K \in 0 .. K
    BY <1>3
  <2>2. <<K, f[K]>> \in S
    <3> HIDE DEF S
    <3> QED
      BY <1>5, <1>8, <2>1
  <2> HIDE DEF Large
  <2> QED
    BY <2>2
<1>10. ~Large(K, f[K])
  <2>1. f[K] \subseteq TransitNodes
    BY <1>3, <1>5
  <2>2. IsFiniteSet(f[K]) /\ Cardinality(f[K]) <= K
    BY <1>2, <2>1, ForwardingAssumption, FS_Subset
  <2>3. Cardinality(f[K]) \in Nat
    BY <2>2, FS_CardinalityType
  <2> QED
    BY <1>3, <2>2, <2>3
<1>11. g[from] \subseteq f[K]
  <2>1. f[0] = g[from] /\ 0 \in 0 .. Cardinality(TransitNodes)
    BY <1>1, <1>2, <1>3 DEF Layers
  <2>2. f[0] \subseteq f[Cardinality(TransitNodes)]
    BY <1>1, <2>1, LayersGrow
  <2> QED
    BY <1>2, <2>1, <2>2
<1> QED
  BY <1>1, <1>2, <1>9, <1>10, <1>11

\* An edge that closes a circle is on one.
LEMMA ClosingIsCircular ==
  ASSUME NEW g \in Graphs, ClosingEdges(g) # {}
  PROVE  Circular(g)
<1>1. PICK p \in FibPairs : p[2] \in g[p[1]] /\ p[1] \in Reached(g, p[2])
  BY DEF ClosingEdges, AnyEdge
<1>2. p[1] \in TransitNodes /\ p[2] \in TransitNodes
  BY DEF FibPairs
<1>3. p[2] \in Reached(g, p[2])
  BY <1>1, <1>2, ReachedIsClosed DEF ClosedIn
<1> QED
  BY <1>2, <1>3 DEF Circular

\* A graph with fewer edges leads no further.
LEMMA FewerReach ==
  ASSUME NEW g \in Graphs, NEW h \in Graphs, NEW from \in TransitNodes,
         \A n \in TransitNodes : h[n] \subseteq g[n]
  PROVE  Reached(h, from) \subseteq Reached(g, from)
<1>1. PICK f : Layers(f, h, from) /\ Reached(h, from) = f[Cardinality(TransitNodes)]
  BY ReachedByLayers
<1>2. PICK K : K = Cardinality(TransitNodes)
  OBVIOUS
<1>3. K \in Nat
  BY <1>2, NodeCount
<1>4. ClosedIn(g, Reached(g, from)) /\ g[from] \subseteq Reached(g, from)
  BY ReachedIsClosed
<1> DEFINE S == {x \in SUBSET TransitNodes : x \subseteq Reached(g, from)}
<1>5. f[0] \in S
  BY <1>1, <1>4 DEF Layers, Graphs
<1>6. ASSUME NEW i \in 1 .. K, f[i - 1] \in S PROVE f[i] \in S
  <2>1. f[i] \in SUBSET TransitNodes /\ f[i] = Onward(h, f[i - 1])
    BY <1>1, <1>2, <1>3 DEF Layers
  <2>2. ASSUME NEW m \in f[i - 1] PROVE h[m] \subseteq Reached(g, from)
    BY <1>4, <1>6 DEF ClosedIn
  <2> QED
    BY <1>6, <2>1, <2>2 DEF Onward
<1>7. \A i \in 0 .. K : f[i] \in S
  <2> HIDE DEF S
  <2> QED
    BY <1>3, <1>5, <1>6, StaysIn
<1> QED
  BY <1>1, <1>2, <1>3, <1>7

(***************************************************************************)
(* The tables and the graph are kept in step; a table that lost a hop had  *)
(* one that led in a circle. Nothing is used of the base routes but that   *)
(* their first hop is another node.                                        *)
(***************************************************************************)
FibTypes ==
    /\ firsts \in [FibPairs -> SUBSET TransitNodes] /\ vips \subseteq TransitNodes
    /\ fib \in [TransitNodes -> [TransitNodes -> SUBSET TransitNodes]]
    /\ fibStep \in {"build", "prune", "done"}

HopsLead ==
    /\ \A p \in FibPairs : p[1] \notin firsts[p] /\ fib[p[1]][p[2]] \subseteq firsts[p]
    /\ \A s \in TransitNodes : fib[s][s] = {}

PrunedForCircles ==
    fibStep # "build" => fib = buildPerSourceFIB \/ Circular(buildForwardingGraph(buildPerSourceFIB))

FibInv ==
    /\ FibTypes /\ HopsLead /\ PrunedForCircles
    /\ graph = buildForwardingGraph(fib)
    /\ fibStep = "done" => ClosingEdges(graph) = {}

LEMMA GraphOfTables ==
  ASSUME NEW t \in [TransitNodes -> [TransitNodes -> SUBSET TransitNodes]]
  PROVE  /\ buildForwardingGraph(t) \in Graphs
         /\ \A s, d \in TransitNodes : t[s][d] \subseteq buildForwardingGraph(t)[s]
         /\ \A s, h \in TransitNodes : h \in buildForwardingGraph(t)[s] => \E d \in TransitNodes : h \in t[s][d]
<1>1. \A s \in TransitNodes : buildForwardingGraph(t)[s] = UNION {t[s][d] : d \in TransitNodes}
  BY DEF buildForwardingGraph
<1>2. ASSUME NEW s \in TransitNodes PROVE UNION {t[s][d] : d \in TransitNodes} \subseteq TransitNodes
  OBVIOUS
<1>3. buildForwardingGraph(t) \in Graphs
  BY <1>2 DEF buildForwardingGraph, Graphs
<1> QED
  BY <1>1, <1>3

LEMMA NoHopBack == FibInv => graph \in Graphs /\ \A n \in TransitNodes : n \notin graph[n]
<1> SUFFICES ASSUME FibInv PROVE graph \in Graphs /\ \A n \in TransitNodes : n \notin graph[n]
  OBVIOUS
<1>1. graph \in Graphs /\ \A s, h \in TransitNodes : h \in graph[s] => \E d \in TransitNodes : h \in fib[s][d]
  BY GraphOfTables DEF FibInv, FibTypes
<1>2. ASSUME NEW n \in TransitNodes, n \in graph[n] PROVE FALSE
  <2>1. PICK d \in TransitNodes : n \in fib[n][d]
    BY <1>1, <1>2
  <2>2. d # n
    BY <2>1 DEF FibInv, HopsLead
  <2>3. PICK p : p = <<n, d>>
    OBVIOUS
  <2>4. p \in FibPairs /\ p[1] = n /\ p[2] = d
    BY <2>2, <2>3 DEF FibPairs
  <2> QED
    BY <2>1, <2>4 DEF FibInv, HopsLead
<1> QED
  BY <1>1, <1>2

\* Before a table is built, whatever the base routes are.
AnyRoutesInit ==
    /\ firsts \in [FibPairs -> SUBSET TransitNodes] /\ \A p \in FibPairs : p[1] \notin firsts[p]
    /\ vips \in SUBSET TransitNodes
    /\ fib = NoEntries /\ graph = [s \in TransitNodes |-> {}] /\ fibStep = "build"

LEMMA FibInvInit == AnyRoutesInit => FibInv
<1> SUFFICES ASSUME AnyRoutesInit PROVE FibInv
  OBVIOUS
<1> USE DEF AnyRoutesInit
<1>1. \A s, d \in TransitNodes : fib[s][d] = {}
  BY DEF NoEntries
<1>2. FibTypes
  BY DEF FibTypes, NoEntries
<1>3. HopsLead
  BY <1>1 DEF HopsLead, FibPairs
<1>4. graph = buildForwardingGraph(fib)
  <2>1. ASSUME NEW s \in TransitNodes PROVE UNION {fib[s][d] : d \in TransitNodes} = {}
    BY <1>1
  <2> QED
    BY <2>1 DEF buildForwardingGraph
<1> QED
  BY <1>2, <1>3, <1>4 DEF FibInv, PrunedForCircles

LEMMA BaseRoutesAreRoutes == FibInit => AnyRoutesInit
<1> SUFFICES ASSUME FibInit PROVE AnyRoutesInit
  OBVIOUS
<1>1. PICK links \in SUBSET FibPairs, direct \in SUBSET FibPairs, k \in FibRouteKs : firsts = BaseRoutes(links, direct, k)
  BY DEF FibInit
<1>2. ASSUME NEW p \in FibPairs
      PROVE  firsts[p] \subseteq TransitNodes /\ p[1] \notin firsts[p]
  <2>1. Ways(links, p) \subseteq TransitNodes \ {p[1]}
    BY DEF Ways
  <2>2. p[2] \in TransitNodes /\ p[2] # p[1]
    BY DEF FibPairs
  <2>3. firsts[p] = Ways(links, p) \/ firsts[p] = {p[2]} \/ firsts[p] = Ways(links, p) \ {p[2]}
    BY <1>1 DEF BaseRoutes
  <2> QED
    BY <2>1, <2>2, <2>3
<1>3. firsts \in [FibPairs -> SUBSET TransitNodes]
  <2>1. firsts = [p \in FibPairs |-> firsts[p]]
    BY <1>1 DEF BaseRoutes
  <2> QED
    BY <1>2, <2>1
<1> QED
  BY <1>2, <1>3 DEF FibInit, AnyRoutesInit

LEMMA BuiltTables ==
  ASSUME FibInv
  PROVE  /\ buildPerSourceFIB \in [TransitNodes -> [TransitNodes -> SUBSET TransitNodes]]
         /\ \A p \in FibPairs : buildPerSourceFIB[p[1]][p[2]] \subseteq firsts[p]
         /\ \A s \in TransitNodes : buildPerSourceFIB[s][s] = {}
<1>1. ASSUME NEW s \in TransitNodes, NEW d \in TransitNodes
      PROVE  /\ buildPerSourceFIB[s][d] \subseteq TransitNodes
             /\ s # d => buildPerSourceFIB[s][d] \subseteq firsts[<<s, d>>]
             /\ s = d => buildPerSourceFIB[s][d] = {}
  <2>1. buildPerSourceFIB[s][d] = IF s # d /\ d \in vips THEN firsts[<<s, d>>] ELSE {}
    BY DEF buildPerSourceFIB
  <2>2. s # d => <<s, d>> \in FibPairs
    BY DEF FibPairs
  <2> QED
    BY <2>1, <2>2 DEF FibInv, FibTypes
<1>2. buildPerSourceFIB \in [TransitNodes -> [TransitNodes -> SUBSET TransitNodes]]
  <2>1. \A s, d \in TransitNodes : (IF s # d /\ d \in vips THEN firsts[<<s, d>>] ELSE {}) \in SUBSET TransitNodes
    BY <1>1 DEF buildPerSourceFIB
  <2> QED
    BY <2>1 DEF buildPerSourceFIB
<1>3. ASSUME NEW p \in FibPairs PROVE buildPerSourceFIB[p[1]][p[2]] \subseteq firsts[p]
  <2>1. p[1] \in TransitNodes /\ p[2] \in TransitNodes /\ p[1] # p[2] /\ p = <<p[1], p[2]>>
    BY DEF FibPairs
  <2> QED
    BY <1>1, <2>1
<1> QED
  BY <1>1, <1>2, <1>3

LEMMA BuildKeeps == FibInv /\ Build => FibInv'
<1> SUFFICES ASSUME FibInv, Build PROVE FibInv'
  OBVIOUS
<1>1. /\ fib' = buildPerSourceFIB /\ graph' = buildForwardingGraph(fib')
      /\ firsts' = firsts /\ vips' = vips /\ fibStep' = "prune"
  BY DEF Build
<1>2. buildPerSourceFIB' = buildPerSourceFIB
  BY <1>1 DEF buildPerSourceFIB
<1>3. FibTypes'
  BY <1>1, BuiltTables DEF FibTypes, FibInv
<1>4. HopsLead'
  BY <1>1, BuiltTables DEF HopsLead, FibInv
<1>5. PrunedForCircles'
  BY <1>1, <1>2 DEF PrunedForCircles
<1>6. (fibStep = "done" => ClosingEdges(graph) = {})'
  BY <1>1
<1> QED
  BY <1>1, <1>3, <1>4, <1>5, <1>6 DEF FibInv

LEMMA PruneKeeps ==
  ASSUME FibInv, NEW e \in FibPairs, PruneEdge(e)
  PROVE  FibInv'
<1>1. /\ fibStep = "prune" /\ fibStep' = "prune" /\ e \in ClosingEdges(graph)
      /\ graph' = [graph EXCEPT ![e[1]] = @ \ {e[2]}]
      /\ fib' = [fib EXCEPT ![e[1]] = [d \in TransitNodes |-> @[d] \ {e[2]}]]
      /\ firsts' = firsts /\ vips' = vips
  BY DEF PruneEdge, removeNextHop
<1>2. FibTypes /\ HopsLead /\ graph = buildForwardingGraph(fib) /\ graph \in Graphs
  BY GraphOfTables DEF FibInv, FibTypes
<1>3. PICK a, b : a = e[1] /\ b = e[2]
  OBVIOUS
<1>4. a \in TransitNodes
  BY <1>3 DEF FibPairs
<1>5. \A s, d \in TransitNodes : fib'[s][d] = IF s = a THEN fib[s][d] \ {b} ELSE fib[s][d]
  BY <1>1, <1>2, <1>3, <1>4 DEF FibTypes
<1>6. fib' \in [TransitNodes -> [TransitNodes -> SUBSET TransitNodes]]
  BY <1>1, <1>2, <1>3, <1>4 DEF FibTypes
<1>7. FibTypes'
  BY <1>1, <1>2, <1>6 DEF FibTypes
<1>8. HopsLead'
  <2>1. \A s, d \in TransitNodes : fib'[s][d] \subseteq fib[s][d]
    BY <1>5
  <2>2. \A p \in FibPairs : p[1] \in TransitNodes /\ p[2] \in TransitNodes
    BY DEF FibPairs
  <2> QED
    BY <1>1, <1>2, <2>1, <2>2 DEF HopsLead
<1>9. (graph = buildForwardingGraph(fib))'
  <2>1. \A s \in TransitNodes : graph[s] = UNION {fib[s][d] : d \in TransitNodes}
    BY <1>2 DEF buildForwardingGraph
  <2>2. \A s \in TransitNodes : graph'[s] = IF s = a THEN graph[s] \ {b} ELSE graph[s]
    BY <1>1, <1>2, <1>3, <1>4 DEF Graphs
  <2>3. ASSUME NEW s \in TransitNodes PROVE graph'[s] = UNION {fib'[s][d] : d \in TransitNodes}
    <3>1. CASE s = a
      <4>1. graph'[s] = (UNION {fib[s][d] : d \in TransitNodes}) \ {b}
        BY <2>1, <2>2, <3>1
      <4>2. \A d \in TransitNodes : fib'[s][d] = fib[s][d] \ {b}
        BY <1>5, <3>1
      <4> QED
        BY <4>1, <4>2
    <3>2. CASE s # a
      <4>1. graph'[s] = UNION {fib[s][d] : d \in TransitNodes}
        BY <2>1, <2>2, <3>2
      <4>2. \A d \in TransitNodes : fib'[s][d] = fib[s][d]
        BY <1>5, <3>2
      <4> QED
        BY <4>1, <4>2
    <3> QED
      BY <3>1, <3>2
  <2>4. graph' = [s \in TransitNodes |-> graph'[s]]
    BY <1>1, <1>2 DEF Graphs
  <2> QED
    BY <2>3, <2>4 DEF buildForwardingGraph
<1>10. PrunedForCircles'
  <2>1. Circular(graph)
    BY <1>1, <1>2, ClosingIsCircular
  <2>2. Circular(buildForwardingGraph(buildPerSourceFIB))
    BY <1>1, <1>2, <2>1 DEF FibInv, PrunedForCircles
  <2>3. buildPerSourceFIB' = buildPerSourceFIB
    BY <1>1 DEF buildPerSourceFIB
  <2> QED
    BY <2>2, <2>3 DEF PrunedForCircles
<1>11. (fibStep = "done" => ClosingEdges(graph) = {})'
  BY <1>1
<1> QED
  BY <1>7, <1>8, <1>9, <1>10, <1>11 DEF FibInv

LEMMA FibInvStep == FibInv /\ [FibNext]_fibVars => FibInv'
<1> SUFFICES ASSUME FibInv, [FibNext]_fibVars PROVE FibInv'
  OBVIOUS
<1>1. CASE Build
  BY <1>1, BuildKeeps
<1>2. CASE Convert \/ UNCHANGED fibVars
  <2>1. /\ firsts' = firsts /\ vips' = vips /\ fib' = fib /\ graph' = graph
        /\ fibStep' = fibStep \/ (fibStep = "prune" /\ fibStep' = "done" /\ ClosingEdges(graph) = {})
    BY <1>2 DEF Convert, fibVars
  <2>2. buildPerSourceFIB' = buildPerSourceFIB
    BY <2>1 DEF buildPerSourceFIB
  <2>3. FibTypes' /\ HopsLead'
    BY <2>1 DEF FibInv, FibTypes, HopsLead
  <2>4. PrunedForCircles'
    BY <2>1, <2>2 DEF FibInv, PrunedForCircles
  <2>5. (graph = buildForwardingGraph(fib))' /\ (fibStep = "done" => ClosingEdges(graph) = {})'
    BY <2>1 DEF FibInv
  <2> QED
    BY <2>3, <2>4, <2>5 DEF FibInv
<1>3. CASE \E e \in FibPairs : PruneEdge(e)
  BY <1>3, PruneKeeps
<1> QED
  BY <1>1, <1>2, <1>3 DEF FibNext

LEMMA FibInvShows == FibInv => FibSound /\ FibTypeOK
<1> SUFFICES ASSUME FibInv PROVE FibSound /\ FibTypeOK
  OBVIOUS
<1>1. graph \in Graphs /\ \A n \in TransitNodes : n \notin graph[n]
  BY NoHopBack
<1>2. \A s, d \in TransitNodes : fib[s][d] \subseteq graph[s]
  BY GraphOfTables DEF FibInv, FibTypes
<1>3. ASSUME fibStep = "done", NEW d \in vips, Circular([s \in TransitNodes |-> fib[s][d]]) PROVE FALSE
  <2>1. PICK h : h = [s \in TransitNodes |-> fib[s][d]]
    OBVIOUS
  <2>2. d \in TransitNodes
    BY DEF FibInv, FibTypes
  <2>3. h \in Graphs /\ \A n \in TransitNodes : h[n] \subseteq graph[n]
    BY <1>2, <2>1, <2>2 DEF Graphs, FibInv, FibTypes
  <2>4. PICK n \in TransitNodes : n \in Reached(h, n)
    BY <1>3, <2>1 DEF Circular
  <2>5. n \in Reached(graph, n)
    BY <1>1, <2>3, <2>4, FewerReach
  <2>6. Circular(graph)
    BY <2>5 DEF Circular
  <2>7. ClosingEdges(graph) # {}
    BY <1>1, <2>6, CircleCloses
  <2> QED
    BY <1>3, <2>7 DEF FibInv
<1>4. FibSound
  BY <1>3 DEF FibSound, FibInv, HopsLead, PrunedForCircles
<1>5. FibTypeOK
  BY <1>1, <1>2 DEF FibTypeOK, FibInv, FibTypes, Graphs
<1> QED
  BY <1>4, <1>5

\* For any nodes, however many, any base routes and whichever edges are taken out of a
\* circle: in the tables a node is given no packet passes a node twice, every hop is the
\* first of a base route, and none is withheld where there was no circle (computeFIB,
\* pruneGraphCycles).
THEOREM AnyTablesAreSound == AnyRoutesInit /\ [][FibNext]_fibVars => [](FibSound /\ FibTypeOK)
BY FibInvInit, FibInvStep, FibInvShows, PTL

\* So are the tables of the specification.
THEOREM TablesAreSound == FibSpec => []FibSound
BY AnyTablesAreSound, BaseRoutesAreRoutes, PTL DEF FibSpec


-----------------------------------------------------------------------------
(***************************************************************************)
(* The shortest path of TopoOptimizer, for any graph with natural weights. *)
(***************************************************************************)
Points == Nat \X Nat
Labels == [w : Nat, path : Seq(Points)]
Searches == [label : UNION {[D -> Labels] : D \in SUBSET Points}, done : SUBSET Points]

WGraph(g) ==
    /\ DOMAIN g \subseteq Points \X Points /\ IsFiniteSet(DOMAIN g)
    /\ g \in [DOMAIN g -> Nat]

\* A path from src to dst without a repeated vertex that keeps off what was removed.
Trail(g, path, src, dst, removedV, removedE) ==
    /\ path \in Seq(Points) /\ Len(path) >= 1
    /\ path[1] = src /\ path[Len(path)] = dst
    /\ \A i \in 1 .. Len(path) - 1 : <<path[i], path[i + 1]>> \in DOMAIN g \ removedE
    /\ \A i, j \in 1 .. Len(path) : path[i] = path[j] => i = j
    /\ \A i \in 1 .. Len(path) : path[i] \notin removedV

(* What is labelled has a path over settled vertices; settled vertices are *)
(* no farther than the others.                                             *)
Labelled(s, g, src, removedV, removedE) ==
    /\ src \in DOMAIN s.label /\ s.done \subseteq DOMAIN s.label
    /\ \A v \in DOMAIN s.label :
          /\ Trail(g, s.label[v].path, src, v, removedV, removedE)
          /\ \A i \in 1 .. Len(s.label[v].path) - 1 : s.label[v].path[i] \in s.done
    /\ \A x \in s.done, y \in DOMAIN s.label \ s.done : s.label[x].w <= s.label[y].w

LEMMA LeastNatural ==
  ASSUME NEW S, S \subseteq Nat, S # {}
  PROVE  \E x \in S : \A y \in S : x <= y
<1>1. PICK x \in S : \A y \in S : ~(<<y, x>> \in OpToRel(<, Nat))
  BY NatLessThanWellFounded, WFMin
<1>2. ASSUME NEW y \in S PROVE x <= y
  <2>1. ~(<<y, x>> \in OpToRel(<, Nat))
    BY <1>1
  <2>2. x \in Nat /\ y \in Nat
    OBVIOUS
  <2>3. ~(y < x)
    BY <2>1, <2>2 DEF OpToRel
  <2> QED
    BY <2>2, <2>3
<1> QED
  BY <1>2

\* The next vertex exists: by weight, then by the two parts of its name.
LEMMA NextVertexIs ==
  ASSUME NEW s \in Searches, DOMAIN s.label \ s.done # {}
  PROVE  /\ NextVertex(s) \in DOMAIN s.label \ s.done
         /\ \A y \in DOMAIN s.label \ s.done : s.label[NextVertex(s)].w <= s.label[y].w
<1>1. PICK D : D = DOMAIN s.label \ s.done
  OBVIOUS
<1>2. \A x \in D : x \in Points /\ s.label[x].w \in Nat
  BY <1>1 DEF Searches, Labels
<1>3. \A x \in D : x = <<x[1], x[2]>> /\ x[1] \in Nat /\ x[2] \in Nat
  BY <1>2 DEF Points
<1>4. PICK w \in {s.label[x].w : x \in D} : \A y \in D : w <= s.label[y].w
  <2>1. {s.label[x].w : x \in D} # {} /\ {s.label[x].w : x \in D} \subseteq Nat
    BY <1>1, <1>2
  <2>2. PICK w \in {s.label[x].w : x \in D} : \A v \in {s.label[x].w : x \in D} : w <= v
    BY <2>1, LeastNatural
  <2> QED
    BY <2>2
<1>5. PICK E : E = {x \in D : s.label[x].w = w}
  OBVIOUS
<1>6. PICK a \in {x[1] : x \in E} : \A y \in E : a <= y[1]
  <2>1. {x[1] : x \in E} # {} /\ {x[1] : x \in E} \subseteq Nat
    BY <1>3, <1>4, <1>5
  <2>2. PICK a \in {x[1] : x \in E} : \A v \in {x[1] : x \in E} : a <= v
    BY <2>1, LeastNatural
  <2> QED
    BY <2>2
<1>7. PICK Fs : Fs = {x \in E : x[1] = a}
  OBVIOUS
<1>8. PICK b \in {x[2] : x \in Fs} : \A y \in Fs : b <= y[2]
  <2>1. {x[2] : x \in Fs} # {} /\ {x[2] : x \in Fs} \subseteq Nat
    BY <1>3, <1>5, <1>6, <1>7
  <2>2. PICK b \in {x[2] : x \in Fs} : \A v \in {x[2] : x \in Fs} : b <= v
    BY <2>1, LeastNatural
  <2> QED
    BY <2>2
<1>9. PICK x \in Fs : x[2] = b
  BY <1>8
<1>10. x \in D /\ s.label[x].w = w /\ x[1] = a
  BY <1>5, <1>7, <1>9
<1>11. ASSUME NEW y \in D, y # x PROVE Nearer(s, x, y)
  <2>1. w \in Nat /\ s.label[y].w \in Nat /\ w <= s.label[y].w
    BY <1>2, <1>4, <1>10
  <2>2. CASE s.label[y].w # w
    BY <1>10, <2>1, <2>2 DEF Nearer
  <2>3. CASE s.label[y].w = w
    <3>1. y \in E /\ a <= y[1]
      BY <1>5, <1>6, <2>3
    <3>2. x[1] \in Nat /\ y[1] \in Nat /\ x[2] \in Nat /\ y[2] \in Nat
      BY <1>3, <1>10
    <3>3. x[1] = y[1] => x[2] <= y[2]
      BY <1>7, <1>8, <1>9, <1>10, <3>1
    <3>4. x[1] = y[1] => x[2] # y[2]
      BY <1>3, <1>10, <1>11
    <3>5. VertexBefore(x, y)
      BY <1>10, <3>1, <3>2, <3>3, <3>4 DEF VertexBefore
    <3> QED
      BY <1>10, <2>3, <3>5 DEF Nearer
  <2> QED
    BY <2>2, <2>3
<1>12. PICK u : u = NextVertex(s)
  OBVIOUS
<1>13. u \in D /\ \A y \in D : y # u => Nearer(s, u, y)
  <2>1. u = CHOOSE z \in D : \A y \in D : y # z => Nearer(s, z, y)
    BY <1>1, <1>12 DEF NextVertex
  <2> QED
    BY <1>10, <1>11, <2>1
<1>14. \A y \in D : s.label[u].w <= s.label[y].w
  BY <1>2, <1>13 DEF Nearer
<1> QED
  BY <1>1, <1>12, <1>13, <1>14

\* A vertex in a search has a path of points and a natural weight.
LEMMA LabelIs ==
  ASSUME NEW s \in Searches, NEW v \in DOMAIN s.label
  PROVE  s.label[v] = [w |-> s.label[v].w, path |-> s.label[v].path]
         /\ s.label[v].w \in Nat /\ s.label[v].path \in Seq(Points) /\ v \in Points
BY DEF Searches, Labels

LEMMA HeadsAre ==
  ASSUME NEW g, WGraph(g), NEW src, NEW rV, NEW rE, NEW s \in Searches, Labelled(s, g, src, rV, rE),
         NEW u \in DOMAIN s.label \ s.done,
         \A y \in DOMAIN s.label \ s.done : s.label[u].w <= s.label[y].w,
         NEW v, v \in {e[2] : e \in Relaxed(s, u, g, rV, rE)}
  PROVE  /\ <<u, v>> \in DOMAIN g \ rE /\ v \notin rV /\ v \in Points /\ v \notin s.done /\ v # u
         /\ g[<<u, v>>] \in Nat
<1>1. PICK e \in Relaxed(s, u, g, rV, rE) : v = e[2]
  OBVIOUS
<1>2. /\ e \in DOMAIN g /\ e[1] = u /\ v \notin rV /\ e \notin rE
      /\ v \in DOMAIN s.label => s.label[u].w + g[e] < s.label[v].w
  BY <1>1 DEF Relaxed
<1>3. e = <<u, v>> /\ v \in Points /\ g[e] \in Nat
  BY <1>1, <1>2 DEF WGraph
<1>4. s.label[u].w \in Nat
  BY LabelIs
<1>5. v # u
  BY <1>2, <1>3, <1>4
<1>6. ASSUME v \in s.done PROVE FALSE
  <2>1. v \in DOMAIN s.label /\ s.label[v].w <= s.label[u].w
    BY <1>6 DEF Labelled
  <2>2. s.label[v].w \in Nat
    BY <2>1, LabelIs
  <2> QED
    BY <1>2, <1>3, <1>4, <2>1, <2>2
<1> QED
  BY <1>2, <1>3, <1>5, <1>6

\* A path goes on over an edge to a vertex it has not passed.
LEMMA TrailGoesOn ==
  ASSUME NEW g, NEW src, NEW u, NEW v \in Points, NEW rV, NEW rE, NEW p, Trail(g, p, src, u, rV, rE),
         <<u, v>> \in DOMAIN g \ rE, v \notin rV, \A i \in 1 .. Len(p) : p[i] # v
  PROVE  Trail(g, Append(p, v), src, v, rV, rE)
<1>1. PICK n, q : n = Len(p) /\ q = Append(p, v)
  OBVIOUS
<1>2. /\ n \in Nat /\ n >= 1 /\ q \in Seq(Points) /\ Len(q) = n + 1 /\ q[n + 1] = v
      /\ \A i \in 1 .. n : q[i] = p[i]
  BY <1>1 DEF Trail
<1>3. /\ p[1] = src /\ p[n] = u
      /\ \A i \in 1 .. n - 1 : <<p[i], p[i + 1]>> \in DOMAIN g \ rE
      /\ \A i, j \in 1 .. n : p[i] = p[j] => i = j
      /\ \A i \in 1 .. n : p[i] \notin rV /\ p[i] # v
  BY <1>1 DEF Trail
<1>4. q[1] = src /\ q[Len(q)] = v
  BY <1>2, <1>3
<1>5. ASSUME NEW i \in 1 .. n PROVE <<q[i], q[i + 1]>> \in DOMAIN g \ rE
  <2>1. CASE i = n
    BY <1>2, <1>3, <2>1
  <2>2. CASE i # n
    <3>1. PICK k : k = i + 1
      OBVIOUS
    <3>2. i \in 1 .. n - 1 /\ k \in 1 .. n
      BY <1>2, <2>2, <3>1
    <3> QED
      BY <1>2, <1>3, <3>1, <3>2
  <2> QED
    BY <2>1, <2>2
<1>6. ASSUME NEW i \in 1 .. n + 1, NEW j \in 1 .. n + 1, q[i] = q[j] PROVE i = j
  <2>1. (i \in 1 .. n \/ i = n + 1) /\ (j \in 1 .. n \/ j = n + 1)
    BY <1>2
  <2> QED
    BY <1>2, <1>3, <1>6, <2>1
<1>7. ASSUME NEW i \in 1 .. n + 1 PROVE q[i] \notin rV
  <2>1. i \in 1 .. n \/ i = n + 1
    BY <1>2
  <2> QED
    BY <1>2, <1>3, <2>1
<1>8. (n + 1) - 1 = n /\ n + 1 >= 1
  BY <1>2
<1> QED
  BY <1>1, <1>2, <1>4, <1>5, <1>6, <1>7, <1>8 DEF Trail

LEMMA SettleKeeps ==
  ASSUME NEW g, WGraph(g), NEW src, NEW rV, NEW rE, NEW s \in Searches, Labelled(s, g, src, rV, rE),
         NEW u \in DOMAIN s.label \ s.done,
         \A y \in DOMAIN s.label \ s.done : s.label[u].w <= s.label[y].w
  PROVE  LET t == Settle(s, u, g, Relaxed(s, u, g, rV, rE))
         IN  t \in Searches /\ Labelled(t, g, src, rV, rE)
<1>1. PICK E : E = Relaxed(s, u, g, rV, rE)
  OBVIOUS
<1>2. PICK H : H = {e[2] : e \in E}
  OBVIOUS
<1>3. \A v \in H : /\ <<u, v>> \in DOMAIN g \ rE /\ v \notin rV /\ v \in Points /\ v \notin s.done /\ v # u
                   /\ g[<<u, v>>] \in Nat
  BY <1>1, <1>2, HeadsAre
<1>4. PICK f : f = Label(s, u, g, E)
  OBVIOUS
<1>5. PICK pu, wu : pu = s.label[u].path /\ wu = s.label[u].w
  OBVIOUS
<1>6. /\ DOMAIN f = DOMAIN s.label \cup H
      /\ \A v \in H : f[v] = [w |-> wu + g[<<u, v>>], path |-> Append(pu, v)]
      /\ \A v \in DOMAIN s.label \ H : f[v] = s.label[v]
  BY <1>2, <1>4, <1>5 DEF Label
<1>7. wu \in Nat /\ pu \in Seq(Points) /\ u \in Points /\ Trail(g, pu, src, u, rV, rE)
      /\ \A i \in 1 .. Len(pu) - 1 : pu[i] \in s.done
  BY <1>5, LabelIs DEF Labelled
<1>8. \A v \in DOMAIN f : f[v] \in Labels
  <2>1. ASSUME NEW v \in H PROVE f[v] \in Labels
    <3>1. PICK w, q : w = wu + g[<<u, v>>] /\ q = Append(pu, v)
      OBVIOUS
    <3>2. w \in Nat /\ q \in Seq(Points) /\ f[v] = [w |-> w, path |-> q]
      BY <1>3, <1>6, <1>7, <3>1
    <3> QED
      BY <3>2 DEF Labels
  <2>2. ASSUME NEW v \in DOMAIN s.label \ H PROVE f[v] \in Labels
    BY <1>6 DEF Searches
  <2> QED
    BY <1>6, <2>1, <2>2
<1>9. PICK t : t = Settle(s, u, g, E)
  OBVIOUS
<1>10. t = [label |-> f, done |-> s.done \cup {u}]
  BY <1>4, <1>9 DEF Settle
<1>11. t \in Searches
  <2>1. DOMAIN f \subseteq Points
    <3>1. DOMAIN s.label \subseteq Points
      BY LabelIs
    <3> QED
      BY <1>3, <1>6, <3>1
  <2>2. f = [v \in DOMAIN f |-> f[v]]
    BY <1>2, <1>4 DEF Label
  <2>3. f \in [DOMAIN f -> Labels]
    BY <1>8, <2>2
  <2>4. s.done \cup {u} \subseteq Points
    BY <1>7 DEF Searches
  <2> QED
    BY <1>10, <2>1, <2>3, <2>4 DEF Searches
<1>12. ASSUME NEW v \in DOMAIN f
       PROVE  Trail(g, f[v].path, src, v, rV, rE) /\ \A i \in 1 .. Len(f[v].path) - 1 : f[v].path[i] \in t.done
  <2>1. CASE v \in H
    <3>1. f[v].path = Append(pu, v)
      <4>1. PICK w, q : w = wu + g[<<u, v>>] /\ q = Append(pu, v)
        OBVIOUS
      <4>2. f[v] = [w |-> w, path |-> q]
        BY <1>6, <2>1, <4>1
      <4> QED
        BY <4>1, <4>2
    <3>2. \A i \in 1 .. Len(pu) : pu[i] \in s.done \cup {u}
      <4> TAKE i \in 1 .. Len(pu)
      <4>1. i \in 1 .. Len(pu) - 1 \/ i = Len(pu)
        BY <1>7
      <4>2. pu[Len(pu)] = u
        BY <1>7 DEF Trail
      <4> QED
        BY <1>7, <4>1, <4>2
    <3>3. \A i \in 1 .. Len(pu) : pu[i] # v
      BY <1>3, <2>1, <3>2
    <3>4. Trail(g, Append(pu, v), src, v, rV, rE)
      BY <1>3, <1>7, <2>1, <3>3, TrailGoesOn
    <3>5. PICK q, n : q = f[v].path /\ n = Len(pu)
      OBVIOUS
    <3>6. n \in Nat /\ Len(q) = n + 1 /\ \A i \in 1 .. n : q[i] = pu[i]
      BY <1>7, <3>1, <3>5
    <3>7. \A i \in 1 .. Len(q) - 1 : q[i] \in t.done
      BY <1>10, <3>2, <3>5, <3>6
    <3> QED
      BY <3>1, <3>4, <3>5, <3>7
  <2>2. CASE v \notin H
    BY <1>6, <1>10, <2>2 DEF Labelled
  <2> QED
    BY <2>1, <2>2
<1>13. ASSUME NEW x \in t.done, NEW y \in DOMAIN t.label \ t.done PROVE t.label[x].w <= t.label[y].w
  <2>1. x \in s.done \cup {u} /\ x \notin H /\ x \in DOMAIN s.label /\ f[x] = s.label[x]
    BY <1>3, <1>6, <1>10 DEF Labelled
  <2>2. s.label[x].w \in Nat /\ s.label[x].w <= wu
    BY <1>5, <1>7, <2>1, LabelIs DEF Labelled
  <2>3. CASE y \in H
    <3>1. f[y].w = wu + g[<<u, y>>] /\ g[<<u, y>>] \in Nat
      BY <1>3, <1>6, <2>3
    <3> QED
      BY <1>7, <1>10, <2>1, <2>2, <3>1
  <2>4. CASE y \notin H
    <3>1. y \in DOMAIN s.label \ s.done /\ f[y] = s.label[y] /\ y # u
      BY <1>6, <1>10, <2>4
    <3>2. s.label[y].w \in Nat /\ wu <= s.label[y].w
      BY <1>5, <3>1, LabelIs
    <3> QED
      BY <1>7, <1>10, <2>1, <2>2, <3>1, <3>2
  <2> QED
    BY <2>3, <2>4
<1>14. src \in DOMAIN t.label /\ t.done \subseteq DOMAIN t.label
  BY <1>6, <1>10 DEF Labelled
<1>15. Labelled(t, g, src, rV, rE)
  BY <1>10, <1>12, <1>13, <1>14 DEF Labelled
<1> QED
  BY <1>1, <1>9, <1>11, <1>15

LEMMA ImageFinite ==
  ASSUME NEW S, IsFiniteSet(S), NEW T, NEW f \in [S -> T]
  PROVE  IsFiniteSet({f[x] : x \in S}) /\ Cardinality({f[x] : x \in S}) <= Cardinality(S)
<1>1. PICK R : R = {f[x] : x \in S}
  OBVIOUS
<1>2. f \in Surjection(S, R)
  <2>1. f \in [S -> R] /\ \A t \in R : \E x \in S : f[x] = t
    BY <1>1
  <2> QED
    BY <2>1 DEF Surjection
<1> QED
  BY <1>1, <1>2, FS_Surjection

LEMMA VerticesFinite ==
  ASSUME NEW g, WGraph(g)
  PROVE  IsFiniteSet(Vertices(g)) /\ Cardinality(Vertices(g)) \in Nat /\ Vertices(g) \subseteq Points
<1>1. PICK D : D = DOMAIN g
  OBVIOUS
<1>2. \A e \in D : e[1] \in Points /\ e[2] \in Points
  BY <1>1 DEF WGraph
<1>3. PICK h1, h2 : h1 = [e \in D |-> e[1]] /\ h2 = [e \in D |-> e[2]]
  OBVIOUS
<1>4. h1 \in [D -> Points] /\ h2 \in [D -> Points] /\ IsFiniteSet(D)
  BY <1>1, <1>2, <1>3 DEF WGraph
<1>5. IsFiniteSet({h1[e] : e \in D}) /\ IsFiniteSet({h2[e] : e \in D})
  BY <1>4, ImageFinite
<1>6. Vertices(g) = {h1[e] : e \in D} \cup {h2[e] : e \in D}
  BY <1>1, <1>3 DEF Vertices
<1>7. IsFiniteSet(Vertices(g))
  BY <1>5, <1>6, FS_Union
<1> QED
  BY <1>1, <1>2, <1>7, FS_CardinalityType DEF Vertices

\* One step of the search, whatever it does.
LEMMA SearchStepKeeps ==
  ASSUME NEW g, WGraph(g), NEW src, NEW dst, NEW rV, NEW rE,
         NEW s \in Searches, Labelled(s, g, src, rV, rE)
  PROVE  Step(s, g, dst, rV, rE) \in Searches /\ Labelled(Step(s, g, dst, rV, rE), g, src, rV, rE)
<1>1. PICK u : u = NextVertex(s)
  OBVIOUS
<1>2. CASE DOMAIN s.label = s.done \/ dst \in s.done
  BY <1>2 DEF Step
<1>3. CASE ~(DOMAIN s.label = s.done \/ dst \in s.done) /\ u = dst
  <2>1. DOMAIN s.label \ s.done # {}
    BY <1>3 DEF Labelled
  <2>2. u \in DOMAIN s.label \ s.done /\ \A y \in DOMAIN s.label \ s.done : s.label[u].w <= s.label[y].w
    BY <1>1, <2>1, NextVertexIs
  <2>3. PICK t : t = [s EXCEPT !.done = @ \cup {dst}]
    OBVIOUS
  <2>4. s.done \subseteq Points /\ u \in Points
    BY <2>2, LabelIs DEF Searches
  <2>5. t = [label |-> s.label, done |-> s.done \cup {dst}]
    BY <2>3 DEF Searches
  <2>6. t \in Searches
    BY <1>3, <2>4, <2>5 DEF Searches
  <2>7. Labelled(t, g, src, rV, rE)
    BY <1>3, <2>2, <2>5 DEF Labelled
  <2> QED
    BY <1>1, <1>3, <2>3, <2>6, <2>7 DEF Step
<1>4. CASE ~(DOMAIN s.label = s.done \/ dst \in s.done) /\ u # dst
  <2>1. DOMAIN s.label \ s.done # {}
    BY <1>4 DEF Labelled
  <2>2. u \in DOMAIN s.label \ s.done /\ \A y \in DOMAIN s.label \ s.done : s.label[u].w <= s.label[y].w
    BY <1>1, <2>1, NextVertexIs
  <2>3. PICK t : t = Settle(s, u, g, Relaxed(s, u, g, rV, rE))
    OBVIOUS
  <2>4. t \in Searches /\ Labelled(t, g, src, rV, rE)
    BY <2>2, <2>3, SettleKeeps
  <2>5. Step(s, g, dst, rV, rE) = t
    BY <1>1, <1>4, <2>3 DEF Step
  <2> QED
    BY <2>4, <2>5
<1> QED
  BY <1>2, <1>3, <1>4

\* The states the search goes through, the last of which has the answer.
SearchRun(run, g, src, dst, rV, rE) ==
    /\ run[0] = [label |-> [v \in {src} |-> [w |-> 0, path |-> <<src>>]], done |-> {}]
    /\ \A i \in 1 .. Cardinality(Vertices(g)) : run[i] = Step(run[i - 1], g, dst, rV, rE)
    /\ \A i \in 0 .. Cardinality(Vertices(g)) : run[i] \in Searches /\ Labelled(run[i], g, src, rV, rE)
    /\ dijkstra(g, src, dst, rV, rE) =
          IF {src, dst} \cap rV = {} THEN Answer(run[Cardinality(Vertices(g))], dst) ELSE {}

LEMMA DijkstraRuns ==
  ASSUME NEW g, WGraph(g), NEW src \in Points, NEW dst, NEW rV, NEW rE, src \notin rV
  PROVE  \E run : SearchRun(run, g, src, dst, rV, rE)
<1> DEFINE S == {s \in Searches : Labelled(s, g, src, rV, rE)}
           z == [label |-> [v \in {src} |-> [w |-> 0, path |-> <<src>>]], done |-> {}]
<1>1. PICK n : n = Cardinality(Vertices(g))
  OBVIOUS
<1>2. n \in Nat
  BY <1>1, VerticesFinite
<1>3. z \in S
  <2>1. PICK one, p : one = [v \in {src} |-> [w |-> 0, path |-> p]] /\ p = <<src>>
    OBVIOUS
  <2>2. p \in Seq(Points) /\ Len(p) = 1 /\ p[1] = src
    BY <2>1
  <2>3. [w |-> 0, path |-> p] \in Labels
    BY <2>2 DEF Labels
  <2>4. one \in [{src} -> Labels] /\ {src} \in SUBSET Points
    BY <2>1, <2>3
  <2>5. z = [label |-> one, done |-> {}]
    BY <2>1
  <2>6. PICK t : t = z
    OBVIOUS
  <2>7. t \in Searches
    BY <2>4, <2>5, <2>6 DEF Searches
  <2>8. Trail(g, p, src, src, rV, rE)
    BY <2>2 DEF Trail
  <2>9. t.done = {} /\ DOMAIN t.label = {src} /\ t.label[src].path = p
    <3>1. PICK l : l = [w |-> 0, path |-> p]
      OBVIOUS
    <3>2. one[src] = l /\ l.path = p /\ DOMAIN one = {src}
      BY <2>1, <3>1
    <3>3. t.label = one /\ t.done = {}
      BY <2>5, <2>6
    <3> QED
      BY <3>2, <3>3
  <2>10. \A v \in DOMAIN t.label :
           /\ Trail(g, t.label[v].path, src, v, rV, rE)
           /\ \A i \in 1 .. Len(t.label[v].path) - 1 : t.label[v].path[i] \in t.done
    <3>1. \A i : i \notin 1 .. Len(p) - 1
      BY <2>2
    <3> QED
      BY <2>8, <2>9, <3>1
  <2>11. Labelled(t, g, src, rV, rE)
    BY <2>9, <2>10 DEF Labelled
  <2> QED
    BY <2>6, <2>7, <2>11
<1>4. PICK next : next = [i \in 1 .. n |-> [s \in S |-> Step(s, g, dst, rV, rE)]]
  OBVIOUS
<1>5. next \in [1 .. n -> [S -> S]] /\ \A i \in 1 .. n : \A s \in S : next[i][s] = Step(s, g, dst, rV, rE)
  <2>1. ASSUME NEW s \in S PROVE Step(s, g, dst, rV, rE) \in S
    BY SearchStepKeeps
  <2> HIDE DEF S
  <2> QED
    BY <1>4, <2>1
<1>6. PICK f \in [0 .. n -> S] : ByStep(f, n, z, next)
  <2> HIDE DEF S, z
  <2> QED
    BY <1>2, <1>3, <1>5, RecursionExists
<1>7. f[0] = z /\ \A i \in 1 .. n : f[i] = Step(f[i - 1], g, dst, rV, rE)
  <2> HIDE DEF z, S
  <2>1. f[0] = z /\ \A i \in 1 .. n : f[i] = next[i][f[i - 1]]
    BY <1>6 DEF ByStep
  <2>2. \A i \in 1 .. n : f[i - 1] \in S
    BY <1>2, <1>6
  <2> QED
    BY <1>5, <2>1, <2>2
<1> DEFINE Rec(h) == [i \in 0 .. Cardinality(Vertices(g)) |-> IF i = 0 THEN z ELSE Step(h[i - 1], g, dst, rV, rE)]
           run == CHOOSE h : h = Rec(h)
<1>8. f = Rec(f)
  <2> HIDE DEF z, S
  <2>1. f = [i \in 0 .. n |-> f[i]]
    BY <1>6
  <2>2. \A i \in 0 .. n : f[i] = IF i = 0 THEN z ELSE Step(f[i - 1], g, dst, rV, rE)
    BY <1>2, <1>7
  <2> QED
    BY <1>1, <2>1, <2>2
<1>9. run = Rec(run)
  <2> HIDE DEF Rec
  <2> QED
    BY <1>8, Zenon
<1>10. PICK r : r = Rec(r) /\ dijkstra(g, src, dst, rV, rE) = IF {src, dst} \cap rV = {} THEN Answer(r[n], dst) ELSE {}
  <2>1. dijkstra(g, src, dst, rV, rE) = IF {src, dst} \cap rV = {} THEN Answer(run[n], dst) ELSE {}
    BY <1>1 DEF dijkstra
  <2> HIDE DEF Rec, run
  <2> QED
    BY <1>9, <2>1
<1>11. r[0] = z /\ \A i \in 1 .. n : r[i] = Step(r[i - 1], g, dst, rV, rE)
  <2> HIDE DEF z
  <2>1. \A i \in 0 .. n : r[i] = Rec(r)[i]
    <3> HIDE DEF Rec
    <3> QED
      BY <1>10
  <2>2. r[0] = z
    BY <1>1, <1>2, <2>1
  <2>3. ASSUME NEW i \in 1 .. n PROVE r[i] = Step(r[i - 1], g, dst, rV, rE)
    <3>1. i \in 0 .. Cardinality(Vertices(g)) /\ i # 0
      BY <1>1, <1>2
    <3>2. r[i] = Rec(r)[i]
      <4> HIDE DEF Rec
      <4> QED
        BY <1>1, <2>1, <3>1
    <3> QED
      BY <3>1, <3>2
  <2> QED
    BY <2>2, <2>3
<1>12. \A i \in 0 .. n : r[i] \in S
  <2>1. ASSUME NEW i \in 1 .. n, r[i - 1] \in S PROVE r[i] \in S
    <3>1. PICK s : s = r[i - 1]
      OBVIOUS
    <3>2. Step(s, g, dst, rV, rE) \in S
      BY <2>1, <3>1, SearchStepKeeps
    <3> HIDE DEF S
    <3> QED
      BY <1>11, <3>1, <3>2
  <2>2. r[0] \in S
    <3> HIDE DEF S, z
    <3> QED
      BY <1>3, <1>11
  <2> HIDE DEF S, z
  <2> QED
    BY <1>2, <2>1, <2>2, StaysIn
<1>13. SearchRun(r, g, src, dst, rV, rE)
  <2>1. \A i \in 0 .. n : r[i] \in Searches /\ Labelled(r[i], g, src, rV, rE)
    BY <1>12
  <2> HIDE DEF Rec, S
  <2> QED
    BY <1>1, <1>10, <1>11, <2>1 DEF SearchRun
<1> QED
  BY <1>13

\* What the search finds is a path of the graph that keeps off what was removed.
LEMMA DijkstraFinds ==
  ASSUME NEW g, WGraph(g), NEW src \in Points, NEW dst, NEW rV, NEW rE,
         NEW l \in dijkstra(g, src, dst, rV, rE)
  PROVE  /\ l \in Labels /\ Trail(g, l.path, src, dst, rV, rE)
         /\ dijkstra(g, src, dst, rV, rE) = {l}
<1>1. src \notin rV /\ dst \notin rV
  BY DEF dijkstra
<1>2. PICK run : SearchRun(run, g, src, dst, rV, rE)
  BY <1>1, DijkstraRuns
<1>3. PICK s : s = run[Cardinality(Vertices(g))]
  OBVIOUS
<1>4. s \in Searches /\ Labelled(s, g, src, rV, rE) /\ dijkstra(g, src, dst, rV, rE) = Answer(s, dst)
  BY <1>1, <1>2, <1>3, VerticesFinite DEF SearchRun
<1>5. dst \in s.done /\ l = s.label[dst] /\ Answer(s, dst) = {l}
  BY <1>4 DEF Answer
<1>6. dst \in DOMAIN s.label /\ Trail(g, l.path, src, dst, rV, rE)
  BY <1>4, <1>5 DEF Labelled
<1>7. l \in Labels
  BY <1>4, <1>5, <1>6 DEF Searches
<1> QED
  BY <1>4, <1>5, <1>6, <1>7


-----------------------------------------------------------------------------
(***************************************************************************)
(* The order of candidates of one weight: where two paths part, the vertex *)
(* with the lesser name; a path before its continuations.                  *)
(***************************************************************************)
Parts(p, q, i) ==
    /\ i \in 1 .. Len(q) /\ i - 1 <= Len(p)
    /\ \A j \in 1 .. i - 1 : p[j] = q[j]
    /\ i = Len(p) + 1 \/ (i <= Len(p) /\ VertexBefore(p[i], q[i]))

LEMMA SamePrefix ==
  ASSUME NEW p \in Seq(Points), NEW q \in Seq(Points), NEW i \in Nat, i >= 1, i - 1 <= Len(p), i - 1 <= Len(q)
  PROVE  SubSeq(p, 1, i - 1) = SubSeq(q, 1, i - 1) <=> \A j \in 1 .. i - 1 : p[j] = q[j]
<1>1. PICK k, a, b : k = i - 1 /\ a = SubSeq(p, 1, k) /\ b = SubSeq(q, 1, k)
  OBVIOUS
<1>2. k \in Nat /\ k <= Len(p) /\ k <= Len(q)
  BY <1>1
<1>3. a \in Seq(Points) /\ Len(a) = k /\ \A j \in 1 .. k : a[j] = p[j]
  BY <1>1, <1>2, SubSeqProperties
<1>4. b \in Seq(Points) /\ Len(b) = k /\ \A j \in 1 .. k : b[j] = q[j]
  BY <1>1, <1>2, SubSeqProperties
<1>5. ASSUME \A j \in 1 .. k : p[j] = q[j] PROVE a = b
  BY <1>3, <1>4, <1>5, SeqEqual
<1>6. ASSUME a = b, NEW j \in 1 .. k PROVE p[j] = q[j]
  BY <1>3, <1>4, <1>6
<1> QED
  BY <1>1, <1>5, <1>6

LEMMA CompareIsParting ==
  ASSUME NEW p \in Seq(Points), NEW q \in Seq(Points)
  PROVE  comparePathSeq(p, q) <=> \E i \in Nat : Parts(p, q, i)
<1>1. PICK m, n : m = Len(p) /\ n = Len(q)
  OBVIOUS
<1>2. m \in Nat /\ n \in Nat
  BY <1>1
<1>3. ASSUME comparePathSeq(p, q) PROVE \E i \in Nat : Parts(p, q, i)
  <2>1. CASE m < n /\ p = SubSeq(q, 1, m)
    <3>1. \A j \in 1 .. m : p[j] = q[j]
      BY <1>1, <1>2, <2>1, SubSeqProperties
    <3>2. PICK i : i = m + 1
      OBVIOUS
    <3>3. i \in Nat /\ i - 1 = m /\ i \in 1 .. n
      BY <1>2, <2>1, <3>2
    <3> QED
      BY <1>1, <1>2, <3>1, <3>2, <3>3 DEF Parts
  <2>2. CASE \E i \in 1 .. m : i <= n /\ SubSeq(p, 1, i - 1) = SubSeq(q, 1, i - 1) /\ VertexBefore(p[i], q[i])
    <3>1. PICK i \in 1 .. m : i <= n /\ SubSeq(p, 1, i - 1) = SubSeq(q, 1, i - 1) /\ VertexBefore(p[i], q[i])
      BY <2>2
    <3>2. i \in Nat /\ i >= 1 /\ i - 1 <= m /\ i - 1 <= n /\ i \in 1 .. n /\ i <= m
      BY <1>2, <3>1
    <3>3. \A j \in 1 .. i - 1 : p[j] = q[j]
      BY <1>1, <3>1, <3>2, SamePrefix
    <3> QED
      BY <1>1, <3>1, <3>2, <3>3 DEF Parts
  <2> QED
    BY <1>1, <1>3, <2>1, <2>2 DEF comparePathSeq
<1>4. ASSUME NEW i \in Nat, Parts(p, q, i) PROVE comparePathSeq(p, q)
  <2>1. /\ i \in 1 .. n /\ i - 1 <= m /\ \A j \in 1 .. i - 1 : p[j] = q[j]
        /\ i = m + 1 \/ (i <= m /\ VertexBefore(p[i], q[i]))
    BY <1>1, <1>4 DEF Parts
  <2>2. i >= 1 /\ i - 1 <= n
    BY <1>2, <2>1
  <2>3. SubSeq(p, 1, i - 1) = SubSeq(q, 1, i - 1)
    BY <1>1, <2>1, <2>2, SamePrefix
  <2>4. CASE i = m + 1
    <3>1. m < n /\ i - 1 = m
      BY <1>2, <2>1, <2>4
    <3>2. SubSeq(p, 1, m) = p
      <4>1. PICK a : a = SubSeq(p, 1, m)
        OBVIOUS
      <4>2. a \in Seq(Points) /\ Len(a) = m /\ \A j \in 1 .. m : a[j] = p[j]
        BY <1>1, <1>2, <4>1, SubSeqProperties
      <4> QED
        BY <1>1, <4>1, <4>2, SeqEqual
    <3> QED
      BY <1>1, <2>3, <3>1, <3>2 DEF comparePathSeq
  <2>5. CASE i <= m /\ VertexBefore(p[i], q[i])
    <3>1. i \in 1 .. m /\ i <= n
      BY <1>2, <2>1, <2>5
    <3> QED
      BY <1>1, <2>3, <2>5, <3>1 DEF comparePathSeq
  <2> QED
    BY <2>1, <2>4, <2>5
<1> QED
  BY <1>3, <1>4

LEMMA VertexOrder ==
  ASSUME NEW u \in Points, NEW v \in Points
  PROVE  /\ ~VertexBefore(u, u)
         /\ u # v => VertexBefore(u, v) \/ VertexBefore(v, u)
         /\ \A x \in Points : VertexBefore(u, v) /\ VertexBefore(v, x) => VertexBefore(u, x)
<1>1. \A x \in Points : x = <<x[1], x[2]>> /\ x[1] \in Nat /\ x[2] \in Nat
  BY DEF Points
<1>2. ~VertexBefore(u, u)
  BY <1>1 DEF VertexBefore
<1>3. u # v => VertexBefore(u, v) \/ VertexBefore(v, u)
  BY <1>1 DEF VertexBefore
<1>4. ASSUME NEW x \in Points, VertexBefore(u, v), VertexBefore(v, x) PROVE VertexBefore(u, x)
  <2>1. u[1] \in Nat /\ u[2] \in Nat /\ v[1] \in Nat /\ v[2] \in Nat /\ x[1] \in Nat /\ x[2] \in Nat
    BY <1>1
  <2> QED
    BY <1>4, <2>1 DEF VertexBefore
<1> QED
  BY <1>2, <1>3, <1>4

LEMMA PathsOrdered ==
  ASSUME NEW p \in Seq(Points)
  PROVE  /\ ~comparePathSeq(p, p)
         /\ \A q \in Seq(Points) : p # q => comparePathSeq(p, q) \/ comparePathSeq(q, p)
         /\ \A q, r \in Seq(Points) : comparePathSeq(p, q) /\ comparePathSeq(q, r) => comparePathSeq(p, r)
<1>1. ~comparePathSeq(p, p)
  <2>1. ASSUME NEW i \in Nat, Parts(p, p, i) PROVE FALSE
    <3>1. i \in 1 .. Len(p) /\ (i = Len(p) + 1 \/ VertexBefore(p[i], p[i]))
      BY <2>1 DEF Parts
    <3>2. Len(p) \in Nat /\ p[i] \in Points
      BY <3>1
    <3> QED
      BY <3>1, <3>2, VertexOrder
  <2> QED
    BY <2>1, CompareIsParting
<1>2. ASSUME NEW q \in Seq(Points), p # q PROVE comparePathSeq(p, q) \/ comparePathSeq(q, p)
  <2>1. PICK m, n : m = Len(p) /\ n = Len(q)
    OBVIOUS
  <2>2. m \in Nat /\ n \in Nat
    BY <2>1
  <2>3. PICK W : W = {i \in 1 .. m + 1 : i <= n + 1 /\ (i = m + 1 \/ i = n + 1 \/ p[i] # q[i])}
    OBVIOUS
  <2>4. W \subseteq Nat /\ W # {}
    <3>1. m + 1 \in W \/ n + 1 \in W
      BY <2>2, <2>3
    <3>2. \A i \in W : i \in Nat
      BY <2>2, <2>3
    <3> QED
      BY <3>1, <3>2
  <2>5. PICK i \in W : \A j \in W : i <= j
    BY <2>4, LeastNatural
  <2>6. i \in Nat /\ i >= 1 /\ i <= m + 1 /\ i <= n + 1 /\ (i = m + 1 \/ i = n + 1 \/ p[i] # q[i])
    BY <2>2, <2>3
  <2>7. ASSUME NEW j \in 1 .. i - 1 PROVE p[j] = q[j]
    <3>1. j \in 1 .. m + 1 /\ j <= n + 1 /\ j # m + 1 /\ j # n + 1 /\ ~(i <= j) /\ j \in Nat
      BY <2>2, <2>6
    <3>2. j \notin W
      BY <2>5, <3>1
    <3> QED
      BY <2>3, <3>1, <3>2
  <2>8. CASE i = m + 1 /\ i = n + 1
    <3>1. m = n /\ i - 1 = m
      BY <2>2, <2>6, <2>8
    <3> QED
      BY <1>2, <2>1, <2>7, <3>1, SeqEqual
  <2>9. CASE i = m + 1 /\ i # n + 1
    <3>1. i \in 1 .. n /\ i - 1 <= m
      BY <2>2, <2>6, <2>9
    <3>2. Parts(p, q, i)
      BY <2>1, <2>7, <2>9, <3>1 DEF Parts
    <3> QED
      BY <2>6, <3>2, CompareIsParting
  <2>10. CASE i = n + 1 /\ i # m + 1
    <3>1. i \in 1 .. m /\ i - 1 <= n
      BY <2>2, <2>6, <2>10
    <3>2. Parts(q, p, i)
      BY <2>1, <2>7, <2>10, <3>1 DEF Parts
    <3> QED
      BY <2>6, <3>2, CompareIsParting
  <2>11. CASE i # m + 1 /\ i # n + 1
    <3>1. i \in 1 .. m /\ i \in 1 .. n /\ i - 1 <= m /\ i - 1 <= n /\ i <= m /\ i <= n /\ p[i] # q[i]
      BY <2>2, <2>6, <2>11
    <3>2. p[i] \in Points /\ q[i] \in Points
      BY <2>1, <3>1
    <3>3. VertexBefore(p[i], q[i]) \/ VertexBefore(q[i], p[i])
      BY <3>1, <3>2, VertexOrder
    <3>4. Parts(p, q, i) \/ Parts(q, p, i)
      BY <2>1, <2>7, <3>1, <3>3 DEF Parts
    <3> QED
      BY <2>6, <3>4, CompareIsParting
  <2> QED
    BY <2>8, <2>9, <2>10, <2>11
<1>3. ASSUME NEW q \in Seq(Points), NEW r \in Seq(Points), comparePathSeq(p, q), comparePathSeq(q, r)
      PROVE  comparePathSeq(p, r)
  <2>1. PICK i \in Nat : Parts(p, q, i)
    BY <1>3, CompareIsParting
  <2>2. PICK j \in Nat : Parts(q, r, j)
    BY <1>3, CompareIsParting
  <2>3. PICK l, m, n : l = Len(p) /\ m = Len(q) /\ n = Len(r)
    OBVIOUS
  <2>4. l \in Nat /\ m \in Nat /\ n \in Nat
    BY <2>3
  <2>5. /\ i \in 1 .. m /\ i - 1 <= l /\ \A k \in 1 .. i - 1 : p[k] = q[k]
        /\ i = l + 1 \/ (i <= l /\ VertexBefore(p[i], q[i]))
    BY <2>1, <2>3 DEF Parts
  <2>6. /\ j \in 1 .. n /\ j - 1 <= m /\ \A k \in 1 .. j - 1 : q[k] = r[k]
        /\ j = m + 1 \/ (j <= m /\ VertexBefore(q[j], r[j]))
    BY <2>2, <2>3 DEF Parts
  <2>7. CASE i < j
    <3>1. i \in 1 .. n /\ i \in 1 .. j - 1 /\ q[i] = r[i] /\ \A k \in 1 .. i - 1 : k \in 1 .. j - 1
      BY <2>4, <2>5, <2>6, <2>7
    <3>2. \A k \in 1 .. i - 1 : p[k] = r[k]
      BY <2>5, <2>6, <3>1
    <3>3. Parts(p, r, i)
      BY <2>3, <2>5, <3>1, <3>2 DEF Parts
    <3> QED
      BY <3>3, CompareIsParting
  <2>8. CASE j < i
    <3>1. j - 1 <= l /\ j <= l /\ j # m + 1 /\ j \in 1 .. i - 1 /\ \A k \in 1 .. j - 1 : k \in 1 .. i - 1
      BY <2>4, <2>5, <2>6, <2>8
    <3>2. p[j] = q[j] /\ \A k \in 1 .. j - 1 : p[k] = r[k]
      BY <2>5, <2>6, <3>1
    <3>3. VertexBefore(p[j], r[j])
      BY <2>6, <3>1, <3>2
    <3>4. Parts(p, r, j)
      BY <2>3, <2>6, <3>1, <3>2, <3>3 DEF Parts
    <3> QED
      BY <3>4, CompareIsParting
  <2>9. CASE i = j
    <3>1. j # m + 1 /\ VertexBefore(q[j], r[j]) /\ \A k \in 1 .. i - 1 : p[k] = r[k]
      BY <2>4, <2>5, <2>6, <2>9
    <3>2. i <= l => VertexBefore(p[i], r[i])
      <4>1. HAVE i <= l
      <4>2. p[i] \in Points /\ q[i] \in Points /\ r[i] \in Points /\ VertexBefore(p[i], q[i])
        <5>1. i \in 1 .. l /\ i \in 1 .. m /\ i \in 1 .. n /\ i # l + 1
          BY <2>4, <2>5, <2>6, <2>9, <4>1
        <5> QED
          BY <2>3, <2>5, <5>1
      <4> QED
        BY <2>9, <3>1, <4>2, VertexOrder
    <3>3. Parts(p, r, i)
      BY <2>3, <2>5, <2>6, <2>9, <3>1, <3>2 DEF Parts
    <3> QED
      BY <3>3, CompareIsParting
  <2> QED
    BY <2>4, <2>7, <2>8, <2>9
<1> QED
  BY <1>1, <1>2, <1>3


-----------------------------------------------------------------------------
(***************************************************************************)
(* Recursion and induction from 1 on.                                      *)
(***************************************************************************)
LEMMA UpFromOne ==
  ASSUME NEW n \in Nat, NEW G, 1 \in G, \A i \in 2 .. n : i - 1 \in G => i \in G
  PROVE  \A i \in 1 .. n : i \in G
<1>1. PICK f : f = [i \in 0 .. n |-> i]
  OBVIOUS
<1>2. PICK S : S = G \cup {0}
  OBVIOUS
<1>3. f[0] \in S
  BY <1>1, <1>2
<1>4. ASSUME NEW i \in 1 .. n, f[i - 1] \in S PROVE f[i] \in S
  <2>1. f[i] = i /\ f[i - 1] = i - 1 /\ (i = 1 \/ (i \in 2 .. n /\ i - 1 # 0))
    BY <1>1
  <2> QED
    BY <1>2, <1>4, <2>1
<1>5. \A i \in 0 .. n : f[i] \in S
  BY <1>3, <1>4, StaysIn
<1>6. ASSUME NEW i \in 1 .. n PROVE i \in G
  <2>1. i \in 0 .. n /\ i # 0
    OBVIOUS
  <2>2. f[i] = i
    BY <1>1, <2>1
  <2>3. f[i] \in S
    BY <1>5, <2>1
  <2> QED
    BY <1>2, <2>1, <2>2, <2>3
<1> QED
  BY <1>6

FromOne(f, n, z, next) == f[1] = z /\ \A i \in 2 .. n : f[i] = next[i][f[i - 1]]

LEMMA RecursionFromOne ==
  ASSUME NEW n \in Nat \ {0}, NEW S, NEW z \in S, NEW next \in [2 .. n -> [S -> S]]
  PROVE  \E f \in [1 .. n -> S] : FromOne(f, n, z, next)
<1>1. PICK m : m = n - 1
  OBVIOUS
<1>2. m \in Nat /\ m + 1 = n
  BY <1>1
<1>3. PICK nx : nx = [i \in 1 .. m |-> next[i + 1]]
  OBVIOUS
<1>4. nx \in [1 .. m -> [S -> S]] /\ \A i \in 1 .. m : nx[i] = next[i + 1]
  <2>1. ASSUME NEW i \in 1 .. m PROVE next[i + 1] \in [S -> S]
    <3>1. i + 1 \in 2 .. n
      BY <1>2
    <3> QED
      BY <3>1
  <2> QED
    BY <1>3, <2>1
<1>5. PICK h \in [0 .. m -> S] : ByStep(h, m, z, nx)
  BY <1>2, <1>4, RecursionExists
<1>6. PICK f : f = [i \in 1 .. n |-> h[i - 1]]
  OBVIOUS
<1>7. \A i \in 1 .. n : i - 1 \in 0 .. m
  BY <1>2
<1>8. f \in [1 .. n -> S] /\ \A i \in 1 .. n : f[i] = h[i - 1]
  BY <1>6, <1>7
<1>9. f[1] = z
  BY <1>5, <1>8 DEF ByStep
<1>10. ASSUME NEW i \in 2 .. n PROVE f[i] = next[i][f[i - 1]]
  <2>1. PICK k : k = i - 1
    OBVIOUS
  <2>2. k \in 1 .. m /\ k + 1 = i /\ k \in 1 .. n /\ i \in 1 .. n
    BY <1>2, <2>1
  <2>3. h[k] = nx[k][h[k - 1]] /\ nx[k] = next[i]
    BY <1>4, <1>5, <2>2 DEF ByStep
  <2>4. f[i] = h[k] /\ f[k] = h[k - 1]
    BY <1>8, <2>1, <2>2
  <2> QED
    BY <2>1, <2>3, <2>4
<1> QED
  BY <1>8, <1>9, <1>10 DEF FromOne

-----------------------------------------------------------------------------
(***************************************************************************)
(* What a path costs.                                                      *)
(***************************************************************************)
Walk(g, p) ==
    /\ p \in Seq(Points) /\ Len(p) >= 1
    /\ \A i \in 1 .. Len(p) - 1 : <<p[i], p[i + 1]>> \in DOMAIN g

Cost(g, p) == prefixWeight(g, p, Len(p))

\* The function prefixWeight computes, whatever its last place is.
SumsUp(W, g, p, n) ==
    /\ W \in [1 .. n -> Nat] /\ W[1] = 0
    /\ \A i \in 2 .. n : W[i] = W[i - 1] + g[<<p[i - 1], p[i]>>]

LEMMA SumsExist ==
  ASSUME NEW g, WGraph(g), NEW p, Walk(g, p)
  PROVE  \E W : SumsUp(W, g, p, Len(p))
<1>1. PICK n : n = Len(p)
  OBVIOUS
<1>2. n \in Nat \ {0}
  BY <1>1 DEF Walk
<1>3. \A i \in 2 .. n : g[<<p[i - 1], p[i]>>] \in Nat
  <2> TAKE i \in 2 .. n
  <2>1. PICK k : k = i - 1
    OBVIOUS
  <2>2. k \in 1 .. n - 1 /\ k + 1 = i
    BY <1>2, <2>1
  <2>3. <<p[k], p[k + 1]>> \in DOMAIN g
    BY <1>1, <2>2 DEF Walk
  <2> QED
    BY <2>1, <2>2, <2>3 DEF WGraph
<1>4. PICK next : next = [i \in 2 .. n |-> [x \in Nat |-> x + g[<<p[i - 1], p[i]>>]]]
  OBVIOUS
<1>5. next \in [2 .. n -> [Nat -> Nat]]
  <2>1. ASSUME NEW i \in 2 .. n PROVE [x \in Nat |-> x + g[<<p[i - 1], p[i]>>]] \in [Nat -> Nat]
    <3>1. PICK y : y = g[<<p[i - 1], p[i]>>]
      OBVIOUS
    <3>2. y \in Nat
      BY <1>3, <3>1
    <3> QED
      BY <3>1, <3>2
  <2> QED
    BY <1>4, <2>1
<1>6. PICK W \in [1 .. n -> Nat] : W[1] = 0 /\ \A i \in 2 .. n : W[i] = next[i][W[i - 1]]
  <2>1. PICK S, z : S = Nat /\ z = 0
    OBVIOUS
  <2>2. next \in [2 .. n -> [S -> S]] /\ z \in S
    BY <1>5, <2>1
  <2>3. PICK W \in [1 .. n -> S] : FromOne(W, n, z, next)
    BY <1>2, <2>2, RecursionFromOne
  <2> QED
    BY <2>1, <2>3 DEF FromOne
<1>7. ASSUME NEW i \in 2 .. n PROVE W[i] = W[i - 1] + g[<<p[i - 1], p[i]>>]
  <2>1. PICK x : x = W[i - 1]
    OBVIOUS
  <2>2. i - 1 \in 1 .. n
    BY <1>2
  <2>3. x \in Nat
    BY <1>6, <2>1, <2>2
  <2>4. next[i][x] = x + g[<<p[i - 1], p[i]>>]
    BY <1>4, <2>3
  <2> QED
    BY <1>6, <2>1, <2>4
<1> QED
  BY <1>1, <1>6, <1>7 DEF SumsUp

LEMMA PrefixWeightSums ==
  ASSUME NEW g, NEW p, NEW n \in Nat, NEW W, SumsUp(W, g, p, n), NEW m \in 1 .. n
  PROVE  prefixWeight(g, p, m) = W[m]
<1> DEFINE Rec(h) == [j \in 1 .. m |-> IF j = 1 THEN 0 ELSE h[j - 1] + g[<<p[j - 1], p[j]>>]]
           w == CHOOSE h : h = Rec(h)
<1>1. prefixWeight(g, p, m) = w[m]
  BY DEF prefixWeight
<1>2. PICK f : f = [j \in 1 .. m |-> W[j]]
  OBVIOUS
<1>3. f = Rec(f)
  <2>1. ASSUME NEW j \in 1 .. m PROVE f[j] = IF j = 1 THEN 0 ELSE f[j - 1] + g[<<p[j - 1], p[j]>>]
    <3>1. CASE j = 1
      BY <1>2, <3>1 DEF SumsUp
    <3>2. CASE j # 1
      <4>1. j \in 2 .. n /\ j - 1 \in 1 .. m
        BY <3>2
      <4> QED
        BY <1>2, <3>2, <4>1 DEF SumsUp
    <3> QED
      BY <3>1, <3>2
  <2>2. f = [j \in 1 .. m |-> f[j]]
    BY <1>2
  <2> QED
    BY <2>1, <2>2
<1>4. w = Rec(w)
  <2> HIDE DEF Rec
  <2> QED
    BY <1>3, Zenon
<1>5. PICK r : r = Rec(r) /\ prefixWeight(g, p, m) = r[m]
  <2> HIDE DEF Rec, w
  <2> QED
    BY <1>1, <1>4
<1>6. \A j \in 1 .. m : r[j] = IF j = 1 THEN 0 ELSE r[j - 1] + g[<<p[j - 1], p[j]>>]
  BY <1>5
<1>7. PICK G : G = {j \in 1 .. m : r[j] = W[j]}
  OBVIOUS
<1>8. 1 \in G
  <2>1. 1 \in 1 .. m /\ W[1] = 0
    BY DEF SumsUp
  <2> QED
    BY <1>6, <1>7, <2>1
<1>9. ASSUME NEW j \in 2 .. m, j - 1 \in G PROVE j \in G
  <2>1. j \in 1 .. m /\ j # 1 /\ j \in 2 .. n /\ r[j - 1] = W[j - 1]
    BY <1>7, <1>9
  <2>2. r[j] = r[j - 1] + g[<<p[j - 1], p[j]>>]
    BY <1>6, <2>1
  <2>3. W[j] = W[j - 1] + g[<<p[j - 1], p[j]>>]
    BY <2>1 DEF SumsUp
  <2> QED
    BY <1>7, <2>1, <2>2, <2>3
<1>10. m \in Nat /\ m \in 1 .. m
  OBVIOUS
<1>11. \A j \in 1 .. m : j \in G
  BY <1>8, <1>9, <1>10, UpFromOne
<1> QED
  BY <1>5, <1>7, <1>10, <1>11

\* The weight of a path grows by that of each edge.
LEMMA PrefixWeightIs ==
  ASSUME NEW g, WGraph(g), NEW p, Walk(g, p)
  PROVE  /\ prefixWeight(g, p, 1) = 0
         /\ \A i \in 1 .. Len(p) : prefixWeight(g, p, i) \in Nat
         /\ \A i \in 2 .. Len(p) :
              prefixWeight(g, p, i) = prefixWeight(g, p, i - 1) + g[<<p[i - 1], p[i]>>]
         /\ Cost(g, p) \in Nat
<1>1. PICK n, W : n = Len(p) /\ SumsUp(W, g, p, n)
  BY SumsExist
<1>2. n \in Nat /\ n >= 1 /\ n \in 1 .. n /\ 1 \in 1 .. n
  BY <1>1 DEF Walk
<1>3. \A i \in 1 .. n : prefixWeight(g, p, i) = W[i]
  BY <1>1, <1>2, PrefixWeightSums
<1>4. \A i \in 2 .. n : i \in 1 .. n /\ i - 1 \in 1 .. n
  BY <1>2
<1>5. W \in [1 .. n -> Nat] /\ W[1] = 0 /\ \A i \in 2 .. n : W[i] = W[i - 1] + g[<<p[i - 1], p[i]>>]
  BY <1>1 DEF SumsUp
<1> QED
  BY <1>1, <1>2, <1>3, <1>4, <1>5 DEF Cost

LEMMA PrefixWeightGrows ==
  ASSUME NEW g, WGraph(g), NEW p, Walk(g, p), NEW i \in 1 .. Len(p)
  PROVE  prefixWeight(g, p, i) <= Cost(g, p)
<1>1. PICK n, c : n = Len(p) /\ c = Cost(g, p)
  OBVIOUS
<1>2. n \in Nat /\ n >= 1
  BY <1>1 DEF Walk
<1>3. PICK G : G = {j \in 1 .. n : prefixWeight(g, p, (n + 1) - j) <= c}
  OBVIOUS
<1>4. c \in Nat /\ c = prefixWeight(g, p, n)
  BY <1>1, PrefixWeightIs DEF Cost
<1>5. 1 \in G
  <2>1. (n + 1) - 1 = n /\ 1 \in 1 .. n
    BY <1>2
  <2> QED
    BY <1>3, <1>4, <2>1
<1>6. ASSUME NEW j \in 2 .. n, j - 1 \in G PROVE j \in G
  <2>1. PICK k : k = (n + 1) - j
    OBVIOUS
  <2>2. k \in 1 .. n - 1 /\ k + 1 = (n + 1) - (j - 1) /\ k + 1 \in 2 .. n /\ (k + 1) - 1 = k /\ k \in 1 .. n /\ k + 1 \in 1 .. n
    BY <1>2, <2>1
  <2>3. prefixWeight(g, p, k + 1) <= c
    BY <1>3, <1>6, <2>2
  <2>4. PICK a, b, e : a = prefixWeight(g, p, k) /\ b = prefixWeight(g, p, k + 1) /\ e = g[<<p[k], p[k + 1]>>]
    OBVIOUS
  <2>5. b = a + e
    BY <1>1, <2>2, <2>4, PrefixWeightIs
  <2>6. a \in Nat /\ b \in Nat
    BY <1>1, <2>2, <2>4, PrefixWeightIs
  <2>7. e \in Nat
    <3>1. <<p[k], p[k + 1]>> \in DOMAIN g
      BY <1>1, <2>2 DEF Walk
    <3> QED
      BY <2>4, <3>1 DEF WGraph
  <2>8. a <= c
    BY <1>4, <2>3, <2>4, <2>5, <2>6, <2>7
  <2> QED
    BY <1>3, <2>1, <2>4, <2>8
<1>7. \A j \in 1 .. n : j \in G
  BY <1>2, <1>5, <1>6, UpFromOne
<1>8. PICK j : j = (n + 1) - i
  OBVIOUS
<1>9. j \in 1 .. n /\ (n + 1) - j = i
  BY <1>1, <1>2, <1>8
<1>10. prefixWeight(g, p, (n + 1) - j) <= c
  BY <1>3, <1>7, <1>9
<1> QED
  BY <1>1, <1>9, <1>10

\* The weight of the beginning of a path depends on that beginning alone.
LEMMA PrefixWeightSame ==
  ASSUME NEW g, WGraph(g), NEW p, NEW q, Walk(g, p), Walk(g, q),
         NEW n \in Nat, n <= Len(p), n <= Len(q), \A i \in 1 .. n : p[i] = q[i]
  PROVE  \A i \in 1 .. n : prefixWeight(g, p, i) = prefixWeight(g, q, i)
<1>1. PICK G : G = {i \in 1 .. n : prefixWeight(g, p, i) = prefixWeight(g, q, i)}
  OBVIOUS
<1>2. CASE n = 0
  BY <1>2
<1>3. CASE n # 0
  <2>1. 1 \in G
    BY <1>1, <1>3, PrefixWeightIs
  <2>2. ASSUME NEW i \in 2 .. n, i - 1 \in G PROVE i \in G
    <3>1. i \in 1 .. n /\ i - 1 \in 1 .. n /\ i \in 2 .. Len(p) /\ i \in 2 .. Len(q)
      BY DEF Walk
    <3>2. p[i] = q[i] /\ p[i - 1] = q[i - 1] /\ prefixWeight(g, p, i - 1) = prefixWeight(g, q, i - 1)
      BY <1>1, <2>2, <3>1
    <3>3. prefixWeight(g, p, i) = prefixWeight(g, p, i - 1) + g[<<p[i - 1], p[i]>>]
      BY <3>1, PrefixWeightIs
    <3>4. prefixWeight(g, q, i) = prefixWeight(g, q, i - 1) + g[<<q[i - 1], q[i]>>]
      BY <3>1, PrefixWeightIs
    <3> QED
      BY <1>1, <3>1, <3>2, <3>3, <3>4
  <2>3. \A i \in 1 .. n : i \in G
    BY <2>1, <2>2, UpFromOne
  <2> QED
    BY <1>1, <2>3
<1> QED
  BY <1>2, <1>3

\* A walk that goes on.
LEMMA CostOfAppend ==
  ASSUME NEW g, WGraph(g), NEW p, Walk(g, p), NEW v \in Points, <<p[Len(p)], v>> \in DOMAIN g
  PROVE  Walk(g, Append(p, v)) /\ Cost(g, Append(p, v)) = Cost(g, p) + g[<<p[Len(p)], v>>]
<1>1. PICK n, q : n = Len(p) /\ q = Append(p, v)
  OBVIOUS
<1>2. n \in Nat /\ n >= 1 /\ q \in Seq(Points) /\ Len(q) = n + 1 /\ q[n + 1] = v /\ \A i \in 1 .. n : q[i] = p[i]
  BY <1>1 DEF Walk
<1>3. ASSUME NEW i \in 1 .. (n + 1) - 1 PROVE <<q[i], q[i + 1]>> \in DOMAIN g
  <2>1. CASE i = n
    BY <1>1, <1>2, <2>1
  <2>2. CASE i # n
    <3>1. PICK k : k = i + 1
      OBVIOUS
    <3>2. i \in 1 .. n - 1 /\ i \in 1 .. n /\ k \in 1 .. n
      BY <1>2, <2>2, <3>1
    <3> QED
      BY <1>1, <1>2, <3>1, <3>2 DEF Walk
  <2> QED
    BY <2>1, <2>2
<1>4. Walk(g, q)
  BY <1>2, <1>3 DEF Walk
<1>5. prefixWeight(g, q, n) = prefixWeight(g, p, n)
  <2>1. n \in 1 .. n /\ n <= Len(p) /\ n <= Len(q) /\ \A i \in 1 .. n : p[i] = q[i]
    BY <1>1, <1>2
  <2> QED
    BY <1>2, <1>4, <2>1, PrefixWeightSame
<1>6. PICK k : k = n + 1
  OBVIOUS
<1>7. k \in 2 .. Len(q) /\ k - 1 = n
  BY <1>2, <1>6
<1>8. prefixWeight(g, q, k) = prefixWeight(g, q, k - 1) + g[<<q[k - 1], q[k]>>]
  BY <1>4, <1>7, PrefixWeightIs
<1>9. n \in 1 .. n /\ q[n] = p[n]
  BY <1>2
<1> QED
  BY <1>1, <1>2, <1>4, <1>5, <1>6, <1>7, <1>8, <1>9 DEF Cost


-----------------------------------------------------------------------------
(***************************************************************************)
(* The search finds a cheapest path: a label is what its path costs, and   *)
(* no edge out of a settled vertex promises less than the label it leads   *)
(* to.                                                                     *)
(***************************************************************************)
Counted(s, g) == \A v \in DOMAIN s.label : s.label[v].w = Cost(g, s.label[v].path)

ClosedUp(s, g, src, dst, rV, rE) ==
    /\ s.label[src].w = 0
    /\ \A e \in DOMAIN g : e[1] \in s.done \ {dst} /\ e[2] \notin rV /\ e \notin rE =>
          e[2] \in DOMAIN s.label /\ s.label[e[2]].w <= s.label[e[1]].w + g[e]

Stopped(s, dst) == DOMAIN s.label = s.done \/ dst \in s.done

LEMMA TrailIsWalk ==
  ASSUME NEW g, NEW p, NEW src, NEW dst, NEW rV, NEW rE, Trail(g, p, src, dst, rV, rE)
  PROVE  Walk(g, p)
BY DEF Trail, Walk

LEMMA UpFromZero ==
  ASSUME NEW n \in Nat, NEW G, 0 \in G, \A i \in 1 .. n : i - 1 \in G => i \in G
  PROVE  \A i \in 0 .. n : i \in G
<1>1. PICK f : f = [i \in 0 .. n |-> i]
  OBVIOUS
<1>2. f[0] \in G
  BY <1>1
<1>3. ASSUME NEW i \in 1 .. n, f[i - 1] \in G PROVE f[i] \in G
  <2>1. f[i] = i /\ f[i - 1] = i - 1
    BY <1>1
  <2> QED
    BY <1>3, <2>1
<1>4. \A i \in 0 .. n : f[i] \in G
  BY <1>2, <1>3, StaysIn
<1> QED
  BY <1>1, <1>4

LEMMA SettleIs ==
  ASSUME NEW s \in Searches, NEW g, NEW u, NEW E
  PROVE  LET t == Settle(s, u, g, E)
             H == {e[2] : e \in E}
         IN  /\ t.done = s.done \cup {u} /\ DOMAIN t.label = DOMAIN s.label \cup H
             /\ \A v \in H : /\ t.label[v].w = s.label[u].w + g[<<u, v>>]
                             /\ t.label[v].path = Append(s.label[u].path, v)
             /\ \A v \in DOMAIN s.label \ H : t.label[v] = s.label[v]
<1>0. PICK t, H : t = Settle(s, u, g, E) /\ H = {e[2] : e \in E}
  OBVIOUS
<1>1. PICK f : f = Label(s, u, g, E)
  OBVIOUS
<1>2. PICK pu, wu : pu = s.label[u].path /\ wu = s.label[u].w
  OBVIOUS
<1>3. /\ DOMAIN f = DOMAIN s.label \cup H
      /\ \A v \in H : f[v] = [w |-> wu + g[<<u, v>>], path |-> Append(pu, v)]
      /\ \A v \in DOMAIN s.label \ H : f[v] = s.label[v]
  BY <1>0, <1>1, <1>2 DEF Label
<1>4. t.label = f /\ t.done = s.done \cup {u}
  BY <1>0, <1>1 DEF Settle
<1>5. ASSUME NEW v \in H PROVE f[v].w = wu + g[<<u, v>>] /\ f[v].path = Append(pu, v)
  <2>1. PICK w, q : w = wu + g[<<u, v>>] /\ q = Append(pu, v)
    OBVIOUS
  <2>2. f[v] = [w |-> w, path |-> q]
    BY <1>3, <2>1
  <2> QED
    BY <2>1, <2>2
<1> QED
  BY <1>0, <1>2, <1>3, <1>4, <1>5

LEMMA SettleCloses ==
  ASSUME NEW g, WGraph(g), NEW src, NEW dst, NEW rV, NEW rE, NEW s \in Searches, Labelled(s, g, src, rV, rE),
         Counted(s, g), ClosedUp(s, g, src, dst, rV, rE),
         NEW u \in DOMAIN s.label \ s.done,
         \A y \in DOMAIN s.label \ s.done : s.label[u].w <= s.label[y].w
  PROVE  LET t == Settle(s, u, g, Relaxed(s, u, g, rV, rE))
         IN  /\ Counted(t, g) /\ ClosedUp(t, g, src, dst, rV, rE) /\ t.done = s.done \cup {u}
             /\ \A v \in DOMAIN t.label : v \in DOMAIN s.label \/ v \in Vertices(g)
<1>1. PICK E, H, t : E = Relaxed(s, u, g, rV, rE) /\ H = {e[2] : e \in E} /\ t = Settle(s, u, g, E)
  OBVIOUS
<1>2. /\ t.done = s.done \cup {u} /\ DOMAIN t.label = DOMAIN s.label \cup H
      /\ \A v \in H : /\ t.label[v].w = s.label[u].w + g[<<u, v>>]
                      /\ t.label[v].path = Append(s.label[u].path, v)
      /\ \A v \in DOMAIN s.label \ H : t.label[v] = s.label[v]
  BY <1>1, SettleIs
<1>3. \A v \in H : /\ <<u, v>> \in DOMAIN g \ rE /\ v \notin rV /\ v \in Points /\ v \notin s.done /\ v # u
                   /\ g[<<u, v>>] \in Nat
  BY <1>1, HeadsAre
<1>4. \A e \in DOMAIN g : e = <<e[1], e[2]>> /\ g[e] \in Nat
  BY DEF WGraph
<1>5. \A v \in DOMAIN s.label : s.label[v].w \in Nat
  BY LabelIs
<1>6. ASSUME NEW v \in H PROVE <<u, v>> \in E
  <2>1. PICK e \in E : v = e[2]
    BY <1>1
  <2>2. e \in DOMAIN g /\ e[1] = u
    BY <1>1, <2>1 DEF Relaxed
  <2> QED
    BY <1>4, <2>1, <2>2
<1>7. \A v \in H : v \in DOMAIN s.label => s.label[u].w + g[<<u, v>>] < s.label[v].w
  <2> TAKE v \in H
  <2>1. PICK e : e = <<u, v>>
    OBVIOUS
  <2>2. e \in Relaxed(s, u, g, rV, rE) /\ e[2] = v
    BY <1>1, <1>6, <2>1
  <2> QED
    BY <2>1, <2>2 DEF Relaxed
<1>8. Counted(t, g)
  <2> SUFFICES ASSUME NEW v \in DOMAIN t.label PROVE t.label[v].w = Cost(g, t.label[v].path)
    BY DEF Counted
  <2>1. CASE v \in H
    <3>1. PICK p : p = s.label[u].path
      OBVIOUS
    <3>2. Walk(g, p) /\ p[Len(p)] = u
      <4>1. Trail(g, p, src, u, rV, rE)
        BY <3>1 DEF Labelled
      <4> QED
        BY <4>1, TrailIsWalk DEF Trail
    <3>3. Cost(g, Append(p, v)) = Cost(g, p) + g[<<u, v>>]
      BY <1>3, <2>1, <3>2, CostOfAppend
    <3>4. s.label[u].w = Cost(g, p)
      BY <3>1 DEF Counted
    <3> QED
      BY <1>2, <2>1, <3>1, <3>3, <3>4
  <2>2. CASE v \notin H
    BY <1>2, <2>2 DEF Counted
  <2> QED
    BY <2>1, <2>2
<1>9. t.label[src].w = 0
  <2>1. src \in DOMAIN s.label /\ s.label[src].w = 0
    BY DEF Labelled, ClosedUp
  <2>2. src \notin H
    <3>1. ASSUME src \in H PROVE FALSE
      <4>1. s.label[u].w + g[<<u, src>>] < 0
        BY <1>7, <2>1, <3>1
      <4> QED
        BY <1>3, <1>5, <3>1, <4>1
    <3> QED
      BY <3>1
  <2> QED
    BY <1>2, <2>1, <2>2
<1>10. ASSUME NEW e \in DOMAIN g, e[1] \in t.done \ {dst}, e[2] \notin rV, e \notin rE
       PROVE  e[2] \in DOMAIN t.label /\ t.label[e[2]].w <= t.label[e[1]].w + g[e]
  <2>1. PICK x, v : x = e[1] /\ v = e[2]
    OBVIOUS
  <2>2. e = <<x, v>> /\ g[e] \in Nat /\ x \in s.done \cup {u} /\ x # dst
    BY <1>2, <1>4, <1>10, <2>1
  <2>3. x \notin H /\ x \in DOMAIN s.label /\ t.label[x] = s.label[x] /\ s.label[x].w \in Nat
    BY <1>2, <1>3, <1>5, <2>2 DEF Labelled
  <2>4. CASE v \in H
    <3>1. v \in DOMAIN t.label /\ t.label[v].w = s.label[u].w + g[<<u, v>>]
      BY <1>2, <2>4
    <3>2. CASE x = u
      BY <1>3, <1>5, <2>1, <2>2, <2>3, <2>4, <3>1, <3>2
    <3>3. CASE x # u
      <4>1. v \in DOMAIN s.label /\ s.label[v].w <= s.label[x].w + g[e]
        BY <1>10, <2>1, <2>2, <3>3 DEF ClosedUp
      <4>2. s.label[u].w + g[<<u, v>>] < s.label[v].w
        BY <1>7, <2>4, <4>1
      <4>3. PICK a, b, c, d, h : a = s.label[u].w /\ b = g[<<u, v>>] /\ c = s.label[v].w /\ d = s.label[x].w /\ h = g[e]
        OBVIOUS
      <4>4. a \in Nat /\ b \in Nat /\ c \in Nat /\ d \in Nat /\ h \in Nat
        BY <1>3, <1>5, <2>2, <2>3, <2>4, <4>1, <4>3
      <4>5. a + b <= d + h
        BY <4>1, <4>2, <4>3, <4>4
      <4> QED
        BY <2>1, <2>3, <3>1, <4>3, <4>5
    <3> QED
      BY <3>2, <3>3
  <2>5. CASE v \notin H
    <3>1. v \in DOMAIN s.label /\ s.label[v].w <= s.label[x].w + g[e]
      <4>1. CASE x = u
        <5>1. e \notin E
          BY <1>1, <2>1, <2>5
        <5>2. v \in DOMAIN s.label /\ ~(s.label[u].w + g[e] < s.label[v].w)
          BY <1>1, <1>10, <2>1, <4>1, <5>1 DEF Relaxed
        <5>3. s.label[u].w \in Nat /\ s.label[v].w \in Nat
          BY <1>5, <5>2
        <5> QED
          BY <2>2, <4>1, <5>2, <5>3
      <4>2. CASE x # u
        BY <1>10, <2>1, <2>2, <4>2 DEF ClosedUp
      <4> QED
        BY <4>1, <4>2
    <3> QED
      BY <1>2, <2>1, <2>3, <2>5, <3>1
  <2> QED
    BY <2>4, <2>5
<1>11. ClosedUp(t, g, src, dst, rV, rE)
  BY <1>9, <1>10 DEF ClosedUp
<1>12. \A v \in DOMAIN t.label : v \in DOMAIN s.label \/ v \in Vertices(g)
  <2>1. ASSUME NEW v \in H PROVE v \in Vertices(g)
    <3>1. PICK e : e = <<u, v>>
      OBVIOUS
    <3>2. e \in DOMAIN g /\ e[2] = v
      BY <1>3, <2>1, <3>1
    <3> QED
      BY <3>2 DEF Vertices
  <2> QED
    BY <1>2, <2>1
<1> QED
  BY <1>1, <1>2, <1>8, <1>11, <1>12

\* One step of a search that has not stopped settles one more vertex.
Closer(s, t, g, src, dst, rV, rE) ==
    /\ Counted(t, g) /\ ClosedUp(t, g, src, dst, rV, rE) /\ DOMAIN t.label \subseteq Vertices(g)
    /\ Stopped(s, dst) => t = s
    /\ ~Stopped(s, dst) => \E u \in DOMAIN s.label : u \notin s.done /\ t.done = s.done \cup {u}

LEMMA StepCloses ==
  ASSUME NEW g, WGraph(g), NEW src, NEW dst, NEW rV, NEW rE, NEW s \in Searches, Labelled(s, g, src, rV, rE),
         Counted(s, g), ClosedUp(s, g, src, dst, rV, rE), DOMAIN s.label \subseteq Vertices(g)
  PROVE  Closer(s, Step(s, g, dst, rV, rE), g, src, dst, rV, rE)
<1>1. PICK u, t : u = NextVertex(s) /\ t = Step(s, g, dst, rV, rE)
  OBVIOUS
<1>2. CASE Stopped(s, dst)
  BY <1>1, <1>2 DEF Step, Stopped, Closer
<1>3. CASE ~Stopped(s, dst) /\ u = dst
  <2>1. DOMAIN s.label \ s.done # {}
    BY <1>3 DEF Labelled, Stopped
  <2>2. u \in DOMAIN s.label \ s.done
    BY <1>1, <2>1, NextVertexIs
  <2>3. t = [s EXCEPT !.done = @ \cup {dst}]
    BY <1>1, <1>3 DEF Step, Stopped
  <2>4. t = [label |-> s.label, done |-> s.done \cup {dst}]
    BY <2>3 DEF Searches
  <2>5. Counted(t, g) /\ ClosedUp(t, g, src, dst, rV, rE)
    BY <2>4 DEF Counted, ClosedUp
  <2> QED
    BY <1>1, <1>3, <2>2, <2>4, <2>5 DEF Closer
<1>4. CASE ~Stopped(s, dst) /\ u # dst
  <2>1. DOMAIN s.label \ s.done # {}
    BY <1>4 DEF Labelled, Stopped
  <2>2. u \in DOMAIN s.label \ s.done /\ \A y \in DOMAIN s.label \ s.done : s.label[u].w <= s.label[y].w
    BY <1>1, <2>1, NextVertexIs
  <2>3. t = Settle(s, u, g, Relaxed(s, u, g, rV, rE))
    BY <1>1, <1>4 DEF Step, Stopped
  <2>4. /\ Counted(t, g) /\ ClosedUp(t, g, src, dst, rV, rE) /\ t.done = s.done \cup {u}
        /\ \A v \in DOMAIN t.label : v \in DOMAIN s.label \/ v \in Vertices(g)
    BY <2>2, <2>3, SettleCloses
  <2> QED
    BY <1>1, <1>4, <2>2, <2>4 DEF Closer
<1> QED
  BY <1>1, <1>2, <1>3, <1>4

\* The end of a search that started at a vertex of the graph.
Ended(s, g, src, dst, rV, rE) ==
    /\ s \in Searches /\ Labelled(s, g, src, rV, rE) /\ Counted(s, g) /\ ClosedUp(s, g, src, dst, rV, rE)
    /\ Stopped(s, dst)

LEMMA SearchEnds ==
  ASSUME NEW g, WGraph(g), NEW src \in Vertices(g), NEW dst, NEW rV, NEW rE, src \notin rV, dst \notin rV
  PROVE  \E s : Ended(s, g, src, dst, rV, rE) /\ dijkstra(g, src, dst, rV, rE) = Answer(s, dst)
<1>1. PICK n : n = Cardinality(Vertices(g))
  OBVIOUS
<1>2. n \in Nat /\ IsFiniteSet(Vertices(g)) /\ src \in Points
  BY <1>1, VerticesFinite
<1>3. PICK run : SearchRun(run, g, src, dst, rV, rE)
  BY <1>2, DijkstraRuns
<1>4. /\ run[0] = [label |-> [v \in {src} |-> [w |-> 0, path |-> <<src>>]], done |-> {}]
      /\ \A i \in 1 .. n : run[i] = Step(run[i - 1], g, dst, rV, rE)
      /\ \A i \in 0 .. n : run[i] \in Searches /\ Labelled(run[i], g, src, rV, rE)
      /\ dijkstra(g, src, dst, rV, rE) = Answer(run[n], dst)
  BY <1>1, <1>3 DEF SearchRun
<1> DEFINE S == {s \in Searches : /\ Labelled(s, g, src, rV, rE) /\ Counted(s, g)
                                  /\ ClosedUp(s, g, src, dst, rV, rE) /\ DOMAIN s.label \subseteq Vertices(g)}
           G == {i \in 0 .. n : Stopped(run[i], dst) \/ Cardinality(run[i].done) = i}
<1>5. run[0] \in S /\ run[0].done = {}
  <2>1. PICK z, p, l, one : z = run[0] /\ p = <<src>> /\ l = [w |-> 0, path |-> p] /\ one = [v \in {src} |-> l]
    OBVIOUS
  <2>2. z.label = one /\ z.done = {} /\ DOMAIN one = {src} /\ one[src] = l /\ l.w = 0 /\ l.path = p
    <3>1. z = [label |-> one, done |-> {}]
      BY <1>4, <2>1
    <3> QED
      BY <2>1, <3>1
  <2>3. p \in Seq(Points) /\ Len(p) = 1
    BY <1>2, <2>1
  <2>4. Walk(g, p)
    <3>1. \A i : i \notin 1 .. Len(p) - 1
      BY <2>3
    <3> QED
      BY <2>3, <3>1 DEF Walk
  <2>5. Cost(g, p) = 0
    BY <2>3, <2>4, PrefixWeightIs DEF Cost
  <2>6. Counted(z, g)
    BY <2>2, <2>5 DEF Counted
  <2>7. ClosedUp(z, g, src, dst, rV, rE)
    BY <2>2 DEF ClosedUp
  <2>8. 0 \in 0 .. n
    BY <1>2
  <2> QED
    BY <1>4, <2>1, <2>2, <2>6, <2>7, <2>8
<1>6. ASSUME NEW i \in 1 .. n, run[i - 1] \in S PROVE run[i] \in S
  <2>1. PICK s, t : s = run[i - 1] /\ t = run[i]
    OBVIOUS
  <2>2. t = Step(s, g, dst, rV, rE) /\ t \in Searches /\ Labelled(t, g, src, rV, rE)
    BY <1>2, <1>4, <2>1
  <2>3. s \in Searches /\ Labelled(s, g, src, rV, rE) /\ Counted(s, g) /\ ClosedUp(s, g, src, dst, rV, rE)
        /\ DOMAIN s.label \subseteq Vertices(g)
    BY <1>6, <2>1
  <2>4. Counted(t, g) /\ ClosedUp(t, g, src, dst, rV, rE) /\ DOMAIN t.label \subseteq Vertices(g)
    BY <2>2, <2>3, StepCloses DEF Closer
  <2> QED
    BY <2>1, <2>2, <2>4
<1>7. \A i \in 0 .. n : run[i] \in S
  <2> HIDE DEF S
  <2> QED
    BY <1>2, <1>5, <1>6, StaysIn
<1>8. 0 \in G
  <2>1. 0 \in 0 .. n
    BY <1>2
  <2>2. Cardinality({}) = 0
    BY FS_EmptySet
  <2> QED
    BY <1>5, <2>1, <2>2
<1>9. ASSUME NEW i \in 1 .. n, i - 1 \in G PROVE i \in G
  <2>1. PICK s, t, k : s = run[i - 1] /\ t = run[i] /\ k = i - 1
    OBVIOUS
  <2>2. k \in 0 .. n /\ k + 1 = i /\ i \in 0 .. n /\ t = Step(s, g, dst, rV, rE)
    BY <1>2, <1>4, <2>1
  <2>3. s \in S
    <3> HIDE DEF S, G
    <3> QED
      BY <1>7, <2>1, <2>2
  <2>4. s \in Searches /\ Labelled(s, g, src, rV, rE) /\ Counted(s, g) /\ ClosedUp(s, g, src, dst, rV, rE)
        /\ DOMAIN s.label \subseteq Vertices(g)
    BY <2>3
  <2>5. Stopped(s, dst) \/ Cardinality(s.done) = k
    BY <1>9, <2>1
  <2>8. Closer(s, t, g, src, dst, rV, rE)
    BY <2>2, <2>4, StepCloses
  <2>6. CASE Stopped(s, dst)
    <3>1. t = s
      BY <2>6, <2>8 DEF Closer
    <3> QED
      BY <2>1, <2>2, <2>6, <3>1
  <2>7. CASE ~Stopped(s, dst)
    <3>1. PICK u \in DOMAIN s.label : u \notin s.done /\ t.done = s.done \cup {u}
      BY <2>7, <2>8 DEF Closer
    <3>2. IsFiniteSet(s.done)
      <4>1. s.done \subseteq Vertices(g)
        BY <2>4 DEF Labelled
      <4> QED
        BY <1>2, <4>1, FS_Subset
    <3>3. Cardinality(t.done) = k + 1
      BY <2>5, <2>7, <3>1, <3>2, FS_AddElement
    <3> QED
      BY <2>1, <2>2, <3>3
  <2> QED
    BY <2>6, <2>7
<1>10. n \in G
  <2>1. n \in 0 .. n
    BY <1>2
  <2> HIDE DEF G
  <2> QED
    BY <1>2, <1>8, <1>9, <2>1, UpFromZero
<1>11. PICK s : s = run[n]
  OBVIOUS
<1>12. s \in Searches /\ Labelled(s, g, src, rV, rE) /\ Counted(s, g) /\ ClosedUp(s, g, src, dst, rV, rE)
       /\ DOMAIN s.label \subseteq Vertices(g)
  <2>1. n \in 0 .. n
    BY <1>2
  <2>2. s \in S
    <3> HIDE DEF S
    <3> QED
      BY <1>7, <1>11, <2>1
  <2> QED
    BY <2>2
<1>13. Stopped(s, dst)
  <2>1. Stopped(s, dst) \/ Cardinality(s.done) = n
    BY <1>10, <1>11
  <2>2. ASSUME Cardinality(s.done) = n PROVE DOMAIN s.label = s.done
    <3>1. s.done \subseteq DOMAIN s.label
      BY <1>12 DEF Labelled
    <3>2. s.done \subseteq Vertices(g)
      BY <1>12, <3>1
    <3>3. s.done = Vertices(g)
      BY <1>1, <1>2, <2>2, <3>2, FS_Subset
    <3> QED
      BY <1>12, <3>1, <3>3
  <2> QED
    BY <2>1, <2>2 DEF Stopped
<1>14. Ended(s, g, src, dst, rV, rE)
  BY <1>12, <1>13 DEF Ended
<1> QED
  BY <1>4, <1>11, <1>14

\* Where there is a path the search finds one, and none is cheaper.
LEMMA DijkstraBest ==
  ASSUME NEW g, WGraph(g), NEW src, NEW dst, src # dst, NEW rV, NEW rE, NEW q, Trail(g, q, src, dst, rV, rE)
  PROVE  \E l \in dijkstra(g, src, dst, rV, rE) : l.w <= Cost(g, q)
<1>1. PICK n : n = Len(q)
  OBVIOUS
<1>2. /\ n \in Nat /\ n >= 2 /\ q[1] = src /\ q[n] = dst /\ Walk(g, q)
      /\ \A i \in 1 .. n - 1 : <<q[i], q[i + 1]>> \in DOMAIN g \ rE
      /\ \A i, j \in 1 .. n : q[i] = q[j] => i = j
      /\ \A i \in 1 .. n : q[i] \notin rV
  <2>1. /\ n \in Nat /\ n >= 1 /\ q[1] = src /\ q[n] = dst
        /\ \A i \in 1 .. n - 1 : <<q[i], q[i + 1]>> \in DOMAIN g \ rE
        /\ \A i, j \in 1 .. n : q[i] = q[j] => i = j
        /\ \A i \in 1 .. n : q[i] \notin rV
    BY <1>1 DEF Trail
  <2>2. n # 1
    BY <2>1
  <2> QED
    BY <2>1, <2>2, TrailIsWalk
<1>3. src \in Vertices(g)
  <2>1. 1 \in 1 .. n - 1
    BY <1>2
  <2>2. PICK e : e = <<q[1], q[1 + 1]>>
    OBVIOUS
  <2>3. e \in DOMAIN g /\ e[1] = src
    BY <1>2, <2>1, <2>2
  <2> QED
    BY <2>3 DEF Vertices
<1>4. src \notin rV /\ dst \notin rV
  <2>1. 1 \in 1 .. n /\ n \in 1 .. n
    BY <1>2
  <2> QED
    BY <1>2, <2>1
<1>5. PICK s : Ended(s, g, src, dst, rV, rE) /\ dijkstra(g, src, dst, rV, rE) = Answer(s, dst)
  BY <1>3, <1>4, SearchEnds
<1>6. s \in Searches /\ Labelled(s, g, src, rV, rE) /\ ClosedUp(s, g, src, dst, rV, rE) /\ Stopped(s, dst)
  BY <1>5 DEF Ended
<1>7. PICK W : W = {i \in 1 .. n : q[i] \notin s.done \ {dst}}
  OBVIOUS
<1>8. PICK m \in W : \A i \in W : m <= i
  <2>1. n \in W /\ W \subseteq Nat
    BY <1>2, <1>7
  <2> QED
    BY <2>1, LeastNatural
<1>9. m \in 1 .. n /\ q[m] \notin s.done \ {dst}
  BY <1>7, <1>8
<1>10. \A i \in 1 .. m - 1 : q[i] \in s.done \ {dst}
  <2> TAKE i \in 1 .. m - 1
  <2>1. i \in 1 .. n /\ i \in Nat /\ ~(m <= i)
    BY <1>2, <1>9
  <2> QED
    BY <1>7, <1>8, <2>1
<1>11. PICK G : G = {i \in 1 .. m : q[i] \in DOMAIN s.label /\ s.label[q[i]].w <= prefixWeight(g, q, i)}
  OBVIOUS
<1>12. 1 \in G
  <2>1. 1 \in 1 .. m /\ prefixWeight(g, q, 1) = 0
    BY <1>2, <1>9, PrefixWeightIs
  <2>2. src \in DOMAIN s.label /\ s.label[src].w = 0
    BY <1>6 DEF Labelled, ClosedUp
  <2> QED
    BY <1>2, <1>11, <2>1, <2>2
<1>13. ASSUME NEW i \in 2 .. m, i - 1 \in G PROVE i \in G
  <2>1. PICK k : k = i - 1
    OBVIOUS
  <2>2. k \in 1 .. m - 1 /\ k \in 1 .. n - 1 /\ k + 1 = i /\ i \in 1 .. n /\ i \in 2 .. n /\ i \in 1 .. m /\ k \in 1 .. n
    BY <1>2, <1>9, <2>1
  <2>3. PICK e : e = <<q[k], q[i]>>
    OBVIOUS
  <2>4. e \in DOMAIN g /\ e \notin rE /\ e[1] = q[k] /\ e[2] = q[i] /\ q[i] \notin rV /\ q[k] \in s.done \ {dst}
    BY <1>2, <1>10, <2>2, <2>3
  <2>5. q[i] \in DOMAIN s.label /\ s.label[q[i]].w <= s.label[q[k]].w + g[e]
    BY <1>6, <2>4 DEF ClosedUp
  <2>6. q[k] \in DOMAIN s.label /\ s.label[q[k]].w <= prefixWeight(g, q, k)
    BY <1>11, <1>13, <2>1
  <2>7. prefixWeight(g, q, i) = prefixWeight(g, q, k) + g[e]
    BY <1>1, <1>2, <2>1, <2>2, <2>3, PrefixWeightIs
  <2>8. PICK a, b, c, d, h : /\ a = s.label[q[i]].w /\ b = s.label[q[k]].w /\ c = g[e]
                             /\ d = prefixWeight(g, q, k) /\ h = prefixWeight(g, q, i)
    OBVIOUS
  <2>9. a \in Nat /\ b \in Nat /\ c \in Nat /\ d \in Nat
    <3>1. a \in Nat /\ b \in Nat
      BY <1>6, <2>5, <2>6, <2>8, LabelIs
    <3>2. c \in Nat
      BY <2>4, <2>8 DEF WGraph
    <3>3. d \in Nat
      BY <1>1, <1>2, <2>2, <2>8, PrefixWeightIs
    <3> QED
      BY <3>1, <3>2, <3>3
  <2>10. a <= h
    BY <2>5, <2>6, <2>7, <2>8, <2>9
  <2> QED
    BY <1>11, <2>2, <2>5, <2>8, <2>10
<1>14. q[m] \in DOMAIN s.label /\ s.label[q[m]].w <= prefixWeight(g, q, m)
  <2>1. m \in Nat /\ m \in 1 .. m
    BY <1>9
  <2>2. m \in G
    BY <1>12, <1>13, <2>1, UpFromOne
  <2> QED
    BY <1>11, <2>2
<1>15. dst \in s.done /\ s.label[dst].w <= s.label[q[m]].w
  <2>1. CASE q[m] = dst
    <3>1. dst \in s.done
      BY <1>6, <1>14, <2>1 DEF Stopped
    <3>2. s.label[dst].w \in Nat
      BY <1>6, <1>14, <2>1, LabelIs
    <3> QED
      BY <2>1, <3>1, <3>2
  <2>2. CASE q[m] # dst
    <3>1. q[m] \notin s.done
      BY <1>9, <2>2
    <3>2. dst \in s.done
      BY <1>6, <1>14, <3>1 DEF Stopped
    <3> QED
      BY <1>6, <1>14, <3>1, <3>2 DEF Labelled
  <2> QED
    BY <2>1, <2>2
<1>16. s.label[dst].w <= Cost(g, q)
  <2>1. prefixWeight(g, q, m) <= Cost(g, q)
    BY <1>1, <1>2, <1>9, PrefixWeightGrows
  <2>2. prefixWeight(g, q, m) \in Nat /\ Cost(g, q) \in Nat
    BY <1>1, <1>2, <1>9, PrefixWeightIs
  <2>3. dst \in DOMAIN s.label
    BY <1>6, <1>15 DEF Labelled
  <2>4. s.label[dst].w \in Nat /\ s.label[q[m]].w \in Nat
    BY <1>6, <1>14, <2>3, LabelIs
  <2> QED
    BY <1>14, <1>15, <2>1, <2>2, <2>4
<1>17. s.label[dst] \in dijkstra(g, src, dst, rV, rE)
  BY <1>5, <1>15 DEF Answer
<1> QED
  BY <1>16, <1>17

\* What a search finds costs what it says.
LEMMA DijkstraCounts ==
  ASSUME NEW g, WGraph(g), NEW src \in Points, NEW dst, src # dst, NEW rV, NEW rE,
         NEW l \in dijkstra(g, src, dst, rV, rE)
  PROVE  l.w = Cost(g, l.path)
<1>1. l \in Labels /\ Trail(g, l.path, src, dst, rV, rE) /\ dijkstra(g, src, dst, rV, rE) = {l}
  BY DijkstraFinds
<1>2. src \notin rV /\ dst \notin rV
  BY DEF dijkstra
<1>3. src \in Vertices(g)
  <2>1. PICK q, n : q = l.path /\ n = Len(q)
    OBVIOUS
  <2>2. q \in Seq(Points) /\ n >= 1 /\ q[1] = src /\ q[n] = dst /\ \A i \in 1 .. n - 1 : <<q[i], q[i + 1]>> \in DOMAIN g
    BY <1>1, <2>1 DEF Trail
  <2>3. n \in Nat /\ n # 1 /\ 1 \in 1 .. n - 1
    BY <2>1, <2>2
  <2>4. PICK e : e = <<q[1], q[1 + 1]>>
    OBVIOUS
  <2>5. e \in DOMAIN g /\ e[1] = src
    BY <2>2, <2>3, <2>4
  <2> QED
    BY <2>5 DEF Vertices
<1>4. PICK s : Ended(s, g, src, dst, rV, rE) /\ dijkstra(g, src, dst, rV, rE) = Answer(s, dst)
  BY <1>2, <1>3, SearchEnds
<1>5. dst \in s.done /\ l = s.label[dst]
  BY <1>4 DEF Answer
<1>6. dst \in DOMAIN s.label
  BY <1>4, <1>5 DEF Ended, Labelled
<1> QED
  BY <1>4, <1>5, <1>6 DEF Ended, Counted

\* Where the search finds nothing, what it reached is cut off from the rest.
LEMMA NoRouteCut ==
  ASSUME NEW g, WGraph(g), NEW src, NEW dst, src # dst, dijkstra(g, src, dst, {}, {}) = {}
  PROVE  \E Z : src \in Z /\ dst \notin Z /\ \A e \in DOMAIN g : e[1] \in Z => e[2] \in Z
<1>1. CASE src \notin Vertices(g)
  <2>1. \A e \in DOMAIN g : e[1] \notin {src}
    BY <1>1 DEF Vertices
  <2> QED
    BY <2>1
<1>2. CASE src \in Vertices(g)
  <2>1. src \notin {} /\ dst \notin {}
    OBVIOUS
  <2>2. PICK s : Ended(s, g, src, dst, {}, {}) /\ dijkstra(g, src, dst, {}, {}) = Answer(s, dst)
    BY <1>2, <2>1, SearchEnds
  <2>3. dst \notin s.done
    BY <2>2 DEF Answer
  <2>4. PICK Z : Z = s.done
    OBVIOUS
  <2>5. DOMAIN s.label = Z /\ src \in Z /\ dst \notin Z
    BY <2>2, <2>3, <2>4 DEF Ended, Stopped, Labelled
  <2>6. \A e \in DOMAIN g : e[1] \in Z => e[2] \in Z
    BY <2>2, <2>4, <2>5 DEF Ended, ClosedUp
  <2> QED
    BY <2>5, <2>6
<1> QED
  BY <1>1, <1>2


-----------------------------------------------------------------------------
(***************************************************************************)
(* Yen's algorithm, for any graph with natural weights: the candidates and *)
(* the spur paths they are made of.                                        *)
(***************************************************************************)
LEMMA CheapestIs ==
  ASSUME NEW C, IsFiniteSet(C), C \subseteq Labels, C # {}
  PROVE  Cheapest(C) \in C /\ \A d \in C : Cheapest(C).w <= d.w
<1>1. \A c \in C : c.w \in Nat /\ c.path \in Seq(Points) /\ c = [w |-> c.w, path |-> c.path]
  BY DEF Labels
<1>2. PICK w \in {c.w : c \in C} : \A d \in C : w <= d.w
  <2>1. {c.w : c \in C} # {} /\ {c.w : c \in C} \subseteq Nat
    BY <1>1
  <2>2. PICK w \in {c.w : c \in C} : \A v \in {c.w : c \in C} : w <= v
    BY <2>1, LeastNatural
  <2> QED
    BY <2>2
<1>3. PICK E : E = {c \in C : c.w = w}
  OBVIOUS
<1>4. E # {} /\ E \subseteq C /\ IsFiniteSet(E)
  <2>1. E # {} /\ E \subseteq C
    BY <1>2, <1>3
  <2> QED
    BY <2>1, FS_Subset
<1>5. PICK below : below = [c \in E |-> {d \in E : comparePathSeq(d.path, c.path)}]
  OBVIOUS
<1>6. \A c \in E : /\ below[c] = {d \in E : comparePathSeq(d.path, c.path)}
                   /\ IsFiniteSet(below[c]) /\ Cardinality(below[c]) \in Nat
  <2> TAKE c \in E
  <2>1. below[c] = {d \in E : comparePathSeq(d.path, c.path)}
    BY <1>5
  <2>2. IsFiniteSet(below[c])
    BY <1>4, <2>1, FS_Subset
  <2> QED
    BY <2>1, <2>2, FS_CardinalityType
<1>7. PICK x \in E : \A y \in E : Cardinality(below[x]) <= Cardinality(below[y])
  <2>1. PICK R : R = {Cardinality(below[c]) : c \in E}
    OBVIOUS
  <2>2. R # {} /\ R \subseteq Nat
    BY <1>4, <1>6, <2>1
  <2>3. PICK n \in R : \A m \in R : n <= m
    BY <2>2, LeastNatural
  <2> QED
    BY <2>1, <2>3
<1>8. ASSUME NEW d \in C \ {x} PROVE x.w < d.w \/ (x.w = d.w /\ comparePathSeq(x.path, d.path))
  <2>1. x.w = w /\ w <= d.w /\ d.w \in Nat /\ w \in Nat
    BY <1>1, <1>2, <1>3, <1>4, <1>7
  <2>2. CASE d.w # w
    BY <2>1, <2>2
  <2>3. CASE d.w = w
    <3>1. d \in E /\ d # x /\ x.path # d.path
      BY <1>1, <1>3, <1>4, <2>1, <2>3
    <3>2. ASSUME comparePathSeq(d.path, x.path) PROVE FALSE
      <4>1. below[d] \subseteq below[x]
        <5>1. ASSUME NEW e \in below[d] PROVE e \in below[x]
          <6>1. e \in E /\ comparePathSeq(e.path, d.path)
            BY <1>6, <3>1, <5>1
          <6>2. e.path \in Seq(Points) /\ d.path \in Seq(Points) /\ x.path \in Seq(Points)
            BY <1>1, <1>4, <3>1, <6>1
          <6>3. comparePathSeq(e.path, x.path)
            BY <3>2, <6>1, <6>2, PathsOrdered
          <6> QED
            BY <1>6, <6>1, <6>3
        <5> QED
          BY <5>1
      <4>2. d \in below[x] /\ d \notin below[d]
        <5>1. d.path \in Seq(Points)
          BY <1>1, <1>4, <3>1
        <5>2. ~comparePathSeq(d.path, d.path)
          BY <5>1, PathsOrdered
        <5> QED
          BY <1>6, <3>1, <3>2, <5>2
      <4>3. Cardinality(below[d]) < Cardinality(below[x])
        <5>1. Cardinality(below[d]) <= Cardinality(below[x]) /\ Cardinality(below[d]) # Cardinality(below[x])
          BY <1>6, <4>1, <4>2, FS_Subset
        <5> QED
          BY <1>6, <3>1, <5>1
      <4>4. Cardinality(below[x]) <= Cardinality(below[d])
        BY <1>7, <3>1
      <4> QED
        BY <1>6, <3>1, <4>3, <4>4
    <3>3. x.path \in Seq(Points) /\ d.path \in Seq(Points)
      BY <1>1, <1>4, <3>1
    <3>4. comparePathSeq(x.path, d.path)
      BY <3>1, <3>2, <3>3, PathsOrdered
    <3> QED
      BY <2>1, <2>3, <3>4
  <2> QED
    BY <2>2, <2>3
<1>9. PICK b : b = Cheapest(C)
  OBVIOUS
<1>10. b \in C /\ \A d \in C \ {b} : b.w < d.w \/ (b.w = d.w /\ comparePathSeq(b.path, d.path))
  <2>1. x \in C
    BY <1>4
  <2>2. b = CHOOSE c \in C : \A d \in C \ {c} : c.w < d.w \/ (c.w = d.w /\ comparePathSeq(c.path, d.path))
    BY <1>9 DEF Cheapest
  <2> QED
    BY <1>8, <2>1, <2>2
<1>11. \A d \in C : b.w <= d.w
  <2> TAKE d \in C
  <2>1. b.w \in Nat /\ d.w \in Nat
    BY <1>1, <1>10
  <2>2. d = b \/ b.w < d.w \/ b.w = d.w
    BY <1>10
  <2> QED
    BY <2>1, <2>2
<1> QED
  BY <1>9, <1>10, <1>11

\* The weight of a path is that of its beginning and that of the rest.
LEMMA CostOfJoined ==
  ASSUME NEW g, WGraph(g), NEW q, Walk(g, q), NEW t, Walk(g, t), NEW k \in Nat, Len(q) = k + Len(t),
         \A j \in 1 .. Len(t) : q[k + j] = t[j]
  PROVE  Cost(g, q) = prefixWeight(g, q, k + 1) + Cost(g, t)
<1>1. PICK n, m : n = Len(q) /\ m = Len(t)
  OBVIOUS
<1>2. n \in Nat /\ m \in Nat /\ m >= 1 /\ n = k + m
  BY <1>1 DEF Walk
<1>3. PICK G : G = {j \in 1 .. m : prefixWeight(g, q, k + j) = prefixWeight(g, q, k + 1) + prefixWeight(g, t, j)}
  OBVIOUS
<1>4. 1 \in G
  <2>1. 1 \in 1 .. m /\ k + 1 \in 1 .. n
    BY <1>2
  <2>2. prefixWeight(g, t, 1) = 0 /\ prefixWeight(g, q, k + 1) \in Nat
    BY <1>1, <2>1, PrefixWeightIs
  <2> QED
    BY <1>3, <2>1, <2>2
<1>5. ASSUME NEW j \in 2 .. m, j - 1 \in G PROVE j \in G
  <2>1. PICK i, h : i = k + j /\ h = j - 1
    OBVIOUS
  <2>2. /\ i \in 2 .. n /\ h \in 1 .. m /\ j \in 1 .. m /\ i - 1 = k + h /\ h + 1 = j /\ k + h \in 1 .. n
        /\ k + 1 \in 1 .. n /\ i \in 1 .. n
    BY <1>2, <2>1
  <2>3. prefixWeight(g, q, i) = prefixWeight(g, q, k + h) + g[<<q[k + h], q[i]>>]
    <3>1. prefixWeight(g, q, i) = prefixWeight(g, q, i - 1) + g[<<q[i - 1], q[i]>>]
      <4>1. i \in 2 .. Len(q)
        BY <1>1, <2>2
      <4> QED
        BY <4>1, PrefixWeightIs
    <3> QED
      BY <2>2, <3>1
  <2>4. prefixWeight(g, t, j) = prefixWeight(g, t, h) + g[<<t[h], t[j]>>]
    <3>1. j \in 2 .. Len(t)
      BY <1>1
    <3>2. prefixWeight(g, t, j) = prefixWeight(g, t, j - 1) + g[<<t[j - 1], t[j]>>]
      BY <3>1, PrefixWeightIs
    <3> QED
      BY <2>1, <3>2
  <2>5. q[k + h] = t[h] /\ q[i] = t[j]
    BY <1>1, <2>1, <2>2
  <2>6. prefixWeight(g, q, k + h) = prefixWeight(g, q, k + 1) + prefixWeight(g, t, h)
    BY <1>3, <1>5, <2>1
  <2>7. PICK a, b, c, d, e, f : /\ a = prefixWeight(g, q, i) /\ b = prefixWeight(g, q, k + h)
                                /\ c = g[<<t[h], t[j]>>] /\ d = prefixWeight(g, t, j)
                                /\ e = prefixWeight(g, t, h) /\ f = prefixWeight(g, q, k + 1)
    OBVIOUS
  <2>8. b \in Nat /\ e \in Nat /\ f \in Nat
    BY <1>1, <2>2, <2>7, PrefixWeightIs
  <2>9. c \in Nat
    <3>1. PICK x : x = <<t[h], t[h + 1]>>
      OBVIOUS
    <3>2. h \in 1 .. m - 1
      BY <1>2, <2>2
    <3>3. x \in DOMAIN g
      BY <1>1, <3>1, <3>2 DEF Walk
    <3>4. c = g[x]
      BY <2>2, <2>7, <3>1
    <3> QED
      BY <3>3, <3>4 DEF WGraph
  <2>10. a = b + c /\ d = e + c /\ b = f + e
    BY <2>3, <2>4, <2>5, <2>6, <2>7
  <2>11. a = f + d
    BY <2>8, <2>9, <2>10
  <2> QED
    BY <1>3, <2>1, <2>2, <2>7, <2>11
<1>6. m \in G
  <2>1. m \in 1 .. m
    BY <1>2
  <2> QED
    BY <1>2, <1>4, <1>5, <2>1, UpFromOne
<1> QED
  BY <1>1, <1>2, <1>3, <1>6 DEF Cost

Agree(p, q, i) == i <= Len(p) /\ i <= Len(q) /\ \A j \in 1 .. i : p[j] = q[j]

LEMMA SameRoot ==
  ASSUME NEW p \in Seq(Points), NEW q \in Seq(Points), NEW i \in Nat, i <= Len(p), i <= Len(q)
  PROVE  SubSeq(p, 1, i) = SubSeq(q, 1, i) <=> \A j \in 1 .. i : p[j] = q[j]
<1>1. PICK n : n = i + 1
  OBVIOUS
<1>2. n \in Nat /\ n >= 1 /\ n - 1 = i
  BY <1>1
<1>3. SubSeq(p, 1, n - 1) = SubSeq(q, 1, n - 1) <=> \A j \in 1 .. n - 1 : p[j] = q[j]
  BY <1>2, SamePrefix
<1> QED
  BY <1>2, <1>3

\* A removed edge is one some route found takes after the same root.
Takes(found, prev, i, u, v) ==
    \E p \in Range(found) : Len(p) > i /\ (\A j \in 1 .. i : p[j] = prev[j]) /\ u = p[i] /\ v = p[i + 1]

LEMMA RemovedIs ==
  ASSUME NEW found \in Seq(Seq(Points)), NEW prev \in Seq(Points), NEW i \in Nat, i <= Len(prev),
         NEW u, NEW v
  PROVE  <<u, v>> \in RemovedEdges(found, prev, i) <=> Takes(found, prev, i, u, v)
<1>1. \A p \in Range(found) : p \in Seq(Points) /\ Len(p) \in Nat
  BY DEF Range
<1>2. \A p \in Range(found) : Len(p) > i =>
        (SubSeq(p, 1, i) = SubSeq(prev, 1, i) <=> \A j \in 1 .. i : p[j] = prev[j])
  <2> TAKE p \in Range(found)
  <2> HAVE Len(p) > i
  <2>1. p \in Seq(Points) /\ i <= Len(p)
    BY <1>1
  <2> QED
    BY <2>1, SameRoot
<1>3. <<u, v>> \in RemovedEdges(found, prev, i) <=>
        \E p \in Range(found) : Len(p) > i /\ SubSeq(p, 1, i) = SubSeq(prev, 1, i) /\ u = p[i] /\ v = p[i + 1]
  BY DEF RemovedEdges
<1> QED
  BY <1>2, <1>3 DEF Takes

IsRoutes(g, found, src, dst) ==
    found \in Seq(Seq(Points)) /\ \A i \in 1 .. Len(found) : Trail(g, found[i], src, dst, {}, {})

\* No route found goes on from place i of q as q does.
NewAt(found, q, i) == \A p \in Range(found) : ~Agree(p, q, i + 1)

\* The vertices before the spur vertex, and a root continued.
RootOf(prev, i) == {prev[j] : j \in 1 .. i - 1}
Joint(prev, i, t) == SubSeq(prev, 1, i - 1) \o t

\* The beginning of one path and a spur.
JoinedWell(g, prev, i, t, q, src, dst, rE) ==
    /\ Trail(g, q, src, dst, {}, {}) /\ Agree(q, prev, i) /\ i < Len(q)
    /\ <<q[i], q[i + 1]>> \notin rE
    /\ Cost(g, q) = prefixWeight(g, prev, i) + Cost(g, t)

LEMMA JoinedTrail ==
  ASSUME NEW g, WGraph(g), NEW src, NEW dst, NEW prev, Trail(g, prev, src, dst, {}, {}),
         NEW i \in 1 .. Len(prev) - 1, NEW rE, NEW t,
         Trail(g, t, prev[i], dst, RootOf(prev, i), rE)
  PROVE  JoinedWell(g, prev, i, t, Joint(prev, i, t), src, dst, rE)
<1>1. PICK n, m, k, a, q : /\ n = Len(prev) /\ m = Len(t) /\ k = i - 1 /\ a = SubSeq(prev, 1, k)
                           /\ q = a \o t
  OBVIOUS
<1>2. /\ prev \in Seq(Points) /\ n \in Nat /\ n >= 1 /\ prev[1] = src /\ prev[n] = dst
      /\ \A j \in 1 .. n - 1 : <<prev[j], prev[j + 1]>> \in DOMAIN g
      /\ \A j, h \in 1 .. n : prev[j] = prev[h] => j = h
  BY <1>1 DEF Trail
<1>3. i \in 1 .. n - 1 /\ k \in Nat /\ k < n /\ i = k + 1 /\ k <= n
  BY <1>1, <1>2
<1>4. /\ t \in Seq(Points) /\ m \in Nat /\ m >= 1 /\ t[1] = prev[i] /\ t[m] = dst
      /\ \A j \in 1 .. m - 1 : <<t[j], t[j + 1]>> \in DOMAIN g \ rE
      /\ \A j, h \in 1 .. m : t[j] = t[h] => j = h
      /\ \A j \in 1 .. m : t[j] \notin {prev[h] : h \in 1 .. k}
  BY <1>1 DEF Trail, RootOf
<1>5. m # 1
  <2>1. prev[i] # prev[n]
    BY <1>2, <1>3
  <2> QED
    BY <1>2, <1>4, <2>1
<1>6. a \in Seq(Points) /\ Len(a) = k /\ \A j \in 1 .. k : a[j] = prev[j]
  BY <1>1, <1>2, <1>3, SubSeqProperties
<1>7. q \in Seq(Points) /\ Len(q) = k + m /\ (\A j \in 1 .. k : q[j] = prev[j]) /\ \A j \in 1 .. m : q[k + j] = t[j]
  <2>1. q = a \o t
    BY <1>1
  <2>2. q \in Seq(Points) /\ Len(q) = k + m
    BY <1>1, <1>4, <1>6, <2>1
  <2>3. ASSUME NEW j \in 1 .. k PROVE q[j] = a[j]
    BY <1>1, <1>3, <1>4, <1>6, <2>1, <2>3
  <2>4. ASSUME NEW j \in 1 .. m PROVE q[k + j] = t[j]
    <3>1. PICK x : x = k + j
      OBVIOUS
    <3>2. x \in 1 .. k + m /\ ~(x <= k) /\ x - k = j
      BY <1>3, <1>4, <3>1
    <3>3. q[x] = t[x - k]
      BY <1>1, <1>4, <1>6, <2>1, <3>2, ConcatProperties
    <3> QED
      BY <3>1, <3>2, <3>3
  <2> QED
    BY <1>6, <2>2, <2>3, <2>4
<1>8. q[i] = prev[i] /\ i < k + m
  <2>1. 1 \in 1 .. m
    BY <1>4
  <2> QED
    BY <1>3, <1>4, <1>5, <1>7, <2>1
<1>9. \A j \in 1 .. i : q[j] = prev[j]
  <2> TAKE j \in 1 .. i
  <2>1. j \in 1 .. k \/ j = i
    BY <1>3
  <2> QED
    BY <1>7, <1>8, <2>1
<1>10. Agree(q, prev, i) /\ i < Len(q)
  BY <1>1, <1>3, <1>7, <1>8, <1>9 DEF Agree
<1>11. ASSUME NEW j \in 1 .. (k + m) - 1
       PROVE  <<q[j], q[j + 1]>> \in DOMAIN g /\ (j >= i => <<q[j], q[j + 1]>> \notin rE)
  <2>1. CASE j < i
    <3>1. PICK h : h = j + 1
      OBVIOUS
    <3>2. j \in 1 .. n - 1 /\ j \in 1 .. i /\ h \in 1 .. i /\ ~(j >= i)
      BY <1>2, <1>3, <1>4, <2>1, <3>1
    <3> QED
      BY <1>2, <1>9, <3>1, <3>2
  <2>2. CASE j >= i
    <3>1. PICK h, f : h = j - k /\ f = h + 1
      OBVIOUS
    <3>2. j \in Nat /\ j >= k + 1 /\ j <= (k + m) - 1
      BY <1>3, <1>4, <2>2
    <3>3. h \in 1 .. m - 1 /\ h \in 1 .. m /\ f \in 1 .. m /\ j = k + h /\ j + 1 = k + f
      BY <1>3, <1>4, <3>1, <3>2
    <3>4. q[j] = t[h] /\ q[j + 1] = t[f]
      BY <1>7, <3>3
    <3>5. <<t[h], t[h + 1]>> \in DOMAIN g \ rE
      BY <1>4, <3>3
    <3> QED
      BY <3>1, <3>4, <3>5
  <2>3. j < i \/ j >= i
    BY <1>3, <1>4
  <2> QED
    BY <2>1, <2>2, <2>3
<1>12. ASSUME NEW j \in 1 .. k + m PROVE j \in 1 .. k \/ \E h \in 1 .. m : j = k + h
  <2>1. PICK h : h = j - k
    OBVIOUS
  <2>2. j <= k \/ (h \in 1 .. m /\ j = k + h)
    BY <1>3, <1>4, <2>1
  <2> QED
    BY <1>3, <2>2
<1>13. ASSUME NEW j \in 1 .. k + m, NEW h \in 1 .. k + m, q[j] = q[h] PROVE j = h
  <2>1. CASE j \in 1 .. k /\ h \in 1 .. k
    BY <1>2, <1>3, <1>7, <1>13, <2>1
  <2>2. CASE j \in 1 .. k /\ \E f \in 1 .. m : h = k + f
    <3>1. PICK f \in 1 .. m : h = k + f
      BY <2>2
    <3>2. q[j] = prev[j] /\ q[h] = t[f]
      BY <1>7, <2>2, <3>1
    <3>3. t[f] \notin {prev[x] : x \in 1 .. k}
      BY <1>4
    <3> QED
      BY <1>13, <2>2, <3>2, <3>3
  <2>3. CASE h \in 1 .. k /\ \E f \in 1 .. m : j = k + f
    <3>1. PICK f \in 1 .. m : j = k + f
      BY <2>3
    <3>2. q[h] = prev[h] /\ q[j] = t[f]
      BY <1>7, <2>3, <3>1
    <3>3. t[f] \notin {prev[x] : x \in 1 .. k}
      BY <1>4
    <3> QED
      BY <1>13, <2>3, <3>2, <3>3
  <2>4. CASE (\E f \in 1 .. m : j = k + f) /\ \E f \in 1 .. m : h = k + f
    <3>1. PICK f \in 1 .. m, x \in 1 .. m : j = k + f /\ h = k + x
      BY <2>4
    <3>2. q[j] = t[f] /\ q[h] = t[x]
      BY <1>7, <3>1
    <3>3. f = x
      BY <1>4, <1>13, <3>2
    <3> QED
      BY <3>1, <3>3
  <2> QED
    BY <1>12, <2>1, <2>2, <2>3, <2>4
<1>14. q[1] = src /\ q[k + m] = dst /\ k + m >= 1 /\ k + m \in Nat
  <2>1. 1 \in 1 .. i /\ m \in 1 .. m
    BY <1>3, <1>4
  <2> QED
    BY <1>2, <1>3, <1>4, <1>7, <1>9, <2>1
<1>15. Trail(g, q, src, dst, {}, {})
  BY <1>7, <1>11, <1>13, <1>14 DEF Trail
<1>16. <<q[i], q[i + 1]>> \notin rE
  <2>1. i \in 1 .. (k + m) - 1 /\ i >= i
    BY <1>3, <1>4, <1>8
  <2> QED
    BY <1>11, <2>1
<1>17. Cost(g, q) = prefixWeight(g, q, i) + Cost(g, t)
  <2>1. Walk(g, q) /\ Walk(g, t)
    BY <1>15, TrailIsWalk
  <2>2. Cost(g, q) = prefixWeight(g, q, k + 1) + Cost(g, t)
    <3>1. k \in Nat /\ Len(q) = k + Len(t) /\ \A j \in 1 .. Len(t) : q[k + j] = t[j]
      BY <1>1, <1>3, <1>7
    <3> QED
      BY <2>1, <3>1, CostOfJoined
  <2> QED
    BY <1>3, <2>2
<1>18. prefixWeight(g, q, i) = prefixWeight(g, prev, i)
  <2>1. Walk(g, q) /\ Walk(g, prev)
    BY <1>15, TrailIsWalk
  <2>2. i \in Nat /\ i <= Len(q) /\ i <= Len(prev) /\ i \in 1 .. i
    BY <1>1, <1>3, <1>7, <1>8
  <2> QED
    BY <1>9, <2>1, <2>2, PrefixWeightSame
<1>19. q = Joint(prev, i, t)
  BY <1>1 DEF Joint
<1> QED
  BY <1>10, <1>15, <1>16, <1>17, <1>18, <1>19 DEF JoinedWell

\* The rest of a path that leaves the root of prev where no route found does.
LEMMA TailTrail ==
  ASSUME NEW g, WGraph(g), NEW src, NEW dst, NEW found, IsRoutes(g, found, src, dst), NEW prev \in Range(found),
         NEW i \in 1 .. Len(prev) - 1, NEW q, Trail(g, q, src, dst, {}, {}), Agree(q, prev, i), NewAt(found, q, i)
  PROVE  \E t : /\ Trail(g, t, prev[i], dst, RootOf(prev, i), RemovedEdges(found, prev, i))
                /\ Cost(g, q) = prefixWeight(g, prev, i) + Cost(g, t)
<1>1. PICK n, k, m, t : n = Len(q) /\ k = i - 1 /\ m = n - k /\ t = SubSeq(q, i, n)
  OBVIOUS
<1>2. /\ q \in Seq(Points) /\ n \in Nat /\ n >= 1 /\ q[1] = src /\ q[n] = dst
      /\ \A j \in 1 .. n - 1 : <<q[j], q[j + 1]>> \in DOMAIN g
      /\ \A j, h \in 1 .. n : q[j] = q[h] => j = h
  BY <1>1 DEF Trail
<1>3. Trail(g, prev, src, dst, {}, {}) /\ found \in Seq(Seq(Points))
  <2>1. found \in Seq(Seq(Points)) /\ DOMAIN found = 1 .. Len(found)
    BY DEF IsRoutes
  <2>2. PICK x \in 1 .. Len(found) : prev = found[x]
    BY <2>1 DEF Range
  <2> QED
    BY <2>1, <2>2 DEF IsRoutes
<1>4. prev \in Seq(Points) /\ Len(prev) \in Nat /\ prev[Len(prev)] = dst /\ prev[i] # dst /\ i \in Nat /\ i >= 1
  BY <1>3 DEF Trail
<1>5. i <= n /\ i <= Len(prev) /\ \A j \in 1 .. i : q[j] = prev[j]
  BY <1>1 DEF Agree
<1>6. i < n /\ k \in Nat /\ k < n /\ i = k + 1 /\ m \in Nat /\ m >= 2 /\ n = k + m
  <2>1. q[i] = prev[i]
    BY <1>4, <1>5
  <2>2. i # n
    BY <1>2, <1>4, <2>1
  <2> QED
    BY <1>1, <1>2, <1>4, <1>5, <2>2
<1>7. t \in Seq(Points) /\ Len(t) = m /\ \A j \in 1 .. m : t[j] = q[k + j]
  <2>1. /\ t \in Seq(Points) /\ Len(t) = (n - i) + 1
        /\ \A j \in 1 .. (n - i) + 1 : t[j] = q[(i + j) - 1]
    BY <1>1, <1>2, <1>4, <1>6, SubSeqProperties
  <2>2. (n - i) + 1 = m
    BY <1>1, <1>2, <1>4
  <2>3. \A j \in 1 .. m : (i + j) - 1 = k + j
    BY <1>1, <1>4, <1>6
  <2> QED
    BY <2>1, <2>2, <2>3
<1>8. t[1] = prev[i] /\ t[m] = dst
  <2>1. 1 \in 1 .. m /\ m \in 1 .. m
    BY <1>6
  <2>2. t[1] = q[k + 1] /\ t[m] = q[k + m]
    BY <1>7, <2>1
  <2>3. k + 1 = i /\ k + m = n /\ i \in 1 .. i
    BY <1>4, <1>6
  <2>4. q[i] = prev[i]
    BY <1>5, <2>3
  <2> QED
    BY <1>2, <2>2, <2>3, <2>4
<1>9. ASSUME NEW j \in 1 .. m - 1
      PROVE  <<t[j], t[j + 1]>> \in DOMAIN g \ RemovedEdges(found, prev, i)
  <2>1. PICK h, f : h = k + j /\ f = j + 1
    OBVIOUS
  <2>2. h \in 1 .. n - 1 /\ h \in 1 .. n /\ h + 1 = k + f /\ h + 1 \in 1 .. n /\ j \in 1 .. m /\ f \in 1 .. m
    BY <1>6, <2>1
  <2>3. t[j] = q[h] /\ t[f] = q[h + 1]
    BY <1>7, <2>1, <2>2
  <2>4. <<q[h], q[h + 1]>> \in DOMAIN g
    BY <1>2, <2>2
  <2>5. ASSUME <<q[h], q[h + 1]>> \in RemovedEdges(found, prev, i) PROVE FALSE
    <3>1. PICK p \in Range(found) : /\ Len(p) > i /\ (\A x \in 1 .. i : p[x] = prev[x])
                                    /\ q[h] = p[i] /\ q[h + 1] = p[i + 1]
      <4>1. prev \in Seq(Points) /\ i \in Nat /\ i <= Len(prev) /\ found \in Seq(Seq(Points))
        BY <1>3, <1>4, <1>5
      <4>2. Takes(found, prev, i, q[h], q[h + 1])
        BY <2>5, <4>1, RemovedIs
      <4> QED
        BY <4>2 DEF Takes
    <3>2. q[h] = q[i] /\ i \in 1 .. n
      BY <1>4, <1>5, <1>6, <3>1
    <3>3. h = i
      BY <1>2, <2>2, <3>2
    <3>4. p \in Seq(Points) /\ Len(p) \in Nat
      BY <1>3 DEF Range
    <3>5. Agree(p, q, i + 1)
      <4>1. i + 1 <= Len(p) /\ i + 1 <= Len(q)
        <5>1. n \in Nat /\ n = Len(q) /\ i \in Nat /\ i < n
          BY <1>1, <1>2, <1>4, <1>6
        <5>2. Len(p) > i
          BY <3>1
        <5>3. PICK a : a = Len(p)
          OBVIOUS
        <5>4. a \in Nat /\ a > i
          BY <3>4, <5>2, <5>3
        <5>5. i + 1 <= a /\ i + 1 <= n
          BY <5>1, <5>4
        <5> QED
          BY <5>1, <5>3, <5>5
      <4>2. \A x \in 1 .. i + 1 : p[x] = q[x]
        <5> TAKE x \in 1 .. i + 1
        <5>1. x \in 1 .. i \/ x = i + 1
          BY <1>4
        <5> QED
          BY <1>5, <3>1, <3>3, <5>1
      <4> QED
        BY <4>1, <4>2 DEF Agree
    <3> QED
      BY <3>5 DEF NewAt
  <2> QED
    BY <2>1, <2>3, <2>4, <2>5
<1>10. ASSUME NEW j \in 1 .. m, NEW h \in 1 .. m, t[j] = t[h] PROVE j = h
  <2>1. k + j \in 1 .. n /\ k + h \in 1 .. n /\ q[k + j] = q[k + h]
    BY <1>6, <1>7, <1>10
  <2>2. k + j = k + h
    BY <1>2, <2>1
  <2> QED
    BY <1>6, <2>2
<1>11. ASSUME NEW j \in 1 .. m PROVE t[j] \notin {prev[h] : h \in 1 .. i - 1}
  <2>1. ASSUME NEW h \in 1 .. i - 1, t[j] = prev[h] PROVE FALSE
    <3>1. h \in 1 .. i /\ h \in 1 .. n /\ k + j \in 1 .. n /\ h # k + j
      BY <1>4, <1>6
    <3>2. q[h] = q[k + j]
      BY <1>5, <1>7, <2>1, <3>1
    <3> QED
      BY <1>2, <3>1, <3>2
  <2> QED
    BY <2>1
<1>12. Trail(g, t, prev[i], dst, RootOf(prev, i), RemovedEdges(found, prev, i))
  BY <1>6, <1>7, <1>8, <1>9, <1>10, <1>11 DEF Trail, RootOf
<1>13. Walk(g, q) /\ Walk(g, t) /\ Walk(g, prev)
  BY <1>3, <1>12, TrailIsWalk
<1>14. Cost(g, q) = prefixWeight(g, q, i) + Cost(g, t)
  <2>1. Cost(g, q) = prefixWeight(g, q, k + 1) + Cost(g, t)
    <3>1. k \in Nat /\ Len(q) = k + Len(t) /\ \A j \in 1 .. Len(t) : q[k + j] = t[j]
      BY <1>1, <1>6, <1>7
    <3> QED
      BY <1>13, <3>1, CostOfJoined
  <2> QED
    BY <1>6, <2>1
<1>15. prefixWeight(g, q, i) = prefixWeight(g, prev, i)
  <2>1. i \in 1 .. i
    BY <1>4
  <2> QED
    BY <1>1, <1>4, <1>5, <1>13, <2>1, PrefixWeightSame
<1> QED
  BY <1>12, <1>14, <1>15


LEMMA FoundIs ==
  ASSUME NEW g, NEW found, NEW src, NEW dst, IsRoutes(g, found, src, dst), NEW p \in Range(found)
  PROVE  Trail(g, p, src, dst, {}, {}) /\ p \in Seq(Points) /\ Len(p) \in Nat /\ Len(p) >= 1
         /\ \E x \in 1 .. Len(found) : p = found[x]
<1>1. found \in Seq(Seq(Points)) /\ DOMAIN found = 1 .. Len(found)
  BY DEF IsRoutes
<1>2. PICK x \in 1 .. Len(found) : p = found[x]
  BY <1>1 DEF Range
<1>3. Trail(g, p, src, dst, {}, {})
  BY <1>2 DEF IsRoutes
<1> QED
  BY <1>2, <1>3 DEF Trail

\* Where a path has not ended it is not at its destination.
LEMMA NotYetThere ==
  ASSUME NEW g, NEW p, NEW src, NEW dst, Trail(g, p, src, dst, {}, {}), NEW i \in 1 .. Len(p)
  PROVE  p[i] \in Points /\ (p[i] = dst <=> i = Len(p))
<1>1. PICK n : n = Len(p)
  OBVIOUS
<1>2. n \in Nat /\ n >= 1 /\ p \in Seq(Points) /\ p[n] = dst /\ \A j, h \in 1 .. n : p[j] = p[h] => j = h
  BY <1>1 DEF Trail
<1>3. n \in 1 .. n /\ i \in 1 .. n
  BY <1>1, <1>2
<1> QED
  BY <1>1, <1>2, <1>3

LEMMA SpurIs ==
  ASSUME NEW g, WGraph(g), NEW src, NEW dst, NEW found, IsRoutes(g, found, src, dst), NEW prev \in Range(found),
         NEW i \in 1 .. Len(prev) - 1, NEW c \in Spur(g, found, prev, i, dst)
  PROVE  /\ c \in Labels /\ Trail(g, c.path, src, dst, {}, {}) /\ c.w = Cost(g, c.path)
         /\ Agree(c.path, prev, i) /\ NewAt(found, c.path, i) /\ c.path \notin Range(found)
<1>1. PICK rV, rE : rV = RootOf(prev, i) /\ rE = RemovedEdges(found, prev, i)
  OBVIOUS
<1>2. PICK l \in dijkstra(g, prev[i], dst, rV, rE) :
        c = [w |-> prefixWeight(g, prev, i) + l.w, path |-> SubSeq(prev, 1, i - 1) \o l.path]
  <2>1. Spur(g, found, prev, i, dst) = Joined(g, prev, i, dijkstra(g, prev[i], dst, rV, rE))
    BY <1>1 DEF Spur, RootOf
  <2> QED
    BY <2>1 DEF Joined
<1>3. Trail(g, prev, src, dst, {}, {}) /\ prev \in Seq(Points) /\ Len(prev) \in Nat
  BY FoundIs
<1>4. i \in 1 .. Len(prev) /\ i \in Nat /\ i <= Len(prev) /\ i # Len(prev)
  BY <1>3
<1>5. prev[i] \in Points /\ prev[i] # dst
  BY <1>3, <1>4, NotYetThere
<1>6. l \in Labels /\ Trail(g, l.path, prev[i], dst, rV, rE)
  BY <1>5, DijkstraFinds
<1>7. l.w = Cost(g, l.path)
  BY <1>5, DijkstraCounts
<1>8. PICK q, t : q = Joint(prev, i, t) /\ t = l.path
  OBVIOUS
<1>9. /\ Trail(g, q, src, dst, {}, {}) /\ Agree(q, prev, i) /\ i < Len(q)
      /\ <<q[i], q[i + 1]>> \notin rE
      /\ Cost(g, q) = prefixWeight(g, prev, i) + Cost(g, l.path)
  <2>1. Trail(g, t, prev[i], dst, RootOf(prev, i), rE)
    BY <1>1, <1>6, <1>8
  <2>2. JoinedWell(g, prev, i, t, Joint(prev, i, t), src, dst, rE)
    BY <1>3, <2>1, JoinedTrail
  <2> QED
    BY <1>8, <2>2 DEF JoinedWell
<1>10. PICK w : w = prefixWeight(g, prev, i) + l.w
  OBVIOUS
<1>11. c = [w |-> w, path |-> q] /\ w = Cost(g, q)
  BY <1>2, <1>7, <1>8, <1>9, <1>10 DEF Joint
<1>12. w \in Nat /\ q \in Seq(Points)
  <2>1. Walk(g, q)
    BY <1>9, TrailIsWalk
  <2>2. q \in Seq(Points)
    BY <1>9 DEF Trail
  <2> QED
    BY <1>11, <2>1, <2>2, PrefixWeightIs
<1>13. ASSUME NEW p \in Range(found), Agree(p, q, i + 1) PROVE FALSE
  <2>1. i + 1 <= Len(p) /\ \A j \in 1 .. i + 1 : p[j] = q[j]
    BY <1>13 DEF Agree
  <2>2. i + 1 \in 1 .. i + 1 /\ i \in 1 .. i + 1 /\ \A j \in 1 .. i : j \in 1 .. i + 1
    BY <1>4
  <2>3. \A j \in 1 .. i : q[j] = prev[j]
    BY <1>9 DEF Agree
  <2>4. Len(p) \in Nat
    BY FoundIs
  <2>5. Len(p) > i /\ (\A j \in 1 .. i : p[j] = prev[j]) /\ q[i] = p[i] /\ q[i + 1] = p[i + 1]
    BY <1>4, <2>1, <2>2, <2>3, <2>4
  <2>6. Takes(found, prev, i, q[i], q[i + 1])
    BY <2>5 DEF Takes
  <2>7. found \in Seq(Seq(Points))
    BY DEF IsRoutes
  <2>8. <<q[i], q[i + 1]>> \in RemovedEdges(found, prev, i)
    BY <1>3, <1>4, <2>6, <2>7, RemovedIs
  <2> QED
    BY <1>1, <1>9, <2>8
<1>14. NewAt(found, q, i)
  BY <1>13 DEF NewAt
<1>15. q \notin Range(found)
  <2>1. Agree(q, q, i + 1)
    BY <1>4, <1>9, <1>12 DEF Agree
  <2> QED
    BY <1>13, <2>1
<1>16. c \in Labels /\ c.path = q /\ c.w = w
  BY <1>11, <1>12 DEF Labels
<1> QED
  BY <1>9, <1>11, <1>14, <1>15, <1>16

\* The spur is no dearer than any path that leaves the root there in a new direction.
LEMMA SpurBest ==
  ASSUME NEW g, WGraph(g), NEW src, NEW dst, NEW found, IsRoutes(g, found, src, dst), NEW prev \in Range(found),
         NEW i \in 1 .. Len(prev) - 1, NEW q, Trail(g, q, src, dst, {}, {}), Agree(q, prev, i), NewAt(found, q, i)
  PROVE  \E c \in Spur(g, found, prev, i, dst) : c.w <= Cost(g, q)
<1>1. PICK rV, rE : rV = RootOf(prev, i) /\ rE = RemovedEdges(found, prev, i)
  OBVIOUS
<1>2. Trail(g, prev, src, dst, {}, {}) /\ prev \in Seq(Points) /\ Len(prev) \in Nat
  BY FoundIs
<1>3. i \in 1 .. Len(prev) /\ i # Len(prev)
  BY <1>2
<1>4. prev[i] \in Points /\ prev[i] # dst
  BY <1>2, <1>3, NotYetThere
<1>5. PICK t : Trail(g, t, prev[i], dst, rV, rE) /\ Cost(g, q) = prefixWeight(g, prev, i) + Cost(g, t)
  BY <1>1, TailTrail
<1>6. PICK l \in dijkstra(g, prev[i], dst, rV, rE) : l.w <= Cost(g, t)
  BY <1>4, <1>5, DijkstraBest
<1>7. PICK a, w, s, c : /\ a = prefixWeight(g, prev, i) /\ w = a + l.w /\ s = SubSeq(prev, 1, i - 1) \o l.path
                        /\ c = [w |-> w, path |-> s]
  OBVIOUS
<1>8. c \in Spur(g, found, prev, i, dst)
  <2>1. Spur(g, found, prev, i, dst) = Joined(g, prev, i, dijkstra(g, prev[i], dst, rV, rE))
    BY <1>1 DEF Spur, RootOf
  <2> QED
    BY <1>6, <1>7, <2>1 DEF Joined
<1>9. w <= Cost(g, q)
  <2>1. l \in Labels
    BY <1>4, <1>6, DijkstraFinds
  <2>2. l.w \in Nat
    BY <2>1 DEF Labels
  <2>3. a \in Nat
    BY <1>2, <1>3, <1>7, TrailIsWalk, PrefixWeightIs
  <2>4. Cost(g, t) \in Nat
    BY <1>5, TrailIsWalk, PrefixWeightIs
  <2> QED
    BY <1>5, <1>6, <1>7, <2>2, <2>3, <2>4
<1> QED
  BY <1>7, <1>8, <1>9

LEMMA SpurFinite ==
  ASSUME NEW g, WGraph(g), NEW src, NEW dst, NEW found, IsRoutes(g, found, src, dst), NEW prev \in Range(found),
         NEW i \in 1 .. Len(prev) - 1
  PROVE  IsFiniteSet(Spur(g, found, prev, i, dst))
<1>1. PICK rV, rE, D : /\ rV = RootOf(prev, i) /\ rE = RemovedEdges(found, prev, i)
                       /\ D = dijkstra(g, prev[i], dst, rV, rE)
  OBVIOUS
<1>2. Spur(g, found, prev, i, dst) =
        {[w |-> prefixWeight(g, prev, i) + s.w, path |-> SubSeq(prev, 1, i - 1) \o s.path] : s \in D}
  <2>1. Spur(g, found, prev, i, dst) = Joined(g, prev, i, D)
    BY <1>1 DEF Spur, RootOf
  <2> QED
    BY <2>1 DEF Joined
<1>3. CASE D = {}
  <2>1. Spur(g, found, prev, i, dst) = {}
    BY <1>2, <1>3
  <2> QED
    BY <2>1, FS_EmptySet
<1>4. CASE D # {}
  <2>1. PICK l \in D : TRUE
    BY <1>4
  <2>2. Trail(g, prev, src, dst, {}, {}) /\ Len(prev) \in Nat
    BY FoundIs
  <2>3. i \in 1 .. Len(prev)
    BY <2>2
  <2>4. prev[i] \in Points
    BY <2>2, <2>3, NotYetThere
  <2>5. D = {l}
    <3>1. l \in dijkstra(g, prev[i], dst, rV, rE)
      BY <1>1, <2>1
    <3> QED
      BY <1>1, <2>4, <3>1, DijkstraFinds
  <2>6. PICK x : x = [w |-> prefixWeight(g, prev, i) + l.w, path |-> SubSeq(prev, 1, i - 1) \o l.path]
    OBVIOUS
  <2>7. Spur(g, found, prev, i, dst) = {x}
    BY <1>2, <2>5, <2>6
  <2> QED
    BY <2>7, FS_Singleton
<1> QED
  BY <1>3, <1>4

CandsOK(g, C, found, src, dst) ==
    /\ IsFiniteSet(C) /\ C \subseteq Labels
    /\ \A c \in C : Trail(g, c.path, src, dst, {}, {}) /\ c.w = Cost(g, c.path) /\ c.path \notin Range(found)

LEMMA FamilyFinite ==
  ASSUME NEW f, IsFiniteSet(DOMAIN f), \A x \in DOMAIN f : IsFiniteSet(f[x]),
         NEW U, U = {f[x] : x \in DOMAIN f}
  PROVE  IsFiniteSet(UNION U)
<1>1. PICK D, h : D = DOMAIN f /\ h = [x \in D |-> f[x]]
  OBVIOUS
<1>2. h \in [D -> U] /\ U = {h[x] : x \in D} /\ IsFiniteSet(D)
  BY <1>1
<1>3. h \in Surjection(D, U)
  BY <1>2 DEF Surjection
<1>4. IsFiniteSet(U)
  BY <1>2, <1>3, FS_Surjection
<1>5. \A x \in U : IsFiniteSet(x)
  OBVIOUS
<1> QED
  BY <1>4, <1>5, FS_UNION

LEMMA NewCandidatesAre ==
  ASSUME NEW g, WGraph(g), NEW src, NEW dst, NEW found, IsRoutes(g, found, src, dst), NEW prev \in Range(found)
  PROVE  /\ CandsOK(g, NewCandidates(g, found, prev, dst), found, src, dst)
         /\ \A i \in 1 .. Len(prev) - 1 : Spur(g, found, prev, i, dst) \subseteq NewCandidates(g, found, prev, dst)
<1>1. PICK n, f, N : /\ n = Len(prev) - 1 /\ f = [i \in 1 .. n |-> Spur(g, found, prev, i, dst)]
                     /\ N = NewCandidates(g, found, prev, dst)
  OBVIOUS
<1>2. n \in Nat
  <2>1. Len(prev) \in Nat /\ Len(prev) >= 1
    BY FoundIs
  <2> QED
    BY <1>1, <2>1
<1>3. N = {c \in UNION {f[i] : i \in 1 .. n} : c.path \notin Range(found)}
  BY <1>1 DEF NewCandidates
<1>4. \A i \in 1 .. n : IsFiniteSet(f[i])
  BY <1>1, SpurFinite
<1>5. IsFiniteSet(N)
  <2>1. PICK U : U = {f[i] : i \in 1 .. n}
    OBVIOUS
  <2>6. IsFiniteSet(UNION U)
    <3>1. DOMAIN f = 1 .. n
      BY <1>1
    <3>2. U = {f[i] : i \in DOMAIN f} /\ IsFiniteSet(DOMAIN f)
      BY <1>2, <2>1, <3>1, FS_Interval
    <3> QED
      BY <1>4, <3>1, <3>2, FamilyFinite
  <2>7. N \subseteq UNION U
    BY <1>3, <2>1
  <2> QED
    BY <2>6, <2>7, FS_Subset
<1>6. ASSUME NEW i \in 1 .. n, NEW c \in f[i]
      PROVE  c \in Labels /\ Trail(g, c.path, src, dst, {}, {}) /\ c.w = Cost(g, c.path) /\ c.path \notin Range(found)
  <2>1. i \in 1 .. Len(prev) - 1 /\ c \in Spur(g, found, prev, i, dst)
    BY <1>1, <1>6
  <2> QED
    BY <2>1, SpurIs
<1>7. \A c \in N : c \in Labels /\ Trail(g, c.path, src, dst, {}, {}) /\ c.w = Cost(g, c.path) /\ c.path \notin Range(found)
  BY <1>3, <1>6
<1>8. \A i \in 1 .. n : f[i] \subseteq N
  BY <1>3, <1>6
<1>9. \A i \in 1 .. n : f[i] = Spur(g, found, prev, i, dst)
  BY <1>1
<1>10. CandsOK(g, N, found, src, dst)
  BY <1>5, <1>7 DEF CandsOK
<1> QED
  BY <1>1, <1>8, <1>9, <1>10

-----------------------------------------------------------------------------
(***************************************************************************)
(* What TakeBest does.                                                     *)
(***************************************************************************)
YenRec == [found : Seq(Seq(Points)), cands : SUBSET Labels]

YenState(s, g, src, dst) ==
    s \in YenRec /\ IsRoutes(g, s.found, src, dst) /\ CandsOK(g, s.cands, s.found, src, dst)

LEMMA RangeAppend ==
  ASSUME NEW S, NEW f \in Seq(S), NEW x \in S
  PROVE  /\ Append(f, x) \in Seq(S) /\ Len(Append(f, x)) = Len(f) + 1
         /\ Append(f, x)[Len(f) + 1] = x /\ \A i \in 1 .. Len(f) : Append(f, x)[i] = f[i]
         /\ Range(Append(f, x)) = Range(f) \cup {x}
<1>1. PICK n, a : n = Len(f) /\ a = Append(f, x)
  OBVIOUS
<1>2. n \in Nat /\ a \in Seq(S) /\ Len(a) = n + 1 /\ a[n + 1] = x /\ \A i \in 1 .. n : a[i] = f[i]
  BY <1>1
<1>3. DOMAIN a = 1 .. n + 1 /\ DOMAIN f = 1 .. n
  BY <1>1, <1>2
<1>4. ASSUME NEW y \in Range(a) PROVE y \in Range(f) \cup {x}
  <2>1. PICK i \in 1 .. n + 1 : y = a[i]
    BY <1>3, <1>4 DEF Range
  <2>2. i \in 1 .. n \/ i = n + 1
    BY <1>2
  <2> QED
    BY <1>2, <1>3, <2>1, <2>2 DEF Range
<1>5. ASSUME NEW y \in Range(f) PROVE y \in Range(a)
  <2>1. PICK i \in 1 .. n : y = f[i]
    BY <1>3, <1>5 DEF Range
  <2>2. i \in 1 .. n + 1
    BY <1>2
  <2> QED
    BY <1>2, <1>3, <2>1, <2>2 DEF Range
<1>6. x \in Range(a)
  <2>1. n + 1 \in 1 .. n + 1
    BY <1>2
  <2> QED
    BY <1>2, <1>3, <2>1 DEF Range
<1> QED
  BY <1>1, <1>2, <1>4, <1>5, <1>6

\* Nothing is left to take, or the cheapest candidate is taken.
Took(t, found, C) ==
    \/ C = {} /\ t.found = found /\ t.cands = {}
    \/ \E b \in C : /\ t.found = Append(found, b.path) /\ t.cands = C \ {b}
                    /\ \A d \in C : b.w <= d.w

LEMMA TakeBestIs ==
  ASSUME NEW g, WGraph(g), NEW src, NEW dst, NEW found, IsRoutes(g, found, src, dst), NEW C,
         CandsOK(g, C, found, src, dst)
  PROVE  YenState(TakeBest(found, C), g, src, dst) /\ Took(TakeBest(found, C), found, C)
<1>1. PICK t : t = TakeBest(found, C)
  OBVIOUS
<1>2. found \in Seq(Seq(Points)) /\ \A i \in 1 .. Len(found) : Trail(g, found[i], src, dst, {}, {})
  BY DEF IsRoutes
<1>3. CASE C = {}
  <2>1. t = [found |-> found, cands |-> {}]
    BY <1>1, <1>3 DEF TakeBest
  <2>2. IsFiniteSet({})
    BY FS_EmptySet
  <2>3. t \in YenRec /\ t.found = found /\ t.cands = {}
    BY <1>2, <2>1 DEF YenRec
  <2> QED
    BY <1>1, <1>3, <2>2, <2>3 DEF YenState, CandsOK, Took
<1>4. CASE C # {}
  <2>1. PICK b, D, f : b = Cheapest(C) /\ D = C \ {b} /\ f = Append(found, b.path)
    OBVIOUS
  <2>2. IsFiniteSet(C) /\ C \subseteq Labels /\ \A c \in C : /\ Trail(g, c.path, src, dst, {}, {})
                                                            /\ c.w = Cost(g, c.path) /\ c.path \notin Range(found)
    BY DEF CandsOK
  <2>3. b \in C /\ \A d \in C : b.w <= d.w
    BY <1>4, <2>1, <2>2, CheapestIs
  <2>4. b.path \in Seq(Points) /\ Trail(g, b.path, src, dst, {}, {})
    BY <2>2, <2>3 DEF Labels
  <2>5. /\ f \in Seq(Seq(Points)) /\ Len(f) = Len(found) + 1 /\ f[Len(found) + 1] = b.path
        /\ \A i \in 1 .. Len(found) : f[i] = found[i]
        /\ Range(f) = Range(found) \cup {b.path}
    BY <1>2, <2>1, <2>4, RangeAppend
  <2>6. t = [found |-> f, cands |-> D]
    BY <1>1, <1>4, <2>1 DEF TakeBest
  <2>7. t.found = f /\ t.cands = D /\ t \in YenRec
    BY <2>1, <2>2, <2>5, <2>6 DEF YenRec
  <2>8. IsRoutes(g, f, src, dst)
    <3>1. ASSUME NEW i \in 1 .. Len(f) PROVE Trail(g, f[i], src, dst, {}, {})
      <4>1. i \in 1 .. Len(found) \/ i = Len(found) + 1
        BY <1>2, <2>5
      <4> QED
        BY <1>2, <2>4, <2>5, <4>1
    <3> QED
      BY <2>5, <3>1 DEF IsRoutes
  <2>9. CandsOK(g, D, f, src, dst)
    <3>1. IsFiniteSet(D)
      BY <2>1, <2>2, FS_Subset
    <3>2. ASSUME NEW c \in D PROVE c.path # b.path
      <4>1. c \in C /\ c # b /\ c.w = Cost(g, c.path) /\ b.w = Cost(g, b.path)
        BY <2>1, <2>2, <2>3, <3>2
      <4>2. c = [w |-> c.w, path |-> c.path] /\ b = [w |-> b.w, path |-> b.path]
        BY <2>2, <2>3, <4>1 DEF Labels
      <4> QED
        BY <4>1, <4>2
    <3> QED
      BY <2>1, <2>2, <2>5, <3>1, <3>2 DEF CandsOK
  <2> QED
    BY <1>1, <2>1, <2>3, <2>7, <2>8, <2>9 DEF YenState, Took
<1> QED
  BY <1>3, <1>4


-----------------------------------------------------------------------------
(***************************************************************************)
(* Yen's algorithm finds the cheapest routes in order: wherever a path     *)
(* leaves the routes found, a candidate leaves them there too and is no    *)
(* dearer.                                                                 *)
(***************************************************************************)
Covers(C, found, f, i, g, src, dst) ==
    \A q : Trail(g, q, src, dst, {}, {}) /\ Agree(q, f, i) /\ NewAt(found, q, i) =>
        \E c \in C : Agree(c.path, f, i) /\ NewAt(found, c.path, i) /\ c.w <= Cost(g, q)

Caught(found, C, final, g, src, dst) ==
    /\ \A f \in Range(found) : \A i \in 1 .. Len(f) - 1 :
          ~Agree(final, f, i) => Covers(C, found, f, i, g, src, dst)
    /\ \A q : Trail(g, q, src, dst, {}, {}) /\ q \notin Range(found) => Cost(g, final) <= Cost(g, q)

Ascending(g, found) ==
    \A i, j \in 1 .. Len(found) : i < j => Cost(g, found[i]) <= Cost(g, found[j]) /\ found[i] # found[j]

YenInv(s, n, g, src, dst) ==
    /\ YenState(s, g, src, dst) /\ Len(s.found) <= n /\ Ascending(g, s.found)
    /\ Len(s.found) = n => Caught(s.found, s.cands, s.found[n], g, src, dst)
    /\ Len(s.found) < n => \A q : Trail(g, q, src, dst, {}, {}) => q \in Range(s.found)

LEMMA AgreeLess ==
  ASSUME NEW p, NEW q, NEW i \in Nat, Agree(p, q, i + 1), Len(p) \in Nat, Len(q) \in Nat
  PROVE  Agree(p, q, i)
<1>1. i + 1 <= Len(p) /\ i + 1 <= Len(q) /\ \A j \in 1 .. i + 1 : p[j] = q[j]
  BY DEF Agree
<1>2. \A j \in 1 .. i : j \in 1 .. i + 1
  OBVIOUS
<1>3. i <= Len(p) /\ i <= Len(q)
  BY <1>1
<1> QED
  BY <1>1, <1>2, <1>3 DEF Agree

LEMMA AgreeThrough ==
  ASSUME NEW p, NEW q, NEW r, NEW i, Agree(p, q, i), Agree(q, r, i)
  PROVE  Agree(p, r, i) /\ Agree(q, p, i)
BY DEF Agree

\* Every spur root is covered once the candidates of the last route are in.
LEMMA CoversAll ==
  ASSUME NEW g, WGraph(g), NEW src, NEW dst, NEW found, IsRoutes(g, found, src, dst), NEW final \in Range(found),
         NEW C, Caught(found, C, final, g, src, dst), NEW D, D = C \cup NewCandidates(g, found, final, dst),
         NEW f \in Range(found), NEW i \in 1 .. Len(f) - 1
  PROVE  Covers(D, found, f, i, g, src, dst)
<1>1. CASE ~Agree(final, f, i)
  <2>1. Covers(C, found, f, i, g, src, dst)
    BY <1>1 DEF Caught
  <2>2. C \subseteq D
    OBVIOUS
  <2> QED
    BY <2>1, <2>2 DEF Covers
<1>2. CASE Agree(final, f, i)
  <2>1. /\ Trail(g, final, src, dst, {}, {}) /\ Len(final) \in Nat
        /\ Trail(g, f, src, dst, {}, {}) /\ Len(f) \in Nat
    BY FoundIs
  <2>2. i <= Len(final) /\ i \in Nat /\ i >= 1 /\ final[i] = f[i]
    BY <1>2, <2>1 DEF Agree
  <2>3. i \in 1 .. Len(f) /\ i # Len(f) /\ i \in 1 .. Len(final)
    BY <2>1, <2>2
  <2>4. f[i] # dst
    BY <2>1, <2>3, NotYetThere
  <2>5. i # Len(final)
    BY <2>1, <2>2, <2>3, <2>4, NotYetThere
  <2>6. i \in 1 .. Len(final) - 1
    BY <2>1, <2>2, <2>5
  <2>7. SUFFICES ASSUME NEW q, Trail(g, q, src, dst, {}, {}), Agree(q, f, i), NewAt(found, q, i)
        PROVE  \E c \in D : Agree(c.path, f, i) /\ NewAt(found, c.path, i) /\ c.w <= Cost(g, q)
    BY DEF Covers
  <2>8. Agree(q, final, i)
    BY <1>2, <2>7 DEF Agree
  <2>9. PICK c \in Spur(g, found, final, i, dst) : c.w <= Cost(g, q)
    BY <2>6, <2>7, <2>8, SpurBest
  <2>10. Agree(c.path, final, i) /\ NewAt(found, c.path, i)
    BY <2>6, SpurIs
  <2>11. Agree(c.path, f, i)
    BY <1>2, <2>10, AgreeThrough
  <2>12. c \in D
    BY <2>6, NewCandidatesAre
  <2> QED
    BY <2>9, <2>10, <2>11, <2>12
<1> QED
  BY <1>1, <1>2

\* A path not found leaves the routes found somewhere.
LEMMA Departs ==
  ASSUME NEW g, NEW src, NEW dst, NEW found, IsRoutes(g, found, src, dst), NEW f0 \in Range(found),
         NEW q, Trail(g, q, src, dst, {}, {}), q \notin Range(found)
  PROVE  \E f \in Range(found) : \E i \in 1 .. Len(f) - 1 : Agree(q, f, i) /\ NewAt(found, q, i)
<1>1. /\ q \in Seq(Points) /\ Len(q) \in Nat /\ Len(q) >= 1 /\ q[1] = src
  BY DEF Trail
<1>2. \A f \in Range(found) : Trail(g, f, src, dst, {}, {}) /\ f \in Seq(Points) /\ Len(f) \in Nat /\ Len(f) >= 1
  BY FoundIs
<1>3. PICK G, n : G = {i \in 1 .. Len(q) : \E f \in Range(found) : Agree(q, f, i)} /\ n = Len(q)
  OBVIOUS
<1>4. 1 \in G
  <2>1. f0[1] = src /\ Len(f0) \in Nat /\ Len(f0) >= 1
    BY <1>2 DEF Trail
  <2>2. \A j \in 1 .. 1 : q[j] = f0[j]
    BY <1>1, <2>1
  <2>3. Agree(q, f0, 1)
    BY <1>1, <2>1, <2>2 DEF Agree
  <2> QED
    BY <1>1, <1>3, <2>3
<1>5. ASSUME \A i \in G : i < n /\ i + 1 \in G PROVE FALSE
  <2>1. n \in Nat
    BY <1>1, <1>3
  <2>2. ASSUME NEW i \in 2 .. n, i - 1 \in G PROVE i \in G
    <3>1. (i - 1) + 1 \in G
      BY <1>5, <2>2
    <3>2. (i - 1) + 1 = i
      OBVIOUS
    <3> QED
      BY <3>1, <3>2
  <2>3. \A i \in 1 .. n : i \in G
    BY <1>4, <2>1, <2>2, UpFromOne
  <2>4. n \in 1 .. n
    BY <1>1, <1>3
  <2> QED
    BY <1>5, <2>1, <2>3, <2>4
<1>6. PICK i \in G : i < n => i + 1 \notin G
  BY <1>5
<1>7. PICK f \in Range(found) : Agree(q, f, i)
  BY <1>3, <1>6
<1>8. i \in 1 .. n /\ i \in Nat /\ n \in Nat /\ i <= Len(f) /\ i \in 1 .. Len(f) /\ q[i] = f[i]
  BY <1>1, <1>2, <1>3, <1>6, <1>7 DEF Agree
<1>9. Trail(g, f, src, dst, {}, {}) /\ f \in Seq(Points) /\ Len(f) \in Nat
  BY <1>2
<1>10. (q[i] = dst <=> i = n) /\ (f[i] = dst <=> i = Len(f))
  BY <1>3, <1>8, <1>9, NotYetThere
<1>11. i # n
  <2>1. SUFFICES ASSUME i = n PROVE FALSE
    OBVIOUS
  <2>2. Len(f) = n /\ \A j \in 1 .. n : q[j] = f[j]
    BY <1>7, <1>8, <1>10, <2>1 DEF Agree
  <2>3. q = f
    BY <1>1, <1>3, <1>9, <2>2, SeqEqual
  <2> QED
    BY <2>3
<1>12. i \in 1 .. Len(f) - 1 /\ i < n /\ i + 1 \in 1 .. n
  BY <1>8, <1>9, <1>10, <1>11
<1>13. NewAt(found, q, i)
  <2>1. SUFFICES ASSUME NEW p \in Range(found), Agree(p, q, i + 1) PROVE FALSE
    BY DEF NewAt
  <2>2. Agree(q, p, i + 1)
    BY <2>1 DEF Agree
  <2>3. i + 1 \in G
    BY <1>3, <1>12, <2>2
  <2> QED
    BY <1>6, <1>12, <2>3
<1> QED
  <2>1. \E j \in 1 .. Len(f) - 1 : Agree(q, f, j) /\ NewAt(found, q, j)
    BY <1>7, <1>12, <1>13
  <2> QED
    BY <2>1


LEMMA YenStarts ==
  ASSUME NEW g, WGraph(g), NEW src \in Points, NEW dst, src # dst
  PROVE  LET z == [found |-> FirstRoute(dijkstra(g, src, dst, {}, {})), cands |-> {}]
         IN  YenInv(z, 1, g, src, dst)
<1>1. PICK D, f, z : D = dijkstra(g, src, dst, {}, {}) /\ f = FirstRoute(D) /\ z = [found |-> f, cands |-> {}]
  OBVIOUS
<1>2. z.found = f /\ z.cands = {}
  BY <1>1
<1>3. CandsOK(g, {}, f, src, dst)
  BY FS_EmptySet DEF CandsOK
<1>4. CASE D = {}
  <2>1. f = <<>>
    BY <1>1, <1>4 DEF FirstRoute
  <2>2. f \in Seq(Seq(Points)) /\ Len(f) = 0 /\ \A i : i \notin 1 .. Len(f)
    BY <2>1
  <2>3. IsRoutes(g, f, src, dst) /\ Ascending(g, f)
    BY <2>2 DEF IsRoutes, Ascending
  <2>4. z \in YenRec
    BY <1>1, <2>2 DEF YenRec
  <2>5. \A q : ~Trail(g, q, src, dst, {}, {})
    BY <1>1, <1>4, DijkstraBest
  <2>6. YenInv(z, 1, g, src, dst)
    BY <1>2, <1>3, <2>2, <2>3, <2>4, <2>5 DEF YenInv, YenState
  <2> QED
    BY <1>1, <2>6
<1>5. CASE D # {}
  <2>1. PICK l : l \in D /\ l = CHOOSE x \in D : TRUE
    BY <1>5
  <2>2. PICK p : p = l.path
    OBVIOUS
  <2>3. f = <<p>>
    BY <1>1, <1>5, <2>1, <2>2 DEF FirstRoute
  <2>4. l \in Labels /\ Trail(g, p, src, dst, {}, {}) /\ D = {l}
    BY <1>1, <2>1, <2>2, DijkstraFinds
  <2>5. l.w = Cost(g, p)
    BY <1>1, <2>1, <2>2, DijkstraCounts
  <2>6. p \in Seq(Points) /\ Len(p) \in Nat
    BY <2>4 DEF Trail
  <2>7. f \in Seq(Seq(Points)) /\ Len(f) = 1 /\ f[1] = p /\ Range(f) = {p}
    BY <2>3, <2>6 DEF Range
  <2>8. IsRoutes(g, f, src, dst)
    BY <2>4, <2>7 DEF IsRoutes
  <2>9. Ascending(g, f)
    BY <2>7 DEF Ascending
  <2>10. z \in YenRec
    BY <1>1, <2>7 DEF YenRec
  <2>11. ASSUME NEW q, Trail(g, q, src, dst, {}, {}) PROVE Cost(g, p) <= Cost(g, q)
    <3>1. PICK d \in dijkstra(g, src, dst, {}, {}) : d.w <= Cost(g, q)
      BY <2>11, DijkstraBest
    <3> QED
      BY <1>1, <2>4, <2>5, <3>1
  <2>12. \A i \in 1 .. Len(p) - 1 : Agree(p, p, i)
    BY <2>6 DEF Agree
  <2>13. Caught(f, {}, p, g, src, dst)
    BY <2>7, <2>11, <2>12 DEF Caught
  <2>14. YenInv(z, 1, g, src, dst)
    BY <1>2, <1>3, <2>7, <2>8, <2>9, <2>10, <2>13 DEF YenInv, YenState
  <2> QED
    BY <1>1, <2>14
<1> QED
  BY <1>4, <1>5

\* One round of the loop.
LEMMA YenGoesOn ==
  ASSUME NEW g, WGraph(g), NEW src, NEW dst, NEW n \in Nat \ {0}, NEW s, YenInv(s, n, g, src, dst)
  PROVE  LET t == Extend(g, s, n + 1, dst)
         IN  YenInv(t, n + 1, g, src, dst)
<1>1. PICK t, found, C, m : t = Extend(g, s, n + 1, dst) /\ found = s.found /\ C = s.cands /\ m = Len(found)
  OBVIOUS
<1>2. /\ YenState(s, g, src, dst) /\ m <= n /\ Ascending(g, found) /\ (m = n => Caught(found, C, found[n], g, src, dst))
      /\ (m < n => \A q : Trail(g, q, src, dst, {}, {}) => q \in Range(found))
  BY <1>1 DEF YenInv
<1>3. IsRoutes(g, found, src, dst) /\ CandsOK(g, C, found, src, dst) /\ m \in Nat
  BY <1>1, <1>2 DEF YenState, IsRoutes
<1>4. (n + 1) - 1 = n /\ n + 1 \in Nat /\ m # n + 1 /\ m <= n + 1
  BY <1>2, <1>3
<1>5. CASE m < n
  <2>1. t = s
    BY <1>1, <1>4, <1>5 DEF Extend
  <2>2. YenInv(t, n + 1, g, src, dst)
    BY <1>1, <1>2, <1>4, <1>5, <2>1 DEF YenInv
  <2> QED
    BY <1>1, <2>2
<1>6. CASE ~(m < n)
  <2>1. m = n
    BY <1>2, <1>3, <1>6
  <2>2. PICK final, D : final = found[n] /\ D = C \cup NewCandidates(g, found, final, dst)
    OBVIOUS
  <2>3. t = TakeBest(found, D)
    <3>1. PICK k, j : k = n + 1 /\ j = k - 1
      OBVIOUS
    <3>2. t = Extend(g, s, k, dst) /\ j = n
      BY <1>1, <1>4, <3>1
    <3>3. t = TakeBest(s.found, s.cands \cup NewCandidates(g, s.found, s.found[j], dst))
      BY <1>1, <1>6, <3>1, <3>2 DEF Extend
    <3> QED
      BY <1>1, <2>2, <3>2, <3>3
  <2>4. n \in 1 .. m /\ DOMAIN found = 1 .. m /\ found \in Seq(Seq(Points))
    <3>1. found \in Seq(Seq(Points))
      BY <1>3 DEF IsRoutes
    <3>2. DOMAIN found = 1 .. m
      BY <1>1, <3>1
    <3>3. n \in 1 .. m
      BY <2>1
    <3> QED
      BY <3>1, <3>2, <3>3
  <2>5. final \in Range(found)
    BY <2>2, <2>4 DEF Range
  <2>6. Caught(found, C, final, g, src, dst)
    BY <1>2, <2>1, <2>2
  <2>7. CandsOK(g, D, found, src, dst)
    <3>1. CandsOK(g, NewCandidates(g, found, final, dst), found, src, dst)
      BY <1>3, <2>5, NewCandidatesAre
    <3> QED
      BY <1>3, <2>2, <3>1, FS_Union DEF CandsOK
  <2>8. YenState(t, g, src, dst) /\ Took(t, found, D)
    BY <1>3, <2>3, <2>7, TakeBestIs
  <2>9. \A f \in Range(found) : \A i \in 1 .. Len(f) - 1 : Covers(D, found, f, i, g, src, dst)
    BY <1>3, <2>2, <2>5, <2>6, CoversAll
  <2>10. ASSUME NEW q, Trail(g, q, src, dst, {}, {}), q \notin Range(found)
         PROVE  \E c \in D : c.w <= Cost(g, q)
    <3>1. PICK f \in Range(found) : \E i \in 1 .. Len(f) - 1 : Agree(q, f, i) /\ NewAt(found, q, i)
      BY <1>3, <2>5, <2>10, Departs
    <3>2. PICK i \in 1 .. Len(f) - 1 : Agree(q, f, i) /\ NewAt(found, q, i)
      BY <3>1
    <3>3. Covers(D, found, f, i, g, src, dst)
      BY <2>9
    <3> QED
      BY <2>10, <3>2, <3>3 DEF Covers
  <2>11. CASE D = {} /\ t.found = found
    <3>1. Len(t.found) <= n + 1 /\ Len(t.found) # n + 1
      BY <1>1, <1>3, <1>4, <2>11
    <3>2. \A q : Trail(g, q, src, dst, {}, {}) => q \in Range(found)
      BY <2>10, <2>11
    <3>3. YenInv(t, n + 1, g, src, dst)
      BY <1>2, <2>8, <2>11, <3>1, <3>2 DEF YenInv
    <3> QED
      BY <1>1, <3>3
  <2>12. ASSUME NEW b \in D, t.found = Append(found, b.path), t.cands = D \ {b}, \A d \in D : b.w <= d.w
         PROVE  YenInv(t, n + 1, g, src, dst)
    <3>1. PICK p, h : p = b.path /\ h = t.found
      OBVIOUS
    <3>2. /\ b \in Labels /\ Trail(g, p, src, dst, {}, {}) /\ b.w = Cost(g, p) /\ p \notin Range(found)
          /\ \A c \in D : c \in Labels /\ c.w \in Nat
      BY <2>7, <3>1 DEF CandsOK, Labels
    <3>3. p \in Seq(Points)
      BY <3>2 DEF Trail
    <3>4. /\ h \in Seq(Seq(Points)) /\ Len(h) = m + 1 /\ h[m + 1] = p /\ (\A i \in 1 .. m : h[i] = found[i])
          /\ Range(h) = Range(found) \cup {p}
      BY <1>1, <2>4, <2>12, <3>1, <3>3, RangeAppend
    <3>5. Ascending(g, h)
      <4>1. SUFFICES ASSUME NEW i \in 1 .. m + 1, NEW j \in 1 .. m + 1, i < j
            PROVE  Cost(g, h[i]) <= Cost(g, h[j]) /\ h[i] # h[j]
        BY <3>4 DEF Ascending
      <4>2. CASE j # m + 1
        <5>1. i \in 1 .. m /\ j \in 1 .. m
          BY <1>3, <4>1, <4>2
        <5>2. h[i] = found[i] /\ h[j] = found[j]
          BY <3>4, <5>1
        <5>3. Cost(g, found[i]) <= Cost(g, found[j]) /\ found[i] # found[j]
          BY <1>1, <1>2, <4>1, <5>1 DEF Ascending
        <5> QED
          BY <5>2, <5>3
      <4>3. CASE j = m + 1
        <5>1. i \in 1 .. m /\ h[i] = found[i] /\ h[j] = p
          BY <1>3, <3>4, <4>1, <4>3
        <5>2. Cost(g, final) <= Cost(g, p)
          BY <2>6, <3>2 DEF Caught
        <5>3. i = n \/ Cost(g, found[i]) <= Cost(g, final)
          <6>1. i = n \/ (i < n /\ n \in 1 .. m)
            BY <1>3, <2>1, <5>1
          <6> QED
            BY <1>1, <1>2, <2>2, <5>1, <6>1 DEF Ascending
        <5>4. Cost(g, found[i]) \in Nat /\ Cost(g, final) \in Nat /\ Cost(g, p) \in Nat
          <6>1. Walk(g, found[i]) /\ Walk(g, final) /\ Walk(g, p)
            BY <1>1, <1>3, <2>2, <2>4, <3>2, <5>1, TrailIsWalk DEF IsRoutes
          <6> QED
            BY <6>1, PrefixWeightIs
        <5>5. found[i] # p
          BY <2>4, <3>2, <5>1 DEF Range
        <5> QED
          BY <2>2, <5>1, <5>2, <5>3, <5>4, <5>5
      <4> QED
        BY <4>2, <4>3
    <3>6. ASSUME NEW q, Trail(g, q, src, dst, {}, {}), q \notin Range(h) PROVE Cost(g, p) <= Cost(g, q)
      <4>1. PICK c \in D : c.w <= Cost(g, q)
        BY <2>10, <3>4, <3>6
      <4>2. b.w <= c.w /\ b.w \in Nat /\ c.w \in Nat
        BY <2>12, <3>2
      <4>3. Cost(g, q) \in Nat
        BY <3>6, TrailIsWalk, PrefixWeightIs
      <4> QED
        BY <3>2, <4>1, <4>2, <4>3
    <3>7. ASSUME NEW f \in Range(h), NEW i \in 1 .. Len(f) - 1, ~Agree(p, f, i)
          PROVE  Covers(D \ {b}, h, f, i, g, src, dst)
      <4>1. f \in Range(found)
        <5>1. Agree(p, p, i) \/ f # p
          BY <3>3 DEF Agree
        <5> QED
          BY <3>4, <3>7, <5>1
      <4>2. SUFFICES ASSUME NEW q, Trail(g, q, src, dst, {}, {}), Agree(q, f, i), NewAt(h, q, i)
            PROVE  \E c \in D \ {b} : Agree(c.path, f, i) /\ NewAt(h, c.path, i) /\ c.w <= Cost(g, q)
        BY DEF Covers
      <4>3. NewAt(found, q, i)
        BY <3>4, <4>2 DEF NewAt
      <4>4. Covers(D, found, f, i, g, src, dst)
        BY <2>9, <4>1
      <4>5. PICK c \in D : Agree(c.path, f, i) /\ NewAt(found, c.path, i) /\ c.w <= Cost(g, q)
        BY <4>2, <4>3, <4>4 DEF Covers
      <4>6. c # b
        BY <3>1, <3>7, <4>5
      <4>7. ASSUME Agree(p, c.path, i + 1) PROVE FALSE
        <5>1. i \in Nat
          <6>1. Len(f) \in Nat
            BY <1>3, <4>1, FoundIs
          <6> QED
            BY <6>1
        <5>2. Len(p) \in Nat /\ Len(c.path) \in Nat
          <6>1. c.path \in Seq(Points)
            BY <3>2 DEF Labels
          <6> QED
            BY <3>3, <6>1
        <5>3. Agree(p, c.path, i)
          BY <4>7, <5>1, <5>2, AgreeLess
        <5> QED
          BY <3>7, <4>5, <5>3, AgreeThrough
      <4>8. NewAt(h, c.path, i)
        BY <3>4, <4>5, <4>7 DEF NewAt
      <4> QED
        BY <4>5, <4>6, <4>8
    <3>8. Caught(h, D \ {b}, p, g, src, dst)
      BY <3>6, <3>7 DEF Caught
    <3>9. Len(h) = n + 1 /\ Len(h) <= n + 1 /\ ~(Len(h) < n + 1) /\ h[n + 1] = p
      BY <1>3, <2>1, <3>4
    <3> QED
      BY <2>8, <2>12, <3>1, <3>5, <3>8, <3>9 DEF YenInv
  <2>13. \/ D = {} /\ t.found = found
         \/ \E b \in D : t.found = Append(found, b.path) /\ t.cands = D \ {b} /\ \A d \in D : b.w <= d.w
    BY <2>8 DEF Took
  <2> QED
    BY <1>1, <2>11, <2>12, <2>13
<1> QED
  BY <1>5, <1>6

\* KShortest runs the loop; CHOOSE picks the only run there is.
LEMMA ExtendKeeps ==
  ASSUME NEW g, WGraph(g), NEW src, NEW dst, NEW s, YenState(s, g, src, dst), NEW n \in Nat, n >= 2
  PROVE  YenState(Extend(g, s, n, dst), g, src, dst)
<1>1. PICK found, C, m : found = s.found /\ C = s.cands /\ m = Len(found)
  OBVIOUS
<1>2. IsRoutes(g, found, src, dst) /\ CandsOK(g, C, found, src, dst) /\ m \in Nat
  BY <1>1 DEF YenState, IsRoutes
<1>3. CASE m < n - 1
  BY <1>1, <1>3 DEF Extend
<1>4. CASE ~(m < n - 1)
  <2>1. PICK k, final, D : k = n - 1 /\ final = found[k] /\ D = C \cup NewCandidates(g, found, final, dst)
    OBVIOUS
  <2>2. k \in 1 .. m /\ DOMAIN found = 1 .. m
    BY <1>1, <1>2, <1>4, <2>1 DEF IsRoutes
  <2>3. final \in Range(found)
    BY <2>1, <2>2 DEF Range
  <2>4. CandsOK(g, NewCandidates(g, found, final, dst), found, src, dst)
    BY <1>2, <2>3, NewCandidatesAre
  <2>5. CandsOK(g, D, found, src, dst)
    BY <1>2, <2>1, <2>4, FS_Union DEF CandsOK
  <2>6. Extend(g, s, n, dst) = TakeBest(found, D)
    BY <1>1, <1>4, <2>1 DEF Extend
  <2> QED
    BY <1>2, <2>5, <2>6, TakeBestIs
<1> QED
  BY <1>3, <1>4

YenRuns(r, g, src, dst) ==
    /\ r[1] = [found |-> FirstRoute(dijkstra(g, src, dst, {}, {})), cands |-> {}]
    /\ \A n \in 2 .. RouteK : r[n] = Extend(g, r[n - 1], n, dst)

LEMMA KShortestRun ==
  ASSUME NEW g, WGraph(g), NEW src \in Points, NEW dst, src # dst
  PROVE  \E r : YenRuns(r, g, src, dst) /\ KShortest(g, src, dst) = r[RouteK].found
<1> DEFINE Rec(h) == [n \in 1 .. RouteK |->
                        IF n = 1 THEN [found |-> FirstRoute(dijkstra(g, src, dst, {}, {})), cands |-> {}]
                                 ELSE Extend(g, h[n - 1], n, dst)]
           w == CHOOSE h : h = Rec(h)
<1>1. KShortest(g, src, dst) = w[RouteK].found
  BY DEF KShortest
<1>2. RouteK \in Nat \ {0}
  BY OptimizerAssumption
<1>3. PICK z : z = [found |-> FirstRoute(dijkstra(g, src, dst, {}, {})), cands |-> {}]
  OBVIOUS
<1>4. PICK S : S = {s \in YenRec : YenState(s, g, src, dst)}
  OBVIOUS
<1>5. z \in S
  <2>1. YenInv(z, 1, g, src, dst)
    BY <1>3, YenStarts
  <2> QED
    BY <1>4, <2>1 DEF YenInv, YenState
<1>6. PICK next : next = [n \in 2 .. RouteK |-> [s \in S |-> Extend(g, s, n, dst)]]
  OBVIOUS
<1>7. next \in [2 .. RouteK -> [S -> S]]
  <2>1. ASSUME NEW n \in 2 .. RouteK, NEW s \in S PROVE Extend(g, s, n, dst) \in S
    <3>1. n \in Nat /\ n >= 2 /\ YenState(s, g, src, dst)
      BY <1>2, <1>4
    <3>2. YenState(Extend(g, s, n, dst), g, src, dst)
      BY <3>1, ExtendKeeps
    <3> QED
      BY <1>4, <3>2 DEF YenState
  <2> QED
    BY <1>6, <2>1
<1>8. PICK f \in [1 .. RouteK -> S] : FromOne(f, RouteK, z, next)
  BY <1>2, <1>5, <1>7, RecursionFromOne
<1>9. f = Rec(f)
  <2>1. ASSUME NEW n \in 1 .. RouteK
        PROVE  f[n] = IF n = 1 THEN [found |-> FirstRoute(dijkstra(g, src, dst, {}, {})), cands |-> {}]
                               ELSE Extend(g, f[n - 1], n, dst)
    <3>1. CASE n = 1
      BY <1>3, <1>8, <3>1 DEF FromOne
    <3>2. CASE n # 1
      <4>1. n \in 2 .. RouteK /\ n - 1 \in 1 .. RouteK
        BY <1>2, <3>2
      <4>2. f[n] = next[n][f[n - 1]] /\ f[n - 1] \in S
        BY <1>8, <4>1 DEF FromOne
      <4> QED
        BY <1>6, <3>2, <4>1, <4>2
    <3> QED
      BY <3>1, <3>2
  <2>2. f = [n \in 1 .. RouteK |-> f[n]]
    BY <1>8
  <2> QED
    BY <2>1, <2>2
<1>10. w = Rec(w)
  <2> HIDE DEF Rec
  <2> QED
    BY <1>9, Zenon
<1>11. PICK r : r = Rec(r) /\ KShortest(g, src, dst) = r[RouteK].found
  <2> HIDE DEF Rec, w
  <2> QED
    BY <1>1, <1>10
<1>12. \A n \in 1 .. RouteK : r[n] = IF n = 1 THEN [found |-> FirstRoute(dijkstra(g, src, dst, {}, {})), cands |-> {}]
                                               ELSE Extend(g, r[n - 1], n, dst)
  BY <1>11
<1>13. 1 \in 1 .. RouteK /\ \A n \in 2 .. RouteK : n \in 1 .. RouteK /\ n # 1
  BY <1>2
<1>14. YenRuns(r, g, src, dst)
  BY <1>12, <1>13 DEF YenRuns
<1> QED
  BY <1>11, <1>14

\* The routes of a pair: different loopless paths, cheapest first; no other path is cheaper
\* than any of them, and when they are fewer than asked for there is no other.
KShortestSound(g, src, dst, K) ==
    /\ IsRoutes(g, K, src, dst) /\ Ascending(g, K) /\ Len(K) <= RouteK
    /\ \A q : Trail(g, q, src, dst, {}, {}) /\ q \notin Range(K) =>
          Len(K) = RouteK /\ \A i \in 1 .. Len(K) : Cost(g, K[i]) <= Cost(g, q)

\* KShortest is right for every graph with natural weights (kpaths.go, Dijkstra within Yen).
THEOREM KShortestIs ==
  ASSUME NEW g, WGraph(g), NEW src \in Points, NEW dst, src # dst
  PROVE  KShortestSound(g, src, dst, KShortest(g, src, dst))
<1>1. PICK r : YenRuns(r, g, src, dst) /\ KShortest(g, src, dst) = r[RouteK].found
  BY KShortestRun
<1>2. RouteK \in Nat \ {0}
  BY OptimizerAssumption
<1>4. PICK G : G = {n \in 1 .. RouteK : YenInv(r[n], n, g, src, dst)}
  OBVIOUS
<1>5. 1 \in G
  <2>1. PICK z : z = [found |-> FirstRoute(dijkstra(g, src, dst, {}, {})), cands |-> {}]
    OBVIOUS
  <2>2. YenInv(z, 1, g, src, dst)
    BY <2>1, YenStarts
  <2>3. r[1] = [found |-> FirstRoute(dijkstra(g, src, dst, {}, {})), cands |-> {}]
    BY <1>1 DEF YenRuns
  <2> QED
    BY <1>2, <1>4, <2>1, <2>2, <2>3
<1>6. ASSUME NEW n \in 2 .. RouteK, n - 1 \in G PROVE n \in G
  <2>1. PICK m : m = n - 1
    OBVIOUS
  <2>2. m \in Nat \ {0} /\ n = m + 1 /\ n \in 1 .. RouteK
    BY <1>2, <2>1
  <2>3. YenInv(r[m], m, g, src, dst)
    BY <1>4, <1>6, <2>1
  <2>4. r[n] = Extend(g, r[m], m + 1, dst)
    BY <1>1, <2>1, <2>2 DEF YenRuns
  <2>5. YenInv(r[n], m + 1, g, src, dst)
    BY <2>2, <2>3, <2>4, YenGoesOn
  <2> QED
    BY <1>4, <2>2, <2>5
<1>7. \A n \in 1 .. RouteK : n \in G
  BY <1>2, <1>5, <1>6, UpFromOne
<1>8. RouteK \in 1 .. RouteK
  BY <1>2
<1>9. YenInv(r[RouteK], RouteK, g, src, dst)
  BY <1>4, <1>7, <1>8
<1>10. PICK K, C, m : K = r[RouteK].found /\ C = r[RouteK].cands /\ m = Len(K)
  OBVIOUS
<1>11. /\ IsRoutes(g, K, src, dst) /\ Ascending(g, K) /\ m <= RouteK
       /\ (m = RouteK => Caught(K, C, K[RouteK], g, src, dst))
       /\ (m < RouteK => \A q : Trail(g, q, src, dst, {}, {}) => q \in Range(K))
  BY <1>9, <1>10 DEF YenInv, YenState
<1>12. m \in Nat
  BY <1>10, <1>11 DEF IsRoutes
<1>13. ASSUME NEW q, Trail(g, q, src, dst, {}, {}), q \notin Range(K)
       PROVE  m = RouteK /\ \A i \in 1 .. m : Cost(g, K[i]) <= Cost(g, q)
  <2>1. m = RouteK
    BY <1>2, <1>11, <1>12, <1>13
  <2>2. Cost(g, K[RouteK]) <= Cost(g, q)
    BY <1>11, <1>13, <2>1 DEF Caught
  <2>3. \A i \in 1 .. m : Cost(g, K[i]) \in Nat
    BY <1>10, <1>11, TrailIsWalk, PrefixWeightIs DEF IsRoutes
  <2>4. Cost(g, q) \in Nat
    BY <1>13, TrailIsWalk, PrefixWeightIs
  <2>5. ASSUME NEW i \in 1 .. m PROVE Cost(g, K[i]) <= Cost(g, q)
    <3>1. i = RouteK \/ (i < RouteK /\ RouteK \in 1 .. m)
      BY <1>2, <2>1
    <3>2. i = RouteK \/ Cost(g, K[i]) <= Cost(g, K[RouteK])
      BY <1>10, <1>11, <3>1 DEF Ascending
    <3> QED
      BY <1>8, <2>1, <2>2, <2>3, <2>4, <3>2
  <2> QED
    BY <2>1, <2>5
<1> QED
  BY <1>1, <1>10, <1>11, <1>13 DEF KShortestSound

-----------------------------------------------------------------------------
(***************************************************************************)
(* The split graph of an input.                                            *)
(***************************************************************************)
LEMMA NearestSome ==
  ASSUME NEW S, IsFiniteSet(S), S # {}, NEW c \in [S -> Nat], NEW n \in Nat \ {0}, S \subseteq Nat
  PROVE  \E x \in S : x \in Nearest(c, n)
<1>1. PICK w \in {c[x] : x \in S} : \A v \in {c[x] : x \in S} : w <= v
  <2>1. {c[x] : x \in S} # {} /\ {c[x] : x \in S} \subseteq Nat
    OBVIOUS
  <2> QED
    BY <2>1, LeastNatural
<1>2. PICK B : B = {x \in S : c[x] = w}
  OBVIOUS
<1>3. B # {} /\ B \subseteq Nat /\ w \in Nat
  BY <1>1, <1>2
<1>4. PICK x \in B : \A y \in B : x <= y
  BY <1>3, LeastNatural
<1>5. DOMAIN c = S /\ x \in S /\ c[x] = w
  BY <1>2, <1>4
<1>6. {y \in DOMAIN c : c[y] < c[x] \/ (c[y] = c[x] /\ y < x)} = {}
  <2>1. SUFFICES ASSUME NEW y \in S, c[y] < c[x] \/ (c[y] = c[x] /\ y < x) PROVE FALSE
    BY <1>5
  <2>2. c[y] \in Nat /\ w <= c[y] /\ x \in Nat /\ y \in Nat
    BY <1>1, <1>5
  <2>3. c[y] = w /\ y < x
    BY <1>3, <1>5, <2>1, <2>2
  <2>4. y \in B
    BY <1>2, <2>3
  <2> QED
    BY <1>4, <2>2, <2>3, <2>4
<1>7. Cardinality({}) = 0
  BY FS_EmptySet
<1>8. PICK y : y = Nearest(c, n)
  OBVIOUS
<1>9. \A z : z \in y <=> z \in DOMAIN c /\ Cardinality({v \in DOMAIN c : c[v] < c[z] \/ (c[v] = c[z] /\ v < z)}) < n
  BY <1>8 DEF Nearest
<1>10. x \in y
  <2>1. 0 < n
    OBVIOUS
  <2> QED
    BY <1>5, <1>6, <1>7, <1>9, <2>1, Zenon
<1> QED
  BY <1>5, <1>8, <1>10

LEMMA CoveredFinite ==
  ASSUME NEW f, IsFiniteSet(DOMAIN f), NEW U, \A u \in U : \E x \in DOMAIN f : u = f[x]
  PROVE  IsFiniteSet(U)
<1>1. PICK D, V, h : D = DOMAIN f /\ V = {f[x] : x \in DOMAIN f} /\ h = [x \in D |-> f[x]]
  OBVIOUS
<1>2. h \in [D -> V] /\ V = {h[x] : x \in D} /\ IsFiniteSet(D) /\ U \subseteq V
  BY <1>1
<1>3. h \in Surjection(D, V)
  BY <1>2 DEF Surjection
<1>4. IsFiniteSet(V)
  BY <1>2, <1>3, FS_Surjection
<1> QED
  BY <1>2, <1>4, FS_Subset

LEMMA InputIs ==
  ASSUME NEW in, IsInput(in)
  PROVE  /\ DOMAIN in.nodes \subseteq TopoNode /\ TopoNode \subseteq Nat
         /\ \A n \in DOMAIN in.nodes : Reach(in, n) \subseteq TopoIngress
         /\ TopoIngress \subseteq Nat \ {0}
         /\ \A s, d, k : EdgeW(in, s, d, k) \in Nat
         /\ Transits(in) \subseteq DOMAIN in.nodes
         /\ \A n \in Transits(in) : Reach(in, n) # {}
<1>1. \A n \in DOMAIN in.nodes : in.nodes[n].reach \subseteq TopoIngress
  BY DEF IsInput
<1>2. \A s, d, k : EdgeW(in, s, d, k) \in Nat
  <2> TAKE s, d, k
  <2>1. CASE <<s, d, k>> \in DOMAIN in.qm
    <3>1. in.qm[<<s, d, k>>] \in Nat
      BY <2>1 DEF IsInput
    <3> QED
      BY <2>1, <3>1 DEF EdgeW
  <2>2. CASE <<s, d, k>> \notin DOMAIN in.qm
    BY <2>2 DEF EdgeW, DefaultWeight
  <2> QED
    BY <2>1, <2>2
<1> QED
  BY <1>1, <1>2, OptimizerAssumption DEF IsInput, Reach, Transits, Eligible

\* A pruned edge, and the edge its peers have for the way back.
Peering(in, s, d, k) == s \in Transits(in) /\ d \in Transits(in) /\ s # d /\ k \in Reach(in, d)

LEMMA PruneIs ==
  ASSUME NEW in, IsInput(in)
  PROVE  /\ \A e \in Prune(in) : e = <<e[1], e[2], e[3]>> /\ Peering(in, e[1], e[2], e[3])
         /\ \A e \in Prune(in) : \E k : <<e[2], e[1], k>> \in Prune(in)
<1>1. \A a, b \in Transits(in) : b \in TopPeers(in, a) => a # b
  BY DEF TopPeers, Nearest
<1>2. \A a, b \in Transits(in) : <<a, b>> \in PeerPairs(in) => <<b, a>> \in PeerPairs(in) /\ a # b
  BY <1>1 DEF PeerPairs
<1>3. \A q \in PeerPairs(in) : q = <<q[1], q[2]>> /\ q[1] \in Transits(in) /\ q[2] \in Transits(in)
  BY DEF PeerPairs
<1>4. \A e : e \in Prune(in) <=> \E q \in PeerPairs(in) : \E k \in TopIngresses(in, q[1], q[2]) : e = <<q[1], q[2], k>>
  BY DEF Prune
<1>5. ASSUME NEW a \in Transits(in), NEW b \in Transits(in)
      PROVE  TopIngresses(in, a, b) \subseteq Reach(in, b) /\ TopIngresses(in, a, b) # {}
  <2>1. PICK c, R : R = Reach(in, b) /\ c = [k \in R |-> EdgeW(in, a, b, k)]
    OBVIOUS
  <2>2. R \subseteq TopoIngress /\ R # {} /\ R \subseteq Nat /\ c \in [R -> Nat]
    BY <2>1, InputIs
  <2>3. IsFiniteSet(R) /\ IngressK \in Nat \ {0}
    BY <2>2, FS_Subset, OptimizerAssumption
  <2>4. \E x \in R : x \in Nearest(c, IngressK)
    BY <2>2, <2>3, NearestSome
  <2>5. TopIngresses(in, a, b) = Nearest(c, IngressK)
    BY <2>1 DEF TopIngresses
  <2>6. Nearest(c, IngressK) \subseteq R
    BY <2>2 DEF Nearest
  <2> QED
    BY <2>1, <2>4, <2>5, <2>6
<1>6. ASSUME NEW e \in Prune(in)
      PROVE  /\ e = <<e[1], e[2], e[3]>> /\ Peering(in, e[1], e[2], e[3])
             /\ \E k : <<e[2], e[1], k>> \in Prune(in)
  <2>1. PICK q \in PeerPairs(in) : \E k \in TopIngresses(in, q[1], q[2]) : e = <<q[1], q[2], k>>
    BY <1>4, <1>6
  <2>2. PICK k \in TopIngresses(in, q[1], q[2]) : e = <<q[1], q[2], k>>
    BY <2>1
  <2>3. PICK a, b : a = q[1] /\ b = q[2]
    OBVIOUS
  <2>4. q = <<a, b>> /\ a \in Transits(in) /\ b \in Transits(in) /\ e = <<a, b, k>>
    BY <1>3, <2>2, <2>3
  <2>5. <<b, a>> \in PeerPairs(in) /\ a # b
    BY <1>2, <2>4
  <2>6. Peering(in, a, b, k)
    BY <1>5, <2>2, <2>3, <2>4, <2>5 DEF Peering
  <2>7. PICK h : h \in TopIngresses(in, b, a)
    BY <1>5, <2>4
  <2>8. <<b, a, h>> \in Prune(in)
    BY <1>4, <2>5, <2>7
  <2> QED
    BY <2>4, <2>6, <2>8
<1> QED
  BY <1>6

SplitGraph(in) == BuildSplitGraph(in, Prune(in))

\* The two kinds of edges, and what they weigh.
LinkEdge(g, e, P, in) ==
    \E s, d, k : e = <<Core(s), <<d, k>>>> /\ <<s, d, k>> \in P /\ k # 0 /\ g[e] = EdgeW(in, s, d, k)

FreeEdge(g, e) == \E d, k : e = <<<<d, k>>, Core(d)>> /\ k # 0 /\ g[e] = 0

SplitOf(g, P, in) ==
    /\ WGraph(g)
    /\ \A e \in DOMAIN g : LinkEdge(g, e, P, in) \/ FreeEdge(g, e)
    /\ \A s, d, k : <<s, d, k>> \in P =>
          <<Core(s), <<d, k>>>> \in DOMAIN g /\ <<<<d, k>>, Core(d)>> \in DOMAIN g

LEMMA SplitGraphIs ==
  ASSUME NEW in, IsInput(in)
  PROVE  SplitOf(SplitGraph(in), Prune(in), in)
<1>1. PICK P, g, A, B : /\ P = Prune(in) /\ g = SplitGraph(in)
                        /\ A = {<<Core(p[1]), <<p[2], p[3]>>>> : p \in P}
                        /\ B = {<<<<p[2], p[3]>>, Core(p[2])>> : p \in P}
  OBVIOUS
<1>2. g = [e \in A \cup B |-> IF e[1][2] = 0 THEN EdgeW(in, e[1][1], e[2][1], e[2][2]) ELSE 0]
  BY <1>1 DEF SplitGraph, BuildSplitGraph
<1>3. ASSUME NEW p \in P
      PROVE  /\ p = <<p[1], p[2], p[3]>> /\ p[1] \in TopoNode /\ p[2] \in TopoNode /\ p[3] \in TopoIngress
             /\ p[1] \in Nat /\ p[2] \in Nat /\ p[3] \in Nat /\ p[3] # 0
  BY <1>1, <1>3, PruneIs, InputIs DEF Peering
<1>4. IsFiniteSet(P)
  <2>1. P \subseteq TopoNode \X TopoNode \X TopoIngress
    BY <1>3
  <2>2. IsFiniteSet(TopoNode) /\ IsFiniteSet(TopoIngress)
    BY OptimizerAssumption
  <2>3. PICK Fs : Fs = [x \in (TopoNode \X TopoNode) \X TopoIngress |-> <<x[1][1], x[1][2], x[2]>>]
    OBVIOUS
  <2>4. PICK D : D = (TopoNode \X TopoNode) \X TopoIngress
    OBVIOUS
  <2>5. IsFiniteSet(D)
    BY <2>2, <2>4, FS_Product
  <2>6. ASSUME NEW p \in P PROVE \E x \in DOMAIN Fs : p = Fs[x]
    <3>1. <<<<p[1], p[2]>>, p[3]>> \in D
      BY <1>3, <2>4
    <3>2. Fs[<<<<p[1], p[2]>>, p[3]>>] = <<p[1], p[2], p[3]>>
      BY <2>3, <2>4, <3>1
    <3> QED
      BY <1>3, <2>3, <2>4, <3>1, <3>2
  <2>7. DOMAIN Fs = D
    BY <2>3, <2>4
  <2> QED
    BY <2>5, <2>6, <2>7, CoveredFinite
<1>5. IsFiniteSet(A) /\ IsFiniteSet(B)
  <2>1. PICK a, b : /\ a = [p \in P |-> <<Core(p[1]), <<p[2], p[3]>>>>]
                    /\ b = [p \in P |-> <<<<p[2], p[3]>>, Core(p[2])>>]
    OBVIOUS
  <2>2. DOMAIN a = P /\ DOMAIN b = P
    BY <2>1
  <2>3. (\A e \in A : \E p \in P : e = a[p]) /\ \A e \in B : \E p \in P : e = b[p]
    BY <1>1, <2>1
  <2> QED
    BY <1>4, <2>2, <2>3, CoveredFinite
<1>6. IsFiniteSet(DOMAIN g)
  BY <1>2, <1>5, FS_Union
<1>7. ASSUME NEW e \in A
      PROVE  /\ LinkEdge(g, e, P, in)
             /\ e \in Points \X Points /\ g[e] \in Nat
  <2>1. PICK p \in P : e = <<Core(p[1]), <<p[2], p[3]>>>>
    BY <1>1, <1>7
  <2>2. PICK s, d, k : s = p[1] /\ d = p[2] /\ k = p[3]
    OBVIOUS
  <2>3. /\ e = <<<<s, 0>>, <<d, k>>>> /\ p = <<s, d, k>> /\ s \in Nat /\ d \in Nat /\ k \in Nat /\ k # 0
    BY <1>3, <2>1, <2>2 DEF Core
  <2>4. g[e] = EdgeW(in, s, d, k)
    BY <1>2, <2>3
  <2>5. EdgeW(in, s, d, k) \in Nat
    BY InputIs
  <2> QED
    BY <2>3, <2>4, <2>5 DEF Core, Points, LinkEdge
<1>8. ASSUME NEW e \in B
      PROVE  /\ FreeEdge(g, e)
             /\ e \in Points \X Points /\ g[e] \in Nat
  <2>1. PICK p \in P : e = <<<<p[2], p[3]>>, Core(p[2])>>
    BY <1>1, <1>8
  <2>2. PICK d, k : d = p[2] /\ k = p[3]
    OBVIOUS
  <2>3. e = <<<<d, k>>, <<d, 0>>>> /\ d \in Nat /\ k \in Nat /\ k # 0
    BY <1>3, <2>1, <2>2 DEF Core
  <2>4. g[e] = 0
    BY <1>2, <2>3
  <2> QED
    BY <2>3, <2>4 DEF Core, Points, FreeEdge
<1>9. DOMAIN g = A \cup B
  BY <1>2
<1>10. WGraph(g)
  <2>1. g = [e \in DOMAIN g |-> g[e]]
    BY <1>2
  <2> QED
    BY <1>6, <1>7, <1>8, <1>9, <2>1 DEF WGraph
<1>11. ASSUME NEW s, NEW d, NEW k, <<s, d, k>> \in P
       PROVE  <<Core(s), <<d, k>>>> \in A /\ <<<<d, k>>, Core(d)>> \in B
  <2>1. PICK p : p = <<s, d, k>>
    OBVIOUS
  <2>2. p \in P /\ p[1] = s /\ p[2] = d /\ p[3] = k
    BY <1>11, <2>1
  <2> QED
    BY <1>1, <2>2
<1>12. SplitOf(g, P, in)
  BY <1>7, <1>8, <1>9, <1>10, <1>11 DEF SplitOf
<1> QED
  BY <1>1, <1>12


-----------------------------------------------------------------------------
(***************************************************************************)
(* A path of the split graph goes from core to core: over n ingresses, the *)
(* hops of its route.                                                      *)
(***************************************************************************)
LEMMA FromCore ==
  ASSUME NEW g, NEW P, NEW in, SplitOf(g, P, in), NEW u, NEW v, <<u, v>> \in DOMAIN g
  PROVE  u[2] = 0 => /\ u = Core(u[1]) /\ v = <<v[1], v[2]>> /\ v[2] # 0 /\ <<u[1], v[1], v[2]>> \in P
                     /\ g[<<u, v>>] = EdgeW(in, u[1], v[1], v[2])
<1>1. PICK e : e = <<u, v>>
  OBVIOUS
<1>2. CASE LinkEdge(g, e, P, in)
  <2>1. PICK s, d, k : e = <<Core(s), <<d, k>>>> /\ <<s, d, k>> \in P /\ k # 0 /\ g[e] = EdgeW(in, s, d, k)
    BY <1>2 DEF LinkEdge
  <2>2. u = <<s, 0>> /\ v = <<d, k>>
    BY <1>1, <2>1 DEF Core
  <2>3. u[1] = s /\ u[2] = 0 /\ v[1] = d /\ v[2] = k
    BY <2>2
  <2> QED
    BY <1>1, <2>1, <2>2, <2>3 DEF Core
<1>3. CASE FreeEdge(g, e)
  <2>1. PICK d, k : e = <<<<d, k>>, Core(d)>> /\ k # 0 /\ g[e] = 0
    BY <1>3 DEF FreeEdge
  <2>2. u = <<d, k>> /\ v = Core(d)
    BY <1>1, <2>1
  <2>3. u[1] = d /\ u[2] = k
    BY <2>2
  <2> QED
    BY <1>1, <2>1, <2>2, <2>3
<1> QED
  BY <1>1, <1>2, <1>3 DEF SplitOf

LEMMA FromIngress ==
  ASSUME NEW g, NEW P, NEW in, SplitOf(g, P, in), NEW u, NEW v, <<u, v>> \in DOMAIN g, u[2] # 0
  PROVE  v = Core(u[1]) /\ g[<<u, v>>] = 0
<1>1. PICK e : e = <<u, v>>
  OBVIOUS
<1>2. ~LinkEdge(g, e, P, in)
  <2>1. SUFFICES ASSUME NEW s, NEW d, NEW k, e = <<Core(s), <<d, k>>>> PROVE FALSE
    BY DEF LinkEdge
  <2>2. u = <<s, 0>>
    BY <1>1, <2>1 DEF Core
  <2> QED
    BY <2>2
<1>3. FreeEdge(g, e)
  BY <1>1, <1>2 DEF SplitOf
<1>4. PICK d, k : e = <<<<d, k>>, Core(d)>> /\ k # 0 /\ g[e] = 0
  BY <1>3 DEF FreeEdge
<1>5. u = <<d, k>> /\ v = Core(d)
  BY <1>1, <1>4
<1>6. u[1] = d
  BY <1>5
<1> QED
  BY <1>1, <1>4, <1>5, <1>6

\* The i-th hop of a path: from one core over an ingress to the next core.
Leg(q, i, g, P, in) ==
    LET u == q[2 * i - 1]
        v == q[2 * i]
        c == q[2 * i + 1]
    IN  /\ u = Core(u[1]) /\ v = <<v[1], v[2]>> /\ v[2] # 0 /\ c = Core(v[1])
        /\ <<u[1], v[1], v[2]>> \in P /\ g[<<u, v>>] = EdgeW(in, u[1], v[1], v[2]) /\ g[<<v, c>>] = 0

LEMMA Alternates ==
  ASSUME NEW g, NEW P, NEW in, SplitOf(g, P, in), NEW s, NEW d, NEW q, Trail(g, q, Core(s), Core(d), {}, {})
  PROVE  \E n \in Nat : Len(q) = 2 * n + 1 /\ \A i \in 1 .. n : Leg(q, i, g, P, in)
<1>1. PICK L : L = Len(q)
  OBVIOUS
<1>2. /\ L \in Nat /\ L >= 1 /\ q[1] = Core(s) /\ q[L] = Core(d)
      /\ \A j \in 1 .. L - 1 : <<q[j], q[j + 1]>> \in DOMAIN g
  BY <1>1 DEF Trail
<1>3. ASSUME NEW i \in Nat, i >= 1, 2 * i <= L, q[2 * i - 1][2] = 0
      PROVE  2 * i + 1 <= L /\ q[2 * i + 1][2] = 0 /\ Leg(q, i, g, P, in)
  <2>1. PICK j, h, f : j = 2 * i - 1 /\ h = 2 * i /\ f = 2 * i + 1
    OBVIOUS
  <2>2. j \in 1 .. L - 1 /\ j + 1 = h
    BY <1>2, <1>3, <2>1
  <2>3. <<q[j], q[h]>> \in DOMAIN g
    BY <1>2, <2>2
  <2>4. /\ q[j] = Core(q[j][1]) /\ q[h] = <<q[h][1], q[h][2]>> /\ q[h][2] # 0
        /\ <<q[j][1], q[h][1], q[h][2]>> \in P /\ g[<<q[j], q[h]>>] = EdgeW(in, q[j][1], q[h][1], q[h][2])
    BY <1>3, <2>1, <2>3, FromCore
  <2>5. h # L
    BY <1>2, <2>4 DEF Core
  <2>6. h \in 1 .. L - 1 /\ h + 1 = f /\ f <= L
    BY <1>2, <1>3, <2>1, <2>5
  <2>7. <<q[h], q[f]>> \in DOMAIN g
    <3>1. <<q[h], q[h + 1]>> \in DOMAIN g
      BY <1>2, <2>6
    <3> QED
      BY <2>6, <3>1
  <2>8. q[f] = Core(q[h][1]) /\ g[<<q[h], q[f]>>] = 0
    <3>1. PICK x, y : x = q[h] /\ y = q[f]
      OBVIOUS
    <3>2. <<x, y>> \in DOMAIN g /\ x[2] # 0
      BY <2>4, <2>7, <3>1
    <3>3. y = Core(x[1]) /\ g[<<x, y>>] = 0
      BY <3>2, FromIngress
    <3> QED
      BY <3>1, <3>3
  <2>9. q[f][2] = 0
    BY <2>8 DEF Core
  <2>10. Leg(q, i, g, P, in)
    BY <2>1, <2>4, <2>8 DEF Leg
  <2> QED
    BY <2>1, <2>6, <2>9, <2>10
<1>4. PICK G : G = {i \in 0 .. L : 2 * i + 1 <= L => q[2 * i + 1][2] = 0}
  OBVIOUS
<1>5. 0 \in G
  <2>1. 2 * 0 + 1 = 1 /\ q[1][2] = 0
    BY <1>2 DEF Core
  <2> QED
    BY <1>2, <1>4, <2>1
<1>6. ASSUME NEW i \in 1 .. L, i - 1 \in G PROVE i \in G
  <2>1. SUFFICES ASSUME 2 * i + 1 <= L PROVE q[2 * i + 1][2] = 0
    BY <1>2, <1>4
  <2>2. 2 * (i - 1) + 1 = 2 * i - 1 /\ 2 * i - 1 <= L /\ 2 * i <= L /\ i \in Nat /\ i >= 1
    BY <1>2, <2>1
  <2>3. q[2 * i - 1][2] = 0
    BY <1>4, <1>6, <2>2
  <2> QED
    BY <1>3, <2>2, <2>3
<1>7. \A i \in 0 .. L : i \in G
  BY <1>2, <1>5, <1>6, UpFromZero
<1>8. ASSUME NEW i \in Nat, i >= 1, 2 * i <= L
      PROVE  2 * i + 1 <= L /\ Leg(q, i, g, P, in)
  <2>1. i - 1 \in 0 .. L /\ 2 * (i - 1) + 1 = 2 * i - 1 /\ 2 * i - 1 <= L
    BY <1>2, <1>8
  <2>2. q[2 * i - 1][2] = 0
    BY <1>4, <1>7, <2>1
  <2> QED
    BY <1>3, <1>8, <2>2
<1>9. PICK n \in Nat : L = 2 * n \/ L = 2 * n + 1
  <2>1. PICK n : n = L \div 2
    OBVIOUS
  <2>2. n \in Nat /\ (L = 2 * n \/ L = 2 * n + 1)
    BY <1>2, <2>1
  <2> QED
    BY <2>2
<1>10. L = 2 * n + 1
  <2>1. SUFFICES ASSUME L = 2 * n PROVE FALSE
    BY <1>9
  <2>2. n >= 1 /\ 2 * n <= L
    BY <1>2, <1>9, <2>1
  <2>3. 2 * n + 1 <= L
    BY <1>8, <2>2
  <2> QED
    BY <1>9, <2>1, <2>3
<1>11. ASSUME NEW i \in 1 .. n PROVE Leg(q, i, g, P, in)
  <2>1. i \in Nat /\ i >= 1 /\ 2 * i <= L
    BY <1>9, <1>10
  <2> QED
    BY <1>8, <2>1
<1> QED
  BY <1>1, <1>10, <1>11

\* The ingress vertices of a path, which lie at its even places.
Half(q, k) == [j \in 1 .. k |-> q[2 * j]]

LEMMA HalfIs ==
  ASSUME NEW q \in Seq(Points), NEW k \in Nat, 2 * k <= Len(q)
  PROVE  Half(q, k) \in Seq(Points) /\ Len(Half(q, k)) = k /\ \A j \in 1 .. k : Half(q, k)[j] = q[2 * j]
<1>1. \A j \in 1 .. k : 2 * j \in 1 .. Len(q)
  <2>1. Len(q) \in Nat
    OBVIOUS
  <2> QED
    BY <2>1
<1>2. \A j \in 1 .. k : q[2 * j] \in Points
  BY <1>1
<1>3. PICK f : f = Half(q, k)
  OBVIOUS
<1>4. f = [j \in 1 .. k |-> q[2 * j]]
  BY <1>3 DEF Half
<1>5. f \in [1 .. k -> Points] /\ \A j \in 1 .. k : f[j] = q[2 * j]
  BY <1>2, <1>4
<1>6. f \in Seq(Points) /\ Len(f) = k
  BY <1>5
<1> QED
  BY <1>3, <1>5, <1>6

LEMMA HalfGrows ==
  ASSUME NEW q \in Seq(Points), NEW k \in Nat, k >= 1, 2 * k <= Len(q)
  PROVE  Half(q, k) = Append(Half(q, k - 1), q[2 * k])
<1>1. PICK m, a, b, x : m = k - 1 /\ a = Half(q, m) /\ x = q[2 * k] /\ b = Half(q, k)
  OBVIOUS
<1>2. m \in Nat /\ k = m + 1 /\ 2 * m <= Len(q) /\ 2 * k \in 1 .. Len(q)
  <2>1. Len(q) \in Nat
    OBVIOUS
  <2> QED
    BY <1>1, <2>1
<1>3. x \in Points
  BY <1>1, <1>2
<1>4. a \in Seq(Points) /\ Len(a) = m /\ \A j \in 1 .. m : a[j] = q[2 * j]
  BY <1>1, <1>2, HalfIs
<1>5. b \in Seq(Points) /\ Len(b) = k /\ \A j \in 1 .. k : b[j] = q[2 * j]
  BY <1>1, HalfIs
<1>6. PICK c : c = Append(a, x)
  OBVIOUS
<1>7. c \in Seq(Points) /\ Len(c) = m + 1 /\ c[m + 1] = x /\ \A j \in 1 .. m : c[j] = a[j]
  BY <1>3, <1>4, <1>6
<1>8. \A j \in 1 .. Len(b) : b[j] = c[j]
  <2> TAKE j \in 1 .. Len(b)
  <2>1. j \in 1 .. k /\ (j \in 1 .. m \/ j = k)
    BY <1>2, <1>5
  <2> QED
    BY <1>1, <1>2, <1>4, <1>5, <1>7, <2>1
<1>9. b = c
  BY <1>2, <1>5, <1>7, <1>8, SeqEqual
<1> QED
  BY <1>1, <1>6, <1>9

LEMMA CompressIs ==
  ASSUME NEW q \in Seq(Points), NEW n \in Nat, Len(q) = 2 * n + 1,
         \A i \in 0 .. n : q[2 * i + 1][2] = 0, \A i \in 1 .. n : q[2 * i][2] # 0
  PROVE  compressPath(q) = Half(q, n)
<1> DEFINE Rec(h) == [i \in 0 .. Len(q) |->
                        IF i = 0 THEN <<>>
                        ELSE IF q[i][2] = 0 THEN h[i - 1] ELSE Append(h[i - 1], q[i])]
           w == CHOOSE h : h = Rec(h)
<1>1. compressPath(q) = w[Len(q)]
  BY DEF compressPath
<1>2. PICK L : L = Len(q)
  OBVIOUS
<1>3. L \in Nat /\ L = 2 * n + 1
  BY <1>2
<1>4. PICK f : f = [i \in 0 .. L |-> Half(q, i \div 2)]
  OBVIOUS
<1>5. f[0] = <<>>
  <2>1. 0 \in 0 .. L /\ 0 \div 2 = 0
    BY <1>3
  <2>2. Half(q, 0) = <<>>
    <3>1. Half(q, 0) \in Seq(Points) /\ Len(Half(q, 0)) = 0
      BY <1>2, <1>3, HalfIs
    <3> QED
      BY <3>1, EmptySeq
  <2> QED
    BY <1>4, <2>1, <2>2
<1>6. ASSUME NEW i \in 1 .. L
      PROVE  f[i] = IF q[i][2] = 0 THEN f[i - 1] ELSE Append(f[i - 1], q[i])
  <2>1. i \in Nat /\ i >= 1 /\ i \in 0 .. L /\ i - 1 \in 0 .. L
    BY <1>3
  <2>2. PICK k : k = i \div 2
    OBVIOUS
  <2>3. k \in Nat /\ (i = 2 * k \/ i = 2 * k + 1)
    BY <2>1, <2>2
  <2>4. f[i] = Half(q, k) /\ f[i - 1] = Half(q, (i - 1) \div 2)
    BY <1>4, <2>1, <2>2
  <2>5. CASE i = 2 * k + 1
    <3>1. (i - 1) \div 2 = k /\ k \in 0 .. n
      BY <1>3, <2>3, <2>5
    <3> QED
      BY <2>4, <2>5, <3>1
  <2>6. CASE i = 2 * k
    <3>1. (i - 1) \div 2 = k - 1 /\ k \in 1 .. n /\ k >= 1 /\ 2 * k <= L
      BY <1>3, <2>1, <2>3, <2>6
    <3>2. Half(q, k) = Append(Half(q, k - 1), q[2 * k])
      BY <1>2, <2>3, <3>1, HalfGrows
    <3> QED
      BY <2>4, <2>6, <3>1, <3>2
  <2> QED
    BY <2>3, <2>5, <2>6
<1>7. f = Rec(f)
  <2>1. ASSUME NEW i \in 0 .. L
        PROVE  f[i] = IF i = 0 THEN <<>> ELSE IF q[i][2] = 0 THEN f[i - 1] ELSE Append(f[i - 1], q[i])
    <3>1. i = 0 \/ i \in 1 .. L
      BY <1>3
    <3> QED
      BY <1>3, <1>5, <1>6, <3>1
  <2>2. f = [i \in 0 .. L |-> f[i]]
    BY <1>4
  <2> QED
    BY <1>2, <2>1, <2>2
<1>8. w = Rec(w)
  <2> HIDE DEF Rec
  <2> QED
    BY <1>7, Zenon
<1>9. PICK r : r = Rec(r) /\ compressPath(q) = r[L]
  <2> HIDE DEF Rec, w
  <2> QED
    BY <1>1, <1>2, <1>8
<1>10. /\ r[0] = <<>>
       /\ \A i \in 1 .. L : r[i] = IF q[i][2] = 0 THEN r[i - 1] ELSE Append(r[i - 1], q[i])
  <2>1. \A i \in 0 .. L : r[i] = IF i = 0 THEN <<>> ELSE IF q[i][2] = 0 THEN r[i - 1] ELSE Append(r[i - 1], q[i])
    BY <1>2, <1>9
  <2>2. 0 \in 0 .. L /\ \A i \in 1 .. L : i \in 0 .. L /\ i # 0
    BY <1>3
  <2> QED
    BY <2>1, <2>2
<1>11. PICK G : G = {i \in 0 .. L : r[i] = f[i]}
  OBVIOUS
<1>12. 0 \in G
  BY <1>3, <1>5, <1>10, <1>11
<1>13. ASSUME NEW i \in 1 .. L, i - 1 \in G PROVE i \in G
  <2>1. r[i - 1] = f[i - 1] /\ i \in 0 .. L
    BY <1>3, <1>11, <1>13
  <2> QED
    BY <1>6, <1>10, <1>11, <2>1
<1>14. \A i \in 0 .. L : i \in G
  BY <1>3, <1>12, <1>13, UpFromZero
<1>15. r[L] = f[L] /\ L \in 0 .. L
  BY <1>3, <1>11, <1>14
<1>16. L \div 2 = n
  BY <1>3
<1> QED
  BY <1>4, <1>9, <1>15, <1>16


-----------------------------------------------------------------------------
(***************************************************************************)
(* The route of a path, hop by hop.                                        *)
(***************************************************************************)
Legs(q, n, g, P, in) == Len(q) = 2 * n + 1 /\ \A i \in 1 .. n : Leg(q, i, g, P, in)

\* The nodes a path passes, its beginning and one by hop.
Passed(q, n) == [i \in 0 .. n |-> q[2 * i + 1][1]]

PassesBy(f, q, n, p, P) ==
    /\ f[0] = p[1] /\ f[n] = p[2]
    /\ \A i \in 0 .. n : q[2 * i + 1] = Core(f[i])
    /\ \A i \in 1 .. n : /\ q[2 * i - 1] = Core(f[i - 1]) /\ f[i] = q[2 * i][1]
                         /\ q[2 * i] = <<q[2 * i][1], q[2 * i][2]>> /\ q[2 * i][2] # 0
                         /\ <<f[i - 1], q[2 * i][1], q[2 * i][2]>> \in P
    /\ \A i, j \in 0 .. n : f[i] = f[j] => i = j

LEMMA PassedIs ==
  ASSUME NEW g, NEW P, NEW in, NEW p, NEW q, Trail(g, q, Core(p[1]), Core(p[2]), {}, {}),
         NEW n \in Nat, Legs(q, n, g, P, in)
  PROVE  PassesBy(Passed(q, n), q, n, p, P)
<1>1. PICK f, L : f = Passed(q, n) /\ L = Len(q)
  OBVIOUS
<1>2. L = 2 * n + 1 /\ \A i \in 1 .. n : Leg(q, i, g, P, in)
  BY <1>1 DEF Legs
<1>3. /\ q \in Seq(Points) /\ q[1] = Core(p[1]) /\ q[L] = Core(p[2])
      /\ \A i, j \in 1 .. L : q[i] = q[j] => i = j
  BY <1>1 DEF Trail
<1>4. \A i \in 0 .. n : f[i] = q[2 * i + 1][1]
  BY <1>1 DEF Passed
<1>5. ASSUME NEW i \in 1 .. n
      PROVE  /\ q[2 * i - 1] = Core(q[2 * i - 1][1]) /\ q[2 * i + 1] = Core(q[2 * i][1])
             /\ q[2 * i] = <<q[2 * i][1], q[2 * i][2]>> /\ q[2 * i][2] # 0
             /\ <<q[2 * i - 1][1], q[2 * i][1], q[2 * i][2]>> \in P
  BY <1>2 DEF Leg
<1>6. ASSUME NEW i \in 0 .. n PROVE q[2 * i + 1] = Core(f[i])
  <2>1. CASE i = 0
    <3>1. q[2 * i + 1] = Core(p[1]) /\ f[i] = Core(p[1])[1]
      BY <1>3, <1>4, <2>1
    <3> QED
      BY <3>1 DEF Core
  <2>2. CASE i # 0
    <3>1. i \in 1 .. n
      BY <2>2
    <3>2. PICK x, y : x = q[2 * i][1] /\ y = q[2 * i + 1]
      OBVIOUS
    <3>3. y = Core(x) /\ f[i] = y[1]
      BY <1>4, <1>5, <3>1, <3>2
    <3> QED
      BY <3>2, <3>3 DEF Core
  <2> QED
    BY <2>1, <2>2
<1>7. f[0] = p[1] /\ f[n] = p[2]
  <2>1. f[0] = Core(p[1])[1]
    BY <1>3, <1>4
  <2>2. f[n] = Core(p[2])[1]
    BY <1>2, <1>3, <1>4
  <2> QED
    BY <2>1, <2>2 DEF Core
<1>8. ASSUME NEW i \in 1 .. n
      PROVE  /\ q[2 * i - 1] = Core(f[i - 1]) /\ f[i] = q[2 * i][1]
             /\ <<f[i - 1], q[2 * i][1], q[2 * i][2]>> \in P
  <2>1. i - 1 \in 0 .. n /\ 2 * (i - 1) + 1 = 2 * i - 1 /\ i \in 0 .. n
    OBVIOUS
  <2>2. q[2 * i - 1] = Core(f[i - 1]) /\ f[i - 1] = q[2 * i - 1][1]
    BY <1>4, <1>6, <2>1
  <2>3. PICK x, y : x = q[2 * i][1] /\ y = q[2 * i + 1]
    OBVIOUS
  <2>4. y = Core(x) /\ f[i] = y[1]
    BY <1>4, <1>5, <2>1, <2>3
  <2>5. f[i] = x
    BY <2>4 DEF Core
  <2> QED
    BY <1>5, <2>2, <2>3, <2>5
<1>9. ASSUME NEW i \in 0 .. n, NEW j \in 0 .. n, f[i] = f[j] PROVE i = j
  <2>1. PICK a, b : a = 2 * i + 1 /\ b = 2 * j + 1
    OBVIOUS
  <2>2. q[a] = q[b]
    BY <1>6, <1>9, <2>1
  <2>3. a \in 1 .. L /\ b \in 1 .. L
    BY <1>2, <2>1
  <2>4. a = b
    BY <1>3, <2>2, <2>3
  <2> QED
    BY <2>1, <2>4
<1> QED
  BY <1>1, <1>5, <1>6, <1>7, <1>8, <1>9 DEF PassesBy

\* A route ends at the destination, repeats no node, and crosses pruned edges.
RouteGoes(p, hops, P) ==
    /\ hops # <<>> /\ Len(hops) \in Nat /\ Len(hops) >= 1
    /\ hops[Len(hops)][1] = p[2]
    /\ Cardinality({hops[i][1] : i \in DOMAIN hops} \cup {p[1]}) = Len(hops) + 1
    /\ Crossed(p, hops) \subseteq P

LEMMA RouteIs ==
  ASSUME NEW g, NEW P, NEW in, NEW p, p[1] # p[2], NEW q, Trail(g, q, Core(p[1]), Core(p[2]), {}, {}),
         NEW n \in Nat, Legs(q, n, g, P, in)
  PROVE  /\ RouteGoes(p, Half(q, n), P)
         /\ \A i \in 1 .. n : <<Passed(q, n)[i - 1], q[2 * i][1], q[2 * i][2]>> \in Crossed(p, Half(q, n))
<1>1. PICK f, h : f = Passed(q, n) /\ h = Half(q, n)
  OBVIOUS
<1>2. /\ f[0] = p[1] /\ f[n] = p[2]
      /\ \A i \in 1 .. n : f[i] = q[2 * i][1] /\ <<f[i - 1], q[2 * i][1], q[2 * i][2]>> \in P
      /\ \A i, j \in 0 .. n : f[i] = f[j] => i = j
  <2>1. PassesBy(f, q, n, p, P)
    BY <1>1, PassedIs
  <2> QED
    BY <2>1 DEF PassesBy
<1>3. f = [i \in 0 .. n |-> f[i]]
  BY <1>1 DEF Passed
<1>4. n >= 1
  BY <1>2
<1>5. h \in Seq(Points) /\ Len(h) = n /\ \A i \in 1 .. n : h[i] = q[2 * i]
  <2>1. q \in Seq(Points) /\ 2 * n <= Len(q)
    BY DEF Trail, Legs
  <2> QED
    BY <1>1, <2>1, HalfIs
<1>6. DOMAIN h = 1 .. n /\ h # <<>>
  BY <1>4, <1>5
<1>7. \A i \in 1 .. n : h[i][1] = f[i]
  BY <1>2, <1>5
<1>8. PICK S : S = {h[i][1] : i \in DOMAIN h} \cup {p[1]}
  OBVIOUS
<1>9. S = {f[i] : i \in 0 .. n}
  <2>1. \A i \in 0 .. n : f[i] \in S
    <3> TAKE i \in 0 .. n
    <3>1. i = 0 \/ i \in 1 .. n
      OBVIOUS
    <3> QED
      BY <1>2, <1>6, <1>7, <1>8, <3>1
  <2>2. \A x \in S : \E i \in 0 .. n : x = f[i]
    <3> TAKE x \in S
    <3>1. CASE x = p[1]
      BY <1>2, <3>1
    <3>2. CASE x # p[1]
      <4>1. PICK i \in 1 .. n : x = h[i][1]
        BY <1>6, <1>8, <3>2
      <4> QED
        BY <1>7, <4>1
    <3> QED
      BY <3>1, <3>2
  <2> QED
    BY <2>1, <2>2
<1>10. Cardinality(S) = n + 1
  <2>1. f \in Bijection(0 .. n, S)
    <3>1. f \in [0 .. n -> S]
      BY <1>3, <1>9
    <3>2. \A s \in S : \E i \in 0 .. n : f[i] = s
      BY <1>9
    <3>3. \A i, j \in 0 .. n : f[i] = f[j] => i = j
      BY <1>2
    <3>4. f \in Injection(0 .. n, S) /\ f \in Surjection(0 .. n, S)
      BY <3>1, <3>2, <3>3 DEF Injection, Surjection, IsInjective
    <3> QED
      BY <3>4 DEF Bijection
  <2>2. IsFiniteSet(0 .. n) /\ Cardinality(0 .. n) = n + 1
    <3>1. 0 \in Int /\ n \in Int /\ 0 <= n
      OBVIOUS
    <3>2. IsFiniteSet(0 .. n) /\ Cardinality(0 .. n) = (IF 0 > n THEN 0 ELSE n - 0 + 1)
      BY <3>1, FS_Interval
    <3> QED
      BY <3>1, <3>2
  <2>3. ExistsBijection(0 .. n, S)
    BY <2>1 DEF ExistsBijection
  <2> QED
    BY <2>2, <2>3, FS_Bijection
<1>11. \A i \in 1 .. n : (IF i = 1 THEN p[1] ELSE h[i - 1][1]) = f[i - 1]
  <2> TAKE i \in 1 .. n
  <2>1. CASE i = 1
    BY <1>2, <2>1
  <2>2. CASE i # 1
    <3>1. i - 1 \in 1 .. n
      BY <2>2
    <3> QED
      BY <1>7, <2>2, <3>1
  <2> QED
    BY <2>1, <2>2
<1>12. Crossed(p, h) = {<<f[i - 1], h[i][1], h[i][2]>> : i \in 1 .. n}
  BY <1>6, <1>11 DEF Crossed
<1>13. \A i \in 1 .. n : <<f[i - 1], h[i][1], h[i][2]>> = <<f[i - 1], q[2 * i][1], q[2 * i][2]>>
  BY <1>5
<1>14. Crossed(p, h) \subseteq P /\ \A i \in 1 .. n : <<f[i - 1], q[2 * i][1], q[2 * i][2]>> \in Crossed(p, h)
  <2>1. \A i \in 1 .. n : <<f[i - 1], q[2 * i][1], q[2 * i][2]>> \in P
    BY <1>2
  <2>2. \A i \in 1 .. n : <<f[i - 1], h[i][1], h[i][2]>> \in Crossed(p, h)
    BY <1>12
  <2>3. \A c \in Crossed(p, h) : \E i \in 1 .. n : c = <<f[i - 1], h[i][1], h[i][2]>>
    BY <1>12
  <2> QED
    BY <1>13, <2>1, <2>2, <2>3
<1>15. h[Len(h)][1] = p[2]
  BY <1>2, <1>4, <1>5, <1>7
<1>16. RouteGoes(p, h, P)
  BY <1>4, <1>5, <1>6, <1>8, <1>10, <1>14, <1>15 DEF RouteGoes
<1> QED
  BY <1>1, <1>14, <1>16

LEMMA RouteWeightIs ==
  ASSUME NEW g, WGraph(g), NEW P, NEW p, NEW q, Trail(g, q, Core(p[1]), Core(p[2]), {}, {}),
         NEW n \in Nat, Legs(q, n, g, P, lastInput)
  PROVE  RouteWeight(p, Half(q, n)) = Cost(g, q)
<1>1. PICK h, f : h = Half(q, n) /\ f = Passed(q, n)
  OBVIOUS
<1> DEFINE Rec(z) == [i \in 0 .. Len(h) |->
                        IF i = 0 THEN 0
                        ELSE z[i - 1] + EdgeW(lastInput, IF i = 1 THEN p[1] ELSE h[i - 1][1], h[i][1], h[i][2])]
           w == CHOOSE z : z = Rec(z)
<1>2. RouteWeight(p, h) = w[Len(h)]
  BY DEF RouteWeight
<1>3. h \in Seq(Points) /\ Len(h) = n /\ \A i \in 1 .. n : h[i] = q[2 * i]
  <2>1. q \in Seq(Points) /\ 2 * n <= Len(q)
    BY DEF Trail, Legs
  <2> QED
    BY <1>1, <2>1, HalfIs
<1>4. /\ f[0] = p[1] /\ \A i \in 1 .. n : f[i] = q[2 * i][1]
      /\ \A i \in 1 .. n : q[2 * i - 1] = Core(f[i - 1])
  <2>1. PassesBy(f, q, n, p, P)
    BY <1>1, PassedIs
  <2> QED
    BY <2>1 DEF PassesBy
<1>5. \A i \in 1 .. n : (IF i = 1 THEN p[1] ELSE h[i - 1][1]) = f[i - 1]
  <2> TAKE i \in 1 .. n
  <2>1. CASE i = 1
    BY <1>4, <2>1
  <2>2. CASE i # 1
    <3>1. PICK k : k = i - 1
      OBVIOUS
    <3>2. k \in 1 .. n
      BY <2>2, <3>1
    <3>3. h[k][1] = f[k]
      BY <1>3, <1>4, <3>2
    <3> QED
      BY <2>2, <3>1, <3>3
  <2> QED
    BY <2>1, <2>2
<1>6. PICK W : SumsUp(W, g, q, Len(q))
  BY SumsExist, TrailIsWalk
<1>7. /\ Len(q) = 2 * n + 1 /\ W[1] = 0 /\ W \in [1 .. 2 * n + 1 -> Nat]
      /\ \A i \in 2 .. 2 * n + 1 : W[i] = W[i - 1] + g[<<q[i - 1], q[i]>>]
  BY <1>6 DEF SumsUp, Legs
<1>8. ASSUME NEW i \in 1 .. n
      PROVE  W[2 * i + 1] = W[2 * (i - 1) + 1] + EdgeW(lastInput, f[i - 1], h[i][1], h[i][2])
  <2>1. PICK a, b, c : a = 2 * i - 1 /\ b = 2 * i /\ c = 2 * i + 1
    OBVIOUS
  <2>2. /\ a \in 1 .. 2 * n + 1 /\ b \in 2 .. 2 * n + 1 /\ c \in 2 .. 2 * n + 1
        /\ b - 1 = a /\ c - 1 = b /\ 2 * (i - 1) + 1 = a
    BY <2>1
  <2>3. W[b] = W[a] + g[<<q[a], q[b]>>] /\ W[c] = W[b] + g[<<q[b], q[c]>>] /\ W[a] \in Nat /\ W[b] \in Nat
    BY <1>7, <2>2
  <2>4. Leg(q, i, g, P, lastInput)
    BY DEF Legs
  <2>5. g[<<q[a], q[b]>>] = EdgeW(lastInput, q[a][1], q[b][1], q[b][2]) /\ g[<<q[b], q[c]>>] = 0
    BY <2>1, <2>4 DEF Leg
  <2>6. q[a] = Core(f[i - 1]) /\ h[i] = q[b]
    BY <1>3, <1>4, <2>1
  <2>7. q[a][1] = f[i - 1]
    BY <2>6 DEF Core
  <2>8. W[c] = W[b]
    BY <2>3, <2>5
  <2>9. W[b] = W[a] + EdgeW(lastInput, f[i - 1], h[i][1], h[i][2])
    BY <2>3, <2>5, <2>6, <2>7
  <2> QED
    BY <2>1, <2>2, <2>8, <2>9
<1>9. PICK V : V = [i \in 0 .. n |-> W[2 * i + 1]]
  OBVIOUS
<1>10. V[0] = 0 /\ \A i \in 1 .. n : V[i] = V[i - 1] + EdgeW(lastInput, f[i - 1], h[i][1], h[i][2])
  <2>1. V[0] = 0
    BY <1>7, <1>9
  <2>2. ASSUME NEW i \in 1 .. n PROVE V[i] = W[2 * i + 1] /\ V[i - 1] = W[2 * (i - 1) + 1]
    <3>1. i \in 0 .. n /\ i - 1 \in 0 .. n
      OBVIOUS
    <3> QED
      BY <1>9, <3>1
  <2> QED
    BY <1>8, <2>1, <2>2
<1>11. V = Rec(V)
  <2>1. ASSUME NEW i \in 0 .. n
        PROVE  V[i] = IF i = 0 THEN 0
                      ELSE V[i - 1] + EdgeW(lastInput, IF i = 1 THEN p[1] ELSE h[i - 1][1], h[i][1], h[i][2])
    <3>1. CASE i = 0
      BY <1>10, <3>1
    <3>2. CASE i # 0
      <4>1. i \in 1 .. n
        BY <3>2
      <4>2. (IF i = 1 THEN p[1] ELSE h[i - 1][1]) = f[i - 1]
        BY <1>5, <4>1
      <4>3. V[i] = V[i - 1] + EdgeW(lastInput, f[i - 1], h[i][1], h[i][2])
        BY <1>10, <4>1
      <4> QED
        BY <3>2, <4>2, <4>3
    <3> QED
      BY <3>1, <3>2
  <2>2. V = [i \in 0 .. n |-> V[i]]
    BY <1>9
  <2> QED
    BY <1>3, <2>1, <2>2
<1>12. w = Rec(w)
  <2> HIDE DEF Rec
  <2> QED
    BY <1>11, Zenon
<1>13. PICK r : r = Rec(r) /\ RouteWeight(p, h) = r[n]
  <2> HIDE DEF Rec, w
  <2> QED
    BY <1>2, <1>3, <1>12
<1>14. \A i \in 0 .. n : r[i] = IF i = 0 THEN 0
           ELSE r[i - 1] + EdgeW(lastInput, IF i = 1 THEN p[1] ELSE h[i - 1][1], h[i][1], h[i][2])
  BY <1>3, <1>13
<1>15. r[0] = 0 /\ \A i \in 1 .. n : r[i] = r[i - 1] + EdgeW(lastInput, f[i - 1], h[i][1], h[i][2])
  <2>1. r[0] = 0
    BY <1>14
  <2>2. ASSUME NEW i \in 1 .. n PROVE r[i] = r[i - 1] + EdgeW(lastInput, f[i - 1], h[i][1], h[i][2])
    <3>1. i \in 0 .. n /\ i # 0
      OBVIOUS
    <3>2. (IF i = 1 THEN p[1] ELSE h[i - 1][1]) = f[i - 1]
      BY <1>5
    <3>3. r[i] = r[i - 1] + EdgeW(lastInput, IF i = 1 THEN p[1] ELSE h[i - 1][1], h[i][1], h[i][2])
      BY <1>14, <3>1
    <3> QED
      BY <3>2, <3>3
  <2> QED
    BY <2>1, <2>2
<1>16. PICK G : G = {i \in 0 .. n : r[i] = V[i]}
  OBVIOUS
<1>17. 0 \in G
  BY <1>10, <1>15, <1>16
<1>18. ASSUME NEW i \in 1 .. n, i - 1 \in G PROVE i \in G
  <2>1. r[i - 1] = V[i - 1] /\ i \in 0 .. n
    BY <1>16, <1>18
  <2> QED
    BY <1>10, <1>15, <1>16, <2>1
<1>19. r[n] = V[n]
  <2>1. \A i \in 0 .. n : i \in G
    BY <1>17, <1>18, UpFromZero
  <2> QED
    BY <1>16, <2>1
<1>20. V[n] = W[2 * n + 1]
  BY <1>9
<1>21. Cost(g, q) = W[2 * n + 1]
  <2>1. Len(q) \in 1 .. Len(q) /\ Len(q) \in Nat
    BY <1>7
  <2>2. prefixWeight(g, q, Len(q)) = W[Len(q)]
    BY <1>6, <2>1, PrefixWeightSums
  <2> QED
    BY <1>7, <2>2 DEF Cost
<1> QED
  BY <1>1, <1>13, <1>19, <1>20, <1>21


-----------------------------------------------------------------------------
(***************************************************************************)
(* There is a way back wherever there is a way.                            *)
(***************************************************************************)
LEMMA WayBack ==
  ASSUME NEW in, IsInput(in), NEW p, p[1] # p[2], p[1] \in Nat, p[2] \in Nat,
         NEW q, Trail(SplitGraph(in), q, Core(p[1]), Core(p[2]), {}, {}),
         NEW K, KShortestSound(SplitGraph(in), Core(p[2]), Core(p[1]), K)
  PROVE  K # <<>>
<1>1. SUFFICES ASSUME K = <<>> PROVE FALSE
  OBVIOUS
<1>2. PICK g, P, a, b, src, dst : /\ g = SplitGraph(in) /\ P = Prune(in) /\ a = p[1] /\ b = p[2]
                                  /\ src = Core(b) /\ dst = Core(a)
  OBVIOUS
<1>3. WGraph(g) /\ SplitOf(g, P, in)
  BY <1>2, SplitGraphIs DEF SplitOf
<1>4. src \in Points /\ src # dst
  BY <1>2 DEF Core, Points
<1>5. ASSUME NEW l \in dijkstra(g, src, dst, {}, {}) PROVE FALSE
  <2>1. Trail(g, l.path, src, dst, {}, {})
    BY <1>3, <1>4, <1>5, DijkstraFinds
  <2>2. Len(K) = 0 /\ Range(K) = {}
    BY <1>1 DEF Range
  <2>3. RouteK # 0
    BY OptimizerAssumption
  <2> QED
    BY <1>2, <2>1, <2>2, <2>3 DEF KShortestSound
<1>6. dijkstra(g, src, dst, {}, {}) = {}
  BY <1>5
<1>7. PICK Z : src \in Z /\ dst \notin Z /\ \A e \in DOMAIN g : e[1] \in Z => e[2] \in Z
  BY <1>3, <1>4, <1>6, NoRouteCut
<1>8. ASSUME NEW u, NEW v, <<u, v>> \in DOMAIN g, u \in Z PROVE v \in Z
  <2>1. PICK e : e = <<u, v>>
    OBVIOUS
  <2>2. e \in DOMAIN g /\ e[1] = u /\ e[2] = v
    BY <1>8, <2>1
  <2> QED
    BY <1>7, <1>8, <2>2
<1>9. ASSUME NEW s, NEW d, NEW k, <<s, d, k>> \in P, Core(d) \in Z PROVE Core(s) \in Z
  <2>1. PICK e : e = <<s, d, k>>
    OBVIOUS
  <2>2. e \in P /\ e[1] = s /\ e[2] = d
    BY <1>9, <2>1
  <2>3. PICK h : <<d, s, h>> \in P
    BY <1>2, <2>2, PruneIs
  <2>4. <<Core(d), <<s, h>>>> \in DOMAIN g /\ <<<<s, h>>, Core(s)>> \in DOMAIN g
    BY <1>3, <2>3 DEF SplitOf
  <2> QED
    BY <1>8, <1>9, <2>4
<1>10. PICK n \in Nat : Legs(q, n, g, P, in)
  BY <1>2, <1>3, Alternates DEF Legs
<1>11. PICK f : PassesBy(f, q, n, p, P)
  BY <1>2, <1>10, PassedIs
<1>12. /\ f[0] = a /\ f[n] = b
       /\ \A i \in 1 .. n : <<f[i - 1], q[2 * i][1], q[2 * i][2]>> \in P /\ f[i] = q[2 * i][1]
  BY <1>2, <1>11 DEF PassesBy
<1>13. PICK G : G = {i \in 0 .. n : Core(f[n - i]) \in Z}
  OBVIOUS
<1>14. 0 \in G
  BY <1>2, <1>7, <1>12, <1>13
<1>15. ASSUME NEW i \in 1 .. n, i - 1 \in G PROVE i \in G
  <2>1. PICK j, m : j = n - i /\ m = j + 1
    OBVIOUS
  <2>2. m \in 1 .. n /\ m - 1 = j /\ n - (i - 1) = m /\ i \in 0 .. n
    BY <2>1
  <2>3. Core(f[m]) \in Z
    BY <1>13, <1>15, <2>2
  <2>4. <<f[j], f[m], q[2 * m][2]>> \in P
    BY <1>12, <2>2
  <2>5. Core(f[j]) \in Z
    BY <1>9, <2>3, <2>4
  <2> QED
    BY <1>13, <2>1, <2>2, <2>5
<1>16. n \in G
  <2>1. \A i \in 0 .. n : i \in G
    BY <1>14, <1>15, UpFromZero
  <2> QED
    BY <2>1
<1>17. n - n = 0
  OBVIOUS
<1> QED
  BY <1>2, <1>7, <1>12, <1>13, <1>16, <1>17

\* A pair of transits, as two natural numbers that differ.
LEMMA PairIs ==
  ASSUME NEW in, IsInput(in), NEW p \in TransitPairs(in)
  PROVE  /\ p = <<p[1], p[2]>> /\ p[1] # p[2] /\ p[1] \in Transits(in) /\ p[2] \in Transits(in)
         /\ p[1] \in Nat /\ p[2] \in Nat /\ <<p[2], p[1]>> \in TransitPairs(in)
         /\ Core(p[1]) \in Points /\ Core(p[2]) \in Points /\ Core(p[1]) # Core(p[2])
<1>1. p = <<p[1], p[2]>> /\ p[1] # p[2] /\ p[1] \in Transits(in) /\ p[2] \in Transits(in)
  BY DEF TransitPairs
<1>2. PICK a, b, r : a = p[1] /\ b = p[2] /\ r = <<b, a>>
  OBVIOUS
<1>3. r \in Transits(in) \X Transits(in) /\ r[1] = b /\ r[2] = a
  BY <1>1, <1>2
<1>4. r \in TransitPairs(in)
  BY <1>1, <1>2, <1>3 DEF TransitPairs
<1>5. a \in Nat /\ b \in Nat
  BY <1>1, <1>2, InputIs
<1>6. Core(a) \in Points /\ Core(b) \in Points /\ Core(a) # Core(b)
  BY <1>1, <1>2, <1>5 DEF Core, Points
<1> QED
  BY <1>1, <1>2, <1>4, <1>5, <1>6

\* The paths between the ends of a pair.
TrailOf(g, q, p) == Trail(g, q, Core(p[1]), Core(p[2]), {}, {})
SoundFor(g, p, K) == KShortestSound(g, Core(p[1]), Core(p[2]), K)

LEMMA RoutesFor ==
  ASSUME NEW in, IsInput(in), NEW p \in TransitPairs(in)
  PROVE  \E K : SoundFor(SplitGraph(in), p, K) /\ RoutesOf(SplitGraph(in), p) = HopSeqs(K)
<1>1. PICK g, K : g = SplitGraph(in) /\ K = KShortest(g, Core(p[1]), Core(p[2]))
  OBVIOUS
<1>2. WGraph(g)
  BY <1>1, SplitGraphIs DEF SplitOf
<1>3. Core(p[1]) \in Points /\ Core(p[1]) # Core(p[2])
  BY PairIs
<1>4. SoundFor(g, p, K)
  BY <1>1, <1>2, <1>3, KShortestIs DEF SoundFor
<1>5. RoutesOf(g, p) = HopSeqs(K)
  BY <1>1 DEF RoutesOf
<1> QED
  BY <1>1, <1>4, <1>5


-----------------------------------------------------------------------------
(***************************************************************************)
(* What a batch of events does to the weights.                             *)
(***************************************************************************)
Matrices == UNION {[D -> Nat] : D \in SUBSET (TopoNode \X TopoNode \X TopoIngress)}

WeightIn(m, l) == IF l \in DOMAIN m THEN m[l] ELSE DefaultWeight

\* No measured weight is above the price of a link that nobody measured.
Cheap(m) == \A l \in DOMAIN m : m[l] <= DefaultWeight

LEMMA MatrixIs ==
  ASSUME NEW m \in Matrices
  PROVE  /\ DOMAIN m \subseteq TopoNode \X TopoNode \X TopoIngress /\ m \in [DOMAIN m -> Nat]
         /\ \A l : WeightIn(m, l) \in Nat /\ (Cheap(m) => WeightIn(m, l) <= DefaultWeight)
BY DEF Matrices, WeightIn, DefaultWeight, Cheap

LEMMA EventIs ==
  ASSUME NEW e \in EdgeDelta
  PROVE  /\ e.edge \in TopoNode \X TopoNode \X TopoIngress
         /\ e.kind = "down" \/ (e.kind = "weight" /\ e.w \in Weights /\ e.w \in Nat)
BY OptimizerAssumption DEF EdgeDelta

LEMMA DeltaIs ==
  ASSUME NEW m \in Matrices, NEW e \in EdgeDelta
  PROVE  /\ ApplyDelta(m, e) \in Matrices
         /\ \A l : l # e.edge => WeightIn(ApplyDelta(m, e), l) = WeightIn(m, l)
         /\ e.kind = "down" => WeightIn(ApplyDelta(m, e), e.edge) = DefaultWeight
         /\ e.kind = "weight" => WeightIn(ApplyDelta(m, e), e.edge) = e.w
         /\ Cheap(m) /\ (\A w \in Weights : w <= DefaultWeight) => Cheap(ApplyDelta(m, e))
<1>1. PICK l, x : l = e.edge /\ x = ApplyDelta(m, e)
  OBVIOUS
<1>2. l \in TopoNode \X TopoNode \X TopoIngress /\ (e.kind = "down" \/ (e.kind = "weight" /\ e.w \in Weights /\ e.w \in Nat))
  BY <1>1, EventIs
<1>3. DOMAIN m \subseteq TopoNode \X TopoNode \X TopoIngress /\ m \in [DOMAIN m -> Nat]
  BY MatrixIs
<1>4. CASE e.kind = "down"
  <2>1. x = [y \in DOMAIN m \ {l} |-> m[y]]
    BY <1>1, <1>4 DEF ApplyDelta, Restrict
  <2>2. DOMAIN x = DOMAIN m \ {l} /\ x \in [DOMAIN m \ {l} -> Nat] /\ \A y \in DOMAIN m \ {l} : x[y] = m[y]
    BY <1>3, <2>1
  <2>3. x \in Matrices
    BY <1>3, <2>2 DEF Matrices
  <2>4. \A y : y # l => WeightIn(x, y) = WeightIn(m, y)
    BY <2>2 DEF WeightIn
  <2>5. WeightIn(x, l) = DefaultWeight
    BY <2>2 DEF WeightIn
  <2>6. Cheap(m) => Cheap(x)
    BY <2>2 DEF Cheap
  <2> QED
    BY <1>1, <1>4, <2>3, <2>4, <2>5, <2>6
<1>5. CASE e.kind = "weight"
  <2>1. x = [y \in DOMAIN m \cup {l} |-> IF y = l THEN e.w ELSE m[y]]
    BY <1>1, <1>5 DEF ApplyDelta
  <2>2. /\ DOMAIN x = DOMAIN m \cup {l} /\ x \in [DOMAIN m \cup {l} -> Nat] /\ x[l] = e.w
        /\ \A y \in DOMAIN m : y # l => x[y] = m[y]
    BY <1>2, <1>3, <1>5, <2>1
  <2>3. x \in Matrices
    <3>1. DOMAIN m \cup {l} \in SUBSET (TopoNode \X TopoNode \X TopoIngress)
      BY <1>2, <1>3
    <3> QED
      BY <2>2, <3>1 DEF Matrices
  <2>4. \A y : y # l => WeightIn(x, y) = WeightIn(m, y)
    BY <2>2 DEF WeightIn
  <2>5. WeightIn(x, l) = e.w
    BY <2>2 DEF WeightIn
  <2>6. Cheap(m) /\ (\A w \in Weights : w <= DefaultWeight) => Cheap(x)
    BY <1>2, <1>5, <2>2 DEF Cheap
  <2> QED
    BY <1>1, <1>5, <2>3, <2>4, <2>5, <2>6
<1> QED
  BY <1>2, <1>4, <1>5

\* The matrices a batch goes through.
DeltaRun(acc, m, events) ==
    /\ acc[0] = m /\ ApplyDeltas(m, events) = acc[Len(events)] /\ Len(events) \in Nat
    /\ \A i \in 1 .. Len(events) : events[i] \in EdgeDelta /\ events[i] \in Range(events)
    /\ \A i \in 0 .. Len(events) : acc[i] \in Matrices
    /\ \A i \in 1 .. Len(events) : acc[i] = ApplyDelta(acc[i - 1], events[i])

LEMMA DeltasRun ==
  ASSUME NEW m \in Matrices, NEW events \in Batch
  PROVE  \E acc : DeltaRun(acc, m, events)
<1> DEFINE Rec(h) == [i \in 0 .. Len(events) |-> IF i = 0 THEN m ELSE ApplyDelta(h[i - 1], events[i])]
           w == CHOOSE h : h = Rec(h)
<1>1. PICK n \in 1 .. MaxBatch : events \in [1 .. n -> EdgeDelta]
  BY DEF Batch
<1>2. n \in Nat /\ MaxBatch \in Nat
  BY BatchAssumption
<1>3. events \in Seq(EdgeDelta) /\ Len(events) = n
  BY <1>1, <1>2
<1>4. PICK next : next = [i \in 1 .. n |-> [x \in Matrices |-> ApplyDelta(x, events[i])]]
  OBVIOUS
<1>5. \A i \in 1 .. n : events[i] \in EdgeDelta /\ events[i] \in Range(events)
  BY <1>1 DEF Range
<1>6. next \in [1 .. n -> [Matrices -> Matrices]]
  <2>1. \A i \in 1 .. n : \A x \in Matrices : ApplyDelta(x, events[i]) \in Matrices
    BY <1>5, DeltaIs
  <2> QED
    BY <1>4, <2>1
<1>7. PICK f \in [0 .. n -> Matrices] : ByStep(f, n, m, next)
  BY <1>2, <1>6, RecursionExists
<1>8. f[0] = m /\ \A i \in 1 .. n : f[i] = ApplyDelta(f[i - 1], events[i])
  <2>1. f[0] = m /\ \A i \in 1 .. n : f[i] = next[i][f[i - 1]]
    BY <1>7 DEF ByStep
  <2>2. \A i \in 1 .. n : f[i - 1] \in Matrices
    <3>1. \A i \in 1 .. n : i - 1 \in 0 .. n
      BY <1>2
    <3> QED
      BY <1>7, <3>1
  <2> QED
    BY <1>4, <2>1, <2>2
<1>9. f = Rec(f)
  <2>1. \A i \in 0 .. n : f[i] = IF i = 0 THEN m ELSE ApplyDelta(f[i - 1], events[i])
    <3> TAKE i \in 0 .. n
    <3>1. i = 0 \/ i \in 1 .. n
      BY <1>2
    <3> QED
      BY <1>2, <1>8, <3>1
  <2>2. f = [i \in 0 .. n |-> f[i]]
    BY <1>7
  <2> QED
    BY <1>3, <2>1, <2>2
<1>10. w = Rec(w)
  <2> HIDE DEF Rec
  <2> QED
    BY <1>9, Zenon
<1>11. ApplyDeltas(m, events) = w[Len(events)]
  BY DEF ApplyDeltas
<1>12. PICK r : r = Rec(r) /\ ApplyDeltas(m, events) = r[n]
  <2> HIDE DEF Rec, w
  <2> QED
    BY <1>3, <1>10, <1>11
<1>13. \A i \in 0 .. n : r[i] = IF i = 0 THEN m ELSE ApplyDelta(r[i - 1], events[i])
  BY <1>3, <1>12
<1>14. r[0] = m /\ \A i \in 1 .. n : r[i] = ApplyDelta(r[i - 1], events[i])
  <2>1. 0 \in 0 .. n /\ \A i \in 1 .. n : i \in 0 .. n /\ i # 0
    BY <1>2
  <2> QED
    BY <1>13, <2>1
<1>15. PICK G : G = {i \in 0 .. n : r[i] \in Matrices}
  OBVIOUS
<1>16. 0 \in G
  BY <1>2, <1>14, <1>15
<1>17. ASSUME NEW i \in 1 .. n, i - 1 \in G PROVE i \in G
  <2>1. r[i - 1] \in Matrices /\ i \in 0 .. n
    BY <1>2, <1>15, <1>17
  <2> QED
    BY <1>5, <1>14, <1>15, <2>1, DeltaIs
<1>18. \A i \in 0 .. n : r[i] \in Matrices
  <2>1. \A i \in 0 .. n : i \in G
    BY <1>2, <1>16, <1>17, UpFromZero
  <2> QED
    BY <1>15, <2>1
<1>19. DeltaRun(r, m, events)
  BY <1>2, <1>3, <1>5, <1>12, <1>14, <1>18 DEF DeltaRun
<1> QED
  BY <1>19

LEMMA DeltasAre ==
  ASSUME NEW m \in Matrices, NEW events \in Batch
  PROVE  /\ ApplyDeltas(m, events) \in Matrices
         /\ \A l : (\A e \in Range(events) : e.edge # l) => WeightIn(ApplyDeltas(m, events), l) = WeightIn(m, l)
         /\ Cheap(m) /\ ~hasDecrease(events, m) => \A l : WeightIn(m, l) <= WeightIn(ApplyDeltas(m, events), l)
         /\ Cheap(m) /\ (\A w \in Weights : w <= DefaultWeight) => Cheap(ApplyDeltas(m, events))
<1>1. PICK acc : DeltaRun(acc, m, events)
  BY DeltasRun
<1>2. PICK n : n = Len(events)
  OBVIOUS
<1>3. /\ acc[0] = m /\ ApplyDeltas(m, events) = acc[n] /\ n \in Nat
      /\ \A i \in 1 .. n : events[i] \in EdgeDelta /\ events[i] \in Range(events)
      /\ \A i \in 0 .. n : acc[i] \in Matrices
      /\ \A i \in 1 .. n : acc[i] = ApplyDelta(acc[i - 1], events[i])
  BY <1>1, <1>2 DEF DeltaRun
<1>4. \A i \in 1 .. n : i - 1 \in 0 .. n /\ i \in 0 .. n
  BY <1>3
<1>5. 0 \in 0 .. n /\ n \in 0 .. n
  BY <1>3
<1>6. ASSUME NEW l, \A e \in Range(events) : e.edge # l PROVE WeightIn(acc[n], l) = WeightIn(m, l)
  <2>1. PICK G : G = {i \in 0 .. n : WeightIn(acc[i], l) = WeightIn(m, l)}
    OBVIOUS
  <2>2. 0 \in G
    BY <1>3, <1>5, <2>1
  <2>3. ASSUME NEW i \in 1 .. n, i - 1 \in G PROVE i \in G
    <3>1. PICK a, e : a = acc[i - 1] /\ e = events[i]
      OBVIOUS
    <3>2. a \in Matrices /\ e \in EdgeDelta /\ acc[i] = ApplyDelta(a, e) /\ e.edge # l /\ WeightIn(a, l) = WeightIn(m, l)
      BY <1>3, <1>4, <1>6, <2>1, <2>3, <3>1
    <3>3. WeightIn(acc[i], l) = WeightIn(m, l)
      BY <3>2, DeltaIs
    <3> QED
      BY <1>4, <2>1, <3>3
  <2>4. \A i \in 0 .. n : i \in G
    BY <1>3, <2>2, <2>3, UpFromZero
  <2> QED
    BY <1>5, <2>1, <2>4
<1>7. ASSUME Cheap(m), ~hasDecrease(events, m), NEW l PROVE WeightIn(m, l) <= WeightIn(acc[n], l)
  <2>1. PICK G : G = {i \in 0 .. n : WeightIn(m, l) <= WeightIn(acc[i], l)}
    OBVIOUS
  <2>2. WeightIn(m, l) \in Nat /\ WeightIn(m, l) <= DefaultWeight
    BY <1>7, MatrixIs
  <2>3. 0 \in G
    BY <1>3, <1>5, <2>1, <2>2
  <2>4. ASSUME NEW i \in 1 .. n, i - 1 \in G PROVE i \in G
    <3>1. PICK a, e : a = acc[i - 1] /\ e = events[i]
      OBVIOUS
    <3>2. /\ a \in Matrices /\ e \in EdgeDelta /\ e \in Range(events) /\ acc[i] = ApplyDelta(a, e)
          /\ WeightIn(m, l) <= WeightIn(a, l)
      BY <1>3, <1>4, <2>1, <2>4, <3>1
    <3>3. CASE l # e.edge
      <4>1. WeightIn(acc[i], l) = WeightIn(a, l)
        BY <3>2, <3>3, DeltaIs
      <4> QED
        BY <1>4, <2>1, <3>2, <4>1
    <3>4. CASE l = e.edge /\ e.kind = "down"
      <4>1. WeightIn(acc[i], l) = DefaultWeight
        BY <3>2, <3>4, DeltaIs
      <4> QED
        BY <1>4, <2>1, <2>2, <4>1
    <3>5. CASE l = e.edge /\ e.kind = "weight"
      <4>1. WeightIn(acc[i], l) = e.w
        BY <3>2, <3>5, DeltaIs
      <4>2. l \in DOMAIN m /\ ~(e.w < m[l])
        BY <1>7, <3>2, <3>5 DEF hasDecrease
      <4>3. WeightIn(m, l) = m[l] /\ e.w \in Nat
        BY <3>2, <3>5, <4>2, EventIs DEF WeightIn
      <4>4. WeightIn(m, l) <= e.w
        BY <2>2, <4>2, <4>3
      <4> QED
        BY <1>4, <2>1, <4>1, <4>4
    <3> QED
      BY <3>2, <3>3, <3>4, <3>5, EventIs
  <2>5. \A i \in 0 .. n : i \in G
    BY <1>3, <2>3, <2>4, UpFromZero
  <2> QED
    BY <1>5, <2>1, <2>5
<1>8. ASSUME Cheap(m), \A w \in Weights : w <= DefaultWeight PROVE Cheap(acc[n])
  <2>1. PICK G : G = {i \in 0 .. n : Cheap(acc[i])}
    OBVIOUS
  <2>2. 0 \in G
    BY <1>3, <1>5, <1>8, <2>1
  <2>3. ASSUME NEW i \in 1 .. n, i - 1 \in G PROVE i \in G
    <3>1. PICK a, e : a = acc[i - 1] /\ e = events[i]
      OBVIOUS
    <3>2. a \in Matrices /\ e \in EdgeDelta /\ acc[i] = ApplyDelta(a, e) /\ Cheap(a)
      BY <1>3, <1>4, <2>1, <2>3, <3>1
    <3>3. Cheap(acc[i])
      BY <1>8, <3>2, DeltaIs
    <3> QED
      BY <1>4, <2>1, <3>3
  <2>4. \A i \in 0 .. n : i \in G
    BY <1>3, <2>2, <2>3, UpFromZero
  <2> QED
    BY <1>5, <2>1, <2>4
<1>9. acc[n] \in Matrices
  BY <1>3, <1>5
<1> QED
  BY <1>3, <1>6, <1>7, <1>8, <1>9

\* Unless something became cheaper, every event is about an edge that was raised.
LEMMA AllRaised ==
  ASSUME NEW m \in Matrices, NEW events \in Batch, ~hasDecrease(events, m), NEW e \in Range(events)
  PROVE  e.edge \in RaisedEdges(events, m)
<1>1. e \in EdgeDelta
  <2>1. PICK n \in 1 .. MaxBatch : events \in [1 .. n -> EdgeDelta]
    BY DEF Batch
  <2> QED
    BY <2>1 DEF Range
<1>2. e.kind = "weight" => e.edge \in DOMAIN m /\ e.w >= m[e.edge]
  <2>1. SUFFICES ASSUME e.kind = "weight" PROVE e.edge \in DOMAIN m /\ e.w >= m[e.edge]
    OBVIOUS
  <2>2. e.edge \in DOMAIN m /\ ~(e.w < m[e.edge])
    BY <2>1 DEF hasDecrease
  <2>3. e.w \in Nat /\ m[e.edge] \in Nat
    BY <1>1, <2>1, <2>2, EventIs, MatrixIs
  <2> QED
    BY <2>2, <2>3
<1> QED
  BY <1>2 DEF RaisedEdges


-----------------------------------------------------------------------------
(***************************************************************************)
(* The same pruned edges under other weights.                              *)
(***************************************************************************)
LEMMA CostGrows ==
  ASSUME NEW g, WGraph(g), NEW h, WGraph(h), NEW q, Walk(g, q), Walk(h, q),
         \A i \in 1 .. Len(q) - 1 : g[<<q[i], q[i + 1]>>] <= h[<<q[i], q[i + 1]>>]
  PROVE  Cost(g, q) <= Cost(h, q)
<1>1. PICK n : n = Len(q)
  OBVIOUS
<1>2. n \in Nat /\ n >= 1 /\ \A i \in 1 .. n - 1 : <<q[i], q[i + 1]>> \in DOMAIN g /\ <<q[i], q[i + 1]>> \in DOMAIN h
  BY <1>1 DEF Walk
<1>3. PICK G : G = {i \in 1 .. n : prefixWeight(g, q, i) <= prefixWeight(h, q, i)}
  OBVIOUS
<1>4. 1 \in G
  BY <1>2, <1>3, PrefixWeightIs
<1>5. ASSUME NEW i \in 2 .. n, i - 1 \in G PROVE i \in G
  <2>1. PICK k : k = i - 1
    OBVIOUS
  <2>2. k \in 1 .. n - 1 /\ k + 1 = i /\ k \in 1 .. n /\ i \in 1 .. n
    BY <1>2, <2>1
  <2>3. PICK a, b : a = g[<<q[k], q[i]>>] /\ b = h[<<q[k], q[i]>>]
    OBVIOUS
  <2>4. a <= b
    BY <1>1, <2>2, <2>3
  <2>5. a \in Nat /\ b \in Nat
    BY <1>2, <2>2, <2>3 DEF WGraph
  <2>6. prefixWeight(g, q, i) = prefixWeight(g, q, k) + a /\ prefixWeight(h, q, i) = prefixWeight(h, q, k) + b
    BY <1>1, <2>1, <2>3, PrefixWeightIs
  <2>7. prefixWeight(g, q, k) \in Nat /\ prefixWeight(h, q, k) \in Nat
    BY <1>1, <2>2, PrefixWeightIs
  <2>8. prefixWeight(g, q, k) <= prefixWeight(h, q, k)
    BY <1>3, <1>5, <2>1
  <2> QED
    BY <1>3, <2>2, <2>4, <2>5, <2>6, <2>7, <2>8
<1>6. n \in G
  <2>1. \A i \in 1 .. n : i \in G
    BY <1>2, <1>4, <1>5, UpFromOne
  <2> QED
    BY <1>2, <2>1
<1> QED
  BY <1>1, <1>3, <1>6 DEF Cost

LEMMA SameTrails ==
  ASSUME NEW g, NEW h, DOMAIN g = DOMAIN h, NEW q, NEW src, NEW dst
  PROVE  Trail(g, q, src, dst, {}, {}) <=> Trail(h, q, src, dst, {}, {})
BY DEF Trail

LEMMA SplitWeight ==
  ASSUME NEW in, NEW u, NEW v, <<u, v>> \in DOMAIN SplitGraph(in)
  PROVE  SplitGraph(in)[<<u, v>>] = IF u[2] = 0 THEN WeightIn(in.qm, <<u[1], v[1], v[2]>>) ELSE 0
<1>1. PICK g, D : g = SplitGraph(in) /\ D = DOMAIN g
  OBVIOUS
<1>2. g = [e \in D |-> IF e[1][2] = 0 THEN EdgeW(in, e[1][1], e[2][1], e[2][2]) ELSE 0]
  BY <1>1 DEF SplitGraph, BuildSplitGraph
<1>3. PICK e : e = <<u, v>>
  OBVIOUS
<1>4. e \in D /\ e[1] = u /\ e[2] = v
  BY <1>1, <1>3
<1>5. g[e] = IF u[2] = 0 THEN EdgeW(in, u[1], v[1], v[2]) ELSE 0
  BY <1>2, <1>4
<1>6. EdgeW(in, u[1], v[1], v[2]) = WeightIn(in.qm, <<u[1], v[1], v[2]>>)
  BY DEF EdgeW, WeightIn
<1> QED
  BY <1>1, <1>3, <1>5, <1>6

LEMMA SameEdges ==
  ASSUME NEW in, NEW new, Prune(in) = Prune(new)
  PROVE  DOMAIN SplitGraph(in) = DOMAIN SplitGraph(new)
BY DEF SplitGraph, BuildSplitGraph

\* Dearer links make no path cheaper.
LEMMA DearerPaths ==
  ASSUME NEW in, IsInput(in), NEW new, IsInput(new), Prune(in) = Prune(new),
         \A l : WeightIn(in.qm, l) <= WeightIn(new.qm, l), NEW p, NEW q, TrailOf(SplitGraph(in), q, p)
  PROVE  Cost(SplitGraph(in), q) <= Cost(SplitGraph(new), q)
<1>1. PICK g, h : g = SplitGraph(in) /\ h = SplitGraph(new)
  OBVIOUS
<1>2. WGraph(g) /\ WGraph(h) /\ DOMAIN g = DOMAIN h
  BY <1>1, SplitGraphIs, SameEdges DEF SplitOf
<1>3. Walk(g, q) /\ Walk(h, q)
  BY <1>1, <1>2, TrailIsWalk, SameTrails DEF TrailOf
<1>4. ASSUME NEW i \in 1 .. Len(q) - 1 PROVE g[<<q[i], q[i + 1]>>] <= h[<<q[i], q[i + 1]>>]
  <2>1. PICK u, v : u = q[i] /\ v = q[i + 1]
    OBVIOUS
  <2>2. <<u, v>> \in DOMAIN g
    BY <1>3, <2>1 DEF Walk
  <2>3. g[<<u, v>>] = IF u[2] = 0 THEN WeightIn(in.qm, <<u[1], v[1], v[2]>>) ELSE 0
    BY <1>1, <2>2, SplitWeight
  <2>4. h[<<u, v>>] = IF u[2] = 0 THEN WeightIn(new.qm, <<u[1], v[1], v[2]>>) ELSE 0
    BY <1>1, <1>2, <2>2, SplitWeight
  <2>5. WeightIn(in.qm, <<u[1], v[1], v[2]>>) <= WeightIn(new.qm, <<u[1], v[1], v[2]>>)
    OBVIOUS
  <2> QED
    BY <2>1, <2>3, <2>4, <2>5
<1> QED
  BY <1>1, <1>2, <1>3, <1>4, CostGrows

\* A path whose links weigh what they did costs what it did.
LEMMA KeptCost ==
  ASSUME NEW in, IsInput(in), NEW new, IsInput(new), Prune(in) = Prune(new),
         NEW p, p[1] # p[2], NEW q, TrailOf(SplitGraph(in), q, p),
         \A c \in Crossed(p, compressPath(q)) : WeightIn(in.qm, c) = WeightIn(new.qm, c)
  PROVE  Cost(SplitGraph(in), q) = Cost(SplitGraph(new), q)
<1>1. PICK g, h, P : g = SplitGraph(in) /\ h = SplitGraph(new) /\ P = Prune(in)
  OBVIOUS
<1>2. WGraph(g) /\ WGraph(h) /\ DOMAIN g = DOMAIN h /\ SplitOf(g, P, in)
  BY <1>1, SplitGraphIs, SameEdges DEF SplitOf
<1>3. Walk(g, q) /\ Walk(h, q)
  BY <1>1, <1>2, TrailIsWalk, SameTrails DEF TrailOf
<1>4. Trail(g, q, Core(p[1]), Core(p[2]), {}, {}) /\ q \in Seq(Points)
  BY <1>1, <1>3 DEF TrailOf, Walk
<1>5. PICK n \in Nat : Legs(q, n, g, P, in)
  BY <1>2, <1>4, Alternates DEF Legs
<1>6. PICK f : f = Passed(q, n) /\ PassesBy(f, q, n, p, P)
  BY <1>4, <1>5, PassedIs
<1>7. /\ \A i \in 0 .. n : q[2 * i + 1] = Core(f[i])
      /\ \A i \in 1 .. n : q[2 * i - 1] = Core(f[i - 1]) /\ q[2 * i][2] # 0
  BY <1>6 DEF PassesBy
<1>8. compressPath(q) = Half(q, n)
  <2>1. \A i \in 0 .. n : q[2 * i + 1][2] = 0
    BY <1>7 DEF Core
  <2> QED
    BY <1>4, <1>5, <1>7, <2>1, CompressIs DEF Legs
<1>9. \A i \in 1 .. n : <<f[i - 1], q[2 * i][1], q[2 * i][2]>> \in Crossed(p, compressPath(q))
  BY <1>4, <1>5, <1>6, <1>8, RouteIs
<1>10. ASSUME NEW i \in 1 .. Len(q) - 1 PROVE g[<<q[i], q[i + 1]>>] = h[<<q[i], q[i + 1]>>]
  <2>1. PICK u, v : u = q[i] /\ v = q[i + 1]
    OBVIOUS
  <2>2. <<u, v>> \in DOMAIN g
    BY <1>3, <2>1 DEF Walk
  <2>3. g[<<u, v>>] = IF u[2] = 0 THEN WeightIn(in.qm, <<u[1], v[1], v[2]>>) ELSE 0
    BY <1>1, <2>2, SplitWeight
  <2>4. h[<<u, v>>] = IF u[2] = 0 THEN WeightIn(new.qm, <<u[1], v[1], v[2]>>) ELSE 0
    BY <1>1, <1>2, <2>2, SplitWeight
  <2>5. Len(q) = 2 * n + 1
    BY <1>5 DEF Legs
  <2>6. PICK k \in Nat : i = 2 * k \/ i = 2 * k + 1
    <3>1. PICK k : k = i \div 2
      OBVIOUS
    <3>2. k \in Nat /\ (i = 2 * k \/ i = 2 * k + 1)
      BY <2>5, <3>1
    <3> QED
      BY <3>2
  <2>7. CASE i = 2 * k
    <3>1. k \in 1 .. n
      BY <2>5, <2>7
    <3>2. u[2] # 0
      BY <1>7, <2>1, <2>7, <3>1
    <3> QED
      BY <2>1, <2>3, <2>4, <3>2
  <2>8. CASE i = 2 * k + 1
    <3>1. PICK j : j = k + 1
      OBVIOUS
    <3>2. j \in 1 .. n /\ j - 1 = k /\ 2 * j - 1 = i /\ 2 * j = i + 1
      BY <2>5, <2>8, <3>1
    <3>3. u = Core(f[k])
      <4>1. q[2 * j - 1] = Core(f[j - 1])
        BY <1>7, <3>2
      <4> QED
        BY <2>1, <3>2, <4>1
    <3>4. u[1] = f[k] /\ u[2] = 0
      BY <3>3 DEF Core
    <3>5. <<f[k], v[1], v[2]>> \in Crossed(p, compressPath(q))
      <4>1. <<f[j - 1], q[2 * j][1], q[2 * j][2]>> \in Crossed(p, compressPath(q))
        BY <1>9, <3>2
      <4> QED
        BY <2>1, <3>2, <4>1
    <3> QED
      BY <2>1, <2>3, <2>4, <3>4, <3>5
  <2> QED
    BY <2>6, <2>7, <2>8
<1>11. ASSUME NEW i \in 1 .. Len(q) - 1
       PROVE  /\ g[<<q[i], q[i + 1]>>] <= h[<<q[i], q[i + 1]>>]
              /\ h[<<q[i], q[i + 1]>>] <= g[<<q[i], q[i + 1]>>]
  <2>1. PICK e : e = <<q[i], q[i + 1]>>
    OBVIOUS
  <2>2. e \in DOMAIN g /\ g[e] = h[e]
    BY <1>3, <1>10, <2>1 DEF Walk
  <2>3. g[e] \in Nat
    BY <1>2, <2>2 DEF WGraph
  <2> QED
    BY <2>1, <2>2, <2>3
<1>12. Cost(g, q) <= Cost(h, q) /\ Cost(h, q) <= Cost(g, q)
  BY <1>2, <1>3, <1>11, CostGrows
<1>13. Cost(g, q) \in Nat /\ Cost(h, q) \in Nat
  BY <1>2, <1>3, PrefixWeightIs
<1> QED
  BY <1>1, <1>12, <1>13


-----------------------------------------------------------------------------
(***************************************************************************)
(* The routes of a result, computed or kept.                               *)
(***************************************************************************)
\* With best = 1 no cheaper path is missing, with best = 0 one may be.
PairRoutes(g, p, K, best) ==
    /\ IsRoutes(g, K, Core(p[1]), Core(p[2])) /\ Ascending(g, K)
    /\ \A q : TrailOf(g, q, p) => K # <<>>
    /\ best = 1 => SoundFor(g, p, K)

Listed(b, p, K) ==
    /\ p \in DOMAIN b <=> K # <<>>
    /\ K # <<>> => b[p] = HopSeqs(K)

RoutesGood(b, in, best) ==
    /\ DOMAIN b \subseteq TransitPairs(in) /\ b = [p \in DOMAIN b |-> b[p]]
    /\ \A p \in TransitPairs(in) : \E K : PairRoutes(SplitGraph(in), p, K, best) /\ Listed(b, p, K)

LEMMA HopSeqsIs ==
  ASSUME NEW K \in Seq(Seq(Points))
  PROVE  /\ HopSeqs(K) = <<>> <=> K = <<>>
         /\ DOMAIN HopSeqs(K) = 1 .. Len(K) /\ DOMAIN K = 1 .. Len(K) /\ Len(K) \in Nat
         /\ \A i \in 1 .. Len(K) : HopSeqs(K)[i] = compressPath(K[i])
         /\ Range(HopSeqs(K)) = {compressPath(K[i]) : i \in 1 .. Len(K)}
<1>1. PICK f, n, V : f = HopSeqs(K) /\ n = Len(K) /\ V = {compressPath(K[i]) : i \in 1 .. Len(K)}
  OBVIOUS
<1>2. n \in Nat /\ DOMAIN K = 1 .. n
  BY <1>1
<1>3. f = [i \in 1 .. n |-> compressPath(K[i])]
  BY <1>1, <1>2 DEF HopSeqs
<1>4. f \in [1 .. n -> V]
  BY <1>1, <1>3
<1>5. f \in Seq(V) /\ Len(f) = n
  BY <1>2, <1>4
<1>6. f = <<>> <=> n = 0
  BY <1>5, EmptySeq
<1>7. K = <<>> <=> n = 0
  BY <1>1, EmptySeq
<1>8. Range(f) = V
  BY <1>1, <1>3 DEF Range
<1> QED
  BY <1>1, <1>2, <1>3, <1>6, <1>7, <1>8

LEMMA RoutedIs ==
  ASSUME NEW b, b = [p \in DOMAIN b |-> b[p]]
  PROVE  Routed(b) = [p \in {x \in DOMAIN b : b[x] # <<>>} |-> b[p]]
BY DEF Routed, RestrictValues, Restrict

LEMMA SoundIsGood ==
  ASSUME NEW g, NEW p, NEW K, SoundFor(g, p, K), NEW best
  PROVE  PairRoutes(g, p, K, best) /\ K \in Seq(Seq(Points))
<1>1. /\ IsRoutes(g, K, Core(p[1]), Core(p[2])) /\ Ascending(g, K)
      /\ \A q : TrailOf(g, q, p) /\ q \notin Range(K) => Len(K) = RouteK
  BY DEF SoundFor, KShortestSound, TrailOf
<1>2. K \in Seq(Seq(Points))
  BY <1>1 DEF IsRoutes
<1>3. ASSUME NEW q, TrailOf(g, q, p), K = <<>> PROVE FALSE
  <2>1. Len(K) = 0 /\ Range(K) = {}
    BY <1>3 DEF Range
  <2>2. RouteK # 0
    BY OptimizerAssumption
  <2> QED
    BY <1>1, <1>3, <2>1, <2>2
<1> QED
  BY <1>1, <1>2, <1>3 DEF PairRoutes

LEMMA FullRoutes ==
  ASSUME NEW in, IsInput(in), NEW best
  PROVE  RoutesGood(BaselineRoutes(in, Prune(in)), in, best)
<1>1. PICK g, T, a, b : /\ g = SplitGraph(in) /\ T = TransitPairs(in)
                        /\ a = [p \in T |-> RoutesOf(g, p)] /\ b = BaselineRoutes(in, Prune(in))
  OBVIOUS
<1>2. b = Routed(a)
  BY <1>1 DEF BaselineRoutes, SplitGraph
<1>3. DOMAIN a = T /\ a = [p \in DOMAIN a |-> a[p]] /\ \A p \in T : a[p] = RoutesOf(g, p)
  BY <1>1
<1>4. b = [p \in {x \in T : a[x] # <<>>} |-> a[p]]
  BY <1>2, <1>3, RoutedIs
<1>5. DOMAIN b = {x \in T : a[x] # <<>>} /\ b = [p \in DOMAIN b |-> b[p]] /\ \A p \in DOMAIN b : b[p] = a[p]
  BY <1>4
<1>6. ASSUME NEW p \in T PROVE \E K : PairRoutes(g, p, K, best) /\ Listed(b, p, K)
  <2>1. PICK K : SoundFor(g, p, K) /\ RoutesOf(g, p) = HopSeqs(K)
    BY <1>1, RoutesFor
  <2>2. PairRoutes(g, p, K, best) /\ K \in Seq(Seq(Points))
    BY <2>1, SoundIsGood
  <2>3. a[p] = HopSeqs(K) /\ (HopSeqs(K) = <<>> <=> K = <<>>)
    BY <1>3, <2>1, <2>2, HopSeqsIs
  <2>4. Listed(b, p, K)
    BY <1>5, <2>3 DEF Listed
  <2> QED
    BY <2>2, <2>4
<1> QED
  BY <1>1, <1>5, <1>6 DEF RoutesGood

\* A batch that leaves the pruned edges as they are.
Moved(in, new, events) ==
    /\ IsInput(in) /\ IsInput(new) /\ new.nodes = in.nodes /\ Prune(in) = Prune(new)
    /\ events \in Batch /\ in.qm \in Matrices /\ new.qm = ApplyDeltas(in.qm, events)

LEMMA KeptRoutes ==
  ASSUME NEW in, NEW new, NEW events, Moved(in, new, events), ~hasDecrease(events, in.qm),
         NEW best, best = 1 => Cheap(in.qm),
         NEW p \in TransitPairs(in), NEW K, PairRoutes(SplitGraph(in), p, K, best),
         \A i \in 1 .. Len(K) : Crossed(p, compressPath(K[i])) \cap RaisedEdges(events, in.qm) = {}
  PROVE  PairRoutes(SplitGraph(new), p, K, best)
<1>1. PICK g, h, src, dst : g = SplitGraph(in) /\ h = SplitGraph(new) /\ src = Core(p[1]) /\ dst = Core(p[2])
  OBVIOUS
<1>2. /\ IsInput(in) /\ IsInput(new) /\ Prune(in) = Prune(new)
      /\ events \in Batch /\ in.qm \in Matrices /\ new.qm = ApplyDeltas(in.qm, events)
  BY DEF Moved
<1>3. DOMAIN g = DOMAIN h
  BY <1>1, <1>2, SameEdges
<1>4. \A q : TrailOf(g, q, p) <=> TrailOf(h, q, p)
  BY <1>3, SameTrails DEF TrailOf
<1>5. /\ K \in Seq(Seq(Points)) /\ \A i \in 1 .. Len(K) : TrailOf(g, K[i], p)
      /\ \A i, j \in 1 .. Len(K) : i < j => Cost(g, K[i]) <= Cost(g, K[j]) /\ K[i] # K[j]
      /\ \A q : TrailOf(g, q, p) => K # <<>>
  BY <1>1 DEF PairRoutes, IsRoutes, Ascending, TrailOf
<1>6. ASSUME NEW i \in 1 .. Len(K) PROVE Cost(g, K[i]) = Cost(h, K[i])
  <2>1. ASSUME NEW c \in Crossed(p, compressPath(K[i])) PROVE WeightIn(in.qm, c) = WeightIn(new.qm, c)
    <3>1. c \notin RaisedEdges(events, in.qm)
      BY <2>1
    <3>2. \A e \in Range(events) : e.edge # c
      BY <1>2, <3>1, AllRaised
    <3> QED
      BY <1>2, <3>2, DeltasAre
  <2>2. p[1] # p[2]
    BY <1>2, PairIs
  <2> QED
    BY <1>1, <1>2, <1>5, <2>1, <2>2, KeptCost
<1>7. IsRoutes(h, K, src, dst)
  <2>1. \A i \in 1 .. Len(K) : TrailOf(h, K[i], p)
    BY <1>4, <1>5
  <2> QED
    BY <1>1, <1>5, <2>1 DEF IsRoutes, TrailOf
<1>8. Ascending(h, K)
  BY <1>5, <1>6 DEF Ascending
<1>9. ASSUME best = 1 PROVE SoundFor(h, p, K)
  <2>1. SoundFor(g, p, K)
    BY <1>1, <1>9 DEF PairRoutes
  <2>2. /\ Len(K) <= RouteK
        /\ \A q : TrailOf(g, q, p) /\ q \notin Range(K) =>
              Len(K) = RouteK /\ \A i \in 1 .. Len(K) : Cost(g, K[i]) <= Cost(g, q)
    BY <2>1 DEF SoundFor, KShortestSound, TrailOf
  <2>3. \A l : WeightIn(in.qm, l) <= WeightIn(new.qm, l)
    BY <1>2, <1>9, DeltasAre
  <2>4. ASSUME NEW q, TrailOf(h, q, p), q \notin Range(K)
        PROVE  Len(K) = RouteK /\ \A i \in 1 .. Len(K) : Cost(h, K[i]) <= Cost(h, q)
    <3>1. TrailOf(g, q, p)
      BY <1>4, <2>4
    <3>2. Cost(g, q) <= Cost(h, q)
      BY <1>1, <1>2, <2>3, <3>1, DearerPaths
    <3>3. Len(K) = RouteK /\ \A i \in 1 .. Len(K) : Cost(g, K[i]) <= Cost(g, q)
      BY <2>2, <2>4, <3>1
    <3>4. WGraph(g) /\ WGraph(h)
      BY <1>1, <1>2, SplitGraphIs DEF SplitOf
    <3>5. Cost(g, q) \in Nat /\ Cost(h, q) \in Nat
      <4>1. Walk(g, q) /\ Walk(h, q)
        BY <2>4, <3>1, TrailIsWalk DEF TrailOf
      <4> QED
        BY <3>4, <4>1, PrefixWeightIs
    <3>6. ASSUME NEW i \in 1 .. Len(K) PROVE Cost(h, K[i]) <= Cost(h, q)
      <4>1. Walk(g, K[i])
        BY <1>5, TrailIsWalk DEF TrailOf
      <4>2. Cost(g, K[i]) \in Nat
        BY <3>4, <4>1, PrefixWeightIs
      <4> QED
        BY <1>6, <3>2, <3>3, <3>5, <4>2
    <3> QED
      BY <3>3, <3>6
  <2> QED
    BY <1>1, <1>7, <1>8, <2>2, <2>4 DEF SoundFor, KShortestSound, TrailOf
<1> QED
  BY <1>1, <1>4, <1>5, <1>7, <1>8, <1>9 DEF PairRoutes

LEMMA SamePairs ==
  ASSUME NEW in, NEW new, new.nodes = in.nodes
  PROVE  Transits(in) = Transits(new) /\ TransitPairs(in) = TransitPairs(new)
<1>1. Transits(in) = Transits(new)
  BY DEF Transits, Eligible
<1> QED
  BY <1>1 DEF TransitPairs

LEMMA IncrementalRoutes ==
  ASSUME NEW in, NEW new, NEW events, Moved(in, new, events), NEW best, best = 1 => Cheap(in.qm),
         NEW old, RoutesGood(old.baseline, in, best)
  PROVE  LET dirty == dirtyPairs(new, old.baseline, events, in.qm)
         IN  RoutesGood(incrementalRecompute(new, Prune(new), dirty, old).baseline, new, best)
<1>1. PICK b, T, D, g, h, kept, a, z :
            /\ b = old.baseline /\ T = TransitPairs(new) /\ D = dirtyPairs(new, b, events, in.qm)
            /\ g = SplitGraph(in) /\ h = SplitGraph(new)
            /\ kept = {p \in T \ D : p \in DOMAIN b}
            /\ a = [p \in D \cup kept |-> IF p \in D THEN RoutesOf(h, p) ELSE b[p]]
            /\ z = incrementalRecompute(new, Prune(new), D, old).baseline
  OBVIOUS
<1>2. z = Routed(a)
  BY <1>1 DEF incrementalRecompute, SplitGraph
<1>3. /\ DOMAIN a = D \cup kept /\ a = [p \in DOMAIN a |-> a[p]]
      /\ (\A p \in D : a[p] = RoutesOf(h, p)) /\ \A p \in kept : a[p] = b[p]
  <2>1. \A p \in kept : p \notin D
    BY <1>1
  <2> QED
    BY <1>1, <2>1
<1>4. z = [p \in {x \in D \cup kept : a[x] # <<>>} |-> a[p]]
  BY <1>2, <1>3, RoutedIs
<1>5. /\ DOMAIN z = {x \in D \cup kept : a[x] # <<>>} /\ z = [p \in DOMAIN z |-> z[p]]
      /\ \A p \in DOMAIN z : z[p] = a[p]
  BY <1>4
<1>6. T = TransitPairs(in) /\ IsInput(in) /\ IsInput(new)
  BY <1>1, SamePairs DEF Moved
<1>7. DOMAIN b \subseteq T /\ \A p \in T : \E K : PairRoutes(g, p, K, best) /\ Listed(b, p, K)
  BY <1>1, <1>6 DEF RoutesGood
<1>8. D \subseteq T
  BY <1>1, <1>7 DEF dirtyPairs
<1>9. ASSUME NEW p \in D PROVE \E K : PairRoutes(h, p, K, best) /\ Listed(z, p, K)
  <2>1. PICK K : SoundFor(h, p, K) /\ RoutesOf(h, p) = HopSeqs(K)
    BY <1>1, <1>6, <1>8, RoutesFor
  <2>2. PairRoutes(h, p, K, best) /\ K \in Seq(Seq(Points))
    BY <2>1, SoundIsGood
  <2>3. a[p] = HopSeqs(K) /\ (HopSeqs(K) = <<>> <=> K = <<>>)
    BY <1>3, <2>1, <2>2, HopSeqsIs
  <2>4. Listed(z, p, K)
    BY <1>5, <2>3 DEF Listed
  <2> QED
    BY <2>2, <2>4
<1>10. ASSUME NEW p \in T \ D PROVE \E K : PairRoutes(h, p, K, best) /\ Listed(z, p, K)
  <2>1. PICK K : PairRoutes(g, p, K, best) /\ Listed(b, p, K)
    BY <1>7
  <2>2. K \in Seq(Seq(Points))
    BY <2>1 DEF PairRoutes, IsRoutes
  <2>3. ~hasDecrease(events, in.qm)
    BY <1>1 DEF dirtyPairs
  <2>4. ASSUME NEW i \in 1 .. Len(K)
        PROVE  Crossed(p, compressPath(K[i])) \cap RaisedEdges(events, in.qm) = {}
    <3>1. K # <<>>
      BY <2>2
    <3>2. p \in DOMAIN b /\ b[p] = HopSeqs(K)
      BY <2>1, <3>1 DEF Listed
    <3>3. compressPath(K[i]) \in Range(b[p])
      BY <2>2, <3>2, HopSeqsIs
    <3> QED
      BY <1>1, <2>3, <3>2, <3>3 DEF dirtyPairs
  <2>5. PairRoutes(h, p, K, best)
    BY <1>1, <1>6, <2>1, <2>3, <2>4, KeptRoutes
  <2>6. HopSeqs(K) = <<>> <=> K = <<>>
    BY <2>2, HopSeqsIs
  <2>7. p \in kept <=> K # <<>>
    BY <1>1, <2>1 DEF Listed
  <2>8. K # <<>> => a[p] = HopSeqs(K)
    BY <1>3, <2>1, <2>7 DEF Listed
  <2>9. Listed(z, p, K)
    BY <1>5, <2>6, <2>7, <2>8 DEF Listed
  <2> QED
    BY <2>5, <2>9
<1>11. DOMAIN z \subseteq T
  BY <1>1, <1>5, <1>8
<1>12. RoutesGood(z, new, best)
  BY <1>1, <1>5, <1>9, <1>10, <1>11 DEF RoutesGood
<1> QED
  BY <1>1, <1>12


-----------------------------------------------------------------------------
(***************************************************************************)
(* The invariant of the incremental optimizer.                             *)
(***************************************************************************)
\* A DOWN sets an edge to DefaultWeight; nothing weighs more, so that it makes none cheaper.
Affordable == (\A w \in Weights : w <= DefaultWeight) /\ \A in \in Start : Cheap(in.qm)

OptInv(best) ==
    /\ IsInput(lastInput) /\ (best = 1 => Cheap(lastInput.qm))
    /\ lastResult = [roles     |-> Roles(lastInput),
                     neighbors |-> Neighbors(lastInput, Prune(lastInput)),
                     baseline  |-> lastResult.baseline,
                     probes    |-> buildProbeSets(lastInput)]
    /\ RoutesGood(lastResult.baseline, lastInput, best)

LEMMA OptimizeIs ==
  ASSUME NEW in, IsInput(in), NEW best
  PROVE  /\ Optimize(in) = [roles     |-> Roles(in),
                            neighbors |-> Neighbors(in, Prune(in)),
                            baseline  |-> Optimize(in).baseline,
                            probes    |-> buildProbeSets(in)]
         /\ RoutesGood(Optimize(in).baseline, in, best)
<1>1. Optimize(in).baseline = BaselineRoutes(in, Prune(in))
  BY DEF Optimize
<1>2. Optimize(in) = [roles     |-> Roles(in),
                      neighbors |-> Neighbors(in, Prune(in)),
                      baseline  |-> Optimize(in).baseline,
                      probes    |-> buildProbeSets(in)]
  BY DEF Optimize
<1>3. RoutesGood(Optimize(in).baseline, in, best)
  BY <1>1, FullRoutes
<1> QED
  BY <1>2, <1>3

LEMMA OptStarts ==
  ASSUME NEW best, best = 1 => Affordable, IncInit
  PROVE  OptInv(best)
<1>1. lastInput \in Start /\ lastResult = Optimize(lastInput)
  BY DEF IncInit
<1>2. IsInput(lastInput)
  BY <1>1, BatchAssumption
<1>3. best = 1 => Cheap(lastInput.qm)
  BY <1>1 DEF Affordable
<1> QED
  BY <1>1, <1>2, <1>3, OptimizeIs DEF OptInv

LEMMA MatrixOfInput ==
  ASSUME NEW in, IsInput(in)
  PROVE  in.qm \in Matrices
BY DEF IsInput, Matrices

LEMMA NewInput ==
  ASSUME NEW in, IsInput(in), NEW m \in Matrices, NEW new, new = [in EXCEPT !.qm = m]
  PROVE  IsInput(new) /\ new.nodes = in.nodes /\ new.qm = m
<1>1. new = [nodes |-> in.nodes, qm |-> m]
  BY DEF IsInput
<1>2. new.nodes = in.nodes /\ new.qm = m
  BY <1>1
<1>3. DOMAIN m \subseteq TopoNode \X TopoNode \X TopoIngress /\ m \in [DOMAIN m -> Nat]
  BY MatrixIs
<1> QED
  BY <1>1, <1>2, <1>3 DEF IsInput

LEMMA OptGoesOn ==
  ASSUME NEW best, best = 1 => Affordable, OptInv(best), NEW events \in Batch, Apply(events)
  PROVE  OptInv(best)'
<1>1. PICK in, old, m, new : /\ in = lastInput /\ old = lastResult /\ m = ApplyDeltas(in.qm, events)
                             /\ new = [in EXCEPT !.qm = m]
  OBVIOUS
<1>2. IsInput(in) /\ in.qm \in Matrices /\ (best = 1 => Cheap(in.qm)) /\ RoutesGood(old.baseline, in, best)
  BY <1>1, MatrixOfInput DEF OptInv
<1>3. m \in Matrices /\ (best = 1 => Cheap(m))
  BY <1>1, <1>2, DeltasAre DEF Affordable
<1>4. IsInput(new) /\ new.nodes = in.nodes /\ new.qm = m
  BY <1>1, <1>2, <1>3, NewInput
<1>5. PICK D, r : D = dirtyPairs(new, old.baseline, events, in.qm) /\ r = incrementalRecompute(new, Prune(new), D, old)
  OBVIOUS
<1>6. /\ lastInput' = new
      /\ lastResult' = IF TakesIncremental(in, new, old, events) THEN r ELSE Optimize(new)
  BY <1>1, <1>5 DEF Apply, ApplyEdgeEvents
<1>7. CASE TakesIncremental(in, new, old, events)
  <2>1. lastResult' = r
    BY <1>6, <1>7
  <2>2. Prune(in) = Prune(new)
    BY <1>7 DEF TakesIncremental, structureChanged
  <2>3. Moved(in, new, events)
    BY <1>1, <1>2, <1>4, <2>2 DEF Moved
  <2>4. RoutesGood(r.baseline, new, best)
    BY <1>2, <1>5, <2>3, IncrementalRoutes
  <2>5. r = [roles     |-> Roles(new),
             neighbors |-> Neighbors(new, Prune(new)),
             baseline  |-> r.baseline,
             probes    |-> buildProbeSets(new)]
    BY <1>5 DEF incrementalRecompute
  <2> QED
    BY <1>3, <1>4, <1>6, <2>1, <2>4, <2>5 DEF OptInv
<1>8. CASE ~TakesIncremental(in, new, old, events)
  <2>1. lastResult' = Optimize(new)
    BY <1>6, <1>8
  <2> QED
    BY <1>3, <1>4, <1>6, <2>1, OptimizeIs DEF OptInv
<1> QED
  BY <1>7, <1>8

LEMMA OptSteps ==
  ASSUME NEW best, best = 1 => Affordable, OptInv(best), [IncNext]_incVars
  PROVE  OptInv(best)'
<1>1. CASE IncNext
  BY <1>1, OptGoesOn DEF IncNext
<1>2. CASE UNCHANGED incVars
  BY <1>2 DEF incVars, OptInv
<1> QED
  BY <1>1, <1>2

-----------------------------------------------------------------------------
LEMMA NeighboursServe ==
  ASSUME NEW in, IsInput(in), NEW c \in Prune(in)
  PROVE  \E nb \in Neighbors(in, Prune(in))[c[1]] : nb[1] = c[2] /\ c[3] \in nb[2]
<1>1. PICK P, s, d, k : P = Prune(in) /\ s = c[1] /\ d = c[2] /\ k = c[3]
  OBVIOUS
<1>2. c \in P /\ c = <<s, d, k>> /\ Peering(in, s, d, k)
  BY <1>1, PruneIs
<1>3. s \in Transits(in) /\ s \in DOMAIN in.nodes /\ d \in DOMAIN in.nodes /\ k \in Reach(in, d)
  BY <1>2, InputIs DEF Peering
<1>4. k \in TopoIngress
  BY <1>3, InputIs
<1>5. PICK ks, nb : ks = {x \in TopoIngress : <<s, d, x>> \in P} /\ nb = <<d, ks>>
  OBVIOUS
<1>6. k \in ks
  BY <1>2, <1>4, <1>5
<1>7. d \in {e[2] : e \in {x \in P : x[1] = s}}
  BY <1>1, <1>2
<1>8. nb \in TransitNeighbors(P, s)
  BY <1>5, <1>7 DEF TransitNeighbors
<1>9. Neighbors(in, P)[s] = TransitNeighbors(P, s)
  BY <1>3 DEF Neighbors
<1> QED
  BY <1>1, <1>5, <1>6, <1>8, <1>9

\* What a path is once it is compressed: a route that costs what the path costs.
LEMMA RouteCosts ==
  ASSUME IsInput(lastInput), NEW p \in TransitPairs(lastInput), NEW q,
         TrailOf(SplitGraph(lastInput), q, p)
  PROVE  /\ RouteGoes(p, compressPath(q), Prune(lastInput))
         /\ RouteWeight(p, compressPath(q)) = Cost(SplitGraph(lastInput), q)
<1>1. PICK in, g, P : in = lastInput /\ g = SplitGraph(in) /\ P = Prune(in)
  OBVIOUS
<1>2. WGraph(g) /\ SplitOf(g, P, in) /\ IsInput(in) /\ p \in TransitPairs(in)
  BY <1>1, SplitGraphIs DEF SplitOf
<1>3. p[1] # p[2] /\ p[1] \in Nat /\ p[2] \in Nat
  BY <1>2, PairIs
<1>4. Trail(g, q, Core(p[1]), Core(p[2]), {}, {}) /\ q \in Seq(Points)
  BY <1>1 DEF TrailOf, Trail
<1>5. PICK n \in Nat : Legs(q, n, g, P, in)
  BY <1>2, <1>4, Alternates DEF Legs
<1>6. /\ \A j \in 0 .. n : q[2 * j + 1] = Core(Passed(q, n)[j])
      /\ \A j \in 1 .. n : q[2 * j][2] # 0
  <2>1. PassesBy(Passed(q, n), q, n, p, P)
    BY <1>4, <1>5, PassedIs
  <2> QED
    BY <2>1 DEF PassesBy
<1>7. compressPath(q) = Half(q, n)
  <2>1. ASSUME NEW j \in 0 .. n PROVE q[2 * j + 1][2] = 0
    <3>1. q[2 * j + 1] = Core(Passed(q, n)[j])
      BY <1>6
    <3> QED
      BY <3>1 DEF Core
  <2> QED
    BY <1>4, <1>5, <1>6, <2>1, CompressIs DEF Legs
<1>8. RouteGoes(p, Half(q, n), P)
  BY <1>3, <1>4, <1>5, RouteIs
<1>9. RouteWeight(p, Half(q, n)) = Cost(g, q)
  BY <1>1, <1>2, <1>4, <1>5, RouteWeightIs
<1> QED
  BY <1>1, <1>7, <1>8, <1>9

LEMMA SoundRoutes ==
  ASSUME OptInv(0)
  PROVE  RoutesSound
<1>1. PICK in, b, g, P : in = lastInput /\ b = lastResult.baseline /\ g = SplitGraph(in) /\ P = Prune(in)
  OBVIOUS
<1>2. /\ IsInput(in) /\ DOMAIN b \subseteq TransitPairs(in)
      /\ \A p \in TransitPairs(in) : \E K : PairRoutes(g, p, K, 0) /\ Listed(b, p, K)
      /\ lastResult.neighbors = Neighbors(in, P)
  BY <1>1 DEF OptInv, RoutesGood
<1>3. WGraph(g) /\ SplitOf(g, P, in)
  BY <1>1, <1>2, SplitGraphIs DEF SplitOf
<1>4. ASSUME NEW p \in DOMAIN b
      PROVE  /\ <<p[2], p[1]>> \in DOMAIN b
             /\ \A i \in DOMAIN b[p] : Walkable(p, b[p][i])
             /\ \A i, j \in DOMAIN b[p] : i < j => RouteWeight(p, b[p][i]) <= RouteWeight(p, b[p][j])
  <2>1. p \in TransitPairs(in) /\ p[1] # p[2] /\ p[1] \in Nat /\ p[2] \in Nat /\ <<p[2], p[1]>> \in TransitPairs(in)
    BY <1>2, PairIs
  <2>2. PICK K : PairRoutes(g, p, K, 0) /\ Listed(b, p, K)
    BY <1>2, <2>1
  <2>3. /\ K \in Seq(Seq(Points)) /\ K # <<>> /\ b[p] = HopSeqs(K)
        /\ \A i \in 1 .. Len(K) : TrailOf(g, K[i], p)
        /\ \A i, j \in 1 .. Len(K) : i < j => Cost(g, K[i]) <= Cost(g, K[j])
    BY <2>2 DEF PairRoutes, Listed, IsRoutes, Ascending, TrailOf
  <2>4. DOMAIN b[p] = 1 .. Len(K) /\ Len(K) \in Nat /\ \A i \in 1 .. Len(K) : b[p][i] = compressPath(K[i])
    BY <2>3, HopSeqsIs
  <2>5. ASSUME NEW i \in 1 .. Len(K)
        PROVE  RouteGoes(p, b[p][i], P) /\ RouteWeight(p, b[p][i]) = Cost(g, K[i])
    <3>1. TrailOf(g, K[i], p)
      BY <2>3
    <3> QED
      BY <1>1, <1>2, <2>1, <2>4, <3>1, RouteCosts
  <2>6. ASSUME NEW i \in 1 .. Len(K) PROVE Walkable(p, b[p][i])
    <3>1. PICK r : r = b[p][i]
      OBVIOUS
    <3>2. RouteGoes(p, r, P)
      BY <2>5, <3>1
    <3>3. \A c \in Crossed(p, r) : \E nb \in lastResult.neighbors[c[1]] : nb[1] = c[2] /\ c[3] \in nb[2]
      BY <1>1, <1>2, <3>2, NeighboursServe DEF RouteGoes
    <3>4. Walkable(p, r)
      BY <3>2, <3>3 DEF RouteGoes, Walkable
    <3> QED
      BY <3>1, <3>4
  <2>7. <<p[2], p[1]>> \in DOMAIN b
    <3>1. PICK r : r = <<p[2], p[1]>>
      OBVIOUS
    <3>2. r \in TransitPairs(in) /\ r[1] = p[2] /\ r[2] = p[1]
      BY <2>1, <3>1
    <3>3. PICK L : SoundFor(g, r, L)
      BY <1>1, <1>2, <3>2, RoutesFor
    <3>4. PICK q : Trail(g, q, Core(p[1]), Core(p[2]), {}, {})
      <4>1. 1 \in 1 .. Len(K)
        BY <2>3
      <4> QED
        BY <2>3, <4>1 DEF TrailOf
    <3>5. L # <<>>
      <4>1. KShortestSound(g, Core(p[2]), Core(p[1]), L)
        BY <3>2, <3>3 DEF SoundFor
      <4> QED
        BY <1>1, <1>2, <2>1, <3>4, <4>1, WayBack
    <3>6. TrailOf(g, L[1], r)
      <4>1. L \in Seq(Seq(Points)) /\ \A i \in 1 .. Len(L) : TrailOf(g, L[i], r)
        BY <3>3 DEF SoundFor, KShortestSound, IsRoutes, TrailOf
      <4>2. 1 \in 1 .. Len(L)
        BY <3>5, <4>1
      <4> QED
        BY <4>1, <4>2
    <3>7. PICK M : PairRoutes(g, r, M, 0) /\ Listed(b, r, M)
      BY <1>2, <3>2
    <3>8. M # <<>>
      BY <3>6, <3>7 DEF PairRoutes
    <3>9. r \in DOMAIN b
      BY <3>7, <3>8 DEF Listed
    <3> QED
      BY <3>1, <3>9
  <2>8. ASSUME NEW i \in DOMAIN b[p], NEW j \in DOMAIN b[p], i < j
        PROVE  RouteWeight(p, b[p][i]) <= RouteWeight(p, b[p][j])
    BY <2>3, <2>4, <2>5, <2>8
  <2> QED
    BY <2>4, <2>6, <2>7, <2>8
<1> QED
  BY <1>1, <1>4 DEF RoutesSound

-----------------------------------------------------------------------------
(***************************************************************************)
(* When no two paths of a pair cost the same, there is one right answer.   *)
(***************************************************************************)
\* No two paths of a pair cost the same.
Untied(in) ==
    \A p \in TransitPairs(in) : \A q, r :
        /\ TrailOf(SplitGraph(in), q, p) /\ TrailOf(SplitGraph(in), r, p)
        /\ Cost(SplitGraph(in), q) = Cost(SplitGraph(in), r)
        => q = r

\* The first n of one list are among the first b of another; no two of them are the same.
Among(L, n, K, b) == \A m \in 1 .. n : \E x \in 1 .. b : K[x] = L[m]

Distinct(L, n) == \A m, x \in 1 .. n : m < x => L[m] # L[x]

\* The iron law of incremental.go:19-21, field by field.
IncrementalMatchesFull == lastResult = Optimize(lastInput)

LEMMA NoMoreThan ==
  ASSUME NEW K, NEW L, NEW n \in Nat, NEW b \in Nat, Among(L, n, K, b), Distinct(L, n)
  PROVE  n <= b
<1>1. PICK f : f = [m \in 1 .. n |-> CHOOSE x \in 1 .. b : K[x] = L[m]]
  OBVIOUS
<1>2. \A m \in 1 .. n : f[m] \in 1 .. b /\ K[f[m]] = L[m]
  BY <1>1 DEF Among
<1>3. f \in [1 .. n -> 1 .. b]
  BY <1>1, <1>2
<1>4. /\ IsFiniteSet(1 .. n) /\ Cardinality(1 .. n) = n
      /\ IsFiniteSet(1 .. b) /\ Cardinality(1 .. b) = b
  <2>1. \A k \in Nat : IsFiniteSet(1 .. k) /\ Cardinality(1 .. k) = k
    <3> TAKE k \in Nat
    <3>1. IsFiniteSet(1 .. k) /\ Cardinality(1 .. k) = IF 1 > k THEN 0 ELSE k - 1 + 1
      BY FS_Interval
    <3> QED
      BY <3>1
  <2> QED
    BY <2>1
<1>5. SUFFICES ASSUME b < n PROVE FALSE
  OBVIOUS
<1>6. PICK m, x \in 1 .. n : m # x /\ f[m] = f[x]
  <2>1. PICK S, T : S = 1 .. n /\ T = 1 .. b
    OBVIOUS
  <2>2. IsFiniteSet(S) /\ IsFiniteSet(T) /\ Cardinality(T) < Cardinality(S) /\ f \in [S -> T]
    BY <1>3, <1>4, <1>5, <2>1
  <2>3. \E m, x \in S : m # x /\ f[m] = f[x]
    BY <2>2, FS_PigeonHole, Zenon
  <2> QED
    BY <2>1, <2>3
<1>7. L[m] = L[x]
  BY <1>2, <1>6
<1>8. m < x \/ x < m
  BY <1>6
<1> QED
  BY <1>7, <1>8 DEF Distinct

\* Two answers are as long as each other and cost the same, place by place.
LEMMA NoMoreRoutes ==
  ASSUME NEW g, NEW p, NEW K, SoundFor(g, p, K), NEW L, SoundFor(g, p, L)
  PROVE  Len(L) <= Len(K)
<1>1. /\ K \in Seq(Seq(Points)) /\ L \in Seq(Seq(Points)) /\ Len(L) <= RouteK
      /\ \A j \in 1 .. Len(L) : TrailOf(g, L[j], p)
      /\ \A i, j \in 1 .. Len(L) : i < j => L[i] # L[j]
      /\ \A q : TrailOf(g, q, p) /\ q \notin Range(K) => Len(K) = RouteK
  BY DEF SoundFor, KShortestSound, IsRoutes, Ascending, TrailOf
<1>2. PICK n, b : n = Len(L) /\ b = Len(K)
  OBVIOUS
<1>3. n \in Nat /\ b \in Nat /\ DOMAIN K = 1 .. b
  BY <1>1, <1>2
<1>4. CASE \A j \in 1 .. n : L[j] \in Range(K)
  <2>1. Among(L, n, K, b)
    BY <1>3, <1>4 DEF Range, Among
  <2>2. Distinct(L, n)
    BY <1>1, <1>2 DEF Distinct
  <2> QED
    BY <1>2, <1>3, <2>1, <2>2, NoMoreThan
<1>5. CASE \E j \in 1 .. n : L[j] \notin Range(K)
  BY <1>1, <1>2, <1>5
<1> QED
  BY <1>4, <1>5

LEMMA NoDearer ==
  ASSUME NEW g, WGraph(g), NEW p, NEW K, SoundFor(g, p, K), NEW L, SoundFor(g, p, L),
         NEW i \in 1 .. Len(K), i \in 1 .. Len(L)
  PROVE  Cost(g, K[i]) <= Cost(g, L[i])
<1>1. /\ K \in Seq(Seq(Points)) /\ L \in Seq(Seq(Points))
      /\ (\A j \in 1 .. Len(K) : TrailOf(g, K[j], p)) /\ (\A j \in 1 .. Len(L) : TrailOf(g, L[j], p))
      /\ \A a, b \in 1 .. Len(K) : a < b => Cost(g, K[a]) <= Cost(g, K[b])
      /\ \A a, b \in 1 .. Len(L) : a < b => Cost(g, L[a]) <= Cost(g, L[b]) /\ L[a] # L[b]
      /\ \A q : TrailOf(g, q, p) /\ q \notin Range(K) => \A j \in 1 .. Len(K) : Cost(g, K[j]) <= Cost(g, q)
  BY DEF SoundFor, KShortestSound, IsRoutes, Ascending, TrailOf
<1>2. Len(K) \in Nat /\ Len(L) \in Nat /\ DOMAIN K = 1 .. Len(K)
  BY <1>1
<1>3. /\ \A j \in 1 .. Len(K) : Cost(g, K[j]) \in Nat
      /\ \A j \in 1 .. Len(L) : Cost(g, L[j]) \in Nat
  <2>1. /\ \A j \in 1 .. Len(K) : Walk(g, K[j])
        /\ \A j \in 1 .. Len(L) : Walk(g, L[j])
    BY <1>1, TrailIsWalk DEF TrailOf
  <2> QED
    BY <2>1, PrefixWeightIs
<1>4. SUFFICES ASSUME Cost(g, L[i]) < Cost(g, K[i]) PROVE FALSE
  BY <1>3
<1>5. ASSUME NEW m \in 1 .. i PROVE \E x \in 1 .. i - 1 : K[x] = L[m]
  <2>1. m \in 1 .. Len(L) /\ m <= i
    BY <1>2
  <2>2. Cost(g, L[m]) <= Cost(g, L[i])
    <3>1. CASE m = i
      BY <1>3, <2>1, <3>1
    <3>2. CASE m < i
      BY <1>1, <2>1, <3>2
    <3> QED
      BY <2>1, <3>1, <3>2
  <2>3. Cost(g, L[m]) \in Nat /\ Cost(g, L[i]) \in Nat /\ Cost(g, K[i]) \in Nat
    BY <1>3, <2>1
  <2>4. ~(Cost(g, K[i]) <= Cost(g, L[m]))
    BY <1>4, <2>2, <2>3
  <2>5. L[m] \in Range(K)
    BY <1>1, <2>1, <2>4
  <2>6. PICK x \in 1 .. Len(K) : K[x] = L[m]
    BY <1>2, <2>5 DEF Range
  <2>7. x # i
    BY <2>3, <2>4, <2>6
  <2>8. ~(i < x)
    BY <1>1, <2>4, <2>6
  <2>9. x \in 1 .. i - 1
    BY <1>2, <2>7, <2>8
  <2> QED
    BY <2>6, <2>9
<1>6. Distinct(L, i)
  <2>1. \A m \in 1 .. i : m \in 1 .. Len(L)
    BY <1>2
  <2> QED
    BY <1>1, <2>1 DEF Distinct
<1>7. i \in Nat /\ i - 1 \in Nat
  BY <1>2
<1>8. PICK b : b = i - 1
  OBVIOUS
<1>9. i <= b
  <2>1. Among(L, i, K, b)
    BY <1>5, <1>8 DEF Among
  <2> QED
    BY <2>1, <1>6, <1>7, <1>8, NoMoreThan
<1> QED
  BY <1>7, <1>8, <1>9

LEMMA AsGood ==
  ASSUME NEW g, WGraph(g), NEW p, NEW K, SoundFor(g, p, K), NEW L, SoundFor(g, p, L)
  PROVE  Len(K) = Len(L) /\ \A i \in 1 .. Len(K) : Cost(g, K[i]) = Cost(g, L[i])
<1>1. /\ K \in Seq(Seq(Points)) /\ L \in Seq(Seq(Points))
      /\ (\A j \in 1 .. Len(K) : TrailOf(g, K[j], p)) /\ (\A j \in 1 .. Len(L) : TrailOf(g, L[j], p))
  BY DEF SoundFor, KShortestSound, IsRoutes, TrailOf
<1>2. Len(K) = Len(L)
  <2>1. Len(K) \in Nat /\ Len(L) \in Nat
    BY <1>1
  <2>2. Len(L) <= Len(K) /\ Len(K) <= Len(L)
    BY NoMoreRoutes
  <2> QED
    BY <2>1, <2>2
<1>3. ASSUME NEW i \in 1 .. Len(K) PROVE Cost(g, K[i]) = Cost(g, L[i])
  <2>1. i \in 1 .. Len(L)
    BY <1>2
  <2>2. Cost(g, K[i]) <= Cost(g, L[i]) /\ Cost(g, L[i]) <= Cost(g, K[i])
    BY <2>1, NoDearer
  <2>3. Walk(g, K[i]) /\ Walk(g, L[i])
    BY <1>1, <2>1, TrailIsWalk DEF TrailOf
  <2>4. Cost(g, K[i]) \in Nat /\ Cost(g, L[i]) \in Nat
    BY <2>3, PrefixWeightIs
  <2> QED
    BY <2>2, <2>4
<1> QED
  BY <1>2, <1>3

LEMMA OneAnswer ==
  ASSUME NEW in, IsInput(in), Untied(in), NEW p \in TransitPairs(in),
         NEW K, SoundFor(SplitGraph(in), p, K), NEW L, SoundFor(SplitGraph(in), p, L)
  PROVE  K = L
<1>1. PICK g : g = SplitGraph(in)
  OBVIOUS
<1>2. WGraph(g)
  BY <1>1, SplitGraphIs DEF SplitOf
<1>3. Len(K) = Len(L) /\ \A i \in 1 .. Len(K) : Cost(g, K[i]) = Cost(g, L[i])
  BY <1>1, <1>2, AsGood
<1>4. /\ K \in Seq(Seq(Points)) /\ L \in Seq(Seq(Points))
      /\ (\A j \in 1 .. Len(K) : TrailOf(g, K[j], p)) /\ (\A j \in 1 .. Len(L) : TrailOf(g, L[j], p))
  BY <1>1 DEF SoundFor, KShortestSound, IsRoutes, TrailOf
<1>5. \A i \in 1 .. Len(K) : K[i] = L[i]
  BY <1>1, <1>3, <1>4 DEF Untied
<1> QED
  BY <1>3, <1>4, <1>5, SeqEqual

LEMMA OneResult ==
  ASSUME NEW in, IsInput(in), Untied(in), NEW b, RoutesGood(b, in, 1), NEW c, RoutesGood(c, in, 1)
  PROVE  b = c
<1>1. PICK g, T : g = SplitGraph(in) /\ T = TransitPairs(in)
  OBVIOUS
<1>2. /\ DOMAIN b \subseteq T /\ b = [p \in DOMAIN b |-> b[p]]
      /\ \A p \in T : \E K : PairRoutes(g, p, K, 1) /\ Listed(b, p, K)
  BY <1>1 DEF RoutesGood
<1>3. /\ DOMAIN c \subseteq T /\ c = [p \in DOMAIN c |-> c[p]]
      /\ \A p \in T : \E K : PairRoutes(g, p, K, 1) /\ Listed(c, p, K)
  BY <1>1 DEF RoutesGood
<1>4. ASSUME NEW p \in T
      PROVE  (p \in DOMAIN b <=> p \in DOMAIN c) /\ (p \in DOMAIN b => b[p] = c[p])
  <2>1. PICK K : PairRoutes(g, p, K, 1) /\ Listed(b, p, K)
    BY <1>2
  <2>2. PICK L : PairRoutes(g, p, L, 1) /\ Listed(c, p, L)
    BY <1>3
  <2>3. SoundFor(g, p, K) /\ SoundFor(g, p, L)
    BY <2>1, <2>2 DEF PairRoutes
  <2>4. K = L
    BY <1>1, <2>3, OneAnswer
  <2> QED
    BY <2>1, <2>2, <2>4 DEF Listed
<1>5. DOMAIN b = DOMAIN c
  BY <1>2, <1>3, <1>4
<1>6. \A p \in DOMAIN b : b[p] = c[p]
  BY <1>2, <1>4
<1> QED
  BY <1>2, <1>3, <1>5, <1>6

LEMMA Matches ==
  ASSUME OptInv(1), Untied(lastInput)
  PROVE  IncrementalMatchesFull
<1>1. PICK in, b, c : in = lastInput /\ b = lastResult.baseline /\ c = Optimize(in).baseline
  OBVIOUS
<1>2. IsInput(in) /\ RoutesGood(b, in, 1)
  BY <1>1 DEF OptInv
<1>3. RoutesGood(c, in, 1)
  BY <1>1, <1>2, OptimizeIs
<1>4. b = c
  BY <1>1, <1>2, <1>3, OneResult
<1>5. lastResult = [roles |-> Roles(in), neighbors |-> Neighbors(in, Prune(in)), baseline |-> b,
                    probes |-> buildProbeSets(in)]
  BY <1>1 DEF OptInv
<1>6. Optimize(in) = [roles |-> Roles(in), neighbors |-> Neighbors(in, Prune(in)), baseline |-> c,
                      probes |-> buildProbeSets(in)]
  BY <1>1, <1>2, OptimizeIs
<1> QED
  BY <1>1, <1>4, <1>5, <1>6 DEF IncrementalMatchesFull

LEMMA CostsMatch ==
  ASSUME OptInv(1)
  PROVE  SameButTies
<1>1. PICK in, g, b, full, c : /\ in = lastInput /\ g = SplitGraph(in) /\ b = lastResult.baseline
                               /\ full = Optimize(in) /\ c = full.baseline
  OBVIOUS
<1>2. /\ IsInput(in) /\ DOMAIN b \subseteq TransitPairs(in)
      /\ \A p \in TransitPairs(in) : \E K : PairRoutes(g, p, K, 1) /\ Listed(b, p, K)
  BY <1>1 DEF OptInv, RoutesGood
<1>3. /\ DOMAIN c \subseteq TransitPairs(in)
      /\ \A p \in TransitPairs(in) : \E K : PairRoutes(g, p, K, 1) /\ Listed(c, p, K)
  <2>1. RoutesGood(c, in, 1)
    BY <1>1, <1>2, OptimizeIs
  <2> QED
    BY <1>1, <2>1 DEF RoutesGood
<1>4. WGraph(g)
  BY <1>1, <1>2, SplitGraphIs DEF SplitOf
<1>5. ASSUME NEW p \in TransitPairs(in)
      PROVE  /\ p \in DOMAIN b <=> p \in DOMAIN c
             /\ p \in DOMAIN c => /\ DOMAIN b[p] = DOMAIN c[p]
                                  /\ \A i \in DOMAIN c[p] : RouteWeight(p, b[p][i]) = RouteWeight(p, c[p][i])
  <2>1. PICK K : PairRoutes(g, p, K, 1) /\ Listed(b, p, K)
    BY <1>2
  <2>2. PICK L : PairRoutes(g, p, L, 1) /\ Listed(c, p, L)
    BY <1>3
  <2>3. SoundFor(g, p, K) /\ SoundFor(g, p, L)
    BY <2>1, <2>2 DEF PairRoutes
  <2>4. Len(K) = Len(L) /\ \A i \in 1 .. Len(K) : Cost(g, K[i]) = Cost(g, L[i])
    BY <1>4, <2>3, AsGood
  <2>5. /\ K \in Seq(Seq(Points)) /\ L \in Seq(Seq(Points))
        /\ (\A j \in 1 .. Len(K) : TrailOf(g, K[j], p)) /\ (\A j \in 1 .. Len(L) : TrailOf(g, L[j], p))
    BY <2>3 DEF SoundFor, KShortestSound, IsRoutes, TrailOf
  <2>6. K = <<>> <=> L = <<>>
    BY <2>4, <2>5
  <2>7. p \in DOMAIN b <=> p \in DOMAIN c
    BY <2>1, <2>2, <2>6 DEF Listed
  <2>8. ASSUME p \in DOMAIN c
        PROVE  /\ DOMAIN b[p] = DOMAIN c[p]
               /\ \A i \in DOMAIN c[p] : RouteWeight(p, b[p][i]) = RouteWeight(p, c[p][i])
    <3>1. b[p] = HopSeqs(K) /\ c[p] = HopSeqs(L)
      BY <2>1, <2>2, <2>6, <2>8 DEF Listed
    <3>2. /\ DOMAIN b[p] = 1 .. Len(K) /\ \A i \in 1 .. Len(K) : b[p][i] = compressPath(K[i])
      BY <2>5, <3>1, HopSeqsIs
    <3>3. /\ DOMAIN c[p] = 1 .. Len(L) /\ \A i \in 1 .. Len(L) : c[p][i] = compressPath(L[i])
      BY <2>5, <3>1, HopSeqsIs
    <3>4. ASSUME NEW i \in 1 .. Len(K) PROVE RouteWeight(p, b[p][i]) = RouteWeight(p, c[p][i])
      <4>1. PICK q, r : q = K[i] /\ r = L[i]
        OBVIOUS
      <4>2. TrailOf(g, q, p) /\ TrailOf(g, r, p) /\ Cost(g, q) = Cost(g, r)
        BY <2>4, <2>5, <4>1
      <4>3. RouteWeight(p, compressPath(q)) = Cost(g, q) /\ RouteWeight(p, compressPath(r)) = Cost(g, r)
        BY <1>1, <1>2, <4>2, RouteCosts
      <4>4. b[p][i] = compressPath(q) /\ c[p][i] = compressPath(r)
        BY <2>4, <3>2, <3>3, <4>1
      <4> QED
        BY <4>2, <4>3, <4>4
    <3> QED
      BY <2>4, <3>2, <3>3, <3>4
  <2> QED
    BY <2>7, <2>8
<1>6. DOMAIN b = DOMAIN c
  BY <1>2, <1>3, <1>5
<1>7. \A p \in DOMAIN c : /\ DOMAIN b[p] = DOMAIN c[p]
                          /\ \A i \in DOMAIN c[p] : RouteWeight(p, b[p][i]) = RouteWeight(p, c[p][i])
  BY <1>3, <1>5
<1>8. lastResult = [full EXCEPT !.baseline = b]
  <2>1. lastResult = [roles |-> Roles(in), neighbors |-> Neighbors(in, Prune(in)), baseline |-> b,
                      probes |-> buildProbeSets(in)]
    BY <1>1 DEF OptInv
  <2>2. full = [roles |-> Roles(in), neighbors |-> Neighbors(in, Prune(in)), baseline |-> c,
                probes |-> buildProbeSets(in)]
    BY <1>1, <1>2, OptimizeIs
  <2> QED
    BY <2>1, <2>2
<1> QED
  BY <1>1, <1>6, <1>7, <1>8 DEF SameButTies

\* For any graph, any batches of edge events, any weights and any bounds: the routes the
\* optimizer holds, computed anew or kept from the cache, start and end where they should,
\* visit no node twice, go from every hop to a neighbour that hop was given, exist for both
\* directions or for none, and are in the order of what they cost at the present weights
\* (ApplyEdgeEvents, recomputeDirtyPairs).
THEOREM AnyRoutesAreSound == IncSpec => []RoutesSound
<1>1. IncInit => OptInv(0)
  BY OptStarts
<1>2. OptInv(0) /\ [IncNext]_incVars => OptInv(0)'
  BY OptSteps
<1>3. OptInv(0) => RoutesSound
  BY SoundRoutes
<1> QED
  BY <1>1, <1>2, <1>3, PTL DEF IncSpec

\* The routes held for a pair are k shortest paths of the present graph: no path that is not
\* among them is cheaper than one of them, and there are RouteK of them if there can be.
RoutesBest ==
    \A p \in TransitPairs(lastInput) :
        \E K : /\ SoundFor(SplitGraph(lastInput), p, K)
               /\ Listed(lastResult.baseline, p, K)

\* So they are after every batch, although only the pairs an event made dirty are computed
\* anew: a route kept from the cache is never dearer than one it could be replaced with.
THEOREM KeptRoutesStayBest ==
  ASSUME Affordable
  PROVE  IncSpec => []RoutesBest
<1>1. IncInit => OptInv(1)
  BY OptStarts
<1>2. OptInv(1) /\ [IncNext]_incVars => OptInv(1)'
  BY OptSteps
<1>3. OptInv(1) => RoutesBest
  BY DEF OptInv, RoutesGood, PairRoutes, RoutesBest
<1> QED
  BY <1>1, <1>2, <1>3, PTL DEF IncSpec

\* The incremental result is that of Optimize but for the choice among routes of one cost.
THEOREM IncrementalIsFullUpToTies ==
  ASSUME Affordable
  PROVE  IncSpec => []SameButTies
<1>1. IncInit => OptInv(1)
  BY OptStarts
<1>2. OptInv(1) /\ [IncNext]_incVars => OptInv(1)'
  BY OptSteps
<1>3. OptInv(1) => SameButTies
  BY CostsMatch
<1> QED
  BY <1>1, <1>2, <1>3, PTL DEF IncSpec

\* Where there is no such choice it is that of Optimize, field by field: the iron law of
\* incremental.go:15-21.
THEOREM IncrementalIsFull ==
  ASSUME Affordable
  PROVE  IncSpec => [](Untied(lastInput) => IncrementalMatchesFull)
<1>1. IncInit => OptInv(1)
  BY OptStarts
<1>2. OptInv(1) /\ [IncNext]_incVars => OptInv(1)'
  BY OptSteps
<1>3. OptInv(1) => (Untied(lastInput) => IncrementalMatchesFull)
  BY Matches
<1> QED
  BY <1>1, <1>2, <1>3, PTL DEF IncSpec

-----------------------------------------------------------------------------
(***************************************************************************)
(* The composite of MCTopology.                                            *)
(***************************************************************************)
PartsInv == (part = "incremental" => OptInv(1)) /\ (part = "fib" => FibInv)

LEMMA PartsStart ==
  ASSUME Affordable, TopologyInit
  PROVE  PartsInv
<1>1. part = "incremental" => OptInv(1)
  BY OptStarts DEF TopologyInit
<1>2. part = "fib" => FibInv
  BY BaseRoutesAreRoutes, FibInvInit DEF TopologyInit
<1> QED
  BY <1>1, <1>2 DEF PartsInv

LEMMA PartsStep ==
  ASSUME Affordable, PartsInv, [TopologyNext]_topologyVars
  PROVE  PartsInv'
<1>1. part' = part
  BY DEF TopologyNext, topologyVars
<1>2. ASSUME part = "incremental" PROVE OptInv(1)'
  <2>1. [IncNext]_incVars
    BY <1>2 DEF TopologyNext, topologyVars
  <2> QED
    BY <1>2, <2>1, OptSteps DEF PartsInv
<1>3. ASSUME part = "fib" PROVE FibInv'
  <2>1. [FibNext]_fibVars
    BY <1>3 DEF TopologyNext, topologyVars
  <2> QED
    BY <1>3, <2>1, FibInvStep DEF PartsInv
<1> QED
  BY <1>1, <1>2, <1>3 DEF PartsInv

\* What the run checks, for any graph, any batches and any bounds: where no DOWN makes an
\* edge cheaper (ApplyEdgeEvents deletes its weight, and the default takes its place), the
\* result of ApplyEdgeEvents is that of Optimize but for the choice among routes that cost
\* the same, its routes are sound and the forwarding tables too.
THEOREM ResultsAreSound ==
  ASSUME Affordable
  PROVE  TopologySpec => []ResultsSound
<1>1. TopologyInit => PartsInv
  BY PartsStart
<1>2. PartsInv /\ [TopologyNext]_topologyVars => PartsInv'
  BY PartsStep
<1>3. PartsInv => ResultsSound
  <2> SUFFICES ASSUME PartsInv PROVE ResultsSound
    OBVIOUS
  <2>1. ASSUME part = "incremental" PROVE RoutesSound /\ SameButTies
    <3>1. OptInv(1)
      BY <2>1 DEF PartsInv
    <3>2. OptInv(0)
      BY <3>1 DEF OptInv, RoutesGood, PairRoutes
    <3> QED
      BY <3>1, <3>2, SoundRoutes, CostsMatch
  <2>2. ASSUME part = "fib" PROVE FibSound
    BY <2>2, FibInvShows DEF PartsInv
  <2> QED
    BY <2>1, <2>2 DEF ResultsSound
<1> QED
  BY <1>1, <1>2, <1>3, PTL DEF TopologySpec
=============================================================================
