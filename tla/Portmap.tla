------------------------------- MODULE Portmap -------------------------------
(***************************************************************************)
(* The port mappings a node asks its gateway for:                          *)
(*   internal/nodecore/portmap    DefaultMapper, Lifecycle and the three   *)
(*                                protocols                                *)
(*   internal/nodecore/ingress/upnp.go   PortmapDiscover                   *)
(*   cmd/corelink-node/main.go    runNode, discoverAndReportIngress        *)
(* Two callers ask for the same internal port: "report", whose mapping is  *)
(* told to the controller, and "manage", whose mapping the lifecycle       *)
(* renews. Each asks every protocol at once, keeps the first mapping that  *)
(* is granted and removes the others. The gateway keeps one mapping for    *)
(* the port under NAT-PMP and PCP, and one for each external port under    *)
(* UPnP. Only the TCP port is modelled.                                    *)
(***************************************************************************)
EXTENDS Naturals, FiniteSets

CONSTANTS
  Protos,      \* the protocols tried: subset of {"natpmp", "pcp", "upnp"}
  Ports,       \* external ports the gateway grants, numbers above 0
  MaxMapFaults    \* bound: requests that fail

Callers == {"report", "manage"}
Mappings == [proto : Protos, ext : Ports]
NoMapping == [proto |-> "none", ext |-> 0]

ASSUME PortmapAssumption ==
  Protos \subseteq {"natpmp", "pcp", "upnp"} /\ Ports \subseteq Nat \ {0} /\ MaxMapFaults \in Nat

VARIABLES
  gw,          \* the mappings the gateway holds (external)
  race,        \* mapRace, for each caller
  unmapping,   \* mappings whose removal has been started
  told,        \* the mapping in the last ingress report, or none
  entry,       \* the entry of the lifecycle
  mapTick,     \* what the goroutine that calls Tick is doing
  gate,        \* reportGate would allow a report
  closed,      \* Lifecycle.closed
  faults,      \* failures so far
  left         \* history: mappings whose owner gave them up without removing

nodeVars == <<race, unmapping, told, entry, mapTick, gate, closed>>
pmVars == <<gw, nodeVars, faults, left>>

NoRace == [pc |-> "idle", round |-> 0, asking |-> {}, won |-> NoMapping]

PmTypeOK ==
  /\ gw \subseteq Mappings /\ unmapping \subseteq Mappings /\ left \subseteq Mappings
  /\ race \in [Callers -> [pc : {"idle", "racing"}, round : 0..2, asking : SUBSET Protos,
                           won : Mappings \cup {NoMapping}]]
  /\ told \in Mappings \cup {NoMapping}
  /\ entry \in [st : {"none", "held", "lost"}, m : Mappings \cup {NoMapping}]
  /\ mapTick \in {"idle", "refreshing", "reporting", "rebuilding"}
  /\ gate \in BOOLEAN /\ closed \in BOOLEAN
  /\ faults \in 0..MaxMapFaults

(* runNode starts the discovery and the first Map, each in a goroutine.    *)
Racing(round) == [pc |-> "racing", round |-> round, asking |-> Protos, won |-> NoMapping]

PmInit ==
  /\ gw = {} /\ unmapping = {} /\ told = NoMapping
  /\ race = [c \in Callers |-> Racing(1)]
  /\ entry = [st |-> "none", m |-> NoMapping]
  /\ mapTick = "idle" /\ gate = TRUE /\ closed = FALSE
  /\ faults = 0 /\ left = {}

-----------------------------------------------------------------------------
(* The protocols                                                           *)

(* What a Map request may be granted: the mapping that is there, under     *)
(* NAT-PMP and PCP; otherwise any external port (IGD tries up to four).    *)
Grantable(p) ==
  LET present == {m \in gw : m.proto = p}
  IN IF p = "upnp" \/ present = {} THEN [proto : {p}, ext : Ports] ELSE present

Fault == faults < MaxMapFaults /\ faults' = faults + 1

(* A mapping that was granted to a request whose answer was lost, or whose *)
(* query of the external address failed, is not rolled back; PCP answers   *)
(* with the address, so only the loss of the answer concerns it.           *)
GrantedInVain(p) == \E m \in Grantable(p) : gw' = gw \cup {m} /\ left' = left \cup {m}

-----------------------------------------------------------------------------
(* The success of a second protocol is dropped.                            *)
WinnerOnly(c, m) ==
  /\ race' = [race EXCEPT ![c].won = IF @ = NoMapping THEN m ELSE @, ![c].asking = @ \ {m.proto}]
  /\ UNCHANGED unmapping

(* mapRace: the first success wins, a later one is unmapped.               *)
Winner(c, m) ==
  IF race[c].won = NoMapping
  THEN race' = [race EXCEPT ![c].won = m, ![c].asking = @ \ {m.proto}] /\ UNCHANGED unmapping
  ELSE /\ race' = [race EXCEPT ![c].asking = @ \ {m.proto}]
       /\ unmapping' = unmapping \cup {m}

ProtocolSucceeds(c, p) ==
  /\ p \in race[c].asking
  /\ \E m \in Grantable(p) : gw' = gw \cup {m} /\ Winner(c, m)
  /\ UNCHANGED <<told, entry, mapTick, gate, closed, faults, left>>

ProtocolFails(c, p) ==
  /\ p \in race[c].asking
  /\ Fault
  /\ race' = [race EXCEPT ![c].asking = @ \ {p}]
  /\ GrantedInVain(p) \/ UNCHANGED <<gw, left>>
  /\ UNCHANGED <<unmapping, told, entry, mapTick, gate, closed>>

(* Cancelled by the success of another protocol, before its request or     *)
(* after it: what was granted by then nobody removes.                      *)
ProtocolCancelled(c, p) ==
  /\ p \in race[c].asking /\ race[c].won # NoMapping
  /\ race' = [race EXCEPT ![c].asking = @ \ {p}]
  /\ GrantedInVain(p) \/ UNCHANGED <<gw, left>>
  /\ UNCHANGED <<unmapping, told, entry, mapTick, gate, closed, faults>>

(* NAT-PMP and PCP delete by the internal port, UPnP by the external one.  *)
Removed(m) == gw \ {g \in gw : g.proto = m.proto /\ (m.proto # "upnp" \/ g = m)}

(* The goroutine that removes a loser: best effort, two seconds.           *)
UnmapLoser(m) ==
  /\ m \in unmapping
  /\ unmapping' = unmapping \ {m}
  /\ \/ gw' = Removed(m) /\ UNCHANGED <<faults, left>>
     \/ Fault /\ left' = left \cup {m} /\ UNCHANGED gw
  /\ UNCHANGED <<race, told, entry, mapTick, gate, closed>>

(* Map: a second round when every protocol of the first has failed.        *)
SecondRound(c) ==
  /\ race[c].pc = "racing" /\ race[c].asking = {}
  /\ race[c].won = NoMapping /\ race[c].round = 1
  /\ race' = [race EXCEPT ![c] = Racing(2)]
  /\ UNCHANGED <<gw, unmapping, told, entry, mapTick, gate, closed, faults, left>>

Mapped(c) ==
  /\ race[c].pc = "racing" /\ race[c].asking = {}
  /\ race[c].won # NoMapping \/ race[c].round = 2

-----------------------------------------------------------------------------
(* discoverAndReportIngress: the mapping is one source of the report. The  *)
(* mapping told before is left to its lease.                               *)
Superseded(m) == left' = left \cup ({m} \ {NoMapping, race["report"].won})

ReportIngress ==
  /\ Mapped("report")
  /\ race' = [race EXCEPT !["report"] = NoRace]
  /\ mapTick' = IF mapTick = "reporting" THEN "idle" ELSE mapTick
  /\ entry' = IF mapTick = "reporting" /\ ~closed THEN [entry EXCEPT !.st = "lost"] ELSE entry
  /\ \/ told' = race["report"].won /\ Superseded(told) /\ UNCHANGED faults
     \/ Fault /\ left' = left \cup ({race["report"].won} \ {NoMapping}) /\ UNCHANGED told
  /\ UNCHANGED <<gw, unmapping, gate, closed>>

(* The first mapping of the lifecycle. When Map fails nothing is managed,  *)
(* and nobody tries again.                                                 *)
Manage ==
  /\ Mapped("manage") /\ mapTick # "rebuilding"
  /\ race' = [race EXCEPT !["manage"] = NoRace]
  /\ LET m == race["manage"].won IN
     IF closed \/ m = NoMapping
     THEN left' = left \cup ({m} \ {NoMapping}) /\ UNCHANGED entry
     ELSE entry' = [st |-> "held", m |-> m] /\ UNCHANGED left
  /\ UNCHANGED <<gw, unmapping, told, mapTick, gate, closed, faults>>

-----------------------------------------------------------------------------
(* Lifecycle.Tick, every five seconds                                      *)
StartRefresh ==
  /\ mapTick = "idle" /\ ~closed /\ entry.st = "held"
  /\ mapTick' = "refreshing"
  /\ UNCHANGED <<gw, race, unmapping, told, entry, gate, closed, faults, left>>

(* Refresh repeats the Map request for the same external port.             *)
RefreshSucceeds ==
  /\ mapTick = "refreshing"
  /\ gw' = {m \in gw : m.proto = "upnp" \/ m.proto # entry.m.proto} \cup {entry.m}
  /\ mapTick' = "idle"
  /\ UNCHANGED <<race, unmapping, told, entry, gate, closed, faults, left>>

(* OnMappingLost runs in the goroutine of Tick. A report is made unless    *)
(* one was made within thirty seconds.                                     *)
RefreshFails ==
  /\ mapTick = "refreshing" /\ race["report"].pc = "idle"
  /\ Fault
  /\ left' = left \cup {entry.m}
  /\ IF gate
     THEN /\ race' = [race EXCEPT !["report"] = Racing(1)]
          /\ mapTick' = "reporting" /\ gate' = FALSE /\ UNCHANGED entry
     ELSE /\ entry' = IF closed THEN entry ELSE [entry EXCEPT !.st = "lost"]
          /\ mapTick' = "idle" /\ UNCHANGED <<race, gate>>
  /\ UNCHANGED <<gw, unmapping, told, closed>>

GateReopens ==
  /\ ~gate /\ gate' = TRUE
  /\ UNCHANGED <<gw, race, unmapping, told, entry, mapTick, closed, faults, left>>

StartRebuild ==
  /\ mapTick = "idle" /\ ~closed /\ entry.st = "lost" /\ race["manage"].pc = "idle"
  /\ race' = [race EXCEPT !["manage"] = Racing(1)]
  /\ mapTick' = "rebuilding"
  /\ UNCHANGED <<gw, unmapping, told, entry, gate, closed, faults, left>>

(* The lost mapping is kept, with its backoff.                             *)
RebuiltAside(m) == [entry EXCEPT !.m = m]

(* A rebuilt mapping replaces the lost one; it is not reported.            *)
Rebuilt(m) == [st |-> "held", m |-> m]

FinishRebuild ==
  /\ Mapped("manage") /\ mapTick = "rebuilding"
  /\ race' = [race EXCEPT !["manage"] = NoRace]
  /\ mapTick' = "idle"
  /\ LET m == race["manage"].won IN
     IF closed \/ m = NoMapping
     THEN left' = left \cup ({m} \ {NoMapping}) /\ UNCHANGED entry
     ELSE entry' = Rebuilt(m) /\ UNCHANGED left
  /\ UNCHANGED <<gw, unmapping, told, gate, closed, faults>>

(* Lifecycle.Close, when runNode returns: the entry is taken out, then its *)
(* mapping is removed. What a Tick in progress gets afterwards is left.    *)
CloseLifecycle ==
  /\ ~closed
  /\ closed' = TRUE
  /\ entry' = [entry EXCEPT !.st = "none"]
  /\ unmapping' = unmapping \cup ({entry.m} \ {NoMapping})
  /\ left' = left \cup ({entry.m} \ {NoMapping})
  /\ UNCHANGED <<gw, race, told, mapTick, gate, faults>>

(* The gateway restarts, or a lease that nobody renews ends.               *)
GatewayForgets(m) ==
  /\ m \in gw
  /\ Fault
  /\ gw' = gw \ {m}
  /\ UNCHANGED <<nodeVars, left>>

-----------------------------------------------------------------------------
RaceStep ==
  \/ \E c \in Callers : SecondRound(c) \/ \E p \in Protos : ProtocolSucceeds(c, p)
  \/ \E m \in Mappings : UnmapLoser(m)
  \/ ReportIngress \/ Manage
MapTickStep == RefreshSucceeds \/ StartRebuild \/ FinishRebuild

PmNext ==
  \/ RaceStep \/ MapTickStep
  \/ \E c \in Callers, p \in Protos : ProtocolFails(c, p) \/ ProtocolCancelled(c, p)
  \/ StartRefresh \/ RefreshFails \/ GateReopens \/ CloseLifecycle
  \/ \E m \in Mappings : GatewayForgets(m)

PmSpec == PmInit /\ [][PmNext]_pmVars
PmFairness == WF_pmVars(RaceStep) /\ WF_pmVars(MapTickStep)
PmFairSpec == PmSpec /\ PmFairness

-----------------------------------------------------------------------------
(* What the gateway holds has an owner: it was won in a race, is told to   *)
(* the controller, is managed, or is being removed. A mapping that a race  *)
(* did not choose is never simply forgotten (portmap.go:277-297).          *)
LosersRemoved ==
  gw \subseteq {race[c].won : c \in Callers} \cup {told, entry.m} \cup unmapping \cup left

(* A mapping does not stay lost: it is mapped again, or the node stops     *)
(* (portmap.go, Lifecycle.Tick).                                           *)
LostIsRebuilt == ~<>[](entry.st = "lost" /\ ~closed)
=============================================================================
