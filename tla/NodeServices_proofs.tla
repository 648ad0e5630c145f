------------------------ MODULE NodeServices_proofs ------------------------
(***************************************************************************)
(* The background services of a node, for any links, nodes, relays, ports  *)
(* and bounds: the types of their state, that the controller and the       *)
(* gateway agree with the node about it, and that a leaf leaves its relay  *)
(* only for a reason. First an invariant for each service, then all of     *)
(* them, which share no state.                                             *)
(***************************************************************************)
EXTENDS MCNodeServices, SequenceTheorems, FiniteSetTheorems, WellFoundedInduction, TLAPS

-----------------------------------------------------------------------------
(* Port mappings.                                                          *)

\* Who may own a mapping, and when the entry of the lifecycle is one that counts: a race
\* for the lifecycle is under way only while a lost mapping is rebuilt or before there
\* was one, and a mapping that is lost or being replaced was given up.
PmOwners ==
  /\ race["manage"].pc = "racing" => mapTick = "rebuilding" \/ entry.m = NoMapping
  /\ entry.st = "held" => entry.m \in Mappings
  /\ mapTick = "refreshing" => entry.m \in Mappings
  /\ entry.st = "lost" \/ mapTick \in {"rebuilding", "reporting"} => entry.m \in left
  /\ \A c \in Callers : race[c].pc = "idle" => race[c] = NoRace

PmInv == PmTypeOK /\ LosersRemoved /\ PmOwners

RaceRec == [pc : {"idle", "racing"}, round : 0 .. 2, asking : SUBSET Protos,
            won : Mappings \cup {NoMapping}]

\* The same facts in the form the steps below use them.
LEMMA PmFacts ==
  PmInv <=>
    /\ gw \subseteq Mappings /\ unmapping \subseteq Mappings /\ left \subseteq Mappings
    /\ race \in [Callers -> RaceRec]
    /\ told \in Mappings \cup {NoMapping}
    /\ entry \in [st : {"none", "held", "lost"}, m : Mappings \cup {NoMapping}]
    /\ mapTick \in {"idle", "refreshing", "reporting", "rebuilding"}
    /\ gate \in BOOLEAN /\ closed \in BOOLEAN /\ faults \in 0 .. MaxMapFaults
    /\ \A m \in gw : \/ m = race["report"].won \/ m = race["manage"].won \/ m = told \/ m = entry.m
                     \/ m \in unmapping \/ m \in left
    /\ PmOwners
BY DEF PmInv, PmTypeOK, LosersRemoved, RaceRec, Callers

LEMMA PmFactsNext ==
  (/\ gw \subseteq Mappings /\ unmapping \subseteq Mappings /\ left \subseteq Mappings
   /\ race \in [Callers -> RaceRec]
   /\ told \in Mappings \cup {NoMapping}
   /\ entry \in [st : {"none", "held", "lost"}, m : Mappings \cup {NoMapping}]
   /\ mapTick \in {"idle", "refreshing", "reporting", "rebuilding"}
   /\ gate \in BOOLEAN /\ closed \in BOOLEAN /\ faults \in 0 .. MaxMapFaults
   /\ \A m \in gw : \/ m = race["report"].won \/ m = race["manage"].won \/ m = told \/ m = entry.m
                    \/ m \in unmapping \/ m \in left
   /\ PmOwners)' => PmInv'
BY DEF PmInv, PmTypeOK, LosersRemoved, RaceRec, Callers

LEMMA PmNoMapping == NoMapping \notin Mappings /\ NoRace \in RaceRec
                     /\ Racing(1) \in RaceRec /\ Racing(2) \in RaceRec
BY PortmapAssumption DEF NoMapping, Mappings, NoRace, RaceRec, Racing

LEMMA PmInvInit == PmInit => PmInv
<1> SUFFICES ASSUME PmInit PROVE PmInv
  OBVIOUS
<1>1. Racing(1) \in RaceRec /\ NoMapping \in Mappings \cup {NoMapping} /\ 0 \in 0 .. MaxMapFaults
  BY PmNoMapping, PortmapAssumption
<1>2. PmOwners
  BY DEF PmInit, PmOwners, Callers, Racing
<1> QED
  BY <1>1, <1>2, PmFacts DEF PmInit

\* What a race is left with, whatever is changed of it.
LEMMA PmRaceChanges ==
  ASSUME race \in [Callers -> RaceRec], NEW c \in Callers, NEW r \in RaceRec,
         race' = [race EXCEPT ![c] = r]
  PROVE  /\ race' \in [Callers -> RaceRec] /\ race'[c] = r
         /\ \A d \in Callers : d # c => race'[d] = race[d]
         /\ r.won \in Mappings \cup {NoMapping} /\ r.pc \in {"idle", "racing"}
BY DEF RaceRec

LEMMA PmGrantable ==
  ASSUME PmInv, NEW p \in Protos, NEW m \in Grantable(p)
  PROVE  m \in Mappings /\ m.proto = p
BY PmFacts DEF Grantable, Mappings

LEMMA PmAsking ==
  ASSUME PmInv, NEW c \in Callers, NEW p, p \in race[c].asking
  PROVE  race[c].pc = "racing"
BY PmFacts DEF PmOwners, NoRace, RaceRec

LEMMA PmSucceeds ==
  ASSUME PmInv, NEW c \in Callers, NEW p \in Protos, ProtocolSucceeds(c, p)
  PROVE  PmInv'
<1> DEFINE r == race[c]
<1>1. PICK m \in Grantable(p) : gw' = gw \cup {m} /\ Winner(c, m)
  BY DEF ProtocolSucceeds
<1>2. m \in Mappings /\ r \in RaceRec /\ r.pc = "racing" /\ m # NoMapping
  BY <1>1, PmGrantable, PmAsking, PmFacts, PmNoMapping DEF ProtocolSucceeds
<1>3. CASE r.won = NoMapping
  <2>1. PICK q : q = [r EXCEPT !.won = m, !.asking = @ \ {m.proto}]
    OBVIOUS
  <2>2. q \in RaceRec /\ q.won = m /\ q.pc = "racing"
    BY <2>1, <1>2 DEF RaceRec
  <2>3. race' = [race EXCEPT ![c] = q] /\ unmapping' = unmapping
    BY <2>1, <1>1, <1>3 DEF Winner
  <2>4. race' \in [Callers -> RaceRec] /\ race'[c] = q /\ \A d \in Callers : d # c => race'[d] = race[d]
    BY <2>2, <2>3, PmRaceChanges, PmFacts
  <2>5. PmOwners'
    BY <2>2, <2>4, <1>2, PmFacts DEF PmOwners, ProtocolSucceeds, Callers
  <2> QED
    BY <2>2, <2>3, <2>4, <2>5, <1>1, <1>2, <1>3, PmFacts, PmFactsNext, PmNoMapping DEF ProtocolSucceeds, Callers
<1>4. CASE r.won # NoMapping
  <2>1. PICK q : q = [r EXCEPT !.asking = @ \ {m.proto}]
    OBVIOUS
  <2>2. q \in RaceRec /\ q.won = r.won /\ q.pc = "racing"
    BY <2>1, <1>2 DEF RaceRec
  <2>3. race' = [race EXCEPT ![c] = q] /\ unmapping' = unmapping \cup {m}
    BY <2>1, <1>1, <1>4 DEF Winner
  <2>4. race' \in [Callers -> RaceRec] /\ race'[c] = q /\ \A d \in Callers : d # c => race'[d] = race[d]
    BY <2>2, <2>3, PmRaceChanges, PmFacts
  <2>5. PmOwners'
    BY <2>2, <2>4, <1>2, PmFacts DEF PmOwners, ProtocolSucceeds, Callers
  <2> QED
    BY <2>2, <2>3, <2>4, <2>5, <1>1, <1>2, <1>4, PmFacts, PmFactsNext DEF ProtocolSucceeds, Callers
<1> QED
  BY <1>3, <1>4

\* A protocol that is no longer asked, granted in vain or not.
LEMMA PmStopsAsking ==
  ASSUME PmInv, NEW c \in Callers, NEW p \in Protos, p \in race[c].asking,
         race' = [race EXCEPT ![c].asking = @ \ {p}],
         GrantedInVain(p) \/ UNCHANGED <<gw, left>>, faults' \in 0 .. MaxMapFaults,
         UNCHANGED <<unmapping, told, entry, mapTick, gate, closed>>
  PROVE  PmInv'
<1>1. PICK q : q = [race[c] EXCEPT !.asking = @ \ {p}]
  OBVIOUS
<1>2. q \in RaceRec /\ q.won = race[c].won /\ q.pc = race[c].pc /\ q.pc = "racing"
  BY <1>1, PmAsking, PmFacts DEF RaceRec
<1>3. race' = [race EXCEPT ![c] = q]
  BY <1>1
<1>4. race' \in [Callers -> RaceRec] /\ race'[c] = q /\ \A d \in Callers : d # c => race'[d] = race[d]
  BY <1>2, <1>3, PmRaceChanges, PmFacts
<1>5. PICK m \in Mappings \cup {NoMapping} :
        /\ \/ m \in Mappings /\ gw' = gw \cup {m} /\ left' = left \cup {m}
           \/ gw' = gw /\ left' = left
  BY PmGrantable DEF GrantedInVain
<1>6. PmOwners'
  BY <1>2, <1>4, <1>5, PmFacts DEF PmOwners, Callers
<1> QED
  BY <1>2, <1>4, <1>5, <1>6, PmFacts, PmFactsNext DEF Callers

LEMMA PmFault == ASSUME PmInv, Fault PROVE faults' \in 0 .. MaxMapFaults
BY PmFacts, PortmapAssumption DEF Fault

\* A race that goes on or ends, without a mapping that is anyone's.
LEMMA PmSecondRound ==
  ASSUME PmInv, NEW c \in Callers, SecondRound(c)
  PROVE  PmInv'
<1>1. race' \in [Callers -> RaceRec] /\ race'[c] = Racing(2) /\ \A d \in Callers : d # c => race'[d] = race[d]
  BY PmRaceChanges, PmFacts, PmNoMapping DEF SecondRound
<1>2. PmOwners'
  BY <1>1, PmFacts DEF PmOwners, SecondRound, Callers, Racing
<1> QED
  BY <1>1, <1>2, PmFacts, PmFactsNext, PmNoMapping DEF SecondRound, Callers

LEMMA PmUnmapLoser ==
  ASSUME PmInv, NEW m \in Mappings, UnmapLoser(m)
  PROVE  PmInv'
<1>1. \/ gw' = Removed(m) /\ faults' = faults /\ left' = left
      \/ faults' \in 0 .. MaxMapFaults /\ left' = left \cup {m} /\ gw' = gw
  BY PmFault DEF UnmapLoser
<1>2. PmOwners'
  BY <1>1, PmFacts DEF PmOwners, UnmapLoser, Callers
<1>3. m \notin Removed(m) /\ Removed(m) \subseteq gw
  BY DEF Removed
<1> QED
  BY <1>1, <1>2, <1>3, PmFacts, PmFactsNext DEF UnmapLoser

LEMMA PmReportIngress ==
  ASSUME PmInv, ReportIngress
  PROVE  PmInv'
<1> DEFINE won == race["report"].won
<1>1. race' \in [Callers -> RaceRec] /\ race'["report"] = NoRace /\ race'["manage"] = race["manage"]
      /\ won \in Mappings \cup {NoMapping}
  BY PmRaceChanges, PmFacts, PmNoMapping DEF ReportIngress, Callers, RaceRec
<1>2. \/ told' = won /\ left' = left \cup ({told} \ {NoMapping, won}) /\ faults' = faults
      \/ faults' \in 0 .. MaxMapFaults /\ left' = left \cup ({won} \ {NoMapping}) /\ told' = told
  BY PmFault DEF ReportIngress, Superseded
<1>3. /\ entry' \in [st : {"none", "held", "lost"}, m : Mappings \cup {NoMapping}] /\ entry'.m = entry.m
      /\ entry'.st = entry.st \/ (entry'.st = "lost" /\ mapTick = "reporting")
      /\ mapTick' = mapTick \/ (mapTick = "reporting" /\ mapTick' = "idle")
  BY PmFacts DEF ReportIngress
<1>4. left \subseteq left' /\ left' \subseteq Mappings /\ told' \in Mappings \cup {NoMapping}
  BY <1>1, <1>2, PmFacts
<1>5. PmOwners'
  BY <1>1, <1>3, <1>4, PmFacts DEF PmOwners, Callers
<1>6. \A m \in gw' : \/ m = race'["report"].won \/ m = race'["manage"].won \/ m = told' \/ m = entry'.m
                     \/ m \in unmapping' \/ m \in left'
  BY <1>1, <1>2, <1>3, PmFacts, PmNoMapping DEF ReportIngress
<1> QED
  BY <1>1, <1>2, <1>3, <1>4, <1>5, <1>6, PmFacts, PmFactsNext DEF ReportIngress

\* What the lifecycle won: a mapping it takes over, or one that is left.
LEMMA PmWon ==
  ASSUME PmInv, race' = [race EXCEPT !["manage"] = NoRace],
         NEW m, m = race["manage"].won,
         \/ (closed \/ m = NoMapping) /\ left' = left \cup ({m} \ {NoMapping}) /\ entry' = entry
         \/ m # NoMapping /\ entry' = [st |-> "held", m |-> m] /\ left' = left,
         entry.m \in left \/ entry.m = NoMapping,
         (mapTick' = mapTick /\ entry.m = NoMapping) \/ mapTick' = "idle",
         UNCHANGED <<gw, unmapping, told, gate, closed, faults>>
  PROVE  PmInv'
<1>1. race' \in [Callers -> RaceRec] /\ race'["manage"] = NoRace /\ race'["report"] = race["report"]
      /\ m \in Mappings \cup {NoMapping}
  BY PmRaceChanges, PmFacts, PmNoMapping DEF Callers, RaceRec
<1>2. /\ entry' \in [st : {"none", "held", "lost"}, m : Mappings \cup {NoMapping}]
      /\ left \subseteq left' /\ left' \subseteq Mappings
      /\ m = NoMapping \/ m \in left' \/ entry'.m = m
      /\ entry.m = NoMapping \/ entry.m \in left'
  BY <1>1, PmFacts
<1>3. mapTick' \in {"idle", "refreshing", "reporting", "rebuilding"}
  BY PmFacts
<1>4. PmOwners'
  BY <1>1, <1>2, PmFacts, PmNoMapping DEF PmOwners, Callers, NoRace
<1>5. \A x \in gw' : \/ x = race'["report"].won \/ x = race'["manage"].won \/ x = told' \/ x = entry'.m
                     \/ x \in unmapping' \/ x \in left'
  BY <1>1, <1>2, PmFacts, PmNoMapping
<1> QED
  BY <1>1, <1>2, <1>3, <1>4, <1>5, PmFacts, PmFactsNext

LEMMA PmManage ==
  ASSUME PmInv, Manage
  PROVE  PmInv'
<1>1. entry.m = NoMapping
  BY PmFacts DEF Manage, Mapped, PmOwners
<1> QED
  BY <1>1, PmWon DEF Manage

LEMMA PmFinishRebuild ==
  ASSUME PmInv, FinishRebuild
  PROVE  PmInv'
<1>1. entry.m \in left
  BY PmFacts DEF FinishRebuild, PmOwners
<1> QED
  BY <1>1, PmWon DEF FinishRebuild, Rebuilt

LEMMA PmRefreshSucceeds ==
  ASSUME PmInv, RefreshSucceeds
  PROVE  PmInv'
<1>1. gw' \subseteq gw \cup {entry.m} /\ entry.m \in Mappings
  BY PmFacts DEF RefreshSucceeds, PmOwners
<1>2. PmOwners'
  BY PmFacts DEF PmOwners, RefreshSucceeds, Callers
<1> QED
  BY <1>1, <1>2, PmFacts, PmFactsNext DEF RefreshSucceeds

LEMMA PmRefreshFails ==
  ASSUME PmInv, RefreshFails
  PROVE  PmInv'
<1>1. entry.m \in Mappings /\ faults' \in 0 .. MaxMapFaults /\ left' = left \cup {entry.m}
      /\ race["report"] = NoRace
  BY PmFacts, PmFault DEF RefreshFails, PmOwners, Callers
<1>2. CASE gate
  <2>1. race' \in [Callers -> RaceRec] /\ race'["report"] = Racing(1) /\ race'["manage"] = race["manage"]
    BY <1>2, PmRaceChanges, PmFacts, PmNoMapping DEF RefreshFails, Callers
  <2>2. PmOwners'
    BY <1>1, <1>2, <2>1, PmFacts, PmNoMapping DEF PmOwners, RefreshFails, Callers, Racing
  <2>3. UNCHANGED <<gw, unmapping, told, closed, entry>> /\ mapTick' = "reporting" /\ gate' = FALSE
        /\ race["report"].won = NoMapping
    BY <1>1, <1>2 DEF RefreshFails, NoRace
  <2>4. \A m \in gw' : \/ m = race'["report"].won \/ m = race'["manage"].won \/ m = told' \/ m = entry'.m
                       \/ m \in unmapping' \/ m \in left'
    BY <1>1, <2>1, <2>3, PmFacts, PmNoMapping
  <2> QED
    BY <1>1, <2>1, <2>2, <2>3, <2>4, PmFacts, PmFactsNext
<1>3. CASE ~gate
  <2>1. entry' \in [st : {"none", "held", "lost"}, m : Mappings \cup {NoMapping}] /\ entry'.m = entry.m
        /\ race' = race /\ mapTick' = "idle" /\ gate' = gate
    BY <1>3, PmFacts DEF RefreshFails
  <2>2. PmOwners'
    BY <1>1, <2>1, PmFacts DEF PmOwners, RefreshFails, Callers
  <2> QED
    BY <1>1, <2>1, <2>2, PmFacts, PmFactsNext DEF RefreshFails
<1> QED
  BY <1>2, <1>3, PmFacts, PmFactsNext

LEMMA PmStartRebuild ==
  ASSUME PmInv, StartRebuild
  PROVE  PmInv'
<1>1. race["manage"] = NoRace /\ entry.m \in left
  BY PmFacts DEF StartRebuild, PmOwners, Callers
<1>2. race' \in [Callers -> RaceRec] /\ race'["manage"] = Racing(1) /\ race'["report"] = race["report"]
  BY PmRaceChanges, PmFacts, PmNoMapping DEF StartRebuild, Callers
<1>3. PmOwners'
  BY <1>1, <1>2, PmFacts DEF PmOwners, StartRebuild, Callers, Racing
<1> QED
  BY <1>1, <1>2, <1>3, PmFacts, PmFactsNext, PmNoMapping DEF StartRebuild, NoRace

LEMMA PmCloseLifecycle ==
  ASSUME PmInv, CloseLifecycle
  PROVE  PmInv'
<1>1. entry' \in [st : {"none", "held", "lost"}, m : Mappings \cup {NoMapping}]
      /\ entry'.m = entry.m /\ entry'.st = "none" /\ left \subseteq left' /\ left' \subseteq Mappings
      /\ unmapping \subseteq unmapping' /\ unmapping' \subseteq Mappings
  BY PmFacts DEF CloseLifecycle
<1>2. PmOwners'
  BY <1>1, PmFacts DEF PmOwners, CloseLifecycle, Callers
<1> QED
  BY <1>1, <1>2, PmFacts, PmFactsNext DEF CloseLifecycle

LEMMA PmInvNext == PmInv /\ [PmNext]_pmVars => PmInv'
<1> SUFFICES ASSUME PmInv, [PmNext]_pmVars PROVE PmInv'
  OBVIOUS
<1> USE DEF PmNext, RaceStep, MapTickStep
<1>1. ASSUME NEW c \in Callers, NEW p \in Protos, ProtocolFails(c, p) PROVE PmInv'
  BY <1>1, PmFault, PmStopsAsking DEF ProtocolFails
<1>2. ASSUME NEW c \in Callers, NEW p \in Protos, ProtocolCancelled(c, p) PROVE PmInv'
  BY <1>2, PmFacts, PmStopsAsking DEF ProtocolCancelled
<1>3. CASE StartRefresh
  <2>1. PmOwners'
    BY <1>3, PmFacts DEF StartRefresh, PmOwners, Callers
  <2> QED
    BY <1>3, <2>1, PmFacts, PmFactsNext DEF StartRefresh
<1>4. CASE GateReopens
  <2>1. PmOwners'
    BY <1>4, PmFacts DEF GateReopens, PmOwners, Callers
  <2> QED
    BY <1>4, <2>1, PmFacts, PmFactsNext DEF GateReopens
<1>5. ASSUME NEW m \in Mappings, GatewayForgets(m) PROVE PmInv'
  <2>1. PmOwners' /\ faults' \in 0 .. MaxMapFaults
    BY <1>5, PmFacts, PmFault DEF GatewayForgets, nodeVars, PmOwners, Callers
  <2> QED
    BY <1>5, <2>1, PmFacts, PmFactsNext DEF GatewayForgets, nodeVars
<1>6. CASE UNCHANGED pmVars
  <2>1. PmOwners'
    BY <1>6, PmFacts DEF pmVars, nodeVars, PmOwners, Callers
  <2> QED
    BY <1>6, <2>1, PmFacts, PmFactsNext DEF pmVars, nodeVars
<1> QED
  BY <1>1, <1>2, <1>3, <1>4, <1>5, <1>6, PmSucceeds, PmSecondRound, PmUnmapLoser, PmReportIngress,
     PmManage, PmRefreshSucceeds, PmRefreshFails, PmStartRebuild, PmFinishRebuild, PmCloseLifecycle

-----------------------------------------------------------------------------
(* Failover.                                                               *)

\* Besides the types, that a scan works on two or three endpoints.
ScanRec == [eps : Seq(Endpoints), pos : 1 .. 4]
ConnRec == [ep : Endpoints \cup {NoEndpoint}, ok : BOOLEAN]
PollRec == [pc : {"off", "sleeping", "trying", "watching"}, left : Seq(Endpoints),
            ep : Endpoints \cup {NoEndpoint}, ok : BOOLEAN, late : BOOLEAN]

FoInv == FoTypeOK /\ scan \in ScanRec /\ Len(scan.eps) \in 2 .. 3

LEMMA FoResting == NoConn \in ConnRec /\ NoPoll \in PollRec /\ Sleeping \in PollRec
<1>1. <<>> \in Seq(Endpoints)
  OBVIOUS
<1>2. NoPoll \in PollRec
  BY <1>1 DEF NoPoll, PollRec
<1> QED
  BY <1>2 DEF NoConn, NoPoll, Sleeping, ConnRec, PollRec

LEMMA FoInvInit == FoInit => FoInv
<1> SUFFICES ASSUME FoInit PROVE FoInv
  OBVIOUS
<1>1. eps \in Seq(Endpoints) /\ Len(eps) = 2
  BY DEF Endpoints, FoInit
<1>2. scan \in ScanRec /\ scan.eps = eps /\ scan.pos = 1
  BY <1>1 DEF FoInit, ScanRec
<1>3. conn \in ConnRec /\ poll \in PollRec
  BY FoResting DEF FoInit
<1>4. up \subseteq Endpoints /\ deaf \subseteq Endpoints
  BY DEF FoInit, Endpoints
<1>5. active \in -1 .. 2 /\ breaks \in 0 .. MaxFaults
  <2>1. active = -1 /\ breaks = 0
    BY DEF FoInit
  <2>2. MaxFaults \in Nat
    BY FailoverAssumption DEF FailoverAssumption
  <2> QED
    BY <2>1, <2>2
<1>6. at \in {"scanning", "receiving", "waiting", "ended"} /\ tried \in BOOLEAN /\ asked \in BOOLEAN /\ cancelled \in BOOLEAN
  BY DEF FoInit
<1> QED
  BY <1>1, <1>2, <1>3, <1>4, <1>5, <1>6 DEF FoInv, FoTypeOK, ConnRec, PollRec

LEMMA FoTryEndpoint ==
  ASSUME FoInv, TryEndpoint
  PROVE  FoInv'
<1>1. scan.eps \in Seq(Endpoints) /\ scan.pos \in 1 .. 3 /\ scan.pos <= Len(scan.eps)
  <2>1. scan.eps \in Seq(Endpoints) /\ scan.pos \in 1 .. 4 /\ Len(scan.eps) \in 2 .. 3
    BY DEF FoInv, FoTypeOK
  <2>2. scan.pos <= Len(scan.eps)
    BY DEF TryEndpoint
  <2>3. PICK p, n : p = scan.pos /\ n = Len(scan.eps)
    OBVIOUS
  <2>4. p \in 1 .. 4 /\ n \in 2 .. 3 /\ p <= n
    BY <2>1, <2>2, <2>3
  <2>5. p \in 1 .. 3
    BY <2>4
  <2> QED
    BY <2>1, <2>2, <2>3, <2>5
<1>2. Candidate \in Endpoints
  BY <1>1, ElementOfSeq DEF Candidate
<1>3. scan' \in ScanRec /\ scan'.eps = scan.eps
  BY <1>1 DEF FoInv, TryEndpoint, ScanRec
<1>4. conn \in ConnRec /\ poll \in PollRec /\ tried \in BOOLEAN /\ active \in -1 .. 2
  BY DEF FoInv, FoTypeOK, ConnRec, PollRec
<1>5. CASE Candidate \notin up /\ UNCHANGED <<at, tried, conn, active, poll>>
  BY <1>3, <1>4, <1>5 DEF FoInv, FoTypeOK, TryEndpoint, worldVars, ConnRec, PollRec, ScanRec
<1>6. CASE /\ conn' = [ep |-> Candidate, ok |-> TRUE]
           /\ at' = "receiving" /\ tried' = TRUE
           /\ active' = scan.pos - 1
           /\ poll' = IF scan.pos = 1 THEN NoPoll ELSE Sleeping
  <2>1. conn' \in ConnRec
    BY <1>2, <1>6 DEF ConnRec
  <2>2. poll' \in PollRec
    BY <1>6, FoResting
  <2>3. active' \in -1 .. 2
    BY <1>1, <1>6
  <2> QED
    BY <1>3, <1>6, <2>1, <2>2, <2>3 DEF FoInv, FoTypeOK, TryEndpoint, worldVars, ConnRec, PollRec, ScanRec
<1> QED
  BY <1>5, <1>6 DEF TryEndpoint

LEMMA FoScans ==
  ASSUME FoInv, Rescan \/ (UNCHANGED <<scan, tried>> /\ at' \in {"scanning", "receiving", "waiting", "ended"}),
         conn' \in ConnRec, poll' \in PollRec, asked' \in BOOLEAN,
         UNCHANGED <<eps, active, worldVars, cancelled>>
  PROVE  FoInv'
<1>1. CASE Rescan
  <2>1. scan' \in ScanRec /\ scan'.eps = eps
    BY <1>1 DEF Rescan, ScanRec, FoInv, FoTypeOK
  <2> QED
    BY <1>1, <2>1 DEF FoInv, FoTypeOK, Rescan, worldVars, ConnRec, PollRec, ScanRec
<1>2. CASE UNCHANGED <<scan, tried>> /\ at' \in {"scanning", "receiving", "waiting", "ended"}
  BY <1>2 DEF FoInv, FoTypeOK, worldVars, ConnRec, PollRec
<1> QED
  BY <1>1, <1>2

LEMMA FoLoop ==
  ASSUME FoInv, LoopStep
  PROVE  FoInv'
<1>1. conn \in ConnRec /\ poll \in PollRec /\ asked \in BOOLEAN
      /\ at \in {"scanning", "receiving", "waiting", "ended"}
  BY DEF FoInv, FoTypeOK, ConnRec, PollRec
<1>2. CASE ScanEnds
  <2>1. tried \in BOOLEAN /\ (tried => Rescan) /\ (~tried => at' = "waiting" /\ UNCHANGED <<scan, tried>>)
    BY <1>2 DEF FoInv, FoTypeOK, ScanEnds
  <2> QED
    BY <1>1, <1>2, <2>1, FoScans DEF ScanEnds
<1>3. CASE RetryLater
  BY <1>1, <1>3, FoScans DEF RetryLater
<1>4. CASE ChannelFails
  BY <1>1, <1>4, FoScans, FoResting DEF ChannelFails
<1>5. CASE SwitchBack
  BY <1>1, <1>5, FoScans, FoResting DEF SwitchBack
<1>6. CASE RunEnds
  BY <1>1, <1>6, FoScans, FoResting DEF RunEnds
<1> QED
  BY <1>2, <1>3, <1>4, <1>5, <1>6, FoTryEndpoint DEF LoopStep

LEMMA FoPolls ==
  ASSUME FoInv, poll' \in PollRec, asked' \in BOOLEAN, UNCHANGED <<eps, loopVars, worldVars, cancelled>>
  PROVE  FoInv'
BY DEF FoInv, FoTypeOK, loopVars, worldVars, ConnRec, PollRec

\* The endpoints before the active one are endpoints.
LEMMA FoBetter == FoInv => Better \in Seq(Endpoints)
<1> SUFFICES ASSUME FoInv, active > 0 PROVE SubSeq(eps, 1, active) \in Seq(Endpoints)
  BY DEF Better
<1>1. active \in 1 .. 2 /\ eps \in Seq(Endpoints) /\ Len(eps) \in 2 .. 3
  BY DEF FoInv, FoTypeOK
<1> QED
  BY <1>1, SubSeqProperties, ElementOfSeq

LEMMA FoPoll ==
  ASSUME FoInv, PollStep \/ SignalArrives
  PROVE  FoInv'
<1>1. poll \in PollRec /\ asked \in BOOLEAN
  BY DEF FoInv, FoTypeOK, PollRec
<1>2. CASE StartPoll
  BY <1>1, <1>2, FoPolls, FoBetter DEF StartPoll, PollRec
<1>3. CASE PollEndpoint
  <2>1. poll.left # <<>> => Head(poll.left) \in Endpoints /\ Tail(poll.left) \in Seq(Endpoints)
    BY <1>1, HeadTailProperties DEF PollRec
  <2>2. poll' \in PollRec
    BY <1>1, <1>3, <2>1, FoResting DEF PollEndpoint, PollRec
  <2> QED
    BY <1>1, <1>3, <2>2, FoPolls DEF PollEndpoint
<1>4. CASE WindowEnds
  BY <1>1, <1>4, FoPolls DEF WindowEnds, PollRec
<1>5. ASSUME NEW stable \in BOOLEAN, Reported(stable), UNCHANGED <<eps, loopVars, worldVars, cancelled>>
      PROVE FoInv'
  BY <1>1, <1>5, FoPolls, FoResting DEF Reported
<1>6. CASE WaitStable
  <2>1. poll.late \in BOOLEAN
    BY <1>1 DEF PollRec
  <2> QED
    BY <1>5, <1>6, <2>1 DEF WaitStable
<1>7. CASE SignalArrives
  BY <1>5, <1>7 DEF SignalArrives
<1> QED
  BY <1>2, <1>3, <1>4, <1>6, <1>7 DEF PollStep

LEMMA FoWorld ==
  ASSUME FoInv, conn' \in ConnRec, poll' \in PollRec, breaks' \in 0 .. MaxFaults, up' \subseteq Endpoints,
         UNCHANGED <<eps, scan, at, tried, active, asked, deaf, cancelled>>
  PROVE  FoInv'
BY DEF FoInv, FoTypeOK, ConnRec, PollRec

LEMMA FoInvNext == FoInv /\ [FoNext]_foVars => FoInv'
<1> SUFFICES ASSUME FoInv, [FoNext]_foVars PROVE FoInv'
  OBVIOUS
<1>1. conn \in ConnRec /\ poll \in PollRec /\ up \subseteq Endpoints /\ breaks \in 0 .. MaxFaults
  BY DEF FoInv, FoTypeOK, ConnRec, PollRec
<1>2. CASE AddEndpoint
  <2>1. eps' \in Seq(Endpoints) /\ Len(eps') = 3
    BY <1>2 DEF AddEndpoint, Endpoints
  <2> QED
    BY <1>2, <2>1 DEF AddEndpoint, FoInv, FoTypeOK, loopVars, worldVars
<1>3. CASE Cancel
  BY <1>3 DEF Cancel, FoInv, FoTypeOK, loopVars, worldVars
<1>4. CASE ChannelBreaks
  <2>1. conn' \in ConnRec
    BY <1>1, <1>4 DEF ChannelBreaks, ConnRec
  <2>2. breaks' \in 0 .. MaxFaults
    BY <1>1, <1>4, FailoverAssumption DEF ChannelBreaks
  <2> QED
    BY <1>1, <1>4, <2>1, <2>2, FoWorld DEF ChannelBreaks
<1>5. ASSUME NEW e \in Endpoints, EndpointFails(e) PROVE FoInv'
  <2>1. conn' \in ConnRec /\ poll' \in PollRec
    BY <1>1, <1>5 DEF EndpointFails, Broken, ConnRec, PollRec
  <2>2. breaks' \in 0 .. MaxFaults /\ up' \subseteq Endpoints
    BY <1>1, <1>5, FailoverAssumption DEF EndpointFails
  <2> QED
    BY <1>5, <2>1, <2>2, FoWorld DEF EndpointFails
<1>6. ASSUME NEW e \in Endpoints, EndpointReturns(e) PROVE FoInv'
  <2>1. up' \subseteq Endpoints /\ UNCHANGED <<conn, poll, breaks, eps, scan, at, tried, active, asked, deaf, cancelled>>
    BY <1>1, <1>6 DEF EndpointReturns, loopVars
  <2> QED
    BY <1>1, <2>1, FoWorld
<1>7. CASE UNCHANGED foVars
  BY <1>7 DEF foVars, loopVars, worldVars, FoInv, FoTypeOK
<1> QED
  BY <1>2, <1>3, <1>4, <1>5, <1>6, <1>7, FoLoop, FoPoll DEF FoNext

-----------------------------------------------------------------------------
(* The choice of a relay.                                                  *)

SelRtts == RelayRtts \cup {Failed}
RoundRec == [answered : BOOLEAN, better : Relays \cup {NoRelay}]
SelectorRec == [current : Relays, betterID : Relays \cup {NoRelay}, betterStreak : Nat,
                degradeCount : Nat, primaryFail : Nat]
TickRec == [running : BOOLEAN, degraded : BOOLEAN, rtts : Seq(SelRtts)]

SelTypes ==
    /\ quality \in [Relays -> SelRtts] /\ selector \in SelectorRec /\ tick \in TickRec
    /\ rounds \in Seq(RoundRec) /\ selBounds \in [changes : Nat, reports : Nat]
    /\ selector.betterID # selector.current /\ selector.betterStreak <= SwitchStreak - 1
    /\ Len(tick.rtts) <= Len(Candidates) /\ Len(rounds) <= SwitchStreak - 1

\* The failed rounds counted that the history can still show.
FailsKept == IF selector.primaryFail < SwitchStreak THEN selector.primaryFail ELSE SwitchStreak - 1

\* What the counters of the selector say the last rounds with this primary were.
CountersSeen ==
    /\ FailsKept <= Len(rounds)
    /\ \A i \in 1 .. Len(rounds) : i > Len(rounds) - FailsKept => ~rounds[i].answered
    /\ selector.betterStreak <= Len(rounds)
    /\ \A i \in 1 .. Len(rounds) :
         i > Len(rounds) - selector.betterStreak => rounds[i].better = selector.betterID

SelInv == SelTypes /\ CountersSeen

LEMMA SelConstants ==
    /\ Candidates \in Seq(Relays) /\ Len(Candidates) \in Nat \ {0} /\ DOMAIN Candidates = 1 .. Len(Candidates)
    /\ NoRelay \notin Relays /\ SwitchStreak \in Nat \ {0} /\ DegradeStreak \in Nat \ {0}
    /\ DegradeStreak <= SwitchStreak /\ RelayRtts \subseteq Nat \ {Failed} /\ SelRtts \subseteq Nat
    /\ \A i, j \in 1 .. Len(Candidates) : Candidates[i] = Candidates[j] => i = j
    /\ \A i \in 1 .. Len(Candidates) : Candidates[i] \in Relays
    /\ \A r \in Relays : \E i \in 1 .. Len(Candidates) : Candidates[i] = r
<1>1. Candidates \in Seq(Relays) /\ Candidates # <<>>
  BY SelectorAssumption
<1>2. Len(Candidates) \in Nat \ {0} /\ DOMAIN Candidates = 1 .. Len(Candidates)
  BY <1>1, LenProperties, EmptySeq
<1>3. \A i, j \in 1 .. Len(Candidates) : Candidates[i] = Candidates[j] => i = j
  BY <1>2, SelectorAssumption DEF IsInjective
<1>4. \A i \in 1 .. Len(Candidates) : Candidates[i] \in Relays
  BY <1>1, ElementOfSeq
<1>5. \A r \in Relays : \E i \in 1 .. Len(Candidates) : Candidates[i] = r
  BY <1>2 DEF Relays, ToSet
<1>6. NoRelay \notin Relays /\ DegradeStreak \in Nat \ {0} /\ SwitchStreak \in Nat /\ SwitchStreak >= DegradeStreak
      /\ RelayRtts \subseteq Nat \ {Failed}
  BY SelectorAssumption
<1>7. SwitchStreak \in Nat \ {0} /\ DegradeStreak <= SwitchStreak
  BY <1>6
<1>8. SelRtts \subseteq Nat
  BY <1>6 DEF SelRtts, Failed
<1> QED
  BY <1>1, <1>2, <1>3, <1>4, <1>5, <1>6, <1>7, <1>8

\* The primary is probed first, and is none of the others.
LEMMA SelProbeOrder ==
  ASSUME SelTypes, NEW i \in 1 .. Len(Candidates)
  PROVE  /\ ProbeOrder[i] \in Relays
         /\ i = 1 => ProbeOrder[i] = selector.current
         /\ i # 1 => ProbeOrder[i] # selector.current
<1> DEFINE c == selector.current
           p == Place(c)
<1>1. c \in Relays
  BY DEF SelTypes, SelectorRec
<1>2. p \in 1 .. Len(Candidates) /\ Candidates[p] = c
  <2>1. \E j \in DOMAIN Candidates : Candidates[j] = c
    BY <1>1, SelConstants
  <2> QED
    BY <2>1, SelConstants DEF Place
<1>3. ProbeOrder[i] = IF i = 1 THEN c ELSE Candidates[IF i <= p THEN i - 1 ELSE i]
  BY SelConstants DEF ProbeOrder
<1>4. CASE i = 1
  BY <1>1, <1>3, <1>4
<1>5. CASE i # 1
  <2>1. PICK k : k = IF i <= p THEN i - 1 ELSE i
    OBVIOUS
  <2>2. k \in 1 .. Len(Candidates) /\ k # p
    BY <2>1, <1>2, <1>5, SelConstants
  <2>3. ProbeOrder[i] = Candidates[k]
    BY <2>1, <1>3, <1>5
  <2> QED
    BY <2>2, <2>3, <1>2, <1>5, SelConstants
<1> QED
  BY <1>4, <1>5

LEMMA SelNew ==
  ASSUME NEW r \in Relays
  PROVE  /\ NewSelector(r) \in SelectorRec
         /\ NewSelector(r).current = r /\ NewSelector(r).betterID = NoRelay
         /\ NewSelector(r).betterStreak = 0 /\ NewSelector(r).primaryFail = 0
BY DEF NewSelector, SelectorRec

LEMMA SelInvInit == SelInit => SelInv
<1> SUFFICES ASSUME SelInit PROVE SelInv
  OBVIOUS
<1>1. Candidates[1] \in Relays /\ NoRelay \notin Relays /\ 0 <= SwitchStreak - 1 /\ 0 < SwitchStreak
      /\ 0 <= Len(Candidates)
  BY SelConstants
<1>2. \E t \in RelayRtts : \A u \in RelayRtts : t <= u
  <2>1. RelayRtts \subseteq Nat /\ RelayRtts # {}
    BY SelectorAssumption
  <2>2. PICK t \in RelayRtts : \A u \in RelayRtts : ~(<<u, t>> \in OpToRel(<, Nat))
    BY <2>1, NatLessThanWellFounded, WFMin
  <2>3. \A u \in RelayRtts : ~(u < t)
    BY <2>1, <2>2 DEF OpToRel
  <2> QED
    BY <2>1, <2>3
<1>3. quality \in [Relays -> SelRtts]
  BY <1>2 DEF SelInit, SelRtts
<1>4. selector \in SelectorRec /\ selector.current = Candidates[1] /\ selector.betterID = NoRelay
      /\ selector.betterStreak = 0 /\ selector.primaryFail = 0
  BY <1>1, SelNew DEF SelInit
<1>5. tick \in TickRec /\ Len(tick.rtts) = 0
  BY DEF SelInit, NoTick, TickRec
<1>6. rounds \in Seq(RoundRec) /\ Len(rounds) = 0 /\ selBounds \in [changes : Nat, reports : Nat]
  BY DEF SelInit
<1>7. FailsKept = 0
  BY <1>1, <1>4 DEF FailsKept
<1> QED
  BY <1>1, <1>3, <1>4, <1>5, <1>6, <1>7 DEF SelInv, SelTypes, CountersSeen

-----------------------------------------------------------------------------
(* The end of a tick.                                                      *)

\* The history after a round with the same primary.
LEMMA SelLastRounds ==
  ASSUME rounds \in Seq(RoundRec), Round \in RoundRec, SwitchStreak - 1 \in Nat,
         Len(rounds) <= SwitchStreak - 1,
         rounds' = LastRounds(Append(rounds, Round), SwitchStreak - 1)
  PROVE  /\ rounds' \in Seq(RoundRec)
         /\ Len(rounds') = IF Len(rounds) < SwitchStreak - 1 THEN Len(rounds) + 1 ELSE SwitchStreak - 1
         /\ \A i \in 1 .. Len(rounds') :
              rounds'[i] = IF i = Len(rounds') THEN Round ELSE rounds[i + Len(rounds) - Len(rounds') + 1]
<1>0. PICK seq, r, q, new : seq = rounds /\ r = Round /\ q = SwitchStreak - 1 /\ new = rounds'
  OBVIOUS
<1>9. seq \in Seq(RoundRec) /\ r \in RoundRec /\ q \in Nat /\ Len(seq) <= q
      /\ new = LastRounds(Append(seq, r), q)
  BY <1>0
<1> SUFFICES /\ new \in Seq(RoundRec) /\ Len(new) = IF Len(seq) < q THEN Len(seq) + 1 ELSE q
             /\ \A i \in 1 .. Len(new) :
                  new[i] = IF i = Len(new) THEN r ELSE seq[i + Len(seq) - Len(new) + 1]
  BY <1>0
<1> DEFINE app == Append(seq, r)
<1>1. Len(seq) \in Nat /\ app \in Seq(RoundRec) /\ Len(app) = Len(seq) + 1
      /\ (\A i \in 1 .. Len(seq) : app[i] = seq[i]) /\ app[Len(seq) + 1] = r
  BY <1>9, AppendProperties, LenProperties
<1> HIDE DEF app
<1>2. CASE Len(seq) < q
  <2>1. LastRounds(app, q) = app
    BY <1>9, <1>1, <1>2 DEF LastRounds
  <2>2. \A i \in 1 .. Len(app) : app[i] = IF i = Len(app) THEN r ELSE seq[i + Len(seq) - Len(app) + 1]
    BY <1>1
  <2> QED
    BY <1>9, <1>1, <1>2, <2>1, <2>2 DEF app
<1>3. CASE Len(seq) = q
  <2>1. LastRounds(app, q) = SubSeq(app, 2, q + 1)
    <3>1. Len(app) = q + 1 /\ ~(Len(app) <= q) /\ Len(app) - q + 1 = 2
      BY <1>9, <1>1, <1>3
    <3>2. LastRounds(app, q) = IF Len(app) <= q THEN app ELSE SubSeq(app, Len(app) - q + 1, Len(app))
      BY DEF LastRounds
    <3>3. LastRounds(app, q) = SubSeq(app, Len(app) - q + 1, Len(app))
      BY <3>1, <3>2
    <3> QED
      BY <3>1, <3>3
  <2>2. \A i \in 2 .. q + 1 : app[i] \in RoundRec
    BY <1>9, <1>1, <1>3, ElementOfSeq
  <2>3. new = SubSeq(app, 2, q + 1)
    BY <1>9, <2>1 DEF app
  <2>4. /\ new \in Seq(RoundRec) /\ Len(new) = IF 2 <= q + 1 THEN (q + 1) - 2 + 1 ELSE 0
        /\ \A i \in 1 .. (q + 1) - 2 + 1 : new[i] = app[2 + i - 1]
    BY <1>9, <2>2, <2>3, SubSeqProperties
  <2>5. Len(new) = q
    BY <1>9, <2>4
  <2>6. \A i \in 1 .. q : new[i] = IF i = q THEN r ELSE seq[i + q - q + 1]
    BY <1>9, <1>1, <1>3, <2>4
  <2> QED
    BY <1>9, <1>3, <2>1, <2>3, <2>4, <2>5, <2>6
<1> QED
  BY <1>9, <1>1, <1>2, <1>3

\* One of the others is the best, if any answered.
LEMMA SelBest ==
  ASSUME SelTypes, Len(tick.rtts) = Len(Candidates)
  PROVE  /\ Best \subseteq 2 .. Len(Candidates)
         /\ \A i, j \in Best : i = j
         /\ \A i \in 1 .. Len(Candidates) : tick.rtts[i] \in Nat
<1>1. Len(Candidates) \in Nat /\ tick.rtts \in Seq(SelRtts) /\ SelRtts \subseteq Nat
  BY SelConstants DEF SelTypes, TickRec
<1>2. \A i \in 1 .. Len(Candidates) : tick.rtts[i] \in Nat
  BY <1>1, ElementOfSeq
<1>3. Best \subseteq 2 .. Len(Candidates)
  BY DEF Best, Answered
<1>4. ASSUME NEW i \in Best, NEW j \in Best PROVE i = j
  <2>1. i \in 2 .. Len(Candidates) /\ j \in 2 .. Len(Candidates) /\ tick.rtts[i] \in Nat /\ tick.rtts[j] \in Nat
    BY <1>1, <1>2, <1>3
  <2>2. tick.rtts[i] < tick.rtts[j] \/ (tick.rtts[i] = tick.rtts[j] /\ i <= j)
    BY DEF Best
  <2>3. tick.rtts[j] < tick.rtts[i] \/ (tick.rtts[j] = tick.rtts[i] /\ j <= i)
    BY DEF Best
  <2> QED
    BY <1>1, <2>1, <2>2, <2>3
<1> QED
  BY <1>2, <1>3, <1>4

LEMMA SelRound ==
  ASSUME SelTypes, Len(tick.rtts) = Len(Candidates)
  PROVE  /\ Round \in RoundRec /\ (Round.answered <=> tick.rtts[1] # Failed)
         /\ \A i \in Best : ClearlyBetter(i) => Round.better = ProbeOrder[i]
<1>1. \A i \in Best : Best = {i} /\ ProbeOrder[i] \in Relays /\ (CHOOSE k \in Best : TRUE) = i
  BY SelBest, SelProbeOrder, SelConstants
<1>2. PICK b : b = IF \E i \in Best : ClearlyBetter(i)
                   THEN ProbeOrder[CHOOSE i \in Best : TRUE] ELSE NoRelay
  OBVIOUS
<1>3. b \in Relays \cup {NoRelay} /\ \A i \in Best : ClearlyBetter(i) => b = ProbeOrder[i]
  BY <1>1, <1>2
<1>4. Round = [answered |-> tick.rtts[1] # Failed, better |-> b]
  BY <1>2 DEF Round
<1> QED
  BY <1>3, <1>4 DEF RoundRec

LEMMA SelPrimaryFails ==
  ASSUME SelTypes
  PROVE  /\ PrimaryFails \in Nat /\ PrimaryFails <= selector.primaryFail + 1
         /\ PrimaryFails > 0 => tick.rtts[1] = Failed
<1>1. selector.primaryFail \in Nat /\ DegradeStreak \in Nat \ {0}
  BY SelConstants DEF SelTypes, SelectorRec
<1> QED
  BY <1>1 DEF PrimaryFails

\* A tick that stays with its primary counts what the round was.
LEMMA SelStay ==
  ASSUME SelInv, Len(tick.rtts) = Len(Candidates), NEW b \in Relays \cup {NoRelay}, NEW s \in Nat,
         Stay([selector EXCEPT !.primaryFail = PrimaryFails, !.betterID = b, !.betterStreak = s]),
         b # selector.current, s <= SwitchStreak - 1,
         s = 0 \/ (Round.better = b /\ (s = 1 \/ (selector.betterID = b /\ s = selector.betterStreak + 1))),
         tick' = NoTick, UNCHANGED <<quality, selBounds>>
  PROVE  SelInv' /\ selector'.current = selector.current
<1>1. /\ selector' \in SelectorRec /\ selector'.current = selector.current /\ selector'.betterID = b
      /\ selector'.betterStreak = s /\ selector'.primaryFail = PrimaryFails
  BY SelPrimaryFails DEF SelInv, SelTypes, Stay, SelectorRec
<1> DEFINE q == SwitchStreak - 1
<1>2. q \in Nat /\ Len(rounds) \in Nat /\ Len(rounds) <= q /\ rounds \in Seq(RoundRec) /\ Round \in RoundRec
  BY SelConstants, SelRound, LenProperties DEF SelInv, SelTypes
<1>3. /\ rounds' \in Seq(RoundRec) /\ Len(rounds') = IF Len(rounds) < q THEN Len(rounds) + 1 ELSE q
      /\ \A i \in 1 .. Len(rounds') :
           rounds'[i] = IF i = Len(rounds') THEN Round ELSE rounds[i + Len(rounds) - Len(rounds') + 1]
  <2>1. rounds' = LastRounds(Append(rounds, Round), q)
    BY DEF Stay
  <2> QED
    BY <1>2, <2>1, SelLastRounds
<1> DEFINE n == Len(rounds)
           m == Len(rounds')
<1>4. n \in Nat /\ m \in Nat /\ n <= q /\ m = IF n < q THEN n + 1 ELSE q
  BY <1>2, <1>3
<1>5. tick' \in TickRec /\ Len(tick'.rtts) <= Len(Candidates)
  BY SelConstants DEF NoTick, TickRec
<1>6. SelTypes'
  BY <1>1, <1>2, <1>3, <1>4, <1>5 DEF SelInv, SelTypes
<1> DEFINE f == FailsKept
           g == FailsKept'
<1>7. /\ f \in Nat /\ f <= n /\ g \in Nat /\ g <= f + 1 /\ g <= q /\ (g > 0 => ~Round.answered)
  <2>1. selector.primaryFail \in Nat /\ SwitchStreak \in Nat \ {0}
    BY SelConstants DEF SelInv, SelTypes, SelectorRec
  <2>2. g = IF PrimaryFails < SwitchStreak THEN PrimaryFails ELSE SwitchStreak - 1
    BY <1>1 DEF FailsKept
  <2>3. f = IF selector.primaryFail < SwitchStreak THEN selector.primaryFail ELSE SwitchStreak - 1
    BY DEF FailsKept
  <2>4. g \in Nat /\ f \in Nat /\ g <= f + 1 /\ g <= q
    BY <2>1, <2>2, <2>3, SelPrimaryFails DEF SelInv
  <2>5. g > 0 => ~Round.answered
    <3>1. g > 0 => PrimaryFails > 0
      BY <2>1, <2>2, SelPrimaryFails DEF SelInv
    <3> QED
      BY <3>1, SelPrimaryFails, SelRound DEF SelInv
  <2> QED
    BY <2>4, <2>5 DEF SelInv, CountersSeen
<1>8. g <= m /\ \A i \in 1 .. m : i > m - g => ~rounds'[i].answered
  <2>1. g <= m
    BY <1>4, <1>7
  <2>2. ASSUME NEW i \in 1 .. m, i > m - g PROVE ~rounds'[i].answered
    <3>1. CASE i = m
      <4>1. g > 0
        BY <1>4, <1>7, <2>2, <3>1
      <4>2. rounds'[i] = Round
        BY <1>3, <3>1
      <4> QED
        BY <1>7, <4>1, <4>2
    <3>2. CASE i # m
      <4>1. PICK k : k = i + n - m + 1
        OBVIOUS
      <4>2. k \in 1 .. n /\ k > n - f /\ rounds'[i] = rounds[k]
        BY <4>1, <3>2, <1>3, <1>4, <1>7, <2>2
      <4> QED
        BY <4>2 DEF SelInv, CountersSeen
    <3> QED
      BY <3>1, <3>2
  <2> QED
    BY <2>1, <2>2
<1>9. s <= m /\ \A i \in 1 .. m : i > m - s => rounds'[i].better = b
  <2>1. selector.betterStreak \in Nat /\ selector.betterStreak <= n
    BY DEF SelInv, SelTypes, SelectorRec, CountersSeen
  <2>2. s <= m
    BY <1>4, <2>1
  <2>3. ASSUME NEW i \in 1 .. m, i > m - s PROVE rounds'[i].better = b
    <3>1. s > 0 /\ Round.better = b
      BY <2>3, <1>4
    <3>2. CASE i = m
      BY <3>1, <3>2, <1>3
    <3>3. CASE i # m
      <4>1. selector.betterID = b /\ s = selector.betterStreak + 1
        BY <3>1, <3>3, <2>3, <1>4
      <4>2. PICK k : k = i + n - m + 1
        OBVIOUS
      <4>3. k \in 1 .. n /\ k > n - selector.betterStreak /\ rounds'[i] = rounds[k]
        <5>1. i \in Int /\ i < m /\ i > m - s /\ s = selector.betterStreak + 1
          BY <4>1, <3>3, <1>4, <2>3
        <5>2. k \in 1 .. n /\ k > n - selector.betterStreak
          BY <4>2, <5>1, <1>4, <2>1
        <5> QED
          BY <4>2, <3>3, <5>2, <1>3
      <4> QED
        BY <4>1, <4>3 DEF SelInv, CountersSeen
    <3> QED
      BY <3>2, <3>3
  <2> QED
    BY <2>2, <2>3
<1>10. CountersSeen'
  BY <1>1, <1>8, <1>9 DEF CountersSeen
<1> QED
  BY <1>1, <1>6, <1>10 DEF SelInv

\* A switch starts the counters and the history over.
LEMMA SelSwitch ==
  ASSUME SelInv, NEW r \in Relays, SwitchTo(r), tick' = NoTick, UNCHANGED <<quality, selBounds>>
  PROVE  SelInv' /\ selector'.current = r
<1>1. selector' \in SelectorRec /\ selector'.current = r /\ selector'.betterID = NoRelay
      /\ selector'.betterStreak = 0 /\ selector'.primaryFail = 0
  BY SelNew DEF SwitchTo
<1>2. NoRelay \notin Relays /\ 0 <= SwitchStreak - 1 /\ 0 < SwitchStreak /\ 0 <= Len(Candidates)
  BY SelConstants
<1>3. tick' \in TickRec /\ Len(tick'.rtts) = 0
  BY DEF NoTick, TickRec
<1>4. rounds' \in Seq(RoundRec) /\ Len(rounds') = 0
  BY DEF SwitchTo
<1>5. FailsKept' = 0
  BY <1>1, <1>2 DEF FailsKept
<1> QED
  BY <1>1, <1>2, <1>3, <1>4, <1>5 DEF SelInv, SelTypes, CountersSeen

\* The reasons there are to leave a relay.
Justified(relay) ==
    \/ tick.degraded \/ Degraded
    \/ AllOfLast(DegradeStreak, LAMBDA r : ~r.answered)
    \/ AllOfLast(SwitchStreak, LAMBDA r : r.better = relay)

\* As many rounds without an answer as make the primary unusable.
LEMMA SelUnusable ==
  ASSUME SelInv, Len(tick.rtts) = Len(Candidates), PrimaryFails >= DegradeStreak
  PROVE  AllOfLast(DegradeStreak, LAMBDA r : ~r.answered)
<1>1. Len(rounds) \in Nat /\ DegradeStreak \in Nat \ {0} /\ SwitchStreak \in Nat \ {0}
      /\ DegradeStreak <= SwitchStreak /\ selector.primaryFail \in Nat
  BY SelConstants, LenProperties DEF SelInv, SelTypes, SelectorRec
<1>2. PrimaryFails \in Nat /\ PrimaryFails <= selector.primaryFail + 1 /\ ~Round.answered
  <2>1. PrimaryFails > 0
    BY <1>1, SelPrimaryFails DEF SelInv
  <2> QED
    BY <2>1, SelPrimaryFails, SelRound DEF SelInv
<1>3. FailsKept \in Nat /\ FailsKept >= DegradeStreak - 1 /\ FailsKept <= Len(rounds)
  BY <1>1, <1>2 DEF FailsKept, SelInv, CountersSeen
<1>4. \A i \in (Len(rounds) - DegradeStreak + 2) .. Len(rounds) : ~rounds[i].answered
  <2> SUFFICES ASSUME NEW i \in (Len(rounds) - DegradeStreak + 2) .. Len(rounds)
               PROVE  ~rounds[i].answered
    OBVIOUS
  <2>1. i \in 1 .. Len(rounds) /\ i > Len(rounds) - FailsKept
    BY <1>1, <1>3
  <2> QED
    BY <2>1 DEF SelInv, CountersSeen
<1>5. Len(rounds) >= DegradeStreak - 1
  BY <1>1, <1>3
<1> QED
  BY <1>2, <1>4, <1>5 DEF AllOfLast

\* A candidate that was the better one as often as it takes.
LEMMA SelStreak ==
  ASSUME SelInv, Len(tick.rtts) = Len(Candidates), NEW i \in Best, ClearlyBetter(i),
         Streak(ProbeOrder[i]) >= SwitchStreak
  PROVE  AllOfLast(SwitchStreak, LAMBDA r : r.better = ProbeOrder[i])
<1> DEFINE relay == ProbeOrder[i]
<1>1. Len(rounds) \in Nat /\ SwitchStreak \in Nat \ {0} /\ selector.betterStreak \in Nat
      /\ selector.betterStreak <= SwitchStreak - 1 /\ Len(rounds) <= SwitchStreak - 1
      /\ selector.betterStreak <= Len(rounds)
  BY SelConstants, LenProperties DEF SelInv, SelTypes, SelectorRec, CountersSeen
<1>2. Round.better = relay
  BY SelRound DEF SelInv
<1>3. \/ selector.betterID = relay /\ selector.betterStreak = SwitchStreak - 1
      \/ SwitchStreak = 1
  BY <1>1 DEF Streak
<1>4. Len(rounds) >= SwitchStreak - 1
  BY <1>1, <1>3
<1>5. \A k \in (Len(rounds) - SwitchStreak + 2) .. Len(rounds) : rounds[k].better = relay
  <2> SUFFICES ASSUME NEW k \in (Len(rounds) - SwitchStreak + 2) .. Len(rounds)
               PROVE  rounds[k].better = relay
    OBVIOUS
  <2>1. SwitchStreak # 1
    BY <1>1
  <2>2. k \in 1 .. Len(rounds) /\ k > Len(rounds) - selector.betterStreak
    BY <1>1, <1>3, <2>1
  <2> QED
    BY <1>3, <2>1, <2>2 DEF SelInv, CountersSeen
<1> QED
  BY <1>2, <1>4, <1>5 DEF AllOfLast

LEMMA SelFinishTick ==
  ASSUME SelInv, FinishTick
  PROVE  SelInv' /\ (selector'.current # selector.current => Justified(selector'.current))
<1>0. Len(tick.rtts) = Len(Candidates) /\ tick' = NoTick /\ UNCHANGED <<quality, selBounds>>
  BY DEF FinishTick
<1>1. \A i \in Best : ProbeOrder[i] \in Relays /\ ProbeOrder[i] # selector.current
  BY <1>0, SelBest, SelProbeOrder, SelConstants DEF SelInv
<1> DEFINE leave == tick.degraded \/ Degraded \/ PrimaryFails >= DegradeStreak
           next == [selector EXCEPT !.primaryFail = PrimaryFails]
<1>2. CASE \E i \in Best : leave /\ SwitchTo(ProbeOrder[i])
  <2>1. PICK i \in Best : leave /\ SwitchTo(ProbeOrder[i])
    BY <1>2
  <2>2. SelInv' /\ selector'.current = ProbeOrder[i]
    BY <2>1, <1>0, <1>1, SelSwitch
  <2>3. Justified(ProbeOrder[i])
    BY <2>1, <1>0, SelUnusable DEF Justified
  <2> QED
    BY <2>2, <2>3
<1>3. CASE \E i \in Best :
             /\ ~leave /\ ClearlyBetter(i)
             /\ LET relay == ProbeOrder[i]
                IN  IF Streak(relay) >= SwitchStreak THEN SwitchTo(relay)
                    ELSE Stay([next EXCEPT !.betterID = relay, !.betterStreak = Streak(relay)])
  <2>1. PICK i \in Best :
             /\ ClearlyBetter(i)
             /\ IF Streak(ProbeOrder[i]) >= SwitchStreak THEN SwitchTo(ProbeOrder[i])
                ELSE Stay([next EXCEPT !.betterID = ProbeOrder[i], !.betterStreak = Streak(ProbeOrder[i])])
    BY <1>3
  <2>2. CASE Streak(ProbeOrder[i]) >= SwitchStreak
    <3>1. SelInv' /\ selector'.current = ProbeOrder[i]
      BY <2>1, <2>2, <1>0, <1>1, SelSwitch
    <3>2. Justified(ProbeOrder[i])
      BY <2>1, <2>2, <1>0, SelStreak DEF Justified
    <3> QED
      BY <3>1, <3>2
  <2>3. CASE ~(Streak(ProbeOrder[i]) >= SwitchStreak)
    <3> DEFINE b == ProbeOrder[i]
               s == Streak(ProbeOrder[i])
    <3>1. Stay([selector EXCEPT !.primaryFail = PrimaryFails, !.betterID = b, !.betterStreak = s])
      BY <2>1, <2>3
    <3>2. selector.betterStreak \in Nat /\ SwitchStreak \in Nat
      BY SelConstants DEF SelInv, SelTypes, SelectorRec
    <3>3. s \in Nat /\ s <= SwitchStreak - 1 /\ (s = 1 \/ (selector.betterID = b /\ s = selector.betterStreak + 1))
      BY <2>3, <3>2 DEF Streak
    <3>4. Round.better = b
      BY <2>1, <1>0, SelRound DEF SelInv
    <3>5. b \in Relays \cup {NoRelay} /\ b # selector.current
      BY <1>1
    <3> HIDE DEF b, s
    <3> QED
      BY <3>1, <3>3, <3>4, <3>5, <1>0, SelStay
  <2> QED
    BY <2>2, <2>3
<1>4. CASE Stay([next EXCEPT !.betterID = NoRelay, !.betterStreak = 0])
  <2>1. Stay([selector EXCEPT !.primaryFail = PrimaryFails, !.betterID = NoRelay, !.betterStreak = 0])
    BY <1>4
  <2>2. NoRelay # selector.current /\ 0 <= SwitchStreak - 1
    BY SelConstants DEF SelInv, SelTypes, SelectorRec
  <2> QED
    BY <2>1, <2>2, <1>0, SelStay
<1> QED
  BY <1>2, <1>3, <1>4 DEF FinishTick

LEMMA SelInvNext ==
  SelInv /\ [SelNext]_selVars =>
    SelInv' /\ (selector'.current # selector.current => Justified(selector'.current))
<1> SUFFICES ASSUME SelInv, [SelNext]_selVars
             PROVE  SelInv' /\ (selector'.current # selector.current => Justified(selector'.current))
  OBVIOUS
<1> DEFINE Same == /\ selector'.current = selector.current /\ selector'.betterID = selector.betterID
                   /\ selector'.betterStreak = selector.betterStreak
                   /\ selector'.primaryFail = selector.primaryFail
<1>0. ASSUME selector' \in SelectorRec, Same, UNCHANGED rounds, tick' \in TickRec,
             Len(tick'.rtts) <= Len(Candidates),
             quality' \in [Relays -> SelRtts], selBounds' \in [changes : Nat, reports : Nat]
      PROVE  SelInv' /\ selector'.current = selector.current
  <2>1. FailsKept' = FailsKept
    BY <1>0 DEF FailsKept
  <2> QED
    BY <1>0, <2>1 DEF SelInv, SelTypes, CountersSeen
<1>1. selector \in SelectorRec /\ tick \in TickRec /\ quality \in [Relays -> SelRtts]
      /\ Len(tick.rtts) <= Len(Candidates) /\ selBounds \in [changes : Nat, reports : Nat]
  BY DEF SelInv, SelTypes
<1>2. CASE ReportPrimaryDegraded
  <2>1. selector' \in SelectorRec /\ Same /\ selBounds' \in [changes : Nat, reports : Nat]
    BY <1>1, <1>2 DEF ReportPrimaryDegraded, SelectorRec
  <2> QED
    BY <1>0, <1>1, <1>2, <2>1 DEF ReportPrimaryDegraded
<1>3. CASE ReportPrimaryHealthy
  <2>1. selector' \in SelectorRec /\ Same
    BY <1>1, <1>3 DEF ReportPrimaryHealthy, SelectorRec
  <2> QED
    BY <1>0, <1>1, <1>3, <2>1 DEF ReportPrimaryHealthy
<1>4. CASE StartTick
  <2>1. tick' \in TickRec /\ Len(tick'.rtts) = 0 /\ 0 <= Len(Candidates)
    BY <1>4, SelConstants DEF StartTick, TickRec, Degraded
  <2> QED
    BY <1>0, <1>1, <1>4, <2>1 DEF StartTick
<1>5. CASE ProbeNextRelay
  <2>1. tick.rtts \in Seq(SelRtts) /\ Len(tick.rtts) \in Nat /\ Len(tick.rtts) + 1 \in 1 .. Len(Candidates)
    BY <1>1, <1>5, SelConstants, LenProperties DEF ProbeNextRelay, TickRec
  <2>2. quality[ProbeOrder[Len(tick.rtts) + 1]] \in SelRtts
    BY <1>1, <2>1, SelProbeOrder DEF SelInv
  <2>3. PICK v \in SelRtts : v = quality[ProbeOrder[Len(tick.rtts) + 1]]
    BY <2>2
  <2>4. Append(tick.rtts, v) \in Seq(SelRtts) /\ Len(Append(tick.rtts, v)) = Len(tick.rtts) + 1
    BY <2>1, AppendProperties
  <2>5. tick' = [tick EXCEPT !.rtts = Append(tick.rtts, v)]
    BY <1>5, <2>3 DEF ProbeNextRelay
  <2>6. tick' \in TickRec /\ tick'.rtts = Append(tick.rtts, v)
    BY <1>1, <2>4, <2>5 DEF TickRec
  <2>7. Len(tick'.rtts) <= Len(Candidates)
    BY <2>1, <2>4, <2>6, SelConstants
  <2> QED
    BY <1>0, <1>1, <1>5, <2>6, <2>7 DEF ProbeNextRelay
<1>6. ASSUME NEW r \in Relays, QualityChanges(r)
      PROVE  SelInv' /\ selector'.current = selector.current
  <2>1. quality' \in [Relays -> SelRtts] /\ selBounds' \in [changes : Nat, reports : Nat]
    BY <1>1, <1>6 DEF QualityChanges, SelRtts
  <2> QED
    BY <1>0, <1>1, <1>6, <2>1 DEF QualityChanges
<1>7. CASE UNCHANGED selVars
  BY <1>0, <1>1, <1>7 DEF selVars
<1> QED
  BY <1>2, <1>3, <1>4, <1>5, <1>6, <1>7, SelFinishTick DEF SelNext, TickStep

-----------------------------------------------------------------------------
(* The probe router.                                                       *)

FoundType(n) == [hop : ProbeNodes \ {n}, route : Seq(ProbeNodes), delay : Nat, far : ProbeNodes]
HopType(n) == [hop : ProbeNodes \ {n}, delay : Nat, far : ProbeNodes]
AreFound(found, n) == \A r \in found : r \in FoundType(n) /\ Len(r.route) \in 0 .. 3
Settled(b, n) == b \in RouteType(n) /\ Len(b.route) \in 0 .. 3

\* What a round works on was found by probes; what the node settled on, and what it would
\* restart on, leads over another node.
ProbeInv ==
    /\ down \subseteq ChangingLinks
    /\ peers \in [Routers -> SUBSET ProbeNodes] /\ maxHops \in [Routers -> 1 .. 3]
    /\ DOMAIN round = Routers /\ DOMAIN best = Routers /\ DOMAIN rankedHops = Routers
    /\ DOMAIN savedHop = Routers
    /\ \A n \in Routers :
        /\ AreFound(round[n].found, n) /\ Settled(best[n], n)
        /\ rankedHops[n] \subseteq HopType(n) /\ savedHop[n] \in (ProbeNodes \ {n}) \cup {NoNode}
    /\ \A s \in syncs : s.from \in Routers /\ s.to \in Routers

LEMMA ProbeInvTypes == ProbeInv => ProbeTypeOK
BY DEF ProbeInv, ProbeTypeOK, Settled, HopType

LEMMA ProbeNobody ==
  ASSUME NEW n \in Routers
  PROVE  Settled(NoBest, n) /\ AreFound({}, n) /\ n \in ProbeNodes /\ ProbeTarget \in ProbeNodes \ {n}
<1>1. <<>> \in Seq(ProbeNodes) /\ Len(<<>>) = 0
  OBVIOUS
<1> QED
  BY <1>1, ProbeAssumption DEF NoBest, Settled, RouteType, AreFound

LEMMA ProbeInvInit == ProbeInit => ProbeInv
<1> SUFFICES ASSUME ProbeInit PROVE ProbeInv
  OBVIOUS
<1>1. \A n \in Routers : round[n].found = {} /\ best[n] = NoBest /\ rankedHops[n] = {} /\ savedHop[n] = NoNode
  BY DEF ProbeInit, NoRound
<1>2. \A n \in Routers :
        /\ AreFound(round[n].found, n) /\ Settled(best[n], n)
        /\ rankedHops[n] \subseteq HopType(n) /\ savedHop[n] \in (ProbeNodes \ {n}) \cup {NoNode}
  BY <1>1, ProbeNobody
<1>3. peers \in [Routers -> SUBSET ProbeNodes] /\ maxHops \in [Routers -> 1 .. 3]
  BY DEF ProbeInit
<1>4. DOMAIN round = Routers /\ DOMAIN best = Routers /\ DOMAIN rankedHops = Routers /\ DOMAIN savedHop = Routers
  BY DEF ProbeInit
<1>5. down = {} /\ syncs = {}
  BY DEF ProbeInit
<1> QED
  BY <1>2, <1>3, <1>4, <1>5 DEF ProbeInv

-----------------------------------------------------------------------------
(* Probes.                                                                 *)

LEMMA PairDelay ==
  ASSUME NEW m \in ProbeNodes, NEW n \in ProbeNodes, m # n
  PROVE  LinkDelays[{m, n}] \in Nat
<1>1. IsFiniteSet({m}) /\ Cardinality({m}) = 1
  BY FS_Singleton
<1>2. Cardinality({m} \cup {n}) = 2
  BY <1>1, FS_AddElement
<1>3. {m, n} = {m} \cup {n}
  OBVIOUS
<1>4. {m, n} \in NodePairs
  BY <1>2, <1>3 DEF NodePairs
<1> QED
  BY <1>4, ProbeAssumption

LEMMA ProbeFrame ==
  ASSUME NEW m \in ProbeNodes, NEW n \in ProbeNodes, NEW direct, NEW dn
  PROVE  sendProbeFrame(m, n, direct, dn) \in Nat
<1>1. CASE m = n \/ ({m, n} \in dn /\ direct)
  BY <1>1 DEF sendProbeFrame
<1>2. CASE ~(m = n \/ ({m, n} \in dn /\ direct)) /\ {m, n} \notin dn
  BY <1>2, PairDelay DEF sendProbeFrame
<1>3. CASE ~(m = n \/ ({m, n} \in dn /\ direct)) /\ {m, n} \in dn /\ ~\E r \in FirstReachable(m, dn) : {r, n} \notin dn
  BY <1>3 DEF sendProbeFrame
<1>4. CASE ~(m = n \/ ({m, n} \in dn /\ direct)) /\ {m, n} \in dn /\ \E r \in FirstReachable(m, dn) : {r, n} \notin dn
  <2>1. PICK r : r = CHOOSE x \in FirstReachable(m, dn) : TRUE
    OBVIOUS
  <2>2. r \in FirstReachable(m, dn)
    BY <1>4, <2>1
  <2>3. r \in ProbeNodes /\ r # m /\ {m, r} \notin dn
    BY <2>2 DEF FirstReachable, Linked
  <2>4. r # n
    BY <1>4, <2>3
  <2>5. LinkDelays[{m, r}] \in Nat /\ LinkDelays[{r, n}] \in Nat
    BY <2>3, <2>4, PairDelay
  <2>6. sendProbeFrame(m, n, direct, dn) = LinkDelays[{m, r}] + LinkDelays[{r, n}]
    BY <1>4, <2>1 DEF sendProbeFrame
  <2> QED
    BY <2>5, <2>6
<1> QED
  BY <1>1, <1>2, <1>3, <1>4

\* The delays on the way: the recursion has a solution for routes as short as these.
LEMMA ForwardIn ==
  ASSUME NEW n \in ProbeNodes, NEW route \in Seq(ProbeNodes), Len(route) \in 1 .. 3, NEW dn
  PROVE  \A k \in 1 .. Len(route) : Forward(n, route, dn)[k] \in Nat
<1> DEFINE leg(i) == sendProbeFrame(IF i = 1 THEN n ELSE route[i - 1], route[i], i > 1, dn)
           Body(f) == [k \in 0 .. Len(route) |->
                         IF k = 0 THEN 0
                         ELSE IF leg(k) = 0 \/ (k > 1 /\ f[k - 1] = 0) THEN 0 ELSE f[k - 1] + leg(k)]
<1>1. \A i \in 1 .. Len(route) : leg(i) \in Nat
  <2> SUFFICES ASSUME NEW i \in 1 .. Len(route) PROVE leg(i) \in Nat
    OBVIOUS
  <2>1. route[i] \in ProbeNodes /\ (i # 1 => route[i - 1] \in ProbeNodes)
    BY ElementOfSeq
  <2>2. PICK m, b : m = (IF i = 1 THEN n ELSE route[i - 1]) /\ b = (i > 1)
    OBVIOUS
  <2>3. m \in ProbeNodes
    BY <2>1, <2>2
  <2>4. sendProbeFrame(m, route[i], b, dn) \in Nat
    BY <2>1, <2>3, ProbeFrame
  <2> QED
    BY <2>2, <2>4
<1>2. PICK a : a = [i \in 1 .. 3 |-> leg(i)]
  OBVIOUS
<1>0. \A i \in 0 .. Len(route) : i \in 0 .. 3 /\ (i # 0 => i \in 1 .. 3)
  <2>1. PICK len : len = Len(route)
    OBVIOUS
  <2>2. len \in 1 .. 3
    BY <2>1
  <2>3. \A i \in 0 .. len : i \in 0 .. 3 /\ (i # 0 => i \in 1 .. 3)
    BY <2>2
  <2> QED
    BY <2>1, <2>3
<1>3. \A i \in 1 .. Len(route) : leg(i) = a[i] /\ a[i] \in Nat
  <2>1. \A i \in 1 .. Len(route) : i \in 1 .. 3
    BY <1>0
  <2> HIDE DEF leg
  <2> QED
    BY <1>1, <1>2, <2>1
<1> HIDE DEF leg
<1>4. \E f : f = Body(f)
  <2> DEFINE Next(i, x) == IF a[i] = 0 \/ (i > 1 /\ x = 0) THEN 0 ELSE x + a[i]
             v1 == Next(1, 0)
             v2 == Next(2, v1)
             v3 == Next(3, v2)
  <2>1. PICK f : f = [k \in 0 .. Len(route) |->
                        IF k = 0 THEN 0 ELSE IF k = 1 THEN v1 ELSE IF k = 2 THEN v2 ELSE v3]
    OBVIOUS
  <2>2. ASSUME NEW k \in 0 .. Len(route) PROVE f[k] = Body(f)[k]
    <3>1. CASE k = 0
      BY <2>1, <3>1
    <3>2. CASE k = 1
      <4>1. f[1] = v1 /\ f[0] = 0 /\ k - 1 = 0 /\ leg(1) = a[1] /\ 1 \in 0 .. Len(route)
        BY <2>1, <3>2, <1>3
      <4>2. Body(f)[1] = IF leg(1) = 0 THEN 0 ELSE f[0] + leg(1)
        BY <4>1
      <4> QED
        BY <3>2, <4>1, <4>2
    <3>3. CASE k = 2
      <4>1. f[2] = v2 /\ f[1] = v1 /\ leg(2) = a[2] /\ 2 \in 0 .. Len(route)
        BY <2>1, <3>3, <1>3
      <4>2. Body(f)[2] = IF leg(2) = 0 \/ f[1] = 0 THEN 0 ELSE f[1] + leg(2)
        BY <4>1
      <4> HIDE DEF v1
      <4> QED
        BY <3>3, <4>1, <4>2
    <3>4. CASE k = 3
      <4>1. f[3] = v3 /\ f[2] = v2 /\ leg(3) = a[3] /\ 3 \in 0 .. Len(route)
        BY <2>1, <3>4, <1>3
      <4>2. Body(f)[3] = IF leg(3) = 0 \/ f[2] = 0 THEN 0 ELSE f[2] + leg(3)
        BY <4>1
      <4> HIDE DEF v1, v2
      <4> QED
        BY <3>4, <4>1, <4>2
    <3>5. k \in 0 .. 3
      BY <1>0
    <3>6. k = 0 \/ k = 1 \/ k = 2 \/ k = 3
      BY <3>5
    <3> HIDE DEF Body
    <3> QED
      BY <3>1, <3>2, <3>3, <3>4, <3>6
  <2>3. f = [k \in 0 .. Len(route) |-> f[k]] /\ Body(f) = [k \in 0 .. Len(route) |-> Body(f)[k]]
    BY <2>1
  <2> HIDE DEF Body
  <2> QED
    BY <2>2, <2>3
<1>5. Forward(n, route, dn) = CHOOSE f : f = Body(f)
  BY DEF Forward, leg
<1>6. PICK g : g = Forward(n, route, dn)
  OBVIOUS
<1>7. g = Body(g)
  <2> HIDE DEF Body
  <2>1. (CHOOSE h : h = Body(h)) = Body(CHOOSE h : h = Body(h))
    BY <1>4, Zenon
  <2> QED
    BY <1>5, <1>6, <2>1, Zenon
<1>8. g[0] = 0
  BY <1>7
<1>9. ASSUME NEW k \in 1 .. Len(route), g[k - 1] \in Nat PROVE g[k] \in Nat
  <2>1. g[k] = IF leg(k) = 0 \/ (k > 1 /\ g[k - 1] = 0) THEN 0 ELSE g[k - 1] + leg(k)
    <3>1. Body(g)[k] = IF leg(k) = 0 \/ (k > 1 /\ g[k - 1] = 0) THEN 0 ELSE g[k - 1] + leg(k)
      OBVIOUS
    <3> HIDE DEF Body
    <3> QED
      BY <1>7, <3>1
  <2> QED
    BY <1>1, <1>9, <2>1
<1>10. PICK len : len = Len(route)
  OBVIOUS
<1>11. len \in 1 .. 3 /\ \A k \in 1 .. len : g[k - 1] \in Nat => g[k] \in Nat
  BY <1>9, <1>10
<1>12. \A k \in 1 .. len : g[k] \in Nat
  <2> SUFFICES ASSUME NEW k \in 1 .. len PROVE g[k] \in Nat
    OBVIOUS
  <2>1. g[1 - 1] \in Nat
    BY <1>8
  <2>2. g[1] \in Nat
    BY <1>11, <2>1
  <2>3. len > 1 => 2 \in 1 .. len /\ g[2 - 1] \in Nat
    BY <1>11, <2>2
  <2>4. len > 1 => g[2] \in Nat
    BY <1>11, <2>3
  <2>5. len > 2 => 3 \in 1 .. len /\ g[3 - 1] \in Nat
    BY <1>11, <2>4
  <2>6. len > 2 => g[3] \in Nat
    BY <1>11, <2>5
  <2>7. k = 1 \/ (k = 2 /\ len > 1) \/ (k = 3 /\ len > 2)
    BY <1>11
  <2> QED
    BY <2>2, <2>4, <2>6, <2>7
<1> QED
  BY <1>6, <1>10, <1>12

LEMMA RoutesAre ==
  ASSUME NEW n \in Routers, NEW route \in enumRoutes(n)
  PROVE  route \in Seq(ProbeNodes) /\ Len(route) \in 1 .. 3 /\ route[1] \in ProbeNodes \ {n}
<1> DEFINE others == ProbeNodes \ {n, ProbeTarget}
<1>1. ProbeTarget \in ProbeNodes \ {n}
  BY ProbeNobody
<1>2. \/ route = <<ProbeTarget>>
      \/ \E v \in others : route = <<v, ProbeTarget>>
      \/ \E v \in others \X others : route = <<v[1], v[2], ProbeTarget>>
  BY DEF enumRoutes
<1>3. CASE route = <<ProbeTarget>>
  BY <1>1, <1>3
<1>4. CASE \E v \in others : route = <<v, ProbeTarget>>
  BY <1>1, <1>4
<1>5. CASE \E v \in others \X others : route = <<v[1], v[2], ProbeTarget>>
  <2>1. PICK v \in others, w \in others : route = <<v, w, ProbeTarget>>
    BY <1>5
  <2> QED
    BY <1>1, <2>1
<1> QED
  BY <1>2, <1>3, <1>4, <1>5

LEMMA RankedAre ==
  ASSUME NEW n \in Routers, NEW dn
  PROVE  AreFound(probeTargetRanked(n, dn), n)
<1> SUFFICES ASSUME NEW r \in probeTargetRanked(n, dn)
             PROVE  r \in FoundType(n) /\ Len(r.route) \in 0 .. 3
  BY DEF AreFound
<1>1. PICK route \in enumRoutes(n) : \E a \in SendProbeAll(n, route, dn) :
        r = [hop |-> route[1], route |-> route, delay |-> a.delay, far |-> route[a.hop]]
  BY DEF probeTargetRanked
<1>2. PICK a \in SendProbeAll(n, route, dn) :
        r = [hop |-> route[1], route |-> route, delay |-> a.delay, far |-> route[a.hop]]
  BY <1>1
<1>3. route \in Seq(ProbeNodes) /\ Len(route) \in 1 .. 3 /\ route[1] \in ProbeNodes \ {n}
  BY RoutesAre
<1>4. PICK k \in 1 .. Len(route) :
        a = [hop |-> k, delay |-> Forward(n, route, dn)[k] + sendProbeFrame(route[k], n, FALSE, dn)]
  BY DEF SendProbeAll
<1>5. route[k] \in ProbeNodes /\ n \in ProbeNodes
  BY <1>3, ElementOfSeq, ProbeNobody
<1>6. Forward(n, route, dn)[k] \in Nat
  BY <1>3, <1>5, ForwardIn
<1>7. sendProbeFrame(route[k], n, FALSE, dn) \in Nat
  BY <1>5, ProbeFrame
<1>8. a.delay \in Nat /\ a.hop = k
  <2>1. PICK x, y : x = Forward(n, route, dn)[k] /\ y = sendProbeFrame(route[k], n, FALSE, dn)
    OBVIOUS
  <2>2. x \in Nat /\ y \in Nat
    BY <1>6, <1>7, <2>1
  <2>3. x + y \in Nat
    BY <2>2
  <2>4. a = [hop |-> k, delay |-> x + y]
    BY <1>4, <2>1, Zenon
  <2> QED
    BY <2>3, <2>4
<1>9. Len(route) \in 0 .. 3
  BY <1>3
<1> QED
  BY <1>2, <1>3, <1>5, <1>8, <1>9 DEF FoundType

LEMMA FoundAre ==
  ASSUME ProbeInv, NEW n \in Routers
  PROVE  AreFound(Found(n), n)
<1>1. \E r \in ProbeResults : r.node = n /\ r.down = down
  <2>1. down \in SUBSET ChangingLinks
    BY DEF ProbeInv
  <2>2. PICK r : r = [node |-> n, down |-> down, found |-> probeTargetRanked(n, down)]
    OBVIOUS
  <2>3. r \in ProbeResults
    BY <2>1, <2>2 DEF ProbeResults
  <2> QED
    BY <2>2, <2>3
<1>2. PICK r : r = CHOOSE x \in ProbeResults : x.node = n /\ x.down = down
  OBVIOUS
<1>3. r \in ProbeResults /\ r.node = n
  BY <1>1, <1>2
<1>4. r.found = probeTargetRanked(n, down)
  <2>1. PICK m \in Routers, dn \in SUBSET ChangingLinks :
          r = [node |-> m, down |-> dn, found |-> probeTargetRanked(m, dn)]
    BY <1>3 DEF ProbeResults
  <2>2. m = n /\ dn = down
    BY <1>1, <1>2, <2>1
  <2> QED
    BY <2>1, <2>2
<1> QED
  BY <1>2, <1>4, RankedAre DEF Found

-----------------------------------------------------------------------------
(* Rounds.                                                                 *)

LEMMA ProbeApplied ==
  ASSUME ProbeInv, NEW n \in Routers, NEW b, Settled(b, n), NEW ranked, ranked \subseteq HopType(n),
         Applied(n, b, ranked), \A s \in syncs' : s.from \in Routers /\ s.to \in Routers,
         UNCHANGED <<down, peers, peerRoutes, probeBounds>>
  PROVE  ProbeInv'
<1>1. /\ DOMAIN round' = Routers /\ round'[n] = NoRound /\ \A m \in Routers : m # n => round'[m] = round[m]
      /\ DOMAIN best' = Routers /\ best'[n] = b /\ \A m \in Routers : m # n => best'[m] = best[m]
      /\ DOMAIN rankedHops' = Routers /\ rankedHops'[n] = ranked
      /\ \A m \in Routers : m # n => rankedHops'[m] = rankedHops[m]
  BY DEF ProbeInv, Applied
<1>2. /\ DOMAIN savedHop' = Routers /\ savedHop'[n] \in {savedHop[n], b.hop}
      /\ b.hop \in (ProbeNodes \ {n}) \cup {NoNode}
      /\ \A m \in Routers : m # n => savedHop'[m] = savedHop[m]
  BY DEF ProbeInv, Applied, Settled, RouteType
<1>3. maxHops' \in [Routers -> 1 .. 3]
  <2>1. PICK k : k = IF Len(b.route) > 1 /\ ~b.stale THEN Len(b.route) ELSE 1
    OBVIOUS
  <2>2. k \in 1 .. 3
    BY <2>1 DEF Settled
  <2> QED
    BY <2>1, <2>2 DEF ProbeInv, Applied
<1>4. AreFound(NoRound.found, n)
  BY DEF NoRound, AreFound
<1>5. \A m \in Routers : savedHop'[m] \in (ProbeNodes \ {m}) \cup {NoNode}
  BY <1>2 DEF ProbeInv
<1>6. \A m \in Routers :
        AreFound(round'[m].found, m) /\ Settled(best'[m], m) /\ rankedHops'[m] \subseteq HopType(m)
  BY <1>1, <1>4 DEF ProbeInv
<1> QED
  BY <1>1, <1>2, <1>3, <1>5, <1>6 DEF ProbeInv

LEMMA ProbeChosen ==
  ASSUME NEW n \in Routers, NEW r, r \in FoundType(n), Len(r.route) \in 0 .. 3
  PROVE  Settled(Chosen(r), n) /\ Settled([Chosen(r) EXCEPT !.route = <<>>], n)
<1>1. <<>> \in Seq(ProbeNodes) /\ Len(<<>>) = 0
  OBVIOUS
<1>2. Chosen(r) \in RouteType(n) /\ Chosen(r).route = r.route
  BY DEF Chosen, FoundType, RouteType
<1>3. [Chosen(r) EXCEPT !.route = <<>>] \in RouteType(n) /\ [Chosen(r) EXCEPT !.route = <<>>].route = <<>>
  BY <1>1, <1>2 DEF RouteType
<1> QED
  BY <1>1, <1>2, <1>3 DEF Settled

LEMMA ProbeFinish ==
  ASSUME ProbeInv, NEW n \in Routers, FinishRound(n)
  PROVE  ProbeInv'
<1> DEFINE found == round[n].found
<1>1. AreFound(found, n)
  BY DEF ProbeInv
<1>2. UNCHANGED <<down, peers, peerRoutes, probeBounds>>
  BY DEF FinishRound
<1>3. CASE /\ found = {}
           /\ Applied(n, IF round[n].hasTarget /\ best[n] # NoBest
                         THEN [best[n] EXCEPT !.stale = TRUE] ELSE NoBest, {})
           /\ UNCHANGED syncs
  <2>1. PICK b : b = IF round[n].hasTarget /\ best[n] # NoBest
                     THEN [best[n] EXCEPT !.stale = TRUE] ELSE NoBest
    OBVIOUS
  <2>2. Settled([best[n] EXCEPT !.stale = TRUE], n)
    <3>1. best[n] \in RouteType(n) /\ Len(best[n].route) \in 0 .. 3
      BY DEF ProbeInv, Settled
    <3>2. [best[n] EXCEPT !.stale = TRUE] \in RouteType(n)
          /\ [best[n] EXCEPT !.stale = TRUE].route = best[n].route
      BY <3>1 DEF RouteType
    <3> QED
      BY <3>1, <3>2 DEF Settled
  <2>3. Settled(b, n)
    BY <2>1, <2>2, ProbeNobody
  <2>4. \A s \in syncs' : s.from \in Routers /\ s.to \in Routers
    BY <1>3 DEF ProbeInv
  <2>5. Applied(n, b, {}) /\ {} \subseteq HopType(n)
    BY <1>3, <2>1
  <2> QED
    BY <1>2, <2>3, <2>4, <2>5, ProbeApplied
<1>4. CASE \E first \in Nearest(found) : \E r \in Kept(n, found, first) :
             /\ \E b \in checkLoopAndYield(n, Chosen(r), found, first) : Applied(n, b, Ranked(found))
             /\ syncs' = {s \in syncs : s.from # n} \cup Broadcast(n, Chosen(r))
  <2>0. PICK first \in Nearest(found) : \E r \in Kept(n, found, first) :
             /\ \E b \in checkLoopAndYield(n, Chosen(r), found, first) : Applied(n, b, Ranked(found))
             /\ syncs' = {s \in syncs : s.from # n} \cup Broadcast(n, Chosen(r))
    BY <1>4
  <2>1. PICK r \in Kept(n, found, first) :
             /\ \E b \in checkLoopAndYield(n, Chosen(r), found, first) : Applied(n, b, Ranked(found))
             /\ syncs' = {s \in syncs : s.from # n} \cup Broadcast(n, Chosen(r))
    BY <2>0
  <2>2. PICK b \in checkLoopAndYield(n, Chosen(r), found, first) : Applied(n, b, Ranked(found))
    BY <2>1
  <2>3. first \in found /\ r \in found
    BY DEF Nearest, Kept
  <2>4. b = Chosen(r) \/ \E o \in found : b = [Chosen(o) EXCEPT !.route = <<>>]
    BY <2>2 DEF checkLoopAndYield, Nearest
  <2>5. Settled(b, n)
    BY <1>1, <2>3, <2>4, ProbeChosen DEF AreFound
  <2>6. Ranked(found) \subseteq HopType(n)
    <3> SUFFICES ASSUME NEW h \in Ranked(found) PROVE h \in HopType(n)
      OBVIOUS
    <3>1. PICK o \in found : h = [hop |-> o.hop, delay |-> o.delay, far |-> o.far]
      BY DEF Ranked
    <3>2. o \in FoundType(n)
      BY <1>1, <3>1 DEF AreFound
    <3> QED
      BY <3>1, <3>2 DEF FoundType, HopType
  <2>7. \A s \in syncs' : s.from \in Routers /\ s.to \in Routers
    BY <2>1 DEF Broadcast, ProbeInv
  <2> QED
    BY <1>2, <2>2, <2>5, <2>6, <2>7, ProbeApplied
<1> QED
  BY <1>3, <1>4 DEF FinishRound

LEMMA ProbeStart ==
  ASSUME ProbeInv, NEW n \in Routers, StartRound(n)
  PROVE  ProbeInv'
<1>1. PICK f : f = IF ProbeTarget \in peers[n] THEN Found(n) ELSE {}
  OBVIOUS
<1>2. AreFound(f, n)
  BY <1>1, FoundAre, ProbeNobody
<1>3. round' = [round EXCEPT ![n] = [running |-> TRUE, hasTarget |-> ProbeTarget \in peers[n], found |-> f]]
  BY <1>1 DEF StartRound
<1>4. DOMAIN round' = Routers /\ \A m \in Routers : AreFound(round'[m].found, m)
  BY <1>2, <1>3 DEF ProbeInv
<1> QED
  BY <1>4 DEF StartRound, ProbeInv

LEMMA ProbeRestart ==
  ASSUME ProbeInv, NEW n \in Routers, RestartRouter(n)
  PROVE  ProbeInv'
<1>1. PICK hops : hops = IF savedHop[n] = NoNode THEN {}
                         ELSE {[hop |-> savedHop[n], delay |-> 0, far |-> ProbeTarget]}
  OBVIOUS
<1>2. hops \subseteq HopType(n)
  BY <1>1, ProbeNobody DEF ProbeInv, HopType
<1>3. /\ round' = [round EXCEPT ![n] = NoRound] /\ best' = [best EXCEPT ![n] = NoBest]
      /\ maxHops' = [maxHops EXCEPT ![n] = 3] /\ rankedHops' = [rankedHops EXCEPT ![n] = hops]
      /\ UNCHANGED <<down, peers, syncs, savedHop>>
  BY <1>1 DEF RestartRouter
<1>4. AreFound(NoRound.found, n) /\ Settled(NoBest, n)
  BY ProbeNobody DEF NoRound
<1>5. maxHops' \in [Routers -> 1 .. 3]
  BY <1>3 DEF ProbeInv
<1>6. /\ DOMAIN round' = Routers /\ DOMAIN best' = Routers /\ DOMAIN rankedHops' = Routers
      /\ \A m \in Routers :
           AreFound(round'[m].found, m) /\ Settled(best'[m], m) /\ rankedHops'[m] \subseteq HopType(m)
  BY <1>2, <1>3, <1>4 DEF ProbeInv
<1> QED
  BY <1>3, <1>5, <1>6 DEF ProbeInv

LEMMA ProbeInvNext == ProbeInv /\ [ProbeNext]_probeVars => ProbeInv'
<1> SUFFICES ASSUME ProbeInv, [ProbeNext]_probeVars PROVE ProbeInv'
  OBVIOUS
<1>1. ASSUME NEW n \in Routers, SetPeers(n) PROVE ProbeInv'
  <2>2. PICK p \in SUBSET ProbeNodes : peers' = [peers EXCEPT ![n] = p]
    BY <1>1 DEF SetPeers
  <2>3. peers' \in [Routers -> SUBSET ProbeNodes]
    BY <2>2 DEF ProbeInv
  <2> QED
    BY <1>1, <2>3 DEF SetPeers, ProbeInv
<1>2. ASSUME NEW s \in syncs, ReceiveRouteSync(s) PROVE ProbeInv'
  BY <1>2 DEF ReceiveRouteSync, ProbeInv
<1>3. ASSUME NEW s \in syncs, SyncLost(s) PROVE ProbeInv'
  BY <1>3 DEF SyncLost, routerVars, ProbeInv
<1>4. ASSUME NEW p \in ChangingLinks, LinkChanges(p) PROVE ProbeInv'
  BY <1>4 DEF LinkChanges, routerVars, ProbeInv
<1>5. CASE UNCHANGED probeVars
  BY <1>5 DEF probeVars, routerVars, ProbeInv
<1> QED
  BY <1>1, <1>2, <1>3, <1>4, <1>5, ProbeStart, ProbeFinish, ProbeRestart
     DEF ProbeNext, RouterStep, RoundStep, SyncStep

-----------------------------------------------------------------------------
(* Links.                                                                  *)

Loops == {"direct", "relay"}
LoopLinks(loop) == IF loop = "direct" THEN DirectLinks ELSE RelayLinks
LoopRec == [phase : {"rest", "probe"}, todo : SUBSET Links, link : Links \cup {NoLink},
            event : {"Healthy", "Degraded", "Down", "none"}]

LinkTypes ==
    /\ fsmConfig \in LinkConfigs
    /\ targets \subseteq DirectLinks /\ activeLinks \subseteq DirectLinks /\ missed \subseteq Links
    /\ path \in [Links -> Rtts \cup {0}] /\ DOMAIN view = Links
    /\ machine \in [DOMAIN machine -> MachineType] /\ DOMAIN machine \subseteq Links
    /\ DOMAIN machine = DOMAIN sample /\ DOMAIN reported \subseteq DOMAIN sample
    /\ prober \in [Loops -> LoopRec]
    /\ \A loop \in Loops : prober[loop].todo \subseteq LoopLinks(loop)

\* The controller knows the state of a link without a machine too: it is what a new
\* machine starts with.
StatesKnown == \A l \in Links : l \in missed \/ l \in Announcing \/ view[l] = MachineOf(l).state

LinkInv == LinkTypes /\ StatesKnown

LEMMA LinkInvProperties == LinkInv => LinkTypeOK /\ ControllerKnowsState
BY DEF LinkInv, LinkTypes, LinkTypeOK, StatesKnown, ControllerKnowsState, MachineOf

LEMMA LinkConstants ==
    /\ Rtts \subseteq Nat \ {0} /\ NoLink \notin Links
    /\ DirectLinks \subseteq Links /\ RelayLinks \subseteq Links
BY LinkAssumption DEF Links

LEMMA LinkThresholds ==
  ASSUME fsmConfig \in LinkConfigs
  PROVE  fsmConfig.downConfirm \in Nat /\ fsmConfig.hold \in Nat /\ fsmConfig.recover \in Nat
BY LinkAssumption

\* The thresholds are those the node started with.
LEMMA LinkConfigKept ==
  ASSUME fsmConfig' = fsmConfig
  PROVE  MachineType' = MachineType
BY DEF MachineType

LEMMA LinkInvInit == LinkInit => LinkInv
<1> SUFFICES ASSUME LinkInit PROVE LinkInv
  OBVIOUS
<1>1. Resting \in LoopRec /\ Resting.todo = {}
  BY DEF Resting, LoopRec
<1>2. prober \in [Loops -> LoopRec] /\ \A loop \in Loops : prober[loop].todo = {}
  BY <1>1 DEF LinkInit, Loops
<1>3. DOMAIN Empty = {} /\ Empty \in [{} -> MachineType]
  BY DEF Empty
<1>4. StatesKnown
  BY <1>3 DEF LinkInit, StatesKnown, MachineOf, NewMachine
<1>5. fsmConfig \in LinkConfigs /\ path \in [Links -> Rtts \cup {0}] /\ DOMAIN view = Links /\ targets = {} /\ activeLinks = {} /\ missed = {}
      /\ machine = Empty /\ sample = Empty /\ reported = Empty
  BY DEF LinkInit
<1>6. LinkTypes
  BY <1>2, <1>3, <1>5 DEF LinkTypes
<1> QED
  BY <1>4, <1>6 DEF LinkInv

-----------------------------------------------------------------------------
(* The machine of a link keeps to its type.                                *)

LEMMA NewMachineType ==
  ASSUME fsmConfig \in LinkConfigs
  PROVE  NewMachine \in MachineType
BY LinkThresholds DEF NewMachine, MachineType, NoTimer

LEMMA StartedType ==
  ASSUME NEW limit \in Nat, NEW t \in NoTimer .. limit
  PROVE  Started(t) \in NoTimer .. limit /\ NoTimer \in NoTimer .. limit
BY DEF Started, NoTimer

LEMMA MachineFields ==
  ASSUME fsmConfig \in LinkConfigs, NEW m \in MachineType
  PROVE  /\ m.state \in {"Healthy", "Degraded", "Down"} /\ m.fails \in 0 .. fsmConfig.downConfirm
         /\ m.base \in Nat /\ m.degrading \in NoTimer .. fsmConfig.hold
         /\ m.recovering \in NoTimer .. fsmConfig.recover
         /\ Started(m.degrading) \in NoTimer .. fsmConfig.hold
         /\ Started(m.recovering) \in NoTimer .. fsmConfig.recover
         /\ NoTimer \in NoTimer .. fsmConfig.hold /\ NoTimer \in NoTimer .. fsmConfig.recover
<1>1. /\ m.state \in {"Healthy", "Degraded", "Down"} /\ m.fails \in 0 .. fsmConfig.downConfirm
      /\ m.base \in Nat /\ m.degrading \in NoTimer .. fsmConfig.hold
      /\ m.recovering \in NoTimer .. fsmConfig.recover
  BY DEF MachineType
<1> QED
  BY <1>1, StartedType, LinkThresholds

LEMMA ObserveFailType ==
  ASSUME fsmConfig \in LinkConfigs, NEW m \in MachineType
  PROVE  ObserveFail(m) \in MachineType
<1>1. PICK f, d, s : /\ f = IF ToDown(m) THEN fsmConfig.downConfirm ELSE m.fails + 1
                     /\ d = IF ToDown(m) THEN NoTimer ELSE m.degrading
                     /\ s = IF ToDown(m) THEN "Down" ELSE m.state
  OBVIOUS
<1>2. f \in 0 .. fsmConfig.downConfirm
  BY <1>1, MachineFields, LinkThresholds DEF ToDown
<1>3. d \in NoTimer .. fsmConfig.hold /\ s \in {"Healthy", "Degraded", "Down"}
      /\ NoTimer \in NoTimer .. fsmConfig.recover
  BY <1>1, MachineFields
<1>4. ObserveFail(m) = [m EXCEPT !.fails = f, !.recovering = NoTimer, !.degrading = d, !.state = s]
  BY <1>1 DEF ObserveFail
<1> QED
  BY <1>2, <1>3, <1>4 DEF MachineType

LEMMA ObserveHealthyType ==
  ASSUME fsmConfig \in LinkConfigs, NEW m \in MachineType, NEW rtt \in Nat, NEW b \in Nat
  PROVE  ObserveHealthy(m, rtt, b) \in MachineType
<1>1. /\ Started(m.degrading) \in NoTimer .. fsmConfig.hold
      /\ NoTimer \in NoTimer .. fsmConfig.hold /\ NoTimer \in NoTimer .. fsmConfig.recover
  BY MachineFields
<1> QED
  BY <1>1 DEF ObserveHealthy, MachineType

LEMMA ObserveUnhealthyType ==
  ASSUME fsmConfig \in LinkConfigs, NEW m \in MachineType, NEW rtt \in Nat
  PROVE  ObserveUnhealthy(m, rtt) \in MachineType
<1>1. /\ Started(m.recovering) \in NoTimer .. fsmConfig.recover
      /\ NoTimer \in NoTimer .. fsmConfig.hold /\ NoTimer \in NoTimer .. fsmConfig.recover
  BY MachineFields
<1> QED
  BY <1>1 DEF ObserveUnhealthy, MachineType

LEMMA ObserveType ==
  ASSUME fsmConfig \in LinkConfigs, NEW m \in MachineType, NEW rtt \in Rtts \cup {0}, NEW o \in Observe(m, rtt)
  PROVE  o \in MachineType
<1>1. rtt \in Nat
  BY LinkConstants
<1>2. CASE rtt = 0
  BY <1>2, ObserveFailType DEF Observe
<1>3. CASE rtt # 0
  <2>1. PICK s : s = Succeeded(m, rtt)
    OBVIOUS
  <2>2. s \in MachineType
    <3>1. PICK b : b = IF m.base = 0 THEN rtt ELSE m.base
      OBVIOUS
    <3>2. b \in Nat /\ 0 \in 0 .. fsmConfig.downConfirm
      BY <3>1, <1>1, MachineFields, LinkThresholds
    <3>3. s = [m EXCEPT !.fails = 0, !.base = b]
      BY <2>1, <3>1 DEF Succeeded
    <3> QED
      BY <3>2, <3>3 DEF MachineType
  <2>3. \A b \in Smoothed(s, rtt) : b \in Nat
    BY <2>2, <1>1, MachineFields DEF Smoothed
  <2>4. (\E b \in Smoothed(s, rtt) : o = ObserveHealthy(s, rtt, b)) \/ o = ObserveUnhealthy(s, rtt)
    BY <1>3, <2>1 DEF Observe
  <2> QED
    BY <1>1, <2>2, <2>3, <2>4, ObserveHealthyType, ObserveUnhealthyType
<1> QED
  BY <1>2, <1>3

-----------------------------------------------------------------------------
(* The steps.                                                              *)

LEMMA AnnouncingIs == Announcing = {prober["direct"].link, prober["relay"].link}
BY DEF Announcing

LEMMA LinkOnProbe ==
  ASSUME LinkInv, NEW loop \in Loops, NEW l \in Links, OnProbe(loop, l)
  PROVE  LinkInv'
<1>1. PICK m \in Observe(MachineOf(l), path[l]) :
        /\ machine' = With(machine, l, m)
        /\ prober' = [prober EXCEPT ![loop].todo = @ \ {l},
                                    ![loop].link = IF m.state # MachineOf(l).state THEN l ELSE NoLink,
                                    ![loop].event = IF m.state # MachineOf(l).state THEN m.state ELSE "none"]
  BY DEF OnProbe
<1>2. MachineOf(l) \in MachineType
  BY NewMachineType DEF MachineOf, LinkInv, LinkTypes
<1>3. m \in MachineType
  BY <1>1, <1>2, ObserveType DEF LinkInv, LinkTypes
<1>4. /\ DOMAIN machine' = DOMAIN machine \cup {l} /\ machine'[l] = m
      /\ \A k \in DOMAIN machine : k # l => machine'[k] = machine[k]
      /\ machine' = [k \in DOMAIN machine' |-> machine'[k]]
  BY <1>1 DEF With
<1>5. machine' \in [DOMAIN machine' -> MachineType] /\ DOMAIN machine' \subseteq Links
  BY <1>3, <1>4 DEF LinkInv, LinkTypes
<1>6. DOMAIN sample' = DOMAIN machine' /\ DOMAIN reported' \subseteq DOMAIN sample'
  BY <1>4 DEF OnProbe, With, LinkInv, LinkTypes
<1>7. PICK r : r = [prober[loop] EXCEPT !.todo = @ \ {l},
                                        !.link = IF m.state # MachineOf(l).state THEN l ELSE NoLink,
                                        !.event = IF m.state # MachineOf(l).state THEN m.state ELSE "none"]
  OBVIOUS
<1>8. prober' = [prober EXCEPT ![loop] = r]
  BY <1>1, <1>7
<1>9. prober[loop] \in LoopRec /\ prober[loop].link = NoLink
  BY DEF LinkInv, LinkTypes, OnProbe
<1>10. r \in LoopRec /\ r.todo \subseteq prober[loop].todo
       /\ r.link = IF m.state # MachineOf(l).state THEN l ELSE NoLink
  <2>1. m.state \in {"Healthy", "Degraded", "Down"}
    BY <1>3 DEF MachineType
  <2> QED
    BY <2>1, <1>7, <1>9 DEF LoopRec
<1>11. /\ prober' \in [Loops -> LoopRec] /\ prober'[loop] = r
       /\ \A k \in Loops : k # loop => prober'[k] = prober[k]
       /\ \A k \in Loops : prober'[k].todo \subseteq LoopLinks(k)
  BY <1>8, <1>10 DEF LinkInv, LinkTypes
<1>12. LinkTypes'
  BY <1>5, <1>6, <1>11, LinkConfigKept DEF OnProbe, LinkInv, LinkTypes
<1>13. ASSUME NEW k \in Links PROVE k \in missed' \/ k \in Announcing' \/ view'[k] = MachineOf(k)'.state
  <2>1. k \in missed \/ k \in Announcing \/ view[k] = MachineOf(k).state
    BY DEF LinkInv, StatesKnown
  <2>2. k \in Announcing => k \in Announcing'
    <3>1. k # NoLink
      BY LinkConstants
    <3>2. Announcing' = {prober'["direct"].link, prober'["relay"].link}
      BY DEF Announcing
    <3> QED
      BY <3>1, <3>2, <1>9, <1>11, AnnouncingIs DEF Loops
  <2>3. CASE k = l
    <3>1. MachineOf(l)' = m
      BY <1>4 DEF MachineOf
    <3>2. m.state # MachineOf(l).state => l \in Announcing'
      BY <1>10, <1>11 DEF Announcing, Loops
    <3> QED
      BY <2>1, <2>2, <2>3, <3>1, <3>2 DEF OnProbe
  <2>4. CASE k # l
    <3>1. MachineOf(k)' = MachineOf(k)
      BY <2>4, <1>4 DEF MachineOf
    <3> QED
      BY <2>1, <2>2, <3>1 DEF OnProbe
  <2> QED
    BY <2>3, <2>4
<1>14. StatesKnown'
  BY <1>13 DEF StatesKnown
<1> QED
  BY <1>12, <1>14 DEF LinkInv

LEMMA LinkSent ==
  ASSUME LinkInv, NEW loop \in Loops, SendEvent(loop)
  PROVE  /\ prober' \in [Loops -> LoopRec] /\ \A k \in Loops : prober'[k].todo \subseteq LoopLinks(k)
         /\ \A k \in Links : k \in Announcing /\ k # prober[loop].link => k \in Announcing'
<1>1. PICK r : r = [prober[loop] EXCEPT !.link = NoLink, !.event = "none"]
  OBVIOUS
<1>2. prober[loop] \in LoopRec
  BY DEF LinkInv, LinkTypes
<1>3. r \in LoopRec /\ r.todo = prober[loop].todo
  BY <1>1, <1>2 DEF LoopRec
<1>4. prober' = [prober EXCEPT ![loop] = r]
  BY <1>1 DEF SendEvent
<1>5. /\ prober' \in [Loops -> LoopRec] /\ prober'[loop] = r
      /\ \A k \in Loops : k # loop => prober'[k] = prober[k]
      /\ \A k \in Loops : prober'[k].todo \subseteq LoopLinks(k)
  BY <1>3, <1>4 DEF LinkInv, LinkTypes
<1>6. \A k \in Links : k \in Announcing /\ k # prober[loop].link => k \in Announcing'
  BY <1>5, AnnouncingIs DEF Announcing, Loops
<1> QED
  BY <1>5, <1>6

LEMMA LinkEventArrives ==
  ASSUME LinkInv, NEW loop \in Loops, EventArrives(loop)
  PROVE  LinkInv'
<1>1. PICK l : l = prober[loop].link
  OBVIOUS
<1>2. l \in Links
  BY <1>1 DEF EventArrives, LinkInv, LinkTypes, LoopRec
<1>3. /\ view' = [view EXCEPT ![l] = prober[loop].event]
      /\ missed' = IF MachineOf(l).state = prober[loop].event THEN missed \ {l} ELSE missed \cup {l}
      /\ SendEvent(loop) /\ UNCHANGED <<fsmConfig, targets, path, machine, sample, reported, activeLinks>>
  BY <1>1 DEF EventArrives, reporterVars
<1>4. LinkTypes'
  BY <1>2, <1>3, LinkSent, LinkConfigKept DEF LinkInv, LinkTypes
<1>5. ASSUME NEW k \in Links PROVE k \in missed' \/ k \in Announcing' \/ view'[k] = MachineOf(k)'.state
  <2>1. MachineOf(k)' = MachineOf(k)
    BY <1>3 DEF MachineOf
  <2>2. k \in missed \/ k \in Announcing \/ view[k] = MachineOf(k).state
    BY DEF LinkInv, StatesKnown
  <2>3. CASE k = l
    BY <2>1, <2>3, <1>2, <1>3 DEF LinkInv, LinkTypes
  <2>4. CASE k # l
    <3>1. view'[k] = view[k] /\ (k \in missed => k \in missed') /\ (k \in Announcing => k \in Announcing')
      BY <2>4, <1>1, <1>3, LinkSent DEF LinkInv, LinkTypes
    <3> QED
      BY <2>1, <2>2, <3>1
  <2> QED
    BY <2>3, <2>4
<1>6. StatesKnown'
  BY <1>5 DEF StatesKnown
<1> QED
  BY <1>4, <1>6 DEF LinkInv

LEMMA LinkEventLost ==
  ASSUME LinkInv, NEW loop \in Loops, EventLost(loop)
  PROVE  LinkInv'
<1>1. /\ missed' = missed \cup {prober[loop].link} /\ prober[loop].link \in Links
      /\ SendEvent(loop) /\ UNCHANGED <<fsmConfig, targets, path, machine, sample, reported, activeLinks, view>>
  BY DEF EventLost, reporterVars, LinkInv, LinkTypes, LoopRec
<1>2. LinkTypes'
  BY <1>1, LinkSent, LinkConfigKept DEF LinkInv, LinkTypes
<1>3. StatesKnown'
  BY <1>1, LinkSent DEF LinkInv, StatesKnown, MachineOf
<1> QED
  BY <1>2, <1>3 DEF LinkInv

\* A loop that starts over or rests; none of them is about to announce a link.
LEMMA LinkLoop ==
  ASSUME LinkInv, NEW loop \in Loops, NEW r \in LoopRec, prober' = [prober EXCEPT ![loop] = r],
         r.todo \subseteq LoopLinks(loop), r.link = prober[loop].link
  PROVE  /\ prober' \in [Loops -> LoopRec] /\ \A k \in Loops : prober'[k].todo \subseteq LoopLinks(k)
         /\ Announcing' = Announcing
<1>1. /\ prober' \in [Loops -> LoopRec] /\ prober'[loop] = r
      /\ \A k \in Loops : k # loop => prober'[k] = prober[k]
      /\ \A k \in Loops : prober'[k].todo \subseteq LoopLinks(k)
  BY DEF LinkInv, LinkTypes
<1>2. \A k \in Loops : prober'[k].link = prober[k].link
  BY <1>1
<1> QED
  BY <1>1, <1>2 DEF Announcing, Loops

LEMMA LinkResting == Resting \in LoopRec /\ Resting.link = NoLink /\ Resting.todo = {}
BY DEF Resting, LoopRec

LEMMA LinkDirectStart ==
  ASSUME LinkInv, DirectStart
  PROVE  LinkInv'
<1>1. PICK r : r = [prober["direct"] EXCEPT !.phase = "probe", !.todo = targets]
  OBVIOUS
<1>2. prober["direct"] \in LoopRec /\ "direct" \in Loops /\ targets \subseteq Links /\ LoopLinks("direct") = DirectLinks
  BY LinkConstants DEF LinkInv, LinkTypes, Loops, LoopLinks
<1>3. r \in LoopRec /\ r.todo \subseteq LoopLinks("direct") /\ r.link = prober["direct"].link
  BY <1>1, <1>2 DEF LoopRec, LinkInv, LinkTypes
<1>4. prober' = [prober EXCEPT !["direct"] = r]
  BY <1>1 DEF DirectStart
<1>5. /\ prober' \in [Loops -> LoopRec] /\ \A k \in Loops : prober'[k].todo \subseteq LoopLinks(k)
      /\ Announcing' = Announcing
  BY <1>2, <1>3, <1>4, LinkLoop
<1>6. /\ DOMAIN machine' = DOMAIN machine \cap targets /\ \A l \in DOMAIN machine' : machine'[l] = machine[l]
      /\ machine' \in [DOMAIN machine' -> MachineType]
      /\ DOMAIN sample' = DOMAIN sample \cap targets /\ DOMAIN reported' = DOMAIN reported \cap targets
  BY DEF DirectStart, Within, LinkInv, LinkTypes
<1>7. missed \subseteq missed' /\ missed' \subseteq Links
  BY DEF DirectStart, LinkInv, LinkTypes
<1>8. LinkTypes'
  BY <1>5, <1>6, <1>7, LinkConfigKept DEF DirectStart, LinkInv, LinkTypes
<1>9. ASSUME NEW l \in Links PROVE l \in missed' \/ l \in Announcing' \/ view'[l] = MachineOf(l)'.state
  <2>1. l \in missed \/ l \in Announcing \/ view[l] = MachineOf(l).state
    BY DEF LinkInv, StatesKnown
  <2>2. CASE l \in DOMAIN machine \ targets
    <3>1. l \in missed' \/ view[l] = "Healthy"
      BY <2>2 DEF DirectStart
    <3>2. MachineOf(l)' = NewMachine
      BY <2>2, <1>6 DEF MachineOf
    <3> QED
      BY <3>1, <3>2 DEF DirectStart, NewMachine
  <2>3. CASE l \notin DOMAIN machine \ targets
    <3>1. MachineOf(l)' = MachineOf(l)
      BY <2>3, <1>6 DEF MachineOf
    <3> QED
      BY <2>1, <3>1, <1>5, <1>7 DEF DirectStart
  <2> QED
    BY <2>2, <2>3
<1>10. StatesKnown'
  BY <1>9 DEF StatesKnown
<1> QED
  BY <1>8, <1>10 DEF LinkInv

\* Steps of a loop that leave the machines and what is known of them.
LEMMA LinkLoopOnly ==
  ASSUME LinkInv, NEW loop \in Loops, NEW r \in LoopRec, prober' = [prober EXCEPT ![loop] = r],
         r.todo \subseteq LoopLinks(loop), r.link = prober[loop].link,
         DOMAIN reported' \subseteq DOMAIN sample,
         UNCHANGED <<fsmConfig, targets, path, machine, sample, activeLinks, view, missed>>
  PROVE  LinkInv'
<1>1. /\ prober' \in [Loops -> LoopRec] /\ \A k \in Loops : prober'[k].todo \subseteq LoopLinks(k)
      /\ Announcing' = Announcing
  BY LinkLoop
<1>2. LinkTypes'
  BY <1>1, LinkConfigKept DEF LinkInv, LinkTypes
<1>3. StatesKnown'
  BY <1>1 DEF LinkInv, StatesKnown, MachineOf
<1> QED
  BY <1>2, <1>3 DEF LinkInv

LEMMA LinkTimePasses ==
  ASSUME LinkInv, TimePasses
  PROVE  LinkInv'
<1> DEFINE Aged(m) == [m EXCEPT !.degrading = Older(@, fsmConfig.hold), !.recovering = Older(@, fsmConfig.recover)]
<1>0. fsmConfig \in LinkConfigs
  BY DEF LinkInv, LinkTypes
<1>1. ASSUME NEW limit \in Nat, NEW t \in NoTimer .. limit PROVE Older(t, limit) \in NoTimer .. limit
  BY <1>1 DEF Older, NoTimer
<1>2. ASSUME NEW m \in MachineType PROVE Aged(m) \in MachineType /\ Aged(m).state = m.state
  <2>1. Older(m.degrading, fsmConfig.hold) \in NoTimer .. fsmConfig.hold
        /\ Older(m.recovering, fsmConfig.recover) \in NoTimer .. fsmConfig.recover
    BY <1>1, <1>0, MachineFields, LinkThresholds
  <2> QED
    BY <2>1 DEF MachineType
<1>3. machine' = [l \in DOMAIN machine |-> Aged(machine[l])]
  BY DEF TimePasses
<1> HIDE DEF Aged
<1>4. machine' \in [DOMAIN machine -> MachineType] /\ DOMAIN machine' = DOMAIN machine
      /\ \A l \in DOMAIN machine : machine'[l].state = machine[l].state
  BY <1>2, <1>3 DEF LinkInv, LinkTypes
<1>5. UNCHANGED <<fsmConfig, targets, path, sample, reported, activeLinks, prober, view, missed>>
  BY DEF TimePasses
<1>6. LinkTypes'
  BY <1>4, <1>5, LinkConfigKept DEF LinkInv, LinkTypes
<1>7. \A l \in Links : MachineOf(l)'.state = MachineOf(l).state
  BY <1>4 DEF MachineOf
<1>8. StatesKnown'
  BY <1>5, <1>7 DEF LinkInv, StatesKnown, Announcing
<1> QED
  BY <1>6, <1>8 DEF LinkInv

LEMMA LinkInvNext == LinkInv /\ [LinkNext]_linkVars => LinkInv'
<1> SUFFICES ASSUME LinkInv, [LinkNext]_linkVars PROVE LinkInv'
  OBVIOUS
<1>1. CASE RelayStart
  <2>1. PICK r : r = [prober["relay"] EXCEPT !.phase = "probe", !.todo = RelayLinks]
    OBVIOUS
  <2>2. prober["relay"] \in LoopRec /\ "relay" \in Loops /\ LoopLinks("relay") = RelayLinks
    BY DEF LinkInv, LinkTypes, Loops, LoopLinks
  <2>3. r \in LoopRec /\ r.todo \subseteq LoopLinks("relay") /\ r.link = prober["relay"].link
    BY <2>1, <2>2, LinkConstants DEF LoopRec
  <2>4. prober' = [prober EXCEPT !["relay"] = r]
        /\ UNCHANGED <<fsmConfig, targets, path, machine, sample, reported, activeLinks, view, missed>>
    BY <1>1, <2>1 DEF RelayStart, reporterVars
  <2>5. DOMAIN reported' \subseteq DOMAIN sample
    BY <2>4 DEF LinkInv, LinkTypes
  <2> QED
    BY <2>2, <2>3, <2>4, <2>5, LinkLoopOnly
<1>2. CASE RelayEnd
  <2>1. prober' = [prober EXCEPT !["relay"] = Resting] /\ prober["relay"].link = NoLink /\ "relay" \in Loops
        /\ UNCHANGED <<fsmConfig, targets, path, machine, sample, reported, activeLinks, view, missed>>
    BY <1>2 DEF RelayEnd, reporterVars, Loops
  <2>2. DOMAIN reported' \subseteq DOMAIN sample
    BY <2>1 DEF LinkInv, LinkTypes
  <2> QED
    BY <2>1, <2>2, LinkResting, LinkLoopOnly
<1>3. CASE Tick
  <2>1. prober' = [prober EXCEPT !["direct"] = Resting] /\ prober["direct"].link = NoLink /\ "direct" \in Loops
        /\ UNCHANGED <<fsmConfig, targets, path, machine, sample, activeLinks, view, missed>>
    BY <1>3 DEF Tick, Loops
  <2>2. DOMAIN reported' = DOMAIN reported \cup InReport \/ reported' = reported
    BY <1>3 DEF Tick
  <2>3. DOMAIN reported' \subseteq DOMAIN sample
    BY <2>2 DEF LinkInv, LinkTypes, InReport
  <2> QED
    BY <2>1, <2>3, LinkResting, LinkLoopOnly
<1>4. ASSUME NEW l \in Links, PathChanges(l) PROVE LinkInv'
  <2>1. UNCHANGED <<fsmConfig, targets, machine, sample, reported, activeLinks, prober, view, missed>>
    BY <1>4 DEF PathChanges, reporterVars
  <2>2. path' \in [Links -> Rtts \cup {0}]
    BY <1>4 DEF PathChanges, LinkInv, LinkTypes
  <2>3. LinkTypes'
    BY <2>1, <2>2, LinkConfigKept DEF LinkInv, LinkTypes
  <2>4. StatesKnown'
    BY <2>1 DEF LinkInv, StatesKnown, MachineOf, Announcing
  <2> QED
    BY <2>3, <2>4 DEF LinkInv
<1>5. CASE TargetsChange
  <2>1. UNCHANGED <<fsmConfig, path, machine, sample, reported, activeLinks, prober, view, missed>>
        /\ targets' \subseteq DirectLinks
    BY <1>5 DEF TargetsChange, reporterVars
  <2>2. LinkTypes'
    BY <2>1, LinkConfigKept DEF LinkInv, LinkTypes
  <2>3. StatesKnown'
    BY <2>1 DEF LinkInv, StatesKnown, MachineOf, Announcing
  <2> QED
    BY <2>2, <2>3 DEF LinkInv
<1>6. CASE UNCHANGED linkVars
  <2>1. LinkTypes'
    BY <1>6, LinkConfigKept DEF LinkInv, LinkTypes, linkVars, reporterVars
  <2>2. StatesKnown'
    BY <1>6 DEF LinkInv, StatesKnown, MachineOf, Announcing, linkVars, reporterVars
  <2> QED
    BY <2>1, <2>2 DEF LinkInv
<1> QED
  BY <1>1, <1>2, <1>3, <1>4, <1>5, <1>6, LinkDirectStart, LinkTimePasses, LinkOnProbe, LinkEventArrives, LinkEventLost
     DEF LinkNext, LinkStep, ProbeLoopStep, Loops

-----------------------------------------------------------------------------
(* All of them.                                                            *)

ServiceInv == LinkInv /\ ProbeInv /\ SelInv /\ FoInv /\ PmInv

LEMMA ServiceInitInv == ServiceInit => ServiceInv
BY LinkInvInit, ProbeInvInit, SelInvInit, FoInvInit, PmInvInit DEF ServiceInit, ServiceInv

LEMMA ServiceNextInv ==
  ServiceInv /\ [ServiceNext]_serviceVars =>
    /\ ServiceInv'
    /\ selector'.current # selector.current => Justified(selector'.current)
<1> SUFFICES ASSUME ServiceInv, [ServiceNext]_serviceVars
             PROVE  /\ ServiceInv'
                    /\ selector'.current # selector.current => Justified(selector'.current)
  OBVIOUS
<1>1. [LinkNext]_linkVars /\ [ProbeNext]_probeVars /\ [SelNext]_selVars /\ [FoNext]_foVars /\ [PmNext]_pmVars
  BY DEF ServiceNext, serviceVars
<1> QED
  BY <1>1, LinkInvNext, ProbeInvNext, SelInvNext, FoInvNext, PmInvNext DEF ServiceInv

\* What every reachable state of the background services satisfies: every machine, route,
\* relay, endpoint and mapping is of its kind, and the histories the counters stand for are
\* the ones they count (linkstate_machine.go, router.go, selector.go, failover.go, portmap.go).
THEOREM ServiceInvariant == ServiceSpec => []ServiceInv
<1>1. ServiceInit => ServiceInv
  BY ServiceInitInv
<1>2. ServiceInv /\ [ServiceNext]_serviceVars => ServiceInv'
  BY ServiceNextInv
<1> QED
  BY <1>1, <1>2, PTL DEF ServiceSpec

LEMMA SelInvTypes == SelInv => SelTypeOK
<1> SUFFICES ASSUME SelInv PROVE SelTypeOK
  OBVIOUS
<1>1. SwitchStreak \in Nat
  BY SelConstants
<1>2. quality \in [Relays -> RelayRtts \cup {Failed}] /\ selector \in SelectorRec
      /\ selector.betterID # selector.current /\ selector.betterStreak <= SwitchStreak - 1
      /\ Len(tick.rtts) <= Len(Candidates)
  BY DEF SelInv, SelTypes, SelRtts
<1>3. selector.betterStreak \in Nat
  BY <1>2 DEF SelectorRec
<1>4. selector.betterStreak \in 0 .. SwitchStreak - 1
  BY <1>1, <1>2, <1>3
<1> QED
  BY <1>2, <1>4 DEF SelTypeOK, SelectorRec

\* Every service keeps the types of its state, whatever it meets: among them that a streak
\* never reaches the number that would have made the leaf switch (selector.go, Tick) and
\* that no route leads a node to itself (router.go, enumRoutes).
THEOREM ServiceTypes == ServiceSpec => []ServiceTypeOK
<1>1. ServiceInv => ServiceTypeOK
  BY LinkInvProperties, ProbeInvTypes, SelInvTypes DEF ServiceInv, ServiceTypeOK, FoInv, PmInv
<1> QED
  BY <1>1, ServiceInvariant, PTL

\* The controller knows the state of every link but of those about which a report was lost,
\* and the gateway holds no mapping that nobody answers for (Reporter.OnProbe, Reporter.Tick;
\* portmap.go:277-297).
THEOREM ServiceOthersAgree == ServiceSpec => []OthersAgree
<1>1. ServiceInv => OthersAgree
  BY LinkInvProperties DEF ServiceInv, OthersAgree, PmInv
<1> QED
  BY <1>1, ServiceInvariant, PTL

\* A leaf leaves its relay only with a reason its history shows (Selector.Tick).
THEOREM ServiceSwitchesJustified == ServiceSpec => SwitchJustified
<1>1. ServiceInv /\ [ServiceNext]_serviceVars =>
        [selector'.current # selector.current =>
           \/ tick.degraded \/ Degraded
           \/ AllOfLast(DegradeStreak, LAMBDA r : ~r.answered)
           \/ AllOfLast(SwitchStreak, LAMBDA r : r.better = selector'.current)]_selVars
  <2> SUFFICES ASSUME ServiceInv, [ServiceNext]_serviceVars, selector'.current # selector.current
               PROVE  \/ tick.degraded \/ Degraded
                      \/ AllOfLast(DegradeStreak, LAMBDA r : ~r.answered)
                      \/ AllOfLast(SwitchStreak, LAMBDA r : r.better = selector'.current)
    OBVIOUS
  <2>1. Justified(selector'.current)
    BY ServiceNextInv
  <2> QED
    BY <2>1 DEF Justified, AllOfLast
<1> QED
  BY <1>1, ServiceInvariant, PTL DEF ServiceSpec, SwitchJustified
=============================================================================
