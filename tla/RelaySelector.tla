--------------------------- MODULE RelaySelector ---------------------------
(***************************************************************************)
(* How a leaf chooses the relay it is attached to:                         *)
(*   internal/nodecore/multirelay/selector.go                              *)
(*   cmd/corelink-node/main.go, orchestrate.go    where one is made        *)
(*                                                                         *)
(* A tick reads the quality reports, probes every candidate without the    *)
(* lock and decides with the reports as they are then; links get better    *)
(* and worse and reports arrive all the while.  Round-trip times are small *)
(* integers, Failed the result of a probe without an answer.               *)
(***************************************************************************)
EXTENDS Integers, Sequences, SequencesExt

CONSTANTS
    Candidates,     \* the relays of the configuration, by priority
    NoRelay,
    RelayRtts, SwitchMargin,
    SwitchStreak,   \* rounds a candidate has to be better (hysteresis)
    DegradeStreak,  \* degraded reports, or failed rounds, that make a primary unusable
    MaxQualityChanges, MaxReports  \* bounds

Relays == ToSet(Candidates)
Failed == 0

ASSUME SelectorAssumption ==
    /\ Candidates \in Seq(Relays) /\ Candidates # <<>> /\ IsInjective(Candidates) /\ NoRelay \notin Relays
    /\ RelayRtts \subseteq Nat \ {Failed} /\ RelayRtts # {}
    /\ SwitchMargin \in Nat \ {0} /\ DegradeStreak \in Nat \ {0} /\ SwitchStreak \in {n \in Nat : n >= DegradeStreak}

VARIABLES
    quality,   \* what a probe of each relay would measure
    selector,  \* the fields of Selector
    tick,      \* a tick under way: whether it began degraded, and what it measured
    rounds,    \* the last rounds with this primary: whether it answered, who was better
    selBounds

selVars == <<quality, selector, tick, rounds, selBounds>>

NewSelector(relay) == [current |-> relay, betterID |-> NoRelay, betterStreak |-> 0,
                       degradeCount |-> 0, primaryFail |-> 0]
NoTick == [running |-> FALSE, degraded |-> FALSE, rtts |-> <<>>]

SelInit ==
    /\ quality = [r \in Relays |-> CHOOSE t \in RelayRtts : \A u \in RelayRtts : t <= u]
    /\ selector = NewSelector(Candidates[1])
    /\ tick = NoTick /\ rounds = <<>>
    /\ selBounds = [changes |-> 0, reports |-> 0]

\* ReportPrimaryDegraded.
ReportPrimaryDegraded ==
    /\ selBounds.reports < MaxReports
    /\ selBounds' = [selBounds EXCEPT !.reports = @ + 1]
    /\ selector' = [selector EXCEPT !.degradeCount = @ + 1]
    /\ UNCHANGED <<quality, tick, rounds>>

\* ReportPrimaryHealthy.
ReportPrimaryHealthy ==
    /\ selector.degradeCount > 0
    /\ selector' = [selector EXCEPT !.degradeCount = 0]
    /\ UNCHANGED <<quality, tick, rounds, selBounds>>

Degraded == selector.degradeCount >= DegradeStreak

\* Tick, up to the probes; the throttle of ProbeInterval only delays it.
StartTick ==
    /\ ~tick.running
    /\ tick' = [running |-> TRUE, degraded |-> Degraded, rtts |-> <<>>]
    /\ UNCHANGED <<quality, selector, rounds, selBounds>>

\* The primary is probed first, then the others in their order.
Place(relay) == CHOOSE i \in DOMAIN Candidates : Candidates[i] = relay
ProbeOrder ==
    [i \in DOMAIN Candidates |->
        IF i = 1 THEN selector.current ELSE Candidates[IF i <= Place(selector.current) THEN i - 1 ELSE i]]

ProbeNextRelay ==
    /\ tick.running /\ Len(tick.rtts) < Len(Candidates)
    /\ tick' = [tick EXCEPT !.rtts = Append(@, quality[ProbeOrder[Len(@) + 1]])]
    /\ UNCHANGED <<quality, selector, rounds, selBounds>>

\* The others that answered, the fastest of them, the first of those.
Answered == {i \in 2 .. Len(Candidates) : tick.rtts[i] # Failed}
Best == {i \in Answered : \A j \in Answered : tick.rtts[i] < tick.rtts[j] \/ (tick.rtts[i] = tick.rtts[j] /\ i <= j)}

\* Failed rounds counted each on its own.
PrimaryFailsAfresh == IF tick.rtts[1] # Failed THEN 0 ELSE 1

\* Failed rounds in a row, counted no further than makes a difference.
PrimaryFails ==
    IF tick.rtts[1] # Failed THEN 0
    ELSE IF selector.primaryFail < DegradeStreak THEN selector.primaryFail + 1 ELSE DegradeStreak
ClearlyBetter(i) == tick.rtts[1] # Failed /\ tick.rtts[1] - tick.rtts[i] >= SwitchMargin

\* Counting without starting over when the lead changes.
StreakOfAny(relay) == selector.betterStreak + 1

\* How often in a row this candidate has now been the better one.
Streak(relay) == IF selector.betterID = relay THEN selector.betterStreak + 1 ELSE 1

\* What a round was like, for the properties.
Round == [answered |-> tick.rtts[1] # Failed,
          better |-> IF \E i \in Best : ClearlyBetter(i)
                     THEN ProbeOrder[CHOOSE i \in Best : TRUE] ELSE NoRelay]

LastRounds(seq, n) == IF Len(seq) <= n THEN seq ELSE SubSeq(seq, Len(seq) - n + 1, Len(seq))

\* A switch that leaves the candidate and its streak as they were.
SwitchWithStreak(relay) == selector' = [selector EXCEPT !.current = relay] /\ rounds' = <<>>

\* switchLocked, and the callbacks of fireSwitch.
SwitchTo(relay) == selector' = NewSelector(relay) /\ rounds' = <<>>

Stay(fields) ==
    /\ selector' = fields
    /\ rounds' = LastRounds(Append(rounds, Round), SwitchStreak - 1)

\* Tick, after the probes: a primary that is degraded or unusable gives way to any
\* candidate that answered, a usable one to a candidate that was better often enough.
FinishTick ==
    /\ tick.running /\ Len(tick.rtts) = Len(Candidates)
    /\ LET leave == tick.degraded \/ Degraded \/ PrimaryFails >= DegradeStreak
           next == [selector EXCEPT !.primaryFail = PrimaryFails]
       IN  \/ \E i \in Best : leave /\ SwitchTo(ProbeOrder[i])
           \/ \E i \in Best :
                /\ ~leave /\ ClearlyBetter(i)
                /\ LET relay == ProbeOrder[i]
                   IN  IF Streak(relay) >= SwitchStreak THEN SwitchTo(relay)
                       ELSE Stay([next EXCEPT !.betterID = relay, !.betterStreak = Streak(relay)])
           \/ /\ ~\E i \in Best : leave \/ ClearlyBetter(i)
              /\ Stay([next EXCEPT !.betterID = NoRelay, !.betterStreak = 0])
    /\ tick' = NoTick
    /\ UNCHANGED <<quality, selBounds>>

QualityChanges(r) ==
    /\ selBounds.changes < MaxQualityChanges
    /\ selBounds' = [selBounds EXCEPT !.changes = @ + 1]
    /\ \E t \in (RelayRtts \cup {Failed}) \ {quality[r]} : quality' = [quality EXCEPT ![r] = t]
    /\ UNCHANGED <<selector, tick, rounds>>

TickStep == StartTick \/ ProbeNextRelay \/ FinishTick

SelNext ==
    \/ TickStep \/ ReportPrimaryDegraded \/ ReportPrimaryHealthy
    \/ \E r \in Relays : QualityChanges(r)

\* The ticker of Run.
SelFairness == WF_selVars(TickStep)
SelSpec == SelInit /\ [][SelNext]_selVars
SelFairSpec == SelSpec /\ SelFairness

----------------------------------------------------------------------------
(* Properties.                                                              *)

SelTypeOK ==
    /\ quality \in [Relays -> RelayRtts \cup {Failed}]
    /\ selector.current \in Relays /\ selector.betterID \in (Relays \cup {NoRelay}) \ {selector.current}
    /\ selector.betterStreak \in 0 .. SwitchStreak - 1 /\ selector.degradeCount \in Nat
    /\ selector.primaryFail \in Nat /\ Len(tick.rtts) <= Len(Candidates)

\* The last n rounds with this primary were all of a kind.
AllOfLast(n, kind(_)) == Len(rounds) >= n - 1 /\ kind(Round) /\
    \A i \in (Len(rounds) - n + 2) .. Len(rounds) : kind(rounds[i])

\* A leaf leaves its relay only with a reason the history shows: reports of bad quality,
\* rounds without an answer, or the very relay it moves to having been clearly better in
\* each of the last SwitchStreak rounds (Selector.Tick).
SwitchJustified ==
    [][selector'.current # selector.current =>
        \/ tick.degraded \/ Degraded
        \/ AllOfLast(DegradeStreak, LAMBDA r : ~r.answered)
        \/ AllOfLast(SwitchStreak, LAMBDA r : r.better = selector'.current)]_selVars

\* A leaf does not stay on a relay that no longer answers while another one does.
LeavesDeadRelay ==
    ~<>[](quality[selector.current] = Failed /\ \E r \in Relays : quality[r] # Failed)
=============================================================================
