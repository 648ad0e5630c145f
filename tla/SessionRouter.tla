--------------------------- MODULE SessionRouter ---------------------------
(***************************************************************************)
(* How a relay keeps each session on one of the K routes it was sent       *)
(*   internal/relay/mesh/session_route.go                                  *)
(*                                                                         *)
(* A consistent-hash ring with many points per route visits, clockwise     *)
(* from a session's own point, the routes in an order that depends on the  *)
(* session and the contents of the routes alone: RingRank.  What may not   *)
(* be used is remembered by the index of a route in the present baseline,  *)
(* the home of a session by its contents.                                  *)
(***************************************************************************)
EXTENDS Integers, Sequences

CONSTANTS
    Sessions, Paths, NoPath,
    RingRank,     \* for every session, the place of each route on its way round the ring
    Baselines,    \* the lists of routes that may be sent
    MaxBaselines  \* bound

ASSUME SessionAssumption ==
    /\ NoPath \notin Paths
    /\ RingRank \in [Sessions -> [Paths -> Nat]]
    /\ Baselines \subseteq Seq(Paths)
    /\ \A b \in Baselines : \A i, j \in DOMAIN b : b[i] = b[j] => i = j

VARIABLES
    baseline,   \* the routes in force
    sessions,   \* the state of every session that has one
    unavail,    \* per session, the indices of routes marked unavailable
    idle,       \* sessions not used lately
    left,       \* the routes each session was driven off under this baseline
    baselines   \* how many were sent

sessVars == <<baseline, sessions, unavail, idle, left, baselines>>

NoSession == [origKey |-> NoPath, curIdx |-> 0, shifted |-> FALSE]

SessInit ==
    /\ baseline = <<>> /\ baselines = 0
    /\ sessions = [s \in Sessions |-> NoSession]
    /\ unavail = [s \in Sessions |-> {}]
    /\ idle = {} /\ left = [s \in Sessions |-> {}]

PathsOf(b) == {b[i] : i \in DOMAIN b}
IndexOf(b, path) == CHOOSE i \in DOMAIN b : b[i] = path

\* SetBaseline: a session whose home is still there goes back to it, the others are
\* forgotten; the old indices mean nothing any more.
SetBaseline(b) ==
    /\ baselines < MaxBaselines
    /\ baselines' = baselines + 1
    /\ baseline' = b
    /\ sessions' = [s \in Sessions |->
         IF sessions[s].origKey \in PathsOf(b)
         THEN [sessions[s] EXCEPT !.curIdx = IndexOf(b, sessions[s].origKey), !.shifted = FALSE] ELSE NoSession]
    /\ unavail' = [s \in Sessions |-> {}] /\ left' = [s \in Sessions |-> {}]
    /\ UNCHANGED idle

\* The first of some routes of the baseline on the way round the ring from a session.
Clockwise(s, indices) ==
    CHOOSE i \in indices : \A j \in indices : RingRank[s][baseline[i]] <= RingRank[s][baseline[j]]

ringPick(s) == Clockwise(s, DOMAIN baseline)

\* The state of a session, made on its first use.
Known(s) ==
    IF sessions[s] # NoSession THEN sessions[s]
    ELSE [origKey |-> baseline[ringPick(s)], curIdx |-> ringPick(s), shifted |-> FALSE]

\* Pick: an exit once chosen is kept, whether or not it was marked meanwhile.
Pick(s) ==
    /\ baseline # <<>>
    /\ sessions' = [sessions EXCEPT ![s] = Known(s)]
    /\ idle' = idle \ {s}
    /\ UNCHANGED <<baseline, unavail, left, baselines>>

\* Moving on without marking the route that is left.
MarkedByMove(s, i) == unavail[s]

\* Degrade marks the route it leaves.
Marked(s, i) == unavail[s] \cup {i}

\* Degrade: the next exit of the ring that is not marked, if there is one
\* (nextAvailableOnRing).
Degrade(s) ==
    /\ baseline # <<>>
    /\ LET st == Known(s)
           marked == Marked(s, st.curIdx)
           exits == DOMAIN baseline \ (marked \cup {st.curIdx})
       IN  /\ sessions' = [sessions EXCEPT ![s] =
                IF exits = {} THEN st ELSE [st EXCEPT !.curIdx = Clockwise(s, exits), !.shifted = TRUE]]
           /\ unavail' = [unavail EXCEPT ![s] = marked]
           /\ left' = [left EXCEPT ![s] = @ \cup {baseline[st.curIdx]}]
    /\ idle' = idle \ {s}
    /\ UNCHANGED <<baseline, baselines>>

\* MarkUnavailable, for a session that may not exist yet.
MarkUnavailable(s, i) ==
    /\ unavail' = [unavail EXCEPT ![s] = @ \cup {i}]
    /\ UNCHANGED <<baseline, sessions, idle, left, baselines>>

SessionsAge ==
    /\ idle' = {s \in Sessions : sessions[s] # NoSession}
    /\ UNCHANGED <<baseline, sessions, unavail, left, baselines>>

\* SweepStale forgets the sessions not used lately, and what was marked for them.
SweepStale ==
    /\ idle # {}
    /\ sessions' = [s \in Sessions |-> IF s \in idle THEN NoSession ELSE sessions[s]]
    /\ unavail' = [s \in Sessions |-> IF s \in idle /\ sessions[s] # NoSession THEN {} ELSE unavail[s]]
    /\ left' = [s \in Sessions |-> IF s \in idle THEN {} ELSE left[s]]
    /\ idle' = {}
    /\ UNCHANGED <<baseline, baselines>>

SessNext ==
    \/ \E b \in Baselines : SetBaseline(b)
    \/ \E s \in Sessions : Pick(s) \/ Degrade(s) \/ \E i \in DOMAIN baseline : MarkUnavailable(s, i)
    \/ SessionsAge \/ SweepStale

SessSpec == SessInit /\ [][SessNext]_sessVars

----------------------------------------------------------------------------
(* Properties.                                                              *)

SessTypeOK ==
    /\ baseline \in Seq(Paths) /\ idle \subseteq Sessions
    /\ \A s \in Sessions :
        /\ unavail[s] \subseteq DOMAIN baseline /\ left[s] \subseteq PathsOf(baseline)
        /\ sessions[s] # NoSession =>
             sessions[s].curIdx \in DOMAIN baseline /\ sessions[s].origKey \in PathsOf(baseline)

\* A session is on its home route unless it was driven off it, and is not on a route it
\* was driven off while another one is left to it, whatever baselines came in between
\* (Degrade, SetBaseline).
KeepsOffDegraded ==
    \A s \in Sessions : sessions[s] # NoSession =>
        LET cur == sessions[s].curIdx
        IN  /\ ~sessions[s].shifted => baseline[cur] = sessions[s].origKey
            /\ baseline[cur] \in left[s] => DOMAIN baseline \ {cur} \subseteq unavail[s]

=============================================================================
