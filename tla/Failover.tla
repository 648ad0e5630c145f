------------------------------ MODULE Failover ------------------------------
(***************************************************************************)
(* The choice of a notification channel by a node:                         *)
(*   internal/nodecore/sync/failover.go   failoverManager                  *)
(*   internal/nodecore/sync/client.go     the gRPC and WebSocket channels  *)
(* Endpoints are held in the order of their priorities. The loop of Run    *)
(* tries them in that order and receives from the first that answers;      *)
(* while that is not the first one, a second goroutine tries the better    *)
(* ones and asks the loop to scan again when one of them was stable.       *)
(* Signals themselves are the subject of ConfigSync.                       *)
(***************************************************************************)
EXTENDS Integers, Sequences

CONSTANTS
  Primary, Secondary,   \* the endpoints Run makes: gRPC, then WebSocket
  Added,                \* the endpoint AddEndpoint may bring, between the two
  MaxFaults             \* bound: times something breaks

NoEndpoint == "none"

ASSUME FailoverAssumption == MaxFaults \in Nat

VARIABLES
  eps,        \* failoverManager.endpoints
  active,     \* activeIdx, an index into the copy of the scan that set it
  scan,       \* the copy a scan works on, and the place it has reached
  at,         \* what the loop is doing
  tried,      \* an endpoint has answered in this scan
  conn,       \* the channel the loop receives from, and whether it is sound
  poll,       \* the goroutine that looks for a better endpoint
  asked,      \* switchBackCh holds a value
  up,         \* endpoints that can be reached
  deaf,       \* endpoints whose Recv ignores its context
  cancelled,  \* the context of Run
  breaks      \* faults so far

loopVars == <<scan, at, tried, conn, active>>
worldVars == <<up, deaf, breaks>>
foVars == <<eps, loopVars, poll, asked, worldVars, cancelled>>

Endpoints == {Primary, Secondary, Added}
NoConn == [ep |-> NoEndpoint, ok |-> FALSE]
NoPoll == [pc |-> "off", left |-> <<>>, ep |-> NoEndpoint, ok |-> FALSE, late |-> FALSE]
Sleeping == [NoPoll EXCEPT !.pc = "sleeping"]

FoTypeOK ==
  /\ eps \in Seq(Endpoints) /\ Len(eps) \in 2..3
  /\ active \in -1..2 /\ breaks \in 0..MaxFaults
  /\ scan.eps \in Seq(Endpoints) /\ scan.pos \in 1..4
  /\ at \in {"scanning", "receiving", "waiting", "ended"}
  /\ conn \in [ep : Endpoints \cup {NoEndpoint}, ok : BOOLEAN]
  /\ poll \in [pc : {"off", "sleeping", "trying", "watching"}, left : Seq(Endpoints),
               ep : Endpoints \cup {NoEndpoint}, ok : BOOLEAN, late : BOOLEAN]
  /\ tried \in BOOLEAN /\ asked \in BOOLEAN /\ cancelled \in BOOLEAN
  /\ up \subseteq Endpoints /\ deaf \subseteq Endpoints

(* The gRPC channel of the code is deaf, the WebSocket channel is not; an  *)
(* interface that demands otherwise is stated at notifChannel.             *)
FoInit ==
  /\ eps = <<Primary, Secondary>> /\ active = -1
  /\ scan = [eps |-> eps, pos |-> 1] /\ at = "scanning" /\ tried = FALSE
  /\ conn = NoConn /\ poll = NoPoll /\ asked = FALSE
  /\ up = Endpoints /\ deaf \in {{}, {Primary}}
  /\ cancelled = FALSE /\ breaks = 0

-----------------------------------------------------------------------------
(* The loop of Run                                                         *)
RescanWhereItEnded == scan' = [eps |-> eps, pos |-> scan.pos] /\ at' = "scanning" /\ tried' = FALSE

Rescan == scan' = [eps |-> eps, pos |-> 1] /\ at' = "scanning" /\ tried' = FALSE

Candidate == scan.eps[scan.pos]

(* An endpoint that does not answer is passed over. One that does becomes  *)
(* active, and unless it is the first of the copy its polling starts.      *)
TryEndpoint ==
  /\ at = "scanning" /\ ~cancelled /\ scan.pos <= Len(scan.eps)
  /\ scan' = [scan EXCEPT !.pos = @ + 1]
  /\ \/ Candidate \notin up /\ UNCHANGED <<at, tried, conn, active, poll>>
     \/ /\ Candidate \in up
        /\ conn' = [ep |-> Candidate, ok |-> TRUE]
        /\ at' = "receiving" /\ tried' = TRUE
        /\ active' = scan.pos - 1
        /\ poll' = IF scan.pos = 1 THEN NoPoll ELSE Sleeping
  /\ asked' = FALSE
  /\ UNCHANGED <<eps, worldVars, cancelled>>

(* The copy is exhausted: the next scan starts at once if anything had     *)
(* answered, otherwise after retryInterval.                                *)
ScanEnds ==
  /\ at = "scanning" /\ ~cancelled /\ scan.pos > Len(scan.eps)
  /\ IF tried THEN Rescan ELSE at' = "waiting" /\ UNCHANGED <<scan, tried>>
  /\ UNCHANGED <<eps, conn, active, poll, asked, worldVars, cancelled>>

RetryLater ==
  /\ at = "waiting" /\ ~cancelled
  /\ Rescan
  /\ UNCHANGED <<eps, conn, active, poll, asked, worldVars, cancelled>>

(* The channel fails: recvLoop or recvWithRecovery returns, its polling is *)
(* cancelled, and the scan goes on with the endpoint after it.             *)
ChannelFails ==
  /\ at = "receiving" /\ ~cancelled /\ ~conn.ok
  /\ at' = "scanning" /\ conn' = NoConn /\ poll' = NoPoll /\ asked' = FALSE
  /\ UNCHANGED <<eps, scan, tried, active, worldVars, cancelled>>

(* recvWithRecovery reads switchBackCh: the channel is closed and the scan *)
(* starts from the best endpoint.                                          *)
SwitchBack ==
  /\ at = "receiving" /\ ~cancelled /\ asked
  /\ Rescan
  /\ conn' = NoConn /\ poll' = NoPoll /\ asked' = FALSE
  /\ UNCHANGED <<eps, active, worldVars, cancelled>>

(* Every wait of Run ends with its context: the streams were opened with   *)
(* it, so even a deaf Recv returns.                                        *)
RunEnds ==
  /\ cancelled /\ at # "ended"
  /\ at' = "ended" /\ conn' = NoConn /\ poll' = NoPoll /\ asked' = FALSE
  /\ UNCHANGED <<eps, scan, tried, active, worldVars, cancelled>>

-----------------------------------------------------------------------------
(* pollHigherPriorityRecovery                                              *)

(* After retryInterval the endpoints before the active index are listed,   *)
(* from the present sequence.                                              *)
BetterButOne == IF active > 0 THEN SubSeq(eps, 1, active - 1) ELSE <<>>

Better == IF active > 0 THEN SubSeq(eps, 1, active) ELSE <<>>

StartPoll ==
  /\ poll.pc = "sleeping"
  /\ Better # <<>>
  /\ poll' = [poll EXCEPT !.pc = "trying", !.left = Better]
  /\ UNCHANGED <<eps, loopVars, asked, worldVars, cancelled>>

(* The first that answers is watched; when none does, the goroutine sleeps *)
PollEndpoint ==
  /\ poll.pc = "trying"
  /\ poll' = IF poll.left = <<>> THEN Sleeping
             ELSE IF Head(poll.left) \in up
             THEN [poll EXCEPT !.pc = "watching", !.ep = Head(poll.left), !.ok = TRUE, !.late = FALSE]
             ELSE [poll EXCEPT !.left = Tail(@)]
  /\ UNCHANGED <<eps, loopVars, asked, worldVars, cancelled>>

(* switchBackAfter has passed.                                             *)
WindowEnds ==
  /\ poll.pc = "watching" /\ ~poll.late
  /\ poll' = [poll EXCEPT !.late = TRUE]
  /\ UNCHANGED <<eps, loopVars, asked, worldVars, cancelled>>

(* What ends Recv, and with it waitStable: a failure, a deadline unless    *)
(* the channel is deaf, or, after the window, a signal.                    *)
Reported(stable) ==
  /\ asked' = (asked \/ stable)
  /\ poll' = IF stable THEN NoPoll ELSE Sleeping

WaitStable ==
  /\ poll.pc = "watching"
  /\ \/ ~poll.ok /\ Reported(poll.late)
     \/ poll.ok /\ poll.late /\ poll.ep \notin deaf /\ Reported(TRUE)
  /\ UNCHANGED <<eps, loopVars, worldVars, cancelled>>

SignalArrives ==
  /\ poll.pc = "watching" /\ poll.ok /\ poll.late /\ poll.ep \in deaf
  /\ Reported(TRUE)
  /\ UNCHANGED <<eps, loopVars, worldVars, cancelled>>

-----------------------------------------------------------------------------
(* Callers and the network                                                 *)

(* AddEndpoint keeps the sequence in the order of the priorities.          *)
AddEndpoint ==
  /\ Len(eps) = 2
  /\ eps' = <<Primary, Added, Secondary>>
  /\ UNCHANGED <<loopVars, poll, asked, worldVars, cancelled>>

Cancel ==
  /\ ~cancelled
  /\ cancelled' = TRUE
  /\ UNCHANGED <<eps, loopVars, poll, asked, worldVars>>

Broken(c, e) == IF c.ep = e THEN [c EXCEPT !.ok = FALSE] ELSE c

EndpointFails(e) ==
  /\ breaks < MaxFaults /\ e \in up
  /\ breaks' = breaks + 1
  /\ up' = up \ {e}
  /\ conn' = Broken(conn, e) /\ poll' = Broken(poll, e)
  /\ UNCHANGED <<eps, scan, at, tried, active, asked, deaf, cancelled>>

(* A connection is lost, its endpoint stays.                               *)
ChannelBreaks ==
  /\ breaks < MaxFaults /\ conn.ok
  /\ breaks' = breaks + 1
  /\ conn' = [conn EXCEPT !.ok = FALSE]
  /\ UNCHANGED <<eps, scan, at, tried, active, poll, asked, up, deaf, cancelled>>

EndpointReturns(e) ==
  /\ e \notin up
  /\ up' = up \cup {e}
  /\ UNCHANGED <<eps, loopVars, poll, asked, deaf, breaks, cancelled>>

-----------------------------------------------------------------------------
LoopStep == TryEndpoint \/ ScanEnds \/ RetryLater \/ ChannelFails \/ SwitchBack \/ RunEnds
PollStep == StartPoll \/ PollEndpoint \/ WindowEnds \/ WaitStable

FoNext ==
  \/ LoopStep \/ PollStep \/ SignalArrives \/ AddEndpoint \/ Cancel \/ ChannelBreaks
  \/ \E e \in Endpoints : EndpointFails(e) \/ EndpointReturns(e)

FoSpec == FoInit /\ [][FoNext]_foVars
FoFairness == WF_foVars(LoopStep) /\ WF_foVars(PollStep)
FoFairSpec == FoSpec /\ FoFairness

-----------------------------------------------------------------------------
(* A node is never left without a channel: while its context lives and an  *)
(* endpoint of its list stays reachable, Run comes back to a sound channel *)
(* (failover.go:104-176).                                                  *)
StaysConnected ==
  \A e \in {Primary, Secondary} : (<>[](e \in up)) => <>[](cancelled \/ conn.ok)

(* The goroutine waits in a Recv that does not follow its context, on a    *)
(* sound channel to the best endpoint: it ends with the next signal there. *)
Unheard == Primary \in deaf /\ poll.pc = "watching" /\ poll.ep = Primary

(* A better endpoint that stays reachable is used again, and the one that  *)
(* stood in for it is left (failover.go:5-7), unless its channel is the    *)
(* gRPC one of the code and carries no signal (client.go:269).             *)
ReturnsToBetter ==
  (<>[](Primary \in up)) => <>[](cancelled \/ conn.ep = Primary \/ Unheard)
=============================================================================
