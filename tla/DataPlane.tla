------------------------------ MODULE DataPlane ------------------------------
(***************************************************************************)
(* The data plane of a node from start to end, and the connections it has  *)
(* accepted:                                                               *)
(*   internal/nodecore/dataplane/dataplane.go   Run, Close, HandleDNSFrame,*)
(*                          StartRecvLoop, InjectInbound, peer framers     *)
(*   internal/nodecore/dataplane/listener.go    Listener                   *)
(*                                                                         *)
(* closeMu orders Close against the tasks that join the WaitGroup: a task  *)
(* looks at the context and joins under the read lock, Close cancels under *)
(* the write lock and waits only after that.                               *)
(***************************************************************************)
EXTENDS Integers, FiniteSets, Sequences

CONSTANTS
    DnsTasks,      \* DNS frames (or receive loops), each a task with one goroutine
    Accepted,      \* connections a listener may accept
    PeerOf,        \* the node each of them comes from (the CN of its certificate)
    InjectCap      \* capacity of injectCh, 1024 in the program

NoFramer == "none"

ASSUME DataPlaneAssumption ==
    /\ InjectCap \in Nat \ {0} /\ NoFramer \notin Accepted
    /\ IsFiniteSet(DnsTasks) /\ "Run" \notin DnsTasks

VARIABLES
    ctxDone, tunOpen,
    closeMu,       \* tasks that hold the read lock, and whether Close holds the write lock
    task,          \* where each task is
    wg,            \* the WaitGroup
    closing,       \* where Close is
    injectCh,      \* packets waiting for the TUN
    listener,      \* where the listener is, and activeConns (tracking: not yet nil)
    conn,          \* the accepted connections: where their handler is, and their socket
    peerFramers    \* the connection registered for each node

dpVars == <<ctxDone, tunOpen, closeMu, task, wg, closing, injectCh, listener, conn, peerFramers>>
lifeVars == <<ctxDone, tunOpen, closeMu, task, wg, closing, injectCh>>
connVars == <<listener, conn, peerFramers>>

Tasks == {"Run"} \cup DnsTasks
DpPeers == {PeerOf[c] : c \in Accepted}

\* New and NewListener.
DpInit ==
    /\ ctxDone = FALSE /\ tunOpen = TRUE
    /\ closeMu = [readers |-> {}, writer |-> FALSE]
    /\ task = [t \in Tasks |-> "idle"]
    /\ wg = 0 /\ closing = "no" /\ injectCh = 0
    /\ listener = [pc |-> "open", tracking |-> TRUE, active |-> {}]
    /\ conn = [c \in Accepted |-> [pc |-> "none", open |-> TRUE]]
    /\ peerFramers = [p \in DpPeers |-> NoFramer]

----------------------------------------------------------------------------
(* Tasks.                                                                   *)

\* Looking at the context without the lock.
WithoutLock(t) == closeMu

WithReadLock(t) == [closeMu EXCEPT !.readers = @ \cup {t}]

StartTask(t) ==
    /\ task[t] = "idle" /\ ~closeMu.writer
    /\ closeMu' = WithReadLock(t)
    /\ task' = [task EXCEPT ![t] = IF ctxDone THEN "refused" ELSE "checked"]
    /\ UNCHANGED <<ctxDone, tunOpen, wg, closing, injectCh>>

\* Run has two goroutines, a DNS frame or a receive loop one.
Goroutines(t) == IF t = "Run" THEN 2 ELSE 1

JoinTask(t) ==
    /\ task[t] = "checked"
    /\ task' = [task EXCEPT ![t] = "running"] /\ wg' = wg + Goroutines(t)
    /\ closeMu' = [closeMu EXCEPT !.readers = @ \ {t}]
    /\ UNCHANGED <<ctxDone, tunOpen, closing, injectCh>>

Refused(t) ==
    /\ task[t] = "refused" /\ t \in closeMu.readers
    /\ closeMu' = [closeMu EXCEPT !.readers = @ \ {t}]
    /\ UNCHANGED <<ctxDone, tunOpen, task, wg, closing, injectCh>>

\* The answer of the upstream, or its timeouts.
DnsEnds(t) ==
    /\ t \in DnsTasks /\ task[t] = "running"
    /\ task' = [task EXCEPT ![t] = "done"] /\ wg' = wg - 1
    /\ UNCHANGED <<ctxDone, tunOpen, closeMu, closing, injectCh>>

\* runTUNRead ends when its read fails and the context is done, runTUNWrite with the context.
ReadEnds ==
    /\ task["Run"] \in {"running", "writing"} /\ ctxDone /\ ~tunOpen
    /\ task' = [task EXCEPT !["Run"] = IF @ = "running" THEN "readerGone" ELSE "done"] /\ wg' = wg - 1
    /\ UNCHANGED <<ctxDone, tunOpen, closeMu, closing, injectCh>>

WriteEnds ==
    /\ task["Run"] \in {"running", "readerGone"} /\ ctxDone
    /\ task' = [task EXCEPT !["Run"] = IF @ = "running" THEN "writing" ELSE "done"] /\ wg' = wg - 1
    /\ UNCHANGED <<ctxDone, tunOpen, closeMu, closing, injectCh>>

\* The writer takes what waits, up to 128 packets, and writes it in one batch.
WriteBatch ==
    /\ task["Run"] \in {"running", "readerGone"} /\ injectCh > 0
    /\ injectCh' = 0
    /\ UNCHANGED <<ctxDone, tunOpen, closeMu, task, wg, closing>>

\* InjectInbound drops what does not fit.
InjectInbound == injectCh' = IF injectCh = InjectCap THEN injectCh ELSE injectCh + 1

----------------------------------------------------------------------------
(* Close.                                                                   *)

CloseCancels ==
    /\ closing = "no" /\ closeMu.readers = {}
    /\ closeMu' = [closeMu EXCEPT !.writer = TRUE]
    /\ ctxDone' = TRUE /\ closing' = "cancelled"
    /\ UNCHANGED <<tunOpen, task, wg, injectCh>>

CloseTun ==
    /\ closing = "cancelled"
    /\ closeMu' = [closeMu EXCEPT !.writer = FALSE]
    /\ tunOpen' = FALSE /\ closing' = "waiting"
    /\ UNCHANGED <<ctxDone, task, wg, injectCh>>

\* wg.Wait returns, or two seconds have passed.
CloseReturns ==
    /\ closing = "waiting"
    /\ closing' = IF wg = 0 THEN "closed" ELSE "timedOut"
    /\ UNCHANGED <<ctxDone, tunOpen, closeMu, task, wg, injectCh>>

----------------------------------------------------------------------------
(* The listener and its connections.                                        *)

Accept(c) ==
    /\ conn[c].pc = "none" /\ listener.pc = "open"
    /\ conn' = [conn EXCEPT ![c].pc = "accepted"]
    /\ UNCHANGED <<listener, peerFramers>>

\* The start of handleConn.
TrackConn(c) ==
    /\ conn[c].pc = "accepted"
    /\ conn' = [conn EXCEPT ![c].pc = "handshake"]
    /\ listener' = [listener EXCEPT !.active = IF listener.tracking THEN @ \cup {c} ELSE @]
    /\ UNCHANGED peerFramers

\* RegisterPeerFramer, once the handshake is done.
Register(c) ==
    /\ conn[c].pc = "handshake"
    /\ conn' = [conn EXCEPT ![c].pc = "serving"]
    /\ peerFramers' = [peerFramers EXCEPT ![PeerOf[c]] = c]
    /\ UNCHANGED listener

\* ReadPacket, and onFrame of a packet for this node.
ReceiveFrame(c) ==
    /\ conn[c].pc = "serving" /\ conn[c].open
    /\ InjectInbound
    /\ UNCHANGED <<ctxDone, tunOpen, closeMu, task, wg, closing, listener, conn, peerFramers>>

\* Forgetting the node, whichever connection is registered.
UnregisterAny(c) == [peerFramers EXCEPT ![PeerOf[c]] = NoFramer]

UnregisterPeerFramer(c) ==
    [peerFramers EXCEPT ![PeerOf[c]] = IF @ = c THEN NoFramer ELSE @]

\* The peer or the network breaks the connection, or the handshake times out.
Breaks(c) ==
    /\ conn[c].pc \in {"accepted", "handshake", "serving"} /\ conn[c].open
    /\ conn' = [conn EXCEPT ![c].open = FALSE]
    /\ UNCHANGED <<listener, peerFramers>>

\* The handler of a broken connection returns.
HandlerEnds(c) ==
    /\ conn[c].pc \in {"handshake", "serving"} /\ ~conn[c].open
    /\ peerFramers' = IF conn[c].pc = "serving" THEN UnregisterPeerFramer(c) ELSE peerFramers
    /\ conn' = [conn EXCEPT ![c].pc = "ended"]
    /\ listener' = [listener EXCEPT !.active = @ \ {c}]

ListenerCloses ==
    /\ listener.pc = "open"
    /\ listener' = [listener EXCEPT !.pc = "closing"]
    /\ UNCHANGED <<conn, peerFramers>>

CloseActive ==
    /\ listener.pc = "closing" /\ listener.tracking
    /\ conn' = [c \in Accepted |->
                  IF c \in listener.active THEN [conn[c] EXCEPT !.open = FALSE] ELSE conn[c]]
    /\ listener' = [listener EXCEPT !.active = {}, !.tracking = FALSE]
    /\ UNCHANGED peerFramers

\* wg.Wait returns, or two seconds have passed.
ListenerReturns ==
    /\ listener.pc = "closing" /\ ~listener.tracking
    /\ listener' = [listener EXCEPT !.pc = "closed"]
    /\ UNCHANGED <<conn, peerFramers>>

----------------------------------------------------------------------------
LifeStep ==
    \/ \E t \in Tasks : StartTask(t) \/ JoinTask(t) \/ Refused(t) \/ DnsEnds(t)
    \/ ReadEnds \/ WriteEnds \/ WriteBatch
    \/ CloseCancels \/ CloseTun \/ CloseReturns

ConnStep ==
    \/ \E c \in Accepted : Accept(c) \/ TrackConn(c) \/ Register(c) \/ Breaks(c) \/ HandlerEnds(c)
    \/ ListenerCloses \/ CloseActive \/ ListenerReturns

DpNext ==
    \/ LifeStep /\ UNCHANGED connVars
    \/ ConnStep /\ UNCHANGED lifeVars
    \/ \E c \in Accepted : ReceiveFrame(c)

DpSpec == DpInit /\ [][DpNext]_dpVars

----------------------------------------------------------------------------
(* Properties.                                                              *)

DpTypeOK ==
    /\ closeMu.readers \subseteq Tasks /\ wg \in 0 .. 2 + Cardinality(DnsTasks)
    /\ injectCh \in 0 .. InjectCap /\ listener.active \subseteq Accepted
    /\ peerFramers \in [DpPeers -> Accepted \cup {NoFramer}]

\* Once Close waits for the goroutines, none joins them (the reason for closeMu: Run,
\* HandleDNSFrame and StartRecvLoop look at the context before they call wg.Add).
NoAddAfterWait == closing \in {"waiting", "closed", "timedOut"} => wg' <= wg

\* A node is written to on the connection that registered last: a registered connection
\* gives way only to a newer one of its node, or when its own handler ends
\* (UnregisterPeerFramer, "so that the end of an old connection does not remove the new
\* one").
LatestConnectionStays ==
    \A p \in DpPeers : LET old == peerFramers[p] new == peerFramers'[p] IN
        old # NoFramer /\ new # old =>
            IF new = NoFramer THEN conn'[old].pc = "ended"
            ELSE conn[new].pc = "handshake" /\ conn'[new].pc = "serving"
=============================================================================
