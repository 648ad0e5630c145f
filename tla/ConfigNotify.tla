---------------------------- MODULE ConfigNotify ----------------------------
(***************************************************************************)
(* The change-notification hub of the controller and the handlers that     *)
(* stream its signals to the nodes:                                        *)
(*   internal/controller/configsvc/notify.go   Notify                      *)
(*   internal/controller/configsvc/grpc.go     ConfigGRPC.WatchConfig      *)
(*   internal/controller/configsvc/ws.go       ConfigWS, serveWSWithNodeID *)
(*                                                                         *)
(* A write to the database is followed by RecomputeAndNotify, which puts a *)
(* token in the node's one-place trigger channel. The node's worker takes  *)
(* the token, increments nodes.generation and offers the new number to     *)
(* every subscribed stream without blocking. A stream handler reads the    *)
(* generation, sends it, and only then subscribes.                         *)
(*                                                                         *)
(* The epoch is 0 in every deployment (SetEpoch has no caller), so a       *)
(* version is its generation.                                              *)
(***************************************************************************)
EXTENDS Naturals, Sequences, FiniteSets

CONSTANTS
  Nodes,       \* the nodes of the network
  Streams,     \* handler goroutines: one per open notification stream
  WsStreams,   \* those that serve a WebSocket; the others serve gRPC
  Callers,     \* goroutines that call RecomputeAndNotify
  NoNode,      \* not a node
  ChanCap,     \* capacity of a subscription channel (4 in the code)
  WireCap,     \* signals a connection holds before a send blocks
  MaxCalls,    \* bound: calls of RecomputeAndNotify
  MaxFaults    \* bound: failed database or HTTP operations

ASSUME NotifyAssumption ==
  /\ NoNode \notin Nodes
  /\ WsStreams \subseteq Streams
  /\ ChanCap \in Nat \ {0}
  /\ WireCap \in Nat \ {0}
  /\ MaxCalls \in Nat
  /\ MaxFaults \in Nat

VARIABLES
  gen,       \* nodes.generation, in the database
  trig,      \* the trigger channel of a node: absent from the map, empty, full
  wpc,       \* where the worker of a node is
  wgen,      \* the generation a worker has just obtained
  todo,      \* nodes a caller has still to notify
  at,        \* the node a caller is notifying
  closer,    \* Notify.Close: not called, waiting for the workers, returned
  subs,      \* streams registered in Notify.subs
  spc,       \* where a handler is
  snode,     \* the node a handler serves
  alive,     \* streams whose peer is still connected
  buf,       \* content of a subscription channel
  chst,      \* state of a subscription channel
  held,      \* the generation a handler is about to send
  wire,      \* signals sent on a stream and not yet received
  misused,   \* streams whose closed channel was closed again or sent on
  calls,     \* calls of RecomputeAndNotify so far
  faults     \* operations failed so far

workerVars == <<trig, wpc, wgen>>
callerVars == <<todo, at>>
streamVars == <<subs, spc, snode, alive, buf, chst, held, wire>>
notifyVars == <<gen, workerVars, callerVars, closer, streamVars, misused,
                calls, faults>>

Closed == closer # "open"

TypeOK ==
  /\ gen \in [Nodes -> Nat]
  /\ trig \in [Nodes -> {"absent", "empty", "full"}]
  /\ wpc \in [Nodes -> {"none", "wait", "bump", "push", "exited"}]
  /\ wgen \in [Nodes -> Nat]
  /\ todo \in [Callers -> SUBSET Nodes]
  /\ at \in [Callers -> Nodes \cup {NoNode}]
  /\ closer \in {"open", "waiting", "done"}
  /\ subs \in SUBSET Streams
  /\ spc \in [Streams -> {"idle", "query", "hello", "subscribe", "ensure",
                          "loop", "send", "unsub"}]
  /\ snode \in [Streams -> Nodes \cup {NoNode}]
  /\ \A s \in Streams : spc[s] # "idle" => snode[s] \in Nodes
  /\ alive \in SUBSET Streams
  /\ buf \in [Streams -> Seq(Nat)] /\ \A s \in Streams : Len(buf[s]) <= ChanCap
  /\ chst \in [Streams -> {"none", "open", "closed"}]
  /\ held \in [Streams -> Nat]
  /\ wire \in [Streams -> Seq(Nat)] /\ \A s \in Streams : Len(wire[s]) <= WireCap
  /\ misused \in SUBSET Streams
  /\ calls \in Nat
  /\ faults \in Nat

(* NewNotify, in a process that has just started on the database gen. *)
NotifyStart ==
  /\ trig = [n \in Nodes |-> "absent"]
  /\ wpc = [n \in Nodes |-> "none"]
  /\ wgen = [n \in Nodes |-> 0]
  /\ todo = [c \in Callers |-> {}]
  /\ at = [c \in Callers |-> NoNode]
  /\ closer = "open"
  /\ subs = {}
  /\ spc = [s \in Streams |-> "idle"]
  /\ snode = [s \in Streams |-> NoNode]
  /\ alive = {}
  /\ buf = [s \in Streams |-> <<>>]
  /\ chst = [s \in Streams |-> "none"]
  /\ held = [s \in Streams |-> 0]
  /\ wire = [s \in Streams |-> <<>>]
  /\ misused = {}

NotifyInit ==
  /\ gen = [n \in Nodes |-> 0]
  /\ NotifyStart
  /\ calls = 0
  /\ faults = 0

(* The same, when the process is started again.                            *)
NotifyRestart ==
  /\ trig' = [n \in Nodes |-> "absent"]
  /\ wpc' = [n \in Nodes |-> "none"]
  /\ wgen' = [n \in Nodes |-> 0]
  /\ todo' = [c \in Callers |-> {}]
  /\ at' = [c \in Callers |-> NoNode]
  /\ closer' = "open"
  /\ subs' = {}
  /\ spc' = [s \in Streams |-> "idle"]
  /\ snode' = [s \in Streams |-> NoNode]
  /\ alive' = {}
  /\ buf' = [s \in Streams |-> <<>>]
  /\ chst' = [s \in Streams |-> "none"]
  /\ held' = [s \in Streams |-> 0]
  /\ wire' = [s \in Streams |-> <<>>]
  /\ misused' = {}

-----------------------------------------------------------------------------
(* ensureWorker: one critical section of mu, so it is atomic with Close.   *)
EnsureWorker(n) ==
  IF Closed \/ trig[n] # "absent"
    THEN UNCHANGED <<trig, wpc>>
    ELSE /\ trig' = [trig EXCEPT ![n] = "empty"]
         /\ wpc' = [wpc EXCEPT ![n] = "wait"]

(* RecomputeAndNotify(S): the caller walks its arguments, and for each one *)
(* ensures a worker, then offers a token to the trigger channel. Offering  *)
(* to a channel that is full, or to the nil channel that a node without a  *)
(* worker has after Close, does nothing.                                   *)
RecomputeAndNotify(c, S) ==
  /\ todo[c] = {} /\ at[c] = NoNode
  /\ calls < MaxCalls
  /\ calls' = calls + 1
  /\ todo' = [todo EXCEPT ![c] = S]
  /\ UNCHANGED <<gen, workerVars, at, closer, streamVars, misused, faults>>

NotifyEnsure(c, n) ==
  /\ at[c] = NoNode /\ n \in todo[c]
  /\ at' = [at EXCEPT ![c] = n]
  /\ todo' = [todo EXCEPT ![c] = @ \ {n}]
  /\ EnsureWorker(n)
  /\ UNCHANGED <<gen, wgen, closer, streamVars, misused, calls, faults>>

NotifyPut(c) ==
  /\ at[c] # NoNode
  /\ at' = [at EXCEPT ![c] = NoNode]
  /\ trig' = [trig EXCEPT ![at[c]] = IF @ = "empty" THEN "full" ELSE @]
  /\ UNCHANGED <<gen, wpc, wgen, todo, closer, streamVars, misused, calls,
                 faults>>

-----------------------------------------------------------------------------
(* runWorker: select on done and on the trigger channel, then bump, push.  *)
WorkerTake(n) ==
  /\ wpc[n] = "wait" /\ trig[n] = "full"
  /\ trig' = [trig EXCEPT ![n] = "empty"]
  /\ wpc' = [wpc EXCEPT ![n] = "bump"]
  /\ UNCHANGED <<gen, wgen, callerVars, closer, streamVars, misused, calls,
                 faults>>

WorkerBump(n) ==
  /\ wpc[n] = "bump"
  /\ gen' = [gen EXCEPT ![n] = @ + 1]
  /\ wgen' = [wgen EXCEPT ![n] = gen[n] + 1]
  /\ wpc' = [wpc EXCEPT ![n] = "push"]
  /\ UNCHANGED <<trig, callerVars, closer, streamVars, misused, calls,
                 faults>>

\* Mutant: the worker returns on a database error, leaving its channel in the map.
WorkerBumpFailsReturns(n) ==
  /\ wpc[n] = "bump"
  /\ faults < MaxFaults
  /\ faults' = faults + 1
  /\ wpc' = [wpc EXCEPT ![n] = "exited"]
  /\ UNCHANGED <<gen, trig, wgen, callerVars, closer, streamVars, misused,
                 calls>>

WorkerBumpFails(n) ==
  /\ wpc[n] = "bump"
  /\ faults < MaxFaults
  /\ faults' = faults + 1
  /\ wpc' = [wpc EXCEPT ![n] = "wait"]
  /\ UNCHANGED <<gen, trig, wgen, callerVars, closer, streamVars, misused,
                 calls>>

Subscribers(n) == {s \in subs : snode[s] = n}

ClosedOf(S) == {s \in S : chst[s] = "closed"}

\* Mutant: the offer does not look at the channel's capacity.
WorkerPushUnbounded(n) ==
  /\ wpc[n] = "push" /\ ~Closed
  /\ buf' = [s \in Streams |->
               IF s \in Subscribers(n) THEN Append(buf[s], wgen[n]) ELSE buf[s]]
  /\ misused' = misused \cup ClosedOf(Subscribers(n))
  /\ wpc' = [wpc EXCEPT ![n] = "wait"]
  /\ wgen' = [wgen EXCEPT ![n] = 0]
  /\ UNCHANGED <<gen, trig, callerVars, closer, subs, spc, snode, alive,
                 chst, held, wire, calls, faults>>

(* The offer is non-blocking: a subscriber whose channel is full misses it. *)
WorkerPush(n) ==
  /\ wpc[n] = "push" /\ ~Closed
  /\ buf' = [s \in Streams |->
               IF s \in Subscribers(n) /\ Len(buf[s]) < ChanCap
                 THEN Append(buf[s], wgen[n]) ELSE buf[s]]
  /\ misused' = misused \cup ClosedOf(Subscribers(n))
  /\ wpc' = [wpc EXCEPT ![n] = "wait"]
  /\ wgen' = [wgen EXCEPT ![n] = 0]
  /\ UNCHANGED <<gen, trig, callerVars, closer, subs, spc, snode, alive,
                 chst, held, wire, calls, faults>>

\* Mutant: a worker that finds Notify closed in its push does not return.
WorkerExitWaitingOnly(n) ==
  /\ Closed
  /\ wpc[n] = "wait"
  /\ wpc' = [wpc EXCEPT ![n] = "exited"]
  /\ UNCHANGED <<gen, trig, wgen, callerVars, closer, streamVars, misused,
                 calls, faults>>

WorkerExit(n) ==
  /\ Closed
  /\ wpc[n] \in {"wait", "push"}
  /\ wpc' = [wpc EXCEPT ![n] = "exited"]
  /\ wgen' = [wgen EXCEPT ![n] = 0]
  /\ UNCHANGED <<gen, trig, callerVars, closer, streamVars, misused,
                 calls, faults>>

(* Close: one critical section that closes every subscription channel,     *)
(* then wg.Wait until no worker is left.                                   *)
Close ==
  /\ closer = "open"
  /\ closer' = "waiting"
  /\ chst' = [s \in Streams |-> IF s \in subs THEN "closed" ELSE chst[s]]
  /\ misused' = misused \cup ClosedOf(subs)
  /\ subs' = {}
  /\ UNCHANGED <<gen, workerVars, callerVars, spc, snode, alive, buf, held,
                 wire, calls, faults>>

\* Mutant: Close does not wait for the workers.
CloseReturnNoWait ==
  /\ closer = "waiting"
  /\ closer' = "done"
  /\ UNCHANGED <<gen, workerVars, callerVars, streamVars, misused, calls,
                 faults>>

CloseReturn ==
  /\ closer = "waiting"
  /\ \A n \in Nodes : wpc[n] \in {"none", "exited"}
  /\ closer' = "done"
  /\ UNCHANGED <<gen, workerVars, callerVars, streamVars, misused, calls,
                 faults>>

-----------------------------------------------------------------------------
(* A handler: WatchConfig, or ServeHTTP and serveWSWithNodeID.             *)
ToPc(s, from, to) == spc[s] = from /\ spc' = [spc EXCEPT ![s] = to]

(* The handler returns: its locals are gone.                               *)
Return(s, from) ==
  /\ ToPc(s, from, "idle")
  /\ snode' = [snode EXCEPT ![s] = NoNode]
  /\ buf' = [buf EXCEPT ![s] = <<>>]
  /\ held' = [held EXCEPT ![s] = 0]

StreamOpen(s, n) ==
  /\ ToPc(s, "idle", "query")
  /\ s \notin alive
  /\ snode' = [snode EXCEPT ![s] = n]
  /\ alive' = alive \cup {s}
  /\ UNCHANGED <<gen, workerVars, callerVars, closer, subs, buf, chst, held,
                 wire, misused, calls, faults>>

StreamQuery(s) ==
  /\ ToPc(s, "query", "hello")
  /\ held' = [held EXCEPT ![s] = gen[snode[s]]]
  /\ UNCHANGED <<gen, workerVars, callerVars, closer, subs, snode, alive, buf,
                 chst, wire, misused, calls, faults>>

StreamQueryFails(s) ==
  /\ Return(s, "query")
  /\ faults < MaxFaults
  /\ faults' = faults + 1
  /\ UNCHANGED <<gen, workerVars, callerVars, closer, subs, alive, chst, wire,
                 misused, calls>>

CanSend(s) == s \in alive /\ Len(wire[s]) < WireCap

StreamHello(s) ==
  /\ CanSend(s)
  /\ ToPc(s, "hello", "subscribe")
  /\ wire' = [wire EXCEPT ![s] = Append(@, held[s])]
  /\ held' = [held EXCEPT ![s] = 0]
  /\ UNCHANGED <<gen, workerVars, callerVars, closer, subs, snode, alive, buf,
                 chst, misused, calls, faults>>

StreamHelloFails(s) ==
  /\ s \notin alive
  /\ Return(s, "hello")
  /\ UNCHANGED <<gen, workerVars, callerVars, closer, subs, alive, chst, wire,
                 misused, calls, faults>>

\* Mutant: Subscribe does not start the node's worker.
StreamSubscribeNoWorker(s) ==
  /\ ToPc(s, "subscribe", "loop")
  /\ chst' = [chst EXCEPT ![s] = "open"]
  /\ subs' = IF Closed THEN subs ELSE subs \cup {s}
  /\ UNCHANGED <<gen, workerVars, callerVars, closer, snode, alive, buf, held,
                 wire, misused, calls, faults>>

(* Subscribe registers the channel unless Notify is closed; in that case   *)
(* the channel it returns is never written to and never closed.            *)
StreamSubscribe(s) ==
  /\ ToPc(s, "subscribe", IF Closed THEN "loop" ELSE "ensure")
  /\ chst' = [chst EXCEPT ![s] = "open"]
  /\ subs' = IF Closed THEN subs ELSE subs \cup {s}
  /\ UNCHANGED <<gen, workerVars, callerVars, closer, snode, alive, buf, held,
                 wire, misused, calls, faults>>

StreamEnsure(s) ==
  /\ ToPc(s, "ensure", "loop")
  /\ EnsureWorker(snode[s])
  /\ UNCHANGED <<gen, wgen, callerVars, closer, subs, snode, alive, buf, chst,
                 held, wire, misused, calls, faults>>

StreamTake(s) ==
  /\ buf[s] # <<>>
  /\ ToPc(s, "loop", "send")
  /\ held' = [held EXCEPT ![s] = Head(buf[s])]
  /\ buf' = [buf EXCEPT ![s] = Tail(@)]
  /\ UNCHANGED <<gen, workerVars, callerVars, closer, subs, snode, alive, chst,
                 wire, misused, calls, faults>>

StreamSend(s) ==
  /\ CanSend(s)
  /\ ToPc(s, "send", "loop")
  /\ wire' = [wire EXCEPT ![s] = Append(@, held[s])]
  /\ held' = [held EXCEPT ![s] = 0]
  /\ UNCHANGED <<gen, workerVars, callerVars, closer, subs, snode, alive, buf,
                 chst, misused, calls, faults>>

\* Mutant: no handler watches its context.
StreamLeaveNoContext(s) ==
  /\ \/ ToPc(s, "send", "unsub") /\ s \notin alive
     \/ ToPc(s, "loop", "unsub") /\ chst[s] = "closed" /\ buf[s] = <<>>
  /\ UNCHANGED <<gen, workerVars, callerVars, closer, subs, snode, alive, buf,
                 chst, held, wire, misused, calls, faults>>

(* The handler leaves its loop: a send failed, its channel is closed, or   *)
(* its context is done. The request context of a hijacked connection is    *)
(* not cancelled when the peer goes away, so a WebSocket handler learns of *)
(* it from a failing send only.                                            *)
StreamLeave(s) ==
  /\ \/ ToPc(s, "send", "unsub") /\ s \notin alive
     \/ ToPc(s, "loop", "unsub") /\ chst[s] = "closed" /\ buf[s] = <<>>
     \/ ToPc(s, "loop", "unsub") /\ s \notin alive /\ s \notin WsStreams
  /\ UNCHANGED <<gen, workerVars, callerVars, closer, subs, snode, alive, buf,
                 chst, held, wire, misused, calls, faults>>

\* Mutant: Unsubscribe closes the channel whether or not it is registered.
UnsubscribeAlways(s) ==
  /\ Return(s, "unsub")
  /\ subs' = subs \ {s}
  /\ misused' = misused \cup ClosedOf({s})
  /\ chst' = [chst EXCEPT ![s] = "none"]
  /\ UNCHANGED <<gen, workerVars, callerVars, closer, alive, wire, calls,
                 faults>>

(* Unsubscribe removes a stream that is still registered and closes its    *)
(* channel, which nobody refers to any more.                               *)
Unsubscribe(s) ==
  /\ Return(s, "unsub")
  /\ IF ~Closed /\ s \in subs
       THEN /\ subs' = subs \ {s}
            /\ misused' = misused \cup ClosedOf({s})
       ELSE UNCHANGED <<subs, misused>>
  /\ chst' = [chst EXCEPT ![s] = "none"]
  /\ UNCHANGED <<gen, workerVars, callerVars, closer, alive, wire, calls,
                 faults>>

(* The peer: it receives what was sent, and may go away.                   *)
PeerRecv(s) ==
  /\ wire[s] # <<>>
  /\ wire' = [wire EXCEPT ![s] = Tail(@)]
  /\ UNCHANGED <<gen, workerVars, callerVars, closer, subs, spc, snode, alive,
                 buf, chst, held, misused, calls, faults>>

PeerGone(s) ==
  /\ s \in alive
  /\ alive' = alive \ {s}
  /\ wire' = [wire EXCEPT ![s] = <<>>]
  /\ UNCHANGED <<gen, workerVars, callerVars, closer, subs, spc, snode, buf,
                 chst, held, misused, calls, faults>>

-----------------------------------------------------------------------------
CallerStep(c) == NotifyPut(c) \/ \E n \in Nodes : NotifyEnsure(c, n)

WorkerStep(n) ==
  WorkerTake(n) \/ WorkerBump(n) \/ WorkerBumpFails(n) \/ WorkerPush(n)
  \/ WorkerExit(n)

HandlerStep(s) ==
  \/ StreamQuery(s) \/ StreamQueryFails(s)
  \/ StreamHello(s) \/ StreamHelloFails(s)
  \/ StreamSubscribe(s) \/ StreamEnsure(s)
  \/ StreamTake(s) \/ StreamSend(s) \/ StreamLeave(s) \/ Unsubscribe(s)

(* What the controller does by itself once it has been called. *)
NotifyStep ==
  \/ \E c \in Callers : CallerStep(c)
  \/ \E n \in Nodes : WorkerStep(n)
  \/ \E s \in Streams : HandlerStep(s)
  \/ CloseReturn

NotifyNext ==
  \/ NotifyStep
  \/ \E c \in Callers, S \in (SUBSET Nodes) \ {{}} : RecomputeAndNotify(c, S)
  \/ \E s \in Streams, n \in Nodes : StreamOpen(s, n)
  \/ \E s \in Streams : PeerRecv(s) \/ PeerGone(s)
  \/ Close

(* Goroutines are scheduled fairly, and a peer that stays reads its stream. *)
NotifyFairness ==
  /\ \A c \in Callers : WF_notifyVars(CallerStep(c))
  /\ \A n \in Nodes : WF_notifyVars(WorkerStep(n))
  /\ \A s \in Streams : WF_notifyVars(HandlerStep(s)) /\ WF_notifyVars(PeerRecv(s))
  /\ WF_notifyVars(CloseReturn)

NotifySpec == NotifyInit /\ [][NotifyNext]_notifyVars
NotifyFairSpec == NotifySpec /\ NotifyFairness

-----------------------------------------------------------------------------
(* No goroutine sends on a closed channel or closes one twice, whatever    *)
(* the order of Close, Unsubscribe and a worker's push (notify.go, the     *)
(* locking comment of Notify).                                             *)
NoPanic == misused = {}

(* Close returns only when every worker has gone, and no worker starts     *)
(* afterwards: the database can be closed (main.go, Close).                *)
NoWorkerAfterClose ==
  closer = "done" => \A n \in Nodes : wpc[n] \in {"none", "exited"}

(* Once Close has returned the generations in the database are final.      *)
NoBumpAfterClose == [][closer = "done" => UNCHANGED gen]_notifyVars

(* A node is counted online by its registered streams: a registered        *)
(* handler is between Subscribe and Unsubscribe and its node has a worker, *)
(* or its handler is about to start one.                                   *)
SubscriberServed ==
  \A s \in subs :
    /\ spc[s] \in {"ensure", "loop", "send", "unsub"}
    /\ spc[s] # "ensure" => wpc[snode[s]] \in {"wait", "bump", "push"}

(* Close terminates: no worker is stuck in its loop or its push.           *)
CloseTerminates == closer = "waiting" ~> closer = "done"

(* The node of a gRPC stream whose client has gone stops being counted     *)
(* online (grpc.go, step 4 of WatchConfig).                                *)
GoneClientGoesOffline ==
  \A s \in Streams \ WsStreams : s \notin alive ~> (s \in alive \/ s \notin subs)

(* A token put in a trigger channel is consumed: the worker takes it, or   *)
(* Notify is closed.                                                       *)
TriggerConsumed == \A n \in Nodes : trig[n] = "full" ~> (trig[n] = "empty" \/ Closed)

(* What waits for another comes to an end: Close for the workers, the count *)
(* of a client that has gone for its stream's handler, a token in a trigger *)
(* channel for the worker (Notify.Close, WatchConfig, worker).              *)
NotifyEnds == CloseTerminates /\ GoneClientGoesOffline /\ TriggerConsumed
=============================================================================
