----------------------------- MODULE PathTrace -----------------------------
(***************************************************************************)
(* The path trace of the node program (mtr): one probe frame with a route  *)
(* written into it goes from hop to hop; every hop answers the source and  *)
(* passes the request on.                                                  *)
(*   cmd/corelink-node/main.go            runMTR, runMTREnum               *)
(*   internal/nodecore/dataplane/dataplane.go   SendProbeAll,              *)
(*                                        HandleProbeFrame, sendProbeFrame *)
(*   internal/transport/frame.go          ProbeFrame                       *)
(* One source traces routes to one target, round by round.  A reply goes   *)
(* back hop by hop, or straight to the source; it and the request on its   *)
(* way to the first hop may be relayed by any node, the request from hop   *)
(* to hop may not.  Frames carry addresses; a node stands for its address. *)
(***************************************************************************)
EXTENDS Integers, Sequences, FiniteSets, Functions

CONSTANTS TraceNodes, TraceSource, TraceTarget,
          TracedRoutes,    \* the routes it is asked to trace
          FirstJoined,     \* the connections there may be at the start
          TraceRounds,     \* rounds of one trace (count)
          MaxProbeHops,    \* frame.go: the most hops a probe makes
          MaxRelinks       \* bound: links that change, frames that are lost

Pairs == {p \in SUBSET TraceNodes : Cardinality(p) = 2}

Others == TraceNodes \ {TraceSource, TraceTarget}

(* runMTREnum tries every sequence of distinct nodes before the target.    *)
AllRoutes == {Append(via, TraceTarget) :
                via \in UNION {Injection(1 .. k, Others) : k \in 0 .. Cardinality(Others)}}

ASSUME TraceAssumption ==
    /\ IsFiniteSet(TraceNodes) /\ {TraceSource, TraceTarget} \subseteq TraceNodes /\ TraceSource # TraceTarget
    /\ TracedRoutes \subseteq AllRoutes /\ FirstJoined \subseteq SUBSET Pairs
    /\ TraceRounds \in Nat \ {0} /\ MaxProbeHops \in Nat \ {0} /\ MaxRelinks \in Nat

VARIABLES joined,     \* pairs of nodes with a connection
          inFlight,   \* probe frames on their way
          trace,      \* runMTR: the route, the round and what came back
          waiter,     \* probeWaiters: the nonce somebody waits for, 0 for none
          replies,    \* the channel of the waiter
          relinks     \* links changed and frames lost, of MaxRelinks

ptVars == <<joined, inFlight, trace, waiter, replies, relinks>>

NoTrace == [route |-> <<>>, auto |-> FALSE, round |-> 0, got |-> {}, recv |-> <<>>, calm |-> FALSE]

PtInit ==
    /\ joined \in FirstJoined
    /\ inFlight = {} /\ trace = NoTrace /\ waiter = 0 /\ replies = {} /\ relinks = 0

PtTypeOK ==
    /\ joined \subseteq Pairs
    /\ \A f \in inFlight :
         /\ f.at \in TraceNodes /\ f.dst \in TraceNodes /\ f.nonce \in 1 .. trace.round
         /\ f.passes \in 0 .. MaxProbeHops
    /\ trace.round \in 0 .. TraceRounds /\ trace.got \subseteq DOMAIN trace.route
    /\ waiter \in {0, trace.round} /\ replies \subseteq 1 .. Cardinality(TraceNodes)
    /\ relinks \in 0 .. MaxRelinks

-----------------------------------------------------------------------------
(* Frames.                                                                 *)

(* ProbeFrame and the header it travels under: dst is the address in the   *)
(* header, at the node it gets to, passes how often it was relayed there.  *)
Request(route, auto, nonce) ==
    [reply |-> FALSE, auto |-> auto, nonce |-> nonce, hop |-> 0, orig |-> 0, route |-> route,
     dst |-> route[1], at |-> TraceSource, passes |-> 0]

Joined(m) == {n \in TraceNodes \ {m} : {m, n} \in joined}

(* sendProbeFrame: over the connection to the addressee, else, where that  *)
(* is allowed, over any other; the choices of the frames that are then on  *)
(* their way.  A node has no route to itself.                              *)
sendProbeFrame(m, f, dst, noRelay) ==
    LET Over(n) == {[f EXCEPT !.dst = dst, !.at = n]}
    IN  IF dst = m THEN {{}}
        ELSE IF dst \in Joined(m) THEN {Over(dst)}
        ELSE IF noRelay \/ Joined(m) = {} THEN {{}}
        ELSE {Over(n) : n \in Joined(m)}

(* The way back of the hop a request has reached: the hops before it in    *)
(* the other order, then the source.                                       *)
WayBackFromItself(f) == LET k == f.hop
                        IN  [i \in 1 .. k + 1 |-> IF i <= k THEN f.route[k + 1 - i] ELSE TraceSource]
WayBack(f) == LET before == f.hop - 1
              IN  [i \in 1 .. before + 1 |-> IF i <= before THEN f.route[before + 1 - i] ELSE TraceSource]

Advanced(f) == [f EXCEPT !.hop = @ + 1, !.passes = 0]
HopAfter(f) == IF f.hop < Len(f.route) THEN {f.route[f.hop + 1]} ELSE {}

Reply(f) ==
    [f EXCEPT !.reply = TRUE, !.orig = f.hop, !.hop = 0,
              !.route = IF f.auto THEN <<>> ELSE WayBack(f)]

SendReply(m, f) == sendProbeFrame(m, Reply(f), IF f.auto THEN TraceSource ELSE Reply(f).route[1], FALSE)

(* A request goes on only where the next hop is connected.                 *)
ForwardAnyhow(m, f) == IF HopAfter(f) = {} THEN {{}}
                       ELSE UNION {sendProbeFrame(m, f, n, FALSE) : n \in HopAfter(f)}
Forward(m, f) == IF HopAfter(f) = {} THEN {{}}
                 ELSE UNION {sendProbeFrame(m, f, n, TRUE) : n \in HopAfter(f)}

(* deliverProbeReply: into the channel of its own nonce only.              *)
AnyWaiter(f) == waiter # 0
Awaits(f) == waiter = f.nonce
Answered(f) == replies' = IF Awaits(f) THEN replies \cup {f.orig} ELSE replies

HandleProbeFrame(f) ==
    LET m == f.at
        g == Advanced(f)
        rest == inFlight \ {f}
    IN
    /\ f.passes < MaxProbeHops  \* bound: the code goes on
    /\ \/ /\ f.dst # m
          /\ \E out \in sendProbeFrame(m, [f EXCEPT !.passes = @ + 1], f.dst, FALSE) : inFlight' = rest \cup out
          /\ UNCHANGED replies
       \/ /\ f.dst = m /\ f.reply /\ (f.auto \/ HopAfter(g) = {})
          /\ Answered(f) /\ inFlight' = rest
       \/ /\ f.dst = m /\ f.reply /\ ~f.auto
          /\ \E n \in HopAfter(g) : \E out \in sendProbeFrame(m, g, n, FALSE) : inFlight' = rest \cup out
          /\ UNCHANGED replies
       \/ /\ f.dst = m /\ ~f.reply
          /\ \E back \in SendReply(m, g), on \in Forward(m, g) :
                inFlight' = rest \cup back \cup on
          /\ UNCHANGED replies
    /\ UNCHANGED <<joined, trace, waiter, relinks>>

-----------------------------------------------------------------------------
(* The trace.                                                              *)

(* Without a route of the user's: to the target, over the first other node *)
(* within reach where the target is not.                                   *)
QueryRoute ==
    IF TraceTarget \in Joined(TraceSource) \/ Joined(TraceSource) = {} THEN {<<TraceTarget>>}
    ELSE {<<n, TraceTarget>> : n \in Joined(TraceSource)}

(* The routes runMTR traces, with where the replies go.                    *)
Asked == (TracedRoutes \X BOOLEAN) \cup (QueryRoute \X {TRUE})

(* SendProbeAll: a new nonce, a waiter for it, and the request.            *)
StartRound(route, auto) ==
    /\ waiter = 0 /\ trace.round < TraceRounds
    /\ trace.round > 0 => route = trace.route /\ auto = trace.auto
    /\ waiter' = trace.round + 1 /\ replies' = {}
    /\ trace' = [trace EXCEPT !.route = route, !.auto = auto, !.round = @ + 1, !.got = {}, !.calm = TRUE,
                              !.recv = IF trace.round = 0 THEN [i \in DOMAIN route |-> 0] ELSE @]
    /\ \E out \in sendProbeFrame(TraceSource, Request(route, auto, trace.round + 1), route[1], FALSE) :
          inFlight' = inFlight \cup out
    /\ UNCHANGED <<joined, relinks>>

CollectReply ==
    /\ waiter # 0
    /\ \E r \in replies :
         /\ replies' = replies \ {r}
         /\ trace' = [trace EXCEPT !.got = @ \cup {r}, !.recv[r] = @ + 1]
    /\ UNCHANGED <<joined, inFlight, waiter, relinks>>

(* As many replies as hops, or the deadline.                               *)
EndRound ==
    /\ waiter # 0 /\ waiter' = 0 /\ replies' = {}
    /\ UNCHANGED <<joined, inFlight, trace, relinks>>

Disturbed == relinks < MaxRelinks /\ relinks' = relinks + 1 /\ trace' = [trace EXCEPT !.calm = FALSE]

(* The connection of a pair comes or goes, with what travels on it.        *)
Relink(p) ==
    /\ Disturbed
    /\ joined' = IF p \in joined THEN joined \ {p} ELSE joined \cup {p}
    /\ UNCHANGED <<inFlight, waiter, replies>>

FrameLost(f) == Disturbed /\ inFlight' = inFlight \ {f} /\ UNCHANGED <<joined, waiter, replies>>

PtNext ==
    \/ \E a \in Asked : StartRound(a[1], a[2])
    \/ \E f \in inFlight : HandleProbeFrame(f) \/ FrameLost(f)
    \/ CollectReply \/ EndRound
    \/ \E p \in Pairs : Relink(p)

PtSpec == PtInit /\ [][PtNext]_ptVars

-----------------------------------------------------------------------------
(* Properties.                                                             *)

\* The links of the route, from the first hop on.
Links(route) == {{route[i], route[i + 1]} : i \in 1 .. Len(route) - 1}

\* Along a route whose links hold, every hop is heard of: when nothing of the round is on
\* its way any more, each hop's reply is there (HandleProbeFrame's way back).
EveryHopReports ==
    (/\ waiter # 0 /\ trace.calm /\ ~\E f \in inFlight : f.nonce = waiter
     /\ Links(trace.route) \cup {{TraceSource, trace.route[1]}} \subseteq joined
     /\ trace.auto => \A i \in DOMAIN trace.route : {TraceSource, trace.route[i]} \in joined)
    => trace.got \cup replies = DOMAIN trace.route

\* A link that is down shows: while no link changes, nobody beyond it is heard of, and no
\* hop more often than it was asked, late replies of an earlier round included
\* (sendProbeFrame's noRelay; the nonce of a round).
TraceTellsTruth ==
    /\ trace.calm => \A i \in trace.got \cup replies :
           i > 1 => {trace.route[i - 1], trace.route[i]} \in joined
    /\ \A i \in DOMAIN trace.recv : trace.recv[i] <= trace.round
=============================================================================
