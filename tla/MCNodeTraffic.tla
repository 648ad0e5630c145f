---------------------------- MODULE MCNodeTraffic ---------------------------
(***************************************************************************)
(* Instances, for TLC, of what carries a node's traffic: the connection    *)
(* pool, the data plane and its listener, outbound packets and flows, the  *)
(* stream of frames between two nodes and the way of frames over several,  *)
(* path tracing, sessions over relays, and the layout of packets and       *)
(* frames.  The components are specified with the calls the others make as *)
(* inputs; a behaviour is one of exactly one of them, which part names.    *)
(***************************************************************************)
EXTENDS ConnPool, DataPlane, Outbound, FrameRelay, FrameStream, PathTrace, SessionRouter, WireFormat, TLC

CONSTANTS h1, h2,             \* peers of ConnPool
          q1, q2, ka, kb,     \* DNS queries and inbound connections of DataPlane
          f1, f2, f3,         \* flows of Outbound
          fa, fb, fc, fd,     \* nodes of FrameRelay
          ta, tb, td,         \* nodes of PathTrace
          p1, p2, p3, e1, e2  \* paths and sessions of SessionRouter

VARIABLE part

trafficVars == <<vars, dpVars, obVars, frameVars, fsVars, ptVars, sessVars, wireVars, part>>

Parts == {"pool", "dataplane", "outbound", "frames", "stream", "trace", "sessions", "wire"}

TrafficInit ==
    /\ Init /\ DpInit /\ OutInit /\ FrameInit /\ FsInit /\ PtInit /\ SessInit /\ WireInit
    /\ part \in Parts
    /\ part # "trace" => joined = CHOOSE j \in FirstJoined : TRUE

TrafficNext ==
    \/ part = "pool" /\ Next /\ UNCHANGED <<dpVars, obVars, frameVars, fsVars, ptVars, sessVars, wireVars, part>>
    \/ part = "dataplane" /\ DpNext /\ UNCHANGED <<vars, obVars, frameVars, fsVars, ptVars, sessVars, wireVars, part>>
    \/ part = "outbound" /\ OutNext /\ UNCHANGED <<vars, dpVars, frameVars, fsVars, ptVars, sessVars, wireVars, part>>
    \/ part = "frames" /\ FrameNext /\ UNCHANGED <<vars, dpVars, obVars, fsVars, ptVars, sessVars, wireVars, part>>
    \/ part = "stream" /\ FsNext /\ UNCHANGED <<vars, dpVars, obVars, frameVars, ptVars, sessVars, wireVars, part>>
    \/ part = "trace" /\ PtNext /\ UNCHANGED <<vars, dpVars, obVars, frameVars, fsVars, sessVars, wireVars, part>>
    \/ part = "sessions" /\ SessNext /\ UNCHANGED <<vars, dpVars, obVars, frameVars, fsVars, ptVars, wireVars, part>>
    \/ part = "wire" /\ WireNext /\ UNCHANGED <<vars, dpVars, obVars, frameVars, fsVars, ptVars, sessVars, part>>

TrafficSpec == TrafficInit /\ [][TrafficNext]_trafficVars

-----------------------------------------------------------------------------
(* The instance.                                                           *)

\* The first peer answers; the second competes with it for the dials and the places.
TwoToFirst == {<<h1, 1>>, <<h1, 2>>}

\* Both inbound connections come from one peer.
SamePeer == (ka :> "peer") @@ (kb :> "peer")

\* Flows of two addresses; a route of the one inside a route of both.
Vips       == (f1 :> 1) @@ (f2 :> 1) @@ (f3 :> 2)
Timeouts   == (f1 :> 0) @@ (f2 :> 1) @@ (f3 :> 1)
BitsOf     == ("wide" :> 8) @@ ("narrow" :> 24) @@ ("other" :> 24)
WithinOf   == ("wide" :> {1, 2}) @@ ("narrow" :> {1}) @@ ("other" :> {2})
TwoConfigs ==
    {[peers |-> ("x" :> {"wide"}) @@ ("y" :> {"narrow"}), relays |-> <<>>, addrs |-> ("x" :> <<"ax">>)],
     [peers |-> ("x" :> {"other", "narrow"}), relays |-> <<"r1", "r2">>, addrs |-> ("y" :> <<"ay">>)]}

\* A ring of three nodes, one of which reaches the target.
FourTables == {<<fb>>, <<fc, fb>>, <<fa>>, <<fd>>}
RingDials  == {<<fa, fb>>, <<fb, fc>>, <<fc, fa>>, <<fc, fd>>}

\* Three nodes, any links between them; the target is traced directly and through the third.
AnyLinks  == SUBSET {{ta, tb}, {tb, td}, {ta, td}}
TwoRoutes == {<<tb, td>>, <<td>>}

Rings      == (e1 :> ((p1 :> 1) @@ (p2 :> 2) @@ (p3 :> 3))) @@ (e2 :> ((p3 :> 1) @@ (p1 :> 2) @@ (p2 :> 3)))
ThreeLists == {<<p1, p2, p3>>, <<p3, p2>>, <<p2, p1>>}

-----------------------------------------------------------------------------
(* Properties.                                                             *)

TrafficTypeOK ==
    /\ part = "pool" => PoolTypeOK
    /\ part = "dataplane" => DpTypeOK
    /\ part = "outbound" => OutTypeOK
    /\ part = "frames" => FrameTypeOK
    /\ part = "stream" => FsTypeOK
    /\ part = "trace" => PtTypeOK
    /\ part = "sessions" => SessTypeOK

\* What a packet may do to the nodes it passes is bounded, however their tables disagree:
\* it is sent a few times, and its flow takes one place (OnFrame, RelayForward;
\* Tracker.totalFlows).
PacketsBounded ==
    /\ part = "frames" => RelaysBounded
    /\ part = "outbound" => FlowsCounted

\* What one end of a connection sends is what the other takes it for, whoever else writes
\* at the same time: frames arrive whole and in order, an echo answers the end's own
\* keepalive, the lengths a packet or a frame claims are believed only as far as its bytes
\* go, and a trace is told of every hop that can report and of no other way than its own
\* (Framer.writeMu, kaPending; dataplane.go, frame.go, tls.go, wrapper.go; runMTR).
PeersUnderstand ==
    /\ part = "stream" => FramesWhole /\ EchoedOnce
    /\ part = "wire" => ReadsInside /\ WrittenIsRead
    /\ part = "trace" => EveryHopReports /\ TraceTellsTruth

\* Traffic keeps to the way it was given while routes and connections change under it: a
\* flow to its hop, a session to a path it has not been driven off, a peer's packets to
\* its latest connection; and no goroutine joins those the data plane's Close waits for
\* (processOutboundBatch; Degrade, SetBaseline; UnregisterPeerFramer, closeMu).
TrafficKeepsItsWay == [][/\ part = "outbound" => FlowKeepsHop
                         /\ part = "sessions" => KeepsOffDegraded'
                         /\ part = "dataplane" => NoAddAfterWait /\ LatestConnectionStays]_trafficVars
=============================================================================
