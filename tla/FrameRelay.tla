----------------------------- MODULE FrameRelay -----------------------------
(***************************************************************************)
(* How a packet travels through the nodes:                                 *)
(*   internal/nodecore/dataplane/dataplane.go   processOutboundBatch,      *)
(*                                              RelayForward, loopAvoid    *)
(*   internal/nodecore/dataplane/listener.go    connections accepted       *)
(*   cmd/corelink-node/main.go                  OnFrame, and the loop over *)
(*                                              connections dialled        *)
(*                                                                         *)
(* One packet at a time, to one target.  A connection carries frames both  *)
(* ways, and what becomes of a frame depends on the side it arrives at:    *)
(* on an accepted connection the node relays it, on a dialled one it is    *)
(* injected into the TUN, from where the kernel forwards it (external) and *)
(* it starts over.  A hop that has dialled in is written to on that        *)
(* connection (its peer framer) rather than on one of the pool.            *)
(***************************************************************************)
EXTENDS Integers, Sequences, FiniteSets

CONSTANTS
    FrameNodes,    \* all nodes
    PacketSource, PacketTarget,
    FrameTtl,      \* DataPlane.ttl, 64 in the program
    IpTtl,         \* TTL of the IP header, decremented by forwarding kernels
    RankTables,    \* the orders in which a node may come to rank its first hops
    FirstDials,    \* who has dialled whom to begin with: pairs <<dialler, acceptor>>
    MaxRankChanges, MaxDialChanges, MaxPackets  \* bounds

ASSUME RelayAssumption ==
    /\ IsFiniteSet(FrameNodes) /\ PacketSource \in FrameNodes /\ PacketTarget \in FrameNodes \ {PacketSource}
    /\ FrameTtl \in {t \in Nat : t > 5} /\ IpTtl \in Nat \ {0}
    /\ RankTables \subseteq Seq(FrameNodes) /\ FirstDials \subseteq FrameNodes \X FrameNodes

VARIABLES
    dials,      \* connections that exist
    dead,       \* those of them whose other end is gone without it having been noticed
    rankOf,     \* rankedHops for the target, and Agent.maxRouteHops
    loopAvoid,  \* the hops each node avoids on the way to the target
    packet,     \* the packet under way
    frBounds

frameVars == <<dials, dead, rankOf, loopAvoid, packet, frBounds>>

NoPacket == [on |-> "nothing"]

FrameInit ==
    /\ dials = FirstDials /\ dead = {}
    /\ rankOf = [n \in FrameNodes |-> [hops |-> <<>>, maxHops |-> 3]]
    /\ loopAvoid = [n \in FrameNodes |-> {}]
    /\ packet = NoPacket
    /\ frBounds = [ranks |-> 0, dials |-> 0, packets |-> 0]

----------------------------------------------------------------------------
(* Sending on.                                                              *)

\* The connections n may write on to reach a hop.
Between(n, hop) == {<<hop, n>>, <<n, hop>>}

\* Where a packet can go from n: hops in the order they are tried.  A hop that is avoided,
\* or that the frame came from, is left out; after the ranked hops come those of the pool
\* in any order.
Tried(n, except) ==
    LET ranked == IF rankOf[n].hops = <<>> THEN <<PacketTarget>> ELSE rankOf[n].hops
        allowed(h) == h \notin except \cup loopAvoid[n] \cup {n}
        first == SelectSeq(ranked, allowed)
        others == {h \in FrameNodes : <<n, h>> \in dials /\ allowed(h) /\ \A i \in DOMAIN first : first[i] # h}
    IN  {first \o rest : rest \in {o \in [1 .. Cardinality(others) -> others] :
                                     \A h \in others : \E i \in DOMAIN o : o[i] = h}}

\* What n writes on first of the connections it finds up: one of the first hop that has
\* any, and the one that hop has dialled rather than its own.
FirstUp(n, order, up) ==
    {c \in up : \E i \in DOMAIN order :
        /\ c \in Between(n, order[i])
        /\ \A j \in 1 .. i - 1 : Between(n, order[j]) \cap up = {}
        /\ c[1] = n => <<order[i], n>> \notin up}

\* Written on a dead connection a frame is lost, or the write fails and the next
\* connection is tried; a connection of the pool is then closed.
Send(n, except, frame, sent) ==
    \E order \in Tried(n, except), noticed \in SUBSET dead :
        LET first == FirstUp(n, order, dials \ noticed)
        IN  /\ dials' = dials \ {c \in noticed : c[1] = n}
            /\ dead' = dead \ {c \in noticed : c[1] = n}
            /\ \/ first \subseteq dead /\ packet' = NoPacket
               \/ \E c \in first \ dead :
                    packet' = [on |-> IF c[1] = n THEN "accepted" ELSE "dialled",
                               at |-> IF c[1] = n THEN c[2] ELSE c[1], from |-> n,
                               ttl |-> frame, ip |-> packet.ip, sent |-> sent]

\* processOutboundBatch: a packet read from the TUN, with a fresh TTL.
TunRead ==
    /\ packet.on = "tun"
    /\ Send(packet.at, {}, FrameTtl, 1)
    /\ UNCHANGED <<rankOf, loopAvoid, frBounds>>

NewPacket ==
    /\ packet = NoPacket /\ frBounds.packets < MaxPackets
    /\ packet' = [on |-> "tun", at |-> PacketSource, from |-> PacketSource, ttl |-> 0, ip |-> IpTtl, sent |-> 0]
    /\ frBounds' = [frBounds EXCEPT !.packets = @ + 1]
    /\ UNCHANGED <<dials, dead, rankOf, loopAvoid>>

----------------------------------------------------------------------------
(* Frames received.                                                         *)

Deliver == packet.at = PacketTarget /\ packet' = NoPacket /\ UNCHANGED <<dials, dead, loopAvoid>>

\* A TTL that has got this low is taken for a loop.
loopThreshold(n) == FrameTtl - (rankOf[n].maxHops + 2)

\* Passing the TTL on as it came.
SameTtl(ttl) == ttl

\* A relay writes one less (RelayForward).
NextTtl(ttl) == ttl - 1

\* OnFrame: a frame on an accepted connection.  In a loop the node avoids the one that
\* sent the frame, and drops it.
ReceiveAccepted ==
    /\ packet.on = "accepted"
    /\ LET n == packet.at
       IN  \/ Deliver
           \/ /\ n # PacketTarget /\ packet.ttl <= loopThreshold(n)
              /\ loopAvoid' = [loopAvoid EXCEPT ![n] = @ \cup {packet.from}]
              /\ packet' = NoPacket /\ UNCHANGED <<dials, dead>>
           \/ /\ n # PacketTarget /\ packet.ttl > loopThreshold(n)
              /\ Send(n, {packet.from}, NextTtl(packet.ttl), packet.sent + 1)
              /\ UNCHANGED loopAvoid
    /\ UNCHANGED <<rankOf, frBounds>>

\* InjectInbound of a frame on a dialled connection, whoever it is for: the kernel passes
\* on what is not its own, through the TUN again.
ReceiveDialled ==
    /\ packet.on = "dialled"
    /\ \/ Deliver
       \/ /\ packet.at # PacketTarget
          /\ packet' = IF packet.ip = 1 THEN NoPacket
                       ELSE [packet EXCEPT !.on = "tun", !.ip = @ - 1]
          /\ UNCHANGED <<dials, dead, loopAvoid>>
    /\ UNCHANGED <<rankOf, frBounds>>

\* InjectInbound with a full channel, or a connection that breaks with the frame on it.
PacketLost ==
    /\ packet.on \in {"accepted", "dialled"}
    /\ packet' = NoPacket
    /\ UNCHANGED <<dials, dead, rankOf, loopAvoid, frBounds>>

----------------------------------------------------------------------------
(* What changes meanwhile.                                                  *)

\* SetRankedHops and OnMaxHopsUpdate, after a round of probes.
RanksChange(n) ==
    /\ frBounds.ranks < MaxRankChanges
    /\ frBounds' = [frBounds EXCEPT !.ranks = @ + 1]
    /\ \E t \in RankTables, h \in {1, 3} :
          n \notin {t[i] : i \in DOMAIN t} /\ rankOf' = [rankOf EXCEPT ![n] = [hops |-> t, maxHops |-> h]]
    /\ UNCHANGED <<dials, dead, loopAvoid, packet>>

\* isLoopAvoided, after 60 seconds.
AvoidExpires(n) ==
    /\ loopAvoid[n] # {}
    /\ loopAvoid' = [loopAvoid EXCEPT ![n] = {}]
    /\ UNCHANGED <<dials, dead, rankOf, packet, frBounds>>

ConnectionDies(c) ==
    /\ frBounds.dials < MaxDialChanges /\ c \notin dead
    /\ frBounds' = [frBounds EXCEPT !.dials = @ + 1]
    /\ dead' = dead \cup {c}
    /\ UNCHANGED <<dials, rankOf, loopAvoid, packet>>

\* The reader of a dead connection ends: UnregisterPeerFramer, or the pool drops it.
ConnectionEnds(c) ==
    /\ dials' = dials \ {c} /\ dead' = dead \ {c}
    /\ UNCHANGED <<rankOf, loopAvoid, packet, frBounds>>

PacketStep == TunRead \/ ReceiveAccepted \/ ReceiveDialled

FrameNext ==
    \/ NewPacket \/ PacketStep \/ PacketLost
    \/ \E n \in FrameNodes : RanksChange(n) \/ AvoidExpires(n)
    \/ \E c \in dials : ConnectionDies(c)
    \/ \E c \in dead : ConnectionEnds(c)

FrameSpec == FrameInit /\ [][FrameNext]_frameVars

----------------------------------------------------------------------------
(* Properties.                                                              *)

FrameTypeOK ==
    /\ dead \subseteq dials /\ dials \subseteq FrameNodes \X FrameNodes
    /\ loopAvoid \in [FrameNodes -> SUBSET FrameNodes]
    /\ packet # NoPacket => packet.at \in FrameNodes /\ packet.from \in FrameNodes /\ packet.ip \in 1 .. IpTtl

\* However the tables of the nodes disagree and change, a frame is sent at most six times
\* before it is delivered, dropped or handed to a kernel (the TTL of OnFrame and
\* RelayForward).
RelaysBounded == packet # NoPacket => packet.sent <= 6
=============================================================================
