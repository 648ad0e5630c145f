------------------------------ MODULE Outbound ------------------------------
(***************************************************************************)
(* The way out of a node, from a packet read from the TUN to the node it   *)
(* is meant for, and the configurations that change it:                    *)
(*   internal/nodecore/dataplane/dataplane.go   processOutboundBatch,      *)
(*                            ApplyConfig, buildRouteConfig, buildHopMap   *)
(*   internal/nodecore/flowtrack/               Tracker                    *)
(*   internal/nodecore/route/engine.go          Engine, the FIB            *)
(*                                                                         *)
(* One goroutine reads the TUN; ApplyConfig runs in another one, and       *)
(* changes the FIB, the pool and the flow table one after the other.  A    *)
(* node configures no rules by port or by domain, and no weighted routes:  *)
(* the FIB decides.  Sending itself is FrameRelay's.                       *)
(***************************************************************************)
EXTENDS Integers, Sequences, FiniteSets

CONSTANTS
    FlowKeys,      \* flows that packets may belong to
    VipOf,         \* their destinations
    FlowTimeout,   \* how long each may be idle (by protocol)
    Bits, Within,  \* length of a prefix, and the destinations it contains
    NodeConfigs,   \* configurations: peers with prefixes, relay addresses, neighbour addresses
    MaxFlows,      \* 65536 in the program
    MaxAge, MaxApplied, MaxReads   \* bounds

ASSUME OutboundAssumption == MaxFlows \in Nat \ {0} /\ FlowTimeout \in [FlowKeys -> Nat]

VARIABLES
    fib,           \* the snapshot of the route engine
    hopMap,        \* what pool.Update was given
    flows,         \* the table: next hop and idle time of every flow in it
    totalFlows,    \* the counter kept beside the shards
    outPkt,        \* the packet under way
    applying,      \* where ApplyConfig is
    obBounds

obVars == <<fib, hopMap, flows, totalFlows, outPkt, applying, obBounds>>

Unrouted == ""
NoPkt == [pc |-> "none"]
NotApplying == [pc |-> "none"]

OutInit ==
    /\ fib = {} /\ hopMap = <<>>
    /\ flows = <<>> /\ totalFlows = 0
    /\ outPkt = NoPkt /\ applying = NotApplying
    /\ obBounds = [applied |-> 0, reads |-> 0]

----------------------------------------------------------------------------
(* Routes.                                                                  *)

buildRouteConfig(cfg) ==
    UNION {{[prefix |-> p, hop |-> n] : p \in cfg.peers[n]} : n \in DOMAIN cfg.peers}

\* Neighbours by their addresses, the relay after them; the other peers through the relay.
buildHopMap(cfg) ==
    LET fallback == IF cfg.relays = <<>> THEN <<>> ELSE <<Head(cfg.relays)>>
        others == IF fallback = <<>> THEN {} ELSE DOMAIN cfg.peers
    IN  [n \in DOMAIN cfg.addrs \cup others |->
           (IF n \in DOMAIN cfg.addrs THEN cfg.addrs[n] ELSE <<>>) \o fallback]

Matching(vip) == {e \in fib : vip \in Within[e.prefix]}

\* Entries are sorted by the length of their prefix, in any order where that is the same.
RouteCtx(vip) ==
    {e.hop : e \in {e \in Matching(vip) : \A f \in Matching(vip) : Bits[f.prefix] <= Bits[e.prefix]}}

----------------------------------------------------------------------------
(* Packets.                                                                 *)

Dropped(k, why) == [pc |-> "dropped", key |-> k, why |-> why]

\* Tracker.Track.
Track(k) ==
    /\ outPkt = NoPkt /\ obBounds.reads < MaxReads
    /\ obBounds' = [obBounds EXCEPT !.reads = @ + 1]
    /\ \/ /\ k \in DOMAIN flows
          /\ flows' = [flows EXCEPT ![k].age = 0]
          /\ outPkt' = [pc |-> "tracked", key |-> k, hop |-> flows[k].hop]
          /\ UNCHANGED totalFlows
       \/ /\ k \notin DOMAIN flows /\ totalFlows >= MaxFlows
          /\ outPkt' = Dropped(k, "tableFull")
          /\ UNCHANGED <<flows, totalFlows>>
       \/ /\ k \notin DOMAIN flows /\ totalFlows < MaxFlows
          /\ flows' = [f \in DOMAIN flows \cup {k} |->
                         IF f = k THEN [hop |-> Unrouted, age |-> 0] ELSE flows[f]]
          /\ totalFlows' = totalFlows + 1
          /\ outPkt' = [pc |-> "tracked", key |-> k, hop |-> Unrouted]
    /\ UNCHANGED <<fib, hopMap, applying>>

\* Asking the FIB for every packet.
NextHopAnew(pkt) == RouteCtx(VipOf[pkt.key])

\* A flow keeps the hop it was given; one without asks the FIB.
NextHop(pkt) == IF pkt.hop # Unrouted THEN {pkt.hop} ELSE RouteCtx(VipOf[pkt.key])

\* The rest of processOutboundBatch.  The flow may have been expired since: then what is
\* set is lost with it.
RoutePacket ==
    /\ outPkt.pc = "tracked"
    /\ \/ /\ NextHop(outPkt) = {}
          /\ outPkt' = Dropped(outPkt.key, "noRoute")
          /\ UNCHANGED flows
       \/ \E h \in NextHop(outPkt) :
             /\ flows' = [k \in DOMAIN flows |->
                            IF k = outPkt.key THEN [flows[k] EXCEPT !.hop = h] ELSE flows[k]]
             /\ outPkt' = [pc |-> "routed", key |-> outPkt.key, hop |-> h]
    /\ UNCHANGED <<fib, hopMap, totalFlows, applying, obBounds>>

\* The packet is sent, or dropped: FrameRelay!Send.
PacketDone ==
    /\ outPkt.pc \in {"routed", "dropped"}
    /\ outPkt' = NoPkt
    /\ UNCHANGED <<fib, hopMap, flows, totalFlows, applying, obBounds>>

----------------------------------------------------------------------------
(* ApplyConfig.                                                             *)

UpdateRoutes(cfg) ==
    /\ applying.pc = "none" /\ obBounds.applied < MaxApplied
    /\ obBounds' = [obBounds EXCEPT !.applied = @ + 1]
    /\ fib' = buildRouteConfig(cfg)
    /\ applying' = [pc |-> "pool", cfg |-> cfg]
    /\ UNCHANGED <<hopMap, flows, totalFlows, outPkt>>

UpdatePool ==
    /\ applying.pc = "pool"
    /\ hopMap' = buildHopMap(applying.cfg)
    /\ applying' = [pc |-> "expire", shards |-> FlowKeys]
    /\ UNCHANGED <<fib, flows, totalFlows, outPkt, obBounds>>

\* Deleting without counting.
Uncounted(k) == totalFlows

Discounted(k) == totalFlows - 1

\* Tracker.Expire goes through the shards (a flow stands for its shard) under their locks.
ExpireShard(k) ==
    /\ applying.pc = "expire" /\ k \in applying.shards
    /\ applying' = IF applying.shards = {k} THEN NotApplying
                   ELSE [applying EXCEPT !.shards = @ \ {k}]
    /\ IF k \in DOMAIN flows /\ flows[k].age > FlowTimeout[k]
       THEN /\ flows' = [f \in DOMAIN flows \ {k} |-> flows[f]]
            /\ totalFlows' = Discounted(k)
       ELSE UNCHANGED <<flows, totalFlows>>
    /\ UNCHANGED <<fib, hopMap, outPkt, obBounds>>

FlowsAge ==
    /\ \E k \in DOMAIN flows : flows[k].age < MaxAge
    /\ flows' = [k \in DOMAIN flows |->
                   [flows[k] EXCEPT !.age = IF @ < MaxAge THEN @ + 1 ELSE @]]
    /\ UNCHANGED <<fib, hopMap, totalFlows, outPkt, applying, obBounds>>

OutNext ==
    \/ \E k \in FlowKeys : Track(k) \/ ExpireShard(k)
    \/ RoutePacket \/ PacketDone \/ UpdatePool \/ FlowsAge
    \/ \E cfg \in NodeConfigs : UpdateRoutes(cfg)

OutSpec == OutInit /\ [][OutNext]_obVars

----------------------------------------------------------------------------
(* Properties.                                                              *)

OutTypeOK ==
    /\ DOMAIN flows \subseteq FlowKeys /\ totalFlows \in 0 .. MaxFlows
    /\ outPkt # NoPkt => outPkt.key \in FlowKeys

\* The counter that bounds the table counts what is in it, whatever is tracked while
\* ApplyConfig expires shard after shard (Tracker.totalFlows).
FlowsCounted == totalFlows = Cardinality(DOMAIN flows)

\* A flow goes where the longest prefix led when it was first routed, and its packets keep
\* to that while configurations come and go (processOutboundBatch: "a change of routes
\* touches new flows only").
FlowKeepsHop ==
    \A k \in DOMAIN flows \cap DOMAIN flows' :
        IF flows[k].hop # Unrouted THEN flows'[k].hop = flows[k].hop
        ELSE flows'[k].hop # Unrouted => flows'[k].hop \in RouteCtx(VipOf[k])
=============================================================================
