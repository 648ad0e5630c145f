------------------------------ MODULE MCNodeHost -----------------------------
(***************************************************************************)
(* Instances, for TLC, of how a node lives on its host: how the program    *)
(* gets an identity and assembles what it runs, the split tunnel with its  *)
(* DNS relay and its direct flows, the rules and the proxy it sets up, how *)
(* it finds its own addresses, its position and a port on the gateway, and *)
(* the local socket it is controlled over.  They share no state: a         *)
(* behaviour is one of exactly one of them, which part names.              *)
(***************************************************************************)
EXTENDS NodeProgram, SplitTunnel, DnsRelay, HostFirewall, IngressDiscovery, NodeLocation,
        GatewayProtocols, LocalRpc, NodeIdentity, DirectFlows, TLC

VARIABLE part

hostVars == <<npVars, stVars, dnsVars, fwVars, ingressVars, locVars, gatewayVars, rpcVars, identityVars, directVars, part>>

\* (log is the ring of LocalRpc, which nothing else of it touches.)
Parts == {"program", "split", "dns", "firewall", "ingress", "location", "gateway",
          "rpc", "log", "identity", "direct"}

HostInit ==
    /\ NpInit /\ StInit /\ DnsInit /\ FwInit /\ IngressInit /\ LocInit /\ GatewayInit
    /\ RpcInit /\ IdentityInit /\ DirectInit
    /\ part \in Parts
    /\ part # "program" => held = CHOOSE h \in FirstConfigs : TRUE
    /\ part # "ingress" =>
         /\ natMap = (CHOOSE n \in NatMaps : TRUE)
         /\ own = (CHOOSE o \in OwnAddresses : TRUE)
         /\ declared = (CHOOSE d \in Declared : TRUE)
    /\ part # "location" => ~abroad /\ knownCity /\ pages = {}
    /\ part # "gateway" => speaks = "igd" /\ portsTaken = {}

HostNext ==
    \/ part = "program" /\ NpNext /\ UNCHANGED <<stVars, dnsVars, fwVars, ingressVars, locVars, gatewayVars, rpcVars, identityVars, directVars, part>>
    \/ part = "split" /\ StNext /\ UNCHANGED <<npVars, dnsVars, fwVars, ingressVars, locVars, gatewayVars, rpcVars, identityVars, directVars, part>>
    \/ part = "dns" /\ DnsNext /\ UNCHANGED <<npVars, stVars, fwVars, ingressVars, locVars, gatewayVars, rpcVars, identityVars, directVars, part>>
    \/ part = "firewall" /\ FwNext /\ UNCHANGED <<npVars, stVars, dnsVars, ingressVars, locVars, gatewayVars, rpcVars, identityVars, directVars, part>>
    \/ part = "ingress" /\ IngressNext /\ UNCHANGED <<npVars, stVars, dnsVars, fwVars, locVars, gatewayVars, rpcVars, identityVars, directVars, part>>
    \/ part = "location" /\ LocNext /\ UNCHANGED <<npVars, stVars, dnsVars, fwVars, ingressVars, gatewayVars, rpcVars, identityVars, directVars, part>>
    \/ part = "gateway" /\ GatewayNext /\ UNCHANGED <<npVars, stVars, dnsVars, fwVars, ingressVars, locVars, rpcVars, identityVars, directVars, part>>
    \/ part = "rpc" /\ RpcNext /\ UNCHANGED <<npVars, stVars, dnsVars, fwVars, ingressVars, locVars, gatewayVars, identityVars, directVars, part>>
    \/ part = "log" /\ Log /\ UNCHANGED <<npVars, stVars, dnsVars, fwVars, ingressVars, locVars, gatewayVars, identityVars, directVars, part>>
    \/ part = "identity" /\ IdentityNext /\ UNCHANGED <<npVars, stVars, dnsVars, fwVars, ingressVars, locVars, gatewayVars, rpcVars, directVars, part>>
    \/ part = "direct" /\ DirectNext /\ UNCHANGED <<npVars, stVars, dnsVars, fwVars, ingressVars, locVars, gatewayVars, rpcVars, identityVars, part>>

\* The fairness of each, while it is the one that runs.
HostFairness ==
    /\ WF_locVars(part = "location" /\ ReporterStep) /\ WF_locVars(part = "location" /\ MasterStep)
    /\ WF_rpcVars(part = "rpc" /\ ServeStep) /\ WF_rpcVars(part = "rpc" /\ CloserStep)
    /\ \A c \in RpcConns : /\ WF_rpcVars(part = "rpc" /\ ReaderStep(c))
                           /\ WF_rpcVars(part = "rpc" /\ StreamStep(c))
    /\ WF_directVars(part = "direct" /\ StackShut) /\ WF_directVars(part = "direct" /\ StackClosed)
    /\ \A f \in DirectFlowIds : WF_directVars(part = "direct" /\ DirectStep(f))

HostSpec == HostInit /\ [][HostNext]_hostVars /\ HostFairness

-----------------------------------------------------------------------------
(* The instance.                                                           *)

\* A proxy for the host or for its network, with one internal name and either of two
\* upstreams; two egress rules, or none.
Dns(on, mode, up, names) == [enabled |-> on, mode |-> mode, port |-> 1, upstream |-> up, records |-> names]
FourDns ==
    {Dns(TRUE, "local", "u1", {}), Dns(TRUE, "local", "u2", {"n"}),
     Dns(TRUE, "lan", "u1", {"n"}), Dns(FALSE, "local", "u1", {})}
TwoEgress ==
    {<<>>, <<[kind |-> "direct", vip |-> "v1", target |-> "none", snat |-> TRUE],
             [kind |-> "static_mapping", vip |-> "v2", target |-> "t2", snat |-> FALSE]>>}

\* Three STUN servers, behind a NAT of each kind, and behind one that maps alike for two of
\* them, which may be one.
ThreeServers == <<"s1", "s2", "s3">>
At(h, p) == [host |-> h, port |-> p]
NatKinds ==
    {[s \in {"s1", "s2", "s3"} |-> At("wan", 1)],
     ("s1" :> At("wan", 1)) @@ ("s2" :> At("wan", 1)) @@ ("s3" :> At("wan", 2)),
     ("s1" :> At("wan", 1)) @@ ("s2" :> At("wan", 2)) @@ ("s3" :> At("wan", 3)),
     [s \in {"s1", "s2", "s3"} |-> At("cgn", 1)]}
TwoHosts == {{"lan", "loop"}, {"wan", "vip"}}
Named(cdn, h, p) == [cdn |-> cdn, host |-> h, port |-> p]
ThreeDeclared == {<<>>, <<Named(TRUE, "wan", 443), Named(FALSE, "wan", 7447)>>, <<Named(FALSE, "wan", 0)>>}
Classes == [wan |-> "public", lan |-> "lan", vip |-> "vip", loop |-> "loop", cgn |-> "vip"]

-----------------------------------------------------------------------------
(* Properties.                                                             *)

HostTypeOK ==
    /\ part = "program" => NpTypeOK
    /\ part = "split" => StTypeOK
    /\ part = "dns" => DnsTypeOK
    /\ part = "firewall" => FwTypeOK
    /\ part = "ingress" => IngressTypeOK
    /\ part = "location" => LocTypeOK
    /\ part = "gateway" => GatewayTypeOK
    /\ part \in {"rpc", "log"} => RpcTypeOK
    /\ part = "identity" => IdentityTypeOK
    /\ part = "direct" => DirectTypeOK

\* What is replaced is given back, whichever step fails: a role change leaves one data
\* plane, the split tunnel the system's own resolver configuration (but for a backup cut
\* short), a configuration the rules of it alone; and a query that is led away from the
\* resolver is answered, once (SwitchRole;
\* OverrideResolv, RestoreResolv; Manager, ApplyConfig; HandleResponse).
ReplacedCleanly ==
    /\ part = "program" => OneCurrentDataPlane
    /\ part = "split" => OwnResolvKept
    /\ part = "firewall" => RulesExact /\ QueriesAnswered
    /\ part = "dns" => AnsweredAtMostOnce

\* What a node tells of itself is so, though answers come late, twice or from others: a
\* mapping called stable, an own address, an exact position, a port it has on the gateway
\* (StunProbe, Merge; resolve; Refresh).
ReportsTrue ==
    /\ part = "ingress" => StableIsStable /\ OwnAddressDialable
    /\ part = "location" => ExactIsTrue
    /\ part = "gateway" => RefreshKeeps

\* Nothing is left running when Close has returned, a terminal's answers are those to its
\* calls, and the log it shows is the newest (Server.Close, handleConn, LogBuffer;
\* GVisorStack.Close).
LocalServicesOrderly ==
    /\ part = "rpc" => CloseCoversAll /\ LinesPairUp
    /\ part = "log" => RecentIsNewest
    /\ part = "direct" => CloseCoversCounted

\* The controller holds a node's position again when it is back; closing the local socket
\* ends, and so do direct flows, and with them the closing of their stack.
HostRecovers == PositionComesBack /\ CloseEnds /\ DirectFlowsEnd
=============================================================================
