-------------------------- MODULE IngressDiscovery --------------------------
(***************************************************************************)
(* How a node finds the addresses others may reach it at, and reports them *)
(*   internal/nodecore/ingress/*.go            six sources, STUN, Merge    *)
(*   internal/nodecore/config/ingress.go       what the operator declares  *)
(*   internal/controller/ingress/*.go          reflector, observed address *)
(*   cmd/corelink-node/main.go                 discoverAndReportIngress    *)
(* The sources are asked in order and any of them may fail.  STUN asks     *)
(* several servers from one socket and compares the first two answers; an  *)
(* answer may be lost, late or doubled.  A discovery runs at the start and *)
(* again when a port mapping is lost.                                      *)
(***************************************************************************)
EXTENDS Integers, Sequences, FiniteSets, SequencesExt

CONSTANTS StunServers,   \* DefaultStunServers, in order
          NatMaps,       \* what NATs there may be: server -> the address it sees
          OwnAddresses,  \* what the node's interfaces may have: sets of hosts
          Declared,      \* what may be configured: sequences of [cdn, host, port]
          HostClass,     \* host -> "public", "lan", "vip", "loop"
          ListenPort,    \* the data plane's
          ClientPort,    \* the source port of the node's calls to the controller
          MaxDiscoveries \* bound

\* Two names may be of one server, and a NAT may map a socket for any two servers alike or
\* not; no port is 0 but one the operator leaves out.
ASSUME IngressAssumption ==
    /\ StunServers \in Seq(Range(StunServers)) /\ StunServers # <<>>
    /\ NatMaps \subseteq [Range(StunServers) -> [host : DOMAIN HostClass, port : Nat \ {0}]]
    /\ \A o \in OwnAddresses : o \subseteq DOMAIN HostClass /\ IsFiniteSet(o)
    /\ Declared \subseteq Seq([cdn : BOOLEAN, host : DOMAIN HostClass, port : Nat])
    /\ ListenPort \in Nat \ {0} /\ ClientPort \in Nat \ {0} /\ MaxDiscoveries \in Nat

VARIABLES natMap, own, declared,  \* the node's surroundings
          step,       \* where the discovery is
          candidates, \* gathered so far
          serversAsked, \* StunProbe: servers asked, the last of them being awaited
          stunAnswers,    \* datagrams on their way to the socket
          mappings,   \* what the servers saw
          cached,     \* cachedIngresses, for the node's own interface
          ingressSets, \* the controller's Receiver.ingressSets
          discoveries, \* discoveries begun, of MaxDiscoveries
          listed      \* history: the hosts the interfaces listed, of the discovery under way
                      \* and of those the cached and the reported set come from

ingressVars == <<natMap, own, declared, step, candidates, serversAsked, stunAnswers, mappings, cached, ingressSets, discoveries, listed>>
surroundings == <<natMap, own, declared>>

Host == DOMAIN HostClass
Addr == [host : Host, port : Nat]
Steps == {"idle", "observe", "stun", "await", "interfaces", "url", "portmap", "report"}

IngressInit ==
    /\ natMap \in NatMaps /\ own \in OwnAddresses /\ declared \in Declared
    /\ step = "idle" /\ candidates = <<>> /\ serversAsked = 0 /\ stunAnswers = {} /\ mappings = <<>>
    /\ cached = {} /\ ingressSets = {} /\ discoveries = 0
    /\ listed = [now |-> {}, cached |-> {}, reported |-> {}]

-----------------------------------------------------------------------------
(* Addresses and candidates.                                               *)

isPubliclyRoutable(h) == HostClass[h] = "public"

Confidence(src, h) ==
    CASE src = "CONFIG" -> 95 [] src = "OBSERVED" -> 80 [] src = "UPNP" -> 75 [] src = "STUN" -> 70
      [] src = "URL" -> 50 [] src = "NETIF" -> IF isPubliclyRoutable(h) THEN 90 ELSE 60
sourcePriority == [URL |-> 1, CONFIG |-> 2, STUN |-> 3, UPNP |-> 4, OBSERVED |-> 5, NETIF |-> 6]

Ingress(kind, host, port, src, nat) ==
    [kind |-> kind, host |-> host, port |-> port, src |-> src, conf |-> Confidence(src, host), nat |-> nat]
Direct(a, src) == Ingress("IP_DIRECT", a.host, a.port, src, "UNKNOWN")

ConfigIngresses(ds) ==
    [i \in DOMAIN ds |-> Ingress(IF ds[i].cdn THEN "CDN" ELSE "IP_DIRECT", ds[i].host, ds[i].port, "CONFIG", "UNKNOWN")]

(* Everything but loopback and the overlay's own range; no port is known.  *)
EnumInterfaces(hosts) ==
    {Direct([host |-> h, port |-> 0], "NETIF") : h \in {o \in hosts : HostClass[o] \notin {"loop", "vip"}}}

dedupKey(i) == <<i.host, i.port, i.kind>>
betterThanLater(c, i) == TRUE
betterThan(c, i) == \/ c.conf > i.conf
                    \/ c.conf = i.conf /\ sourcePriority[c.src] > sourcePriority[i.src]

(* Of the candidates for one address the best is kept, the first of them.  *)
Rivals(out, c) == {i \in out : dedupKey(i) = dedupKey(c)}
MergedWith(out, c) ==
    IF \A i \in Rivals(out, c) : betterThan(c, i) THEN (out \ Rivals(out, c)) \cup {c} ELSE out
MergedUpTo(cs) ==
    LET out[n \in 0 .. Len(cs)] == IF n = 0 THEN {} ELSE MergedWith(out[n - 1], cs[n])
    IN  out
Merge(cs) == MergedUpTo(cs)[Len(cs)]

(* The data plane's port, for the interface's addresses, after the merge.  *)
WithPorts(set) == {IF i.port = 0 /\ i.src = "NETIF" THEN [i EXCEPT !.port = ListenPort] ELSE i : i \in set}

IngressTypeOK ==
    /\ step \in Steps
    /\ \A i \in Range(candidates) \cup cached \cup ingressSets :
         /\ <<i.host, i.port>> \in Host \X Nat /\ i.src \in DOMAIN sourcePriority
         /\ i.nat \in {"UNKNOWN", "FULL_CONE", "SYMMETRIC"}
    /\ serversAsked \in 0 .. Len(StunServers) /\ Len(mappings) <= 2 /\ Range(mappings) \subseteq Addr
    /\ \A a \in stunAnswers : a.txid \in 1 .. serversAsked /\ a.seen \in Addr
    /\ discoveries \in 0 .. MaxDiscoveries
    /\ listed \in [{"now", "cached", "reported"} -> SUBSET own]

-----------------------------------------------------------------------------
(* A discovery.                                                            *)

StartDiscovery ==
    /\ step = "idle" /\ discoveries < MaxDiscoveries
    /\ discoveries' = discoveries + 1
    /\ step' = "observe" /\ candidates' = ConfigIngresses(declared)
    /\ serversAsked' = 0 /\ stunAnswers' = {} /\ mappings' = <<>>
    /\ UNCHANGED <<surroundings, cached, ingressSets, listed>>

Gather(from, to, is) ==
    /\ step = from /\ step' = to
    /\ candidates' = candidates \o is
    /\ UNCHANGED <<surroundings, serversAsked, stunAnswers, mappings, cached, ingressSets, discoveries>>

(* ObserveSource: the address the controller sees the call come from.      *)
Observed == Direct([natMap[StunServers[1]] EXCEPT !.port = ClientPort], "OBSERVED")
ObserveAddress == (\E is \in {<<>>, <<Observed>>} : Gather("observe", "stun", is)) /\ UNCHANGED listed

(* A server, as the controller's reflector is one, answers with the source *)
(* address it saw and the number of the request.                           *)
StunAnswer(k) == [txid |-> k, seen |-> natMap[StunServers[k]]]

(* The next server: its name does not resolve, the request or the answer   *)
(* is lost, or the answer is on its way.                                   *)
AskTarget ==
    /\ step = "stun" /\ serversAsked < Len(StunServers) /\ Len(mappings) < 2
    /\ serversAsked' = serversAsked + 1
    /\ \/ step' = "stun" /\ UNCHANGED stunAnswers
       \/ step' = "await" /\ stunAnswers' \in {stunAnswers, stunAnswers \cup {StunAnswer(serversAsked + 1)}}
    /\ UNCHANGED <<surroundings, candidates, mappings, cached, ingressSets, discoveries, listed>>

(* The socket is read until the answer awaited comes, or the deadline; a   *)
(* datagram may have been doubled on the way.                              *)
IsAnyAnswer(a, k) == TRUE
IsAnswerTo(a, k) == a.txid = k
WorthReporting(a) == IsAnswerTo(a, serversAsked)

ReadAnswer(a) ==
    /\ step = "await" /\ a \in stunAnswers
    /\ stunAnswers' \in {stunAnswers, stunAnswers \ {a}}
    /\ IF WorthReporting(a) THEN mappings' = Append(mappings, a.seen) /\ step' = "stun"
                      ELSE UNCHANGED <<mappings, step>>
    /\ UNCHANGED <<surroundings, candidates, serversAsked, cached, ingressSets, discoveries, listed>>

TargetTimesOut ==
    /\ step = "await" /\ step' = "stun"
    /\ UNCHANGED <<surroundings, candidates, serversAsked, stunAnswers, mappings, cached, ingressSets, discoveries, listed>>

(* Two answers, no server left, or the deadline of the whole discovery.    *)
NatType(ms) == IF ~isPubliclyRoutable(ms[1].host) \/ Len(ms) = 1 THEN "UNKNOWN"
               ELSE IF ms[1] = ms[2] THEN "FULL_CONE" ELSE "SYMMETRIC"
StunIngress == IF mappings = <<>> THEN <<>>
               ELSE <<Ingress("IP_DIRECT", mappings[1].host, mappings[1].port, "STUN", NatType(mappings))>>

EndStun == Gather("stun", "interfaces", StunIngress) /\ UNCHANGED listed

(* The interfaces cannot be listed at all, or an interface not its         *)
(* addresses: those are passed over.                                       *)
Interfaces ==
    \E hosts \in SUBSET own :
        /\ Gather("interfaces", "url", SetToSeq(EnumInterfaces(hosts)))
        /\ listed' = [listed EXCEPT !.now = hosts]

(* QueryPublicIP: the first page that answers with a public address.       *)
PublicIP == {h \in {natMap[s].host : s \in Range(StunServers)} : isPubliclyRoutable(h)}
AskUrl == /\ \E is \in {<<>>} \cup {<<Direct([host |-> h, port |-> 0], "URL")>> : h \in PublicIP} :
               Gather("url", "portmap", is)
          /\ UNCHANGED listed

(* PortmapDiscover: the mappings the gateway granted.                      *)
MapPorts == /\ \E is \in {<<>>} \cup {<<Direct([host |-> h, port |-> ListenPort], "UPNP")>> : h \in PublicIP} :
                 Gather("portmap", "report", is)
            /\ UNCHANGED listed

(* The set is cached, then reported; a report that fails is not repeated.  *)
Report ==
    /\ step = "report" /\ step' = "idle"
    /\ cached' = WithPorts(Merge(candidates))
    /\ \/ ingressSets' = cached' /\ listed' = [listed EXCEPT !.cached = listed.now, !.reported = listed.now]
       \/ ingressSets' = ingressSets /\ listed' = [listed EXCEPT !.cached = listed.now]
    /\ candidates' = <<>> /\ mappings' = <<>> /\ stunAnswers' = {} /\ serversAsked' = 0
    /\ UNCHANGED <<surroundings, discoveries>>

IngressNext ==
    \/ StartDiscovery \/ ObserveAddress \/ AskTarget \/ TargetTimesOut \/ EndStun \/ Interfaces
    \/ AskUrl \/ MapPorts \/ Report
    \/ \E a \in stunAnswers : ReadAnswer(a)

-----------------------------------------------------------------------------
(* Properties.                                                             *)

\* A mapping is called stable only when two of the servers asked see the same public
\* address: an answer that comes late or twice is not taken for another server's
\* (stunBindingOnConn, StunProbe, inferNatType).
StableIsStable ==
    \A i \in cached \cup ingressSets : i.src = "STUN" /\ i.nat = "FULL_CONE" =>
        /\ isPubliclyRoutable(i.host)
        /\ \E j, k \in DOMAIN StunServers :
             j # k /\ \A x \in {j, k} : natMap[StunServers[x]] = [host |-> i.host, port |-> i.port]

\* An address an interface listed is reported with a port to dial, whatever else names it,
\* and an edge's name is not merged with it, unless the operator declares it without a port
\* (Merge, the completion of ports in discoverAndReportIngress).
Dialable(set, hosts) ==
    /\ \A h \in hosts : HostClass[h] \in {"public", "lan"} =>
         \/ \E i \in set : i.kind = "IP_DIRECT" /\ i.host = h /\ i.port > 0
         \/ \E d \in Range(declared) : ~d.cdn /\ d.host = h /\ d.port = 0
    /\ \A d \in Range(declared) : d.cdn => \E i \in set : i.kind = "CDN" /\ i.host = d.host /\ i.port = d.port
OwnAddressDialable ==
    /\ cached # {} => Dialable(cached, listed.cached)
    /\ ingressSets # {} => Dialable(ingressSets, listed.reported)
=============================================================================
