-------------------------- MODULE GatewayProtocols --------------------------
(***************************************************************************)
(* One mapping of a node's port, over the three protocols a gateway may    *)
(* speak (internal/nodecore/portmap):                                      *)
(*   natpmp.go   NAT-PMP and PCP: datagrams to the gateway, tried again,   *)
(*               which may be lost or late in either direction             *)
(*   igd.go      UPnP: calls; a port in conflict is replaced by another    *)
(*   portmap.go  what the mapper makes of them                             *)
(* The mapping is made, in two rounds, refreshed and removed.  How the     *)
(* three compete and what the lifecycle does with the mapping is Portmap's *)
(* matter.  The gateway may restart, and may grant no time at all.  Every  *)
(* exchange has a socket of its own, but the system may give a port out    *)
(* again: then a late answer to an earlier exchange reaches it.            *)
(***************************************************************************)
EXTENDS Integers, FiniteSets

CONSTANTS InternalPort, DynLow, DynHigh, PortStep,  \* nextCandidateExternalPort's numbers
          TakenPorts,       \* external ports that may be others' at the start
          MaxRetries,       \* natpmpMaxRetries
          MaxAttempts,      \* igdMap's
          MaxGwFaults,      \* bound: messages lost or late, restarts of the gateway
          MaxExchanges      \* bound

VARIABLES speaks,    \* the protocol: "natpmp", "pcp", "igd"
          portsTaken,\* external ports others hold
          mine,      \* external ports the gateway maps to the node
          operation,        \* the operation under way
          xchg,      \* exchanges begun: what tells their sockets and nonces apart
          requests,  \* datagrams to the gateway
          responses, \* datagrams to the node
          mapped,      \* the Mapping, NoneHeld for none
          grants,    \* history: ports granted for a time, and in which exchange
          conflicts, \* history: ports found in conflict since the round began
          forgot,    \* the gateway has restarted since the mapping was made
          gwFaults   \* of MaxGwFaults

gatewayVars == <<speaks, portsTaken, mine, operation, xchg, requests, responses, mapped, grants, conflicts, forgot, gwFaults>>

Datagrams == {"natpmp", "pcp"}
ExtPorts == {InternalPort} \cup DynLow .. DynHigh

\* (49152, 65535, a step of 7919, four attempts and three retries, in the code.)
ASSUME GatewayAssumption ==
    /\ InternalPort \in Nat \ {0} /\ DynLow \in Nat \ {0} /\ DynHigh \in Nat /\ DynLow <= DynHigh
    /\ PortStep \in Nat /\ (DynLow % (DynHigh - DynLow + 1)) = 0
    /\ \A d \in 1 .. MaxAttempts - 1 : ((d * PortStep) % (DynHigh - DynLow + 1)) # 0
    /\ TakenPorts \subseteq ExtPorts
    /\ MaxRetries \in Nat \ {0} /\ MaxAttempts \in Nat /\ MaxRetries <= MaxAttempts
    /\ MaxGwFaults \in Nat /\ MaxExchanges \in Nat

NoneHeld == [ext |-> 0, life |-> 0]
DoneWith == [ext |-> 0, life |-> 1]  \* the mapping is done with
Lease == {0, 1}   \* whether time is asked for or granted at all
(* last: no second round follows when this one fails.                      *)
NoOp == [kind |-> "none", tries |-> 0, ext |-> 0, life |-> 0, last |-> TRUE]

GatewayTypeOK ==
    /\ portsTaken \subseteq ExtPorts /\ mine \subseteq ExtPorts \ portsTaken
    /\ operation.kind \in {"none", "map", "refresh", "unmap"} /\ operation.tries \in 0 .. MaxAttempts
    /\ operation.ext \in ExtPorts \cup {0} /\ operation.life \in Lease /\ operation.last \in BOOLEAN
    /\ xchg \in 0 .. MaxExchanges
    /\ \A r \in requests : r.x \in 1 .. xchg /\ r.ext \in ExtPorts \cup {0} /\ r.life \in Lease
    /\ \A r \in responses : r.x \in 1 .. xchg /\ r.ext \in ExtPorts \cup {0}
    /\ mapped.ext \in ExtPorts \cup {0} /\ mapped.life \in Lease /\ gwFaults \in 0 .. MaxGwFaults

GatewayInit ==
    /\ speaks \in Datagrams \cup {"igd"} /\ portsTaken \in SUBSET TakenPorts
    /\ mine = {} /\ operation = NoOp /\ xchg = 0 /\ requests = {} /\ responses = {}
    /\ mapped = NoneHeld /\ grants = {} /\ conflicts = {} /\ forgot = FALSE /\ gwFaults = 0

-----------------------------------------------------------------------------
(* The node.                                                               *)

(* Map asks for the port itself; Refresh for the port it has and the time  *)
(* it was granted; Unmap for no time, and no port in particular.           *)
BeginOperation(kind, ext, life) ==
    /\ operation = NoOp /\ xchg < MaxExchanges
    /\ xchg' = xchg + 1 /\ conflicts' = {}
    /\ operation' = [kind |-> kind, tries |-> 0, ext |-> ext, life |-> life, last |-> kind # "map"]
    /\ UNCHANGED <<speaks, portsTaken, mine, requests, responses, mapped, grants, forgot, gwFaults>>

Map     == mapped = NoneHeld /\ xchg + 1 < MaxExchanges /\ BeginOperation("map", InternalPort, 1)
Refresh == mapped.ext # 0 /\ BeginOperation("refresh", mapped.ext, mapped.life)
Unmap   == mapped.ext # 0 /\ BeginOperation("unmap", IF speaks = "igd" THEN mapped.ext ELSE 0, 0)

(* The second round leaves the port to the gateway; igdMap knows no such   *)
(* thing and begins with the port itself again.                            *)
SecondRound ==
    /\ operation' = [operation EXCEPT !.tries = 0, !.last = TRUE, !.ext = IF speaks = "igd" THEN InternalPort ELSE 0]
    /\ xchg' = xchg + 1 /\ conflicts' = {} /\ UNCHANGED mapped

(* A granted lifetime of nothing is refused where time was asked for.      *)
anyGrantedTTL(asked, granted) == TRUE
validateGrantedTTL(asked, granted) == ~(asked > 0 /\ granted = 0)

Finish(result) == operation' = NoOp /\ mapped' = result /\ UNCHANGED <<xchg, conflicts>>
Fails == \/ ~operation.last /\ SecondRound
         \/ operation.last /\ Finish(IF operation.kind = "unmap" THEN DoneWith ELSE mapped)
(* Refresh keeps the mapping as it was, whatever was granted this time.    *)
Succeeds(ext, life) ==
    IF operation.kind = "map" /\ ~validateGrantedTTL(operation.life, life) THEN Fails
    ELSE Finish(CASE operation.kind = "map"     -> [ext |-> ext, life |-> life]
                  [] operation.kind = "refresh" -> mapped
                  [] OTHER               -> DoneWith)

GwFault == gwFaults < MaxGwFaults /\ gwFaults' = gwFaults + 1

(* natpmpExchange sends, and sends again what was not answered in time.    *)
RequestSent == [x |-> xchg, ext |-> operation.ext, life |-> operation.life]
SendRequest ==
    /\ speaks \in Datagrams /\ operation # NoOp /\ operation.tries < MaxRetries
    /\ operation.tries > 0 => ~\E r \in requests \cup responses : r.x = xchg
    /\ operation' = [operation EXCEPT !.tries = @ + 1]
    /\ requests' = requests \cup {RequestSent}
    /\ UNCHANGED <<speaks, portsTaken, mine, xchg, responses, mapped, grants, conflicts, forgot, gwFaults>>

ExchangeFails ==
    /\ speaks \in Datagrams /\ operation.tries = MaxRetries
    /\ ~\E r \in requests \cup responses : r.x = xchg
    /\ Fails
    /\ UNCHANGED <<speaks, portsTaken, mine, requests, responses, grants, forgot, gwFaults>>

(* The first datagram that comes ends the exchange, be it late; PCP's has  *)
(* to carry the nonce of the request, NAT-PMP's nothing.  NAT-PMP's        *)
(* mapping needs the outer address too, which may not be told.             *)
AnyEcho(r) == TRUE
NonceEchoed(r) == r.x = xchg
Believed(r) == r.ok /\ (speaks = "pcp" => NonceEchoed(r))
OuterAddressUntold == speaks = "natpmp" /\ operation.kind = "map" /\ Fails

ReadResponse(r) ==
    /\ operation.tries > 0 /\ r \in responses
    /\ responses' = responses \ {r}
    /\ \/ Believed(r) /\ Succeeds(r.ext, r.life)
       \/ ~Believed(r) /\ Fails
       \/ OuterAddressUntold
    /\ UNCHANGED <<speaks, portsTaken, mine, requests, grants, forgot, gwFaults>>

(* No device answers the multicast, or none describes a WAN service.       *)
NoDeviceFound ==
    /\ speaks = "igd" /\ operation.kind = "map" /\ operation.tries = 0
    /\ Fails
    /\ UNCHANGED <<speaks, portsTaken, mine, requests, responses, grants, forgot, gwFaults>>

(* igdMap: a port in conflict is replaced; any other fault ends it.        *)
InConflict(p) == p \in portsTaken
SameCandidate(prev, attempt) == DynLow
nextCandidateExternalPort(prev, attempt) ==
    LET span == DynHigh - DynLow + 1
        off  == (InternalPort + attempt * PortStep) % span
    IN  IF DynLow + off \in {prev, InternalPort} THEN DynLow + ((off + 1) % span) ELSE DynLow + off

Added == mine' = mine \cup {operation.ext} /\ grants' = grants \cup {[x |-> xchg, ext |-> operation.ext]}
NotAdded == UNCHANGED <<mine, grants>>

AddPortMapping ==
    /\ speaks = "igd" /\ operation.kind \in {"map", "refresh"}
    /\ \/ ~InConflict(operation.ext) /\ Added /\ Succeeds(operation.ext, operation.life)
       \/ ~InConflict(operation.ext) /\ Added /\ Fails  \* the answer, or the outer address, is lost
       \/ NotAdded /\ Fails                             \* the call does not get there
       \/ /\ InConflict(operation.ext) /\ NotAdded
          /\ IF operation.kind = "map" /\ operation.tries + 1 < MaxAttempts
             THEN /\ operation' = [operation EXCEPT !.tries = @ + 1, !.ext = nextCandidateExternalPort(operation.ext, operation.tries + 1)]
                  /\ conflicts' = conflicts \cup {operation.ext}
                  /\ UNCHANGED <<mapped, xchg>>
             ELSE Fails
    /\ UNCHANGED <<speaks, portsTaken, requests, responses, forgot, gwFaults>>

DeletePortMapping ==
    /\ speaks = "igd" /\ operation.kind = "unmap"
    /\ mine' \in {mine, mine \ {operation.ext}} /\ Finish(DoneWith)
    /\ UNCHANGED <<speaks, portsTaken, requests, responses, grants, forgot, gwFaults>>

-----------------------------------------------------------------------------
(* The gateway and the network.                                            *)

FreePorts == ExtPorts \ portsTaken
Granted(r) == IF mine # {} THEN mine
              ELSE IF r.ext \in FreePorts THEN {r.ext} ELSE FreePorts

(* A request without time removes the node's mapping; another is granted   *)
(* the node's port, the one it suggests, or another.                       *)
Serve(r) ==
    /\ r \in requests /\ requests' = requests \ {r}
    /\ IF r.life = 0
       THEN /\ mine' = {} /\ UNCHANGED grants
            /\ responses' = responses \cup {[x |-> r.x, ok |-> TRUE, ext |-> 0, life |-> 0]}
       ELSE \/ \E p \in Granted(r), life \in Lease :
                 /\ IF life = 0 THEN UNCHANGED <<mine, grants>>
                    ELSE mine' = {p} /\ grants' = grants \cup {[x |-> r.x, ext |-> p]}
                 /\ responses' = responses \cup {[x |-> r.x, ok |-> TRUE, ext |-> p, life |-> life]}
            \/ /\ FreePorts = {} /\ UNCHANGED <<mine, grants>>
               /\ responses' = responses \cup {[x |-> r.x, ok |-> FALSE, ext |-> 0, life |-> 0]}
    /\ UNCHANGED <<speaks, portsTaken, operation, xchg, mapped, conflicts, forgot, gwFaults>>

(* What is late is kept back until its exchange is over; what is lost is   *)
(* gone.                                                                   *)
Dropped(r) ==
    /\ GwFault
    /\ \/ r \in requests /\ requests' = requests \ {r} /\ UNCHANGED responses
       \/ r \in responses /\ responses' = responses \ {r} /\ UNCHANGED requests
    /\ UNCHANGED <<speaks, portsTaken, mine, operation, xchg, mapped, grants, conflicts, forgot>>

(* The context ends, or the last answer is awaited in vain and late.       *)
GivenUp ==
    /\ GwFault /\ speaks \in Datagrams /\ operation # NoOp
    /\ Fails
    /\ UNCHANGED <<speaks, portsTaken, mine, requests, responses, grants, forgot>>

GatewayRestarts ==
    /\ GwFault
    /\ mine' = {} /\ forgot' = TRUE
    /\ portsTaken' \in SUBSET TakenPorts
    /\ UNCHANGED <<speaks, operation, xchg, requests, responses, mapped, grants, conflicts>>

GatewayNext ==
    \/ Map \/ Refresh \/ Unmap \/ SendRequest \/ ExchangeFails \/ GivenUp
    \/ NoDeviceFound \/ AddPortMapping \/ DeletePortMapping \/ GatewayRestarts
    \/ \E r \in responses : ReadResponse(r) \/ Dropped(r)
    \/ \E r \in requests : Serve(r) \/ Dropped(r)

-----------------------------------------------------------------------------
(* Properties.                                                             *)

\* A port is taken for the node's only when the gateway has granted it to the node for a
\* time, in this very exchange where the protocol can tell: not on the word of an answer
\* that was late (pcpSendMap's nonce) or of a grant of no time (validateGrantedTTL).  A
\* late answer of NAT-PMP is believed: what it told was granted, once.
HeldWasGranted ==
    [][mapped' # mapped /\ mapped'.ext # 0 =>
          \E g \in grants' : g.ext = mapped'.ext /\ (speaks # "natpmp" => g.x = xchg)]_gatewayVars

\* A refresh does not remove what it refreshes: as long as the gateway has not forgotten,
\* a mapping that is held is in its table, a grant of no time included
\* (validateGrantedTTL); and no port is tried twice in vain in one round
\* (nextCandidateExternalPort).
RefreshKeeps ==
    /\ mapped.ext # 0 /\ ~forgot /\ operation.kind # "unmap" => mine # {}
    /\ operation.kind = "map" => operation.ext \notin conflicts
=============================================================================
