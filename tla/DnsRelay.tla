------------------------------ MODULE DnsRelay ------------------------------
(***************************************************************************)
(* DNS interception: the asking node takes DNS queries off its TUN device  *)
(* and sends them as frames to the exit node, which resolves them and      *)
(* answers on the connection the frame came by.  Each of the two nodes may *)
(* have dialled the other, so there may be two connections, and a frame is *)
(* handled by what its connection's end was set up with: the listener's    *)
(* framers resolve it (HandleDNSFrame), the dialled ones take it for an    *)
(* answer (HandleResponse).  Queries wait by their 16-bit transaction id.  *)
(***************************************************************************)
EXTENDS Integers, FiniteSets

CONSTANTS TxIds,      \* transaction ids the applications draw from
          MaxQueries  \* bound: queries intercepted

ASSUME DnsAssumption == MaxQueries \in Nat

VARIABLES linked,   \* the connections that are up, by the node that dialled
          asked,    \* queries intercepted so far
          pending,  \* DNSRelay.pending: transaction id to the query that waits
          frames,   \* DNS frames on their way
          work,     \* queries the exit is resolving
          answers   \* query to the answers injected for it

dnsVars == <<linked, asked, pending, frames, work, answers>>

Dialled == {"asker", "exit"}
Queries == 1 .. MaxQueries
NoQuery == 0
Frame == [conn: Dialled, to: {"asker", "exit"}, tx: TxIds, q: Queries]

DnsTypeOK ==
  /\ linked \subseteq Dialled
  /\ asked \in 0 .. MaxQueries
  /\ pending \in [TxIds -> Queries \cup {NoQuery}]
  /\ frames \subseteq Frame /\ work \subseteq Frame
  /\ answers \in [Queries -> Nat]

DnsInit ==
  /\ linked = {} /\ asked = 0 /\ frames = {} /\ work = {}
  /\ pending = [t \in TxIds |-> NoQuery]
  /\ answers = [q \in Queries |-> 0]

(* SendDNSTo prefers the connection the exit dialled, when there is one. *)
SendDNSTo(tx, q) ==
  IF "exit" \in linked THEN {[conn |-> "exit", to |-> "exit", tx |-> tx, q |-> q]}
  ELSE IF "asker" \in linked THEN {[conn |-> "asker", to |-> "exit", tx |-> tx, q |-> q]}
  ELSE {}

(* The query waits even when the frame could not be sent; a query with the *)
(* same transaction id takes the place of the one that waits.              *)
InterceptFromTUN(tx) ==
  /\ asked < MaxQueries
  /\ asked' = asked + 1
  /\ pending' = [pending EXCEPT ![tx] = asked + 1]
  /\ frames' = frames \cup SendDNSTo(tx, asked + 1)
  /\ UNCHANGED <<linked, work, answers>>

(* The exit's end of the connection: the listener's framer starts a task,   *)
(* the dialled one looks for a query of its own and drops the frame.        *)
ExitReceives(f) ==
  /\ f \in frames /\ f.to = "exit"
  /\ frames' = frames \ {f}
  /\ work' = IF f.conn = "asker" THEN work \cup {f} ELSE work
  /\ UNCHANGED <<linked, asked, pending, answers>>

(* The upstream server answers, and the answer goes back by the same         *)
(* connection when it still stands; or it does not answer in 5 s.            *)
UpstreamAnswers(f) ==
  /\ f \in work
  /\ work' = work \ {f}
  /\ frames' \in {frames} \cup
                 {frames \cup {[f EXCEPT !.to = "asker"]} : c \in linked \cap {f.conn}}
  /\ UNCHANGED <<linked, asked, pending, answers>>

(* HandleResponse: the waiting query is taken out, then answered. *)
StillWaiting(tx) == pending
TakenOut(tx) == [pending EXCEPT ![tx] = NoQuery]

HandleResponse(f) ==
  /\ f \in frames /\ f.to = "asker"
  /\ frames' = frames \ {f}
  /\ pending' = TakenOut(f.tx)
  /\ answers' = IF pending[f.tx] = NoQuery THEN answers
                ELSE [answers EXCEPT ![pending[f.tx]] = @ + 1]
  /\ UNCHANGED <<linked, asked, work>>

(* cleanupLoop: queries that waited for more than 5 s are dropped. *)
CleanupPending(tx) ==
  /\ pending[tx] # NoQuery
  /\ pending' = TakenOut(tx)
  /\ UNCHANGED <<linked, asked, frames, work, answers>>

Connect(c) ==
  /\ c \notin linked
  /\ linked' = linked \cup {c}
  /\ UNCHANGED <<asked, pending, frames, work, answers>>

ConnectionLost(c) ==
  /\ c \in linked
  /\ linked' = linked \ {c}
  /\ frames' = {f \in frames: f.conn # c}
  /\ UNCHANGED <<asked, pending, work, answers>>

DnsNext ==
  \/ \E tx \in TxIds: InterceptFromTUN(tx) \/ CleanupPending(tx)
  \/ \E f \in frames: ExitReceives(f) \/ HandleResponse(f)
  \/ \E f \in work: UpstreamAnswers(f)
  \/ \E c \in Dialled: Connect(c) \/ ConnectionLost(c)

DnsSpec == DnsInit /\ [][DnsNext]_dnsVars

----------------------------------------------------------------------------
(* InterceptFromTUN and HandleResponse: an application's query is answered   *)
(* at most once, also when others reuse its transaction id, answers come     *)
(* late or out of order, and connections break in between.                   *)
AnsweredAtMostOnce == \A q \in Queries: answers[q] <= 1

=============================================================================
