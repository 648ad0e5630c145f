----------------------------- MODULE DirectFlows -----------------------------
(***************************************************************************)
(* What leaves a node directly, past the tunnel (splittunnel/gvisor.go):   *)
(* the forwarders of the user-space network stack, which relay a TCP or    *)
(* UDP flow in two goroutines, or wait for the answer to an echo request,  *)
(* and Close, which waits for them.  The application behind the TUN device *)
(* and the remote host send, finish and fall silent as they like.          *)
(***************************************************************************)
EXTENDS Naturals, FiniteSets

CONSTANTS DirectTcp, DirectUdp, DirectIcmp,   \* flows, disjoint
          IcmpSlots,                          \* echo requests under way at one time
          MaxDirectFlows                      \* bound: flows that come in a behaviour

DirectFlowIds == DirectTcp \union DirectUdp \union DirectIcmp

ASSUME DirectAssumption == IsFiniteSet(DirectFlowIds) /\ IcmpSlots \in Nat

VARIABLES
  relay,     \* flow -> where its handler or its goroutine is
  copies,    \* flow -> the directions that are being copied
  ends,      \* flow -> the ends that have finished sending: "app", "remote"
  stack,     \* where GVisorStack.Close is
  counted,   \* the WaitGroup
  slots,     \* places taken in icmpSem
  late       \* flows added to the WaitGroup when Close had begun (history)

directVars == <<relay, copies, ends, stack, counted, slots, late>>

DirectTypeOK ==
  /\ relay \in [DirectFlowIds -> {"none", "made", "checked", "dial", "copy", "await", "ended"}]
  /\ copies \in [DirectFlowIds -> SUBSET {"up", "down"}]
  /\ ends \in [DirectFlowIds -> SUBSET {"app", "remote"}]
  /\ stack \in {"open", "marked", "shut", "closed"} /\ counted \in 0..Cardinality(DirectFlowIds)
  /\ slots \in 0..IcmpSlots /\ late \subseteq DirectFlowIds

Running(f) == relay[f] \in {"dial", "copy", "await"}
Goes(f, place) == relay' = [relay EXCEPT ![f] = place]

DirectInit ==
  /\ relay = [f \in DirectFlowIds |-> "none"]
  /\ copies = [f \in DirectFlowIds |-> {}] /\ ends = [f \in DirectFlowIds |-> {}]
  /\ stack = "open" /\ counted = 0 /\ slots = 0 /\ late = {}

-----------------------------------------------------------------------------
(* The handlers. Whether the stack is closed is asked first and the        *)
(* WaitGroup told of the goroutine later.                                  *)

\* The first packet of a flow: its endpoint is created, or not.
Arrives(f) ==
  /\ relay[f] = "none" /\ Cardinality({g \in DirectFlowIds : relay[g] # "none"}) < MaxDirectFlows
  /\ \/ (f \notin DirectIcmp => stack \in {"open", "marked"}) /\ Goes(f, "made")
     \/ Goes(f, "ended")
  /\ UNCHANGED <<copies, ends, stack, counted, slots, late>>

\* An echo request needs a place, too, and is dropped when there is none.
Asked(f) ==
  /\ relay[f] = "made"
  /\ IF stack # "open" \/ (f \in DirectIcmp /\ slots = IcmpSlots)
     THEN Goes(f, "ended") /\ UNCHANGED slots
     ELSE /\ Goes(f, "checked")
          /\ slots' = IF f \in DirectIcmp THEN slots + 1 ELSE slots
  /\ UNCHANGED <<copies, ends, stack, counted, late>>

GoroutineStarts(f) ==
  /\ relay[f] = "checked" /\ Goes(f, "dial")
  /\ counted' = counted + 1 /\ late' = IF stack = "open" THEN late ELSE late \union {f}
  /\ UNCHANGED <<copies, ends, stack, slots>>

\* The goroutine returns: its deferred calls close both ends and give back the place.
SlotKept(f) ==   \* mutant: the place is given back by an answer only
  /\ counted' = counted - 1 /\ UNCHANGED slots
EachGivesBack(f) ==   \* mutant: every flow gives back a place
  /\ counted' = counted - 1 /\ slots' = slots - 1
Returns(f) ==
  /\ counted' = counted - 1
  /\ slots' = IF f \in DirectIcmp THEN slots - 1 ELSE slots

\* The remote host is reached, within ten seconds, or not.
Dials(f) ==
  /\ relay[f] = "dial"
  /\ \/ /\ f \notin DirectIcmp /\ Goes(f, "copy")
        /\ copies' = [copies EXCEPT ![f] = {"up", "down"}] /\ UNCHANGED <<counted, slots>>
     \/ f \in DirectIcmp /\ Goes(f, "await") /\ UNCHANGED <<copies, counted, slots>>
     \/ Goes(f, "ended") /\ Returns(f) /\ UNCHANGED copies
  /\ UNCHANGED <<ends, stack, late>>

\* The answer, another packet the raw socket hands out, or five seconds.
EchoEnds(f) ==
  /\ relay[f] = "await" /\ Goes(f, "ended") /\ Returns(f)
  /\ UNCHANGED <<copies, ends, stack, late>>

-----------------------------------------------------------------------------
(* Copying.                                                                *)

Silent(f, end) == end \in ends[f]

\* The source of a direction is at its end: it has finished, or is the stack and closed.
\* (UDP does not tell: half a minute of silence counts as the end.)
SourceEnds(f, dir) ==
  \/ dir = "up" /\ (Silent(f, "app") \/ stack \in {"shut", "closed"})
  \/ dir = "down" /\ Silent(f, "remote")

\* There is something to copy and the place it goes to is gone.
SinkFails(f, dir) ==
  \/ dir = "up" /\ ~Silent(f, "app") /\ Silent(f, "remote")
  \/ dir = "down" /\ ~Silent(f, "remote") /\ (Silent(f, "app") \/ stack \in {"shut", "closed"})

CopyEnds(f, dir) ==
  /\ relay[f] = "copy" /\ dir \in copies[f]
  /\ SourceEnds(f, dir) \/ SinkFails(f, dir) \/ f \in DirectUdp
  /\ copies' = [copies EXCEPT ![f] = @ \ {dir}]
  /\ UNCHANGED <<relay, ends, stack, counted, slots, late>>

CopiesDoneAny(f) == copies[f] # {"up", "down"}   \* mutant: the first copy that ends ends the flow
\* <-done: the goroutine waits for the other copy.
CopiesDone(f) == copies[f] = {}

FlowReturns(f) ==
  /\ relay[f] = "copy" /\ CopiesDone(f) /\ Goes(f, "ended") /\ Returns(f)
  /\ UNCHANGED <<copies, ends, stack, late>>

\* The application or the remote host sends no more (and reads what is left for it).
Finishes(f) ==
  /\ relay[f] = "copy"
  /\ \E end \in {"app", "remote"} \ ends[f] : ends' = [ends EXCEPT ![f] = @ \union {end}]
  /\ UNCHANGED <<relay, copies, stack, counted, slots, late>>

-----------------------------------------------------------------------------
(* Close.                                                                  *)

Mark ==
  /\ stack = "open" /\ stack' = "marked"
  /\ UNCHANGED <<relay, copies, ends, counted, slots, late>>

\* The network interface is removed, and the stack and its endpoint closed.
StackShut ==
  /\ stack = "marked" /\ stack' = "shut"
  /\ UNCHANGED <<relay, copies, ends, counted, slots, late>>

StackClosed ==
  /\ stack = "shut" /\ counted = 0 /\ stack' = "closed"
  /\ UNCHANGED <<relay, copies, ends, counted, slots, late>>

-----------------------------------------------------------------------------

FlowStep(f) ==
  \/ Arrives(f) \/ Asked(f) \/ GoroutineStarts(f) \/ Dials(f) \/ EchoEnds(f) \/ FlowReturns(f) \/ Finishes(f)
  \/ \E dir \in {"up", "down"} : CopyEnds(f, dir)

DirectNext == Mark \/ StackShut \/ StackClosed \/ \E f \in DirectFlowIds : FlowStep(f)

\* A copy that can go on need not end: the sender of a UDP flow may keep it alive, and
\* who has something to send need not send it.
MustEnd(f) ==
  \/ \E dir \in {"up", "down"} : SourceEnds(f, dir) /\ CopyEnds(f, dir)
  \/ f \in DirectUdp /\ stack \in {"shut", "closed"} /\ CopyEnds(f, "down")
DirectStep(f) == Asked(f) \/ GoroutineStarts(f) \/ Dials(f) \/ EchoEnds(f) \/ FlowReturns(f) \/ MustEnd(f)

DirectFairness ==
  /\ WF_directVars(StackShut) /\ WF_directVars(StackClosed)
  /\ \A f \in DirectFlowIds : WF_directVars(DirectStep(f))

-----------------------------------------------------------------------------
(* Properties.                                                             *)

\* When Close has returned nothing is copied between the stack and the network, but for
\* flows that asked before Close began and were counted afterwards (gvisor.go:213-225,
\* 326-332): the check and the Add are two steps.
CloseCoversCounted ==
  stack = "closed" => \A f \in DirectFlowIds : Running(f) \/ copies[f] # {} => f \in late

\* A flow is given up when both ends have finished, and an echo request when nobody
\* answers, so that others find a place; and Close ends, unless a remote host keeps a TCP
\* connection open and says nothing: no deadline ends that copy (gvisor.go:348-354).
DirectFlowsEnd ==
  /\ \A f \in DirectFlowIds : (relay[f] = "copy" /\ ends[f] = {"app", "remote"}) ~> relay[f] = "ended"
  /\ []<>(slots < IcmpSlots)
  /\ <>[](\A f \in DirectTcp : "down" \in copies[f] => Silent(f, "remote")) => (stack = "marked" ~> stack = "closed")
=============================================================================
