------------------------- MODULE ConfigSync_proofs -------------------------
(***************************************************************************)
(* Theorems about ConfigNotify and ConfigSync, for any nodes, streams,     *)
(* callers and bounds: a node that has the current generation has the      *)
(* current data, and delivery implements ConfigDelivery.                   *)
(***************************************************************************)
EXTENDS ConfigSync, TLAPS

(***************************************************************************)
(* The notifier.                                                           *)
(***************************************************************************)
(* What Close leaves behind, and what a registered channel is.             *)
ClosedIsEmpty == Closed => subs = {}
RegisteredIsOpen == \A s \in subs : chst[s] = "open"

(* A node that has a trigger channel has a worker, until Close ends it.    *)
WorkerHasChannel ==
  \A n \in Nodes :
    /\ trig[n] = "absent" <=> wpc[n] = "none"
    /\ wpc[n] = "exited" => Closed

NotifyInv ==
  /\ TypeOK
  /\ NoPanic
  /\ NoWorkerAfterClose
  /\ SubscriberServed
  /\ ClosedIsEmpty
  /\ RegisteredIsOpen
  /\ WorkerHasChannel

-----------------------------------------------------------------------------
LEMMA NotifyInitInv == NotifyInit => NotifyInv
  BY NotifyAssumption
  DEF NotifyInit, NotifyStart, NotifyInv, TypeOK, NoPanic, NoWorkerAfterClose,
      SubscriberServed, ClosedIsEmpty, RegisteredIsOpen, WorkerHasChannel, Closed

LEMMA CallersKeepInv ==
  ASSUME NotifyInv,
         NEW c \in Callers,
         CallerStep(c) \/ \E S \in SUBSET Nodes : RecomputeAndNotify(c, S)
  PROVE  NotifyInv'
<1> USE NotifyAssumption
    DEF NotifyInv, TypeOK, NoPanic, NoWorkerAfterClose, SubscriberServed,
        ClosedIsEmpty, RegisteredIsOpen, WorkerHasChannel, Closed, ClosedOf, workerVars, callerVars, streamVars
<1>1. CASE \E S \in SUBSET Nodes : RecomputeAndNotify(c, S)
  BY <1>1 DEF RecomputeAndNotify
<1>2. CASE NotifyPut(c)
  BY <1>2 DEF NotifyPut
<1>3. CASE \E n \in Nodes : NotifyEnsure(c, n)
  <2>1. PICK n \in Nodes : NotifyEnsure(c, n)
    BY <1>3
  <2>2. CASE Closed \/ trig[n] # "absent"
    BY <2>1, <2>2 DEF NotifyEnsure, EnsureWorker
  <2>3. CASE ~(Closed \/ trig[n] # "absent")
    <3>0. /\ trig' = [trig EXCEPT ![n] = "empty"]
          /\ wpc' = [wpc EXCEPT ![n] = "wait"]
      BY <2>1, <2>3 DEF NotifyEnsure, EnsureWorker
    <3> QED BY <2>1, <2>3, <3>0 DEF NotifyEnsure
  <2> QED BY <2>2, <2>3
<1> QED BY <1>1, <1>2, <1>3 DEF CallerStep

LEMMA WorkersKeepInv ==
  ASSUME NotifyInv,
         NEW n \in Nodes,
         WorkerStep(n)
  PROVE  NotifyInv'
<1> USE NotifyAssumption
    DEF NotifyInv, TypeOK, NoPanic, NoWorkerAfterClose, SubscriberServed,
        ClosedIsEmpty, RegisteredIsOpen, WorkerHasChannel, Closed, ClosedOf, workerVars, callerVars, streamVars
<1>1. CASE WorkerTake(n)
  BY <1>1 DEF WorkerTake
<1>2. CASE WorkerBump(n)
  BY <1>2 DEF WorkerBump
<1>3. CASE WorkerBumpFails(n)
  BY <1>3 DEF WorkerBumpFails
<1>4. CASE WorkerPush(n)
  BY <1>4 DEF WorkerPush, Subscribers
<1>5. CASE WorkerExit(n)
  BY <1>5 DEF WorkerExit
<1> QED BY <1>1, <1>2, <1>3, <1>4, <1>5 DEF WorkerStep

LEMMA HandlersKeepInv ==
  ASSUME NotifyInv,
         NEW s \in Streams,
         HandlerStep(s)
  PROVE  NotifyInv'
<1> USE NotifyAssumption
    DEF NotifyInv, TypeOK, NoPanic, NoWorkerAfterClose, SubscriberServed,
        ClosedIsEmpty, RegisteredIsOpen, WorkerHasChannel, Closed, ClosedOf, workerVars, callerVars, streamVars,
        ToPc, Return, CanSend
<1>1. CASE StreamQuery(s)
  BY <1>1 DEF StreamQuery
<1>2. CASE StreamQueryFails(s)
  BY <1>2 DEF StreamQueryFails
<1>3. CASE StreamHello(s)
  BY <1>3 DEF StreamHello
<1>4. CASE StreamHelloFails(s)
  BY <1>4 DEF StreamHelloFails
<1>5. CASE StreamSubscribe(s)
  BY <1>5 DEF StreamSubscribe
<1>6. CASE StreamEnsure(s)
  <2>1. CASE Closed \/ trig[snode[s]] # "absent"
    BY <1>6, <2>1 DEF StreamEnsure, EnsureWorker
  <2>2. CASE ~(Closed \/ trig[snode[s]] # "absent")
    <3>0. /\ trig' = [trig EXCEPT ![snode[s]] = "empty"]
          /\ wpc' = [wpc EXCEPT ![snode[s]] = "wait"]
      BY <1>6, <2>2 DEF StreamEnsure, EnsureWorker
    <3> QED BY <1>6, <2>2, <3>0 DEF StreamEnsure
  <2> QED BY <2>1, <2>2
<1>7. CASE StreamTake(s)
  BY <1>7 DEF StreamTake
<1>8. CASE StreamSend(s)
  BY <1>8 DEF StreamSend
<1>9. CASE StreamLeave(s)
  <2>1. CASE ToPc(s, "send", "unsub")
    BY <1>9, <2>1 DEF StreamLeave
  <2>2. CASE ToPc(s, "loop", "unsub")
    BY <1>9, <2>2 DEF StreamLeave
  <2> QED BY <1>9, <2>1, <2>2 DEF StreamLeave
<1>10. CASE Unsubscribe(s)
  BY <1>10 DEF Unsubscribe
<1> QED BY <1>1, <1>2, <1>3, <1>4, <1>5, <1>6, <1>7, <1>8, <1>9, <1>10
        DEF HandlerStep

(* A client that takes a signal from its connection keeps the types.       *)
LEMMA ReceptionTyped ==
  ASSUME TypeOK, NEW s \in Streams, PeerRecv(s)
  PROVE  TypeOK'
<1>1. wire[s] \in Seq(Nat) /\ wire[s] # <<>> /\ Len(wire[s]) <= WireCap
  BY DEF TypeOK, PeerRecv
<1>2. Tail(wire[s]) \in Seq(Nat) /\ Len(Tail(wire[s])) <= WireCap
  BY <1>1, NotifyAssumption
<1>3. wire' = [wire EXCEPT ![s] = Tail(wire[s])]
  BY DEF PeerRecv
<1>4. wire' \in [Streams -> Seq(Nat)] /\ \A t \in Streams : Len(wire'[t]) <= WireCap
  BY <1>2, <1>3 DEF TypeOK
<1>5. UNCHANGED <<gen, workerVars, callerVars, closer, subs, spc, snode, alive,
                  buf, chst, held, misused, calls, faults>>
  BY DEF PeerRecv
<1> QED BY <1>4, <1>5 DEF TypeOK, workerVars, callerVars

LEMMA OthersKeepInv ==
  ASSUME NotifyInv,
         \/ Close \/ CloseReturn
         \/ \E s \in Streams : PeerRecv(s) \/ PeerGone(s)
         \/ \E s \in Streams, n \in Nodes : StreamOpen(s, n)
  PROVE  NotifyInv'
<1> USE NotifyAssumption
    DEF NotifyInv, TypeOK, NoPanic, NoWorkerAfterClose, SubscriberServed,
        ClosedIsEmpty, RegisteredIsOpen, WorkerHasChannel, Closed, ClosedOf,
        workerVars, callerVars, streamVars
<1>1. CASE Close
  BY <1>1 DEF Close
<1>2. CASE CloseReturn
  BY <1>2 DEF CloseReturn
<1>3. ASSUME NEW s \in Streams, PeerRecv(s) PROVE NotifyInv'
  <2>1. TypeOK'
    BY <1>3, ReceptionTyped
  <2> QED BY <1>3, <2>1 DEF PeerRecv
<1>4. ASSUME NEW s \in Streams, PeerGone(s) PROVE NotifyInv'
  BY <1>4 DEF PeerGone
<1>5. ASSUME NEW s \in Streams, NEW n \in Nodes, StreamOpen(s, n) PROVE NotifyInv'
  BY <1>5 DEF StreamOpen, ToPc
<1> QED BY <1>1, <1>2, <1>3, <1>4, <1>5

LEMMA NotifyNextKeepsInv == NotifyInv /\ [NotifyNext]_notifyVars => NotifyInv'
<1> SUFFICES ASSUME NotifyInv, [NotifyNext]_notifyVars PROVE NotifyInv'
  OBVIOUS
<1>1. CASE NotifyNext
  BY <1>1, CallersKeepInv, WorkersKeepInv, HandlersKeepInv, OthersKeepInv
     DEF NotifyNext, NotifyStep
<1>2. CASE UNCHANGED notifyVars
  BY <1>2
     DEF NotifyInv, TypeOK, NoPanic, NoWorkerAfterClose, SubscriberServed,
         ClosedIsEmpty, RegisteredIsOpen, WorkerHasChannel, Closed,
         notifyVars, workerVars, callerVars, streamVars
<1> QED BY <1>1, <1>2

(* The invariant of the hub.                                               *)
THEOREM NotifyInvariant == NotifySpec => []NotifyInv
  BY NotifyInitInv, NotifyNextKeepsInv, PTL DEF NotifySpec

-----------------------------------------------------------------------------
(* Every variable has its type, and no channel exceeds its capacity.       *)
THEOREM NotifyTypeCorrect == NotifySpec => []TypeOK
  BY NotifyInvariant, PTL DEF NotifyInv

(* No interleaving of Close, Unsubscribe and push sends on a closed        *)
(* channel or closes one twice.                                            *)
THEOREM NotifyNeverPanics == NotifySpec => []NoPanic
  BY NotifyInvariant, PTL DEF NotifyInv

(* Every registered stream has a running worker, or a handler that is      *)
(* about to start it.                                                      *)
THEOREM SubscribersAreServed == NotifySpec => []SubscriberServed
  BY NotifyInvariant, PTL DEF NotifyInv

(* When Close has returned, no step changes a generation.                  *)
LEMMA NoBumpStep ==
  NotifyInv /\ [NotifyNext]_notifyVars => [closer = "done" => UNCHANGED gen]_notifyVars
<1> SUFFICES ASSUME NotifyInv, NotifyNext, closer = "done" PROVE UNCHANGED gen
  OBVIOUS
<1>1. \A n \in Nodes : wpc[n] # "bump"
  BY DEF NotifyInv, NoWorkerAfterClose
<1>2. ASSUME NEW c \in Callers, CallerStep(c) PROVE UNCHANGED gen
  BY <1>2 DEF CallerStep, NotifyPut, NotifyEnsure
<1>3. ASSUME NEW n \in Nodes, WorkerStep(n) PROVE UNCHANGED gen
  BY <1>1, <1>3 DEF WorkerStep, WorkerTake, WorkerBump, WorkerBumpFails, WorkerPush,
     WorkerExit
<1>4. ASSUME NEW s \in Streams, HandlerStep(s) PROVE UNCHANGED gen
  BY <1>4 DEF HandlerStep, StreamQuery, StreamQueryFails, StreamHello,
     StreamHelloFails, StreamSubscribe, StreamEnsure, StreamTake, StreamSend,
     StreamLeave, Unsubscribe
<1>5. ASSUME Close \/ CloseReturn \/ (\E s \in Streams : PeerRecv(s) \/ PeerGone(s))
             \/ (\E s \in Streams, n \in Nodes : StreamOpen(s, n))
             \/ (\E c \in Callers, S \in (SUBSET Nodes) \ {{}} : RecomputeAndNotify(c, S))
      PROVE UNCHANGED gen
  BY <1>5 DEF Close, CloseReturn, PeerRecv, PeerGone, StreamOpen, RecomputeAndNotify
<1> QED BY <1>2, <1>3, <1>4, <1>5 DEF NotifyNext, NotifyStep

THEOREM NoBumpAfterCloseHolds == NotifySpec => NoBumpAfterClose
  BY NotifyInvariant, NoBumpStep, PTL DEF NotifySpec, NoBumpAfterClose

(***************************************************************************)
(* The notifier and the nodes.                                             *)
(***************************************************************************)
(* The types of what ConfigSync adds to ConfigNotify.                      *)
ClientTypeOK ==
  /\ data \in [Nodes -> Nat]
  /\ crl \in Nat
  /\ revoking \in SUBSET Callers
  /\ link \in [Nodes -> Streams \cup {NoStream}]
  /\ sigq \in [Nodes -> Seq(Nat)] /\ \A n \in Nodes : Len(sigq[n]) <= SigCap
  /\ cst \in [Nodes -> {"booting", "idle", "fetching"}]
  /\ rd \in [Nodes -> {"start", "gen", "data", "done"}]
  /\ fetch \in [Nodes -> Config]
  /\ local \in [Nodes -> Nat]
  /\ cfg \in [Nodes -> Config]
  /\ restarts \in Nat
  /\ floor \in [Nodes -> Seq(Nat)]
  /\ lost \in SUBSET Nodes

(* The floor of every generation is known and was committed; the floor of  *)
(* the last one is the data itself unless a notification is on its way or  *)
(* was dropped.                                                            *)
FloorInv(n) ==
  /\ Len(floor[n]) = gen[n] + 1
  /\ \A g \in 0..gen[n] : floor[n][g + 1] <= data[n]
  /\ (~Pending(n) /\ n \notin lost) => floor[n][gen[n] + 1] = data[n]

(* What a fetch has read, at each point of it.                             *)
FetchInv(n) ==
  /\ rd[n] # "start" => cfg[n].gen <= fetch[n].gen /\ fetch[n].gen <= gen[n]
  /\ rd[n] \in {"data", "done"} =>
       /\ floor[n][fetch[n].gen + 1] <= fetch[n].data
       /\ cfg[n].data <= fetch[n].data
       /\ fetch[n].data <= data[n]

(* What a node has applied.                                                *)
AppliedInv(n) ==
  /\ cst[n] # "booting" => local[n] = cfg[n].gen
  /\ cfg[n].gen <= gen[n]
  /\ floor[n][cfg[n].gen + 1] <= cfg[n].data
  /\ cfg[n].data <= data[n]

SyncInv ==
  /\ NotifyInv
  /\ ClientTypeOK
  /\ \A n \in Nodes : FloorInv(n) /\ FetchInv(n) /\ AppliedInv(n)

-----------------------------------------------------------------------------
LEMMA SyncInitInv == SyncInit => SyncInv
<1> SUFFICES ASSUME SyncInit PROVE SyncInv
  OBVIOUS
<1>1. NotifyInv
  BY NotifyInitInv DEF SyncInit
<1>2. ClientTypeOK
  BY SyncAssumption DEF SyncInit, ClientTypeOK, Config, NoConfig
<1>3. \A n \in Nodes : FloorInv(n) /\ FetchInv(n) /\ AppliedInv(n)
  BY DEF SyncInit, NotifyInit, FloorInv, FetchInv, AppliedInv, NoConfig
<1> QED BY <1>1, <1>2, <1>3 DEF SyncInv

(* A step that leaves the database, the histories and the client alone, and *)
(* forgets no pending notification, keeps the delivery invariants.         *)
LEMMA ServingKeepsDelivery ==
  ASSUME SyncInv,
         UNCHANGED <<gen, data, floor, lost, rd, fetch, cst, local, cfg>>,
         NEW n \in Nodes, Pending(n) => Pending(n)'
  PROVE  (FloorInv(n) /\ FetchInv(n) /\ AppliedInv(n))'
  BY DEF SyncInv, FloorInv, FetchInv, AppliedInv

(* A change of the data of S that is announced or recorded as lost.        *)
LEMMA ChangeKeepsDelivery ==
  ASSUME SyncInv,
         NEW S \in SUBSET Nodes, Affect(S),
         UNCHANGED <<gen, floor, rd, fetch, cst, local, cfg>>,
         NEW n \in Nodes,
         n \in S => Pending(n)' \/ n \in lost',
         Pending(n) => Pending(n)', n \in lost => n \in lost'
  PROVE  (FloorInv(n) /\ FetchInv(n) /\ AppliedInv(n))'
<1> USE DEF SyncInv, ClientTypeOK, NotifyInv, TypeOK, Config
<1>1. data'[n] \in Nat /\ data[n] <= data'[n] /\ (n \notin S => data'[n] = data[n])
  BY DEF Affect
<1>2. FloorInv(n)'
  <2>1. \A g \in 0..gen[n] : floor[n][g + 1] \in Nat /\ floor[n][g + 1] <= data[n]
    <3>1. \A g \in 0..gen[n] : g + 1 \in 1..Len(floor[n])
      BY DEF FloorInv
    <3>2. \A i \in 1..Len(floor[n]) : floor[n][i] \in Nat
      OBVIOUS
    <3>3. \A g \in 0..gen[n] : floor[n][g + 1] <= data[n]
      BY DEF FloorInv
    <3> QED BY <3>1, <3>2, <3>3
  <2>2. \A g \in 0..gen'[n] : floor'[n][g + 1] <= data'[n]
    BY <1>1, <2>1
  <2>3. (~Pending(n)' /\ n \notin lost') => floor'[n][gen'[n] + 1] = data'[n]
    BY <1>1 DEF FloorInv
  <2> QED BY <2>2, <2>3 DEF FloorInv
<1>3. FetchInv(n)'
  BY <1>1 DEF FetchInv
<1>4. AppliedInv(n)'
  BY <1>1 DEF AppliedInv
<1> QED BY <1>2, <1>3, <1>4

(* Announcing a change to S makes its nodes pending.                       *)
LEMMA AnnouncedIsPending ==
  ASSUME SyncInv, NEW c \in Callers, NEW S \in SUBSET Nodes,
         RecomputeAndNotify(c, S), NEW n \in Nodes
  PROVE  /\ n \in S => Pending(n)'
         /\ Pending(n) => Pending(n)'
  BY DEF SyncInv, NotifyInv, TypeOK, RecomputeAndNotify, Pending, workerVars

-----------------------------------------------------------------------------
LEMMA WritersKeepInv ==
  ASSUME SyncInv,
         \/ \E c \in Callers, S \in (SUBSET Nodes) \ {{}} : AdminWrite(c, S)
         \/ \E S \in (SUBSET Nodes) \ {{}} : AdminWriteUnnotified(S)
         \/ \E c \in Callers : Revoke(c) \/ RenewIssue(c) \/ RenewRevoke(c)
  PROVE  SyncInv'
<1> DEFINE Delivered(n) == FloorInv(n) /\ FetchInv(n) /\ AppliedInv(n)
<1>1. ASSUME NEW c \in Callers, NEW S \in (SUBSET Nodes) \ {{}}, AdminWrite(c, S)
      PROVE  SyncInv'
  <2>1. NotifyInv'
    BY <1>1, CallersKeepInv DEF SyncInv, AdminWrite
  <2>2. ClientTypeOK'
    BY <1>1 DEF SyncInv, ClientTypeOK, AdminWrite, Affect, clientVars, historyVars
  <2>3. \A n \in Nodes : Delivered(n)'
    BY <1>1, AnnouncedIsPending, ChangeKeepsDelivery
       DEF AdminWrite, RecomputeAndNotify, clientVars, historyVars
  <2> QED BY <2>1, <2>2, <2>3 DEF SyncInv
<1>2. ASSUME NEW S \in (SUBSET Nodes) \ {{}}, AdminWriteUnnotified(S)
      PROVE  SyncInv'
  <2>1. NotifyInv'
    BY <1>2 DEF SyncInv, AdminWriteUnnotified, NotifyInv, TypeOK, NoPanic,
       NoWorkerAfterClose, SubscriberServed, ClosedIsEmpty, RegisteredIsOpen,
       WorkerHasChannel, Closed, workerVars, callerVars, streamVars
  <2>2. ClientTypeOK'
    BY <1>2 DEF SyncInv, ClientTypeOK, AdminWriteUnnotified, Affect, clientVars
  <2>3. \A n \in Nodes : Delivered(n)'
    BY <1>2, ChangeKeepsDelivery
       DEF AdminWriteUnnotified, Pending, clientVars, workerVars, callerVars
  <2> QED BY <2>1, <2>2, <2>3 DEF SyncInv
<1>3. ASSUME NEW c \in Callers, Revoke(c) PROVE SyncInv'
  <2>1. NotifyInv'
    BY <1>3, CallersKeepInv DEF SyncInv, Revoke
  <2>2. ClientTypeOK'
    BY <1>3 DEF SyncInv, ClientTypeOK, Revoke, clientVars, historyVars
  <2>3. \A n \in Nodes : Delivered(n)'
    BY <1>3, AnnouncedIsPending, ServingKeepsDelivery
       DEF Revoke, RecomputeAndNotify, clientVars, historyVars
  <2> QED BY <2>1, <2>2, <2>3 DEF SyncInv
<1>4. ASSUME NEW c \in Callers, RenewIssue(c) PROVE SyncInv'
  <2>1. NotifyInv'
    BY <1>4, CallersKeepInv DEF SyncInv, RenewIssue
  <2>2. ClientTypeOK'
    BY <1>4 DEF SyncInv, ClientTypeOK, RenewIssue, Affect, clientVars, historyVars
  <2>3. \A n \in Nodes : Delivered(n)'
    BY <1>4, AnnouncedIsPending, ChangeKeepsDelivery
       DEF RenewIssue, RecomputeAndNotify, clientVars, historyVars
  <2> QED BY <2>1, <2>2, <2>3 DEF SyncInv
<1>5. ASSUME NEW c \in Callers, RenewRevoke(c) PROVE SyncInv'
  <2>1. NotifyInv'
    BY <1>5 DEF SyncInv, RenewRevoke, NotifyInv, TypeOK, NoPanic,
       NoWorkerAfterClose, SubscriberServed, ClosedIsEmpty, RegisteredIsOpen,
       WorkerHasChannel, Closed, notifyVars, workerVars, callerVars, streamVars
  <2>2. ClientTypeOK'
    BY <1>5 DEF SyncInv, ClientTypeOK, RenewRevoke, clientVars, historyVars
  <2>3. \A n \in Nodes : Delivered(n)'
    BY <1>5, ServingKeepsDelivery
       DEF RenewRevoke, Pending, clientVars, historyVars, notifyVars, workerVars,
           callerVars
  <2> QED BY <2>1, <2>2, <2>3 DEF SyncInv
<1> QED BY <1>1, <1>2, <1>3, <1>4, <1>5

(* A new generation is floored by the data of the moment.                  *)
LEMMA PublishKeepsDelivery ==
  ASSUME SyncInv, NEW n \in Nodes,
         gen'[n] = gen[n] + 1,
         floor'[n] = Append(floor[n], data[n]),
         UNCHANGED <<data, rd, fetch, cst, local, cfg>>
  PROVE  (FloorInv(n) /\ FetchInv(n) /\ AppliedInv(n))'
<1>1. /\ gen[n] \in Nat /\ data[n] \in Nat /\ floor[n] \in Seq(Nat)
      /\ fetch[n].gen \in Nat /\ cfg[n].gen \in Nat
  BY DEF SyncInv, NotifyInv, TypeOK, ClientTypeOK, Config
<1>2. FloorInv(n) /\ FetchInv(n) /\ AppliedInv(n)
  BY DEF SyncInv
<1>3. Len(floor[n]) = gen[n] + 1 /\ \A g \in 0..gen[n] : floor[n][g + 1] <= data[n]
  BY <1>2 DEF FloorInv
<1>4. /\ Len(floor'[n]) = gen'[n] + 1
      /\ floor'[n][gen'[n] + 1] = data[n]
      /\ \A g \in 0..gen[n] : floor'[n][g + 1] = floor[n][g + 1]
  <2>1. Len(floor'[n]) = gen'[n] + 1
    BY <1>1, <1>3
  <2>2. floor'[n][gen'[n] + 1] = data[n]
    BY <1>1, <1>3
  <2>3. ASSUME NEW g \in 0..gen[n] PROVE floor'[n][g + 1] = floor[n][g + 1]
    <3>1. g + 1 \in 1..Len(floor[n])
      BY <1>1, <1>3
    <3> QED BY <1>1, <3>1
  <2> QED BY <2>1, <2>2, <2>3
<1>5. \A g \in 0..gen'[n] : floor'[n][g + 1] <= data[n]
  <2>1. ASSUME NEW g \in 0..gen'[n] PROVE g \in 0..gen[n] \/ g = gen'[n]
    BY <1>1
  <2> QED BY <1>1, <1>3, <1>4, <2>1
<1>6. FloorInv(n)'
  BY <1>4, <1>5 DEF FloorInv
<1>7. \A g \in Nat : g <= gen[n] => floor'[n][g + 1] = floor[n][g + 1]
  BY <1>1, <1>4
<1>8. FetchInv(n)'
  <2>1. fetch[n].gen <= gen[n] => floor'[n][fetch[n].gen + 1] = floor[n][fetch[n].gen + 1]
    BY <1>1, <1>7
  <2>2. fetch[n].gen <= gen[n] => fetch[n].gen <= gen'[n]
    BY <1>1
  <2> QED BY <1>2, <2>1, <2>2 DEF FetchInv
<1>9. AppliedInv(n)'
  <2>1. cfg[n].gen <= gen[n] => floor'[n][cfg[n].gen + 1] = floor[n][cfg[n].gen + 1]
    BY <1>1, <1>7
  <2>2. cfg[n].gen <= gen[n] => cfg[n].gen <= gen'[n]
    BY <1>1
  <2> QED BY <1>2, <2>1, <2>2 DEF AppliedInv
<1> QED BY <1>6, <1>8, <1>9

LEMMA CommitKeepsInv ==
  ASSUME SyncInv, NEW n \in Nodes, CommitGeneration(n)
  PROVE  SyncInv'
<1> USE DEF SyncInv, CommitGeneration
<1>1. NotifyInv'
  BY WorkersKeepInv DEF WorkerStep
<1>2. ClientTypeOK'
  BY DEF ClientTypeOK, dbVars, clientVars
<1>3. ASSUME NEW m \in Nodes PROVE (FloorInv(m) /\ FetchInv(m) /\ AppliedInv(m))'
  <2>1. CASE m # n
    BY <2>1 DEF WorkerBump, FloorInv, FetchInv, AppliedInv, Pending, ClientTypeOK,
       NotifyInv, TypeOK, dbVars, clientVars, callerVars
  <2>2. CASE m = n
    <3>1. /\ gen'[n] = gen[n] + 1
          /\ floor'[n] = Append(floor[n], data[n])
          /\ UNCHANGED <<data, rd, fetch, cst, local, cfg>>
      BY DEF WorkerBump, dbVars, clientVars, ClientTypeOK, NotifyInv, TypeOK
    <3> QED BY <2>2, <3>1, PublishKeepsDelivery
  <2> QED BY <2>1, <2>2
<1> QED BY <1>1, <1>2, <1>3

LEMMA DropKeepsInv ==
  ASSUME SyncInv, DropNotification
  PROVE  SyncInv'
<1> USE DEF SyncInv, dbVars, clientVars, callerVars
<1>1. ASSUME NEW n \in Nodes, WorkerBumpFails(n), lost' = lost \cup {n},
             UNCHANGED <<dbVars, clientVars, restarts, floor>>
      PROVE  SyncInv'
  <2>1. NotifyInv'
    BY <1>1, WorkersKeepInv DEF WorkerStep
  <2>2. ClientTypeOK'
    BY <1>1 DEF ClientTypeOK
  <2>3. ASSUME NEW m \in Nodes PROVE (FloorInv(m) /\ FetchInv(m) /\ AppliedInv(m))'
    BY <1>1 DEF WorkerBumpFails, FloorInv, FetchInv, AppliedInv, Pending,
       ClientTypeOK, NotifyInv, TypeOK
  <2> QED BY <2>1, <2>2, <2>3
<1>2. ASSUME NEW c \in Callers, NotifyPut(c), trig[at[c]] = "absent",
             lost' = lost \cup {at[c]},
             UNCHANGED <<dbVars, clientVars, restarts, floor>>
      PROVE  SyncInv'
  <2>1. NotifyInv'
    BY <1>2, CallersKeepInv DEF CallerStep
  <2>2. ClientTypeOK'
    BY <1>2 DEF ClientTypeOK, NotifyPut, NotifyInv, TypeOK
  <2>3. ASSUME NEW m \in Nodes PROVE (FloorInv(m) /\ FetchInv(m) /\ AppliedInv(m))'
    <3>1. m # at[c] /\ Pending(m) => Pending(m)'
      BY <1>2 DEF NotifyPut, Pending, NotifyInv, TypeOK
    <3>2. UNCHANGED <<gen, data, floor, rd, fetch, cst, local, cfg>>
      BY <1>2 DEF NotifyPut
    <3> QED BY <1>2, <3>1, <3>2 DEF FloorInv, FetchInv, AppliedInv
  <2> QED BY <2>1, <2>2, <2>3
<1> QED BY <1>1, <1>2 DEF DropNotification

(* Serving forgets no pending notification, except as DropNotification.    *)
LEMMA ServingKeepsPending ==
  ASSUME SyncInv, ServeStep, NEW n \in Nodes, Pending(n)
  PROVE  Pending(n)'
<1> USE DEF SyncInv, NotifyInv, TypeOK, WorkerHasChannel, Pending
<1>1. CASE \E c \in Callers : NotifyPut(c) /\ trig[at[c]] # "absent"
  BY <1>1 DEF NotifyPut
<1>2. CASE \E c \in Callers, m \in Nodes : NotifyEnsure(c, m)
  <2>1. PICK c \in Callers, m \in Nodes : NotifyEnsure(c, m)
    BY <1>2
  <2>2. trig[n] = "full" => trig'[n] = "full"
    BY <2>1 DEF NotifyEnsure, EnsureWorker
  <2>3. wpc[n] = "bump" => wpc'[n] = "bump"
    BY <2>1 DEF NotifyEnsure, EnsureWorker
  <2>4. \A d \in Callers : n \in todo[d] \/ at[d] = n => n \in todo'[d] \/ at'[d] = n
    BY <2>1, NotifyAssumption DEF NotifyEnsure
  <2> QED BY <2>2, <2>3, <2>4
<1>3. ASSUME NEW m \in Nodes, WorkerTake(m) \/ WorkerPush(m) \/ WorkerExit(m)
      PROVE  Pending(n)'
  BY <1>3 DEF WorkerTake, WorkerPush, WorkerExit, callerVars
<1>4. ASSUME NEW s \in Streams, HandlerStep(s) PROVE Pending(n)'
  <2>1. CASE StreamEnsure(s)
    <3>1. trig[n] = "full" => trig'[n] = "full"
      BY <2>1 DEF StreamEnsure, EnsureWorker
    <3>2. wpc[n] = "bump" => wpc'[n] = "bump"
      BY <2>1 DEF StreamEnsure, EnsureWorker, ToPc
    <3> QED BY <2>1, <3>1, <3>2 DEF StreamEnsure, callerVars
  <2>2. CASE ~StreamEnsure(s)
    BY <1>4, <2>2 DEF HandlerStep, StreamQuery, StreamQueryFails, StreamHello,
       StreamHelloFails, StreamSubscribe, StreamTake, StreamSend, StreamLeave,
       Unsubscribe, workerVars, callerVars
  <2> QED BY <2>1, <2>2
<1>5. CASE Close \/ CloseReturn
  BY <1>5 DEF Close, CloseReturn, workerVars, callerVars
<1> QED BY <1>1, <1>2, <1>3, <1>4, <1>5 DEF ServeStep

LEMMA ServingKeepsInv ==
  ASSUME SyncInv, ServeStep
  PROVE  SyncInv'
<1>1. NotifyInv'
  <2>1. NotifyInv
    BY DEF SyncInv
  <2> QED BY <2>1, CallersKeepInv, WorkersKeepInv, HandlersKeepInv, OthersKeepInv
          DEF ServeStep, CallerStep, WorkerStep
<1>2. UNCHANGED <<dbVars, clientVars, restarts, historyVars>>
  BY DEF ServeStep
<1>3. ClientTypeOK'
  BY <1>2 DEF SyncInv, ClientTypeOK, dbVars, clientVars, historyVars
<1>4. UNCHANGED gen
  BY DEF ServeStep, NotifyPut, NotifyEnsure, WorkerTake, WorkerPush, WorkerExit,
     HandlerStep, StreamQuery, StreamQueryFails, StreamHello, StreamHelloFails,
     StreamSubscribe, StreamEnsure, StreamTake, StreamSend, StreamLeave,
     Unsubscribe, Close, CloseReturn
<1>5. \A n \in Nodes : (FloorInv(n) /\ FetchInv(n) /\ AppliedInv(n))'
  BY <1>2, <1>4, ServingKeepsPending, ServingKeepsDelivery
     DEF dbVars, clientVars, historyVars
<1> QED BY <1>1, <1>3, <1>5 DEF SyncInv

(* The peer's side of a connection is no part of the hub's invariant.      *)
LEMMA LinkKeepsNotifyInv ==
  ASSUME NotifyInv,
         UNCHANGED <<gen, workerVars, callerVars, closer, subs, spc, snode, buf,
                     chst, held, misused, calls>>,
         alive' \in SUBSET Streams, faults' \in Nat,
         wire' \in [Streams -> Seq(Nat)],
         \A s \in Streams : Len(wire'[s]) <= WireCap
  PROVE  NotifyInv'
  BY DEF NotifyInv, TypeOK, NoPanic, NoWorkerAfterClose, SubscriberServed,
     ClosedIsEmpty, RegisteredIsOpen, WorkerHasChannel, Closed, workerVars,
     callerVars

LEMMA LinksKeepInv ==
  ASSUME SyncInv, NEW n \in Nodes,
         \/ \E s \in Streams : Connect(n, s)
         \/ RecvSignal(n) \/ StreamEnds(n) \/ ConnectionBreaks(n)
  PROVE  SyncInv'
<1> USE NotifyAssumption, SyncAssumption
<1>1. ASSUME NEW s \in Streams, Connect(n, s) PROVE SyncInv'
  <2>1. NotifyInv'
    BY <1>1, OthersKeepInv DEF SyncInv, Connect
  <2>2. ClientTypeOK'
    BY <1>1 DEF SyncInv, ClientTypeOK, Connect, dbVars, historyVars
  <2>3. ASSUME NEW m \in Nodes PROVE (FloorInv(m) /\ FetchInv(m) /\ AppliedInv(m))'
    BY <1>1, ServingKeepsDelivery
       DEF Connect, StreamOpen, Pending, dbVars, historyVars, workerVars, callerVars
  <2> QED BY <2>1, <2>2, <2>3 DEF SyncInv
<1>2. ASSUME RecvSignal(n) PROVE SyncInv'
  <2>0. link[n] \in Streams
    BY <1>2 DEF RecvSignal, SyncInv, ClientTypeOK
  <2>1. NotifyInv'
    BY <1>2, <2>0, OthersKeepInv DEF SyncInv, RecvSignal
  <2>2. ClientTypeOK'
    <3>1. Head(wire[link[n]]) \in Nat
      BY <1>2, <2>0 DEF RecvSignal, PeerRecv, SyncInv, NotifyInv, TypeOK
    <3>2. Append(sigq[n], Head(wire[link[n]])) \in Seq(Nat)
          /\ Len(Append(sigq[n], Head(wire[link[n]]))) <= SigCap
      BY <1>2, <3>1 DEF RecvSignal, SyncInv, ClientTypeOK
    <3> QED BY <1>2, <3>2 DEF SyncInv, ClientTypeOK, RecvSignal, dbVars, historyVars
  <2>3. ASSUME NEW m \in Nodes PROVE (FloorInv(m) /\ FetchInv(m) /\ AppliedInv(m))'
    BY <1>2, ServingKeepsDelivery
       DEF RecvSignal, PeerRecv, Pending, dbVars, historyVars, workerVars, callerVars
  <2> QED BY <2>1, <2>2, <2>3 DEF SyncInv
<1>3. ASSUME StreamEnds(n) \/ ConnectionBreaks(n) PROVE SyncInv'
  <2>0. Unlink(n) /\ faults' \in Nat
    BY <1>3 DEF StreamEnds, ConnectionBreaks, SyncInv, NotifyInv, TypeOK
  <2>1. NotifyInv'
    <3>1. /\ wire' \in [Streams -> Seq(Nat)]
          /\ \A s \in Streams : Len(wire'[s]) <= WireCap
      <4>1. wire \in [Streams -> Seq(Nat)] /\ \A s \in Streams : Len(wire[s]) <= WireCap
        BY DEF SyncInv, NotifyInv, TypeOK
      <4>2. wire' = [wire EXCEPT ![link[n]] = <<>>]
        BY <2>0 DEF Unlink
      <4>3. <<>> \in Seq(Nat) /\ Len(<<>>) <= WireCap
        OBVIOUS
      <4> QED BY <4>1, <4>2, <4>3
    <3>2. alive' \in SUBSET Streams
      BY <2>0 DEF Unlink, SyncInv, NotifyInv, TypeOK
    <3> QED BY <2>0, <3>1, <3>2, LinkKeepsNotifyInv DEF Unlink, SyncInv
  <2>2. ClientTypeOK'
    BY <2>0 DEF SyncInv, ClientTypeOK, Unlink, dbVars, historyVars
  <2>3. ASSUME NEW m \in Nodes PROVE (FloorInv(m) /\ FetchInv(m) /\ AppliedInv(m))'
    BY <2>0, ServingKeepsDelivery
       DEF Unlink, Pending, dbVars, historyVars, workerVars, callerVars
  <2> QED BY <2>1, <2>2, <2>3 DEF SyncInv
<1> QED BY <1>1, <1>2, <1>3

(* A step of the client changes nothing of the controller.                 *)
LEMMA ClientKeepsNotifyInv ==
  ASSUME NotifyInv,
         UNCHANGED <<gen, workerVars, callerVars, closer, streamVars, misused, calls>>,
         faults' \in Nat
  PROVE  NotifyInv'
  BY DEF NotifyInv, TypeOK, NoPanic, NoWorkerAfterClose, SubscriberServed,
     ClosedIsEmpty, RegisteredIsOpen, WorkerHasChannel, Closed, workerVars,
     callerVars, streamVars

LEMMA ClientsKeepInv ==
  ASSUME SyncInv, NEW n \in Nodes, ClientStep(n)
  PROVE  SyncInv'
<1>0. /\ NotifyInv /\ ClientTypeOK /\ faults \in Nat
      /\ gen \in [Nodes -> Nat]
      /\ \A m \in Nodes : FloorInv(m) /\ FetchInv(m) /\ AppliedInv(m)
  BY DEF SyncInv, NotifyInv, TypeOK
<1>1. CASE HandleSignal(n)
  <2>1. NotifyInv'
    BY <1>0, <1>1, ClientKeepsNotifyInv DEF HandleSignal, notifyVars
  <2>2. ClientTypeOK'
    <3>1. Tail(sigq[n]) \in Seq(Nat) /\ Len(Tail(sigq[n])) <= SigCap
      BY <1>0, <1>1, SyncAssumption DEF HandleSignal, ClientTypeOK
    <3> QED BY <1>0, <1>1, <3>1 DEF HandleSignal, ClientTypeOK, dbVars, historyVars
  <2>3. ASSUME NEW m \in Nodes PROVE (FloorInv(m) /\ FetchInv(m) /\ AppliedInv(m))'
    <3>1. cst'[m] # "booting" => cst[m] # "booting"
      BY <1>0, <1>1 DEF HandleSignal, ClientTypeOK
    <3> QED BY <1>0, <1>1, <3>1
         DEF HandleSignal, FloorInv, FetchInv, AppliedInv, Pending, notifyVars,
             workerVars, callerVars, dbVars, historyVars
  <2> QED BY <2>1, <2>2, <2>3 DEF SyncInv
<1>2. CASE ReadGeneration(n) \/ ReadTables(n) \/ ReadCRL(n)
  <2>1. NotifyInv'
    BY <1>0, <1>2, ClientKeepsNotifyInv
       DEF ReadGeneration, ReadTables, ReadCRL, Read, notifyVars
  <2>2. ClientTypeOK'
    <3>1. gen[n] \in Nat /\ data[n] \in Nat /\ crl \in Nat /\ fetch[n] \in Config
      BY <1>0 DEF ClientTypeOK
    <3>2. /\ [fetch[n] EXCEPT !["gen"] = gen[n]] \in Config
          /\ [fetch[n] EXCEPT !["data"] = data[n]] \in Config
          /\ [fetch[n] EXCEPT !["crl"] = crl] \in Config
      BY <3>1 DEF Config
    <3>3. fetch' \in [Nodes -> Config] /\ rd' \in [Nodes -> {"start", "gen", "data", "done"}]
      <4>1. CASE ReadGeneration(n)
        BY <1>0, <3>2, <4>1 DEF ReadGeneration, Read, ClientTypeOK
      <4>2. CASE ReadTables(n)
        BY <1>0, <3>2, <4>2 DEF ReadTables, Read, ClientTypeOK
      <4>3. CASE ReadCRL(n)
        BY <1>0, <3>2, <4>3 DEF ReadCRL, Read, ClientTypeOK
      <4> QED BY <1>2, <4>1, <4>2, <4>3
    <3> QED BY <1>0, <1>2, <3>3
            DEF ReadGeneration, ReadTables, ReadCRL, Read, ClientTypeOK, dbVars,
                historyVars
  <2>3. UNCHANGED <<gen, data, floor, lost, cst, local, cfg, todo, at, trig, wpc>>
    BY <1>2 DEF ReadGeneration, ReadTables, ReadCRL, Read, notifyVars, workerVars,
       callerVars, dbVars, historyVars
  <2>4. ASSUME NEW m \in Nodes PROVE FloorInv(m)' /\ AppliedInv(m)'
    BY <1>0, <2>3 DEF FloorInv, AppliedInv, Pending
  <2>5. ASSUME NEW m \in Nodes PROVE FetchInv(m)'
    <3>1. CASE ReadGeneration(n)
      BY <1>0, <2>3, <3>1 DEF ReadGeneration, Read, FetchInv, AppliedInv, ClientTypeOK,
         Config
    <3>2. CASE ReadTables(n)
      <4>1. fetch[m].gen \in Nat /\ gen[m] \in Nat
        BY <1>0 DEF ClientTypeOK, Config
      <4>2. fetch'[m].gen = fetch[m].gen
        BY <1>0, <3>2 DEF ReadTables, Read, ClientTypeOK, Config
      <4>3. rd[m] # "start" => floor[m][fetch[m].gen + 1] <= data[m]
        BY <1>0, <4>1 DEF FloorInv, FetchInv
      <4>4. CASE m = n
        <5>1. rd[n] = "gen" /\ rd'[n] = "data" /\ fetch'[n].data = data[n]
          BY <1>0, <3>2 DEF ReadTables, Read, ClientTypeOK, Config
        <5>2. data[n] <= data[n]
          BY <1>0 DEF ClientTypeOK
        <5> QED BY <1>0, <2>3, <4>2, <4>3, <4>4, <5>1, <5>2 DEF FetchInv, AppliedInv
      <4>5. CASE m # n
        BY <1>0, <2>3, <3>2, <4>5 DEF ReadTables, Read, FetchInv, ClientTypeOK
      <4> QED BY <4>4, <4>5
    <3>3. CASE ReadCRL(n)
      BY <1>0, <2>3, <3>3 DEF ReadCRL, Read, FetchInv, ClientTypeOK, Config
    <3> QED BY <1>2, <3>1, <3>2, <3>3
  <2> QED BY <2>1, <2>2, <2>4, <2>5 DEF SyncInv
<1>3. CASE FinishFetch(n)
  <2>1. NotifyInv'
    BY <1>0, <1>3, ClientKeepsNotifyInv DEF FinishFetch, notifyVars
  <2>2. ClientTypeOK'
    <3>1. NoConfig \in Config /\ fetch[n] \in Config /\ fetch[n].gen \in Nat
      BY <1>0 DEF ClientTypeOK, Config, NoConfig
    <3>2. local' \in [Nodes -> Nat] /\ cfg' \in [Nodes -> Config]
      BY <1>0, <1>3, <3>1 DEF FinishFetch, ClientTypeOK
    <3> QED BY <1>0, <1>3, <3>1, <3>2
            DEF FinishFetch, EndFetch, ClientTypeOK, dbVars, historyVars
  <2>3. ASSUME NEW m \in Nodes PROVE (FloorInv(m) /\ FetchInv(m) /\ AppliedInv(m))'
    <3>1. UNCHANGED <<gen, data, floor, lost, todo, at, trig, wpc>>
      BY <1>3 DEF FinishFetch, notifyVars, workerVars, callerVars, dbVars, historyVars
    <3>2. FloorInv(m)'
      BY <1>0, <3>1 DEF FloorInv, Pending
    <3>3. CASE m # n
      BY <1>0, <1>3, <3>1, <3>2, <3>3
         DEF FinishFetch, EndFetch, FetchInv, AppliedInv, ClientTypeOK
    <3>4. CASE m = n
      <4>1. rd[n] = "done" /\ rd'[n] = "start"
        BY <1>0, <1>3 DEF FinishFetch, EndFetch, ClientTypeOK
      <4>2. CASE cst[n] = "booting" \/ IsNewer(n)
        BY <1>0, <1>3, <3>1, <3>2, <3>4, <4>1, <4>2
           DEF FinishFetch, FetchInv, AppliedInv, ClientTypeOK
      <4>3. CASE ~(cst[n] = "booting" \/ IsNewer(n))
        BY <1>0, <1>3, <3>1, <3>2, <3>4, <4>1, <4>3
           DEF FinishFetch, FetchInv, AppliedInv, ClientTypeOK
      <4> QED BY <4>2, <4>3
    <3> QED BY <3>3, <3>4
  <2> QED BY <2>1, <2>2, <2>3 DEF SyncInv
<1>4. CASE FailFetch(n)
  <2>1. NotifyInv'
    BY <1>0, <1>4, ClientKeepsNotifyInv DEF FailFetch
  <2>2. ClientTypeOK'
    BY <1>0, <1>4 DEF FailFetch, ClientTypeOK, Config, NoConfig, dbVars, historyVars
  <2>3. ASSUME NEW m \in Nodes PROVE (FloorInv(m) /\ FetchInv(m) /\ AppliedInv(m))'
    BY <1>0, <1>4 DEF FailFetch, FloorInv, FetchInv, AppliedInv, Pending,
       ClientTypeOK, workerVars, callerVars, dbVars, historyVars
  <2> QED BY <2>1, <2>2, <2>3 DEF SyncInv
<1> QED BY <1>1, <1>2, <1>3, <1>4 DEF ClientStep

LEMMA RestartsKeepInv ==
  ASSUME SyncInv, ControllerRestart \/ \E n \in Nodes : NodeRestart(n)
  PROVE  SyncInv'
<1>0. /\ NotifyInv /\ ClientTypeOK /\ faults \in Nat /\ calls \in Nat
      /\ gen \in [Nodes -> Nat]
      /\ \A m \in Nodes : FloorInv(m) /\ FetchInv(m) /\ AppliedInv(m)
  BY DEF SyncInv, NotifyInv, TypeOK
<1>1. ASSUME NEW n \in Nodes, NodeRestart(n) PROVE SyncInv'
  <2>1. NotifyInv'
    <3>1. wire \in [Streams -> Seq(Nat)] /\ \A s \in Streams : Len(wire[s]) <= WireCap
      BY <1>0 DEF NotifyInv, TypeOK
    <3>2. <<>> \in Seq(Nat) /\ Len(<<>>) <= WireCap
      BY NotifyAssumption
    <3>3. /\ wire' \in [Streams -> Seq(Nat)]
          /\ \A s \in Streams : Len(wire'[s]) <= WireCap
      BY <1>1, <3>1, <3>2 DEF NodeRestart
    <3>4. alive' \in SUBSET Streams
      BY <1>0, <1>1 DEF NodeRestart, NotifyInv, TypeOK
    <3> QED BY <1>0, <1>1, <3>3, <3>4, LinkKeepsNotifyInv DEF NodeRestart
  <2>2. ClientTypeOK'
    <3>1. <<>> \in Seq(Nat) /\ Len(<<>>) <= SigCap /\ NoConfig \in Config
      BY SyncAssumption DEF Config, NoConfig
    <3> QED BY <1>0, <1>1, <3>1 DEF NodeRestart, ClientTypeOK, dbVars, historyVars
  <2>3. ASSUME NEW m \in Nodes PROVE (FloorInv(m) /\ FetchInv(m) /\ AppliedInv(m))'
    <3>1. UNCHANGED <<gen, data, floor, lost, cfg, todo, at, trig, wpc>>
      BY <1>1 DEF NodeRestart, workerVars, callerVars, dbVars, historyVars
    <3>2. FloorInv(m)'
      BY <1>0, <3>1 DEF FloorInv, Pending
    <3>3. FetchInv(m)'
      BY <1>0, <1>1, <3>1 DEF NodeRestart, FetchInv, ClientTypeOK
    <3>4. AppliedInv(m)'
      BY <1>0, <1>1, <3>1 DEF NodeRestart, AppliedInv, ClientTypeOK
    <3> QED BY <3>2, <3>3, <3>4
  <2> QED BY <2>1, <2>2, <2>3 DEF SyncInv
<1>2. ASSUME ControllerRestart PROVE SyncInv'
  <2>1. NotifyInv'
    <3>1. TypeOK'
      BY <1>0, <1>2, NotifyAssumption DEF ControllerRestart, NotifyRestart, TypeOK
    <3>2. (NoPanic /\ NoWorkerAfterClose /\ SubscriberServed /\ ClosedIsEmpty)'
      BY <1>2 DEF ControllerRestart, NotifyRestart, NoPanic, NoWorkerAfterClose,
         SubscriberServed, ClosedIsEmpty, Closed
    <3>3. (RegisteredIsOpen /\ WorkerHasChannel)'
      BY <1>2 DEF ControllerRestart, NotifyRestart, RegisteredIsOpen, WorkerHasChannel
    <3> QED BY <3>1, <3>2, <3>3 DEF NotifyInv
  <2>2. ClientTypeOK'
    BY <1>0, <1>2 DEF ControllerRestart, ClientTypeOK, Config, NoConfig
  <2>3. ASSUME NEW m \in Nodes PROVE (FloorInv(m) /\ FetchInv(m) /\ AppliedInv(m))'
    <3>1. FloorInv(m)'
      BY <1>0, <1>2 DEF ControllerRestart, FloorInv
    <3>2. FetchInv(m)' /\ AppliedInv(m)'
      BY <1>0, <1>2 DEF ControllerRestart, FetchInv, AppliedInv, ClientTypeOK
    <3> QED BY <3>1, <3>2
  <2> QED BY <2>1, <2>2, <2>3 DEF SyncInv
<1> QED BY <1>1, <1>2

LEMMA SyncNextKeepsInv == SyncInv /\ [SyncNext]_syncVars => SyncInv'
<1> SUFFICES ASSUME SyncInv, [SyncNext]_syncVars PROVE SyncInv'
  OBVIOUS
<1>1. CASE SyncNext
  BY <1>1, WritersKeepInv, CommitKeepsInv, DropKeepsInv, ServingKeepsInv,
     LinksKeepInv, ClientsKeepInv, RestartsKeepInv DEF SyncNext
<1>2. CASE UNCHANGED syncVars
  <2>1. NotifyInv'
    BY <1>2 DEF SyncInv, NotifyInv, TypeOK, NoPanic, NoWorkerAfterClose,
       SubscriberServed, ClosedIsEmpty, RegisteredIsOpen, WorkerHasChannel, Closed,
       syncVars, notifyVars, workerVars, callerVars, streamVars
  <2>2. ClientTypeOK'
    BY <1>2 DEF SyncInv, ClientTypeOK, syncVars, clientVars, dbVars, historyVars
  <2>3. ASSUME NEW m \in Nodes PROVE (FloorInv(m) /\ FetchInv(m) /\ AppliedInv(m))'
    BY <1>2, ServingKeepsDelivery DEF Pending, syncVars, notifyVars, workerVars,
       callerVars, clientVars, dbVars, historyVars
  <2> QED BY <2>1, <2>2, <2>3 DEF SyncInv
<1> QED BY <1>1, <1>2

(* The invariant of delivery, with that of the hub.                        *)
THEOREM SyncInvariant == SyncSpec => []SyncInv
  BY SyncInitInv, SyncNextKeepsInv, PTL DEF SyncSpec

-----------------------------------------------------------------------------
(* Every variable of the composition has its type.                         *)
THEOREM SyncTypeCorrect == SyncSpec => []SyncTypeOK
<1>1. SyncInv => SyncTypeOK
  BY DEF SyncInv, NotifyInv, ClientTypeOK, SyncTypeOK
<1> QED BY <1>1, SyncInvariant, PTL

(* A node that has the current generation has the current data, unless a   *)
(* notification is pending or was dropped: for any number of writers,      *)
(* failures and restarts.                                                  *)
THEOREM CurrentIsFresh == SyncSpec => []FreshWhenCurrent
<1>1. SyncInv => FreshWhenCurrent
  <2> SUFFICES ASSUME SyncInv, NEW n \in Nodes,
                      cst[n] # "booting", local[n] = gen[n],
                      ~Pending(n), n \notin lost
               PROVE  cfg[n].data = data[n]
    BY DEF FreshWhenCurrent
  <2>1. cfg[n].gen = gen[n] /\ floor[n][gen[n] + 1] = data[n]
    BY DEF SyncInv, AppliedInv, FloorInv
  <2>2. data[n] <= cfg[n].data /\ cfg[n].data <= data[n]
    BY <2>1 DEF SyncInv, AppliedInv
  <2>3. data[n] \in Nat /\ cfg[n].data \in Nat
    BY DEF SyncInv, ClientTypeOK, Config
  <2> QED BY <2>2, <2>3
<1> QED BY <1>1, SyncInvariant, PTL

(* The data in a configuration is at least that its generation was made    *)
(* for.                                                                    *)
THEOREM LabelsAreFloors == SyncSpec => []LabelFloor
<1>1. SyncInv => LabelFloor
  BY DEF SyncInv, AppliedInv, LabelFloor, ClientTypeOK, Config, NotifyInv, TypeOK
<1> QED BY <1>1, SyncInvariant, PTL

-----------------------------------------------------------------------------
(* The refinement.                                                         *)
LEMMA DeliveryInit == SyncInit => Delivery!Init
  BY DEF SyncInit, NotifyInit, NoConfig, Delivery!Init

LEMMA FinishIsDelivery ==
  ASSUME SyncInv, NEW n \in Nodes, FinishFetch(n)
  PROVE  [Delivery!Next]_(Delivery!vars)
<1> DEFINE node == [m \in Nodes |-> [gen |-> cfg[m].gen, data |-> cfg[m].data]]
<1>1. /\ UNCHANGED <<data, gen, floor>>
      /\ rd[n] = "done"
  BY DEF FinishFetch, notifyVars, dbVars, historyVars
<1>2. /\ gen[n] \in Nat /\ data[n] \in Nat /\ cfg \in [Nodes -> Config]
      /\ fetch[n] \in Config /\ local[n] \in Nat
      /\ cfg[n].gen \in Nat /\ fetch[n].gen \in Nat /\ fetch[n].data \in Nat
  BY DEF SyncInv, NotifyInv, TypeOK, ClientTypeOK, Config
<1>3. /\ cfg[n].gen <= fetch[n].gen /\ fetch[n].gen <= gen[n]
      /\ floor[n][fetch[n].gen + 1] <= fetch[n].data
      /\ cfg[n].data <= fetch[n].data /\ fetch[n].data <= data[n]
  BY <1>1 DEF SyncInv, FetchInv
<1>4. CASE cst[n] = "booting" \/ IsNewer(n)
  <2>1. cfg' = [cfg EXCEPT ![n] = fetch[n]]
    BY <1>4 DEF FinishFetch
  <2>2. node' = [node EXCEPT ![n] = [gen |-> fetch[n].gen, data |-> fetch[n].data]]
    BY <1>2, <2>1
  <2>3. node[n].data <= fetch[n].data /\ node[n].gen <= fetch[n].gen
    BY <1>3
  <2>4. PICK g, d : g = fetch[n].gen /\ d = fetch[n].data
    OBVIOUS
  <2>5. g \in node[n].gen .. gen[n] /\ d \in 0..data[n]
    BY <1>2, <1>3, <2>4
  <2>6. Delivery!Apply(n, g, d)
    BY <1>1, <1>3, <2>2, <2>3, <2>4 DEF Delivery!Apply
  <2>7. Delivery!Reload(n)
    BY <2>5, <2>6 DEF Delivery!Reload
  <2> QED BY <2>7 DEF Delivery!Next
<1>5. CASE ~(cst[n] = "booting" \/ IsNewer(n))
  BY <1>1, <1>5 DEF FinishFetch, Delivery!vars
<1> QED BY <1>4, <1>5

LEMMA StepIsDelivery ==
  ASSUME SyncInv, [SyncNext]_syncVars
  PROVE  [Delivery!Next]_(Delivery!vars)
<1> DEFINE same == UNCHANGED <<data, gen, floor, cfg>>
<1>0. same => UNCHANGED Delivery!vars
  BY DEF Delivery!vars
<1>1. ASSUME NEW S \in SUBSET Nodes, Affect(S), UNCHANGED <<gen, floor, cfg>>
      PROVE  [Delivery!Next]_(Delivery!vars)
  BY <1>1 DEF Affect, Delivery!Next, Delivery!Change
<1>2. ASSUME NEW c \in Callers, NEW S \in (SUBSET Nodes) \ {{}}, AdminWrite(c, S)
      PROVE  [Delivery!Next]_(Delivery!vars)
  BY <1>1, <1>2 DEF AdminWrite, RecomputeAndNotify, clientVars, historyVars
<1>3. ASSUME NEW S \in (SUBSET Nodes) \ {{}}, AdminWriteUnnotified(S)
      PROVE  [Delivery!Next]_(Delivery!vars)
  BY <1>1, <1>3 DEF AdminWriteUnnotified, clientVars
<1>4. ASSUME NEW c \in Callers, RenewIssue(c)
      PROVE  [Delivery!Next]_(Delivery!vars)
  BY <1>1, <1>4 DEF RenewIssue, RecomputeAndNotify, clientVars, historyVars
<1>5. ASSUME NEW n \in Nodes, CommitGeneration(n)
      PROVE  [Delivery!Next]_(Delivery!vars)
  BY <1>5 DEF CommitGeneration, WorkerBump, dbVars, clientVars, Delivery!Next,
     Delivery!Publish
<1>6. ASSUME NEW c \in Callers, Revoke(c) \/ RenewRevoke(c) PROVE same
  BY <1>6 DEF Revoke, RenewRevoke, RecomputeAndNotify, notifyVars, clientVars,
     historyVars
<1>7. ASSUME DropNotification PROVE same
  BY <1>7 DEF DropNotification, WorkerBumpFails, NotifyPut, dbVars, clientVars
<1>8. ASSUME ServeStep PROVE same
  BY <1>8 DEF ServeStep, NotifyPut, NotifyEnsure, WorkerTake, WorkerPush, WorkerExit,
     HandlerStep, StreamQuery, StreamQueryFails, StreamHello, StreamHelloFails,
     StreamSubscribe, StreamEnsure, StreamTake, StreamSend, StreamLeave,
     Unsubscribe, Close, CloseReturn, dbVars, clientVars, historyVars
<1>9. ASSUME NEW n \in Nodes,
             \/ \E s \in Streams : Connect(n, s)
             \/ RecvSignal(n) \/ StreamEnds(n) \/ ConnectionBreaks(n)
             \/ HandleSignal(n) \/ FailFetch(n) \/ NodeRestart(n)
             \/ ReadGeneration(n) \/ ReadTables(n) \/ ReadCRL(n)
      PROVE  same
  BY <1>9 DEF Connect, StreamOpen, RecvSignal, PeerRecv, StreamEnds, ConnectionBreaks,
     Unlink, HandleSignal, FailFetch, NodeRestart, ReadGeneration, ReadTables, ReadCRL,
     Read, notifyVars, dbVars, historyVars
<1>10. ASSUME ControllerRestart PROVE same
  BY <1>10 DEF ControllerRestart
<1>11. ASSUME UNCHANGED syncVars PROVE same
  BY <1>11 DEF syncVars, notifyVars, dbVars, clientVars, historyVars
<1> QED BY <1>0, <1>2, <1>3, <1>4, <1>5, <1>6, <1>7, <1>8, <1>9, <1>10, <1>11,
           FinishIsDelivery
        DEF SyncNext, ClientStep

(* Delivery as built implements delivery as promised.                      *)
THEOREM SyncImplementsDelivery == SyncSpec => DeliverySpec
  BY DeliveryInit, StepIsDelivery, SyncInvariant, PTL
     DEF SyncSpec, DeliverySpec, Delivery!Spec

-----------------------------------------------------------------------------
LEMMA OnlyFinishApplies ==
  ASSUME [SyncNext]_syncVars
  PROVE  UNCHANGED cfg \/ \E n \in Nodes : FinishFetch(n)
BY DEF SyncNext, AdminWrite, AdminWriteUnnotified, Revoke, RenewIssue, RenewRevoke,
   CommitGeneration, DropNotification, ServeStep, Connect, RecvSignal, StreamEnds,
   ConnectionBreaks, Unlink, ClientStep, HandleSignal, ReadGeneration, ReadTables,
   ReadCRL, Read, FailFetch, NodeRestart, ControllerRestart, syncVars, clientVars

(* A running node applies newer configurations only.                       *)
THEOREM OnlyNewerIsApplied == SyncSpec => AppliesNewerOnly
<1>1. ASSUME SyncInv, SyncNext, NEW n \in Nodes,
             cfg'[n] # cfg[n], cst[n] # "booting"
      PROVE  cfg'[n].gen > cfg[n].gen
  <2>1. PICK m \in Nodes : FinishFetch(m)
    BY <1>1, OnlyFinishApplies
  <2>2. /\ cfg \in [Nodes -> Config] /\ local[n] = cfg[n].gen
        /\ fetch[n].gen \in Nat /\ cfg[n].gen \in Nat
    BY <1>1 DEF SyncInv, ClientTypeOK, AppliedInv, Config
  <2>3. m = n /\ IsNewer(n) /\ cfg'[n] = fetch[n]
    BY <1>1, <2>1, <2>2 DEF FinishFetch
  <2> QED BY <2>2, <2>3 DEF IsNewer
<1>2. SyncInv /\ [SyncNext]_syncVars =>
        [\A n \in Nodes :
           (cfg'[n] # cfg[n] /\ cst[n] # "booting") => cfg'[n].gen > cfg[n].gen]_syncVars
  BY <1>1
<1> QED BY <1>2, SyncInvariant, PTL DEF SyncSpec, AppliesNewerOnly
=============================================================================
