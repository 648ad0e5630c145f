----------------------------- MODULE ConfigSync -----------------------------
(***************************************************************************)
(* Configuration delivery from a database write to the configuration a     *)
(* node applies. To the notification hub of ConfigNotify it adds           *)
(*   internal/controller/configsvc/http.go   ConfigHTTP, buildNodeConfig   *)
(*   internal/nodecore/sync/client.go        Client.Run, handleSignal      *)
(*   cmd/corelink-node/main.go               the fetch before the loop     *)
(* and the writers of the controller: the admin API (admin/acl.go,         *)
(* recomputeAll), certificate renewal and revocation (ca/manager.go).      *)
(*                                                                         *)
(* A configuration is built by several reads: the generation first, then   *)
(* the tables, then the revocation list. The tables are abstracted to the  *)
(* number of committed changes that concern the node, the revocation list  *)
(* to its length.                                                          *)
(***************************************************************************)
EXTENDS ConfigNotify

CONSTANTS
  NoStream,     \* not a stream
  Writes,       \* the kinds of writes considered
  SigCap,       \* capacity of failoverManager.sigCh (16 in the code)
  MaxRestarts   \* bound: restarts of the controller and of the nodes

ASSUME SyncAssumption ==
  /\ NoStream \notin Streams
  /\ Writes \subseteq {"admin", "revoke", "renew"}
  /\ SigCap \in Nat \ {0}
  /\ MaxRestarts \in Nat

VARIABLES
  data,      \* committed changes that concern a node
  crl,       \* committed revocations
  revoking,  \* renewals that have issued and not yet revoked, by caller
  link,      \* the stream a node reads its signals from
  sigq,      \* signals received and not yet handled (sigCh)
  cst,       \* a node is fetching its first configuration, waiting, fetching
  rd,        \* how far the fetch of a node has read
  fetch,     \* what the fetch of a node has read
  local,     \* the generation a node believes it has (localGen)
  cfg,       \* the configuration a node applied last
  restarts,  \* restarts so far
  floor,     \* history: floor[n][g + 1] is data[n] when generation g was made
  lost       \* history: nodes with a notification dropped since their last bump

clientVars == <<link, sigq, cst, rd, fetch, local, cfg>>
dbVars == <<data, crl, revoking>>
historyVars == <<floor, lost>>
syncVars == <<notifyVars, dbVars, clientVars, restarts, historyVars>>

Config == [gen : Nat, data : Nat, crl : Nat]
NoConfig == [gen |-> 0, data |-> 0, crl |-> 0]

SyncTypeOK ==
  /\ TypeOK
  /\ data \in [Nodes -> Nat]
  /\ crl \in Nat
  /\ revoking \in SUBSET Callers
  /\ link \in [Nodes -> Streams \cup {NoStream}]
  /\ sigq \in [Nodes -> Seq(Nat)] /\ \A n \in Nodes : Len(sigq[n]) <= SigCap
  /\ cst \in [Nodes -> {"booting", "idle", "fetching"}]
  /\ rd \in [Nodes -> {"start", "gen", "data", "done"}]
  /\ fetch \in [Nodes -> Config]
  /\ local \in [Nodes -> Nat]
  /\ cfg \in [Nodes -> Config]
  /\ restarts \in Nat
  /\ floor \in [Nodes -> Seq(Nat)]
  /\ lost \in SUBSET Nodes

SyncInit ==
  /\ NotifyInit
  /\ data = [n \in Nodes |-> 0]
  /\ crl = 0
  /\ revoking = {}
  /\ link = [n \in Nodes |-> NoStream]
  /\ sigq = [n \in Nodes |-> <<>>]
  /\ cst = [n \in Nodes |-> "booting"]
  /\ rd = [n \in Nodes |-> "start"]
  /\ fetch = [n \in Nodes |-> NoConfig]
  /\ local = [n \in Nodes |-> 0]
  /\ cfg = [n \in Nodes |-> NoConfig]
  /\ restarts = 0
  /\ floor = [n \in Nodes |-> <<0>>]
  /\ lost = {}

-----------------------------------------------------------------------------
(* Writers. Each commits, then calls RecomputeAndNotify.                   *)
Affect(S) == data' = [n \in Nodes |-> IF n \in S THEN data[n] + 1 ELSE data[n]]

(* An admin handler changes a table and notifies the nodes it concerns.    *)
AdminWrite(c, S) ==
  /\ "admin" \in Writes
  /\ RecomputeAndNotify(c, S)
  /\ Affect(S)
  /\ UNCHANGED <<crl, revoking, clientVars, restarts, historyVars>>

(* recomputeAll and notifyAll list the nodes first; when that read fails   *)
(* they return, and nobody is notified of what was committed.              *)
AdminWriteUnnotified(S) ==
  /\ "admin" \in Writes
  /\ calls < MaxCalls /\ faults < MaxFaults
  /\ calls' = calls + 1
  /\ faults' = faults + 1
  /\ Affect(S)
  /\ lost' = lost \cup S
  /\ UNCHANGED <<gen, workerVars, callerVars, closer, streamVars, misused,
                 crl, revoking, clientVars, restarts, floor>>

(* Manager.Revoke: RevokeCert, then notifyAll in a goroutine.              *)
Revoke(c) ==
  /\ "revoke" \in Writes
  /\ RecomputeAndNotify(c, Nodes)
  /\ crl' = crl + 1
  /\ UNCHANGED <<data, revoking, clientVars, restarts, historyVars>>

(* Manager.Renew: issue records the new fingerprint, which every node must *)
(* see, and starts notifyAll; RevokeCert of the old serial follows, at any *)
(* point of that notification, and nothing is notified after it.           *)
RenewIssue(c) ==
  /\ "renew" \in Writes
  /\ c \notin revoking
  /\ RecomputeAndNotify(c, Nodes)
  /\ Affect(Nodes)
  /\ revoking' = revoking \cup {c}
  /\ UNCHANGED <<crl, clientVars, restarts, historyVars>>

RenewRevoke(c) ==
  /\ c \in revoking
  /\ revoking' = revoking \ {c}
  /\ crl' = crl + 1
  /\ UNCHANGED <<notifyVars, data, clientVars, restarts, historyVars>>

-----------------------------------------------------------------------------
(* The steps of ConfigNotify, with what they do to the history variables.  *)
CommitGeneration(n) ==
  /\ WorkerBump(n)
  /\ floor' = [floor EXCEPT ![n] = Append(@, data[n])]
  /\ lost' = lost \ {n}
  /\ UNCHANGED <<dbVars, clientVars, restarts>>

(* A bump that fails, and a token offered to a node that has no worker     *)
(* because Notify is closed, are notifications dropped.                    *)
DropNotification ==
  /\ \/ \E n \in Nodes : WorkerBumpFails(n) /\ lost' = lost \cup {n}
     \/ \E c \in Callers :
          NotifyPut(c) /\ trig[at[c]] = "absent"
          /\ lost' = lost \cup {at[c]}
  /\ UNCHANGED <<dbVars, clientVars, restarts, floor>>

ServeStep ==
  /\ \/ \E c \in Callers : NotifyPut(c) /\ trig[at[c]] # "absent"
     \/ \E c \in Callers, n \in Nodes : NotifyEnsure(c, n)
     \/ \E n \in Nodes : WorkerTake(n) \/ WorkerPush(n) \/ WorkerExit(n)
     \/ \E s \in Streams : HandlerStep(s)
     \/ Close \/ CloseReturn
  /\ UNCHANGED <<dbVars, clientVars, restarts, historyVars>>

-----------------------------------------------------------------------------
(* The node. Client.Run opens a stream through the failover manager, whose *)
(* receive loop moves signals into sigCh.                                  *)
Connect(n, s) ==
  /\ cst[n] # "booting" /\ link[n] = NoStream
  /\ StreamOpen(s, n)
  /\ link' = [link EXCEPT ![n] = s]
  /\ UNCHANGED <<dbVars, sigq, cst, rd, fetch, local, cfg, restarts,
                 historyVars>>

\* Mutant: the receive loop does not wait for room in sigCh.
RecvSignalUnbounded(n) ==
  /\ link[n] # NoStream
  /\ PeerRecv(link[n])
  /\ sigq' = [sigq EXCEPT ![n] = Append(@, Head(wire[link[n]]))]
  /\ UNCHANGED <<dbVars, link, cst, rd, fetch, local, cfg, restarts,
                 historyVars>>

RecvSignal(n) ==
  /\ link[n] # NoStream /\ Len(sigq[n]) < SigCap
  /\ PeerRecv(link[n])
  /\ sigq' = [sigq EXCEPT ![n] = Append(@, Head(wire[link[n]]))]
  /\ UNCHANGED <<dbVars, link, cst, rd, fetch, local, cfg, restarts,
                 historyVars>>

(* The stream ends, when its handler has returned and all was received; or *)
(* the connection breaks, and what it held is lost.                        *)
Unlink(n) ==
  /\ link[n] # NoStream
  /\ alive' = alive \ {link[n]}
  /\ wire' = [wire EXCEPT ![link[n]] = <<>>]
  /\ link' = [link EXCEPT ![n] = NoStream]
  /\ UNCHANGED <<gen, workerVars, callerVars, closer, subs, spc, snode, buf,
                 chst, held, misused, calls, dbVars, sigq, cst, rd, fetch,
                 local, cfg, restarts, historyVars>>

StreamEnds(n) ==
  /\ Unlink(n)
  /\ spc[link[n]] = "idle" /\ wire[link[n]] = <<>>
  /\ UNCHANGED faults

ConnectionBreaks(n) ==
  /\ Unlink(n)
  /\ faults < MaxFaults
  /\ faults' = faults + 1

\* Mutant: the next generation is taken for the local one.
ShouldFetchLater(n, v) == v = 0 \/ local[n] + 1 < v

(* shouldFetch: a version newer than the local one, or zero.               *)
ShouldFetch(n, v) == v = 0 \/ local[n] < v

(* handleSignal.                                                           *)
HandleSignal(n) ==
  /\ cst[n] = "idle" /\ sigq[n] # <<>>
  /\ sigq' = [sigq EXCEPT ![n] = Tail(@)]
  /\ cst' = [cst EXCEPT ![n] =
               IF ShouldFetch(n, Head(sigq[n])) THEN "fetching" ELSE "idle"]
  /\ UNCHANGED <<notifyVars, dbVars, link, rd, fetch, local, cfg, restarts,
                 historyVars>>

(* GET /v1/config: buildNodeConfig reads node.Generation, then the tables, *)
(* then the revocation list, one query after the other.                    *)
Read(n, from, to, part, value) ==
  /\ cst[n] # "idle" /\ rd[n] = from
  /\ rd' = [rd EXCEPT ![n] = to]
  /\ fetch' = [fetch EXCEPT ![n] = [@ EXCEPT ![part] = value]]
  /\ UNCHANGED <<notifyVars, dbVars, link, sigq, cst, local, cfg, restarts,
                 historyVars>>

ReadGeneration(n) == Read(n, "start", "gen", "gen", gen[n])
ReadTables(n) == Read(n, "gen", "data", "data", data[n])

\* Mutant: the version of the configuration is read when the answer is sent.
ReadCRLAndGeneration(n) ==
  /\ cst[n] # "idle" /\ rd[n] = "data"
  /\ rd' = [rd EXCEPT ![n] = "done"]
  /\ fetch' = [fetch EXCEPT ![n] = [@ EXCEPT !.crl = crl, !.gen = gen[n]]]
  /\ UNCHANGED <<notifyVars, dbVars, link, sigq, cst, local, cfg, restarts,
                 historyVars>>

ReadCRL(n) == Read(n, "data", "done", "crl", crl)

EndFetch(n) ==
  /\ cst' = [cst EXCEPT ![n] = "idle"]
  /\ rd' = [rd EXCEPT ![n] = "start"]
  /\ fetch' = [fetch EXCEPT ![n] = NoConfig]

(* The answer. The server sends 304 when the client's version is not zero  *)
(* and equals the one read; the client applies what is newer than its own. *)
(* The first fetch of a process carries no version and is always applied.  *)
\* Mutant: whatever is fetched is applied.
IsNewerAlways(n) == TRUE
IsNewer(n) == local[n] < fetch[n].gen

FinishFetch(n) ==
  /\ rd[n] = "done"
  /\ IF cst[n] = "booting" \/ IsNewer(n)
       THEN /\ local' = [local EXCEPT ![n] = fetch[n].gen]
            /\ cfg' = [cfg EXCEPT ![n] = fetch[n]]
       ELSE UNCHANGED <<local, cfg>>
  /\ EndFetch(n)
  /\ UNCHANGED <<notifyVars, dbVars, link, sigq, restarts, historyVars>>

(* The request fails: the signal that caused it is forgotten; a process    *)
(* that has no configuration yet exits and is started again.               *)
FailFetch(n) ==
  /\ cst[n] # "idle" /\ faults < MaxFaults
  /\ faults' = faults + 1
  /\ cst' = [cst EXCEPT ![n] = IF @ = "booting" THEN "booting" ELSE "idle"]
  /\ rd' = [rd EXCEPT ![n] = "start"]
  /\ fetch' = [fetch EXCEPT ![n] = NoConfig]
  /\ UNCHANGED <<gen, workerVars, callerVars, closer, streamVars, misused,
                 calls, dbVars, link, sigq, local, cfg, restarts, historyVars>>

NodeRestart(n) ==
  /\ restarts < MaxRestarts
  /\ restarts' = restarts + 1
  /\ cst' = [cst EXCEPT ![n] = "booting"]
  /\ rd' = [rd EXCEPT ![n] = "start"]
  /\ fetch' = [fetch EXCEPT ![n] = NoConfig]
  /\ local' = [local EXCEPT ![n] = 0]
  /\ sigq' = [sigq EXCEPT ![n] = <<>>]
  /\ link' = [link EXCEPT ![n] = NoStream]
  /\ alive' = alive \ {link[n]}
  /\ wire' = [s \in Streams |-> IF s = link[n] THEN <<>> ELSE wire[s]]
  /\ UNCHANGED <<gen, workerVars, callerVars, closer, subs, spc, snode, buf,
                 chst, held, misused, calls, faults, dbVars, cfg, historyVars>>

-----------------------------------------------------------------------------
(* A notification of n is on its way: a caller has it, its token waits in  *)
(* the trigger channel, or its worker is about to bump.                    *)
Pending(n) ==
  \/ \E c \in Callers : n \in todo[c] \/ at[c] = n
  \/ trig[n] = "full"
  \/ wpc[n] = "bump"

(* The controller stops, at any point or after Close, and a new process    *)
(* starts on the database. Goroutines, channels, connections and requests  *)
(* in progress are gone.                                                   *)
ControllerRestart ==
  /\ restarts < MaxRestarts
  /\ restarts' = restarts + 1
  /\ lost' = lost \cup {n \in Nodes : Pending(n)}
  /\ NotifyRestart
  /\ revoking' = {}
  /\ link' = [n \in Nodes |-> NoStream]
  /\ cst' = [n \in Nodes |-> IF cst[n] = "booting" THEN "booting" ELSE "idle"]
  /\ rd' = [n \in Nodes |-> "start"]
  /\ fetch' = [n \in Nodes |-> NoConfig]
  /\ UNCHANGED <<gen, calls, faults, data, crl, sigq, local, cfg, floor>>

ClientStep(n) ==
  HandleSignal(n) \/ ReadGeneration(n) \/ ReadTables(n) \/ ReadCRL(n)
  \/ FinishFetch(n) \/ FailFetch(n)

SyncNext ==
  \/ \E c \in Callers, S \in (SUBSET Nodes) \ {{}} : AdminWrite(c, S)
  \/ \E S \in (SUBSET Nodes) \ {{}} : AdminWriteUnnotified(S)
  \/ \E c \in Callers : Revoke(c) \/ RenewIssue(c) \/ RenewRevoke(c)
  \/ \E n \in Nodes : CommitGeneration(n)
  \/ DropNotification
  \/ ServeStep
  \/ \E n \in Nodes, s \in Streams : Connect(n, s)
  \/ \E n \in Nodes : RecvSignal(n) \/ StreamEnds(n) \/ ConnectionBreaks(n)
                      \/ ClientStep(n) \/ NodeRestart(n)
  \/ ControllerRestart

SyncSpec == SyncInit /\ [][SyncNext]_syncVars

(* Goroutines are scheduled fairly, on both sides; a connection that is up *)
(* delivers; a client without a stream opens one (the retry interval of    *)
(* the failover manager).                                                  *)
SyncFairness ==
  /\ NotifyFairness
  /\ \A n \in Nodes :
       /\ WF_syncVars(ClientStep(n))
       /\ WF_syncVars(RecvSignal(n))
       /\ WF_syncVars(StreamEnds(n))
       /\ WF_syncVars(\E s \in Streams : Connect(n, s))

SyncFairSpec == SyncSpec /\ SyncFairness

-----------------------------------------------------------------------------
(* A node that has the current generation has the current data, unless a   *)
(* notification of it is pending or was dropped: the generation is read    *)
(* before the tables, and bumped after the write (buildNodeConfig,         *)
(* runWorker, and the callers of RecomputeAndNotify).                      *)
FreshWhenCurrent ==
  \A n \in Nodes :
    (cst[n] # "booting" /\ local[n] = gen[n] /\ ~Pending(n) /\ n \notin lost)
      => cfg[n].data = data[n]

(* The same promise for the revocation list.                               *)
CrlFreshWhenCurrent ==
  (revoking = {} /\ \A n \in Nodes : ~Pending(n) /\ n \notin lost)
    => \A n \in Nodes :
         (cst[n] # "booting" /\ local[n] = gen[n]) => cfg[n].crl = crl

(* Whatever generation labels a configuration, the data in it is at least  *)
(* that which the generation was made for.                                 *)
LabelFloor == \A n \in Nodes : cfg[n].data >= floor[n][cfg[n].gen + 1]

(* A running node never applies a configuration that is not newer than the *)
(* one it has, whatever signals reach it and in whatever order             *)
(* (handleSignal, the re-check after the fetch).                           *)
AppliesNewerOnly ==
  [][\A n \in Nodes :
       (cfg'[n] # cfg[n] /\ cst[n] # "booting") => cfg'[n].gen > cfg[n].gen]_syncVars

(* When a running node is not fetching and was never told of its           *)
(* generation, its stream still catches it up: once nothing changes or     *)
(* fails any more, a handler that reads the generation brings the node to  *)
(* it (WatchConfig step 1 and 2, Client.Run).                              *)
Quiet(n) ==
  /\ calls = MaxCalls /\ faults = MaxFaults /\ restarts = MaxRestarts
  /\ revoking = {} /\ ~Pending(n)

ReconnectHeals ==
  \A n \in Nodes :
    (Quiet(n) /\ link[n] # NoStream /\ spc[link[n]] = "query")
      ~> (local[n] = gen[n] \/ Closed)

(* A running node is brought to every generation made for it.              *)
KeepsUpToDate ==
  \A n \in Nodes : \A g \in 1..MaxCalls :
    (cst[n] # "booting" /\ gen[n] >= g) ~> (local[n] >= g \/ Closed)

(* Delivery as ConfigDelivery promises it.                                 *)
Delivery == INSTANCE ConfigDelivery WITH
  node <- [n \in Nodes |-> [gen |-> cfg[n].gen, data |-> cfg[n].data]]

DeliverySpec == Delivery!Spec
=============================================================================
