----------------------------- MODULE Enrollment -----------------------------
(***************************************************************************)
(* The life of a node record in the controller:                            *)
(*   internal/controller/enroll/service.go   Enroll, Renew                 *)
(*   internal/controller/ipam/ipam.go        Allocator                     *)
(*   internal/controller/ca/manager.go       Issue, Renew, Revoke          *)
(*   internal/controller/admin/nodes.go      handleDeleteNode              *)
(*   internal/controller/admin/keys.go       handleRevokeKey               *)
(* Each request runs in a goroutine of its own. One database call, or one  *)
(* call of the allocator, which holds its mutex over a database call, is   *)
(* one action; nothing holds a lock or a transaction from one call to the  *)
(* next. A certificate is named by the request that issues it, since a     *)
(* request issues at most one. Notifications are modelled in ConfigSync.   *)
(***************************************************************************)
EXTENDS Integers, FiniteSetsExt

CONSTANTS
  Enrolls,    \* enrollment requests
  Renews,     \* renewal requests
  Deletes,    \* requests to delete a node
  Keys,       \* enrollment keys
  OneTime,    \* those that are not reusable
  Expiring,   \* those with an expiry time
  Addresses,  \* virtual addresses the allocator hands out
  NoKey,      \* no key
  MaxFaults,  \* bound: failed steps that the request compensates
  MaxLeaks    \* bound: failed compensations, failed snapshots, restarts

ASSUME EnrollAssumption ==
  /\ OneTime \subseteq Keys /\ Expiring \subseteq Keys /\ NoKey \notin Keys
  /\ Addresses \subseteq Nat \ {0} /\ IsFiniteSet(Addresses)
  /\ Enrolls \cap Renews = {} /\ (Enrolls \cup Renews) \cap Deletes = {}
  /\ MaxFaults \in Nat /\ MaxLeaks \in Nat

Serials == Enrolls \cup Renews
Requests == Serials \cup Deletes

VARIABLES
  consumed,  \* keys marked consumed
  revoked,   \* keys an administrator revoked
  expired,   \* keys whose time is over
  nodes,     \* the rows of table nodes
  leases,    \* the rows of table leases, unique by address
  certs,     \* the rows of table certs
  crl,       \* serials marked revoked
  used,      \* the allocator's map of occupied addresses
  pc,        \* where each request is
  key,       \* the key of an enrollment
  id,        \* the node a request is about
  ip,        \* the address an enrollment holds
  old,       \* the certificates a renewal or a deletion will revoke
  held,      \* the addresses a deletion will release
  late,      \* history: enrollments that checked a key revoked before they consumed it
  faults, leaks

keyVars == <<consumed, revoked, expired>>
tableVars == <<nodes, leases, certs, crl, used>>
requestVars == <<key, id, ip, old, held>>
vars == <<keyVars, tableVars, pc, requestVars, late, faults, leaks>>

NodeRow == [id : Nat, vip : Nat]
LeaseRow == [ip : Nat, node : Nat]
CertRow == [serial : Serials, node : Nat]

Labels == {"idle", "consume", "number", "allocate", "issue", "create", "release", "uncert",
           "unconsume", "listCerts", "listLeases", "deleteRow", "revoke", "done", "failed"}

EnrollTypeOK ==
  /\ consumed \in SUBSET OneTime /\ revoked \in SUBSET Keys /\ expired \in SUBSET Expiring
  /\ nodes \in SUBSET NodeRow
  /\ leases \in SUBSET LeaseRow
  /\ certs \in SUBSET CertRow
  /\ crl \in SUBSET Serials
  /\ used \in SUBSET Addresses
  /\ pc \in [Requests -> Labels]
  /\ key \in [Requests -> Keys \cup {NoKey}]
  /\ id \in [Requests -> Nat]
  /\ ip \in [Requests -> Nat]
  /\ old \in [Requests -> SUBSET Serials]
  /\ held \in [Requests -> SUBSET Addresses]
  /\ late \in SUBSET Enrolls
  /\ faults \in Nat /\ leaks \in Nat
  \* an address is leased once, a virtual address belongs to one node
  /\ \A l, m \in leases : l.ip = m.ip => l = m
  /\ \A n, m \in nodes : (n.id = m.id \/ n.vip = m.vip) => n = m

EnrollInit ==
  /\ consumed = {} /\ revoked = {} /\ expired = {}
  /\ nodes = {} /\ leases = {} /\ certs = {} /\ crl = {} /\ used = {}
  /\ pc = [r \in Requests |-> "idle"]
  /\ key = [r \in Requests |-> NoKey]
  /\ id = [r \in Requests |-> 0]
  /\ ip = [r \in Requests |-> 0]
  /\ old = [r \in Requests |-> {}]
  /\ held = [r \in Requests |-> {}]
  /\ late = {}
  /\ faults = 0 /\ leaks = 0

-----------------------------------------------------------------------------
To(r, l) == pc' = [pc EXCEPT ![r] = l]

Fault == faults < MaxFaults /\ faults' = faults + 1
Leak == leaks < MaxLeaks /\ leaks' = leaks + 1
NoFault == UNCHANGED <<faults, leaks>>

(* compensateKey, which does nothing for a reusable key.                   *)
CompensateKey(r) == To(r, IF key[r] \in OneTime THEN "unconsume" ELSE "failed")

(* Step 1 of Enroll: the checks on the key.                                *)
Usable(k) == k \notin revoked /\ k \notin consumed /\ k \notin expired

CheckKey(r, k) ==
  /\ pc[r] = "idle"
  /\ key' = [key EXCEPT ![r] = k]
  /\ To(r, IF ~Usable(k) THEN "failed"
           ELSE IF k \in OneTime THEN "consume" ELSE "number")
  /\ late' = IF k \in revoked THEN late \cup {r} ELSE late
  /\ NoFault
  /\ UNCHANGED <<keyVars, tableVars, id, ip, old, held>>

(* ConsumeOneTimeKey: one UPDATE whose WHERE is the guard.                 *)
\* Mutated forms: a condition of the WHERE is missing.
ConsumableTwice(k) == k \notin revoked
ConsumableRevoked(k) == k \notin consumed

Consumable(k) == k \notin revoked /\ k \notin consumed

Consume(r) ==
  /\ pc[r] = "consume"
  /\ IF Consumable(key[r])
     THEN consumed' = consumed \cup {key[r]} /\ To(r, "number")
     ELSE UNCHANGED consumed /\ To(r, "failed")
  /\ NoFault
  /\ UNCHANGED <<revoked, expired, tableVars, requestVars, late>>

(* NextNodeID: the highest existing number plus one.                       *)
NextNodeID == IF nodes = {} THEN 1 ELSE Max({n.id : n \in nodes}) + 1

Number(r) ==
  /\ pc[r] = "number"
  /\ id' = [id EXCEPT ![r] = NextNodeID]
  /\ To(r, "allocate")
  /\ NoFault
  /\ UNCHANGED <<keyVars, tableVars, key, ip, old, held, late>>

(* Allocator.Allocate: the lowest address not in the map; the insertion    *)
(* fails when the address is leased already.                               *)
Free == Addresses \ used

Allocate(r) ==
  /\ pc[r] = "allocate"
  /\ IF Free # {} /\ \A l \in leases : l.ip # Min(Free)
     THEN /\ leases' = leases \cup {[ip |-> Min(Free), node |-> id[r]]}
          /\ used' = used \cup {Min(Free)}
          /\ ip' = [ip EXCEPT ![r] = Min(Free)]
          /\ To(r, "issue")
     ELSE UNCHANGED <<leases, used, ip>> /\ CompensateKey(r)
  /\ NoFault
  /\ UNCHANGED <<keyVars, nodes, certs, crl, key, id, old, held, late>>

(* Manager.issue: sign, then RecordCert.                                   *)
RecordCert(r) == certs' = certs \cup {[serial |-> r, node |-> id[r]]}

Issue(r) ==
  /\ pc[r] = "issue" /\ r \in Enrolls
  /\ RecordCert(r)
  /\ To(r, "create")
  /\ NoFault
  /\ UNCHANGED <<keyVars, nodes, leases, crl, used, requestVars, late>>

(* CreateNode: the insertion fails when the number or the address is       *)
(* another row's.                                                          *)
\* Mutated form: the number is not a key.
ConflictOnAddress(r) == \E n \in nodes : n.vip = ip[r]

Conflict(r) == \E n \in nodes : n.id = id[r] \/ n.vip = ip[r]

CreateNode(r) ==
  /\ pc[r] = "create"
  /\ IF Conflict(r)
     THEN UNCHANGED nodes /\ To(r, "release")
     ELSE nodes' = nodes \cup {[id |-> id[r], vip |-> ip[r]]} /\ To(r, "done")
  /\ NoFault
  /\ UNCHANGED <<keyVars, leases, certs, crl, used, requestVars, late>>

(* A call of steps 2, 3, 4, 6 or 7 fails, and the compensation begins.     *)
StepFails(r) ==
  /\ \/ pc[r] = "consume" /\ To(r, "failed")
     \/ pc[r] \in {"number", "allocate"} /\ CompensateKey(r)
     \/ pc[r] \in {"issue", "create"} /\ r \in Enrolls /\ To(r, "release")
  /\ Fault
  /\ UNCHANGED <<keyVars, tableVars, requestVars, late, leaks>>

(* The compensations, in the order of the code. Each is a call that may    *)
(* fail in turn, which is logged or ignored.                               *)
ReleaseAddress(a) ==
  /\ leases' = {l \in leases : l.ip # a}
  /\ used' = used \ {a}

\* Mutated form: the certificate is forgotten.
AfterReleaseNoCert(r) == CompensateKey(r)

AfterRelease(r) ==
  IF \E c \in certs : c.serial = r THEN To(r, "uncert") ELSE CompensateKey(r)

\* Mutated form: the leases are released by node, not by address.
ReleaseByNode(r) ==
  /\ pc[r] = "release" /\ r \in Enrolls
  /\ leases' = {l \in leases : l.node # id[r]}
  /\ used' = {l.ip : l \in leases'}
  /\ AfterRelease(r)
  /\ NoFault
  /\ UNCHANGED <<keyVars, nodes, certs, crl, requestVars, late>>

Release(r) ==
  /\ pc[r] = "release" /\ r \in Enrolls
  /\ ReleaseAddress(ip[r])
  /\ AfterRelease(r)
  /\ NoFault
  /\ UNCHANGED <<keyVars, nodes, certs, crl, requestVars, late>>

DeleteCert(r) ==
  /\ pc[r] = "uncert"
  /\ certs' = {c \in certs : c.serial # r}
  /\ crl' = crl \ {r}
  /\ CompensateKey(r)
  /\ NoFault
  /\ UNCHANGED <<keyVars, nodes, leases, used, requestVars, late>>

Unconsume(r) ==
  /\ pc[r] = "unconsume"
  /\ consumed' = IF key[r] \in revoked THEN consumed ELSE consumed \ {key[r]}
  /\ To(r, "failed")
  /\ NoFault
  /\ UNCHANGED <<revoked, expired, tableVars, requestVars, late>>

CompensationFails(r) ==
  /\ \/ pc[r] = "release" /\ r \in Enrolls /\ AfterRelease(r)
     \/ pc[r] = "uncert" /\ CompensateKey(r)
     \/ pc[r] = "unconsume" /\ To(r, "failed")
  /\ Leak
  /\ UNCHANGED <<keyVars, tableVars, requestVars, late, faults>>

-----------------------------------------------------------------------------
(* Renew: a node proves a certificate it was given, the check is that it   *)
(* is not revoked; Manager.Renew then issues, and revokes the old one.     *)
CheckRenewal(r, s) ==
  /\ r \in Renews /\ pc[r] = "idle"
  /\ s \in Serials /\ pc[s] = "done"
  /\ id' = [id EXCEPT ![r] = id[s]]
  /\ old' = [old EXCEPT ![r] = {s}]
  /\ To(r, IF s \in crl THEN "failed" ELSE "issue")
  /\ NoFault
  /\ UNCHANGED <<keyVars, tableVars, key, ip, held, late>>

IssueRenewal(r) ==
  /\ r \in Renews /\ pc[r] = "issue"
  /\ RecordCert(r)
  /\ To(r, "revoke")
  /\ NoFault
  /\ UNCHANGED <<keyVars, nodes, leases, crl, used, requestVars, late>>

RevokeCerts(S) == crl' = crl \cup {s \in S : \E c \in certs : c.serial = s}

\* Mutated form: every certificate of the node is revoked.
RevokeRenewedAll(r) ==
  /\ r \in Renews /\ pc[r] = "revoke"
  /\ RevokeCerts({c.serial : c \in {e \in certs : e.node = id[r]}})
  /\ To(r, "done")
  /\ NoFault
  /\ UNCHANGED <<keyVars, nodes, leases, certs, used, requestVars, late>>

RevokeRenewed(r) ==
  /\ r \in Renews /\ pc[r] = "revoke"
  /\ RevokeCerts(old[r])
  /\ To(r, "done")
  /\ NoFault
  /\ UNCHANGED <<keyVars, nodes, leases, certs, used, requestVars, late>>

(* Either call fails; after the first, a recorded certificate is left that *)
(* nobody was given.                                                       *)
RenewalFails(r) ==
  /\ r \in Renews
  /\ \/ pc[r] = "issue" /\ Fault /\ UNCHANGED leaks
     \/ pc[r] = "revoke" /\ Leak /\ UNCHANGED faults
  /\ To(r, "failed")
  /\ UNCHANGED <<keyVars, tableVars, requestVars, late>>

-----------------------------------------------------------------------------
(* handleDeleteNode: resolve the node, read its certificates and leases,   *)
(* delete the row, then revoke and release what was read. An error of a    *)
(* read is ignored, and so are those of the last two loops.                *)
ResolveNode(d, n) ==
  /\ pc[d] = "idle"
  /\ id' = [id EXCEPT ![d] = n.id]
  /\ To(d, "listCerts")
  /\ NoFault
  /\ UNCHANGED <<keyVars, tableVars, key, ip, old, held, late>>

ListCertsByNode(d) ==
  /\ pc[d] = "listCerts"
  /\ old' = [old EXCEPT ![d] = {c.serial : c \in {e \in certs : e.node = id[d]}} \ crl]
  /\ To(d, "listLeases")
  /\ NoFault
  /\ UNCHANGED <<keyVars, tableVars, key, id, ip, held, late>>

GetLeasesByNode(d) ==
  /\ pc[d] = "listLeases"
  /\ held' = [held EXCEPT ![d] = {l.ip : l \in {k \in leases : k.node = id[d]}}]
  /\ To(d, "deleteRow")
  /\ NoFault
  /\ UNCHANGED <<keyVars, tableVars, key, id, ip, old, late>>

ReadFails(d) ==
  /\ \/ pc[d] = "listCerts" /\ To(d, "listLeases")
     \/ pc[d] = "listLeases" /\ To(d, "deleteRow")
  /\ Leak
  /\ UNCHANGED <<keyVars, tableVars, requestVars, late, faults>>

(* DeleteNode is no error when the row is gone.                            *)
DeleteRow(d) ==
  /\ pc[d] = "deleteRow"
  /\ nodes' = {n \in nodes : n.id # id[d]}
  /\ To(d, "revoke")
  /\ NoFault
  /\ UNCHANGED <<keyVars, leases, certs, crl, used, requestVars, late>>

DeleteRowFails(d) ==
  /\ pc[d] = "deleteRow"
  /\ To(d, "failed")
  /\ Fault
  /\ UNCHANGED <<keyVars, tableVars, requestVars, late, leaks>>

(* The loops of steps 4 and 5, an iteration at a time.                     *)
RevokeOne(d, s) ==
  /\ pc[d] = "revoke" /\ s \in old[d]
  /\ old' = [old EXCEPT ![d] = @ \ {s}]
  /\ RevokeCerts({s})
  /\ NoFault
  /\ UNCHANGED <<keyVars, nodes, leases, certs, used, pc, key, id, ip, held, late>>

ReleaseOne(d, a) ==
  /\ pc[d] = "revoke" /\ old[d] = {} /\ a \in held[d]
  /\ held' = [held EXCEPT ![d] = @ \ {a}]
  /\ ReleaseAddress(a)
  /\ NoFault
  /\ UNCHANGED <<keyVars, nodes, certs, crl, pc, key, id, ip, old, late>>

IterationFails(d) ==
  /\ pc[d] = "revoke"
  /\ \/ \E s \in old[d] : old' = [old EXCEPT ![d] = @ \ {s}] /\ UNCHANGED held
     \/ \E a \in held[d] :
          old[d] = {} /\ held' = [held EXCEPT ![d] = @ \ {a}] /\ UNCHANGED old
  /\ Leak
  /\ UNCHANGED <<keyVars, tableVars, pc, key, id, ip, late, faults>>

EndDelete(d) ==
  /\ pc[d] = "revoke" /\ old[d] = {} /\ held[d] = {}
  /\ To(d, "done")
  /\ NoFault
  /\ UNCHANGED <<keyVars, tableVars, requestVars, late>>

-----------------------------------------------------------------------------
(* The environment: an administrator revokes a key, a key expires, the     *)
(* controller restarts and the allocator rebuilds its map (ipam.New).      *)
RevokeKey(k) ==
  /\ k \notin revoked
  /\ revoked' = revoked \cup {k}
  /\ late' = late \cup {r \in Enrolls : pc[r] = "consume" /\ key[r] = k}
  /\ NoFault
  /\ UNCHANGED <<consumed, expired, tableVars, pc, requestVars>>

Expire(k) ==
  /\ k \in Expiring \ expired
  /\ expired' = expired \cup {k}
  /\ NoFault
  /\ UNCHANGED <<consumed, revoked, tableVars, pc, requestVars, late>>

Restart ==
  /\ pc' = [r \in Requests |-> IF pc[r] \in {"idle", "done"} THEN pc[r] ELSE "failed"]
  /\ used' = {l.ip : l \in leases}
  /\ Leak
  /\ UNCHANGED <<keyVars, nodes, leases, certs, crl, requestVars, late, faults>>

EnrollStep(r) ==
  \/ \E k \in Keys : CheckKey(r, k)
  \/ Consume(r) \/ Number(r) \/ Allocate(r) \/ Issue(r) \/ CreateNode(r)
  \/ StepFails(r)
  \/ Release(r) \/ DeleteCert(r) \/ Unconsume(r) \/ CompensationFails(r)

RenewStep(r) ==
  \/ \E s \in Serials : CheckRenewal(r, s)
  \/ IssueRenewal(r) \/ RevokeRenewed(r) \/ RenewalFails(r)

DeleteStep(d) ==
  \/ \E n \in nodes : ResolveNode(d, n)
  \/ ListCertsByNode(d) \/ GetLeasesByNode(d) \/ ReadFails(d)
  \/ DeleteRow(d) \/ DeleteRowFails(d)
  \/ \E s \in old[d] : RevokeOne(d, s)
  \/ \E a \in held[d] : ReleaseOne(d, a)
  \/ IterationFails(d) \/ EndDelete(d)

EnrollNext ==
  \/ \E r \in Enrolls : EnrollStep(r)
  \/ \E r \in Renews : RenewStep(r)
  \/ \E d \in Deletes : DeleteStep(d)
  \/ \E k \in Keys : RevokeKey(k) \/ Expire(k)
  \/ Restart

EnrollSpec == EnrollInit /\ [][EnrollNext]_vars

-----------------------------------------------------------------------------
(* A one-time key admits at most one node, however the requests that       *)
(* present it interleave, fail, are compensated or are cut off             *)
(* (ConsumeOneTimeKey, UnconsumeOneTimeKey).                               *)
OneTimeKeyAdmitsOne ==
  \A q, r \in Enrolls :
    (q # r /\ key[q] = key[r] /\ key[q] \in OneTime) => ~(pc[q] = "done" /\ pc[r] = "done")

(* A request that comes to consume a key, or to check it, after the        *)
(* administrator revoked it is refused, whatever other requests do to the  *)
(* key in between (handleRevokeKey, UnconsumeOneTimeKey).                  *)
RevokedKeyAdmitsNobody == \A r \in late : pc[r] # "done"

(* When no compensation fails and the controller does not stop, a failed   *)
(* enrollment leaves nothing: no certificate, no consumed key, and every   *)
(* lease is of a node, of a request under way or of a deletion (Enroll,    *)
(* compensateKey and cleanupCert). Deletions come one at a time.           *)
HoldsAddress(r, a) == ip[r] = a /\ pc[r] \in {"issue", "create", "release"}

FailedEnrollLeavesNothing ==
  (leaks = 0 /\ Cardinality({d \in Deletes : pc[d] # "idle"}) <= 1) =>
    /\ \A c \in certs : c.serial \in Enrolls => pc[c.serial] # "failed"
    /\ \A k \in consumed \ revoked :
         \E r \in Enrolls : key[r] = k /\ pc[r] \notin {"idle", "consume", "failed"}
    /\ \A l \in leases :
         \/ \E n \in nodes : n.vip = l.ip
         \/ \E r \in Enrolls : HoldsAddress(r, l.ip)
         \/ \E d \in Deletes : l.ip \in held[d]

(* Until a node is deleted, the address of every node is leased to it,     *)
(* whatever fails and however often the controller restarts: the address   *)
(* cannot be handed out again (Allocate, Release, ipam.New).               *)
NodeHoldsLease ==
  (\A d \in Deletes : pc[d] = "idle") =>
    \A n \in nodes : [ip |-> n.vip, node |-> n.id] \in leases

(* Renewals that race, fail or are cut off leave a node that is not being  *)
(* deleted with a certificate that is not revoked (Manager.Renew issues    *)
(* before it revokes).                                                     *)
NodeKeepsCert ==
  \A n \in nodes :
    (\A d \in Deletes : id[d] # n.id) =>
      \E c \in certs : c.node = n.id /\ c.serial \notin crl

(* Allocate hands out an address that no node has (ipam.go:54).            *)
AllocatesUnused ==
  [][\A r \in Enrolls :
       (pc[r] = "allocate" /\ pc'[r] = "issue") => \A n \in nodes : n.vip # ip'[r]]_vars
=============================================================================
