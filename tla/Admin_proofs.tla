---------------------------- MODULE Admin_proofs ----------------------------
(***************************************************************************)
(* The controller's tables, for any number of requests, keys, hosts,       *)
(* documents, failures and restarts: what a key admits, that enrollments,  *)
(* renewals and deletions leave no half of a node, that no node rests on a *)
(* configuration the tables do not give it, and that a controller stopped  *)
(* anywhere starts again with the CA its nodes trust.                      *)
(***************************************************************************)
EXTENDS MCAdmin, FiniteSetTheorems, TLAPS

(***************************************************************************)
(* Enrollment keys.                                                        *)
(***************************************************************************)
(* An enrollment that has consumed its one-time key and has not given it   *)
(* back is the only one, and the key is marked.                            *)
Holds(r) == pc[r] \in {"number", "allocate", "issue", "create", "release", "uncert",
                       "unconsume", "done"}

KeyType ==
  /\ pc \in [Requests -> Labels]
  /\ key \in [Requests -> Keys \cup {NoKey}]

HolderMarked == \A r \in Enrolls : (Holds(r) /\ key[r] \in OneTime) => key[r] \in consumed

SingleHolder ==
  \A q, r \in Enrolls :
    (Holds(q) /\ Holds(r) /\ key[q] = key[r] /\ key[q] \in OneTime) => q = r

LateRefused ==
  /\ late \subseteq Enrolls
  /\ \A r \in late : key[r] \in revoked /\ pc[r] \in {"consume", "failed"}

(* Only a request with a one-time key gives one back.                      *)
GivesOwn == \A r \in Enrolls : pc[r] \in {"consume", "unconsume"} => key[r] \in OneTime

KeyInv == KeyType /\ HolderMarked /\ SingleHolder /\ LateRefused /\ GivesOwn

-----------------------------------------------------------------------------
LEMMA KeyInit == EnrollInit => KeyInv
BY EnrollAssumption DEF EnrollInit, KeyInv, KeyType, HolderMarked, SingleHolder, LateRefused,
   GivesOwn, Holds, Requests, Serials, Labels

(* A step that leaves the keys alone, and brings a request nowhere it      *)
(* would hold a key that it did not hold, keeps the invariant.             *)
LEMMA KeyFrame ==
  ASSUME KeyInv, NEW r \in Requests, NEW l \in Labels,
         pc' = [pc EXCEPT ![r] = l],
         r \in Enrolls => (Holds(r) \/ l = "failed") /\ l # "consume",
         r \in late => l = "failed",
         (r \in Enrolls /\ l = "unconsume") => key[r] \in OneTime,
         UNCHANGED <<keyVars, key, late>>
  PROVE  KeyInv'
<1> USE DEF KeyInv
<1>1. /\ pc[r] \in Labels /\ pc'[r] = l
      /\ \A q \in Requests : q # r => pc'[q] = pc[q]
      /\ Enrolls \subseteq Requests
  BY DEF KeyType, Requests, Serials
<1>2. KeyType'
  BY DEF KeyType
<1>3. \A q \in Enrolls : Holds(q)' => Holds(q)
  BY <1>1 DEF Holds
<1>4. HolderMarked' /\ SingleHolder'
  BY <1>3 DEF HolderMarked, SingleHolder, keyVars
<1>5. LateRefused'
  BY <1>1 DEF LateRefused, keyVars
<1>6. GivesOwn'
  BY <1>1 DEF GivesOwn
<1> QED
  BY <1>2, <1>4, <1>5, <1>6

(* The steps of an enrollment that touch no key.                           *)
LEMMA EnrollKeepsKeys ==
  ASSUME KeyInv, NEW r \in Enrolls,
         \/ Number(r) \/ Allocate(r) \/ Issue(r) \/ CreateNode(r) \/ StepFails(r)
         \/ Release(r) \/ DeleteCert(r) \/ CompensationFails(r)
  PROVE  KeyInv'
<1>1. r \in Requests /\ UNCHANGED <<keyVars, key, late>>
  BY DEF Number, Allocate, Issue, CreateNode, StepFails, Release, DeleteCert,
         CompensationFails, requestVars, tableVars, keyVars, Requests, Serials
<1>2. PICK l \in Labels :
        /\ pc' = [pc EXCEPT ![r] = l]
        /\ l # "consume"
        /\ l = "unconsume" => key[r] \in OneTime
        /\ Holds(r) \/ l = "failed"
        /\ pc[r] = "consume" => l = "failed"
  BY DEF Number, Allocate, Issue, CreateNode, StepFails, Release, DeleteCert,
         CompensationFails, CompensateKey, AfterRelease, To, Holds, Labels
<1>3. r \in late => l = "failed"
  BY <1>2 DEF KeyInv, LateRefused, Holds
<1> QED
  BY <1>1, <1>2, <1>3, KeyFrame

(* Consuming a key makes its holder the only one.                          *)
LEMMA ConsumeKeepsKeys ==
  ASSUME KeyInv, NEW r \in Enrolls, Consume(r)
  PROVE  KeyInv'
<1> USE DEF KeyInv, KeyType, HolderMarked, SingleHolder, LateRefused, GivesOwn, Holds, Labels,
        Requests, Serials
<1>1. CASE Consumable(key[r])
  <2>1. /\ pc[r] = "consume" /\ pc' = [pc EXCEPT ![r] = "number"]
        /\ consumed' = consumed \cup {key[r]}
        /\ UNCHANGED <<revoked, key, late>>
        /\ key[r] \notin revoked /\ key[r] \notin consumed
    BY <1>1 DEF Consume, Consumable, To, requestVars
  <2>2. KeyType' /\ HolderMarked' /\ SingleHolder'
    BY <2>1
  <2>3. LateRefused' /\ GivesOwn'
    BY <2>1
  <2> QED BY <2>2, <2>3
<1>2. CASE ~Consumable(key[r])
  <2>1. /\ pc[r] = "consume" /\ pc' = [pc EXCEPT ![r] = "failed"]
        /\ UNCHANGED <<keyVars, key, late>>
    BY <1>2 DEF Consume, To, requestVars, keyVars
  <2> QED BY <2>1, KeyFrame
<1> QED BY <1>1, <1>2

(* Giving a key back leaves it without a holder.                           *)
LEMMA UnconsumeKeepsKeys ==
  ASSUME KeyInv, NEW r \in Enrolls, Unconsume(r)
  PROVE  KeyInv'
<1> USE DEF KeyInv, KeyType, HolderMarked, SingleHolder, LateRefused, GivesOwn, Holds, Labels,
        Requests, Serials
<1>1. /\ pc[r] = "unconsume" /\ pc' = [pc EXCEPT ![r] = "failed"]
      /\ consumed \ {key[r]} \subseteq consumed'
      /\ UNCHANGED <<revoked, key, late>>
  BY DEF Unconsume, To, requestVars
<1>2. HolderMarked'
  <2> SUFFICES ASSUME NEW q \in Enrolls, Holds(q)', key[q]' \in OneTime
               PROVE  key[q]' \in consumed'
    OBVIOUS
  <2>1. q # r /\ Holds(q) /\ key[q]' = key[q]
    BY <1>1
  <2>2. key[q] # key[r]
    BY <2>1, <1>1
  <2> QED BY <2>1, <2>2, <1>1
<1>3. KeyType' /\ SingleHolder'
  BY <1>1
<1>4. LateRefused' /\ GivesOwn'
  BY <1>1
<1> QED BY <1>2, <1>3, <1>4

LEMMA CheckKeepsKeys ==
  ASSUME KeyInv, NEW r \in Enrolls, NEW k \in Keys, CheckKey(r, k)
  PROVE  KeyInv'
<1> USE EnrollAssumption
    DEF KeyInv, KeyType, HolderMarked, SingleHolder, LateRefused, GivesOwn, Holds, Labels,
        Requests, Serials
<1>1. PICK l \in Labels :
        /\ pc[r] = "idle" /\ pc' = [pc EXCEPT ![r] = l]
        /\ key' = [key EXCEPT ![r] = k]
        /\ UNCHANGED keyVars
        /\ late' = IF k \in revoked THEN late \cup {r} ELSE late
        /\ l \in {"failed", "consume", "number"}
        /\ l = "consume" => k \in OneTime
        /\ l = "number" => k \notin OneTime
        /\ k \in revoked => l = "failed"
  BY DEF CheckKey, Usable, To
<1>2. KeyType' /\ HolderMarked'
  BY <1>1 DEF keyVars
<1>3. SingleHolder'
  BY <1>1
<1>4. LateRefused' /\ GivesOwn'
  BY <1>1 DEF keyVars
<1> QED BY <1>2, <1>3, <1>4

(* Renewals and deletions touch no key.                                    *)
LEMMA RenewKeepsKeys ==
  ASSUME KeyInv, NEW r \in Renews, RenewStep(r)
  PROVE  KeyInv'
<1>1. /\ r \in Requests /\ r \notin Enrolls
      /\ UNCHANGED <<keyVars, key, late>>
  BY EnrollAssumption DEF RenewStep, CheckRenewal, IssueRenewal, RevokeRenewed, RenewalFails,
     requestVars, tableVars, keyVars, Requests, Serials
<1>2. PICK l \in Labels : pc' = [pc EXCEPT ![r] = l]
  BY DEF RenewStep, CheckRenewal, IssueRenewal, RevokeRenewed, RenewalFails, To, Labels
<1> QED
  BY <1>1, <1>2, KeyFrame DEF KeyInv, LateRefused

LEMMA DeleteKeepsKeys ==
  ASSUME KeyInv, NEW d \in Deletes, DeleteStep(d)
  PROVE  KeyInv'
<1>1. /\ d \in Requests /\ d \notin Enrolls
      /\ UNCHANGED <<keyVars, key, late>>
  BY EnrollAssumption DEF DeleteStep, ResolveNode, ListCertsByNode, GetLeasesByNode, ReadFails,
     DeleteRow, DeleteRowFails, RevokeOne, ReleaseOne, IterationFails, EndDelete,
     requestVars, tableVars, keyVars, Requests, Serials
<1>2. \E l \in Labels : pc' = [pc EXCEPT ![d] = l]
  <2>1. CASE UNCHANGED pc
    <3>1. pc[d] \in Labels /\ pc' = [pc EXCEPT ![d] = pc[d]]
      BY <2>1, <1>1 DEF KeyInv, KeyType
    <3> QED BY <3>1
  <2>2. CASE ~UNCHANGED pc
    BY <2>2 DEF DeleteStep, ResolveNode, ListCertsByNode, GetLeasesByNode, ReadFails,
       DeleteRow, DeleteRowFails, RevokeOne, ReleaseOne, IterationFails, EndDelete, To, Labels
  <2> QED BY <2>1, <2>2
<1>3. PICK l \in Labels : pc' = [pc EXCEPT ![d] = l]
  BY <1>2
<1> QED
  BY <1>1, <1>3, KeyFrame DEF KeyInv, LateRefused

(* What an administrator, the time and a restart do to keys and requests.  *)
LEMMA EnvironmentKeepsKeys ==
  ASSUME KeyInv, (\E k \in Keys : RevokeKey(k) \/ Expire(k)) \/ Restart \/ UNCHANGED vars
  PROVE  KeyInv'
<1> USE DEF KeyInv, KeyType, HolderMarked, SingleHolder, LateRefused, GivesOwn, Holds, Labels,
        Requests, Serials
<1>1. CASE \E k \in Keys : RevokeKey(k)
  <2>1. PICK k \in Keys :
          /\ revoked' = revoked \cup {k}
          /\ late' = late \cup {r \in Enrolls : pc[r] = "consume" /\ key[r] = k}
          /\ UNCHANGED <<consumed, pc, key>>
    BY <1>1 DEF RevokeKey, requestVars
  <2>2. KeyType' /\ HolderMarked' /\ SingleHolder' /\ GivesOwn'
    BY <2>1
  <2>3. LateRefused'
    BY <2>1
  <2> QED BY <2>2, <2>3
<1>2. CASE \E k \in Keys : Expire(k)
  BY <1>2 DEF Expire, requestVars
<1>3. CASE Restart
  <2>1. /\ pc' = [r \in Requests |-> IF pc[r] \in {"idle", "done"} THEN pc[r] ELSE "failed"]
        /\ UNCHANGED <<keyVars, key, late>>
    BY <1>3 DEF Restart, requestVars
  <2>2. \A r \in Enrolls : /\ pc'[r] \in {"idle", "done", "failed"}
                           /\ Holds(r)' => Holds(r)
    BY <2>1
  <2>3. KeyType'
    BY <2>1
  <2>4. HolderMarked' /\ SingleHolder'
    BY <2>1, <2>2 DEF keyVars
  <2>5. LateRefused' /\ GivesOwn'
    BY <2>1, <2>2 DEF keyVars
  <2> QED BY <2>3, <2>4, <2>5
<1>4. CASE UNCHANGED vars
  BY <1>4 DEF vars, keyVars, requestVars
<1> QED BY <1>1, <1>2, <1>3, <1>4

-----------------------------------------------------------------------------
LEMMA KeyInvStep == KeyInv /\ [EnrollNext]_vars => KeyInv'
<1> SUFFICES ASSUME KeyInv, [EnrollNext]_vars PROVE KeyInv'
  OBVIOUS
<1>1. ASSUME NEW r \in Enrolls, EnrollStep(r) PROVE KeyInv'
  BY <1>1, EnrollKeepsKeys, ConsumeKeepsKeys, UnconsumeKeepsKeys, CheckKeepsKeys
     DEF EnrollStep
<1>2. ASSUME NEW r \in Renews, RenewStep(r) PROVE KeyInv'
  BY <1>2, RenewKeepsKeys
<1>3. ASSUME NEW d \in Deletes, DeleteStep(d) PROVE KeyInv'
  BY <1>3, DeleteKeepsKeys
<1>4. CASE (\E k \in Keys : RevokeKey(k) \/ Expire(k)) \/ Restart \/ UNCHANGED vars
  BY <1>4, EnvironmentKeepsKeys
<1> QED BY <1>1, <1>2, <1>3, <1>4 DEF EnrollNext

(* The bookkeeping of keys that ConsumeOneTimeKey and UnconsumeOneTimeKey  *)
(* keep, in every reachable state.                                         *)
THEOREM KeyInvariant == EnrollSpec => []KeyInv
BY KeyInit, KeyInvStep, PTL DEF EnrollSpec

(* However many enrollments present a one-time key, at most one ends with  *)
(* a node (ConsumeOneTimeKey, UnconsumeOneTimeKey).                        *)
THEOREM OneTimeKeyHolds == EnrollSpec => []OneTimeKeyAdmitsOne
<1>1. KeyInv => OneTimeKeyAdmitsOne
  BY DEF KeyInv, SingleHolder, Holds, OneTimeKeyAdmitsOne
<1> QED BY <1>1, KeyInvariant, PTL

(* Nobody who comes to a key after its revocation ends with a node         *)
(* (handleRevokeKey, ConsumeOneTimeKey).                                   *)
THEOREM RevokedKeyHolds == EnrollSpec => []RevokedKeyAdmitsNobody
<1>1. KeyInv => RevokedKeyAdmitsNobody
  BY DEF KeyInv, LateRefused, RevokedKeyAdmitsNobody
<1> QED BY <1>1, KeyInvariant, PTL
-----------------------------------------------------------------------------
(***************************************************************************)
(* Nodes, addresses and certificates. First, that the least free address   *)
(* is one of the pool and the next number is a number.                     *)
(***************************************************************************)
LEMMA LeastOf ==
  ASSUME NEW S \in SUBSET Nat, S # {}
  PROVE  \E x \in S : \A y \in S : x <= y
<1>1. S \subseteq Nat
  OBVIOUS
<1>2. PICK x \in S : \A y \in S : ~(<<y, x>> \in OpToRel(<, Nat))
  BY <1>1, NatLessThanWellFounded, WFMin
<1>3. \A y \in S : ~(y < x)
  BY <1>1, <1>2 DEF OpToRel
<1>4. \A y \in S : x <= y
  BY <1>1, <1>3
<1> QED BY <1>4

LEMMA MinIn ==
  ASSUME NEW S \in SUBSET Nat, S # {}
  PROVE  Min(S) \in S
BY LeastOf DEF Min

LEMMA MaxIn ==
  ASSUME NEW S \in SUBSET Nat, S # {}, NEW b \in Nat, \A x \in S : x <= b
  PROVE  Max(S) \in S
<1> DEFINE T == {y \in Nat : \A x \in S : x <= y}
<1>1. PICK m \in T : \A y \in T : m <= y
  BY LeastOf
<1>2. m \in S
  <2>1. SUFFICES ASSUME m \notin S PROVE FALSE
    OBVIOUS
  <2>2. \A x \in S : x <= m - 1 /\ m - 1 \in Nat
    BY <2>1
  <2>3. m - 1 \in T
    BY <2>2
  <2> QED BY <1>1, <2>3
<1>3. \A y \in S : m >= y
  OBVIOUS
<1> QED BY <1>2, <1>3 DEF Max

RowTypes ==
  /\ EnrollTypeOK
  /\ \A l \in leases : l.ip \in Addresses
  /\ \E b \in Nat : \A n \in nodes : n.id <= b

LEMMA NextIsNumber ==
  ASSUME RowTypes
  PROVE  NextNodeID \in Nat
<1> DEFINE S == {n.id : n \in nodes}
<1>1. S \in SUBSET Nat
  BY DEF RowTypes, EnrollTypeOK, NodeRow
<1>2. PICK b \in Nat : \A x \in S : x <= b
  BY DEF RowTypes
<1>3. CASE nodes = {}
  BY <1>3 DEF NextNodeID
<1>4. CASE nodes # {}
  <2>1. S # {} BY <1>4
  <2>2. Max(S) \in Nat BY <1>1, <1>2, <2>1, MaxIn
  <2> QED BY <1>4, <2>2 DEF NextNodeID
<1> QED BY <1>3, <1>4

LEMMA EnrollKeepsRows ==
  ASSUME KeyInv, RowTypes, NEW r \in Enrolls, EnrollStep(r)
  PROVE  RowTypes'
<1> USE EnrollAssumption DEF RowTypes, EnrollTypeOK, Labels, Requests, Serials, NodeRow, LeaseRow,
     CertRow, To, NoFault, Fault, Leak, keyVars, requestVars, tableVars
<1>1. ASSUME NEW k \in Keys, CheckKey(r, k) PROVE RowTypes'
  BY <1>1 DEF CheckKey, Usable
<1>2. CASE Consume(r)
  BY <1>2 DEF Consume, KeyInv, GivesOwn
<1>3. CASE Number(r)
  BY <1>3, NextIsNumber DEF Number
<1>4. CASE Allocate(r)
  <2>1. CASE ~(Free # {} /\ \A l \in leases : l.ip # Min(Free))
    BY <1>4, <2>1 DEF Allocate, CompensateKey
  <2>2. CASE Free # {} /\ \A l \in leases : l.ip # Min(Free)
    <3>1. Min(Free) \in Addresses
      BY <2>2, MinIn DEF Free
    <3>2. /\ leases' = leases \cup {[ip |-> Min(Free), node |-> id[r]]}
          /\ used' = used \cup {Min(Free)}
          /\ ip' = [ip EXCEPT ![r] = Min(Free)]
          /\ pc' = [pc EXCEPT ![r] = "issue"]
          /\ UNCHANGED <<keyVars, nodes, certs, crl, key, id, old, held, late, faults, leaks>>
      BY <1>4, <2>2 DEF Allocate
    <3> HIDE DEF RowTypes
    <3>3. leases' \in SUBSET LeaseRow /\ \A l \in leases' : l.ip \in Addresses
      <4>1. [ip |-> Min(Free), node |-> id[r]] \in LeaseRow
        BY <3>1 DEF RowTypes
      <4> QED BY <4>1, <3>1, <3>2 DEF RowTypes
    <3>4. \A l, m \in leases' : l.ip = m.ip => l = m
      BY <2>2, <3>2 DEF RowTypes
    <3> QED BY <3>1, <3>2, <3>3, <3>4 DEF RowTypes
  <2> QED BY <2>1, <2>2
<1>5. CASE Issue(r)
  BY <1>5 DEF Issue, RecordCert
<1>6. CASE CreateNode(r)
  BY <1>6 DEF CreateNode, Conflict
<1>7. CASE StepFails(r)
  BY <1>7 DEF StepFails, CompensateKey
<1>8. CASE Release(r)
  BY <1>8 DEF Release, ReleaseAddress, AfterRelease, CompensateKey
<1>9. CASE DeleteCert(r)
  BY <1>9 DEF DeleteCert, CompensateKey
<1>10. CASE Unconsume(r)
  BY <1>10 DEF Unconsume
<1>11. CASE CompensationFails(r)
  BY <1>11 DEF CompensationFails, AfterRelease, CompensateKey
<1> QED BY <1>1, <1>2, <1>3, <1>4, <1>5, <1>6, <1>7, <1>8, <1>9, <1>10, <1>11 DEF EnrollStep

LEMMA OthersKeepRows ==
  ASSUME RowTypes,
         \/ \E r \in Renews : RenewStep(r)
         \/ \E d \in Deletes : DeleteStep(d)
         \/ \E k \in Keys : RevokeKey(k) \/ Expire(k)
         \/ Restart \/ UNCHANGED vars
  PROVE  RowTypes'
<1> USE EnrollAssumption DEF RowTypes, EnrollTypeOK, Labels, Requests, Serials, NodeRow, LeaseRow,
     CertRow, To, NoFault, Fault, Leak, keyVars, requestVars, tableVars
<1>1. ASSUME NEW r \in Renews, RenewStep(r) PROVE RowTypes'
  <2>1. ASSUME NEW s \in Serials, CheckRenewal(r, s) PROVE RowTypes'
    BY <2>1 DEF CheckRenewal
  <2>2. CASE IssueRenewal(r)
    BY <2>2 DEF IssueRenewal, RecordCert
  <2>3. CASE RevokeRenewed(r)
    BY <2>3 DEF RevokeRenewed, RevokeCerts
  <2>4. CASE RenewalFails(r)
    BY <2>4 DEF RenewalFails
  <2> QED BY <1>1, <2>1, <2>2, <2>3, <2>4 DEF RenewStep
<1>2. ASSUME NEW d \in Deletes, DeleteStep(d) PROVE RowTypes'
  <2>1. ASSUME NEW n \in nodes, ResolveNode(d, n) PROVE RowTypes'
    BY <2>1 DEF ResolveNode
  <2>2. CASE ListCertsByNode(d)
    BY <2>2 DEF ListCertsByNode
  <2>3. CASE GetLeasesByNode(d)
    BY <2>3 DEF GetLeasesByNode
  <2>4. CASE ReadFails(d)
    BY <2>4 DEF ReadFails
  <2>5. CASE DeleteRow(d)
    BY <2>5 DEF DeleteRow
  <2>6. CASE DeleteRowFails(d)
    BY <2>6 DEF DeleteRowFails
  <2>7. ASSUME NEW s \in old[d], RevokeOne(d, s) PROVE RowTypes'
    BY <2>7 DEF RevokeOne, RevokeCerts
  <2>8. ASSUME NEW a \in held[d], ReleaseOne(d, a) PROVE RowTypes'
    BY <2>8 DEF ReleaseOne, ReleaseAddress
  <2>9. CASE IterationFails(d)
    BY <2>9 DEF IterationFails
  <2>10. CASE EndDelete(d)
    BY <2>10 DEF EndDelete
  <2> QED BY <1>2, <2>1, <2>2, <2>3, <2>4, <2>5, <2>6, <2>7, <2>8, <2>9, <2>10 DEF DeleteStep
<1>3. ASSUME NEW k \in Keys, RevokeKey(k) \/ Expire(k) PROVE RowTypes'
  BY <1>3 DEF RevokeKey, Expire
<1>4. CASE Restart
  BY <1>4 DEF Restart
<1>5. CASE UNCHANGED vars
  BY <1>5 DEF vars
<1> QED BY <1>1, <1>2, <1>3, <1>4, <1>5

-----------------------------------------------------------------------------
(* A request that has come to its certificate; it keeps its number.        *)
Issued(r) ==
  \/ r \in Enrolls /\ pc[r] \in {"create", "release", "uncert", "unconsume", "done", "failed"}
  \/ r \in Renews /\ pc[r] \in {"revoke", "done", "failed"}

(* A deletion of the node is under way or over.                            *)
Dooms(i) == \E d \in Deletes : pc[d] # "idle" /\ id[d] = i

(* A certificate is of the number of the request that issued it; it is in  *)
(* certs from issue to the next step at least, and it is revoked only when *)
(* its request has ended, or with its node.                                *)
CertOf(r) == [serial |-> r, node |-> id[r]]

CertRows ==
  /\ \A c \in certs : Issued(c.serial) /\ c.node = id[c.serial]
  /\ \A r \in Enrolls : pc[r] = "create" => CertOf(r) \in certs
  /\ \A r \in Renews : pc[r] = "revoke" => CertOf(r) \in certs

RevokedOnce ==
  /\ \A s \in crl : Issued(s) /\ (pc[s] = "done" \/ Dooms(id[s]))
  /\ \A r \in Renews : pc[r] \in {"issue", "revoke"} =>
       \E s \in Serials : old[r] = {s} /\ pc[s] = "done" /\ id[s] = id[r]
  /\ \A d \in Deletes : \A s \in old[d] : Issued(s) /\ id[s] = id[d] /\ pc[d] # "idle"

(* The certificate a node is left with is one no compensation removes.     *)
Lasting(c) == c.serial \in Renews \/ pc[c.serial] = "done"

CertLeft ==
  \A n \in nodes : ~Dooms(n.id) =>
    \E c \in certs : c.node = n.id /\ c.serial \notin crl /\ Lasting(c)

CertInv == CertRows /\ RevokedOnce /\ CertLeft

LEMMA EnrollKeepsCerts ==
  ASSUME RowTypes, CertInv, NEW r \in Enrolls, EnrollStep(r)
  PROVE  CertInv'
<1> USE EnrollAssumption DEF RowTypes, EnrollTypeOK, Labels, Requests, Serials, NodeRow, 
     CertRow, To, NoFault, Fault, Leak, keyVars, requestVars, tableVars, 
     CertInv, CertRows, RevokedOnce, CertLeft, Issued, Dooms, CertOf, Lasting
<1>1. ASSUME NEW k \in Keys, CheckKey(r, k) PROVE CertInv'
  BY <1>1 DEF CheckKey, Usable
<1>2. CASE Consume(r)
  BY <1>2 DEF Consume
<1>3. CASE Number(r)
  BY <1>3 DEF Number
<1>4. CASE Allocate(r)
  BY <1>4 DEF Allocate, CompensateKey
<1>5. CASE Issue(r)
  BY <1>5 DEF Issue, RecordCert
<1>6. CASE CreateNode(r)
  <2>1. CASE Conflict(r)
    BY <1>6, <2>1 DEF CreateNode
  <2>2. CASE ~Conflict(r)
    <3>1. /\ pc[r] = "create" /\ pc' = [pc EXCEPT ![r] = "done"]
          /\ nodes' = nodes \cup {[id |-> id[r], vip |-> ip[r]]}
          /\ UNCHANGED <<certs, crl, id, old>>
      BY <1>6, <2>2 DEF CreateNode
    <3>2. CertRows' /\ RevokedOnce'
      BY <3>1
    <3>3. CertOf(r) \in certs /\ ~Dooms(id[r]) => r \notin crl
      BY <3>1
    <3>4. \A i : Dooms(i)' <=> Dooms(i)
      BY <3>1
    <3>5. \A c \in certs : Lasting(c) => Lasting(c)'
      BY <3>1
    <3>6. CertLeft'
      <4> SUFFICES ASSUME NEW n \in nodes', ~Dooms(n.id)
                   PROVE  \E c \in certs : c.node = n.id /\ c.serial \notin crl /\ Lasting(c)'
        BY <3>1, <3>4
      <4>1. CASE n \in nodes
        BY <4>1, <3>5
      <4>2. CASE n = [id |-> id[r], vip |-> ip[r]]
        BY <4>2, <3>1, <3>3
      <4> QED BY <4>1, <4>2, <3>1
    <3> QED BY <3>2, <3>6
  <2> QED BY <2>1, <2>2
<1>7. CASE StepFails(r)
  BY <1>7 DEF StepFails, CompensateKey
<1>8. CASE Release(r)
  BY <1>8 DEF Release, ReleaseAddress, AfterRelease, CompensateKey
<1>9. CASE DeleteCert(r)
  BY <1>9 DEF DeleteCert, CompensateKey
<1>10. CASE Unconsume(r)
  BY <1>10 DEF Unconsume
<1>11. CASE CompensationFails(r)
  BY <1>11 DEF CompensationFails, AfterRelease, CompensateKey
<1> QED BY <1>1, <1>2, <1>3, <1>4, <1>5, <1>6, <1>7, <1>8, <1>9, <1>10, <1>11 DEF EnrollStep

LEMMA OthersKeepCerts ==
  ASSUME RowTypes, CertInv,
         \/ \E r \in Renews : RenewStep(r)
         \/ \E d \in Deletes : DeleteStep(d)
         \/ \E k \in Keys : RevokeKey(k) \/ Expire(k)
         \/ Restart \/ UNCHANGED vars
  PROVE  CertInv'
<1> USE EnrollAssumption DEF RowTypes, EnrollTypeOK, Labels, Requests, Serials, NodeRow, 
     CertRow, To, NoFault, Fault, Leak, keyVars, requestVars, tableVars, 
     CertInv, CertRows, RevokedOnce, CertLeft, Issued, Dooms, CertOf, Lasting
<1>1. ASSUME NEW r \in Renews, RenewStep(r) PROVE CertInv'
  <2>1. ASSUME NEW s \in Serials, CheckRenewal(r, s) PROVE CertInv'
    BY <2>1 DEF CheckRenewal
  <2>2. CASE IssueRenewal(r)
    BY <2>2 DEF IssueRenewal, RecordCert
  <2>3. CASE RevokeRenewed(r)
    <3>1. PICK s \in Serials : old[r] = {s} /\ pc[s] = "done" /\ id[s] = id[r] /\ s # r
      BY <2>3 DEF RevokeRenewed
    <3>2. /\ pc[r] = "revoke" /\ pc' = [pc EXCEPT ![r] = "done"]
          /\ crl' = crl \cup {x \in {s} : \E c \in certs : c.serial = x}
          /\ UNCHANGED <<nodes, certs, id, old>>
      BY <2>3, <3>1 DEF RevokeRenewed, RevokeCerts
    <3>3. crl \subseteq crl' /\ crl' \subseteq crl \cup {s}
      BY <3>2
    <3>4. CertRows'
      BY <3>2
    <3>5. RevokedOnce'
      BY <3>1, <3>2, <3>3
    <3>6. \A i : Dooms(i)' <=> Dooms(i)
      BY <3>2
    <3>7. CertLeft'
      <4> SUFFICES ASSUME NEW n \in nodes, ~Dooms(n.id)
                   PROVE  \E c \in certs : c.node = n.id /\ c.serial \notin crl' /\ Lasting(c)'
        BY <3>2, <3>6
      <4>1. PICK c \in certs : c.node = n.id /\ c.serial \notin crl /\ Lasting(c)
        OBVIOUS
      <4>2. CASE c.serial = s
        <5>1. CertOf(r) \in certs /\ r \notin crl /\ id[r] = n.id
          BY <3>1, <3>2, <4>1, <4>2
        <5> QED BY <5>1, <3>1, <3>3
      <4>3. CASE c.serial # s
        BY <4>1, <4>3, <3>2, <3>3
      <4> QED BY <4>2, <4>3
    <3> QED BY <3>4, <3>5, <3>7
  <2>4. CASE RenewalFails(r)
    BY <2>4 DEF RenewalFails
  <2> QED BY <1>1, <2>1, <2>2, <2>3, <2>4 DEF RenewStep
<1>2. ASSUME NEW d \in Deletes, DeleteStep(d) PROVE CertInv'
  <2>1. ASSUME NEW n \in nodes, ResolveNode(d, n) PROVE CertInv'
    BY <2>1 DEF ResolveNode
  <2>2. CASE ListCertsByNode(d)
    BY <2>2 DEF ListCertsByNode
  <2>3. CASE GetLeasesByNode(d)
    BY <2>3 DEF GetLeasesByNode
  <2>4. CASE ReadFails(d)
    BY <2>4 DEF ReadFails
  <2>5. CASE DeleteRow(d)
    BY <2>5 DEF DeleteRow
  <2>6. CASE DeleteRowFails(d)
    BY <2>6 DEF DeleteRowFails
  <2>7. ASSUME NEW s \in old[d], RevokeOne(d, s) PROVE CertInv'
    BY <2>7 DEF RevokeOne, RevokeCerts
  <2>8. ASSUME NEW a \in held[d], ReleaseOne(d, a) PROVE CertInv'
    BY <2>8 DEF ReleaseOne, ReleaseAddress
  <2>9. CASE IterationFails(d)
    BY <2>9 DEF IterationFails
  <2>10. CASE EndDelete(d)
    BY <2>10 DEF EndDelete
  <2> QED BY <1>2, <2>1, <2>2, <2>3, <2>4, <2>5, <2>6, <2>7, <2>8, <2>9, <2>10 DEF DeleteStep
<1>3. ASSUME NEW k \in Keys, RevokeKey(k) \/ Expire(k) PROVE CertInv'
  BY <1>3 DEF RevokeKey, Expire
<1>4. CASE Restart
  BY <1>4 DEF Restart
<1>5. CASE UNCHANGED vars
  BY <1>5 DEF vars
<1> QED BY <1>1, <1>2, <1>3, <1>4, <1>5

-----------------------------------------------------------------------------
(* While no deletion has begun, the address an enrollment holds is leased  *)
(* to it and is nobody else's.                                             *)
Holding(r) == pc[r] \in {"issue", "create", "release"}
LeaseOf(i, a) == [ip |-> a, node |-> i]

LeaseHeld ==
  /\ \A r \in Enrolls : Holding(r) =>
       /\ LeaseOf(id[r], ip[r]) \in leases
       /\ \A n \in nodes : n.vip # ip[r]
       /\ \A q \in Enrolls : Holding(q) /\ ip[q] = ip[r] => q = r
  /\ \A n \in nodes : LeaseOf(n.id, n.vip) \in leases

NoDeletion == \A d \in Deletes : pc[d] = "idle"

LeaseInv == NoDeletion => LeaseHeld

LEMMA EnrollKeepsLeases ==
  ASSUME RowTypes, LeaseInv, NEW r \in Enrolls, EnrollStep(r)
  PROVE  LeaseInv'
<1> USE EnrollAssumption DEF RowTypes, EnrollTypeOK, Labels, Requests, Serials, NodeRow, LeaseRow,
     To, NoFault, Fault, Leak, keyVars, requestVars, tableVars,
     LeaseInv, LeaseHeld, NoDeletion, Holding, LeaseOf
<1>1. ASSUME NEW k \in Keys, CheckKey(r, k) PROVE LeaseInv'
  BY <1>1 DEF CheckKey, Usable
<1>2. CASE Consume(r)
  BY <1>2 DEF Consume
<1>3. CASE Number(r)
  BY <1>3 DEF Number
<1>4. CASE Allocate(r)
  <2>1. CASE Free # {} /\ \A l \in leases : l.ip # Min(Free)
    <3> DEFINE a == Min(Free)
    <3>1. /\ pc[r] = "allocate" /\ pc' = [pc EXCEPT ![r] = "issue"]
          /\ leases' = leases \cup {LeaseOf(id[r], a)} /\ ip' = [ip EXCEPT ![r] = a]
          /\ UNCHANGED <<nodes, id>>
          /\ \A l \in leases : l.ip # a
      BY <1>4, <2>1 DEF Allocate
    <3> HIDE DEF a
    <3>2. ASSUME NoDeletion, NEW q \in Enrolls, Holding(q)'
          PROVE  /\ LeaseOf(id[q], ip'[q]) \in leases'
                 /\ \A n \in nodes : n.vip # ip'[q]
                 /\ \A p \in Enrolls : Holding(p)' /\ ip'[p] = ip'[q] => p = q
      <4>1. CASE q = r
        <5>1. ip'[q] = a /\ LeaseOf(id[r], a) \in leases'
          BY <3>1, <4>1
        <5>2. \A n \in nodes : n.vip # a
          <6> SUFFICES ASSUME NEW n \in nodes, n.vip = a PROVE FALSE
            OBVIOUS
          <6>1. LeaseOf(n.id, n.vip) \in leases /\ LeaseOf(n.id, n.vip).ip = a
            BY <3>2
          <6> QED BY <6>1, <3>1
        <5>3. \A p \in Enrolls : p # r /\ Holding(p) => ip[p] # a
          <6> SUFFICES ASSUME NEW p \in Enrolls, Holding(p), ip[p] = a PROVE FALSE
            OBVIOUS
          <6>1. LeaseOf(id[p], ip[p]) \in leases /\ LeaseOf(id[p], ip[p]).ip = a
            BY <3>2
          <6> QED BY <6>1, <3>1
        <5> QED BY <5>1, <5>2, <5>3, <3>1, <4>1
      <4>2. CASE q # r
        BY <3>1, <3>2, <4>2
      <4> QED BY <4>1, <4>2
    <3> QED BY <3>1, <3>2
  <2>2. CASE ~(Free # {} /\ \A l \in leases : l.ip # Min(Free))
    <3>1. PICK l \in {"unconsume", "failed"} :
            /\ pc' = [pc EXCEPT ![r] = l]
            /\ UNCHANGED <<leases, ip, nodes, id>>
      BY <1>4, <2>2 DEF Allocate, CompensateKey
    <3> QED BY <3>1
  <2> QED BY <2>1, <2>2
<1>5. CASE Issue(r)
  BY <1>5 DEF Issue, RecordCert
<1>6. CASE CreateNode(r)
  BY <1>6 DEF CreateNode, Conflict
<1>7. CASE StepFails(r)
  BY <1>7 DEF StepFails, CompensateKey
<1>8. CASE Release(r)
  <2>1. PICK l \in {"uncert", "unconsume", "failed"} :
          /\ pc[r] = "release" /\ pc' = [pc EXCEPT ![r] = l]
          /\ leases' = {m \in leases : m.ip # ip[r]}
          /\ UNCHANGED <<nodes, id, ip>>
    BY <1>8 DEF Release, ReleaseAddress, AfterRelease, CompensateKey
  <2> QED BY <2>1
<1>9. CASE DeleteCert(r)
  BY <1>9 DEF DeleteCert, CompensateKey
<1>10. CASE Unconsume(r)
  BY <1>10 DEF Unconsume
<1>11. CASE CompensationFails(r)
  BY <1>11 DEF CompensationFails, AfterRelease, CompensateKey
<1> QED BY <1>1, <1>2, <1>3, <1>4, <1>5, <1>6, <1>7, <1>8, <1>9, <1>10, <1>11 DEF EnrollStep

LEMMA OthersKeepLeases ==
  ASSUME RowTypes, LeaseInv,
         \/ \E r \in Renews : RenewStep(r)
         \/ \E d \in Deletes : DeleteStep(d)
         \/ \E k \in Keys : RevokeKey(k) \/ Expire(k)
         \/ Restart \/ UNCHANGED vars
  PROVE  LeaseInv'
<1> USE EnrollAssumption DEF RowTypes, EnrollTypeOK, Requests, Serials,
     To, NoFault, Fault, Leak, keyVars, requestVars, tableVars,
     LeaseInv, LeaseHeld, NoDeletion, Holding, LeaseOf
<1>1. ASSUME NEW r \in Renews, RenewStep(r) PROVE LeaseInv'
  BY <1>1 DEF RenewStep, CheckRenewal, IssueRenewal, RevokeRenewed, RenewalFails
<1>2. ASSUME NEW d \in Deletes, DeleteStep(d) PROVE LeaseInv'
  <2>1. pc'[d] # "idle"
    BY <1>2 DEF DeleteStep, ResolveNode, ListCertsByNode, GetLeasesByNode, ReadFails,
       DeleteRow, DeleteRowFails, RevokeOne, ReleaseOne, IterationFails, EndDelete
  <2> QED BY <2>1
<1>3. ASSUME NEW k \in Keys, RevokeKey(k) \/ Expire(k) PROVE LeaseInv'
  BY <1>3 DEF RevokeKey, Expire
<1>4. CASE Restart
  BY <1>4 DEF Restart
<1>5. CASE UNCHANGED vars
  BY <1>5 DEF vars
<1> QED BY <1>1, <1>2, <1>3, <1>4, <1>5

-----------------------------------------------------------------------------
(* While no compensation has failed and the controller has not stopped:    *)
(* what an enrollment that has failed has left, and why a lease is there.  *)
Clean ==
  /\ \A c \in certs : c.serial \in Enrolls => pc[c.serial] \in {"create", "release", "uncert", "done"}
  /\ \A k \in consumed \ revoked :
       \E r \in Enrolls : key[r] = k /\ pc[r] \notin {"idle", "consume", "failed"}

CleanInv == leaks = 0 => Clean

OneDeletion == \A d, e \in Deletes : pc[d] # "idle" /\ pc[e] # "idle" => d = e

OfRequest(l) == \E r \in Enrolls : HoldsAddress(r, l.ip) /\ id[r] = l.node
OfNode(l) == \E n \in nodes : n.vip = l.ip /\ n.id = l.node

LeaseWhy ==
  /\ \A l \in leases : OfNode(l) \/ OfRequest(l) \/ \E d \in Deletes : l.ip \in held[d]
  \* a deletion has seen the leases of its node, which is there until it removes it
  /\ \A d \in Deletes :
       /\ pc[d] \in {"idle", "listCerts", "listLeases"} => held[d] = {}
       /\ pc[d] \in {"listCerts", "listLeases", "deleteRow"} => \E n \in nodes : n.id = id[d]
       /\ pc[d] = "deleteRow" =>
            \A l \in leases : l.node = id[d] => l.ip \in held[d] \/ OfRequest(l)

WhyInv == leaks = 0 /\ OneDeletion => LeaseWhy

LEMMA EnrollKeepsClean ==
  ASSUME RowTypes, CleanInv, KeyInv, NEW r \in Enrolls, EnrollStep(r)
  PROVE  CleanInv'
<1> USE EnrollAssumption DEF RowTypes, EnrollTypeOK, Labels, Requests, Serials,
     To, NoFault, Fault, Leak, keyVars, requestVars, tableVars, CleanInv, Clean
<1>1. ASSUME NEW k \in Keys, CheckKey(r, k) PROVE CleanInv'
  BY <1>1 DEF CheckKey, Usable
<1>2. CASE Consume(r)
  BY <1>2 DEF Consume
<1>3. CASE Number(r)
  BY <1>3 DEF Number
<1>4. CASE Allocate(r)
  BY <1>4 DEF Allocate, CompensateKey
<1>5. CASE Issue(r)
  BY <1>5 DEF Issue, RecordCert
<1>6. CASE CreateNode(r)
  BY <1>6 DEF CreateNode, Conflict
<1>7. CASE StepFails(r)
  BY <1>7 DEF StepFails, CompensateKey
<1>8. CASE Release(r)
  BY <1>8 DEF Release, ReleaseAddress, AfterRelease, CompensateKey
<1>9. CASE DeleteCert(r)
  BY <1>9 DEF DeleteCert, CompensateKey
<1>10. CASE Unconsume(r)
  BY <1>10 DEF Unconsume
<1>11. CASE CompensationFails(r)
  BY <1>11 DEF CompensationFails
<1> QED BY <1>1, <1>2, <1>3, <1>4, <1>5, <1>6, <1>7, <1>8, <1>9, <1>10, <1>11 DEF EnrollStep

LEMMA EnrollKeepsWhy ==
  ASSUME RowTypes, WhyInv, NEW r \in Enrolls, EnrollStep(r)
  PROVE  WhyInv'
<1> USE EnrollAssumption DEF RowTypes, EnrollTypeOK, Labels, Requests, Serials, LeaseRow, NodeRow,
     To, NoFault, Fault, Leak, keyVars, requestVars, tableVars, WhyInv, LeaseWhy, OneDeletion,
     OfRequest, OfNode, HoldsAddress
<1>1. ASSUME NEW k \in Keys, CheckKey(r, k) PROVE WhyInv'
  BY <1>1 DEF CheckKey, Usable
<1>2. CASE Consume(r)
  BY <1>2 DEF Consume
<1>3. CASE Number(r)
  BY <1>3 DEF Number
<1>4. CASE Allocate(r)
  BY <1>4 DEF Allocate, CompensateKey
<1>5. CASE Issue(r)
  BY <1>5 DEF Issue, RecordCert
<1>6. CASE CreateNode(r)
  <2>1. CASE Conflict(r)
    BY <1>6, <2>1 DEF CreateNode
  <2>2. CASE ~Conflict(r)
    <3> SUFFICES ASSUME leaks = 0, OneDeletion PROVE LeaseWhy'
      BY <1>6 DEF CreateNode
    <3>1. /\ pc[r] = "create" /\ pc' = [pc EXCEPT ![r] = "done"]
          /\ nodes' = nodes \cup {[id |-> id[r], vip |-> ip[r]]}
          /\ UNCHANGED <<leases, id, ip, held>>
          /\ \A n \in nodes : n.id # id[r]
      BY <1>6, <2>2 DEF CreateNode, Conflict
    <3>2. \A l \in leases : OfNode(l) => OfNode(l)'
      BY <3>1
    <3>3. \A l \in leases : OfRequest(l) => OfRequest(l)' \/ (OfNode(l)' /\ l.node = id[r])
      <4> SUFFICES ASSUME NEW l \in leases, NEW q \in Enrolls, HoldsAddress(q, l.ip), id[q] = l.node
                   PROVE  OfRequest(l)' \/ (OfNode(l)' /\ l.node = id[r])
        OBVIOUS
      <4>1. CASE q = r
        <5>1. [id |-> id[r], vip |-> ip[r]] \in nodes'
          BY <3>1
        <5> QED BY <4>1, <5>1
      <4>2. CASE q # r
        BY <4>2, <3>1
      <4> QED BY <4>1, <4>2
    <3>4. \A l \in leases : OfNode(l)' \/ OfRequest(l)' \/ \E d \in Deletes : l.ip \in held[d]
      BY <3>2, <3>3
    <3>5. ASSUME NEW d \in Deletes, pc[d] = "deleteRow", NEW l \in leases, l.node = id[d]
          PROVE  l.ip \in held[d] \/ OfRequest(l)'
      <4>1. l.node # id[r]
        BY <3>1, <3>5
      <4> QED BY <3>3, <3>5, <4>1
    <3>6. ASSUME NEW d \in Deletes
          PROVE  /\ pc[d] \in {"idle", "listCerts", "listLeases"} => held[d] = {}
                 /\ pc[d] \in {"listCerts", "listLeases", "deleteRow"} => \E n \in nodes' : n.id = id[d]
      BY <3>1
    <3>7. \A d \in Deletes : pc'[d] = pc[d]
      BY <3>1
    <3> QED BY <3>1, <3>4, <3>5, <3>6, <3>7
  <2> QED BY <2>1, <2>2
<1>7. CASE StepFails(r)
  BY <1>7 DEF StepFails, CompensateKey
<1>8. CASE Release(r)
  BY <1>8 DEF Release, ReleaseAddress, AfterRelease, CompensateKey
<1>9. CASE DeleteCert(r)
  BY <1>9 DEF DeleteCert, CompensateKey
<1>10. CASE Unconsume(r)
  BY <1>10 DEF Unconsume
<1>11. CASE CompensationFails(r)
  BY <1>11 DEF CompensationFails
<1> QED BY <1>1, <1>2, <1>3, <1>4, <1>5, <1>6, <1>7, <1>8, <1>9, <1>10, <1>11 DEF EnrollStep

LEMMA OthersKeepClean ==
  ASSUME RowTypes, CleanInv, WhyInv, KeyInv,
         \/ \E r \in Renews : RenewStep(r)
         \/ \E d \in Deletes : DeleteStep(d)
         \/ \E k \in Keys : RevokeKey(k) \/ Expire(k)
         \/ Restart \/ UNCHANGED vars
  PROVE  CleanInv' /\ WhyInv'
<1> USE EnrollAssumption DEF RowTypes, EnrollTypeOK, Requests, Serials, LeaseRow, NodeRow,
     To, NoFault, Fault, Leak, keyVars, requestVars, tableVars, CleanInv, Clean, WhyInv, LeaseWhy,
     OneDeletion, OfRequest, OfNode, HoldsAddress
<1>1. ASSUME NEW r \in Renews, RenewStep(r) PROVE CleanInv' /\ WhyInv'
  <2>1. ASSUME NEW s \in Serials, CheckRenewal(r, s) PROVE CleanInv' /\ WhyInv'
    BY <2>1 DEF CheckRenewal
  <2>2. CASE IssueRenewal(r)
    BY <2>2 DEF IssueRenewal, RecordCert
  <2>3. CASE RevokeRenewed(r)
    BY <2>3 DEF RevokeRenewed, RevokeCerts
  <2>4. CASE RenewalFails(r)
    BY <2>4 DEF RenewalFails
  <2> QED BY <1>1, <2>1, <2>2, <2>3, <2>4 DEF RenewStep
<1>2. ASSUME NEW d \in Deletes, DeleteStep(d) PROVE CleanInv' /\ WhyInv'
  <2>1. ASSUME NEW n \in nodes, ResolveNode(d, n) PROVE CleanInv' /\ WhyInv'
    BY <2>1 DEF ResolveNode
  <2>2. CASE ListCertsByNode(d)
    BY <2>2 DEF ListCertsByNode
  <2>3. CASE GetLeasesByNode(d)
    BY <2>3 DEF GetLeasesByNode
  <2>4. CASE ReadFails(d)
    BY <2>4 DEF ReadFails
  <2>5. CASE DeleteRow(d)
    BY <2>5 DEF DeleteRow
  <2>6. CASE DeleteRowFails(d)
    BY <2>6 DEF DeleteRowFails
  <2>7. ASSUME NEW s \in old[d], RevokeOne(d, s) PROVE CleanInv' /\ WhyInv'
    BY <2>7 DEF RevokeOne, RevokeCerts
  <2>8. ASSUME NEW a \in held[d], ReleaseOne(d, a) PROVE CleanInv' /\ WhyInv'
    BY <2>8 DEF ReleaseOne, ReleaseAddress
  <2>9. CASE IterationFails(d)
    BY <2>9 DEF IterationFails
  <2>10. CASE EndDelete(d)
    BY <2>10 DEF EndDelete
  <2> QED BY <1>2, <2>1, <2>2, <2>3, <2>4, <2>5, <2>6, <2>7, <2>8, <2>9, <2>10 DEF DeleteStep
<1>3. ASSUME NEW k \in Keys, RevokeKey(k) \/ Expire(k) PROVE CleanInv' /\ WhyInv'
  BY <1>3 DEF RevokeKey, Expire
<1>4. CASE Restart
  BY <1>4 DEF Restart
<1>5. CASE UNCHANGED vars
  BY <1>5 DEF vars
<1> QED BY <1>1, <1>2, <1>3, <1>4, <1>5

-----------------------------------------------------------------------------
LEMMA TwoAreMore ==
  ASSUME NEW S, IsFiniteSet(S), Cardinality(S) <= 1, NEW x \in S, NEW y \in S
  PROVE  x = y
<1> SUFFICES ASSUME x # y PROVE FALSE
  OBVIOUS
<1>1. IsFiniteSet({x}) /\ Cardinality({x}) = 1
  BY FS_Singleton
<1>2. IsFiniteSet({x} \cup {y}) /\ Cardinality({x} \cup {y}) = 2
  <2>1. y \notin {x}
    OBVIOUS
  <2>2. IsFiniteSet({x} \cup {y}) /\ Cardinality({x} \cup {y}) = Cardinality({x}) + 1
    BY <1>1, <2>1, FS_AddElement
  <2> QED BY <1>1, <2>2
<1>3. Cardinality({x} \cup {y}) <= Cardinality(S)
  BY FS_Subset
<1> QED BY <1>2, <1>3, FS_CardinalityType

Begun == {d \in Deletes : pc[d] # "idle"}
EnrollInv == KeyInv /\ RowTypes /\ CertInv /\ LeaseInv /\ CleanInv /\ WhyInv /\ IsFiniteSet(Begun)

LEMMA EnrollInitInv == EnrollInit => EnrollInv
<1> SUFFICES ASSUME EnrollInit PROVE EnrollInv
  OBVIOUS
<1>1. KeyInv
  BY KeyInit
<1>2. RowTypes
  BY EnrollAssumption DEF EnrollInit, RowTypes, EnrollTypeOK, Requests, Serials, Labels
<1>3. CertInv
  BY EnrollAssumption DEF EnrollInit, CertInv, CertRows, RevokedOnce, CertLeft, Requests, Serials
<1>4. LeaseInv /\ CleanInv /\ WhyInv
  BY EnrollAssumption
     DEF EnrollInit, LeaseInv, LeaseHeld, Holding, CleanInv, Clean, WhyInv, LeaseWhy, Requests, Serials
<1>5. Begun = {}
  BY EnrollAssumption DEF EnrollInit, Begun, Requests
<1> QED BY <1>1, <1>2, <1>3, <1>4, <1>5, FS_EmptySet DEF EnrollInv

LEMMA BegunStaysFinite ==
  ASSUME RowTypes, IsFiniteSet(Begun), [EnrollNext]_vars
  PROVE  IsFiniteSet(Begun)'
<1> USE EnrollAssumption DEF RowTypes, EnrollTypeOK, Begun, Requests, Serials, To
<1>1. ASSUME NEW x, Begun' \subseteq Begun \cup {x} PROVE IsFiniteSet(Begun)'
  <2> HIDE DEF Begun
  <2> QED BY <1>1, FS_AddElement, FS_Subset
<1>2. ASSUME NEW r \in Enrolls, EnrollStep(r) PROVE Begun' = Begun
  <2>1. PICK l \in Labels : pc' = [pc EXCEPT ![r] = l]
    BY <1>2 DEF EnrollStep, CheckKey, Consume, Number, Allocate, Issue, CreateNode, StepFails,
       Release, DeleteCert, Unconsume, CompensationFails, CompensateKey, AfterRelease, Labels
  <2> QED BY <2>1
<1>3. ASSUME NEW r \in Renews, RenewStep(r) PROVE Begun' = Begun
  <2>1. PICK l \in Labels : pc' = [pc EXCEPT ![r] = l]
    BY <1>3 DEF RenewStep, CheckRenewal, IssueRenewal, RevokeRenewed, RenewalFails, Labels
  <2> QED BY <2>1
<1>4. ASSUME NEW d \in Deletes, DeleteStep(d) PROVE Begun' \subseteq Begun \cup {d}
  BY <1>4 DEF DeleteStep, ResolveNode, ListCertsByNode, GetLeasesByNode, ReadFails,
     DeleteRow, DeleteRowFails, RevokeOne, ReleaseOne, IterationFails, EndDelete
<1>5. CASE \/ \E k \in Keys : RevokeKey(k) \/ Expire(k)
           \/ Restart \/ UNCHANGED vars
  <2>1. Begun' = Begun
    BY <1>5 DEF RevokeKey, Expire, Restart, vars
  <2> QED BY <2>1
<1>6. Begun' = Begun => Begun' \subseteq Begun \cup {Begun}
  OBVIOUS
<1> QED BY <1>1, <1>2, <1>3, <1>4, <1>5, <1>6 DEF EnrollNext

LEMMA EnrollInvStep == EnrollInv /\ [EnrollNext]_vars => EnrollInv'
<1> SUFFICES ASSUME EnrollInv, [EnrollNext]_vars PROVE EnrollInv'
  OBVIOUS
<1> USE DEF EnrollInv
<1>1. IsFiniteSet(Begun)'
  BY BegunStaysFinite
<1>2. KeyInv'
  BY KeyInvStep
<1>3. ASSUME NEW r \in Enrolls, EnrollStep(r)
      PROVE  RowTypes' /\ CertInv' /\ LeaseInv' /\ CleanInv' /\ WhyInv'
  BY <1>3, EnrollKeepsRows, EnrollKeepsCerts, EnrollKeepsLeases, EnrollKeepsClean, EnrollKeepsWhy
<1>4. CASE \/ \E r \in Renews : RenewStep(r)
           \/ \E d \in Deletes : DeleteStep(d)
           \/ \E k \in Keys : RevokeKey(k) \/ Expire(k)
           \/ Restart \/ UNCHANGED vars
  <2>1. RowTypes' /\ CertInv' /\ LeaseInv' /\ CleanInv' /\ WhyInv'
    BY <1>4, OthersKeepRows, OthersKeepCerts, OthersKeepLeases, OthersKeepClean
  <2> QED BY <1>1, <1>2, <2>1
<1> QED BY <1>1, <1>2, <1>3, <1>4 DEF EnrollNext

LEMMA EnrollInvWhole ==
  ASSUME EnrollInv
  PROVE  EnrollTypeOK /\ FailedEnrollLeavesNothing /\ NodeHoldsLease /\ NodeKeepsCert
<1> USE DEF EnrollInv
<1>1. NodeHoldsLease
  BY DEF LeaseInv, LeaseHeld, NoDeletion, LeaseOf, NodeHoldsLease
<1>2. NodeKeepsCert
  BY DEF CertInv, CertLeft, Dooms, NodeKeepsCert
<1>3. FailedEnrollLeavesNothing
  <2> SUFFICES ASSUME leaks = 0, Cardinality(Begun) <= 1
               PROVE  /\ \A c \in certs : c.serial \in Enrolls => pc[c.serial] # "failed"
                      /\ \A k \in consumed \ revoked :
                           \E r \in Enrolls : key[r] = k /\ pc[r] \notin {"idle", "consume", "failed"}
                      /\ \A l \in leases :
                           \/ \E n \in nodes : n.vip = l.ip
                           \/ \E r \in Enrolls : HoldsAddress(r, l.ip)
                           \/ \E d \in Deletes : l.ip \in held[d]
    BY DEF FailedEnrollLeavesNothing, Begun
  <2>1. OneDeletion
    BY TwoAreMore DEF OneDeletion, Begun
  <2> QED BY <2>1 DEF CleanInv, Clean, WhyInv, LeaseWhy, OfRequest, OfNode
<1> QED BY <1>1, <1>2, <1>3 DEF RowTypes

(* After every step of Enroll, Renew and DeleteNode, whatever failed and   *)
(* wherever the controller was stopped: nothing is left of an enrollment   *)
(* that failed, the address of a node is leased to it, and it holds a      *)
(* certificate that is not revoked.                                        *)
THEOREM EnrollmentWhole ==
  EnrollSpec => [](EnrollTypeOK /\ FailedEnrollLeavesNothing /\ NodeHoldsLease /\ NodeKeepsCert)
BY EnrollInitInv, EnrollInvStep, EnrollInvWhole, PTL DEF EnrollSpec

-----------------------------------------------------------------------------
(***************************************************************************)
(* The tables a configuration is built from (admin, configsvc, acl).       *)
(***************************************************************************)
(* Every table has its name, and an answer has read tables of those names. *)
TableNames == {"nodes", "document", "relays", "aliases", "routes", "dns", "rows", "relayOf", "split"}

IsSnapshot(s) == DOMAIN s = TableNames

LEMMA TableOrderFacts ==
  /\ Len(TableOrder) = 9 /\ Tables = 1..9
  /\ \A i \in 1..9 : TableOrder[i] \in TableNames
  /\ {TableOrder[i] : i \in Tables} = TableNames
<1>1. Len(TableOrder) = 9 /\ Tables = 1..9
  BY DEF TableOrder, Tables
<1>2. /\ TableOrder[1] = "nodes" /\ TableOrder[2] = "document" /\ TableOrder[3] = "relays"
      /\ TableOrder[4] = "aliases" /\ TableOrder[5] = "routes" /\ TableOrder[6] = "dns"
      /\ TableOrder[7] = "rows" /\ TableOrder[8] = "relayOf" /\ TableOrder[9] = "split"
  BY DEF TableOrder
<1>3. \A i \in 1..9 : i \in {1, 2, 3, 4, 5, 6, 7, 8, 9}
  OBVIOUS
<1> QED BY <1>1, <1>2, <1>3 DEF TableNames

(* The types of what the requests leave.                                   *)
PolicyTypes ==
  /\ PolicyTypeOK
  /\ IsSnapshot(db) /\ DOMAIN db.relayOf = Host
  /\ DOMAIN subject = Request /\ DOMAIN served = Host /\ DOMAIN got = Host
  /\ \A n \in Host : IsSnapshot(got[n])
  /\ \A r \in Request : step[r] \in {"delete", "register", "upsert", "winners"} => subject[r] \in Host
  /\ \A n \in Host : fetch[n] # 0 => n \in db.nodes

LEMMA PolicyInitTypes == PolicyInit => PolicyTypes
<1> SUFFICES ASSUME PolicyInit PROVE PolicyTypes
  OBVIOUS
<1>1. IsSnapshot(db)
  BY PolicyAssumption, TableOrderFacts DEF PolicyInit, IsSnapshot
<1>2. IsSnapshot(NoTables)
  BY DEF IsSnapshot, NoTables, TableNames
<1>3. /\ db.nodes \subseteq Host /\ db.relays \subseteq Host /\ DOMAIN db.relayOf = Host
      /\ db.document \in Documents \cup {NoDocument}
  BY PolicyAssumption DEF PolicyInit
<1>4. PolicyTypeOK
  BY <1>3, TableOrderFacts DEF PolicyInit, PolicyTypeOK, Steps
<1>5. /\ DOMAIN subject = Request /\ DOMAIN served = Host /\ DOMAIN got = Host
      /\ \A n \in Host : got[n] = NoTables /\ fetch[n] = 0
      /\ \A r \in Request : step[r] = "idle"
  BY DEF PolicyInit
<1> QED BY <1>1, <1>2, <1>3, <1>4, <1>5 DEF PolicyTypes

LEMMA RequestKeepsTypes ==
  ASSUME PolicyTypes, NEW r \in Request,
         AdminRequest(r) \/ OtherRequest(r) \/ RequestStep(r) \/ ListNodesFails(r)
  PROVE  PolicyTypes'
<1> USE PolicyAssumption, TableOrderFacts
    DEF PolicyTypes, PolicyTypeOK, Steps, IsSnapshot, TableNames, Arrives, Goes, Write, Mishap,
        Leaves, aboutVars, fetchVars
<1>1. ASSUME NEW t \in TableNames \ {"nodes", "relays", "relayOf"}, NEW x, Stores(r, t, x),
             t = "document" => x \in Documents
      PROVE  PolicyTypes'
  BY <1>1 DEF Stores
<1>2. CASE AdminRequest(r)
  <2>1. CASE handleDeleteNode(r)
    BY <2>1 DEF handleDeleteNode
  <2>2. CASE ~handleDeleteNode(r)
    <3>1. \/ \E doc \in Documents : Stores(r, "document", doc)
          \/ \E t \in {"aliases", "routes", "dns", "split"} : \E x : Stores(r, t, x)
      <4> HIDE DEF Goes, Write, PolicyTypes, PolicyTypeOK, IsSnapshot
      <4> QED BY <1>2, <2>2 DEF AdminRequest, handlePutACL, handleCreateRoute, handlePatchRoute, handleDeleteRoute,
        handleCreateAlias, handleDeleteAlias, handlePutDNS, handleCreateSplitRule, handleDeleteSplitRule,
        handleReorderSplitRule
    <3>2. ASSUME NEW doc \in Documents, Stores(r, "document", doc) PROVE PolicyTypes'
      BY <1>1, <3>2
    <3>3. ASSUME NEW t \in {"aliases", "routes", "dns", "split"}, NEW x, Stores(r, t, x)
          PROVE  PolicyTypes'
      BY <1>1, <3>3
    <3> QED BY <3>1, <3>2, <3>3
  <2> QED BY <2>1, <2>2
<1>3. CASE OtherRequest(r)
  <2>1. CASE Enrolled(r)
    BY <2>1 DEF Enrolled
  <2>2. CASE handleACLSet(r)
    BY <2>2 DEF handleACLSet
  <2>3. CASE handleNodesDelete(r)
    BY <2>3 DEF handleNodesDelete, Deleted, NoTables
  <2>4. CASE ReportNodeLocation(r)
    BY <2>4 DEF ReportNodeLocation
  <2>5. CASE DiscoveryReport(r)
    BY <2>5 DEF DiscoveryReport
  <2> QED BY <1>3, <2>1, <2>2, <2>3, <2>4, <2>5 DEF OtherRequest, adminNode
<1>4. CASE RequestStep(r) \/ ListNodesFails(r)
  <2>1. CASE ListNodes(r) \/ ListNodesFails(r)
    BY <2>1 DEF ListNodes, ListNodesFails
  <2>2. CASE RemoveNode(r)
    BY <2>2 DEF RemoveNode, Deleted, NoTables
  <2>3. CASE RecomputeAndNotify(r)
    BY <2>3 DEF RecomputeAndNotify
  <2>4. CASE Register(r)
    BY <2>4 DEF Register
  <2>5. CASE ListRelays(r)
    BY <2>5 DEF ListRelays
  <2>6. CASE ListMappings(r)
    BY <2>6 DEF ListMappings
  <2>7. CASE SetWinner(r)
    BY <2>7 DEF SetWinner
  <2>8. CASE UpsertDiscoveredMapping(r)
    BY <2>8 DEF UpsertDiscoveredMapping
  <2> QED BY <1>4, <2>1, <2>2, <2>3, <2>4, <2>5, <2>6, <2>7, <2>8 DEF RequestStep
<1> QED BY <1>2, <1>3, <1>4

LEMMA FetchKeepsTypes ==
  ASSUME PolicyTypes,
         \/ \E n \in Host : FetchStep(n) \/ ReadErrorDropped(n)
         \/ GoesStale
         \/ UNCHANGED policyVars
  PROVE  PolicyTypes'
<1> USE TableOrderFacts
    DEF PolicyTypes, PolicyTypeOK, IsSnapshot, TableNames, Write, Mishap, Leaves, aboutVars, fetchVars
<1>1. ASSUME NEW n \in Host, BeginFetch(n) PROVE PolicyTypes'
  BY <1>1 DEF BeginFetch
<1>2. ASSUME NEW n \in Host, ReadTable(n) PROVE PolicyTypes'
  BY <1>2 DEF ReadTable
<1>3. ASSUME NEW n \in Host, ReadErrorDropped(n) PROVE PolicyTypes'
  BY <1>3 DEF ReadErrorDropped
<1>4. ASSUME NEW n \in Host, Answer(n) PROVE PolicyTypes'
  BY <1>4 DEF Answer, NoTables
<1>5. CASE GoesStale
  BY <1>5 DEF GoesStale
<1>6. CASE UNCHANGED policyVars
  BY <1>6 DEF policyVars
<1> QED BY <1>1, <1>2, <1>3, <1>4, <1>5, <1>6 DEF FetchStep

-----------------------------------------------------------------------------
(* The configuration of a host is the same from two snapshots that differ  *)
(* at most in the relay the host itself is attached to: it is not a peer   *)
(* of its own.                                                             *)
AlikeFor(s, t, n) ==
  /\ \A f \in TableNames \ {"relayOf"} : s[f] = t[f]
  /\ \A h \in Host \ {n} : s.relayOf[h] = t.relayOf[h]

LEMMA PublishedCongruence ==
  ASSUME NEW s, NEW t, s.routes = t.routes, s.rows = t.rows, NEW x
  PROVE  /\ Enabled(s) = Enabled(t)
         /\ Winners(s, x) = Winners(t, x)
         /\ PublishedBy(s, x) = PublishedBy(t, x)
         /\ Published(s, x) = Published(t, x)
<1>1. Enabled(s) = Enabled(t)
  BY DEF Enabled
<1>2. \A y : Winners(s, y) = Winners(t, y)
  BY DEF Winners
<1>3. \A y : PublishedBy(s, y) = PublishedBy(t, y)
  BY <1>2 DEF PublishedBy
<1>4. Published(s, x) = Published(t, x)
  BY <1>1, <1>3 DEF Published
<1> QED BY <1>1, <1>2, <1>3, <1>4

LEMMA DocumentsAside ==
  ASSUME NEW s, NEW t, NEW n,
         \A f \in {"routes", "rows", "aliases", "dns", "split"} : s[f] = t[f]
  PROVE  /\ Prefixes(s) = Prefixes(t) /\ Egress(s, n) = Egress(t, n)
         /\ DiscoveryConfigs(s, n) = DiscoveryConfigs(t, n)
         /\ DnsConfig(s) = DnsConfig(t) /\ SplitPolicy(s, n) = SplitPolicy(t, n)
<1>1. s.routes = t.routes /\ s.rows = t.rows /\ s.aliases = t.aliases /\ s.dns = t.dns /\ s.split = t.split
  OBVIOUS
<1>2. \A x : /\ Enabled(s) = Enabled(t) /\ Winners(s, x) = Winners(t, x)
             /\ PublishedBy(s, x) = PublishedBy(t, x)
  BY <1>1, PublishedCongruence
<1>3. Prefixes(s) = Prefixes(t)
  BY <1>2 DEF Prefixes
<1>4. Egress(s, n) = Egress(t, n)
  BY <1>2 DEF Egress
<1>5. DiscoveryConfigs(s, n) = DiscoveryConfigs(t, n)
  BY <1>2 DEF DiscoveryConfigs
<1>6. DnsConfig(s) = DnsConfig(t)
  BY <1>1 DEF DnsConfig
<1>7. RulesFor(s, n) = RulesFor(t, n)
  BY <1>1 DEF RulesFor
<1>8. SplitPolicy(s, n) = SplitPolicy(t, n)
  BY <1>7 DEF SplitPolicy
<1> QED BY <1>3, <1>4, <1>5, <1>6, <1>8

LEMMA ConfigOfAlike ==
  ASSUME NEW s, NEW t, NEW n \in Host, AlikeFor(s, t, n), s.nodes \subseteq Host
  PROVE  ConfigOf(s, n) = ConfigOf(t, n)
<1>1. /\ s.nodes = t.nodes /\ s.document = t.document /\ s.relays = t.relays
      /\ s.routes = t.routes /\ s.rows = t.rows
  BY DEF AlikeFor, TableNames
<1>2. \A f \in {"routes", "rows", "aliases", "dns", "split"} : s[f] = t[f]
  BY DEF AlikeFor, TableNames
<1>3. \A ps : buildPeers(s, ps) = buildPeers(t, ps)
  BY <1>1, PublishedCongruence DEF buildPeers
<1>4. ASSUME NEW ps \in SUBSET (Host \ {n}) PROVE buildRoutes(s, ps) = buildRoutes(t, ps)
  BY <1>1 DEF buildRoutes, AlikeFor
<1>5. buildRelayEndpoints(s) = buildRelayEndpoints(t)
  BY <1>1 DEF buildRelayEndpoints
<1>6. (IF n \in s.nodes THEN Peers(s.document, s.nodes, n) ELSE {}) \in SUBSET (Host \ {n})
  BY DEF Peers
<1>7. Generate(s, n) = Generate(t, n)
  BY <1>1, <1>3, <1>4, <1>5, <1>6 DEF Generate
<1> QED BY <1>2, <1>7, DocumentsAside DEF ConfigOf

-----------------------------------------------------------------------------
(* A host nothing is going to tell of a change: what it was served, or the *)
(* tables its answer has read so far, are those of the controller now.     *)
Behind(n) == n \in dirty \cup silent \/ \E r \in Request : WillNotify(r, n)

ReadAlike(f, n) ==
  IF f = "relayOf" THEN \A h \in Host \ {n} : got[n].relayOf[h] = db.relayOf[h]
  ELSE got[n][f] = db[f]

UpToDate(n) ==
  /\ fetch[n] = 0 => served[n] = ConfigOf(db, n)
  /\ \A i \in 1..9 : i < fetch[n] => ReadAlike(TableOrder[i], n)

FetchInv == \A n \in db.nodes : Behind(n) \/ UpToDate(n)

\* What a step does to a host that is not behind after it.
Unaffected(n) ==
  /\ n \in db.nodes /\ ~Behind(n) /\ AlikeFor(db, db', n)
  /\ fetch'[n] = fetch[n] /\ got'[n] = got[n] /\ served'[n] = served[n]

LEMMA UnaffectedIsUpToDate ==
  ASSUME PolicyTypes, FetchInv, NEW n \in Host, Unaffected(n)
  PROVE  UpToDate(n)'
<1>1. UpToDate(n)
  BY DEF FetchInv, Unaffected
<1>2. ConfigOf(db, n) = ConfigOf(db', n)
  BY ConfigOfAlike DEF Unaffected, PolicyTypes, PolicyTypeOK
<1>3. (served[n] = ConfigOf(db, n))' <=> served'[n] = ConfigOf(db', n)
  OBVIOUS
<1>4. ASSUME NEW f \in TableNames, ReadAlike(f, n) PROVE ReadAlike(f, n)'
  BY <1>4 DEF Unaffected, AlikeFor, ReadAlike
<1> QED BY <1>1, <1>2, <1>4, TableOrderFacts DEF UpToDate, Unaffected

LEMMA RequestLeavesUnaffected ==
  ASSUME PolicyTypes, NEW r \in Request, NEW n \in db'.nodes, ~Behind(n)',
         AdminRequest(r) \/ OtherRequest(r) \/ RequestStep(r) \/ ListNodesFails(r)
  PROVE  Unaffected(n)
<1> USE TableOrderFacts
    DEF PolicyTypes, PolicyTypeOK, Steps, IsSnapshot, TableNames, Arrives, Goes, Write, Mishap,
        Leaves, aboutVars, fetchVars, Behind, WillNotify, Unaffected, AlikeFor
<1>1. CASE AdminRequest(r)
  <2>1. CASE handleDeleteNode(r)
    BY <2>1 DEF handleDeleteNode
  <2>2. CASE ~handleDeleteNode(r)
    <3>1. step' = [step EXCEPT ![r] = "list"]
      BY <1>1, <2>2 DEF AdminRequest, handlePutACL, handleCreateRoute, handlePatchRoute, handleDeleteRoute,
        handleCreateAlias, handleDeleteAlias, handlePutDNS, handleCreateSplitRule, handleDeleteSplitRule,
        handleReorderSplitRule, Stores
    <3> QED BY <3>1
  <2> QED BY <2>1, <2>2
<1>2. CASE OtherRequest(r)
  <2>1. CASE Enrolled(r)
    BY <2>1 DEF Enrolled
  <2>2. CASE handleACLSet(r)
    BY <2>2 DEF handleACLSet
  <2>3. CASE handleNodesDelete(r)
    BY <2>3 DEF handleNodesDelete, Deleted, NoTables
  <2>4. CASE ReportNodeLocation(r)
    BY <2>4 DEF ReportNodeLocation
  <2>5. CASE DiscoveryReport(r)
    BY <2>5 DEF DiscoveryReport
  <2> QED BY <1>2, <2>1, <2>2, <2>3, <2>4, <2>5 DEF OtherRequest, adminNode
<1>3. CASE RequestStep(r) \/ ListNodesFails(r)
  <2>1. CASE ListNodes(r) \/ ListNodesFails(r)
    BY <2>1 DEF ListNodes, ListNodesFails
  <2>2. CASE RemoveNode(r)
    BY <2>2 DEF RemoveNode, Deleted, NoTables
  <2>3. CASE RecomputeAndNotify(r)
    BY <2>3 DEF RecomputeAndNotify
  <2>4. CASE Register(r)
    <3>1. CASE subject[r] \in db.relays
      <4>1. db.relays \cup {subject[r]} = db.relays
        BY <3>1
      <4> QED BY <2>4, <3>1, <4>1 DEF Register
    <3>2. CASE subject[r] \notin db.relays
      BY <2>4, <3>2 DEF Register
    <3> QED BY <3>1, <3>2
  <2>5. CASE ListRelays(r)
    BY <2>5 DEF ListRelays
  <2>6. CASE ListMappings(r)
    BY <2>6 DEF ListMappings
  <2>7. CASE SetWinner(r)
    BY <2>7 DEF SetWinner
  <2>8. CASE UpsertDiscoveredMapping(r)
    BY <2>8 DEF UpsertDiscoveredMapping
  <2> QED BY <1>3, <2>1, <2>2, <2>3, <2>4, <2>5, <2>6, <2>7, <2>8 DEF RequestStep
<1> QED BY <1>1, <1>2, <1>3

LEMMA FetchKeepsUp ==
  ASSUME PolicyTypes, FetchInv, NEW n \in db'.nodes, ~Behind(n)',
         \/ \E m \in Host : FetchStep(m) \/ ReadErrorDropped(m)
         \/ GoesStale
         \/ UNCHANGED policyVars
  PROVE  UpToDate(n)'
<1> USE TableOrderFacts
    DEF PolicyTypes, PolicyTypeOK, IsSnapshot, TableNames, Write, Mishap, Leaves, aboutVars, fetchVars,
        Behind, WillNotify, Unaffected, AlikeFor
<1>1. ASSUME NEW m \in Host, BeginFetch(m) PROVE UpToDate(n)'
  <2>1. CASE n = m
    BY <1>1, <2>1 DEF BeginFetch, UpToDate
  <2>2. CASE n # m
    BY <1>1, <2>2, UnaffectedIsUpToDate DEF BeginFetch
  <2> QED BY <2>1, <2>2
<1>2. ASSUME NEW m \in Host, ReadTable(m) PROVE UpToDate(n)'
  <2>1. CASE n = m
    BY <1>2, <2>1 DEF ReadTable, UpToDate, ReadAlike, FetchInv
  <2>2. CASE n # m
    BY <1>2, <2>2, UnaffectedIsUpToDate DEF ReadTable
  <2> QED BY <2>1, <2>2
<1>3. ASSUME NEW m \in Host, ReadErrorDropped(m) PROVE UpToDate(n)'
  BY <1>3, UnaffectedIsUpToDate DEF ReadErrorDropped
<1>4. ASSUME NEW m \in Host, Answer(m) PROVE UpToDate(n)'
  <2>1. CASE n = m
    <3>1. UpToDate(n) /\ fetch[n] = 10
      BY <1>4, <2>1 DEF Answer, FetchInv
    <3>2. AlikeFor(got[n], db, n)
      <4>1. \A f \in TableNames : ReadAlike(f, n)
        <5> TAKE f \in TableNames
        <5>1. PICK i \in 1..9 : TableOrder[i] = f
          <6> HIDE DEF TableNames
          <6> QED BY TableOrderFacts
        <5> QED BY <3>1, <5>1 DEF UpToDate
      <4> QED BY <4>1 DEF ReadAlike
    <3>3. ConfigOf(got[n], n) = ConfigOf(db, n)
      BY <3>2, <1>4, <2>1, ConfigOfAlike DEF Answer
    <3> QED BY <1>4, <2>1, <3>3 DEF Answer, UpToDate
  <2>2. CASE n # m
    BY <1>4, <2>2, UnaffectedIsUpToDate DEF Answer
  <2> QED BY <2>1, <2>2
<1>5. CASE GoesStale
  BY <1>5 DEF GoesStale
<1>6. CASE UNCHANGED policyVars
  BY <1>6, UnaffectedIsUpToDate DEF policyVars
<1> QED BY <1>1, <1>2, <1>3, <1>4, <1>5, <1>6 DEF FetchStep

PolicyInv == PolicyTypes /\ FetchInv

LEMMA PolicyInitInv == PolicyInit => PolicyInv
<1> SUFFICES ASSUME PolicyInit PROVE PolicyInv
  OBVIOUS
<1>1. PolicyTypes
  BY PolicyInitTypes
<1>2. ASSUME NEW n \in db.nodes PROVE UpToDate(n)
  <2>1. n \in Host
    BY <1>1 DEF PolicyTypes, PolicyTypeOK
  <2> QED BY <2>1 DEF PolicyInit, UpToDate
<1> QED BY <1>1, <1>2 DEF PolicyInv, FetchInv

LEMMA PolicyInvStep == PolicyInv /\ [PolicyNext]_policyVars => PolicyInv'
<1> SUFFICES ASSUME PolicyInv, [PolicyNext]_policyVars PROVE PolicyInv'
  OBVIOUS
<1> USE DEF PolicyInv
<1>1. PolicyTypes'
  BY RequestKeepsTypes, FetchKeepsTypes DEF PolicyNext
<1>2. ASSUME NEW n \in db'.nodes, ~Behind(n)' PROVE UpToDate(n)'
  <2>1. n \in Host
    BY <1>1 DEF PolicyTypes, PolicyTypeOK
  <2>2. ASSUME NEW r \in Request,
               AdminRequest(r) \/ OtherRequest(r) \/ RequestStep(r) \/ ListNodesFails(r)
        PROVE  UpToDate(n)'
    BY <1>2, <2>1, <2>2, RequestLeavesUnaffected, UnaffectedIsUpToDate
  <2> QED BY <1>2, <2>2, FetchKeepsUp DEF PolicyNext
<1> QED BY <1>1, <1>2 DEF FetchInv

-----------------------------------------------------------------------------
LEMMA RestingIsServed == PolicyInv => NobodyLeftBehind
  BY DEF PolicyInv, FetchInv, NobodyLeftBehind, Resting, Behind, UpToDate

(* The two directions of a rule are one edge seen from its two ends.       *)
LEMMA PeersAreMutual ==
  ASSUME NEW doc, NEW hosts, NEW m \in hosts, NEW n \in hosts
  PROVE  m \in Peers(doc, hosts, n) <=> n \in Peers(doc, hosts, m)
  BY DEF Peers

LEMMA RestingArePeers == PolicyInv => PeersMutual
<1> SUFFICES ASSUME PolicyInv, NEW m \in db.nodes, NEW n \in db.nodes, Resting(m), Resting(n)
             PROVE  m \in DOMAIN served[n].access.peers <=> n \in DOMAIN served[m].access.peers
  BY DEF PeersMutual
<1>1. \A h \in db.nodes : DOMAIN ConfigOf(db, h).access.peers = Peers(db.document, db.nodes, h)
  BY DEF ConfigOf, Generate, buildPeers
<1>2. served[m] = ConfigOf(db, m) /\ served[n] = ConfigOf(db, n)
  BY RestingIsServed DEF NobodyLeftBehind
<1> QED BY <1>1, <1>2, PeersAreMutual

-----------------------------------------------------------------------------
(* What a document decides of a host's configuration: its peers, and those *)
(* it is given a way to.                                                   *)
Ways(doc, hosts, n) == IF OpenMesh(doc) THEN {} ELSE Peers(doc, hosts, n)

SameAccess(d, e, hosts, n) ==
  Peers(d, hosts, n) = Peers(e, hosts, n) /\ Ways(d, hosts, n) = Ways(e, hosts, n)

LEMMA AccessOfDocument ==
  ASSUME NEW s, NEW t, NEW n \in s.nodes,
         \A f \in {"nodes", "relays", "routes", "rows", "relayOf"} : s[f] = t[f]
  PROVE  Generate(s, n) = Generate(t, n) <=> SameAccess(s.document, t.document, s.nodes, n)
<1>1. /\ s.nodes = t.nodes /\ s.relays = t.relays /\ s.routes = t.routes /\ s.rows = t.rows
      /\ s.relayOf = t.relayOf
  OBVIOUS
<1> DEFINE ps == Peers(s.document, s.nodes, n)
           pt == Peers(t.document, t.nodes, n)
<1>2. \A q : buildPeers(s, q) = buildPeers(t, q)
  BY <1>1, PublishedCongruence DEF buildPeers
<1>3. \A q : DOMAIN buildPeers(s, q) = q /\ DOMAIN buildPeers(t, q) = q
  BY DEF buildPeers
<1>4. /\ DOMAIN buildRoutes(s, ps) = Ways(s.document, s.nodes, n)
      /\ DOMAIN buildRoutes(t, pt) = Ways(t.document, t.nodes, n)
  BY DEF buildRoutes, Ways
<1>5. ASSUME SameAccess(s.document, t.document, s.nodes, n)
      PROVE  buildRoutes(s, ps) = buildRoutes(t, pt)
  <2>1. ps = pt
    BY <1>1, <1>5 DEF SameAccess
  <2>2. CASE OpenMesh(s.document) <=> OpenMesh(t.document)
    BY <1>1, <2>1, <2>2 DEF buildRoutes
  <2>3. CASE ~(OpenMesh(s.document) <=> OpenMesh(t.document))
    <3>1. ps = {}
      BY <1>1, <1>5, <2>3 DEF SameAccess, Ways
    <3> HIDE DEF ps, pt
    <3> QED BY <2>1, <3>1 DEF buildRoutes
  <2> QED BY <2>2, <2>3
<1>6. /\ Generate(s, n) = [peers |-> buildPeers(s, ps), via |-> buildRoutes(s, ps), relays |-> s.relays]
      /\ Generate(t, n) = [peers |-> buildPeers(t, pt), via |-> buildRoutes(t, pt), relays |-> t.relays]
  BY <1>1 DEF Generate, buildRelayEndpoints
<1>7. Generate(s, n) = Generate(t, n)
        <=> buildPeers(s, ps) = buildPeers(t, pt) /\ buildRoutes(s, ps) = buildRoutes(t, pt)
  BY <1>1, <1>6
<1> HIDE DEF ps, pt
<1>8. buildPeers(s, ps) = buildPeers(t, pt) <=> ps = pt
  BY <1>2, <1>3
<1>9. SameAccess(s.document, t.document, s.nodes, n)
        <=> ps = pt /\ Ways(s.document, s.nodes, n) = Ways(t.document, t.nodes, n)
  BY <1>1 DEF SameAccess, ps, pt
<1> QED BY <1>4, <1>5, <1>7, <1>8, <1>9

LEMMA PreviewIsExact == PolicyInv => PreviewExact
<1> SUFFICES ASSUME PolicyInv, NEW doc
             PROVE  Preview(db, doc) =
                      {n \in db.nodes :
                         ConfigOf(db, n) # ConfigOf([db EXCEPT !.document = doc], n)}
  BY DEF PreviewExact
<1> DEFINE bare == [db EXCEPT !.routes = {}, !.relayOf = [h \in Host |-> 0]]
           next == [db EXCEPT !.document = doc]
           after == [bare EXCEPT !.document = doc]
<1>0. DOMAIN db = TableNames
  BY DEF PolicyInv, PolicyTypes, IsSnapshot
<1>1. /\ \A f \in TableNames \ {"document"} : next[f] = db[f] /\ after[f] = bare[f]
      /\ next.document = doc /\ after.document = doc /\ bare.document = db.document
      /\ bare.nodes = db.nodes
  BY <1>0 DEF TableNames
<1> HIDE DEF bare, next, after
<1>2. ASSUME NEW n \in db.nodes
      PROVE  Generate(bare, n) # Generate(after, n) <=> ConfigOf(db, n) # ConfigOf(next, n)
  <2>1. Generate(bare, n) = Generate(after, n) <=> SameAccess(db.document, doc, db.nodes, n)
    BY <1>1, AccessOfDocument DEF TableNames
  <2>2. Generate(db, n) = Generate(next, n) <=> SameAccess(db.document, doc, db.nodes, n)
    BY <1>1, AccessOfDocument DEF TableNames
  <2>3. ConfigOf(db, n) = ConfigOf(next, n) <=> Generate(db, n) = Generate(next, n)
    <3>1. \A f \in {"routes", "rows", "aliases", "dns", "split"} : db[f] = next[f]
      BY <1>1 DEF TableNames
    <3> QED BY <3>1, DocumentsAside DEF ConfigOf
  <2> QED BY <2>1, <2>2, <2>3
<1> QED BY <1>1, <1>2 DEF Preview, bare, next, after

(* No host rests on a configuration other than the one buildNodeConfig     *)
(* would give it now, two resting hosts are mutual peers or none is, and   *)
(* the preview of a document names exactly the hosts it changes: for any   *)
(* tables to begin with, whatever requests and fetches run between.        *)
THEOREM PolicyWhole ==
  PolicySpec => [](PolicyTypeOK /\ NobodyLeftBehind /\ PeersMutual /\ PreviewExact)
<1>1. PolicyInv => PolicyTypeOK /\ NobodyLeftBehind /\ PeersMutual /\ PreviewExact
  BY RestingIsServed, RestingArePeers, PreviewIsExact DEF PolicyInv, PolicyTypes
<1> QED BY <1>1, PolicyInitInv, PolicyInvStep, PTL DEF PolicySpec

-----------------------------------------------------------------------------
(***************************************************************************)
(* The process (cmd/corelink-controller, ca, server).                      *)
(***************************************************************************)
ProgTypes ==
  /\ starts \in 0..MaxStarts /\ secret \in 0..starts
  /\ root \in [ca : 0..starts, secret : 0..starts]
  /\ certFile \in [ca : Nat, until : Nat]
  /\ password \in {"none", "stored", "shown"}
  /\ stage \in {"down", "secret", "root", "cert", "password", "print", "serving", "refused"}
  /\ memory \in [ca : Nat, chain : Nat, secret : 0..starts]
  /\ now \in 1..MaxTime
  /\ revokedAt \in [Peer -> 0..now] /\ admitted \in [Peer -> 0..now]
  /\ cache \in [revoked : SUBSET Peer, at : 0..now, has : BOOLEAN]
  /\ refresh \in [by : SUBSET Peer, began : 0..now]

(* What has been written is of one piece: the CA is encrypted with the     *)
(* stored secret, the certificate on the disk and the nodes are of that CA.*)
DurableWhole ==
  /\ root # NoRoot => root.secret = secret /\ secret # 0
  /\ certFile.until # 0 => root # NoRoot /\ certFile.ca = root.ca
  /\ pinned # {} => root # NoRoot /\ pinned = {root.ca}

(* What the process has read of it, at each point of its start.            *)
MemoryWhole ==
  /\ stage # "down" => starts # 0
  /\ stage # "refused"
  /\ stage = "root" => memory.secret = secret /\ secret # 0
  /\ stage \in {"cert", "password", "print", "serving"} => root # NoRoot /\ memory.ca = root.ca
  /\ stage \in {"password", "print", "serving"} => memory.chain = root.ca

(* A cached list that lacks a certificate was read before its revocation.  *)
CacheWhole ==
  \A p \in Peer : revokedAt[p] # 0 =>
    /\ admitted[p] < revokedAt[p] + CrlTtl
    /\ cache.has /\ p \notin cache.revoked => cache.at <= revokedAt[p]

ProgInv == ProgTypes /\ DurableWhole /\ MemoryWhole /\ CacheWhole

LEMMA ProgInitInv == ProgInit => ProgInv
BY ProgAssumption DEF ProgInit, ProgInv, ProgTypes, DurableWhole, MemoryWhole, CacheWhole, NoRoot,
   NoCert, NoCache, NoRefresh, NoMemory

LEMMA BootKeeps ==
  ASSUME ProgInv,
         Start \/ resolveEncKey \/ EnsureCA \/ BuildServerCert \/ resolveAdminPassHash
           \/ PrintPassword \/ Ends \/ NodeEnrolls
  PROVE  ProgInv'
<1> USE ProgAssumption DEF ProgInv, ProgTypes, DurableWhole, MemoryWhole, CacheWhole, NoRoot,
   NoCert, NoCache, NoRefresh, NoMemory, durableVars, crlVars
<1>1. CASE Start BY <1>1 DEF Start
<1>2. CASE resolveEncKey BY <1>2 DEF resolveEncKey
<1>3. CASE EnsureCA BY <1>3 DEF EnsureCA
<1>4. CASE BuildServerCert BY <1>4 DEF BuildServerCert, Reusable
<1>5. CASE resolveAdminPassHash BY <1>5 DEF resolveAdminPassHash
<1>6. CASE PrintPassword BY <1>6 DEF PrintPassword
<1>7. CASE Ends BY <1>7 DEF Ends
<1>8. CASE NodeEnrolls BY <1>8 DEF NodeEnrolls
<1> QED BY <1>1, <1>2, <1>3, <1>4, <1>5, <1>6, <1>7, <1>8

LEMMA CrlKeeps ==
  ASSUME ProgInv, NEW p \in Peer,
         Revoke(p) \/ RequestCached(p) \/ BeginRefresh(p) \/ EndRefresh(p)
  PROVE  ProgInv'
<1> USE ProgAssumption DEF ProgInv, ProgTypes, DurableWhole, MemoryWhole, CacheWhole, NoRoot,
   NoCert, NoCache, NoRefresh, NoMemory, durableVars, bootVars
<1>1. CASE Revoke(p) BY <1>1 DEF Revoke
<1>2. CASE RequestCached(p) BY <1>2 DEF RequestCached, Fresh, Lets
<1>3. CASE BeginRefresh(p) BY <1>3 DEF BeginRefresh
<1>4. CASE EndRefresh(p)
  <2>1. /\ refresh' = NoRefresh /\ UNCHANGED <<bootVars, now, revokedAt>>
        /\ \/ /\ cache' = [revoked |-> Revoked, at |-> refresh.began, has |-> TRUE]
              /\ admitted' = admitted \/ (p \notin Revoked /\ admitted' = [admitted EXCEPT ![p] = now])
           \/ UNCHANGED <<cache, admitted>>
    BY <1>4 DEF EndRefresh, Lets
  <2>2. ProgTypes'
    <3>1. Revoked \in SUBSET Peer
      BY DEF Revoked
    <3>2. cache' \in [revoked : SUBSET Peer, at : 0..now, has : BOOLEAN]
      <4>1. CASE cache' = [revoked |-> Revoked, at |-> refresh.began, has |-> TRUE]
        BY <4>1, <3>1
      <4>2. CASE cache' = cache
        BY <4>2
      <4> QED BY <2>1, <4>1, <4>2
    <3>3. admitted' \in [Peer -> 0..now] /\ refresh' \in [by : SUBSET Peer, began : 0..now]
      BY <2>1
    <3> QED BY <2>1, <3>2, <3>3
  <2>3. CacheWhole'
    BY <2>1 DEF Revoked
  <2> QED BY <2>1, <2>2, <2>3
<1> QED BY <1>1, <1>2, <1>3, <1>4

LEMMA ClockKeeps ==
  ASSUME ProgInv, ClockTick \/ UNCHANGED progVars
  PROVE  ProgInv'
<1> USE ProgAssumption DEF ProgInv, ProgTypes, DurableWhole, MemoryWhole, CacheWhole, NoRoot,
   NoCert, NoCache, NoRefresh, NoMemory, durableVars, bootVars, crlVars
<1>1. CASE ClockTick BY <1>1 DEF ClockTick
<1>2. CASE UNCHANGED progVars BY <1>2 DEF progVars
<1> QED BY <1>1, <1>2
LEMMA ProgStepInv == ProgInv /\ [ProgNext]_progVars => ProgInv'
BY BootKeeps, CrlKeeps, ClockKeeps DEF ProgNext

LEMMA ProgInvSound == ProgInv => ProgTypeOK /\ OneRoot /\ RevokedShutOut
<1> USE ProgAssumption DEF ProgInv, ProgTypes, DurableWhole, MemoryWhole, CacheWhole, NoRoot
<1>1. ProgInv => ProgTypeOK
  BY DEF ProgTypeOK
<1>2. ProgInv => OneRoot
  BY DEF OneRoot
<1>3. ProgInv => RevokedShutOut
  BY DEF RevokedShutOut
<1> QED BY <1>1, <1>2, <1>3

(* Wherever the process is stopped, its next start decrypts the CA its     *)
(* nodes trust, and a revoked certificate is shut out within CrlTtl.       *)
THEOREM ProgramSound == ProgSpec => [](ProgTypeOK /\ OneRoot /\ RevokedShutOut)
BY ProgInitInv, ProgStepInv, ProgInvSound, PTL DEF ProgSpec

-----------------------------------------------------------------------------
(***************************************************************************)
(* The three parts together, as the run of MCAdmin checks them.            *)
(***************************************************************************)
AdminInv == EnrollInv /\ PolicyInv /\ ProgInv

LEMMA AdminInvStep == AdminInv /\ [AdminNext]_adminVars => AdminInv'
<1> SUFFICES ASSUME AdminInv, [AdminNext]_adminVars PROVE AdminInv'
  OBVIOUS
<1>1. [EnrollNext]_vars /\ [PolicyNext]_policyVars /\ [ProgNext]_progVars
  BY DEF AdminNext, adminVars
<1> QED BY <1>1, EnrollInvStep, PolicyInvStep, ProgStepInv DEF AdminInv

(* Every state of a behaviour of one of the parts satisfies the invariant  *)
(* of that part.                                                           *)
THEOREM AdminInvariant == AdminSpec => []AdminInv
<1>1. AdminInit => AdminInv
  BY EnrollInitInv, PolicyInitInv, ProgInitInv DEF AdminInit, AdminInv
<1> QED BY <1>1, AdminInvStep, PTL DEF AdminSpec

(* The tables keep their types (enroll, admin, cmd/corelink-controller).   *)
THEOREM AdminTypesHold == AdminSpec => []AdminTypeOK
<1>1. AdminInv => AdminTypeOK
  BY EnrollInvWhole, ProgInvSound DEF AdminInv, PolicyInv, PolicyTypes, AdminTypeOK
<1> QED BY <1>1, AdminInvariant, PTL

(* Enrollments, renewals and deletions leave no half of a node (Enroll,    *)
(* Renew, DeleteNode).                                                     *)
THEOREM NodesWholeHolds == AdminSpec => []NodesWhole
<1>1. AdminInv => NodesWhole
  BY EnrollInvWhole DEF AdminInv, NodesWhole
<1> QED BY <1>1, AdminInvariant, PTL

(* Nobody rests on a configuration that is not the tables' (recomputeAll,  *)
(* buildNodeConfig, Generate, handleACLPreview).                           *)
THEOREM PolicyExactHolds == AdminSpec => []PolicyExact
<1>1. AdminInv => PolicyExact
  BY RestingIsServed, RestingArePeers, PreviewIsExact DEF AdminInv, PolicyExact
<1> QED BY <1>1, AdminInvariant, PTL

(* The CA survives every stop, and revocation takes effect in time         *)
(* (resolveEncKey, EnsureCA, BuildServerCert, CRLCache).                   *)
THEOREM ControllerSoundHolds == AdminSpec => []ControllerSound
<1>1. AdminInv => ControllerSound
  BY ProgInvSound DEF AdminInv, ControllerSound
<1> QED BY <1>1, AdminInvariant, PTL
=============================================================================
