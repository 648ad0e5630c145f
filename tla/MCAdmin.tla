------------------------------ MODULE MCAdmin -------------------------------
(***************************************************************************)
(* Instances, for TLC, of the three parts of the controller that share no  *)
(* state in the models: the life of a node record, the tables a node's     *)
(* configuration is built from, and the process itself.  A behaviour is    *)
(* one of exactly one of them, which part names; the others stay in their  *)
(* initial states.                                                         *)
(***************************************************************************)
EXTENDS Enrollment, PolicyService, ControllerProgram, TLC

CONSTANTS
  e1, e2, w1, d1, k1, k2,   \* requests and keys of Enrollment
  c1                        \* a certificate of ControllerProgram

VARIABLE part

adminVars == <<vars, policyVars, progVars, part>>

AdminInit ==
  /\ EnrollInit /\ PolicyInit /\ ProgInit
  /\ part \in {"enrollment", "policy", "program"}

AdminNext ==
  \/ part = "enrollment" /\ EnrollNext /\ UNCHANGED <<policyVars, progVars, part>>
  \/ part = "policy"     /\ PolicyNext /\ UNCHANGED <<vars, progVars, part>>
  \/ part = "program"    /\ ProgNext   /\ UNCHANGED <<vars, policyVars, part>>

AdminSpec == AdminInit /\ [][AdminNext]_adminVars

-----------------------------------------------------------------------------
(* The instance: two of three hosts are enrolled, one address is           *)
(* discovered, and one policy lets user a reach group g, another, which    *)
(* does not validate, everyone.                                            *)
ThreeHosts == {1, 2, 3}
Users == (1 :> "a") @@ (2 :> "b") @@ (3 :> "b")
Country == "cc" :> {"p1", "p2"}

Everyone == [kind |-> "any", name |-> ""]
Group    == [kind |-> "group", name |-> "g"]
UserA    == [kind |-> "user", name |-> "a"]
Rule(from, to) == [action |-> "accept", src |-> from, dst |-> to]

Narrow == [groups |-> "g" :> {"b"}, rules |-> {Rule({UserA}, {Group})}]
Broken == [groups |-> [g \in {} |-> {}], rules |-> {Rule({Group}, {Everyone})}]
TwoDocuments == {Narrow, Broken}

Route(i, n, k, v) == [id |-> i, node |-> n, kind |-> k, vip |-> v, target |-> v, enabled |-> TRUE]
OneRoute == {Route(1, 2, "direct", "x")}
OneRule ==
  {[id |-> 1, node |-> 0, match |-> "geoip:!", name |-> "cc", exit |-> 2, order |-> 1]}
OneTable ==
  {[nodes |-> {1, 2}, document |-> NoDocument, relays |-> {}, aliases |-> {},
    routes |-> {Route(2, 1, "discovered_mapping", "y")}, dns |-> "on", rows |-> {},
    relayOf |-> [h \in Host |-> 0], split |-> {}]}

\* The two enrollments are alike, and every property is an invariant.
Alike == Permutations({e1, e2})

-----------------------------------------------------------------------------
(* Properties.                                                             *)

AdminTypeOK ==
  /\ part = "enrollment" => EnrollTypeOK
  /\ part = "policy" => PolicyTypeOK
  /\ part = "program" => ProgTypeOK

\* Enrollments, renewals and deletions that fail or meet in the middle leave no half of a
\* node: all of it or nothing, its address, a certificate that is not revoked (Enroll,
\* Renew, DeleteNode).
NodesWhole == part = "enrollment" => FailedEnrollLeavesNothing /\ NodeHoldsLease /\ NodeKeepsCert

\* The configuration a node rests on, the peers two nodes give each other and the preview
\* of a policy agree with the tables. (The preview takes nothing from a fetch: it is looked
\* at while there is none.)
PolicyExact ==
  part = "policy" =>
    /\ NobodyLeftBehind /\ PeersMutual
    /\ (\A n \in Host : fetch[n] = 0) => PreviewExact

\* A controller that was stopped anywhere starts again with the CA its nodes trust, and a
\* revoked certificate is soon shut out.
ControllerSound == part = "program" => OneRoot /\ RevokedShutOut
=============================================================================
