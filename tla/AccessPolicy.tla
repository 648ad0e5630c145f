---------------------------- MODULE AccessPolicy ----------------------------
(***************************************************************************)
(* What a node is told of the others, as a function of the controller's    *)
(* tables:                                                                 *)
(*   internal/controller/acl/policy.go, generate.go     Validate, Generate *)
(*   internal/controller/routepolicy/resolve.go         Resolve            *)
(*   internal/controller/configsvc/http.go              buildNodeConfig    *)
(*   internal/controller/admin/acl.go                   handleACLPreview   *)
(* A host stands for its number, name, key and virtual address, a prefix   *)
(* for its text. A selector is a kind and a name. Ports are left out: the  *)
(* code merges them, but a set merged with an absent one is every port, so *)
(* that none reaches a configuration. Tags match no host: the table nodes  *)
(* has no column for them (configsvc/http.go:360).                         *)
(***************************************************************************)
EXTENDS Integers, FiniteSets

CONSTANTS
  Host,        \* nodes that may enroll
  UserOf,      \* [Host -> users]: the tag of the key a node enrolled with
  CidrsOf,     \* [codes -> sets of prefixes]: the GeoIP database
  NoDocument   \* the document of a table without policies

(* A snapshot of the tables: the enrolled hosts, the latest policy, the    *)
(* relays, the aliases, the published routes, the DNS settings, the rows   *)
(* of discovered mappings and the split rules, with the relay of each host *)
(* from the roster's memory.                                               *)
TableOrder == <<"nodes", "document", "relays", "aliases", "routes", "dns", "rows",
                "relayOf", "split">>
-----------------------------------------------------------------------------
(* Selectors: "*", "group:x", "tag:x" or a user.                           *)
Matches(doc, sel, n) ==
  \/ sel.kind = "any"
  \/ sel.kind = "group" /\ sel.name \in DOMAIN doc.groups /\ UserOf[n] \in doc.groups[sel.name]
  \/ sel.kind = "user" /\ UserOf[n] = sel.name

Selected(doc, sels, hosts) == {n \in hosts : \E s \in sels : Matches(doc, s, n)}

(* Policy.Validate: rules accept, and name groups that are defined.        *)
Defined(doc, sels) == \A s \in sels : s.kind = "group" => s.name \in DOMAIN doc.groups

Valid(doc) ==
  \A r \in doc.rules : r.action = "accept" /\ Defined(doc, r.src) /\ Defined(doc, r.dst)

(* No policy, one that does not parse, and one without rules are the same: *)
(* every node is a peer of every other.                                    *)
OpenMesh(doc) == doc = NoDocument \/ ~Valid(doc) \/ doc.rules = {}

Edges(doc, hosts) ==
  UNION {Selected(doc, r.src, hosts) \X Selected(doc, r.dst, hosts) : r \in doc.rules}

\* Mutated form: who may be reached, not who may reach.
OneWayPeers(doc, hosts, n) ==
  IF OpenMesh(doc) THEN hosts \ {n} ELSE {p \in hosts \ {n} : <<n, p>> \in Edges(doc, hosts)}

Peers(doc, hosts, n) ==
  IF OpenMesh(doc) THEN hosts \ {n}
  ELSE {p \in hosts \ {n} : <<n, p>> \in Edges(doc, hosts) \/ <<p, n>> \in Edges(doc, hosts)}
-----------------------------------------------------------------------------
(* Published routes. A discovered mapping publishes the winning addresses  *)
(* only, among the rows that are not stale.                                *)
Winners(s, x) == {w \in s.rows : w.route = x.id /\ w.winner /\ w.fresh}

PublishedBy(s, x) ==
  IF x.kind = "discovered_mapping" THEN {w.vip : w \in Winners(s, x)} ELSE {x.vip}

Enabled(s) == {x \in s.routes : x.enabled}

Published(s, n) == UNION {PublishedBy(s, x) : x \in {y \in Enabled(s) : y.node = n}}

Egress(s, n) ==
  UNION {IF x.kind = "discovered_mapping"
         THEN {[vip |-> w.vip, target |-> w.target] : w \in Winners(s, x)}
         ELSE {[vip |-> x.vip, target |-> x.target]} :
           x \in {y \in Enabled(s) : y.node = n}}

DiscoveryConfigs(s, n) ==
  {[route |-> x.id, vip |-> x.vip, target |-> x.target] :
     x \in {y \in Enabled(s) : y.node = n /\ y.kind = "discovered_mapping"}}

(* Records are sent with the settings, when these are enabled.             *)
DnsConfig(s) == IF s.dns = "on" THEN [enabled |-> TRUE, records |-> s.aliases]
                ELSE [enabled |-> FALSE, records |-> {}]
-----------------------------------------------------------------------------
(* Split rules: those of the node and those of every node (node = 0). A    *)
(* GeoIP rule becomes one rule per prefix; a negated one sends its country *)
(* directly and the rest to its exit, and the last one decides the exit.   *)
RulesFor(s, n) == {r \in s.split : r.node \in {0, n}}

Precedes(q, r) == q.order < r.order \/ (q.order = r.order /\ q.id < r.id)

Expand(r) ==
  CASE r.match = "cidr" -> {[order |-> r.order, id |-> r.id, prefix |-> r.name, exit |-> r.exit]}
    [] r.match = "geoip" -> {[order |-> r.order, id |-> r.id, prefix |-> c, exit |-> r.exit] :
                               c \in CidrsOf[r.name]}
    [] r.match = "geoip:!" -> {[order |-> r.order, id |-> r.id, prefix |-> c, exit |-> 0] :
                                 c \in CidrsOf[r.name]}

DefaultExit(rules) ==
  LET negated == {r \in rules : r.match = "geoip:!"}
  IN {r.exit : r \in {q \in negated : \A p \in negated : p = q \/ Precedes(p, q)}}

SplitPolicy(s, n) ==
  LET rules == UNION {Expand(r) : r \in RulesFor(s, n)}
  IN [rules |-> rules, default |-> IF rules = {} THEN {} ELSE DefaultExit(RulesFor(s, n))]
-----------------------------------------------------------------------------
(* A peer is listed with the prefixes it publishes.                        *)
buildPeers(s, peers) == [p \in peers |-> Published(s, p)]

(* The way to a peer is the relay it is attached to; an open mesh has none.*)
buildRoutes(s, peers) ==
  IF OpenMesh(s.document) THEN [p \in {} |-> 0] ELSE [p \in peers |-> s.relayOf[p]]

(* All relays, in an order of their own.                                   *)
buildRelayEndpoints(s) == s.relays

(* Generate for one host. A host that is in no snapshot of the nodes (it   *)
(* was deleted after its own row was read) gets neither peers nor relays.  *)
Generate(s, n) ==
  LET peers == IF n \in s.nodes THEN Peers(s.document, s.nodes, n) ELSE {}
  IN [peers  |-> buildPeers(s, peers), via |-> buildRoutes(s, peers),
      relays |-> IF n \in s.nodes THEN buildRelayEndpoints(s) ELSE {}]

(* Every published prefix goes to every node, whether or not it may see    *)
(* the owner, and also when the owner is enrolled no more.                 *)
Prefixes(s) == UNION {{<<x.node, p>> : p \in PublishedBy(s, x)} : x \in Enabled(s)}

ConfigOf(s, n) ==
  [access |-> Generate(s, n), prefixes |-> Prefixes(s), egress |-> Egress(s, n),
   discovery |-> DiscoveryConfigs(s, n), dns |-> DnsConfig(s), split |-> SplitPolicy(s, n)]

(* The preview leaves out the published prefixes and the relay each node   *)
(* is attached to, in the configuration before and the one after.          *)
\* Mutated form: both sides share the list of routes.
PreviewPeers(s, doc) ==
  {n \in s.nodes : Peers(s.document, s.nodes, n) # Peers(doc, s.nodes, n)}

Preview(s, doc) ==
  LET bare == [s EXCEPT !.routes = {}, !.relayOf = [h \in Host |-> 0]]
  IN {n \in s.nodes : Generate(bare, n) # Generate([bare EXCEPT !.document = doc], n)}
=============================================================================
