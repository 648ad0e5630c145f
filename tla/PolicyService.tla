--------------------------- MODULE PolicyService ----------------------------
(***************************************************************************)
(* The requests that change the tables AccessPolicy reads, and the nodes   *)
(* that are told to read them again:                                       *)
(*   internal/controller/admin       routes, acl, aliases, dns,            *)
(*                                   split_tunnel, nodes                   *)
(*   internal/rpc/ctrlmethods        acl.set, nodes.delete                 *)
(*   internal/controller/relayroster ReportNodeLocation                    *)
(*   internal/controller/configsvc   DiscoveryHTTP, buildNodeConfig        *)
(*   internal/controller/enroll      the end of Enroll                     *)
(* Every request runs in a goroutine, and one database call is one step.   *)
(* A request is used once; they are numbered as they arrive. Notifying a   *)
(* node leaves it something to fetch: ConfigNotify and ConfigSync model    *)
(* how it learns of it.                                                    *)
(***************************************************************************)
EXTENDS AccessPolicy, Sequences

CONSTANTS
  MaxRequests,    \* bound: requests of a behaviour
  MaxFetches,     \* bound: answers being built at one time
  MaxMishaps,     \* bound: database reads that fail
  MaxRows,        \* bound: reports of discovered mappings
  Documents,      \* documents an administrator may store, valid or not
  RouteChoices,   \* routes he may publish
  AliasChoices,   \* aliases he may create
  SplitChoices,   \* split rules he may create
  Orders,         \* positions he may move a rule to
  RelayHosts,     \* hosts that may be relays
  Targets,        \* addresses a node may discover
  FirstTables     \* the tables a behaviour starts with

Request == 1..MaxRequests
Tables == 1..Len(TableOrder)

ASSUME PolicyAssumption ==
  /\ MaxRequests \in Nat
  /\ \A s \in FirstTables :
       /\ DOMAIN s = {TableOrder[i] : i \in Tables}
       /\ s.nodes \subseteq Host /\ s.relays \subseteq Host /\ DOMAIN s.relayOf = Host
       /\ s.document \in Documents \cup {NoDocument}

VARIABLES
  db,       \* the tables, and the roster's memory
  step,     \* where each request is
  told,     \* the hosts a request has listed and will notify
  subject,  \* the host a request is about
  todo,     \* the row a report is about, then those whose flags it has yet to write
  dirty,    \* hosts notified since they last began to fetch
  fetch,    \* 0, or one more than the tables the answer to a host has read
  got,      \* the tables that answer has read
  served,   \* the configuration a host was last given
  silent,   \* history: hosts a change has reached that nothing will tell
  mishaps

policyVars == <<db, step, told, subject, todo, dirty, fetch, got, served, silent, mishaps>>
aboutVars == <<told, subject, todo>>
fetchVars == <<dirty, fetch, got, served>>

Unserved == [access |-> [peers |-> [p \in {} |-> {}], via |-> [p \in {} |-> 0], relays |-> {}], prefixes |-> {},
             egress |-> {}, discovery |-> {},
             dns |-> [enabled |-> FALSE, records |-> {}],
             split |-> [rules |-> {}, default |-> {}]]

NoTables == [nodes |-> {}, document |-> NoDocument, relays |-> {}, aliases |-> {}, routes |-> {},
             dns |-> "none", rows |-> {}, relayOf |-> <<>>, split |-> {}]

Steps == {"idle", "list", "delete", "register", "listRelays", "upsert", "winners", "setWinners",
          "notify", "done"}

PolicyTypeOK ==
  /\ db.nodes \subseteq Host /\ db.relays \subseteq Host
  /\ db.document \in Documents \cup {NoDocument}
  /\ step \in [Request -> Steps]
  /\ told \in [Request -> SUBSET Host]
  /\ dirty \in SUBSET db.nodes /\ silent \in SUBSET db.nodes
  /\ fetch \in [Host -> 0..Len(TableOrder) + 1]

PolicyInit ==
  /\ db \in FirstTables
  /\ step = [r \in Request |-> "idle"]
  /\ told = [r \in Request |-> {}]
  /\ subject = [r \in Request |-> 0]
  /\ todo = [r \in Request |-> {}]
  /\ dirty = {} /\ silent = {} /\ mishaps = 0
  /\ fetch = [n \in Host |-> 0]
  /\ got = [n \in Host |-> NoTables]
  /\ served = [n \in Host |-> IF n \in db.nodes THEN ConfigOf(db, n) ELSE Unserved]

-----------------------------------------------------------------------------
Arrives(r) == step[r] = "idle" /\ \A q \in 1..(r - 1) : step[q] # "idle"
Goes(r, s) == step' = [step EXCEPT ![r] = s]
Write(t, x) == db' = [db EXCEPT ![t] = x]
Mishap == mishaps < MaxMishaps /\ mishaps' = mishaps + 1

(* Hosts that learn nothing of a change.                                   *)
Leaves(hosts) == silent' = silent \cup hosts

(* The handlers that store something and then call recomputeAll. A call    *)
(* that fails before or at the store changes nothing and is left out.      *)
Stores(r, t, x) ==
  /\ Arrives(r)
  /\ Write(t, x)
  /\ Goes(r, "list")
  /\ UNCHANGED <<aboutVars, fetchVars, silent, mishaps>>

handlePutACL(r) == \E doc \in Documents : Valid(doc) /\ Stores(r, "document", doc)

handleCreateRoute(r) ==
  \E x \in RouteChoices :
    (\A y \in db.routes : y.id # x.id) /\ Stores(r, "routes", db.routes \cup {x})

handlePatchRoute(r) ==
  \E x \in db.routes, on \in BOOLEAN :
    Stores(r, "routes", (db.routes \ {x}) \cup {[x EXCEPT !.enabled = on]})

\* Mutated form: the nodes are not told.
DeleteRouteQuietly(r) ==
  \E x \in db.routes :
    /\ Arrives(r)
    /\ Write("routes", db.routes \ {x})
    /\ Goes(r, "done")
    /\ UNCHANGED <<aboutVars, fetchVars, silent, mishaps>>

handleDeleteRoute(r) == \E x \in db.routes : Stores(r, "routes", db.routes \ {x})

handleCreateAlias(r) ==
  \E a \in AliasChoices \ db.aliases : Stores(r, "aliases", db.aliases \cup {a})

handleDeleteAlias(r) == \E a \in db.aliases : Stores(r, "aliases", db.aliases \ {a})

handlePutDNS(r) == \E d \in {"on", "off"} : Stores(r, "dns", d)

handleCreateSplitRule(r) ==
  \E x \in SplitChoices :
    (\A y \in db.split : y.id # x.id) /\ Stores(r, "split", db.split \cup {x})

handleDeleteSplitRule(r) == \E x \in db.split : Stores(r, "split", db.split \ {x})

handleReorderSplitRule(r) ==
  \E x \in db.split, o \in Orders :
    Stores(r, "split", (db.split \ {x}) \cup {[x EXCEPT !.order = o]})

(* The end of Enroll. A number that was a deleted host's may come again.   *)
Enrolled(r) ==
  \E n \in Host \ db.nodes :
    /\ Arrives(r)
    /\ Write("nodes", db.nodes \cup {n})
    /\ Goes(r, "list")
    /\ UNCHANGED <<aboutVars, fetchVars, silent, mishaps>>

(* acl.set of the local socket: neither validated nor announced.           *)
handleACLSet(r) ==
  \E doc \in Documents :
    /\ Arrives(r)
    /\ Write("document", doc)
    /\ Leaves(db.nodes)
    /\ Goes(r, "done")
    /\ UNCHANGED <<aboutVars, fetchVars, mishaps>>

-----------------------------------------------------------------------------
(* A host that is deleted, with whatever was under way for it.             *)
Deleted(n) ==
  /\ Write("nodes", db.nodes \ {n})
  /\ dirty' = dirty \ {n}
  /\ fetch' = [fetch EXCEPT ![n] = 0]
  /\ got' = [got EXCEPT ![n] = NoTables]
  /\ served' = [served EXCEPT ![n] = Unserved]

(* handleDeleteNode lists the others first, or goes on without them.       *)
handleDeleteNode(r) ==
  \E n \in db.nodes :
    /\ Arrives(r)
    /\ subject' = [subject EXCEPT ![r] = n]
    /\ \/ told' = [told EXCEPT ![r] = db.nodes \ {n}] /\ UNCHANGED mishaps
       \/ Mishap /\ UNCHANGED told
    /\ Goes(r, "delete")
    /\ UNCHANGED <<db, todo, fetchVars, silent>>

(* A host enrolled since is not among them.                                *)
RemoveNode(r) ==
  /\ step[r] = "delete"
  /\ Deleted(subject[r])
  /\ silent' = (silent \cup (db.nodes \ told[r])) \ {subject[r]}
  /\ Goes(r, "notify")
  /\ UNCHANGED <<aboutVars, mishaps>>

(* nodes.delete of the local socket.                                       *)
handleNodesDelete(r) ==
  \E n \in db.nodes :
    /\ Arrives(r)
    /\ Deleted(n)
    /\ silent' = db.nodes \ {n}
    /\ Goes(r, "done")
    /\ UNCHANGED <<aboutVars, mishaps>>

(* "node rm" of the command line makes the same call, in a process of its  *)
(* own.                                                                    *)
adminNode(r) == handleNodesDelete(r)

-----------------------------------------------------------------------------
(* recomputeAll: the hosts are listed after the change is stored.          *)
ListNodes(r) ==
  /\ step[r] = "list"
  /\ told' = [told EXCEPT ![r] = db.nodes]
  /\ Goes(r, "notify")
  /\ UNCHANGED <<db, subject, todo, fetchVars, silent, mishaps>>

(* If listing them fails, nobody is told of what has been stored.          *)
ListNodesFails(r) ==
  /\ step[r] = "list"
  /\ Goes(r, "done")
  /\ Leaves(db.nodes)
  /\ Mishap
  /\ UNCHANGED <<db, aboutVars, fetchVars>>

\* Mutated form: a host that is fetching already is not told again.
NotifyIdle(r) ==
  /\ step[r] = "notify"
  /\ dirty' = dirty \cup {n \in told[r] \cap db.nodes : fetch[n] = 0}
  /\ silent' = silent \ told[r]
  /\ told' = [told EXCEPT ![r] = {}]
  /\ subject' = [subject EXCEPT ![r] = 0]
  /\ todo' = [todo EXCEPT ![r] = {}]
  /\ Goes(r, "done")
  /\ UNCHANGED <<db, fetch, got, served, mishaps>>

RecomputeAndNotify(r) ==
  /\ step[r] = "notify"
  /\ dirty' = dirty \cup (told[r] \cap db.nodes)
  /\ silent' = silent \ told[r]
  /\ told' = [told EXCEPT ![r] = {}]
  /\ subject' = [subject EXCEPT ![r] = 0]
  /\ todo' = [todo EXCEPT ![r] = {}]
  /\ Goes(r, "done")
  /\ UNCHANGED <<db, fetch, got, served, mishaps>>

-----------------------------------------------------------------------------
(* ReportNodeLocation: only the host itself is told that it has moved, and *)
(* the other relays when a relay reports itself; the hook that would name  *)
(* its peers is never set.                                                 *)
ReportNodeLocation(r) ==
  \E n \in db.nodes, x \in RelayHosts \cup {0} :
    LET changed == db.relayOf[n] # x
    IN /\ Arrives(r)
       /\ db' = [db EXCEPT !.relayOf[n] = x]
       /\ IF changed THEN Leaves(db.nodes \ {n}) ELSE UNCHANGED silent
       /\ subject' = [subject EXCEPT ![r] = n]
       /\ told' = [told EXCEPT ![r] = {n}]
       /\ Goes(r, IF n = x THEN (IF changed THEN "register" ELSE "notify") ELSE "notify")
       /\ UNCHANGED <<todo, fetchVars, mishaps>>

(* UpsertRelayInfo.                                                        *)
Register(r) ==
  /\ step[r] = "register"
  /\ Write("relays", db.relays \cup {subject[r]})
  /\ Leaves(IF subject[r] \in db.relays THEN {} ELSE db.nodes)
  /\ Goes(r, "listRelays")
  /\ UNCHANGED <<aboutVars, fetchVars, mishaps>>

ListRelays(r) ==
  /\ step[r] = "listRelays"
  /\ told' = [told EXCEPT ![r] = @ \cup db.relays]
  /\ Goes(r, "notify")
  /\ UNCHANGED <<db, subject, todo, fetchVars, silent, mishaps>>

-----------------------------------------------------------------------------
(* A node reports an address it has seen. The row is looked up, then       *)
(* written anew, without its flag; then the rows of the route are listed,  *)
(* and the flags that are not as they should be are written one by one.    *)
(* Two reports may make two rows of one address. Only the reporter is      *)
(* told, though every node is given the prefixes.                          *)
RowsOf(x, n, t) == {w \in db.rows : w.route = x.id /\ w.node = n /\ w.target = t}

Latest == Cardinality(db.rows) + Cardinality({q \in Request : step[q] = "upsert"})

DiscoveryReport(r) ==
  \E n \in db.nodes, x \in {y \in db.routes : y.kind = "discovered_mapping"}, t \in Targets :
    \E first \in IF RowsOf(x, n, t) = {} THEN {r} ELSE {w.id : w \in RowsOf(x, n, t)} :
      /\ Arrives(r)
      /\ Latest < MaxRows
      /\ \A w \in RowsOf(x, n, t) : first <= w.id
      /\ subject' = [subject EXCEPT ![r] = n]
      /\ todo' = [todo EXCEPT ![r] =
                    {[id |-> first, route |-> x.id, node |-> n, target |-> t, vip |-> x.vip,
                      at |-> r, winner |-> FALSE, fresh |-> TRUE]}]
      /\ Goes(r, "upsert")
      /\ UNCHANGED <<db, told, fetchVars, silent, mishaps>>

UpsertDiscoveredMapping(r) ==
  /\ step[r] = "upsert"
  /\ Write("rows", {w \in db.rows : \A v \in todo[r] : v.id # w.id} \cup todo[r])
  /\ Leaves(db.nodes)
  /\ Goes(r, "winners")
  /\ UNCHANGED <<aboutVars, fetchVars, mishaps>>

(* recomputeWinners: one winner per address, the row observed last (those  *)
(* of a route have one priority).                                          *)
Wins(w, rows) == \A v \in rows : v.vip = w.vip => v.at <= w.at

ListMappings(r) ==
  /\ step[r] = "winners"
  /\ LET rows == {w \in db.rows : \E v \in todo[r] : v.route = w.route}
     IN todo' = [todo EXCEPT ![r] = {w \in rows : w.winner # Wins(w, rows)}]
  /\ told' = [told EXCEPT ![r] = {subject[r]}]
  /\ Goes(r, "setWinners")
  /\ UNCHANGED <<db, subject, fetchVars, silent, mishaps>>

SetWinner(r) ==
  /\ step[r] = "setWinners"
  /\ IF todo[r] = {}
     THEN Goes(r, "notify") /\ UNCHANGED <<db, silent, todo>>
     ELSE \E w \in todo[r] :
            /\ Write("rows", {IF v.id = w.id THEN [v EXCEPT !.winner = ~w.winner] ELSE v :
                                v \in db.rows})
            /\ todo' = [todo EXCEPT ![r] = @ \ {w}]
            /\ Leaves(db.nodes)
            /\ UNCHANGED step
  /\ UNCHANGED <<told, subject, fetchVars, mishaps>>

(* Rows that are not reported again are left out of what is served next.   *)
GoesStale ==
  \E w \in db.rows :
    /\ w.fresh
    /\ Write("rows", (db.rows \ {w}) \cup {[w EXCEPT !.fresh = FALSE]})
    /\ Leaves(db.nodes)
    /\ UNCHANGED <<step, aboutVars, fetchVars, mishaps>>

-----------------------------------------------------------------------------
(* buildNodeConfig for a host that was notified.                           *)
MayFetch == Cardinality({n \in Host : fetch[n] # 0}) < MaxFetches

BeginFetch(n) ==
  /\ n \in dirty /\ fetch[n] = 0 /\ MayFetch
  /\ dirty' = dirty \ {n}
  /\ fetch' = [fetch EXCEPT ![n] = 1]
  /\ UNCHANGED <<db, step, aboutVars, got, served, silent, mishaps>>

ReadTable(n) ==
  /\ fetch[n] \in Tables
  /\ LET t == TableOrder[fetch[n]] IN got' = [got EXCEPT ![n][t] = db[t]]
  /\ fetch' = [fetch EXCEPT ![n] = @ + 1]
  /\ UNCHANGED <<db, step, aboutVars, dirty, served, silent, mishaps>>

(* The errors of these reads are dropped: the node is served a             *)
(* configuration without what the table holds, and nothing corrects it     *)
(* before the next change. (Of an empty table, this is the same.)          *)
ReadErrorDropped(n) ==
  /\ fetch[n] \in Tables
  /\ LET t == TableOrder[fetch[n]]
     IN t \in {"aliases", "routes", "dns", "rows", "split"} /\ db[t] # NoTables[t] /\ UNCHANGED got
  /\ fetch' = [fetch EXCEPT ![n] = @ + 1]
  /\ Leaves({n})
  /\ Mishap
  /\ UNCHANGED <<db, step, aboutVars, dirty, served>>

\* Mutated form: what was notified during the fetch counts as answered.
AnswerForgetting(n) ==
  /\ fetch[n] = Len(TableOrder) + 1
  /\ served' = [served EXCEPT ![n] = ConfigOf(got[n], n)]
  /\ dirty' = dirty \ {n}
  /\ fetch' = [fetch EXCEPT ![n] = 0]
  /\ got' = [got EXCEPT ![n] = NoTables]
  /\ UNCHANGED <<db, step, aboutVars, silent, mishaps>>

Answer(n) ==
  /\ fetch[n] = Len(TableOrder) + 1
  /\ served' = [served EXCEPT ![n] = ConfigOf(got[n], n)]
  /\ fetch' = [fetch EXCEPT ![n] = 0]
  /\ got' = [got EXCEPT ![n] = NoTables]
  /\ UNCHANGED <<db, step, aboutVars, dirty, silent, mishaps>>

-----------------------------------------------------------------------------
AdminRequest(r) ==
  \/ handlePutACL(r) \/ handleCreateRoute(r) \/ handlePatchRoute(r) \/ handleDeleteRoute(r)
  \/ handleCreateAlias(r) \/ handleDeleteAlias(r) \/ handlePutDNS(r)
  \/ handleCreateSplitRule(r) \/ handleDeleteSplitRule(r) \/ handleReorderSplitRule(r)
  \/ handleDeleteNode(r)

OtherRequest(r) ==
  \/ Enrolled(r) \/ handleACLSet(r) \/ handleNodesDelete(r) \/ adminNode(r)
  \/ ReportNodeLocation(r) \/ DiscoveryReport(r)

RequestStep(r) ==
  \/ ListNodes(r) \/ RemoveNode(r) \/ RecomputeAndNotify(r) \/ Register(r) \/ ListRelays(r)
  \/ UpsertDiscoveredMapping(r) \/ ListMappings(r) \/ SetWinner(r)

FetchStep(n) == BeginFetch(n) \/ ReadTable(n) \/ Answer(n)

PolicyNext ==
  \/ \E r \in Request : AdminRequest(r) \/ OtherRequest(r) \/ RequestStep(r) \/ ListNodesFails(r)
  \/ \E n \in Host : FetchStep(n) \/ ReadErrorDropped(n)
  \/ GoesStale

PolicySpec == PolicyInit /\ [][PolicyNext]_policyVars

-----------------------------------------------------------------------------
\* A host that a change has reached is fetching, has been notified, or will be by a
\* request still running, unless nothing tells it: it never rests on a configuration that
\* is not the one buildNodeConfig would give it now (admin/acl.go:165, recomputeAll).
WillNotify(r, n) == step[r] = "list" \/ (step[r] = "notify" /\ n \in told[r])

Resting(n) == fetch[n] = 0 /\ n \notin dirty \cup silent /\ \A r \in Request : ~WillNotify(r, n)

NobodyLeftBehind == \A n \in db.nodes : Resting(n) => served[n] = ConfigOf(db, n)

\* Two resting hosts are both peers of each other or neither is: what the firewall of one
\* admits the other is configured to send (generate.go:153, "双向可见性求并").
PeersMutual ==
  \A m, n \in db.nodes :
    Resting(m) /\ Resting(n)
      => (m \in DOMAIN served[n].access.peers <=> n \in DOMAIN served[m].access.peers)

\* The preview of a policy lists exactly the nodes whose configuration storing it would
\* change (admin/acl.go:67, handleACLPreview), whatever has been published and wherever
\* the nodes are attached.
PreviewExact ==
  \A doc \in Documents : Valid(doc) =>
    Preview(db, doc) = {n \in db.nodes : ConfigOf(db, n) # ConfigOf([db EXCEPT !.document = doc], n)}
=============================================================================
