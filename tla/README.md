# Formal models of CoreLink

CoreLink is a mesh VPN: a controller keeps the network's state in a database,
signs certificates, computes the overlay's topology and tells the nodes; a node
runs a data plane over pooled tunnel connections, probes its paths and chooses
exits. This directory holds TLA+ modules translated from the Go source, TLC
configurations that check them on small instances, and theorems about them
checked by TLAPS. Paths below are relative to the repository; `internal/` is
left out of package paths.

## 1. Inventory

### Controller

| component | state it keeps | operations | neighbours | what is hard | what makes it correct |
|---|---|---|---|---|---|
| `controller/configsvc` Notify | subscriptions, one-place trigger channel and worker per node, closed flag | Subscribe, Unsubscribe, RecomputeAndNotify, Close, worker loop | admin, ca, enroll, ingress, relayroster call it; gRPC and WebSocket handlers subscribe | five kinds of goroutine over two locks; Close against everything | no send on a closed channel, no worker and no bump after Close, every token consumed |
| `controller/configsvc` WatchConfig, ConfigWS, ConfigHTTP | a stream per node; nothing else | hello, forward signals, build a configuration | Notify, store, ca, topology | the generation is read before the tables; the hello before the subscription | a configuration is at least as new as its label |
| `controller/ca`, `pki` | CA key, certificates table | Issue, Renew, Revoke, CurrentCRL | enroll, admin; notifies all nodes | renewal is two writes | revocations reach the nodes |
| `controller/enroll` | none of its own: keys, nodes, leases, certificates | Enroll, Renew | store, ipam, ca | five writes with compensation on failure, one-time keys, concurrent requests | a one-time key admits at most one node; a failed enrolment leaves nothing |
| `controller/ipam` | leases table | Allocate, Release | enroll, admin | allocation under concurrency | no address leased twice |
| `controller/admin` | none of its own | nodes, relays, routes, ACL, exits, portmaps | store, Notify, ca, ipam | a delete is many writes | after a delete nothing of the node is usable |
| `controller/topology` TopoService | current assignment, increment, pending edge events, damping clock | Tick, OnEdgeEvent, flush, full and incremental recomputation, Load | topoadapter, topostore, Notify | events arriving during a flush; failure of one step; restart | assignments reflect the reported links; changed nodes are told |
| `controller/topoadapter`, `controller/topostore` | quality reports; versioned assignments | Snapshot, Save, Load | topology, ingress | staleness | monotone versions |
| `controller/ingress` Receiver | ingress set and reports per node | Report handlers | relayroster, topology, Notify | concurrent reports | neighbours learn a changed entry point |
| `controller/relayroster` | relays, their endpoints, the relay of a node | ReportNodeLocation | store, Notify | only the listed relays are told | a host that changes its relay is found |
| `controller/acl`, `controller/routepolicy` | none (pure) | Validate, Generate, Resolve, preview | configsvc, admin | who sees whom, and whom to tell of a change | peers are mutual; the preview names those concerned |
| `controller/server`, `controller/store`, the program | secrets, CA, server certificate, CRL cache, database | start, refresh, shutdown | all | a stop between two durable writes; a cached list | the next start can read what the last one wrote; a revoked certificate is shut out |

### Node

| component | state it keeps | operations | neighbours | what is hard | what makes it correct |
|---|---|---|---|---|---|
| `nodecore/sync` Client | local version, signal queue | Run, handleSignal, fetchConfig | controller | duplicate, old and missing signals; failing fetches | applies newer configurations only; catches up |
| `nodecore/sync` failoverManager | channels by priority, active index | Run, recvLoop, recovery polling | Client | a recovering primary races the secondary | one channel in use; the primary is taken back when stable |
| `nodecore/connpool` Pool | a group of connections per peer, lazy marks, a global counter, backoff per address | Acquire, Release, scale, probe, maintain, shrink, Update, Close | dataplane acquires and closes connections | Update holds the pool's lock while it dials and writes; keepalives are written under the lock of a group; background dials look for the group, then join it | the counter covers what is open; no connection is lost; Close leaves none; no two goroutines wait for each other |
| `nodecore/proberouter` | best route and hops per target, routes of the others | round, apply, RouteSync | dataplane, sync, nodestore | a configuration changes during a round; two nodes prefer each other | the hops belong to the current peers; one of two yields |
| `nodecore/probe` Reporter | link state machines, events, last report | probe loops, Tick | dataplane, controller | two loops, events sent after the lock | links settle and the controller knows |
| `nodecore/multirelay` Selector | current relay, streaks, cooldown | Tick | probe, dataplane | decides with reports newer than its probes | no move without a reason, no staying on a dead relay |
| `relay/mesh` SessionRouter | sessions, hash ring, unavailable routes | SetBaseline, Pick, Degrade, MarkUnavailable, sweep | none yet | marks are indexes, the list changes | a session keeps off what it was driven off |
| `nodecore/dataplane` | WaitGroup, peer framers, ranked hops, loop-avoidance marks | Run, Close, ApplyConfig, RelayForward, probe frames | connpool, transport, route, flowtrack | every goroutine of every connection calls it | bounded forwarding; Close waits for all |
| `transport` Framer | write lock, pending keepalives | Write*, TakePacket | dataplane, connpool | many writers and one reader that also writes | frames stay whole, an echo is not answered |
| `nodecore/flowtrack`, `nodecore/route`, `nodecore/dpi` | flow table, forwarding table | lookup, expire | dataplane | a full table; a change of routes | a flow keeps its hop |
| `nodecore/portmap` | mapping, its lifetime, its failures | race, renew, remove | ingress, the gateway | three protocols, two callers, late answers | nothing is held that was not granted, nothing granted is forgotten |
| `nodecore/splittunnel`, `nodecore/dnsproxy`, `nodecore/firewall` | packet decisions; rules, chains and files of the system | apply, remove, relay DNS, direct flows | the system, dataplane | a failing command; a crash in between | the system ends with what the configuration says |
| `nodecore/ingress`, `nodecore/location` | addresses, position | discover, report | portmap, controller | answers late, doubled or missing | what is reported is true; it is reported again to a controller that forgot |
| `nodecore/keystore`, `nodecore/enroll` | files | enroll, save, load | controller | crash between two files | key and certificate match |
| `internal/rpc` | connections, streams, log ring | Serve, Close, Call | both programs, terminal interface | streams beside calls; Close against accept | Close leaves nothing running |
| `cmd/corelink-node` | the instances in use, role and version | assemble, OnConfig, SwitchRole, Close | all of the node | a rebuild under traffic, failing half-way | one data plane, with the last configuration |

### How the parts interact

An administrator's request (`controller/admin`), an enrolment, a renewal or a
report of a node writes the database and calls `Notify.RecomputeAndNotify`.
A worker per node bumps the node's generation and puts it into the channels of
the streams subscribed for the node; the gRPC or WebSocket handler sends it; the
node's `sync.Client` compares it with the generation it holds and fetches the
configuration, which `ConfigHTTP` builds from the tables, the revocation list
and the node's assignment of `TopoService`. The topology service is driven by
reports of the nodes through `ingress.Receiver` and by a ticker, and calls
Notify itself when a node's assignment has changed. On the node, applying a
configuration calls `connpool.Pool.Update`; the packet loop and the senders of
`nodecore/dataplane` acquire connections from the pool.

Hard to test, and listed line by line under `hazards` in `PROJECT.json`:
a signal between two steps of a handler; a queue of four signals that overflows;
triggers that live in memory only; requests of several writes that fail or crash
half-way, beside one another; version numbers across failing saves and restarts;
an incremental computation that must equal a full one; two kinds of locks held
across a wait; background goroutines that outlive what they work for; answers
that are late; rules and files of the system that survive a crash.

## 2. Modules

| module | models | builds on |
|---|---|---|
| `ConfigNotify` | `configsvc/notify.go` and the stream handlers of `grpc.go`, `ws.go` | |
| `ConfigSync` | `configsvc/http.go`, `nodecore/sync/client.go`, the writers in `admin` and `ca`, restarts | `ConfigNotify`; `ConfigDelivery` as its abstract specification |
| `ConfigDelivery` | nothing of the code: what delivery promises | |
| `Enrollment` | `enroll/service.go`, `ipam/ipam.go`, `ca/manager.go`, `admin/nodes.go`, `admin/keys.go`, the queries of `store` they use | |
| `AccessPolicy` | `acl`, `routepolicy`, the content `buildNodeConfig` derives, the preview: operators | |
| `PolicyService` | the requests of `admin`, `internal/rpc/ctrlmethods`, `relayroster`, discovery, and the reads of `buildNodeConfig` | `AccessPolicy` |
| `ControllerProgram` | `cmd/corelink-controller` from start to shutdown, `EnsureCA`, server certificate, CRL cache | |
| `TopoOptimizer` | `topology/` eligibility, prune, assign, graph, kpaths, optimizer, incremental: pure functions | |
| `TopoIncremental` | `IncrementalOptimizer` as a state machine | `TopoOptimizer` |
| `ForwardingTable` | `topology/fib.go`, `dag.go` | |
| `TopoService` | `topology/service.go`, `topoadapter`, `topostore`, `ingress/receiver.go`, the node's `OnConfig` | optimizer as a parameter |
| `Failover` | `nodecore/sync/failover.go` and its two kinds of channel | |
| `LinkProbe` | `nodecore/probe`: state machines, reporter, both loops, the receiver | |
| `ProbeRouter` | `nodecore/proberouter`, the probes and route exchange of `dataplane`, `nodestore` | |
| `RelaySelector` | `nodecore/multirelay` | |
| `Portmap` | `portmap.go`, its lifecycle, the goroutines that use it | |
| `GatewayProtocols` | `natpmp.go`, `igd.go`: the three protocols | |
| `ConnPool` | `nodecore/connpool`, the packet loop and the senders of `nodecore/dataplane`, the write lock of `transport.Framer` | |
| `DataPlane` | `dataplane.go` Run, Close, goroutines and peer framers; `listener.go` | |
| `Outbound` | packets from the TUN device, `flowtrack`, `route`, `ApplyConfig` | |
| `FrameRelay` | a packet on its way over several nodes: `RelayForward`, loop avoidance, `OnFrame` | |
| `FrameStream` | two `Framer`s and the connection between them | |
| `PathTrace` | `runMTR`, `runMTREnum`, probe frames | |
| `SessionRouter` | `relay/mesh/session_route.go` | |
| `WireFormat` | `transport/frame.go`, the header parsers of `dataplane.go`, `dpi` | |
| `NodeProgram` | `cmd/corelink-node`: assembly, OnConfig, roles, Close | |
| `NodeIdentity` | `keystore`, the enrolment client and the start of the program | |
| `SplitTunnel`, `DnsRelay`, `DirectFlows` | `splittunnel`: the engine, DNS interception, the direct flows of `gvisor.go` | |
| `HostFirewall` | `firewall`, `dnsproxy`, their use in `ApplyConfig` | |
| `IngressDiscovery` | `nodecore/ingress`, declared ingresses, the reflector of the controller | |
| `NodeLocation` | `location`, the reporting goroutine, what the controller keeps | |
| `LocalRpc` | `internal/rpc` | |
| `MC*` | instances for TLC: small sets, tables of optimizer results, and the unions described below | the modules checked |
| `ConfigSync_proofs` | theorems about `ConfigNotify` and `ConfigSync` | `ConfigSync` |
| `Topology_proofs` | theorems about `TopoService`, `TopoIncremental` and `ForwardingTable` | `MCTopology` |
| `Admin_proofs`, `NodeTraffic_proofs`, `NodeHost_proofs`, `NodeServices_proofs` | theorems about the parts and the whole of an `MC` module | that module |

`PROJECT.json` maps every definition to its lines. In all modules one action is
one critical section, one database call, one command or one message, the
granularity at which goroutines, requests and processes interleave in the code.
Constants named `Max...`, `...Cap` and `...Room` and `Budget` are bounds of the
model (but for the limits of `ConnPool`); `ChanCap` (4 in the code), `SigCap` (16) and the limits, streaks and
thresholds of pool, optimizer, probes and selector are parameters of the code with
smaller values.

Components that share no state are checked side by side in one run: `MCAdmin`,
`MCTopology`, `MCNodeServices`, `MCNodeTraffic` and `MCNodeHost` extend several
modules, a variable `part` is chosen at the start, and only that part moves. A
property of such a run says `part = "x" => ...` for each part it is about; a
behaviour of one part is exactly a behaviour of its module, and fairness is
stated for the part that runs. Where components do interact the interaction is in
the module: the pool has its users as actions, `ConfigSync` extends
`ConfigNotify`, `TopoService` has the nodes that fetch, `DnsRelay`, `FrameRelay`,
`ProbeRouter` and `PathTrace` have several nodes.

### Configuration delivery (`ConfigNotify`, `ConfigSync`, `Failover`)

`subs`, `buf`, `chst` are the subscriptions, their channels and whether these
are open, `trig` and `wpc` the trigger channel and the worker of a node, `spc` the program counter
of a stream's handler, `wire` the connection. `Close` is two steps: closing the
channels under the lock and the wait for the workers. The gRPC and the WebSocket
handler differ in when they notice a lost client: only the former selects on its
context. `misused` is history: a send on or a close of a closed channel, which
would panic.

`ConfigSync` abstracts a node's tables to `data[n]`, the number of committed
changes that concern it, and the revocation list to its length. A fetch is three
reads (generation, tables, list), between which everything may happen. The
history variable `floor` remembers what each generation was made for. A restart
of the controller forgets everything `Notify` holds; a restart of a node forgets
its configuration and fetches before it subscribes.

`Failover` is the loop of `Run` and the goroutine that polls better endpoints
while a worse one is in use. Endpoints in `deaf` accept a connection but do not
follow the context of a receive, which is what gRPC channels do; which they are
is chosen at the start.

### The controller's tables (`Enrollment`, `PolicyService`, `ControllerProgram`)

In `Enrollment` a request is a program counter; each database call is an action with a variant
that fails, after which the compensations of `Service.Enroll` follow in their
order, each of which may fail, too (`MaxLeaks`). A certificate is named by the
request that issues it. A restart of the controller ends every request where it
stands and rebuilds the allocator's map from the leases.

`PolicyService` runs the administrator's requests, one database call at a time,
beside nodes that fetch: `db` are the tables, `served[n]` what node `n` was last
given, `dirty` those that have been notified, and `silent` (history) those a
change has reached that the code tells nothing. The upsert of a discovered mapping is
a look-up and a write, so that two reports may make two rows of one address; a
deletion whose first listing fails goes on and tells nobody. `AccessPolicy` computes a configuration
from the tables. `ControllerProgram` starts the process one durable write at
a time, stops it anywhere, and lets a certificate be revoked while the revocation
list is cached; what is generated is named by the start that generated it.

### Topology (`TopoOptimizer`, `TopoIncremental`, `ForwardingTable`, `TopoService`)

`TopoOptimizer` computes what the code computes, including tie-breaking by
identifiers in Dijkstra and Yen. `ForwardingTable` takes the first hops of any
base routes and removes edges that close a circle, any of them, as the code
walks Go maps. `TopoService` takes the optimizer as a parameter and uses the iron law
(`TopoIncremental` checks it) for `ApplyEdgeEvents`. A flush holds `TopoService.mu`
and is one step; the receiver's `Snapshot` is read in it, though the code takes
the lock of the receiver once per table. An ingress is its identifier; its
address is known or a placeholder. A failing `Load` is left out.

### Connection pool (`ConnPool`)

Connections are slots `<<peer, number>>`. `group`, `member`, `lazy`, `total` are
the fields of the pool; a dial in the background is counted in `dialing`, then
its connection is `arriving` (not yet looked for the group), `landing` (found it,
not yet joined), or `lost` (joined a group that had been removed meanwhile). The
two locks that are held across a wait are modelled by their holders: `upd` is
Update, which holds the pool's lock from start to end, and the lock of group
`upd.at`; `sweep` is the maintenance loop, which holds the lock of `sweep.at`
while it writes keepalives; `tun.held` are the write locks the packet loop keeps
over a batch. Which connection an acquisition prefers, backoff, idle times and
deadlines are nondeterministic. Rotation and standby peers need
`Config.ProbeRTT`, which no program sets. Dials beyond `MaxDialing` for a peer
are left out. A write that blocks on a full TCP buffer is not modelled here
(`FrameStream` has it).

### Data plane (`DataPlane`, `Outbound`, `FrameRelay`, `FrameStream`, `PathTrace`, `SessionRouter`, `WireFormat`)

`DataPlane` has the WaitGroup as a counter, `closeMu` as the order of check and
`Add`, and for each accepted connection the program counter of its handler;
`peerFramers` is the map a newer connection of a peer takes over. `Outbound` is the
TUN reader with the flow table beside `ApplyConfig`, which changes forwarding
table, pool and flows one after the other; `Within` and `Bits` stand for
prefixes. `FrameRelay` follows one packet at a time over nodes whose rankings
disagree and change; `FrameTtl` is the TTL of a frame, and the kernel between an
injected packet and the TUN device is external. In `FrameStream` a frame is its
pieces, the buffered writer and the kernel hold few of them, and the reader that
answers keepalives needs the lock the writers have. `PathTrace` sends requests
and replies hop by hop over links that come and go. `SessionRouter` keeps the
hash ring as the order `RingRank` in which a session meets the routes.
`WireFormat` gives each parser every combination of claimed lengths and of the
lengths of the input; its result records how many bytes it touched.

### Services of a node (`LinkProbe`, `ProbeRouter`, `RelaySelector`, `Portmap`)

`LinkProbe` has a machine per link on a discrete clock, two loops that probe
(direct and over relays) and what the controller has received; `fsmConfig` is the
thresholds, of the library or of the program. `ProbeRouter`
takes a round apart into copying the peers, probing, exchanging routes and
applying; the two nodes that would send to the target through each other are
both modelled, and a configuration may leave a node with the target, without it or
without any peer. `RelaySelector` keeps the history of rounds to say when a move is justified.
`Portmap` has the table of the gateway, two races for one port and the lifecycle.

### A node on its host (`NodeProgram` and the modules after it)

`NodeProgram` numbers the assemblies; `inst` are the instances each has made,
`agent` those in use. `SplitTunnel` and `HostFirewall` keep what the process knows
apart from what is in the system, which survives a crash; a resolver file is emptied,
then filled, and is `torn` in between and if the second step fails
(`os.WriteFile`). `DnsRelay` has the
connections either node has dialled: which side a frame arrives at decides what
becomes of it. `DirectFlows` separates the check for a closed stack from the
`Add` of the WaitGroup, as the code does. `NodeIdentity` writes the files one by
one, loses answers and limits the uses of a key. `IngressDiscovery`,
`NodeLocation` and `GatewayProtocols` have servers that answer late, twice or not
at all; interfaces may fail to be listed, NATs are any map of servers to addresses,
a mapping is asked for in two rounds, and an answer of an earlier exchange may reach a
later one. `LocalRpc` has readers, streams, a client that stops reading, and Close.

## 3. Runs

| run | question | instance | distinct states |
|---|---|---|---|
| `config_notify` | the hub under every order of notification, subscription, loss, failure, shutdown; does it end? | 1 node, a gRPC and a WebSocket stream, 2 calls, 1 fault, channels of 1 | 190 000 |
| `config_sync` | what a node holds under a generation; does delivery implement `ConfigDelivery`; does a new stream catch up? | 1 write of each kind, 1 fault, 1 restart, fairness | 331 000 |
| `config_sync_gap` (violation) | is a node kept up to date without a failure? | 1 admin write, fairness | trace of 23 states |
| `config_sync_renew` (violation) | does a renewal's revocation reach the nodes? | 1 renewal | trace of 11 |
| `controller` | keys, leases, certificates; policy; start and revocation | 2 enrolments, a renewal, a deletion, 1 fault, 1 leak or restart; 2 requests, 3 hosts, a failing read; 2 starts | 1 539 000 |
| `enrollment_vip` (violation) | are only free addresses allocated? | 3 enrolments, a deletion, no failure | trace of 20 |
| `topology` | versions, saves, settling; the iron law; forwarding without circles | 2 nodes, 2 reports each, restarts, a failing save; 5 nodes, 2 routes a pair, 3 changing links, batches of 2, on 4 rings and on a graph of ties; 3 nodes with 1 or 2 routes per pair | 169 000 |
| `topology_restart` (violation) | does a restart keep the assignments? | 2 reports, a restart | trace of 5 |
| `conn_pool_batch` (violation) | do the packet loop and the maintenance loop wait for each other? | 1 peer, a batch of 2 packets, no fault | trace of 8 |
| `node_services` | do probes, routes, relay, channel and mapping settle, and do the others know? | a direct link and one over a relay, with either set of thresholds; 4 nodes of which 2 choose; 3 relays; 2 endpoints, deaf or not; 2 protocols and 2 ports | 277 000 |
| `node_traffic` | pool, Close, flows, frames, traces, sessions, parsers | 2 peers; 2 connections of one peer and 2 DNS tasks; 3 flows, 2 configurations; 4 nodes in a ring; 2 traced routes; 3 routes, 2 sessions | 1 645 000 |
| `node_host` | identity, rebuilding, rules and files of the system, reports, local services | 3 assemblies; 2 destinations; 3 queries over 2 identifiers; 3 STUN servers and 4 NATs; 3 exchanges with a gateway; 3 starts; 4 direct flows; faults in each | 458 000 |

Why these bounds are enough for the cases of interest. Channels of one signal
overflow with two notifications. Two calls make a notification arrive while
the first one is being handled. Two enrolments compete for a one-time key, and
a deletion with an enrolment for a number; a third enrolment is needed to hand
out an address twice. Two policy requests overlap with a fetch, one host of three
is still to enrol. In `TopoIncremental` three nodes choose each other in a ring, so that
one event turns routes round, and a leaf depends on them. On the graph of ties
three paths of the pair (2, 4) cost the same and two of them are kept, so that the cut
falls among equals; there the result of a batch does differ from that of
`Optimize`, in the way `SameButTies` allows. With two routes a pair a path that runs
back through its own beginning is never among the cheapest; that routes visit no node
twice for any `RouteK` is proved (`RoutesSound`). A batch of two events
makes the incremental path (up to 50 % dirty pairs) and the full path both
happen. Three nodes are the fewest whose first hops make a circle that is not
just two neighbours. In `ConnPool` the second peer never gets a connection and so keeps
dialling, is not reachable, and competes for the one active place; two updates
are needed to add a peer and to remove it while a dial is under way.
With `LanHops = {}` the run does not exercise the upgrade to local addresses
(`onLan`, `expiring`); the theorems cover it. In `FrameRelay` every node of the ring may
rank the one before it first, and tables change while the frame is under way. A
kernel buffer of one piece blocks each writer. Three STUN servers tell an answer
of the second from a late one of the first, and one of the NATs maps alike for two
of them and not for the third. Three exchanges with a gateway are the two rounds of a mapping and a refresh, which
an answer to a round may reach. Three starts of a node meet a crash while
identity files are written, and a crash while they are written again.

Deadlock is checked in `config_notify`, where a system that stops would be an
error; in the other runs requests, packets or bounds are used up and the
configuration says so.

What the properties say is written above each of them. A property of a run over
several parts is a conjunction of the named properties of its parts:

| property | run | of |
|---|---|---|
| `NotifyEnds` | `config_notify` | `CloseTerminates`, `GoneClientGoesOffline`, `TriggerConsumed` |
| `NodesWhole` | `controller` | `FailedEnrollLeavesNothing`, `NodeHoldsLease`, `NodeKeepsCert` |
| `PolicyExact` | `controller` | `NobodyLeftBehind`, `PeersMutual`, `PreviewExact` |
| `ControllerSound` | `controller` | `OneRoot`, `RevokedShutOut` |
| `ResultsSound` | `topology` | `SameButTies`, `RoutesSound`, `FibSound` |
| `OthersAgree` | `node_services` | `ControllerKnowsState`, `LosersRemoved` |
| `ServicesConverge` | `node_services` | `LinksSettle`, `MutualEnds`, `RoutesFollowPeers`, `StaysConnected`, `ReturnsToBetter`, `LeavesDeadRelay`, `LostIsRebuilt` |
| `PacketsBounded` | `node_traffic` | `RelaysBounded`, `FlowsCounted` |
| `PeersUnderstand` | `node_traffic` | `FramesWhole`, `EchoedOnce`, `ReadsInside`, `WrittenIsRead`, `EveryHopReports`, `TraceTellsTruth` |
| `TrafficKeepsItsWay` | `node_traffic` | `FlowKeepsHop`, `KeepsOffDegraded`, `NoAddAfterWait`, `LatestConnectionStays` |
| `ReplacedCleanly` | `node_host` | `OneCurrentDataPlane`, `OwnResolvKept`, `RulesExact`, `QueriesAnswered`, `AnsweredAtMostOnce` |
| `ReportsTrue` | `node_host` | `StableIsStable`, `OwnAddressDialable`, `ExactIsTrue`, `RefreshKeeps` |
| `LocalServicesOrderly` | `node_host` | `CloseCoversAll`, `LinesPairUp`, `RecentIsNewest`, `CloseCoversCounted` |
| `HostRecovers` | `node_host` | `PositionComesBack`, `CloseEnds`, `DirectFlowsEnd` |

The others stand alone: `FreshWhenCurrent` (a node with the current generation
has the current data unless a notification is pending or was dropped),
`LabelFloor`, `SubscriberServed`, `NoPanic`, `NoBumpAfterClose`, `AppliesNewerOnly`, `ReconnectHeals`,
`OneTimeKeyAdmitsOne`, `RevokedKeyAdmitsNobody`, `ServedIsSaved`,
`VersionsNotReused`, `Settles`, `CountsAtLeastLive`, `NoStrayConn`,
`ClosedPoolIsEmpty`, `SwitchJustified`, `IdentityWhole`, `HeldWasGranted`, and
`DeliverySpec`, a refinement. Every property of a passing run has a mutant of the
code that breaks it, a merged one several (`PROJECT.json`).

### Disagreements found while modelling

1. `config_sync_gap`: a generation made between a handler's read and its
   subscription is signalled to nobody (`configsvc/grpc.go:75`, `ws.go:65-99`).
   The node keeps the old configuration until the next change; the HTTP polling
   the documentation names as third channel does not exist.
2. `config_sync_renew`: `Manager.Renew` announces before it revokes the old
   certificate (`ca/manager.go:128`); nodes may keep a list without it.
3. `enrollment_vip`: node numbers are reused and a deletion releases leases by
   number; a newcomer with the number loses its address, which is handed out again.
4. `topology_restart`: the receiver starts empty, so the first tick after
   a restart replaces the loaded result by one without nodes.
5. `conn_pool_batch`: a packet batch keeps write locks while it takes the lock
   of a group, keepalives are written the other way round; two packets for one
   peer are enough for both loops to stop.

Six more have no run of their own; the runs pass because the properties say what
does hold, and the sentence of the code that does not is named here.

6. The iron law of `incremental.go:19-21`, that the result equals `Optimize` of the new
   input field by field, does not hold when routes cost the same. The argument at
   `incremental.go:238-240` is that an edge that gets dearer leaves the routes alone
   that do not use it; it overlooks that a search names one of several equally dear
   paths, so that the edge may have hidden a path that precedes by name. The graph of
   ties in `topology` is a case: from 2 to 4 the path 2-3-4 costs 3, and 2-4, 2-1-4 and
   2-3-1-4 cost 4 each. The spur search from 2 names 2-4 and so hides 2-1-4; of 2-4
   and 2-3-1-4 the latter is kept as second route. Once 2-4 is lost, `Optimize` gives
   2-1-4, while the pair, none of whose routes uses 2-4, keeps 2-3-1-4. `SameButTies`
   says what holds: the results differ at most in which of several equally dear routes
   are named. The consequence for the service is a new version for the same quality
   of routes at the next full run, not a worse route.
7. `runNode` builds the `Reporter` without thresholds (`cmd/corelink-node/main.go:334-352`),
   and `isRecoverTrigger` compares a loss of 0 with a limit of 0
   (`linkstate_machine.go:304`): a link that was Degraded or Down once is never
   Healthy again, though the states of the machine (`linkstate_machine.go:7-10`) and its
   recovery trigger are there for that. `LinksSettle` is checked with these
   thresholds and with `DefaultLinkConfig`; that an up link becomes Healthy is asked
   of thresholds with which a machine recovers (`Recovers`), the rest of both.
8. `igd.go:471` promises that a second round does not repeat the ports of the first.
   `DefaultMapper.Map` runs a second round with the port 0 (`portmap.go:168-172`), for which
   `igdMap` begins with the internal port again (`igd.go:477-479`) and then computes the
   same candidates. `RefreshKeeps` says it of one round.
9. `OverrideResolv` trusts a backup that exists (`splittunnel/resolv.go:24`), and
   `os.WriteFile` (`:25`) leaves an empty or partial one when the process crashes or the disk is
   full. The next `OverrideResolv` makes no other, and `RestoreResolv` (`:39-49`) copies it
   over the own configuration. `OwnResolvKept` exempts exactly this (`cut`); any other
   file operation may fail or be cut short.
10. NAT-PMP's answers carry nothing to tell a late one by, and the code takes the first
    datagram that comes (`natpmp.go:150-159`, `185-199`): where the system gives a socket the
    port of an earlier one, a mapping or a refresh is confirmed by the answer to another request.
    `HeldWasGranted` asks of NAT-PMP that the port was granted once, of PCP and
    UPnP that it was granted in this exchange.
11. A configuration without any peer makes `probeAndApply` return before it withdraws the
    hops of a target (`router.go:198-200`), so that the data plane keeps ranked hops for a
    target that is gone. `RoutesFollowPeers` and `MutualEnds` are about nodes with a peer
    (`Probes`).

Behaviours that no property forbids and a reader of the code should know of:

- *Program.* A role change that fails at the new listener leaves the old one serving
  an assembly that is no longer in use; the data plane in use may be without
  its interface after a failed change; the engine made by a role change starts no DNS
  relay (`ApplyConfig` starts it with the first policy only).
- *Split tunnel.* A failed `NewStack` or rule clears the packet mark, which a later Apply
  does not set again; a decision made with the old rules is cached after a hot update
  has cleared the cache.
- *Data plane.* A connection that was accepted before the listener closed and would be
  tracked after it is handled on (`listener.go:126-130`); a packet that came over a dialled connection
  goes through the kernel and the TUN device, where nobody knows which node it came from,
  and may go back to it; a packet is dropped when the flow table is full although there
  is a route.
- *Ports.* Of two races at once, the removal of one's loser may remove the mapping the
  other has told the controller of; what is granted to a request that was cancelled nobody
  removes.
- *Routes.* The ranked hops of a target include those of routes whose farthest answer is
  not the target's.

### Exemptions, and what they stand for

Properties that hold with an exemption name it; the exemptions are behaviours of
the code a reader should know of.

- `FreshWhenCurrent` exempts dropped notifications (a full channel, a failing
  bump, a restart); `GoneClientGoesOffline` covers gRPC streams only; `Settles` exempts
  behaviours with a restart of the controller; `NoStrayConn` and
  `ClosedPoolIsEmpty` exempt connections that joined a removed group (`lost`).
- `PolicyExact` exempts `silent` hosts. `acl.set` of the local socket and
  `node rm` tell nobody, nor does a deletion that cannot list the nodes (`admin/nodes.go:111`); a host enrolled during a deletion keeps the deleted peer
  (`admin/nodes.go:106`); errors of reads are dropped (`http.go:199`, `201`); a report of discovery and
  its ageing concern nodes nobody tells. Two concurrent discovery reports can
  both leave a winner for one address, against `discovery.go:114`. A policy that
  cannot be parsed means that everyone sees everyone.
- `RevokedShutOut` is about new connections: an open stream goes on.
- `FibSound` allows a hop to be removed only when the first hops make a circle;
  the check unites all destinations, so two neighbours with direct routes to each
  other always do, and one of them loses its entry. No node reads the table.
- `LinksSettle`, `RefreshKeeps`, `OwnResolvKept`, `HeldWasGranted`, `RoutesFollowPeers`
  and `MutualEnds`: the points 7 to 11 above.
- `ReturnsToBetter` exempts a node that waits in the receive of a sound gRPC channel to
  the primary that carries no signal (`Unheard`): that receive does not follow
  its context (`client.go:269`), so that the poll neither ends nor reports.
  `StaysConnected` exempts nothing.
- `LosersRemoved` exempts mappings whose grant was lost or came to a cancelled request,
  whose removal failed or whose owner gave them up (`left`): among them those of two
  concurrent races.
- `RulesExact` exempts disabled DNS and an empty list of egress rules, after
  which nothing is flushed; `QueriesAnswered` asks that the proxy's port and
  upstream stay as they were, since a running proxy never learns of a change, and
  that the chain exempts no other upstream: after two changes, there and back, it
  exempts the one between them until it is flushed.
- `OwnAddressDialable` is about the addresses the interfaces listed (`listed`: an error
  of `net.Interfaces` or of one interface passes over them, `netif.go:40-42`, `60-63`), and exempts
  an address declared without a port, which hides the discovered one.
- `StableIsStable` is what `inferNatType` can know: two of the servers asked see the same
  address. A NAT that is alike for two and not for a third, and two names of one
  server, are reported as stable (`stun.go:311-314`).
- `LinesPairUp` is about the server. A `Client.Stream` that its `onData` ends returns
  with lines of the stream unread (`client.go:129`), which the next call on that client
  takes for its answer; only tests call `Client.Stream`.
- `CloseCoversCounted` exempts flows that passed the check for a closed stack
  before Close and were counted after it (`gvisor.go:213-225`); `DirectFlowsEnd`
  asks that no remote keeps a TCP flow open and silent, which no deadline ends.
- `AnsweredAtMostOnce` and not exactly once: a query sent over the connection the
  exit node dialled is taken for an answer and lost (`dataplane.go:497-516`), and
  two queries with one transaction identifier share a place.

### Fairness

Mostly weak fairness of single steps. In `ConfigNotify` and `ConfigSync` each step of a goroutine
that has started (worker, handler, caller, client): the Go scheduler runs
every runnable goroutine, and none of these waits for a lock another one holds
for ever. A connection that is up delivers, and a client without a stream
opens one, which is the retry loop of the failover manager. Nothing makes
a client leave, a write fail, or a process restart. In `TopoService` the ticker
(`main.go`) runs, the minimum interval elapses, a handler returns and a notified
node fetches; the latter is what `ConfigSync` establishes. In `MCNodeServices` the
tickers run and the loops go on: both probe steps of `LinkProbe`, the rounds and route
exchanges of `ProbeRouter`, the ticks of `RelaySelector` and of the port mapping's
lifecycle, both goroutines of `Failover`. In `MCNodeHost` the reporter and the
controller of `NodeLocation`, the accept loop, readers and streams of `LocalRpc`, and
the copying goroutines of `DirectFlows`. Links, gateways, remote hosts,
clients and administrators are never fair. `MCAdmin` and `MCNodeTraffic`
have no fairness: only safety is checked.

## 4. Proofs

All theorems hold for every value of the constants under the assumptions named
in the modules (finite sets, capacities above zero); TLC evaluates these on
every run. `tlapm` checks every proof. Two kinds of theorem have a hypothesis of
their own. `ServiceTypesHold` takes it that the roles an optimizer's result names
are roles of nodes (`Fits`), since `TopoService` has the optimizer as a parameter;
TLC evaluates it for the table of the instance (`OptimizerFits`). What is said of
the *best* routes after a batch takes it that no weight is above the 1,000,000 of an
edge without a measurement (`Affordable`, `prune.go:58`): of a dearer edge a DOWN
would be a gain, and `changedEdgeSet` counts every DOWN as a loss. A weight is
`rtt_ms + 10 * loss_permille` (`adapter.go:201`), so the hypothesis is that no round
trip is measured at 16 minutes.

- `ConfigSync_proofs`, the notifier. `NotifyInv` is types, the safety properties and three
  facts: a closed hub has no subscriptions, a registered channel is open, and
  a node has a trigger channel exactly when it has a worker, which is gone only
  after Close. The last is what makes `SubscriberServed` and `NoBumpAfterClose`
  inductive; the middle one `NoPanic`.
- `ConfigSync_proofs`, the delivery. `SyncInv` adds, for every node, that the floor of each
  generation is committed and that of the last one is the data itself unless
  a notification is pending or lost (`FloorInv`), what a fetch has read at each
  of its points (`FetchInv`), and what has been applied (`AppliedInv`).
  From it: `FreshWhenCurrent`, `LabelFloor`, `AppliesNewerOnly`, and that every
  step is a step of `ConfigDelivery` or none (`SyncImplementsDelivery`).
- `Admin_proofs`, for `MCAdmin` (its invariant is the conjunction of three).
  *Keys* (`KeyInv`): a request that has consumed a one-time key and not given it
  back is its only holder and the key is marked; a request that came after the
  revocation has not passed the check. *Nodes* (`CertInv`, `LeaseInv`, `CleanInv`,
  `WhyInv`): a certificate is revoked only when its request has ended or with its
  node, so that every node keeps one no compensation removes; while no deletion has begun, what
  an enrolment holds is leased to it and nobody else's, by the least free address
  (`LeastOf`); while no compensation has failed, every lease belongs to a node,
  to a request or to a deletion that has already read it, which needs that there
  is only one deletion. *Policy* (`FetchInv`): a host that nothing is
  going to tell of a change has either been served the configuration of the
  tables as they are, or every table its answer has read so far is still the
  same for it. The lemma behind it is that a configuration depends on
  the tables only through `AlikeFor` (`ConfigOfAlike`). *Program* (`DurableWhole`,
  `MemoryWhole`, `CacheWhole`): what is on the disk is of one piece after each
  durable write, what the process has read of it fits, and a cached list that
  lacks a certificate was read before its revocation.
- `Topology_proofs`, the service. For any optimizer: no row of the table is ahead of the
  counter (`TableInv`), and what is served is a row's content (`ServedInv`).
  From it `ServedIsSaved` and `VersionsNotReused`. `TypeInv` adds what a flush is
  given, so that `TypeOK` holds of what any optimizer with `Fits` computes.
- `Topology_proofs`, the forwarding tables, for any finite set of nodes. Nothing is used of
  the base routes but that the first hop of a route is another node
  (`AnyTablesAreSound`; `TablesAreSound` is the instance whose tables are built as in
  `fib.go`). What `Reached` computes layer by layer is closed under the edges, by
  counting nodes: as long as a layer is not closed it gains one. A graph with
  a circle has a closing edge and a graph with a closing edge a circle; taking
  an edge away makes no vertex reach farther. `FibInv` says that the graph is that
  of the tables as they are, that every hop is the first of a base route (`HopsLead`), and
  that the tables differ from the built ones only if those had a circle
  (`PrunedForCircles`); with no closing edge left it gives `FibSound`.
- `Topology_proofs`, the optimizer, for any graph, weights, thresholds, `RouteK` and
  batches. *Search*: in `shortest` settled vertices are no farther than labelled ones
  and every label is a path over settled vertices, so the path found is the
  cheapest without a repeated vertex that keeps off what was removed, and none is found
  only if there is none. *Yen*: for every spur root of every route found the
  candidates hold one as cheap as any path that leaves there (`Covers`), so the
  next route taken is the cheapest not yet taken; hence `KShortestSound` (`KShortestIs`): the
  `RouteK` cheapest in ascending order, or every path there is. *Split
  graph*: its paths alternate between nodes and ingresses, and compressed
  they are routes through kept edges that cost the same (`RouteCosts`). *Batch*:
  `OptInv(1)` says that every pair holds such a list for the present weights. A pair
  that is not dirty keeps it: its own routes weigh what they did, no other path
  has become cheaper. `OptInv(0)`, which needs no hypothesis on the weights, asks of
  the lists only that they are paths in ascending order and there if a path is, and
  gives `RoutesSound` (`AnyRoutesAreSound`). From `OptInv(1)`: the routes held are k shortest
  (`KeptRoutesStayBest`); place by place they cost what those of `Optimize` cost, by counting
  (`NoMoreThan`), all else being equal (`IncrementalIsFullUpToTies`); and
  where no two paths of a pair cost the same the result is that of `Optimize`
  (`IncrementalIsFull`). `ResultsAreSound` says it of the specification the run
  checks, with the forwarding tables.
- `NodeTraffic_proofs`, the pool. For any peers, local or not, any limits and bounds.
  `CountsAtLeastLive` is not inductive: a keepalive may count out a connection
  that a sender has closed without counting, so the open connections and those
  a keepalive is being written to (`Pending`) together are below the counter,
  which needs that the two walks are never in one group (`WalksInv`).
  `PlaceInv` says in addition to `NoStrayConn` that a peer without a group has
  no connections and that a goroutine about to join has found a group that
  still exists; `CloseInv` that no Update runs once Close has begun.
- `NodeTraffic_proofs`, the other parts of `MCNodeTraffic`, and the whole.
  *Data plane* (`DpInv`): the WaitGroup is the number of goroutines that have not
  ended; who has looked at the context holds the read lock until it has joined,
  so nobody joins once Close waits. *Flows* (`OutInv`): the counter is the size of
  the table, and a packet under way carries the hop of its flow for as long as that is
  in the table. *Frames* (`FrameInv`): a frame has lost one of its TTL with every
  node that relayed it, whatever the tables say. *Stream* (`FsInv`): what is in the
  buffered writer, the connection and the hands of the writers is made of whole
  frames but for the one the holder of the lock is writing (`FsCore`, `FsTasks`);
  the number of a keepalive is in at most one place of its way there and back (`FsEcho`); there are
  no more lookups than queries were written (`FsQueries`). *Trace* (`PtInv`): of
  the round somebody waits for there is one request, and one reply of each hop it
  has passed, on its way or come back (`PtOnce`), which while no link changes had
  the links before it (`PtTrue`) and, if the links of the route hold, does not go
  astray (`PtReports`). *Sessions* (`SessInv`), for any paths, sessions and rings:
  a session that was not driven off is where the ring sends it (`Homed`); a route
  a session left is marked in the present baseline, if it is in it
  (`LeftIsMarked`); a session on a route it left has every other one marked
  (`StuckOnly`). A baseline renumbers the routes, so the step that needs the
  argument is `SetBaseline` (`SetBaselineKeeps`); that a search of the ring ends
  at the first unmarked route is `ClockwiseIn`, by the least element of a set of
  naturals. *Layouts* (`WireInv`, `HelloInv`): each parser reads inside its input
  for every claimed length, the walk over a ClientHello one extension at a time.
- `NodeHost_proofs`, for `MCNodeHost`; `HostInv` is the conjunction of the
  invariants of its parts.
  *Program* (`NpInv`): between two configurations all that is in use has the last
  one (`UpToDate`), and a second data plane runs only while it takes the place of
  the first (`OneRuns`). *Split tunnel* (`StInv`): as long as the writing of no backup was
  cut short, a backup is of the system's own file (or still being written), the own file is
  in place or in the backup, and while the resolver file is rewritten it is in the backup
  (`ResolvSafe`). *DNS relay* (`DnsInv`): a query
  waits under one identifier at most, and no longer once it is answered.
  *Firewall* (`FwInv`): the commands still to run are a
  tail of the list that was taken (`Remains`), and as long as none has failed each
  chain holds what the commands run so far put there (`FilledSoFar`, `FilledBy`);
  a program that died leaves chains nobody flushed, so that the invariant speaks
  of the rules only from the flush on. *Addresses* (`IngressInv`): `Merge` keeps, for
  each candidate, one of its address that is no less trustworthy, and invents
  nothing (`Represented`, `MergeKeeps`); the target an answer names is one that was
  asked (`AnswerSound`), so that two equal answers of two targets are what the NAT maps
  both of them to; the candidates hold an address for every host the interfaces
  listed (`Owned`). *Position* (`LocInv`): whatever is on its way is exact only where
  it is true. *Gateway* (`GwInv`): an answer names a port granted, for a time, in the exchange it
  answers, and what is held is such a port; the ports tried in a round are distinct since no multiple of the step
  below the attempts is a multiple of the span (`CandsDistinct`). *Local socket*
  (`RpcInv`): the requests of a connection are, in the order of their numbers,
  answered, at work, with the reader, or sent (`InTurn`), and the WaitGroup counts
  connections and streams. *Log* (`LogInv`): an entry stands at its number modulo
  the capacity. *Identity* (`IdentityInv`): `Saving` gives, for each point of
  `SaveIdentity`, the files that are of this enrolment; `MetaLast` that the file
  written last vouches for the others; `Told` that what the controller was told
  (or is being told) is on the disk, which the two steps of the WireGuard key make
  true before the request is sent (`KeyPair`). *Direct flows* (`DirectInv`): the
  WaitGroup is the number of goroutines, and what runs after the stack was closed
  had been counted once Close had begun.

- `NodeServices_proofs`, for `MCNodeServices`; `ServiceInv` is the conjunction of the
  invariants of its parts, and a step of one leaves the others' variables alone.
  *Links* (`LinkInv`): the controller has the state of a link, or a report about
  it was lost or is about to be sent; a link without a machine counts as one with
  a new machine (`StatesKnown`). *Routes* (`ProbeInv`): what a round found, what
  the node settled on and what it would restart on leads over another node.
  *Relay* (`SelInv`): the streaks and failures a leaf has counted are the last
  rounds of its history (`CountersSeen`), from which every switch is `Justified`; the
  order of probing holds every candidate, placed one by one (`Place`).
  *Controllers* (`FoInv`): types, with the list a scan works on. *Ports* (`PmInv`): a
  mapping of the gateway has an owner, which needs that a caller at rest has won
  nothing and that an entry is left only with its mapping noted (`PmOwners`).

The assumptions of the constants of `MCNodeHost` that are more than types:
`GatewayAssumption`, the arithmetic of `nextCandidateExternalPort` with its
constants; `FirewallAssumption`, that a DNS part that is sent has a mode and that
the proxy's mark is nobody's address. `IngressAssumption` is types: any map of servers to
addresses may be a NAT, and a server may have two names.

The assumptions of the other instances are types, ranges and bounds of their
constants (`PortmapAssumption`, `FailoverAssumption`, `LinkAssumption`,
`SelectorAssumption`, `ForwardingAssumption`); `BatchAssumption` says that a
baseline starts from an input of the form the controller builds (`IsInput`).

Only model-checked: everything about liveness and fairness (`NotifyEnds`,
`ReconnectHeals`, `Settles`, `ServicesConverge`, `HostRecovers`), and the violations.

## 5. Not modelled, and why

Listed with reasons in `PROJECT.json` under `components`. In short: generated
code, the terminal interface, the web console, packaging and the code for each
operating system are I/O or text. Of modelled components: database schema and
transactions below one query; TLS, keys and certificates as data; sessions and
passwords of administrators; addresses and fingerprints of an ingress in the
topology (`resultContentEqual` ignores them) and a failing `Load`; standby peers
and rotation, which need a callback no program sets; backoff times; ports of
access rules, which are merged into all ports and reach no configuration; the
reading of configuration files and join tokens. Code without a caller:
`relayclient`, `nodecore/discovery`, `BandwidthReceiver`, `BuildGraph`,
`InjectPublishedPrefixes`, the overlap checks of `routepolicy/validate.go`, weighted and
domain routes. `SessionRouter` has no caller either and is modelled because its
rules are the ones hardest to get right by tests.

## 6. Plan

Done: every module of section 2 and the theorems of section 4.

Next, in this order:

1. `ConnPool`: the liveness property that a peer gets its minimum of
   connections back while the budget allows it. The counter is not decremented
   where the senders close a connection (`dataplane.go:389`, `827`) nor where
   a landing finds no group (`pool.go:148`), so once it has drifted to the limit
   `maintainMinConns` never dials again: a violation run. A run with a local peer.
2. Composition: `Failover` with `ConfigSync` (a signal received by the goroutine
   of a channel that is left is discarded, `failover.go:221`); `Outbound` with
   `FrameRelay`; `Portmap` with `IngressDiscovery`.
3. The address fields of an ingress in `TopoIncremental`.
