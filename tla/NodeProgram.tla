---------------------------- MODULE NodeProgram ----------------------------
(***************************************************************************)
(* The node program: how cmd/corelink-node puts its subsystems together,   *)
(* applies every configuration to them, rebuilds them when its role in the *)
(* topology changes, and takes them down.  One goroutine runs the assembly *)
(* and the OnConfig callback; the goroutines of the peers' connections use *)
(* the data plane the assembler holds at that moment, so they interleave   *)
(* with every step of a rebuild.  Each assembly makes a new instance of    *)
(* the data plane, the split engine and the probe router; an instance is   *)
(* the number of the assembly that made it, 0 stands for nil.              *)
(***************************************************************************)
EXTENDS Integers, FiniteSets

CONSTANTS Dialers,      \* nodes that dial this node's data plane listener
          MaxAssembly,  \* bound: assemblies of the data plane
          MaxConfig     \* bound: configurations received

ASSUME NodeAssumption == MaxAssembly \in Nat \ {0} /\ MaxConfig \in Nat \ {0}

VARIABLES agent,   \* realAssembler: the instances it holds
          inst,    \* the instances made so far
          inbound, \* connections of the peers, and where they are registered
          held,    \* the configuration being applied, last one received
          topo,    \* nodeState: role and topology version
          at       \* where the main goroutine is, and on whose behalf

npVars == <<agent, inst, inbound, held, topo, at>>

Roles == {"LEAF", "TRANSIT"}
Assemblies == 1 .. MaxAssembly
NotConnected == -1

NoInstance == [tun |-> FALSE, dp |-> "none", cfg |-> 0, peers |-> 0, policy |-> 0,
               relay |-> FALSE]

NpTypeOK ==
  /\ agent \in [dp: 0 .. MaxAssembly, split: 0 .. MaxAssembly, pr: 0 .. MaxAssembly,
                listener: 0 .. MaxAssembly, relay: BOOLEAN]
  /\ inst \in [Assemblies -> [tun: BOOLEAN, dp: {"none", "running", "closed"},
                              cfg: 0 .. MaxConfig, peers: 0 .. MaxConfig,
                              policy: 0 .. MaxConfig, relay: BOOLEAN]]
  /\ inbound \in [Dialers -> NotConnected .. MaxAssembly]
  /\ held \in [n: 1 .. MaxConfig, role: Roles, ver: Nat, split: BOOLEAN]
  /\ topo \in [role: Roles, ver: Nat]
  /\ at \in [step: {"tun", "core", "listen", "swap", "apply", "decide", "commit", "sync",
                    "close", "done"},
             boot: BOOLEAN, n: 0 .. MaxAssembly]

(* runNode: the first configuration was fetched over HTTP. *)
FirstConfigs == {[n |-> 1, role |-> r, ver |-> 1, split |-> s] : r \in Roles, s \in BOOLEAN}

NpInit ==
  /\ agent = [dp |-> 0, split |-> 0, pr |-> 0, listener |-> 0, relay |-> FALSE]
  /\ inst = [n \in Assemblies |-> NoInstance]
  /\ inbound = [d \in Dialers |-> NotConnected]
  /\ held \in FirstConfigs
  /\ topo = [role |-> held.role, ver |-> held.ver]
  /\ at = [step |-> "tun", boot |-> TRUE, n |-> 0]

Goto(step) == at' = [at EXCEPT !.step = step]

(* What follows an assembly: the program applies the first configuration,  *)
(* OnConfig records the role.                                               *)
Assembled == IF at.boot THEN "apply" ELSE "commit"

(* A failed assembly: SetupTransit swallows the error, SetupLeaf returns it *)
(* and the program ends when it was starting; OnConfig logs it and records  *)
(* the role all the same.                                                   *)
AssemblyFails ==
  Goto(IF at.boot /\ held.role = "LEAF" THEN "close" ELSE Assembled)

----------------------------------------------------------------------------
(* setupNodeCore, in the order of its effects.  cleanupBeforeStart deletes *)
(* every TUN interface of the program's name, the live one included.       *)
CreateTun ==
  /\ at.step = "tun" /\ at.n < MaxAssembly
  /\ \/ /\ inst' = [n \in Assemblies |-> [inst[n] EXCEPT !.tun = (n = at.n + 1)]]
        /\ agent' = [agent EXCEPT !.split = at.n + 1]
        /\ at' = [at EXCEPT !.step = "core", !.n = @ + 1]
     \/ /\ inst' = [n \in Assemblies |-> [inst[n] EXCEPT !.tun = FALSE]]
        /\ AssemblyFails
        /\ UNCHANGED agent
  /\ UNCHANGED <<inbound, held, topo>>

(* The data plane is made, given the configuration and started, and a new   *)
(* probe router takes the place of the old one (which keeps running).       *)
BuildCore ==
  /\ at.step = "core"
  /\ \/ /\ inst' = [inst EXCEPT ![at.n].dp = "running", ![at.n].cfg = held.n,
                                ![at.n].peers = held.n]
        /\ agent' = [agent EXCEPT !.pr = at.n]
        /\ Goto("listen")
     \/ /\ inst' = [inst EXCEPT ![at.n].tun = FALSE]   \* no certificate
        /\ AssemblyFails
        /\ UNCHANGED agent
  /\ UNCHANGED <<inbound, held, topo>>

(* The port cannot be bound again while the previous listener has it. *)
Listen ==
  /\ at.step = "listen"
  /\ \/ agent.listener = 0 /\ agent' = [agent EXCEPT !.listener = at.n]
     \/ UNCHANGED agent
  /\ Goto("swap")
  /\ UNCHANGED <<inst, inbound, held, topo>>

(* The new handles are stored, then the old data plane is closed (its       *)
(* connection pool and its probe router are not).                           *)
NothingClosed(n) == inst
Replaced(n) == [inst EXCEPT ![n].dp = "closed", ![n].tun = FALSE]

Swap ==
  /\ at.step = "swap"
  /\ agent' = [agent EXCEPT !.dp = at.n]
  /\ inst' = IF agent.dp = 0 THEN inst ELSE Replaced(agent.dp)
  /\ Goto(Assembled)
  /\ UNCHANGED <<inbound, held, topo>>

----------------------------------------------------------------------------
(* ApplyConfig: data plane and probe router, then the split engine; the DNS *)
(* relay is made once, with the first policy (split: one with a reachable    *)
(* exit), and only the engine of that moment is told of it.                 *)
Applied(n) ==
  LET makesRelay == ~agent.relay /\ held.split
  IN  [inst[n] EXCEPT
         !.cfg    = IF n = agent.dp THEN held.n ELSE @,
         !.peers  = IF n = agent.pr THEN held.n ELSE @,
         !.policy = IF n = agent.split /\ held.split THEN held.n ELSE @,
         !.relay  = @ \/ (n = agent.split /\ makesRelay)]

ApplyConfig ==
  /\ at.step = "apply"
  /\ inst' = [n \in Assemblies |-> Applied(n)]
  /\ agent' = [agent EXCEPT !.relay = @ \/ (held.split /\ agent.split # 0)]
  /\ Goto(IF at.boot THEN "sync" ELSE "decide")
  /\ UNCHANGED <<inbound, held, topo>>

(* OnConfig: the callback runs to its end before the next one. *)
OnConfig ==
  /\ at.step = "sync" /\ held.n < MaxConfig
  /\ \E r \in Roles, v \in held.ver .. held.ver + 1, s \in BOOLEAN :
       held' = [n |-> held.n + 1, role |-> r, ver |-> v, split |-> s]
  /\ at' = [at EXCEPT !.step = "apply", !.boot = FALSE]
  /\ UNCHANGED <<agent, inst, inbound, topo>>

(* Nothing more to do, a new version of the topology, or a new role. *)
Decide ==
  /\ at.step = "decide"
  /\ Goto(IF held.ver <= topo.ver /\ held.role = topo.role THEN "sync"
          ELSE IF held.role = topo.role THEN "commit" ELSE "tun")
  /\ UNCHANGED <<agent, inst, inbound, held, topo>>

Commit ==
  /\ at.step = "commit"
  /\ topo' = [role |-> held.role, ver |-> held.ver]
  /\ Goto("sync")
  /\ UNCHANGED <<agent, inst, inbound, held>>

(* The context ends: Run returns once no callback is running. *)
RunEnds ==
  /\ at.step = "sync"
  /\ Goto("close")
  /\ UNCHANGED <<agent, inst, inbound, held, topo>>

(* Close: the handles are taken out under the lock, then closed. *)
Close ==
  /\ at.step = "close"
  /\ agent' = [agent EXCEPT !.dp = 0, !.split = 0, !.listener = 0]
  /\ inst' = IF agent.dp = 0 THEN inst ELSE Replaced(agent.dp)
  /\ inbound' = IF agent.listener = 0 THEN inbound ELSE [d \in Dialers |-> NotConnected]
  /\ Goto("done")
  /\ UNCHANGED <<held, topo>>

----------------------------------------------------------------------------
(* The listener's callbacks: they ask the assembler for its data plane. *)
OnPeerConnect(d) ==
  /\ agent.listener # 0 /\ inbound[d] = NotConnected
  /\ inbound' = [inbound EXCEPT ![d] = agent.dp]
  /\ UNCHANGED <<agent, inst, held, topo, at>>

OnPeerDisconnect(d) ==
  /\ agent.listener # 0 /\ inbound[d] # NotConnected
  /\ inbound' = [inbound EXCEPT ![d] = NotConnected]
  /\ UNCHANGED <<agent, inst, held, topo, at>>

NpNext == \/ CreateTun \/ BuildCore \/ Listen \/ Swap \/ ApplyConfig \/ OnConfig \/ Decide
          \/ Commit \/ RunEnds \/ Close
          \/ \E d \in Dialers: OnPeerConnect(d) \/ OnPeerDisconnect(d)

NpSpec == NpInit /\ [][NpNext]_npVars

----------------------------------------------------------------------------
(* Between two configurations the node has applied the last one to the data *)
(* plane and the probe router it uses, whether it came as an update or with *)
(* a change of role, and even when that change failed half way; and no      *)
(* other data plane is left running on the interface (setupNodeCore's swap, *)
(* ApplyConfig, SwitchRole).                                                *)
OneCurrentDataPlane ==
  at.step \in {"sync", "done"} =>
    /\ agent.dp # 0 => inst[agent.dp].cfg = held.n
    /\ agent.pr # 0 /\ at.step = "sync" => inst[agent.pr].peers = held.n
    /\ \A n \in Assemblies: inst[n].dp = "running" => n = agent.dp
=============================================================================
