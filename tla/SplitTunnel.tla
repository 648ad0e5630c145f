----------------------------- MODULE SplitTunnel -----------------------------
(***************************************************************************)
(* The split-tunnelling engine of a node: a wrapper around the TUN device  *)
(* that sends a packet out directly through a user-space stack or into the *)
(* tunnel, and the policy routes, packet mark and resolver configuration   *)
(* it installs in the system.  The program's goroutine applies and removes *)
(* policies step by step, each step may fail; the data plane's reader      *)
(* decides packets meanwhile; the process may crash between any two steps, *)
(* and the ip rules and the resolver files survive it (the routes through  *)
(* the TUN device do not).                                                 *)
(***************************************************************************)
EXTENDS Integers, Sequences, FiniteSets

CONSTANTS Dsts,      \* destinations outside the virtual network, one connection each
          MaxPolicy  \* bound: policies applied

ASSUME SplitAssumption == MaxPolicy \in Nat

VARIABLES eng,    \* Engine and wrapper: rules, stack present, active, applied
          sys,    \* ip rules, packet mark, resolv.conf and its backup
          cache,  \* connCache: connection to action
          reader, \* the packet a Read has decided and not yet cached
          op,     \* the program's goroutine: its next step, and of what
          round,  \* policies applied so far
          cut     \* the writing of the backup was once cut short (nothing reads it)

stVars == <<eng, sys, cache, reader, op, round, cut>>

Actions == {"direct", "proxy"}
Rules == {"table", "fwmark", "main"}       \* what InstallPolicyRoutes adds, in order
Contents == {"own", "public", "torn"}      \* of a resolver file; torn: empty or incomplete
NoAction == "none"
Clean == [d \in Dsts |-> NoAction]
NoEngine == [rules |-> [d \in Dsts |-> "direct"], stack |-> FALSE, active |-> FALSE,
             applied |-> FALSE]
NoRead == [dst |-> "none", act |-> NoAction]

StTypeOK ==
  /\ eng \in [rules: [Dsts -> Actions], stack: BOOLEAN, active: BOOLEAN, applied: BOOLEAN]
  /\ sys \in [rules: SUBSET Rules, mark: BOOLEAN, resolv: Contents,
              backup: Contents \cup {"none"}]
  /\ cache \in [Dsts -> Actions \cup {NoAction}]
  /\ reader \in [dst: Dsts \cup {"none"}, act: Actions \cup {NoAction}]
  /\ op \in [step: Rules \cup {"down", "idle", "stack", "backup", "save", "override", "rewrite",
                              "activate", "clear", "unroute", "restore", "return", "unback", "stop"},
             of: {"start", "apply", "clean", "exit"}]
  /\ round \in 0 .. MaxPolicy
  /\ cut \in BOOLEAN

StInit ==
  /\ eng = NoEngine /\ reader = NoRead /\ round = 0 /\ cut = FALSE
  /\ op = [step |-> "down", of |-> "exit"]
  /\ sys = [rules |-> {}, mark |-> FALSE, resolv |-> "own", backup |-> "none"]
  /\ cache = Clean

Step(step) == op' = [op EXCEPT !.step = step]
Begin(step, of) == op' = [step |-> step, of |-> of]

(* The program starts, or assembles its data plane anew for another role:    *)
(* the old TUN device goes, with the routes through it; NewEngine marks the  *)
(* sockets of the process.  SetupTransit first removes what a former engine  *)
(* left, when the policy is enabled.                                         *)
Assemble(removes) ==
  /\ op.step \in {"down", "idle"}
  /\ eng' = NoEngine /\ cache' = Clean /\ reader' = NoRead
  /\ sys' = [sys EXCEPT !.mark = TRUE, !.rules = @ \ {"table"}]
  /\ Begin(IF removes THEN "unroute" ELSE "idle", "start")
  /\ UNCHANGED <<round, cut>>

(* Apply: rules first, then the stack, routes and resolver of the first     *)
(* policy, or the cache cleared for a later one.                            *)
Apply(rules) ==
  /\ op.step = "idle" /\ round < MaxPolicy
  /\ round' = round + 1
  /\ eng' = [eng EXCEPT !.rules = rules]
  /\ Begin(IF eng.applied THEN "clear" ELSE "stack", "apply")
  /\ UNCHANGED <<sys, cache, reader, cut>>

(* A disabled policy cleans up what is applied; so does Close, applied or not. *)
StartCleanup(of) ==
  /\ op.step = "idle" /\ (of = "clean" => eng.applied)
  /\ eng' = [eng EXCEPT !.active = FALSE]
  /\ Begin("unroute", of)
  /\ UNCHANGED <<sys, cache, reader, round, cut>>

NewStack ==
  /\ op.step = "stack"
  /\ \/ eng' = [eng EXCEPT !.stack = TRUE] /\ Step("table") /\ UNCHANGED sys
     \/ sys' = [sys EXCEPT !.mark = FALSE] /\ Step("idle") /\ UNCHANGED eng
  /\ UNCHANGED <<cache, reader, round, cut>>

AfterRule == [table |-> "fwmark", fwmark |-> "main", main |-> "backup"]

(* InstallPolicyRoutes: a failed command closes the stack and clears the    *)
(* mark; the rules added before it stay.                                    *)
InstallRule ==
  /\ op.step \in Rules
  /\ \/ sys' = [sys EXCEPT !.rules = @ \cup {op.step}] /\ Step(AfterRule[op.step])
        /\ UNCHANGED eng
     \/ sys' = [sys EXCEPT !.mark = FALSE] /\ eng' = [eng EXCEPT !.stack = FALSE]
        /\ Step("idle")
  /\ UNCHANGED <<cache, reader, round, cut>>

(* OverrideResolv and RestoreResolv write with os.WriteFile: the file is      *)
(* emptied and then filled, either may fail, and the process may crash in     *)
(* between.  The file is then torn.                                           *)
WriteFails(step) == Step(step) /\ UNCHANGED sys

(* OverrideResolv: the backup is written only when there is none; one that   *)
(* exists is trusted, whatever is in it.                                     *)
HasBackupNever == FALSE
HasBackup == sys.backup # "none"

BackupResolv ==
  /\ op.step = "backup"
  /\ \/ WriteFails("activate")
     \/ HasBackup /\ Step("override") /\ UNCHANGED sys
     \/ ~HasBackup /\ sys' = [sys EXCEPT !.backup = "torn"] /\ Step("save")
  /\ UNCHANGED <<eng, cache, reader, round, cut>>

SaveBackup ==
  /\ op.step = "save"
  /\ \/ sys' = [sys EXCEPT !.backup = sys.resolv] /\ Step("override") /\ UNCHANGED cut
     \/ WriteFails("activate") /\ cut' = TRUE
  /\ UNCHANGED <<eng, cache, reader, round>>

OverrideResolv ==
  /\ op.step = "override"
  /\ \/ sys' = [sys EXCEPT !.resolv = "torn"] /\ Step("rewrite")
     \/ WriteFails("activate")
  /\ UNCHANGED <<eng, cache, reader, round, cut>>

WritePublic ==
  /\ op.step = "rewrite"
  /\ sys' \in {sys, [sys EXCEPT !.resolv = "public"]}
  /\ Step("activate")
  /\ UNCHANGED <<eng, cache, reader, round, cut>>

Activate ==
  /\ op.step = "activate"
  /\ eng' = [eng EXCEPT !.active = TRUE, !.applied = TRUE]
  /\ Step("idle")
  /\ UNCHANGED <<sys, cache, reader, round, cut>>

ClearCache ==
  /\ op.step = "clear"
  /\ cache' = Clean
  /\ Step("idle")
  /\ UNCHANGED <<eng, sys, reader, round, cut>>

(* RemovePolicyRoutes, then the rest of cleanupLocked. *)
Removed == IF op.of = "start" THEN "idle" ELSE "stop"

RemovePolicyRoutes ==
  /\ op.step = "unroute"
  /\ sys' = [sys EXCEPT !.rules = {}]
  /\ Step(IF sys.backup = "none" THEN Removed ELSE "restore")
  /\ UNCHANGED <<eng, cache, reader, round, cut>>

RestoreResolv ==
  /\ op.step = "restore"
  /\ \/ sys' = [sys EXCEPT !.resolv = "torn"] /\ Step("return")
     \/ WriteFails(Removed)
  /\ UNCHANGED <<eng, cache, reader, round, cut>>

WriteBack ==
  /\ op.step = "return"
  /\ \/ sys' = [sys EXCEPT !.resolv = sys.backup] /\ Step("unback")
     \/ WriteFails(Removed)
  /\ UNCHANGED <<eng, cache, reader, round, cut>>

RemoveBackup ==
  /\ op.step = "unback"
  /\ sys' \in {sys, [sys EXCEPT !.backup = "none"]}
  /\ Step(Removed)
  /\ UNCHANGED <<eng, cache, reader, round, cut>>

CleanupEnds ==
  /\ op.step = "stop"
  /\ eng' = [eng EXCEPT !.stack = FALSE, !.applied = FALSE]
  /\ cache' = Clean
  /\ sys' = [sys EXCEPT !.mark = FALSE]
  /\ Step(IF op.of = "exit" THEN "down" ELSE "idle")
  /\ UNCHANGED <<reader, round, cut>>

Crash ==
  /\ op.step # "down"
  /\ eng' = NoEngine /\ cache' = Clean /\ reader' = NoRead
  /\ sys' = [sys EXCEPT !.mark = FALSE, !.rules = @ \ {"table"}]
  /\ Begin("down", "exit")
  /\ cut' = (cut \/ op.step = "save")
  /\ UNCHANGED round

----------------------------------------------------------------------------
(* Read: the decision of a connection's first packet is cached; it is made  *)
(* and stored in two steps, under two locks.                                *)
ReadPacket(d) ==
  /\ eng.active /\ eng.stack /\ reader = NoRead /\ cache[d] = NoAction
  /\ reader' = [dst |-> d, act |-> eng.rules[d]]
  /\ UNCHANGED <<eng, sys, cache, op, round, cut>>

CachePut ==
  /\ reader # NoRead /\ op.step # "down"
  /\ cache' = [cache EXCEPT ![reader.dst] = reader.act]
  /\ reader' = NoRead
  /\ UNCHANGED <<eng, sys, op, round, cut>>

(* An entry ages out, or is evicted from the full table. *)
CacheExpires(d) ==
  /\ op.step # "down" /\ cache[d] # NoAction
  /\ cache' = [cache EXCEPT ![d] = NoAction]
  /\ UNCHANGED <<eng, sys, reader, op, round, cut>>

SetUp == \/ \E removes \in BOOLEAN: Assemble(removes)
         \/ \E rules \in [Dsts -> Actions]: Apply(rules)
         \/ NewStack \/ InstallRule \/ BackupResolv \/ SaveBackup \/ OverrideResolv \/ WritePublic
         \/ Activate \/ ClearCache
TakeDown == \/ \E of \in {"clean", "exit"}: StartCleanup(of)
            \/ RemovePolicyRoutes \/ RestoreResolv \/ WriteBack \/ RemoveBackup \/ CleanupEnds \/ Crash

StNext == SetUp \/ TakeDown \/ CachePut \/ \E d \in Dsts: ReadPacket(d) \/ CacheExpires(d)

StSpec == StInit /\ [][StNext]_stVars

----------------------------------------------------------------------------
(* OverrideResolv and RestoreResolv: the system's own resolver configuration *)
(* is in place or in the backup, whichever other file operation fails or is  *)
(* cut short by a crash and however often the process is started again: it   *)
(* is lost only through a backup whose own writing was cut short, which the  *)
(* next Apply trusts and the next cleanup copies over it.                    *)
OwnResolvKept == ~cut => sys.resolv = "own" \/ sys.backup = "own"
==============================================================================
