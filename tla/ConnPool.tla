------------------------------ MODULE ConnPool ------------------------------
(***************************************************************************)
(* The pool of outgoing tunnel connections of a node,                      *)
(*   internal/nodecore/connpool/pool.go                                    *)
(* and the goroutines that use it: the packet loop of                      *)
(*   internal/nodecore/dataplane/dataplane.go   runTUNRead                 *)
(* which writes a batch of packets holding the write lock of every         *)
(* connection it has touched (Framer.LockWrite), the other senders         *)
(* (relaying, DNS, probes), the maintenance loop, the dials, the           *)
(* application of a configuration and Close.                               *)
(*                                                                         *)
(* Two locks are held across a wait.  Update holds the lock of the pool    *)
(* from its start to its end, and the maintenance loop holds the lock of a *)
(* group while it writes keepalives; both writes need the write lock of    *)
(* the connection.  The other critical sections are single steps that wait *)
(* for these two; of the code between two sections only the landing of a   *)
(* connection is kept apart, where a removed group may be met.  Rotation   *)
(* and standby peers need Config.ProbeRTT, which no program sets, and are  *)
(* left out.                                                               *)
(***************************************************************************)
EXTENDS Integers, FiniteSets

CONSTANTS
    Hops,            \* the peers
    LanHops,         \* the peers with an address of the local network
    NoHop, NoConn,   \* not a peer, not a connection
    Conns,           \* bound: the connections that exist at a time, <<peer, number>>
    MinConnsPerHop, MaxConnsPerHop, MaxTotalConns, MaxWANPeers,
    ScaleAt,         \* flows of a connection that call for another one
    MaxBatch,        \* packets of a batch
    Senders,         \* the goroutines that relay, answer or probe
    MaxDialing,      \* bound: dials to one peer under way
    MaxUpdates,      \* bound: configurations applied
    MaxFaults        \* bound: writes that fail

ASSUME PoolAssumption ==
    /\ IsFiniteSet(Hops) /\ LanHops \subseteq Hops /\ NoHop \notin Hops
    /\ Conns \subseteq Hops \X Nat /\ IsFiniteSet(Conns) /\ NoConn \notin Conns
    /\ MaxDialing \in Nat \ {0}
    /\ MinConnsPerHop \in Nat \ {0} /\ MaxConnsPerHop \in Nat \ {0} /\ MaxTotalConns \in Nat
    /\ MaxWANPeers \in Nat /\ ScaleAt \in Nat \ {0} /\ MaxBatch \in Nat \ {0}
    /\ MaxUpdates \in Nat /\ MaxFaults \in Nat

\* The connections to a peer (Conn.NextHop).
To(h) == {c \in Conns : c[1] = h}

VARIABLES
    state,     \* the pool is "open", "closing" (Close has cancelled the context), "closed"
    member,    \* the peers that have a group
    lazy,      \* the groups that are not dialled unasked
    group,     \* the connections in the group of a peer
    live,      \* the connections that are not closed
    onLan,     \* the connections made over the local network
    expiring,  \* the connections with a deadline
    total,     \* totalConns
    dialing,   \* how many goroutines dial a peer
    arriving,  \* connections made whose goroutine has not looked for the group
    landing,   \* connections whose goroutine has found the group, to join it
    lost,      \* connections in a group that is no longer one of the pool
    using,     \* the connection a sender has acquired
    sweep,     \* the maintenance loop: phase, groups to do
    upd,       \* Update: peers to remove, peers to go over, those of them to be dialled;
               \* both: group it holds the lock of, connections of it to check,
               \* connection a keepalive is being written to
    tun,       \* the packet loop: packets left, peers tried for the packet, peer it
               \* asks for, connections it holds the write lock of
    updates, faults

poolVars  == <<member, lazy, group, live, onLan, expiring, total>>
dialVars  == <<dialing, arriving, landing, lost>>
boundVars == <<updates, faults>>
vars == <<state, poolVars, dialVars, using, sweep, upd, tun, boundVars>>

Idle == [phase |-> "idle", todo |-> {}, at |-> NoHop, rest |-> {}, on |-> NoConn]
NoUpdate == [gone |-> {}, active |-> {},
             todo |-> {}, at |-> NoHop, rest |-> {}, on |-> NoConn]
NoBatch == [left |-> 0, tried |-> {}, want |-> NoHop, held |-> {}]

Init ==
    /\ state = "open"
    /\ member = {} /\ lazy = {} /\ group = [h \in Hops |-> {}]
    /\ live = {} /\ onLan = {} /\ expiring = {} /\ total = 0
    /\ dialing = [h \in Hops |-> 0] /\ arriving = {} /\ landing = {} /\ lost = {}
    /\ using = [s \in Senders |-> NoConn]
    /\ sweep = Idle /\ upd = NoUpdate /\ tun = NoBatch
    /\ updates = 0 /\ faults = 0

----------------------------------------------------------------------------
(* Locks and helpers.                                                       *)

\* p.mu can be read-locked: Update does not hold it.
PoolFree == upd.gone = {} /\ upd.todo = {}

\* g.mu can be taken: the maintenance loop does not hold it.
GroupFree(h) == sweep.at # h

Grouped == UNION {group[h] : h \in Hops}

Alive(h) == group[h] \cap live

\* The slots no goroutine refers to.
Unused == Conns \ (Grouped \cup arriving \cup landing \cup lost \cup tun.held \cup {using[s] : s \in Senders})

\* Conn.FlowCount.
FlowCount(c) == Cardinality({s \in Senders : using[s] = c})

\* Connections are closed; what was known of them is of no use any more.
Shut(cs) == live' = live \ cs /\ onLan' = onLan \ cs /\ expiring' = expiring \ cs

\* They are closed and counted out.
CountOut(cs) == Shut(cs) /\ total' = total - Cardinality(cs)

BudgetLeft == MaxTotalConns = 0 \/ total < MaxTotalConns

\* n more goroutines dial h; those above the bound are left out.
DialMore(h, n) ==
    dialing' = [dialing EXCEPT ![h] = IF @ + n > MaxDialing THEN MaxDialing ELSE @ + n]

\* The ways to make n connections to h (dialConn), in the first unused slots: with
\* a local address they may still be made over another one.
FirstUnused(h, n) ==
    {c \in To(h) \cap Unused : Cardinality({d \in To(h) \cap Unused : d[2] < c[2]}) < n}

Made(h, n) ==
    {cs \in [new : {FirstUnused(h, n)}, lan : SUBSET FirstUnused(h, n)] :
        Cardinality(cs.new) = n /\ (h \notin LanHops => cs.lan = {})}

\* The new connections are counted.
Enter(cs) ==
    /\ onLan' = onLan \cup cs.lan /\ UNCHANGED expiring
    /\ live' = live \cup cs.new
    /\ total' = total + Cardinality(cs.new)

----------------------------------------------------------------------------
(* Dials (dialConn and the goroutines around it).                           *)

\* An address answers.
DialConnects(h) ==
    /\ dialing[h] > 0 /\ state # "closed"
    /\ \E cs \in Made(h, 1) : Enter(cs) /\ arriving' = arriving \cup cs.new
    /\ dialing' = [dialing EXCEPT ![h] = @ - 1]
    /\ UNCHANGED <<state, member, lazy, group, landing, lost, using, sweep, upd, tun, boundVars>>

\* No address answers, the context is cancelled, or all addresses are in backoff.
\* Where the code looks at the backoff before it starts a goroutine, the model has
\* one that fails.
DialFails(h) ==
    /\ dialing[h] > 0
    /\ dialing' = [dialing EXCEPT ![h] = @ - 1]
    /\ UNCHANGED <<state, poolVars, arriving, landing, lost, using, sweep, upd, tun, boundVars>>

LandLeaves(c) ==   \* mutant: the connection is left open without a group
    /\ c \in arriving /\ PoolFree
    /\ arriving' = arriving \ {c}
    /\ landing' = IF c[1] \in member THEN landing \cup {c} ELSE landing
    /\ UNCHANGED <<state, poolVars, dialing, lost, using, sweep, upd, tun, boundVars>>

\* The goroutine looks for the group of its peer.  If there is none it closes the
\* connection, which stays counted.
Land(c) ==
    /\ c \in arriving /\ PoolFree
    /\ arriving' = arriving \ {c}
    /\ IF c[1] \in member
         THEN landing' = landing \cup {c} /\ UNCHANGED <<live, onLan, expiring>>
         ELSE Shut({c}) /\ UNCHANGED landing
    /\ UNCHANGED <<state, member, lazy, group, total, dialing, lost, using, sweep, upd, tun, boundVars>>

\* The connection joins the group that was found.
Join(c) ==
    /\ c \in landing /\ GroupFree(c[1]) /\ upd.at # c[1]
    /\ landing' = landing \ {c}
    /\ group' = [group EXCEPT ![c[1]] = @ \cup {c}]
    /\ UNCHANGED <<state, member, lazy, live, onLan, expiring, total, dialing, arriving, lost, using, sweep, upd, tun, boundVars>>

----------------------------------------------------------------------------
(* Senders (Acquire, Release).                                              *)

\* Acquire starts another dial when the flows of c, the new one included, reach
\* the threshold and the group is not full (tryScaleUp).
ScaleUp(c) ==
    IF FlowCount(c) + 1 >= ScaleAt /\ Cardinality(Alive(c[1])) < MaxConnsPerHop
      THEN DialMore(c[1], 1)
      ELSE UNCHANGED dialing

\* Acquire finds c; the choice among the live connections follows their quality.
Found(c) == PoolFree /\ GroupFree(c[1]) /\ c[1] \in member /\ c \in Alive(c[1])

Acquire(s, c) ==
    /\ using[s] = NoConn /\ Found(c)
    /\ using' = [using EXCEPT ![s] = c]
    /\ ScaleUp(c)
    /\ UNCHANGED <<state, poolVars, arriving, landing, lost, sweep, upd, tun, boundVars>>

\* Without a live connection Acquire fails and leaves a dial behind.  Everyone asks
\* IsReachable before, so there was one a moment ago, now closed.
AcquireDials(h) ==
    /\ PoolFree /\ GroupFree(h) /\ group[h] # {} /\ Alive(h) = {}
    /\ dialing[h] < MaxDialing /\ DialMore(h, 1)
    /\ UNCHANGED <<state, poolVars, arriving, landing, lost, using, sweep, upd, tun, boundVars>>

\* The sender has written, which needs the write lock, and releases the flow. A
\* relaying sender closes the connection when the write fails, uncounted.
Release(s) ==
    /\ using[s] # NoConn /\ using[s] \notin tun.held
    /\ using' = [using EXCEPT ![s] = NoConn]
    /\ \/ UNCHANGED <<live, onLan, expiring, faults>>
       \/ faults < MaxFaults /\ Shut({using[s]}) /\ faults' = faults + 1
    /\ UNCHANGED <<state, member, lazy, group, total, dialVars, sweep, upd, tun, updates>>

----------------------------------------------------------------------------
(* The packet loop (runTUNRead, processOutboundBatch).                      *)

\* The candidates for a packet are tried in some order: at first h is asked for.
AskFirst(h, left, held) ==
    IF left = 0 THEN [NoBatch EXCEPT !.held = held]
                ELSE [left |-> left, want |-> h, tried |-> {h}, held |-> held]

\* After a failure h is the next candidate; without another one the packet is
\* dropped and h is the first candidate for the next one.
AskNext(h, held) ==
    IF tun.tried = Hops THEN AskFirst(h, tun.left - 1, held)
                        ELSE [tun EXCEPT !.want = h, !.tried = @ \cup {h}, !.held = held]

Candidates == IF tun.tried = Hops THEN Hops ELSE Hops \ tun.tried

\* A batch is read.  What ReachableHops answers only orders the candidates.
BatchStart ==
    /\ tun = NoBatch
    /\ \E h \in Hops : tun' = AskFirst(h, MaxBatch, {})
    /\ UNCHANGED <<state, poolVars, dialVars, using, sweep, upd, boundVars>>

\* IsReachable and Acquire find c, which is locked for the batch and written to.
TunSend(c) ==
    /\ c[1] = tun.want /\ Found(c)
    /\ \E h \in Hops : tun' = AskFirst(h, tun.left - 1, tun.held \cup {c})
    /\ ScaleUp(c)
    /\ UNCHANGED <<state, poolVars, arriving, landing, lost, using, sweep, upd, boundVars>>

\* The write fails: c is closed, uncounted, and the next candidate is tried.
TunSendFails(c) ==
    /\ c[1] = tun.want /\ Found(c) /\ faults < MaxFaults
    /\ \E h \in Candidates : tun' = AskNext(h, tun.held \cup {c})
    /\ ScaleUp(c)
    /\ Shut({c}) /\ faults' = faults + 1
    /\ UNCHANGED <<state, member, lazy, group, total, arriving, landing, lost, using, sweep, upd, updates>>

\* The candidate is not reachable.
TunSkip ==
    /\ tun.want # NoHop /\ PoolFree /\ GroupFree(tun.want) /\ Alive(tun.want) = {}
    /\ \E h \in Candidates : tun' = AskNext(h, tun.held)
    /\ UNCHANGED <<state, poolVars, dialVars, using, sweep, upd, boundVars>>

\* The batch is flushed and its write locks are released.
BatchEnd ==
    /\ tun.want = NoHop /\ tun.held # {}
    /\ tun' = NoBatch
    /\ UNCHANGED <<state, poolVars, dialVars, using, sweep, upd, boundVars>>

----------------------------------------------------------------------------
(* Keepalives, written under the lock of a group (probeConns, Update).      *)

\* After the last connection the lock is released.
OrLeaves(walk) ==
    IF walk.on = NoConn /\ walk.rest = {}
      THEN [walk EXCEPT !.todo = @ \ {walk.at}, !.at = NoHop] ELSE walk

\* Take the lock of h.
Enters(walk, h) == OrLeaves([walk EXCEPT !.at = h, !.rest = group[h]])

\* c is checked; if it is open a keepalive is written to it.
Checks(walk, c) ==
    OrLeaves([walk EXCEPT !.rest = @ \ {c}, !.on = IF c \in live THEN c ELSE NoConn])

CanCheck(walk, c) == walk.on = NoConn /\ c \in walk.rest

\* The write lock can be had.
CanWrite(walk) == walk.on # NoConn /\ walk.on \notin tun.held

Wrote(walk) == OrLeaves([walk EXCEPT !.on = NoConn])

KeepaliveFailsTwice(c) ==   \* mutant: Close counts the connection out, too
    /\ c \in live => faults < MaxFaults
    /\ faults' = IF c \in live THEN faults + 1 ELSE faults
    /\ Shut({c}) /\ total' = total - 2

\* The keepalive fails, for the last time, and the connection is closed and
\* counted out, which a sender may have done without counting.
KeepaliveFails(c) ==
    /\ c \in live => faults < MaxFaults
    /\ faults' = IF c \in live THEN faults + 1 ELSE faults
    /\ Shut({c}) /\ total' = total - 1

----------------------------------------------------------------------------
(* The maintenance loop (shrinkLoop): probe, maintain, shrink.              *)

SweepStart ==
    /\ sweep = Idle /\ state # "closed" /\ PoolFree
    /\ sweep' = [Idle EXCEPT !.phase = "probe", !.todo = member]
    /\ UNCHANGED <<state, poolVars, dialVars, using, upd, tun, boundVars>>

\* The context is cancelled.
SweepExit ==
    /\ sweep = Idle /\ state = "closing"
    /\ sweep' = [Idle EXCEPT !.phase = "done"]
    /\ UNCHANGED <<state, poolVars, dialVars, using, upd, tun, boundVars>>

\* Every pass goes over the groups there are when it begins.
NextPass ==
    /\ sweep.todo = {} /\ sweep.phase \in {"probe", "maintain", "shrink"} /\ PoolFree
    /\ sweep' = CASE sweep.phase = "probe"    -> [sweep EXCEPT !.phase = "maintain", !.todo = member]
                  [] sweep.phase = "maintain" -> [sweep EXCEPT !.phase = "shrink", !.todo = member]
                  [] sweep.phase = "shrink"   -> Idle
    /\ UNCHANGED <<state, poolVars, dialVars, using, upd, tun, boundVars>>

\* The group of h is next, if there still is one.
SweepAt(h) == h \in sweep.todo /\ sweep.at = NoHop /\ PoolFree

SkipHop(h) ==
    /\ SweepAt(h) /\ h \notin member
    /\ sweep' = [sweep EXCEPT !.todo = @ \ {h}]
    /\ UNCHANGED <<state, poolVars, dialVars, using, upd, tun, boundVars>>

\* probeConns: the group is locked, its connections are checked and written to
\* one after another; the third failure closes a connection.
ProbeEnter(h) ==
    /\ sweep.phase = "probe" /\ SweepAt(h) /\ h \in member
    /\ sweep' = Enters(sweep, h)
    /\ UNCHANGED <<state, poolVars, dialVars, using, upd, tun, boundVars>>

ProbeCheck(c) ==
    /\ CanCheck(sweep, c) /\ sweep' = Checks(sweep, c)
    /\ UNCHANGED <<state, poolVars, dialVars, using, upd, tun, boundVars>>

ProbeWrite ==
    /\ CanWrite(sweep) /\ sweep' = Wrote(sweep)
    /\ KeepaliveFails(sweep.on) \/ UNCHANGED <<live, onLan, expiring, total, faults>>
    /\ UNCHANGED <<state, member, lazy, group, dialVars, using, upd, tun, updates>>

\* maintainMinConns: closed connections leave the group, connections made over
\* the wide area to a local peer get a deadline, missing ones are dialled.
Maintain(h) ==
    /\ sweep.phase = "maintain" /\ SweepAt(h) /\ h \in member
    /\ LET alive == Alive(h)
           need  == MinConnsPerHop - Cardinality(alive)
       IN  /\ group' = [group EXCEPT ![h] = alive]
           /\ expiring' = IF h \in LanHops /\ alive \cap onLan = {} THEN expiring \cup alive
                                                                    ELSE expiring
           /\ IF need > 0 /\ h \notin lazy /\ BudgetLeft
                THEN DialMore(h, need) ELSE UNCHANGED dialing
    /\ sweep' = [sweep EXCEPT !.todo = @ \ {h}]
    /\ UNCHANGED <<state, member, lazy, live, onLan, total, arriving, landing, lost, using, upd, tun, boundVars>>

\* shrinkOnce: connections past their deadline are closed whatever is left, idle
\* ones while more than the minimum are alive.  The walk may meet either first.
Shrink(h) ==
    /\ sweep.phase = "shrink" /\ SweepAt(h) /\ h \in member
    /\ \E ended \in SUBSET (Alive(h) \cap expiring),
          idle  \in SUBSET {c \in Alive(h) : FlowCount(c) = 0} :
        /\ idle = {} \/ Cardinality(idle) <= Cardinality(Alive(h)) - MinConnsPerHop
        /\ CountOut(ended \cup idle)
        /\ group' = [group EXCEPT ![h] = Alive(h) \ (ended \cup idle)]
    /\ sweep' = [sweep EXCEPT !.todo = @ \ {h}]
    /\ UNCHANGED <<state, member, lazy, dialVars, using, upd, tun, boundVars>>

----------------------------------------------------------------------------
(* The application of a configuration (Update).                             *)

\* Local peers are all dialled, of the others at most MaxWANPeers.
ActiveOf(peers) ==
    LET wan == peers \ LanHops
        max == IF MaxWANPeers = 0 THEN Cardinality(wan) ELSE MaxWANPeers
    IN  {act \in SUBSET peers :
            /\ peers \cap LanHops \subseteq act
            /\ Cardinality(act \cap wan) = IF Cardinality(wan) < max THEN Cardinality(wan) ELSE max}

UpdateStart(peers) ==
    /\ PoolFree /\ state = "open" /\ updates < MaxUpdates
    /\ \E active \in ActiveOf(peers) :
        upd' = [NoUpdate EXCEPT !.gone = member \ peers, !.active = active, !.todo = peers]
    /\ updates' = updates + 1
    /\ UNCHANGED <<state, poolVars, dialVars, using, sweep, tun, faults>>

UpdateRemoveKeeps(h) ==   \* mutant: a removed peer stays marked as lazy
    /\ h \in upd.gone /\ GroupFree(h)
    /\ CountOut(Alive(h))
    /\ group' = [group EXCEPT ![h] = {}]
    /\ member' = member \ {h}
    /\ lost' = lost \cup (landing \cap To(h)) /\ landing' = landing \ To(h)
    /\ upd' = [upd EXCEPT !.gone = @ \ {h}]
    /\ UNCHANGED <<state, lazy, dialing, arriving, using, sweep, tun, boundVars>>

\* A peer that is gone: its connections are closed and counted out.  Goroutines
\* that have found the group will join what is no longer part of the pool.
UpdateRemove(h) ==
    /\ h \in upd.gone /\ GroupFree(h)
    /\ CountOut(Alive(h))
    /\ group' = [group EXCEPT ![h] = {}]
    /\ member' = member \ {h} /\ lazy' = lazy \ {h}
    /\ lost' = lost \cup (landing \cap To(h)) /\ landing' = landing \ To(h)
    /\ upd' = [upd EXCEPT !.gone = @ \ {h}]
    /\ UNCHANGED <<state, dialing, arriving, using, sweep, tun, boundVars>>

\* The removals come first.
UpdateAt(h) == h \in upd.todo /\ upd.at = NoHop /\ upd.gone = {}

\* A peer that stays: its connections are checked.  A changed address is dialled
\* without delay.
UpdateEnter(h) ==
    /\ UpdateAt(h) /\ h \in member /\ GroupFree(h)
    /\ upd' = Enters([upd EXCEPT !.active = @ \ {h}], h)
    /\ lazy' = IF h \in upd.active THEN lazy \ {h} ELSE lazy \cup {h}
    /\ UNCHANGED <<state, member, group, live, onLan, expiring, total, dialing, arriving, landing, lost, using, sweep, tun, boundVars>>

UpdateCheck(c) ==
    /\ CanCheck(upd, c) /\ upd' = Checks(upd, c)
    /\ UNCHANGED <<state, poolVars, dialVars, using, sweep, tun, boundVars>>

UpdateWrite ==
    /\ CanWrite(upd) /\ upd' = Wrote(upd)
    /\ \/ KeepaliveFails(upd.on)
       \/ upd.on \in live /\ UNCHANGED <<live, onLan, expiring, total, faults>>
    /\ UNCHANGED <<state, member, lazy, group, dialVars, using, sweep, tun, updates>>

\* A new peer is dialled up to the minimum and the budget before it has a group;
UpdateNew(h) ==
    /\ UpdateAt(h) /\ h \notin member /\ h \in upd.active
    /\ \E n \in 0..MinConnsPerHop : \E cs \in Made(h, n) :
        /\ n > 0 => state = "open"
        /\ n > 0 /\ MaxTotalConns > 0 => total + n <= MaxTotalConns
        /\ Enter(cs) /\ group' = [group EXCEPT ![h] = cs.new]
    /\ member' = member \cup {h}
    /\ upd' = [upd EXCEPT !.todo = @ \ {h}, !.active = @ \ {h}]
    /\ UNCHANGED <<state, lazy, dialing, arriving, landing, lost, using, sweep, tun, boundVars>>

UpdateNewLazy(h) ==
    /\ UpdateAt(h) /\ h \notin member \cup upd.active
    /\ member' = member \cup {h} /\ lazy' = lazy \cup {h}
    /\ upd' = [upd EXCEPT !.todo = @ \ {h}]
    /\ UNCHANGED <<state, group, live, onLan, expiring, total, dialing, arriving, landing, lost, using, sweep, tun, boundVars>>

----------------------------------------------------------------------------
(* Close.                                                                   *)

\* Whoever applies the configurations closes the pool.
CloseStart ==
    /\ state = "open" /\ PoolFree /\ state' = "closing"
    /\ UNCHANGED <<poolVars, dialVars, using, sweep, upd, tun, boundVars>>

OnlyLoopEnded == sweep.phase = "done"   \* mutant: the dials are not waited for

\* Close waits for the maintenance loop and the dials, then closes every group.
GoroutinesEnded ==
    /\ sweep.phase = "done" /\ arriving = {} /\ landing = {}
    /\ \A h \in Hops : dialing[h] = 0

CloseFinish ==
    /\ state = "closing" /\ GoroutinesEnded /\ PoolFree
    /\ state' = "closed"
    /\ CountOut(Grouped \cap live)
    /\ group' = [h \in Hops |-> {}] /\ member' = {} /\ lazy' = {}
    /\ UNCHANGED <<dialVars, using, sweep, upd, tun, boundVars>>

----------------------------------------------------------------------------
DialStep ==
    \/ \E h \in Hops : DialConnects(h) \/ DialFails(h)
    \/ \E c \in Conns : Land(c) \/ Join(c)

SenderStep ==
    \/ \E s \in Senders : Release(s) \/ \E c \in Conns : Acquire(s, c)
    \/ \E h \in Hops : AcquireDials(h)

TunGoesOn ==
    \/ \E c \in Conns : TunSend(c) \/ TunSendFails(c)
    \/ TunSkip \/ BatchEnd

SweepGoesOn ==
    \/ SweepStart \/ NextPass \/ ProbeWrite
    \/ \E h \in Hops : SkipHop(h) \/ ProbeEnter(h) \/ Maintain(h) \/ Shrink(h)
    \/ \E c \in Conns : ProbeCheck(c)

UpdateGoesOn ==
    \/ \E h \in Hops : UpdateRemove(h) \/ UpdateEnter(h) \/ UpdateNew(h) \/ UpdateNewLazy(h)
    \/ \E c \in Conns : UpdateCheck(c)
    \/ UpdateWrite

Next ==
    \/ DialStep \/ SenderStep
    \/ BatchStart \/ TunGoesOn
    \/ SweepGoesOn \/ SweepExit
    \/ (\E peers \in SUBSET Hops : UpdateStart(peers)) \/ UpdateGoesOn
    \/ CloseStart \/ CloseFinish

PoolSpec == Init /\ [][Next]_vars

----------------------------------------------------------------------------
(* Properties.                                                              *)

\* The types, and what a walk may hold: the group it is in and a connection of it.
WalkOK(walk) ==
    /\ walk.todo \subseteq Hops /\ walk.at \in Hops \cup {NoHop}
    /\ walk.rest \subseteq Conns /\ walk.on \in Conns \cup {NoConn}

PoolTypeOK ==
    /\ state \in {"open", "closing", "closed"}
    /\ lazy \subseteq member /\ member \subseteq Hops
    /\ group \in [Hops -> SUBSET Conns] /\ \A h \in Hops : group[h] \subseteq To(h)
    /\ live \subseteq Conns /\ onLan \subseteq Conns /\ expiring \subseteq Conns
    /\ total \in Int
    /\ dialing \in [Hops -> 0..MaxDialing]
    /\ arriving \subseteq Conns /\ landing \subseteq Conns /\ lost \subseteq Conns
    /\ using \in [Senders -> Conns \cup {NoConn}]
    /\ sweep.phase \in {"idle", "probe", "maintain", "shrink", "done"}
    /\ WalkOK(sweep) /\ WalkOK(upd)
    /\ upd.active \subseteq Hops /\ upd.gone \subseteq Hops
    /\ tun.left \in 0..MaxBatch /\ tun.tried \subseteq Hops
    /\ tun.want \in Hops \cup {NoHop} /\ tun.held \subseteq Conns
    /\ updates \in 0..MaxUpdates /\ faults \in 0..MaxFaults

\* The counter that enforces the budget never falls below the connections that
\* are open.  It is decremented at seven places, by goroutines that may close the
\* same connection; the senders close without counting at all.
CountsAtLeastLive == Cardinality(live) <= total

\* Every open connection can still be closed by the pool, because a group or a
\* goroutine that is about to put it into one holds it; except those that join a
\* group just when Update removes it.
NoStrayConn == live \subseteq Grouped \cup arriving \cup landing \cup lost

\* After Close nothing is open, although dials may have been under way when it
\* was called, and whatever the packet loop and the senders do meanwhile.
ClosedPoolIsEmpty == state = "closed" => live \subseteq lost

\* The packet loop asks for a group while it holds write locks, and a goroutine
\* that holds this group, or the pool, waits for one of these.
Waits(walk) == walk.on \in tun.held
Stuck ==
    /\ tun.want # NoHop
    /\ \/ Waits(sweep) /\ sweep.at = tun.want
       \/ Waits(upd)
       \/ Waits(sweep) /\ upd.at = NoHop /\ sweep.at \in upd.gone \cup upd.todo

\* An acquisition returns at once (pool.go:135) and the maintenance loop avoids
\* to be deadlocked by the locks of the groups (pool.go:710): no goroutine waits
\* for ever for another one.
NoWaitCycle == ~Stuck

----------------------------------------------------------------------------
(* An instance for TLC: two connections to every peer.                      *)

TwoToEach == Hops \X {1, 2}
=============================================================================
