-------------------------- MODULE NodeTraffic_proofs ------------------------
(***************************************************************************)
(* Proofs about what carries a node's traffic, for any peers, nodes,       *)
(* flows, routes, lengths and bounds: the connection pool, the data plane  *)
(* and its listener, outbound flows, frames that are relayed, the layout   *)
(* of packets and frames, the stream of frames between two nodes, path     *)
(* tracing, sessions over relays, and the whole of MCNodeTraffic.          *)
(***************************************************************************)
EXTENDS MCNodeTraffic, FiniteSetTheorems, TLAPS

(***************************************************************************)
(* The connection pool: the counter covers the open connections, none is   *)
(* lost but those that join a removed group, and Close leaves none open.   *)
(***************************************************************************)
(* The inductive invariant.                                                *)

Phases == {"idle", "probe", "maintain", "shrink", "done"}
Sweeps == [phase : Phases, todo : SUBSET Hops, at : Hops \cup {NoHop},
           rest : SUBSET Conns, on : Conns \cup {NoConn}]
Updates == [gone : SUBSET Hops, active : SUBSET Hops, todo : SUBSET Hops, at : Hops \cup {NoHop},
            rest : SUBSET Conns, on : Conns \cup {NoConn}]
Batches == {b \in [left : 0..MaxBatch, tried : SUBSET Hops, want : Hops \cup {NoHop}, held : SUBSET Conns] :
               b.want # NoHop => b.left # 0}

TypeInv ==
    /\ state \in {"open", "closing", "closed"}
    /\ lazy \subseteq member /\ member \subseteq Hops
    /\ group \in [Hops -> SUBSET Conns] /\ \A h \in Hops : group[h] \subseteq To(h)
    /\ live \subseteq Conns /\ onLan \subseteq Conns /\ expiring \subseteq Conns
    /\ total \in Int
    /\ dialing \in [Hops -> 0..MaxDialing]
    /\ arriving \subseteq Conns /\ landing \subseteq Conns /\ lost \subseteq Conns
    /\ using \in [Senders -> Conns \cup {NoConn}]
    /\ sweep \in Sweeps /\ upd \in Updates /\ tun \in Batches
    /\ updates \in 0..MaxUpdates /\ faults \in 0..MaxFaults

(* A walk is in a group it still has to do, and holds connections of it.   *)
WalkInv(walk) ==
    /\ walk.at \in walk.todo \cup {NoHop}
    /\ walk.rest \subseteq To(walk.at) /\ walk.on \in To(walk.at) \cup {NoConn}

(* The two walks are never in one group, and Update is in none while it    *)
(* removes some.                                                           *)
WalksInv ==
    /\ WalkInv(sweep) /\ WalkInv(upd)
    /\ sweep.at # NoHop => sweep.phase = "probe" /\ sweep.at # upd.at
    /\ upd.at # NoHop => upd.gone = {}

(* Where the open connections are.                                         *)
PlaceInv ==
    /\ \A h \in Hops \ member : group[h] = {}
    /\ \A c \in landing : c[1] \in member
    /\ NoStrayConn

(* A connection a keepalive is being written to may be counted out although *)
(* a sender has closed it meanwhile: it still counts.                      *)
Pending == {sweep.on, upd.on} \ {NoConn}
CountInv == Cardinality(live \cup Pending) <= total

(* No configuration is applied once Close has begun, and nothing works for *)
(* the pool once it has ended.                                             *)
CloseInv ==
    /\ state # "open" => PoolFree
    /\ state = "closed" =>
          /\ sweep.phase = "done" /\ \A h \in Hops : dialing[h] = 0 /\ group[h] = {}
          /\ arriving = {} /\ landing = {} /\ member = {}

IInv == TypeInv /\ WalksInv /\ PlaceInv /\ CountInv /\ CloseInv

-----------------------------------------------------------------------------
(* What the operators on walks and batches return.                         *)
LEMMA NoConnTo == To(NoHop) = {} /\ \A h \in Hops : To(h) \subseteq Conns /\ NoConn \notin To(h)
BY PoolAssumption DEF To

LEMMA FiniteConns ==
    ASSUME NEW cs, cs \subseteq Conns
    PROVE  IsFiniteSet(cs) /\ Cardinality(cs) \in Nat
BY PoolAssumption, FS_Subset, FS_CardinalityType

LEMMA OrLeavesWalk ==
    ASSUME NEW w, WalkInv(w)
    PROVE  /\ w \in Sweeps => OrLeaves(w) \in Sweeps /\ OrLeaves(w).phase = w.phase
           /\ w \in Updates => /\ OrLeaves(w) \in Updates
                               /\ OrLeaves(w).gone = w.gone /\ OrLeaves(w).active = w.active
           /\ w \in Sweeps \cup Updates => /\ OrLeaves(w).at \in {w.at, NoHop} /\ OrLeaves(w).on = w.on
                                           /\ WalkInv(OrLeaves(w))
                                           /\ OrLeaves(w).todo \subseteq w.todo
<1>1. CASE w.on = NoConn /\ w.rest = {}
  <2>1. OrLeaves(w) = [w EXCEPT !.todo = @ \ {w.at}, !.at = NoHop]
    BY <1>1 DEF OrLeaves
  <2> QED BY <1>1, <2>1 DEF Sweeps, Updates, WalkInv
<1>2. CASE ~(w.on = NoConn /\ w.rest = {})
  BY <1>2 DEF OrLeaves
<1> QED BY <1>1, <1>2

LEMMA EntersWalk ==
    ASSUME TypeInv, NEW w \in Sweeps \cup Updates, WalkInv(w), NEW h \in w.todo, w.at = NoHop
    PROVE  /\ w \in Sweeps => Enters(w, h) \in Sweeps /\ Enters(w, h).phase = w.phase
           /\ w \in Updates => /\ Enters(w, h) \in Updates
                               /\ Enters(w, h).gone = w.gone /\ Enters(w, h).active = w.active
           /\ Enters(w, h).at \in {h, NoHop} /\ Enters(w, h).on = NoConn
           /\ WalkInv(Enters(w, h))
<1> DEFINE v == [w EXCEPT !.at = h, !.rest = group[h]]
<1>1. h \in Hops /\ group[h] \subseteq Conns /\ group[h] \subseteq To(h)
  BY DEF TypeInv, Sweeps, Updates
<1>2. w.on = NoConn
  BY NoConnTo DEF WalkInv
<1>3. /\ v.at = h /\ v.rest = group[h] /\ v.on = NoConn /\ v.todo = w.todo
      /\ w \in Sweeps => v \in Sweeps /\ v.phase = w.phase
      /\ w \in Updates => v \in Updates /\ v.gone = w.gone /\ v.active = w.active
  BY <1>1, <1>2 DEF Sweeps, Updates
<1>4. WalkInv(v)
  BY <1>1, <1>3 DEF WalkInv
<1>5. Enters(w, h) = OrLeaves(v)
  BY DEF Enters
<1> HIDE DEF v
<1> QED BY <1>3, <1>4, <1>5, OrLeavesWalk

LEMMA ChecksWalk ==
    ASSUME NEW w \in Sweeps \cup Updates, WalkInv(w), NEW c \in Conns, CanCheck(w, c)
    PROVE  /\ w \in Sweeps => Checks(w, c) \in Sweeps /\ Checks(w, c).phase = w.phase
           /\ w \in Updates => /\ Checks(w, c) \in Updates
                               /\ Checks(w, c).gone = w.gone /\ Checks(w, c).active = w.active
           /\ Checks(w, c).at \in {w.at, NoHop}
           /\ Checks(w, c).on = IF c \in live THEN c ELSE NoConn
           /\ WalkInv(Checks(w, c)) /\ Checks(w, c).todo \subseteq w.todo
<1> DEFINE v == [w EXCEPT !.rest = @ \ {c}, !.on = IF c \in live THEN c ELSE NoConn]
<1>1. /\ v.at = w.at /\ v.rest = w.rest \ {c} /\ v.on = (IF c \in live THEN c ELSE NoConn)
      /\ v.todo = w.todo
      /\ w \in Sweeps => v \in Sweeps /\ v.phase = w.phase
      /\ w \in Updates => v \in Updates /\ v.gone = w.gone /\ v.active = w.active
  BY DEF Sweeps, Updates
<1>2. c \in To(w.at)
  BY DEF WalkInv, CanCheck
<1>3. WalkInv(v)
  BY <1>1, <1>2 DEF WalkInv
<1>4. Checks(w, c) = OrLeaves(v)
  BY DEF Checks
<1> HIDE DEF v
<1> QED BY <1>1, <1>3, <1>4, OrLeavesWalk

LEMMA WroteWalk ==
    ASSUME NEW w \in Sweeps \cup Updates, WalkInv(w)
    PROVE  /\ w \in Sweeps => Wrote(w) \in Sweeps /\ Wrote(w).phase = w.phase
           /\ w \in Updates => /\ Wrote(w) \in Updates
                               /\ Wrote(w).gone = w.gone /\ Wrote(w).active = w.active
           /\ Wrote(w).at \in {w.at, NoHop} /\ Wrote(w).on = NoConn
           /\ WalkInv(Wrote(w)) /\ Wrote(w).todo \subseteq w.todo
<1> DEFINE v == [w EXCEPT !.on = NoConn]
<1>1. /\ v.at = w.at /\ v.rest = w.rest /\ v.on = NoConn /\ v.todo = w.todo
      /\ w \in Sweeps => v \in Sweeps /\ v.phase = w.phase
      /\ w \in Updates => v \in Updates /\ v.gone = w.gone /\ v.active = w.active
  BY DEF Sweeps, Updates
<1>2. WalkInv(v)
  BY <1>1 DEF WalkInv
<1>3. Wrote(w) = OrLeaves(v)
  BY DEF Wrote
<1> HIDE DEF v
<1> QED BY <1>1, <1>2, <1>3, OrLeavesWalk

LEMMA AskBatch ==
    ASSUME tun \in Batches, tun.want # NoHop, NEW h \in Hops, NEW held \in SUBSET Conns
    PROVE  AskFirst(h, tun.left - 1, held) \in Batches /\ AskNext(h, held) \in Batches
<1>1. tun.left - 1 \in 0..MaxBatch
  BY PoolAssumption DEF Batches
<1>2. AskFirst(h, tun.left - 1, held) \in Batches
  BY <1>1, PoolAssumption DEF AskFirst, NoBatch, Batches
<1>3. [tun EXCEPT !.want = h, !.tried = @ \cup {h}, !.held = held] \in Batches
  BY DEF Batches
<1> QED BY <1>2, <1>3 DEF AskNext

(* What dialling more, and counting new connections, changes.              *)
LEMMA DialTypes ==
    ASSUME TypeInv, NEW h \in Hops, NEW n \in Nat, DialMore(h, n)
    PROVE  dialing' \in [Hops -> 0..MaxDialing]
<1>1. dialing[h] \in 0..MaxDialing
  BY DEF TypeInv
<1>2. (IF dialing[h] + n > MaxDialing THEN MaxDialing ELSE dialing[h] + n) \in 0..MaxDialing
  BY <1>1, PoolAssumption
<1> QED BY <1>2 DEF TypeInv, DialMore

LEMMA ScaleTypes ==
    ASSUME TypeInv, NEW c \in Conns, c[1] \in Hops, ScaleUp(c)
    PROVE  dialing' \in [Hops -> 0..MaxDialing]
BY DialTypes DEF ScaleUp, TypeInv

LEMMA MadeConns ==
    ASSUME NEW h, NEW n, NEW cs \in Made(h, n)
    PROVE  /\ cs.new \subseteq To(h) \cap Unused /\ cs.lan \subseteq cs.new
           /\ Cardinality(cs.new) = n
BY DEF Made, FirstUnused

-----------------------------------------------------------------------------
(* Types.                                                                  *)
LEMMA TypeStep ==
    ASSUME TypeInv, WalksInv, Next
    PROVE  TypeInv'
<1> USE PoolAssumption
<1>0. To(NoHop) = {} /\ (\A h \in Hops : To(h) \subseteq Conns) /\ \A c \in Conns : c[1] \in Hops /\ c \in To(c[1])
  BY NoConnTo DEF To
<1>1. ASSUME NEW h \in Hops, DialConnects(h) PROVE TypeInv'
  BY <1>1, MadeConns DEF TypeInv, DialConnects, poolVars, dialVars, boundVars, Enter, To
<1>2. ASSUME NEW h \in Hops, DialFails(h) PROVE TypeInv'
  BY <1>2 DEF TypeInv, DialFails, poolVars, dialVars, boundVars
<1>3. ASSUME NEW c \in Conns, Land(c) PROVE TypeInv'
  BY <1>3 DEF TypeInv, Land, poolVars, dialVars, boundVars, Shut
<1>4. ASSUME NEW c \in Conns, Join(c) PROVE TypeInv'
  BY <1>4, <1>0 DEF TypeInv, Join, poolVars, dialVars, boundVars
<1>5. ASSUME NEW s \in Senders, NEW c \in Conns, Acquire(s, c) PROVE TypeInv'
  BY <1>5, <1>0, ScaleTypes DEF TypeInv, Acquire, poolVars, dialVars, boundVars
<1>6. ASSUME NEW h \in Hops, AcquireDials(h) PROVE TypeInv'
  BY <1>6, DialTypes DEF TypeInv, AcquireDials, poolVars, dialVars, boundVars
<1>7. ASSUME NEW s \in Senders, Release(s) PROVE TypeInv'
  BY <1>7 DEF TypeInv, Release, poolVars, dialVars, boundVars, Shut
<1>8. ASSUME BatchStart PROVE TypeInv'
  BY <1>8 DEF TypeInv, BatchStart, poolVars, dialVars, boundVars, AskFirst, NoBatch, Batches
<1>9. ASSUME NEW c \in Conns, TunSend(c) PROVE TypeInv'
  <2>1. tun' \in Batches
    BY <1>0, <1>9, AskBatch DEF TunSend, TypeInv, Batches
  <2>2. dialing' \in [Hops -> 0..MaxDialing]
    BY <1>0, <1>9, ScaleTypes DEF TunSend
  <2> QED BY <1>9, <2>1, <2>2 DEF TypeInv, TunSend, poolVars, dialVars, boundVars
<1>10. ASSUME NEW c \in Conns, TunSendFails(c) PROVE TypeInv'
  <2>1. tun' \in Batches
    BY <1>0, <1>10, AskBatch DEF TunSendFails, TypeInv, Batches, Candidates
  <2>2. dialing' \in [Hops -> 0..MaxDialing]
    BY <1>0, <1>10, ScaleTypes DEF TunSendFails
  <2>3. faults' \in 0..MaxFaults
    BY <1>10 DEF TunSendFails, TypeInv
  <2> QED BY <1>10, <2>1, <2>2, <2>3 DEF TypeInv, TunSendFails, Shut, poolVars, dialVars, boundVars
<1>11. ASSUME TunSkip PROVE TypeInv'
  <2>1. tun' \in Batches
    BY <1>11, AskBatch DEF TunSkip, TypeInv, Batches, Candidates
  <2> QED BY <1>11, <2>1 DEF TypeInv, TunSkip, poolVars, dialVars, boundVars
<1>12. ASSUME BatchEnd PROVE TypeInv'
  BY <1>12 DEF TypeInv, BatchEnd, poolVars, dialVars, boundVars, NoBatch, Batches
<1>13. ASSUME SweepStart PROVE TypeInv'
  BY <1>13 DEF TypeInv, SweepStart, poolVars, dialVars, boundVars, Idle, Sweeps, Phases
<1>14. ASSUME SweepExit PROVE TypeInv'
  BY <1>14 DEF TypeInv, SweepExit, poolVars, dialVars, boundVars, Idle, Sweeps, Phases
<1>15. ASSUME NextPass PROVE TypeInv'
  BY <1>15 DEF TypeInv, NextPass, poolVars, dialVars, boundVars, Idle, Sweeps, Phases
<1>16. ASSUME NEW h \in Hops, SkipHop(h) PROVE TypeInv'
  BY <1>16 DEF TypeInv, SkipHop, poolVars, dialVars, boundVars, Sweeps
<1>17. ASSUME NEW h \in Hops, ProbeEnter(h) PROVE TypeInv'
  BY <1>17, EntersWalk DEF TypeInv, ProbeEnter, poolVars, dialVars, boundVars, WalksInv, SweepAt
<1>18. ASSUME NEW c \in Conns, ProbeCheck(c) PROVE TypeInv'
  BY <1>18, ChecksWalk DEF TypeInv, ProbeCheck, poolVars, dialVars, boundVars, WalksInv
<1>19. ASSUME ProbeWrite PROVE TypeInv'
  BY <1>19, WroteWalk DEF TypeInv, ProbeWrite, poolVars, dialVars, boundVars, WalksInv, KeepaliveFails, Shut
<1>20. ASSUME NEW h \in Hops, Maintain(h) PROVE TypeInv'
  <2>1. Alive(h) \subseteq group[h] /\ Cardinality(Alive(h)) \in Nat
    BY <1>0, FiniteConns DEF Alive, TypeInv
  <2>2. dialing' \in [Hops -> 0..MaxDialing]
    BY <1>20, <2>1, DialTypes DEF Maintain, TypeInv
  <2>3. group' \in [Hops -> SUBSET Conns] /\ \A g \in Hops : group'[g] \subseteq To(g)
    BY <1>20, <2>1 DEF Maintain, TypeInv
  <2>4. expiring' \subseteq Conns
    BY <1>20, <2>1 DEF Maintain, TypeInv
  <2>5. sweep' \in Sweeps
    BY <1>20 DEF Maintain, TypeInv, Sweeps
  <2> QED BY <1>20, <2>2, <2>3, <2>4, <2>5 DEF TypeInv, Maintain, poolVars, dialVars, boundVars
<1>21. ASSUME NEW h \in Hops, Shrink(h) PROVE TypeInv'
  <2>1. PICK cs \in SUBSET Alive(h) : CountOut(cs) /\ group' = [group EXCEPT ![h] = Alive(h) \ cs]
    BY <1>21 DEF Shrink
  <2>2. Alive(h) \subseteq group[h] /\ cs \subseteq Conns /\ Cardinality(cs) \in Nat
    BY <1>0, FiniteConns DEF Alive, TypeInv
  <2>3. group' \in [Hops -> SUBSET Conns] /\ \A g \in Hops : group'[g] \subseteq To(g)
    BY <2>1, <2>2 DEF TypeInv
  <2>4. sweep' \in Sweeps
    BY <1>21 DEF Shrink, TypeInv, Sweeps
  <2> QED BY <1>21, <2>1, <2>2, <2>3, <2>4 DEF TypeInv, Shrink, CountOut, Shut, poolVars, dialVars, boundVars
<1>22. ASSUME NEW peers \in SUBSET Hops, UpdateStart(peers) PROVE TypeInv'
  <2>1. PICK active \in SUBSET peers :
            upd' = [NoUpdate EXCEPT !.gone = member \ peers, !.active = active, !.todo = peers]
    BY <1>22 DEF UpdateStart, ActiveOf
  <2>2. upd' = [gone |-> member \ peers, active |-> active, todo |-> peers,
                at |-> NoHop, rest |-> {}, on |-> NoConn]
    BY <2>1 DEF NoUpdate
  <2>3. upd' \in Updates
    BY <2>2 DEF TypeInv, Updates
  <2> QED BY <1>22, <2>3 DEF TypeInv, UpdateStart, poolVars, dialVars, boundVars
<1>23. ASSUME NEW h \in Hops, UpdateRemove(h) PROVE TypeInv'
  <2>1. Cardinality(Alive(h)) \in Nat
    BY <1>0, FiniteConns DEF Alive, TypeInv
  <2>2. upd' \in Updates
    BY <1>23 DEF UpdateRemove, TypeInv, Updates
  <2>3. group' \in [Hops -> SUBSET Conns] /\ \A g \in Hops : group'[g] \subseteq To(g)
    BY <1>23 DEF UpdateRemove, TypeInv
  <2> QED BY <1>23, <2>1, <2>2, <2>3 DEF TypeInv, UpdateRemove, CountOut, Shut, poolVars, dialVars, boundVars
<1>24. ASSUME NEW h \in Hops, UpdateEnter(h) PROVE TypeInv'
  <2> DEFINE w == [upd EXCEPT !.active = @ \ {h}]
  <2>1. w \in Updates /\ WalkInv(w) /\ h \in w.todo /\ w.at = NoHop
    BY <1>24 DEF UpdateEnter, UpdateAt, TypeInv, WalksInv, WalkInv, Updates
  <2>2. upd' = Enters(w, h)
    BY <1>24 DEF UpdateEnter
  <2> HIDE DEF w
  <2>3. upd' \in Updates
    BY <2>1, <2>2, EntersWalk
  <2> QED BY <1>24, <2>3 DEF TypeInv, UpdateEnter, poolVars, dialVars, boundVars
<1>25. ASSUME NEW c \in Conns, UpdateCheck(c) PROVE TypeInv'
  BY <1>25, ChecksWalk DEF TypeInv, UpdateCheck, poolVars, dialVars, boundVars, WalksInv
<1>26. ASSUME UpdateWrite PROVE TypeInv'
  BY <1>26, WroteWalk DEF TypeInv, UpdateWrite, poolVars, dialVars, boundVars, WalksInv, KeepaliveFails, Shut
<1>27. ASSUME NEW h \in Hops, UpdateNew(h) PROVE TypeInv'
  <2>1. PICK n \in 0..MinConnsPerHop : \E cs \in Made(h, n) : Enter(cs) /\ group' = [group EXCEPT ![h] = cs.new]
    BY <1>27 DEF UpdateNew
  <2>2. PICK cs \in Made(h, n) : Enter(cs) /\ group' = [group EXCEPT ![h] = cs.new]
    BY <2>1
  <2>3. cs.new \subseteq To(h) /\ cs.lan \subseteq cs.new /\ Cardinality(cs.new) \in Nat
    BY <1>0, MadeConns, FiniteConns
  <2>4. upd' \in Updates
    BY <1>27 DEF UpdateNew, TypeInv, Updates
  <2>5. group' \in [Hops -> SUBSET Conns] /\ \A g \in Hops : group'[g] \subseteq To(g)
    BY <1>0, <2>2, <2>3 DEF TypeInv
  <2>6. /\ live' \subseteq Conns /\ onLan' \subseteq Conns /\ expiring' \subseteq Conns
        /\ total' \in Int
    BY <1>0, <2>2, <2>3 DEF TypeInv, Enter
  <2>7. member' \subseteq Hops /\ lazy' \subseteq member'
    BY <1>27 DEF TypeInv, UpdateNew
  <2> QED BY <1>27, <2>4, <2>5, <2>6, <2>7 DEF TypeInv, UpdateNew, poolVars, dialVars, boundVars
<1>28. ASSUME NEW h \in Hops, UpdateNewLazy(h) PROVE TypeInv'
  BY <1>28 DEF TypeInv, UpdateNewLazy, poolVars, dialVars, boundVars, Updates
<1>29. ASSUME CloseStart PROVE TypeInv'
  BY <1>29 DEF TypeInv, CloseStart, poolVars, dialVars, boundVars
<1>30. ASSUME CloseFinish PROVE TypeInv'
  <2>1. Cardinality(Grouped \cap live) \in Nat
    BY FiniteConns DEF TypeInv
  <2> QED BY <1>30, <2>1 DEF TypeInv, CloseFinish, CountOut, Shut, poolVars, dialVars, boundVars
<1> QED
  BY <1>1, <1>2, <1>3, <1>4, <1>5, <1>6, <1>7, <1>8, <1>9, <1>10, <1>11, <1>12, <1>13, <1>14, <1>15, <1>16, <1>17, <1>18, <1>19, <1>20, <1>21, <1>22, <1>23, <1>24, <1>25, <1>26, <1>27, <1>28, <1>29, <1>30
  DEF Next, DialStep, SenderStep, TunGoesOn, SweepGoesOn, UpdateGoesOn

-----------------------------------------------------------------------------
(* The walks.                                                              *)

(* Every step keeps the walks apart. *)
LEMMA WalksStep ==
    ASSUME TypeInv, WalksInv, Next
    PROVE  WalksInv'
<1>1. ASSUME SweepStart PROVE WalksInv'
  BY <1>1, NoConnTo DEF SweepStart, Idle, WalksInv, WalkInv
<1>2. ASSUME SweepExit PROVE WalksInv'
  BY <1>2, NoConnTo DEF SweepExit, Idle, WalksInv, WalkInv
<1>3. ASSUME NextPass PROVE WalksInv'
  <2>1. sweep.at = NoHop /\ sweep.rest = {} /\ sweep.on = NoConn
    BY <1>3, NoConnTo DEF NextPass, WalksInv, WalkInv
  <2>2. /\ sweep'.at = NoHop /\ sweep'.rest = {} /\ sweep'.on = NoConn /\ upd' = upd
    BY <1>3, <2>1 DEF NextPass, Idle, TypeInv, Sweeps
  <2> QED BY <2>2 DEF WalksInv, WalkInv
<1>4. ASSUME NEW h \in Hops, SkipHop(h) PROVE WalksInv'
  <2>1. sweep' = [sweep EXCEPT !.todo = @ \ {h}] /\ sweep.at = NoHop /\ upd' = upd
    BY <1>4 DEF SkipHop, SweepAt
  <2> QED BY <2>1 DEF WalksInv, WalkInv, TypeInv, Sweeps
<1>5. ASSUME NEW h \in Hops, ProbeEnter(h) PROVE WalksInv'
  <2>1. sweep' = Enters(sweep, h) /\ h \in sweep.todo /\ sweep.at = NoHop /\ sweep.phase = "probe" /\ upd' = upd
    BY <1>5 DEF ProbeEnter, SweepAt
  <2>2. upd.at = NoHop
    BY <1>5 DEF ProbeEnter, SweepAt, PoolFree, WalksInv, WalkInv
  <2>3. WalkInv(sweep') /\ sweep'.phase = "probe" /\ WalkInv(upd)
    BY <2>1, EntersWalk DEF WalksInv, TypeInv
  <2> QED BY <2>1, <2>2, <2>3 DEF WalksInv, WalkInv
<1>6. ASSUME NEW c \in Conns, ProbeCheck(c) PROVE WalksInv'
  <2>1. WalkInv(sweep') /\ sweep'.phase = sweep.phase /\ sweep'.at \in {sweep.at, NoHop} /\ upd' = upd
    BY <1>6, ChecksWalk DEF ProbeCheck, WalksInv, TypeInv
  <2> QED BY <2>1 DEF WalksInv, WalkInv
<1>7. ASSUME ProbeWrite PROVE WalksInv'
  <2>1. WalkInv(sweep') /\ sweep'.phase = sweep.phase /\ sweep'.at \in {sweep.at, NoHop} /\ upd' = upd
    BY <1>7, WroteWalk DEF ProbeWrite, WalksInv, TypeInv
  <2> QED BY <2>1 DEF WalksInv, WalkInv
<1>8. ASSUME NEW h \in Hops, Maintain(h) PROVE WalksInv'
  <2>1. sweep' = [sweep EXCEPT !.todo = @ \ {h}] /\ sweep.at = NoHop /\ upd' = upd
    BY <1>8 DEF Maintain, SweepAt
  <2> QED BY <2>1 DEF WalksInv, WalkInv, TypeInv, Sweeps
<1>9. ASSUME NEW h \in Hops, Shrink(h) PROVE WalksInv'
  <2>1. sweep' = [sweep EXCEPT !.todo = @ \ {h}] /\ sweep.at = NoHop /\ upd' = upd
    BY <1>9 DEF Shrink, SweepAt
  <2> QED BY <2>1 DEF WalksInv, WalkInv, TypeInv, Sweeps
<1>10. ASSUME NEW peers \in SUBSET Hops, UpdateStart(peers) PROVE WalksInv'
  <2>1. upd'.at = NoHop /\ upd'.rest = {} /\ upd'.on = NoConn /\ sweep' = sweep
    BY <1>10 DEF UpdateStart, NoUpdate
  <2> QED BY <2>1 DEF WalksInv, WalkInv
<1>11. ASSUME NEW h \in Hops, UpdateRemove(h) PROVE WalksInv'
  <2>1. upd' = [upd EXCEPT !.gone = @ \ {h}] /\ sweep' = sweep /\ h \in upd.gone
    BY <1>11 DEF UpdateRemove
  <2> QED BY <2>1 DEF WalksInv, WalkInv, TypeInv, Updates
<1>12. ASSUME NEW h \in Hops, UpdateEnter(h) PROVE WalksInv'
  <2> DEFINE w == [upd EXCEPT !.active = @ \ {h}]
  <2>1. /\ w \in Updates /\ WalkInv(w) /\ h \in w.todo /\ w.at = NoHop /\ w.gone = {}
        /\ upd' = Enters(w, h) /\ sweep' = sweep /\ sweep.at # h
    BY <1>12 DEF UpdateEnter, UpdateAt, GroupFree, TypeInv, WalksInv, WalkInv, Updates
  <2> HIDE DEF w
  <2>2. WalkInv(upd') /\ upd'.gone = {} /\ upd'.at \in {h, NoHop}
    BY <2>1, EntersWalk
  <2> QED BY <2>1, <2>2 DEF WalksInv, WalkInv
<1>13. ASSUME NEW c \in Conns, UpdateCheck(c) PROVE WalksInv'
  <2>1. WalkInv(upd') /\ upd'.gone = upd.gone /\ upd'.at \in {upd.at, NoHop} /\ sweep' = sweep
    BY <1>13, ChecksWalk DEF UpdateCheck, WalksInv, TypeInv
  <2> QED BY <2>1 DEF WalksInv, WalkInv
<1>14. ASSUME UpdateWrite PROVE WalksInv'
  <2>1. WalkInv(upd') /\ upd'.gone = upd.gone /\ upd'.at \in {upd.at, NoHop} /\ sweep' = sweep
    BY <1>14, WroteWalk DEF UpdateWrite, WalksInv, TypeInv
  <2> QED BY <2>1 DEF WalksInv, WalkInv
<1>15. ASSUME NEW h \in Hops, UpdateNew(h) PROVE WalksInv'
  <2>1. /\ upd'.todo = upd.todo \ {h} /\ upd'.at = upd.at /\ upd'.rest = upd.rest
        /\ upd'.on = upd.on /\ upd'.gone = upd.gone /\ upd.at = NoHop /\ sweep' = sweep
    BY <1>15 DEF UpdateNew, UpdateAt, TypeInv, Updates
  <2> QED BY <2>1 DEF WalksInv, WalkInv
<1>16. ASSUME NEW h \in Hops, UpdateNewLazy(h) PROVE WalksInv'
  <2>1. /\ upd'.todo = upd.todo \ {h} /\ upd'.at = upd.at /\ upd'.rest = upd.rest
        /\ upd'.on = upd.on /\ upd'.gone = upd.gone /\ upd.at = NoHop /\ sweep' = sweep
    BY <1>16 DEF UpdateNewLazy, UpdateAt, TypeInv, Updates
  <2> QED BY <2>1 DEF WalksInv, WalkInv
<1>17. CASE UNCHANGED <<sweep, upd>>
  BY <1>17 DEF WalksInv, WalkInv
<1>18. ASSUME NEW h \in Hops, DialConnects(h) PROVE UNCHANGED <<sweep, upd>>
  BY <1>18 DEF DialConnects, poolVars, dialVars, boundVars
<1>19. ASSUME NEW h \in Hops, DialFails(h) PROVE UNCHANGED <<sweep, upd>>
  BY <1>19 DEF DialFails, poolVars, dialVars, boundVars
<1>20. ASSUME NEW c \in Conns, Land(c) PROVE UNCHANGED <<sweep, upd>>
  BY <1>20 DEF Land, poolVars, dialVars, boundVars
<1>21. ASSUME NEW c \in Conns, Join(c) PROVE UNCHANGED <<sweep, upd>>
  BY <1>21 DEF Join, poolVars, dialVars, boundVars
<1>22. ASSUME NEW s \in Senders, NEW c \in Conns, Acquire(s, c) PROVE UNCHANGED <<sweep, upd>>
  BY <1>22 DEF Acquire, poolVars, dialVars, boundVars
<1>23. ASSUME NEW h \in Hops, AcquireDials(h) PROVE UNCHANGED <<sweep, upd>>
  BY <1>23 DEF AcquireDials, poolVars, dialVars, boundVars
<1>24. ASSUME NEW s \in Senders, Release(s) PROVE UNCHANGED <<sweep, upd>>
  BY <1>24 DEF Release, poolVars, dialVars, boundVars
<1>25. ASSUME BatchStart PROVE UNCHANGED <<sweep, upd>>
  BY <1>25 DEF BatchStart, poolVars, dialVars, boundVars
<1>26. ASSUME NEW c \in Conns, TunSend(c) PROVE UNCHANGED <<sweep, upd>>
  BY <1>26 DEF TunSend, poolVars, dialVars, boundVars
<1>27. ASSUME NEW c \in Conns, TunSendFails(c) PROVE UNCHANGED <<sweep, upd>>
  BY <1>27 DEF TunSendFails, poolVars, dialVars, boundVars
<1>28. ASSUME TunSkip PROVE UNCHANGED <<sweep, upd>>
  BY <1>28 DEF TunSkip, poolVars, dialVars, boundVars
<1>29. ASSUME BatchEnd PROVE UNCHANGED <<sweep, upd>>
  BY <1>29 DEF BatchEnd, poolVars, dialVars, boundVars
<1>30. ASSUME CloseStart PROVE UNCHANGED <<sweep, upd>>
  BY <1>30 DEF CloseStart, poolVars, dialVars, boundVars
<1>31. ASSUME CloseFinish PROVE UNCHANGED <<sweep, upd>>
  BY <1>31 DEF CloseFinish, poolVars, dialVars, boundVars
<1> QED
  BY <1>1, <1>2, <1>3, <1>4, <1>5, <1>6, <1>7, <1>8, <1>9, <1>10, <1>11, <1>12, <1>13, <1>14, <1>15, <1>16, <1>17, <1>18, <1>19, <1>20, <1>21, <1>22, <1>23, <1>24, <1>25, <1>26, <1>27, <1>28, <1>29, <1>30, <1>31
  DEF Next, DialStep, SenderStep, TunGoesOn, SweepGoesOn, UpdateGoesOn


-----------------------------------------------------------------------------
(* Where the open connections are.                                         *)

LEMMA InGrouped == \A c : c \in Grouped <=> \E h \in Hops : c \in group[h]
BY DEF Grouped

(* Connections that are closed where they are disturb nothing.             *)
LEMMA ShutKeepsPlaces ==
    ASSUME PlaceInv, live' \subseteq live, UNCHANGED <<member, group, arriving, landing, lost>>
    PROVE  PlaceInv'
BY DEF PlaceInv, NoStrayConn, Grouped

(* Where the connections of a peer are may change as long as the open ones *)
(* stay somewhere.                                                         *)
LEMMA PlacesKept ==
    ASSUME PlaceInv,
           \A h \in Hops \ member' : group'[h] = {},
           \A c \in landing' : c[1] \in member',
           \A c \in live' \ live : c \in arriving' \cup landing' \/ \E h \in Hops : c \in group'[h],
           \A c \in live \cap live', h \in Hops :
               c \in group[h] => \E g \in Hops : c \in group'[g],
           \A c \in (live \cap live') \cap (arriving \cup landing \cup lost) :
               \/ c \in arriving' \cup landing' \cup lost'
               \/ \E h \in Hops : c \in group'[h]
    PROVE  PlaceInv'
<1>1. \A c : (\E h \in Hops : c \in group'[h]) => c \in Grouped'
  BY DEF Grouped
<1>2. ASSUME NEW c \in live' PROVE c \in Grouped' \cup arriving' \cup landing' \cup lost'
  <2>1. CASE c \in live
    BY <1>1, <2>1, InGrouped DEF PlaceInv, NoStrayConn
  <2>2. CASE c \notin live
    BY <1>1, <2>2
  <2> QED BY <2>1, <2>2
<1> QED BY <1>2 DEF PlaceInv, NoStrayConn

(* No step takes an open connection out of every place.                    *)
LEMMA PlaceStep ==
    ASSUME TypeInv, PlaceInv, Next
    PROVE  PlaceInv'
<1>1. ASSUME NEW h \in Hops, DialConnects(h) PROVE PlaceInv'
  <2>1. PICK cs \in Made(h, 1) : Enter(cs) /\ arriving' = arriving \cup cs.new
    BY <1>1 DEF DialConnects
  <2>2. live' = live \cup cs.new /\ UNCHANGED <<member, group, landing, lost>>
    BY <1>1, <2>1 DEF DialConnects, Enter, poolVars, dialVars, boundVars
  <2> QED BY <2>1, <2>2, PlacesKept DEF PlaceInv
<1>2. ASSUME NEW c \in Conns, Land(c) PROVE PlaceInv'
  <2>1. CASE c[1] \in member
    <3>1. /\ arriving' = arriving \ {c} /\ landing' = landing \cup {c}
          /\ UNCHANGED <<member, group, live, lost>>
      BY <1>2, <2>1 DEF Land, poolVars, dialVars, boundVars
    <3> QED BY <2>1, <3>1, PlacesKept DEF PlaceInv
  <2>2. CASE c[1] \notin member
    <3>1. /\ arriving' = arriving \ {c} /\ live' = live \ {c}
          /\ UNCHANGED <<member, group, landing, lost>>
      BY <1>2, <2>2 DEF Land, Shut, poolVars, dialVars, boundVars
    <3> QED BY <3>1, PlacesKept DEF PlaceInv
  <2> QED BY <2>1, <2>2
<1>3. ASSUME NEW c \in Conns, Join(c) PROVE PlaceInv'
  <2>1. /\ c[1] \in Hops /\ c[1] \in member
        /\ landing' = landing \ {c} /\ group' = [group EXCEPT ![c[1]] = @ \cup {c}]
        /\ UNCHANGED <<member, live, arriving, lost>>
    BY <1>3 DEF Join, PlaceInv, TypeInv, poolVars, dialVars, boundVars
  <2>2. c \in group'[c[1]] /\ \A h \in Hops : group[h] \subseteq group'[h]
    BY <2>1 DEF TypeInv
  <2>3. \A h \in Hops \ member' : group'[h] = {}
    BY <2>1 DEF TypeInv, PlaceInv
  <2> QED BY <2>1, <2>2, <2>3, PlacesKept DEF PlaceInv
<1>4. ASSUME NEW s \in Senders, Release(s) PROVE PlaceInv'
  <2>1. live' \subseteq live /\ UNCHANGED <<member, group, arriving, landing, lost>>
    BY <1>4 DEF Release, KeepaliveFails, Shut, poolVars, dialVars, boundVars
  <2> QED BY <2>1, ShutKeepsPlaces
<1>5. ASSUME NEW c \in Conns, TunSendFails(c) PROVE PlaceInv'
  <2>1. live' \subseteq live /\ UNCHANGED <<member, group, arriving, landing, lost>>
    BY <1>5 DEF TunSendFails, KeepaliveFails, Shut, poolVars, dialVars, boundVars
  <2> QED BY <2>1, ShutKeepsPlaces
<1>6. ASSUME ProbeWrite PROVE PlaceInv'
  <2>1. live' \subseteq live /\ UNCHANGED <<member, group, arriving, landing, lost>>
    BY <1>6 DEF ProbeWrite, KeepaliveFails, Shut, poolVars, dialVars, boundVars
  <2> QED BY <2>1, ShutKeepsPlaces
<1>7. ASSUME NEW h \in Hops, Maintain(h) PROVE PlaceInv'
  <2>1. group' = [group EXCEPT ![h] = Alive(h)] /\ UNCHANGED <<member, live, arriving, landing, lost>> /\ h \in member
    BY <1>7 DEF Maintain, poolVars, dialVars, boundVars
  <2>2. \A g \in Hops : group[g] \cap live \subseteq group'[g] /\ group'[g] \subseteq group[g]
    BY <2>1 DEF TypeInv, Alive
  <2>3. \A g \in Hops \ member' : group'[g] = {}
    BY <2>1, <2>2 DEF PlaceInv
  <2> QED BY <2>1, <2>2, <2>3, PlacesKept DEF PlaceInv
<1>8. ASSUME NEW h \in Hops, Shrink(h) PROVE PlaceInv'
  <2>1. PICK cs \in SUBSET Alive(h) : CountOut(cs) /\ group' = [group EXCEPT ![h] = Alive(h) \ cs]
    BY <1>8 DEF Shrink
  <2>2. live' = live \ cs /\ UNCHANGED <<member, arriving, landing, lost>> /\ h \in member
    BY <1>8, <2>1 DEF Shrink, CountOut, Shut, poolVars, dialVars, boundVars
  <2>3. \A g \in Hops : group[g] \cap live' \subseteq group'[g] /\ group'[g] \subseteq group[g]
    BY <2>1, <2>2 DEF TypeInv, Alive
  <2>4. \A g \in Hops \ member' : group'[g] = {}
    BY <2>2, <2>3 DEF PlaceInv
  <2> QED BY <2>2, <2>3, <2>4, PlacesKept DEF PlaceInv
<1>9. ASSUME NEW h \in Hops, UpdateRemove(h) PROVE PlaceInv'
  <2>1. /\ group' = [group EXCEPT ![h] = {}] /\ member' = member \ {h}
        /\ lost' = lost \cup (landing \cap To(h)) /\ landing' = landing \ To(h)
        /\ live' = live \ Alive(h) /\ arriving' = arriving
    BY <1>9 DEF UpdateRemove, CountOut, Shut, poolVars, dialVars, boundVars
  <2>2. \A g \in Hops : g # h => group'[g] = group[g]
    BY <2>1 DEF TypeInv
  <2>3. group'[h] = {} /\ live' \cap group[h] = {}
    BY <2>1 DEF TypeInv, Alive
  <2>4. \A g \in Hops \ member' : group'[g] = {}
    BY <2>1, <2>2, <2>3 DEF PlaceInv
  <2>5. \A c \in landing' : c[1] \in member'
    BY <2>1 DEF PlaceInv, TypeInv, To
  <2> QED BY <2>1, <2>2, <2>3, <2>4, <2>5, PlacesKept
<1>10. ASSUME UpdateWrite PROVE PlaceInv'
  <2>1. live' \subseteq live /\ UNCHANGED <<member, group, arriving, landing, lost>>
    BY <1>10 DEF UpdateWrite, KeepaliveFails, Shut, poolVars, dialVars, boundVars
  <2> QED BY <2>1, ShutKeepsPlaces
<1>11. ASSUME NEW h \in Hops, UpdateNew(h) PROVE PlaceInv'
  <2>0. PICK n \in 0..MinConnsPerHop : \E cs \in Made(h, n) : Enter(cs) /\ group' = [group EXCEPT ![h] = cs.new]
    BY <1>11 DEF UpdateNew
  <2>1. PICK cs \in Made(h, n) : Enter(cs) /\ group' = [group EXCEPT ![h] = cs.new]
    BY <2>0
  <2>2. /\ member' = member \cup {h} /\ h \notin member /\ live' = live \cup cs.new
        /\ UNCHANGED <<arriving, landing, lost>>
    BY <1>11, <2>1 DEF UpdateNew, Enter, poolVars, dialVars, boundVars
  <2>3. group[h] = {} /\ group'[h] = cs.new /\ \A g \in Hops : g # h => group'[g] = group[g]
    BY <2>1, <2>2 DEF TypeInv, PlaceInv
  <2>4. \A g \in Hops \ member' : group'[g] = {}
    BY <2>2, <2>3 DEF PlaceInv
  <2> QED BY <2>2, <2>3, <2>4, PlacesKept DEF PlaceInv
<1>12. ASSUME NEW h \in Hops, UpdateNewLazy(h) PROVE PlaceInv'
  <2>1. member' = member \cup {h} /\ UNCHANGED <<group, live, arriving, landing, lost>>
    BY <1>12 DEF UpdateNewLazy, poolVars, dialVars, boundVars
  <2> QED BY <2>1, PlacesKept DEF PlaceInv
<1>13. ASSUME CloseFinish PROVE PlaceInv'
  <2>1. /\ group' = [h \in Hops |-> {}] /\ landing = {} /\ arriving = {}
        /\ live' = live \ Grouped /\ UNCHANGED <<arriving, landing, lost>>
    BY <1>13 DEF CloseFinish, GoroutinesEnded, CountOut, Shut, poolVars, dialVars, boundVars
  <2>2. \A h \in Hops : live' \cap group[h] = {}
    BY <2>1, InGrouped
  <2> QED BY <2>1, <2>2, PlacesKept
<1>14. CASE UNCHANGED <<member, group, live, arriving, landing, lost>>
  BY <1>14 DEF PlaceInv, NoStrayConn, Grouped
<1>15. ASSUME NEW h \in Hops, DialFails(h) PROVE UNCHANGED <<member, group, live, arriving, landing, lost>>
  BY <1>15 DEF DialFails, poolVars, dialVars, boundVars
<1>16. ASSUME NEW s \in Senders, NEW c \in Conns, Acquire(s, c) PROVE UNCHANGED <<member, group, live, arriving, landing, lost>>
  BY <1>16 DEF Acquire, poolVars, dialVars, boundVars
<1>17. ASSUME NEW h \in Hops, AcquireDials(h) PROVE UNCHANGED <<member, group, live, arriving, landing, lost>>
  BY <1>17 DEF AcquireDials, poolVars, dialVars, boundVars
<1>18. ASSUME BatchStart PROVE UNCHANGED <<member, group, live, arriving, landing, lost>>
  BY <1>18 DEF BatchStart, poolVars, dialVars, boundVars
<1>19. ASSUME NEW c \in Conns, TunSend(c) PROVE UNCHANGED <<member, group, live, arriving, landing, lost>>
  BY <1>19 DEF TunSend, poolVars, dialVars, boundVars
<1>20. ASSUME TunSkip PROVE UNCHANGED <<member, group, live, arriving, landing, lost>>
  BY <1>20 DEF TunSkip, poolVars, dialVars, boundVars
<1>21. ASSUME BatchEnd PROVE UNCHANGED <<member, group, live, arriving, landing, lost>>
  BY <1>21 DEF BatchEnd, poolVars, dialVars, boundVars
<1>22. ASSUME SweepStart PROVE UNCHANGED <<member, group, live, arriving, landing, lost>>
  BY <1>22 DEF SweepStart, poolVars, dialVars, boundVars
<1>23. ASSUME SweepExit PROVE UNCHANGED <<member, group, live, arriving, landing, lost>>
  BY <1>23 DEF SweepExit, poolVars, dialVars, boundVars
<1>24. ASSUME NextPass PROVE UNCHANGED <<member, group, live, arriving, landing, lost>>
  BY <1>24 DEF NextPass, poolVars, dialVars, boundVars
<1>25. ASSUME NEW h \in Hops, SkipHop(h) PROVE UNCHANGED <<member, group, live, arriving, landing, lost>>
  BY <1>25 DEF SkipHop, poolVars, dialVars, boundVars
<1>26. ASSUME NEW h \in Hops, ProbeEnter(h) PROVE UNCHANGED <<member, group, live, arriving, landing, lost>>
  BY <1>26 DEF ProbeEnter, poolVars, dialVars, boundVars
<1>27. ASSUME NEW c \in Conns, ProbeCheck(c) PROVE UNCHANGED <<member, group, live, arriving, landing, lost>>
  BY <1>27 DEF ProbeCheck, poolVars, dialVars, boundVars
<1>28. ASSUME NEW peers \in SUBSET Hops, UpdateStart(peers) PROVE UNCHANGED <<member, group, live, arriving, landing, lost>>
  BY <1>28 DEF UpdateStart, poolVars, dialVars, boundVars
<1>29. ASSUME NEW h \in Hops, UpdateEnter(h) PROVE UNCHANGED <<member, group, live, arriving, landing, lost>>
  BY <1>29 DEF UpdateEnter, poolVars, dialVars, boundVars
<1>30. ASSUME NEW c \in Conns, UpdateCheck(c) PROVE UNCHANGED <<member, group, live, arriving, landing, lost>>
  BY <1>30 DEF UpdateCheck, poolVars, dialVars, boundVars
<1>31. ASSUME CloseStart PROVE UNCHANGED <<member, group, live, arriving, landing, lost>>
  BY <1>31 DEF CloseStart, poolVars, dialVars, boundVars
<1> QED
  BY <1>1, <1>2, <1>3, <1>4, <1>5, <1>6, <1>7, <1>8, <1>9, <1>10, <1>11, <1>12, <1>13, <1>14, <1>15, <1>16, <1>17, <1>18, <1>19, <1>20, <1>21, <1>22, <1>23, <1>24, <1>25, <1>26, <1>27, <1>28, <1>29, <1>30, <1>31
  DEF Next, DialStep, SenderStep, TunGoesOn, SweepGoesOn, UpdateGoesOn

-----------------------------------------------------------------------------
(* The counter.                                                            *)

LEMMA PendingConns == TypeInv => Pending \subseteq Conns /\ live \subseteq Conns /\ live \cup Pending \subseteq Conns
BY DEF TypeInv, Pending, Sweeps, Updates

(* Nothing is opened and nothing is counted.                               *)
LEMMA CountFewer ==
    ASSUME TypeInv, CountInv, total' = total, live' \cup Pending' \subseteq live \cup Pending
    PROVE  CountInv'
<1>1. IsFiniteSet(live \cup Pending) /\ Cardinality(live \cup Pending) \in Nat
  BY PendingConns, FiniteConns
<1>2. /\ Cardinality(live' \cup Pending') <= Cardinality(live \cup Pending)
      /\ Cardinality(live' \cup Pending') \in Nat
  BY <1>1, FS_Subset, FS_CardinalityType
<1> QED BY <1>1, <1>2 DEF CountInv, TypeInv

(* Open connections no keepalive is being written to are counted out.      *)
LEMMA CountOutKeeps ==
    ASSUME TypeInv, CountInv, NEW cs \in SUBSET live, CountOut(cs),
           cs \cap Pending = {}, Pending' \subseteq Pending
    PROVE  CountInv'
<1> DEFINE a == live \cup Pending
           b == live' \cup Pending'
<1>1. IsFiniteSet(a) /\ Cardinality(a) \in Nat /\ a \cap cs = cs /\ cs \subseteq Conns
  BY PendingConns, FiniteConns
<1>2. b \subseteq a \ cs /\ total' = total - Cardinality(cs)
  BY DEF CountOut, Shut
<1> HIDE DEF a, b
<1>3. IsFiniteSet(a \ cs) /\ Cardinality(a \ cs) = Cardinality(a) - Cardinality(cs)
  BY <1>1, FS_Difference
<1>4. Cardinality(b) <= Cardinality(a \ cs) /\ Cardinality(b) \in Nat
  BY <1>2, <1>3, FS_Subset, FS_CardinalityType
<1>5. Cardinality(cs) \in Nat
  BY <1>1, FiniteConns
<1>6. Cardinality(a) <= total /\ total \in Int
  BY DEF a, CountInv, TypeInv
<1>7. Cardinality(b) <= total'
  BY <1>1, <1>2, <1>3, <1>4, <1>5, <1>6
<1> QED BY <1>7 DEF b, CountInv

(* New connections are counted.                                            *)
LEMMA EnterKeeps ==
    ASSUME TypeInv, CountInv, NEW cs, cs.new \subseteq Conns, Enter(cs), Pending' \subseteq Pending
    PROVE  CountInv'
<1> DEFINE a == live \cup Pending
           b == live' \cup Pending'
           n == cs.new
<1>1. IsFiniteSet(a) /\ Cardinality(a) \in Nat /\ IsFiniteSet(n) /\ Cardinality(n) \in Nat
  BY PendingConns, FiniteConns
<1>2. b \subseteq a \cup n /\ total' = total + Cardinality(n) /\ a \cap n \subseteq Conns
  BY DEF Enter
<1>3. Cardinality(a) <= total /\ total \in Int
  BY DEF CountInv, TypeInv
<1>4. b = live' \cup Pending'
  OBVIOUS
<1> HIDE DEF a, b, n
<1>5. /\ IsFiniteSet(a \cup n)
      /\ Cardinality(a \cup n) = Cardinality(a) + Cardinality(n) - Cardinality(a \cap n)
  BY <1>1, FS_Union
<1>6. Cardinality(a \cap n) \in Nat
  BY <1>2, FiniteConns
<1>7. Cardinality(b) <= Cardinality(a \cup n) /\ Cardinality(b) \in Nat
  BY <1>2, <1>5, FS_Subset, FS_CardinalityType
<1>8. Cardinality(b) <= total'
  BY <1>1, <1>2, <1>3, <1>5, <1>6, <1>7
<1> QED BY <1>4, <1>8 DEF CountInv

(* The connection a keepalive has failed on is counted out.                *)
LEMMA KeepaliveKeeps ==
    ASSUME TypeInv, CountInv, NEW c \in Pending, KeepaliveFails(c), Pending' \subseteq Pending \ {c}
    PROVE  CountInv'
<1> DEFINE a == live \cup Pending
           b == live' \cup Pending'
<1>1. IsFiniteSet(a) /\ Cardinality(a) \in Nat /\ c \in a
  BY PendingConns, FiniteConns
<1>2. b \subseteq a \ {c} /\ total' = total - 1
  BY DEF KeepaliveFails, Shut
<1>3. Cardinality(a) <= total /\ total \in Int
  BY DEF CountInv, TypeInv
<1>4. b = live' \cup Pending'
  OBVIOUS
<1> HIDE DEF a, b
<1>5. IsFiniteSet(a \ {c}) /\ Cardinality(a \ {c}) = Cardinality(a) - 1
  BY <1>1, FS_RemoveElement
<1>6. Cardinality(b) <= Cardinality(a \ {c}) /\ Cardinality(b) \in Nat
  BY <1>2, <1>5, FS_Subset, FS_CardinalityType
<1>7. Cardinality(b) <= total'
  BY <1>1, <1>2, <1>3, <1>5, <1>6
<1> QED BY <1>4, <1>7 DEF CountInv

(* Connections in different groups are different.                          *)
LEMMA ToApart == \A g \in Hops, h \in Hops : g # h => To(g) \cap To(h) = {}
BY DEF To

(* No step opens a connection uncounted or counts one out twice.           *)
LEMMA CountStep ==
    ASSUME TypeInv, WalksInv, CountInv, Next
    PROVE  CountInv'
<1>1. ASSUME NEW h \in Hops, DialConnects(h) PROVE CountInv'
  <2>1. PICK cs \in Made(h, 1) : Enter(cs)
    BY <1>1 DEF DialConnects
  <2>2. cs.new \subseteq Conns /\ Pending' = Pending
    BY <1>1, <2>1, MadeConns, NoConnTo DEF DialConnects, Pending
  <2> QED BY <2>1, <2>2, EnterKeeps
<1>2. ASSUME NEW c \in Conns, Land(c) PROVE CountInv'
  <2>1. total' = total /\ live' \subseteq live /\ UNCHANGED <<sweep, upd>>
    BY <1>2 DEF Land, Shut, poolVars, dialVars, boundVars
  <2> QED BY <2>1, CountFewer DEF Pending
<1>3. ASSUME NEW s \in Senders, Release(s) PROVE CountInv'
  <2>1. total' = total /\ live' \subseteq live /\ UNCHANGED <<sweep, upd>>
    BY <1>3 DEF Release, Shut, poolVars, dialVars, boundVars
  <2> QED BY <2>1, CountFewer DEF Pending
<1>4. ASSUME NEW c \in Conns, TunSendFails(c) PROVE CountInv'
  <2>1. total' = total /\ live' \subseteq live /\ UNCHANGED <<sweep, upd>>
    BY <1>4 DEF TunSendFails, Shut, poolVars, dialVars, boundVars
  <2> QED BY <2>1, CountFewer DEF Pending
<1>5. ASSUME SweepStart PROVE CountInv'
  <2>1. sweep'.on \in {sweep.on, NoConn} /\ upd' = upd
    BY <1>5 DEF SweepStart, Idle
  <2>2. UNCHANGED <<live, total>>
    BY <1>5 DEF SweepStart, poolVars, dialVars, boundVars
  <2> QED BY <2>1, <2>2, CountFewer DEF Pending
<1>6. ASSUME SweepExit PROVE CountInv'
  <2>1. sweep'.on \in {sweep.on, NoConn} /\ upd' = upd
    BY <1>6 DEF SweepExit, Idle
  <2>2. UNCHANGED <<live, total>>
    BY <1>6 DEF SweepExit, poolVars, dialVars, boundVars
  <2> QED BY <2>1, <2>2, CountFewer DEF Pending
<1>7. ASSUME NextPass PROVE CountInv'
  <2>1. sweep'.on \in {sweep.on, NoConn} /\ upd' = upd
    BY <1>7 DEF NextPass, Idle, TypeInv, Sweeps
  <2>2. UNCHANGED <<live, total>>
    BY <1>7 DEF NextPass, poolVars, dialVars, boundVars
  <2> QED BY <2>1, <2>2, CountFewer DEF Pending
<1>8. ASSUME NEW h \in Hops, SkipHop(h) PROVE CountInv'
  <2>1. sweep'.on \in {sweep.on, NoConn} /\ upd' = upd
    BY <1>8 DEF SkipHop, TypeInv, Sweeps
  <2>2. UNCHANGED <<live, total>>
    BY <1>8 DEF SkipHop, poolVars, dialVars, boundVars
  <2> QED BY <2>1, <2>2, CountFewer DEF Pending
<1>9. ASSUME NEW h \in Hops, ProbeEnter(h) PROVE CountInv'
  <2>1. sweep'.on \in {sweep.on, NoConn} /\ upd' = upd
    BY <1>9, EntersWalk DEF ProbeEnter, SweepAt, TypeInv, WalksInv
  <2>2. UNCHANGED <<live, total>>
    BY <1>9 DEF ProbeEnter, poolVars, dialVars, boundVars
  <2> QED BY <2>1, <2>2, CountFewer DEF Pending
<1>10. ASSUME NEW c \in Conns, ProbeCheck(c) PROVE CountInv'
  <2>1. sweep'.on \in live \cup {NoConn} /\ upd' = upd
    BY <1>10, ChecksWalk DEF ProbeCheck, WalksInv, TypeInv
  <2>2. UNCHANGED <<live, total>>
    BY <1>10 DEF ProbeCheck, poolVars, dialVars, boundVars
  <2> QED BY <2>1, <2>2, CountFewer DEF Pending
<1>11. ASSUME ProbeWrite PROVE CountInv'
  <2>1. sweep'.on = NoConn /\ upd' = upd /\ sweep.on # NoConn
    BY <1>11, WroteWalk DEF ProbeWrite, CanWrite, WalksInv, TypeInv
  <2>2. sweep.on \in To(sweep.at) /\ upd.on \in To(upd.at) \cup {NoConn}
    BY <2>1 DEF WalksInv, WalkInv
  <2>3. sweep.at \in Hops /\ upd.at \in Hops \cup {NoHop} /\ sweep.at # upd.at
    BY <2>2, NoConnTo DEF TypeInv, WalksInv, Sweeps, Updates
  <2>4. sweep.on # upd.on
    BY <2>1, <2>2, <2>3, ToApart, NoConnTo
  <2>5. sweep.on \in Pending /\ Pending' \subseteq Pending \ {sweep.on}
    BY <2>1, <2>4 DEF Pending
  <2>6. CASE KeepaliveFails(sweep.on)
    BY <2>5, <2>6, KeepaliveKeeps
  <2>7. CASE UNCHANGED <<live, total>>
    BY <2>5, <2>7, CountFewer
  <2> QED BY <1>11, <2>6, <2>7 DEF ProbeWrite, poolVars, dialVars, boundVars
<1>12. ASSUME NEW h \in Hops, Maintain(h) PROVE CountInv'
  <2>1. sweep'.on \in {sweep.on, NoConn} /\ upd' = upd
    BY <1>12 DEF Maintain, TypeInv, Sweeps
  <2>2. UNCHANGED <<live, total>>
    BY <1>12 DEF Maintain, poolVars, dialVars, boundVars
  <2> QED BY <2>1, <2>2, CountFewer DEF Pending
<1>13. ASSUME NEW h \in Hops, Shrink(h) PROVE CountInv'
  <2>1. PICK cs \in SUBSET Alive(h) : CountOut(cs)
    BY <1>13 DEF Shrink
  <2>2. sweep.at = NoHop /\ upd.at = NoHop
    BY <1>13 DEF Shrink, SweepAt, PoolFree, WalksInv, WalkInv
  <2>3. Pending = {}
    BY <2>2, NoConnTo DEF Pending, WalksInv, WalkInv
  <2>4. sweep'.on = sweep.on /\ upd' = upd
    BY <1>13 DEF Shrink, TypeInv, Sweeps
  <2>5. cs \in SUBSET live /\ Pending' \subseteq Pending
    BY <2>4 DEF Alive, Pending
  <2> QED BY <2>1, <2>3, <2>5, CountOutKeeps
<1>14. ASSUME NEW peers \in SUBSET Hops, UpdateStart(peers) PROVE CountInv'
  <2>1. upd'.on \in {upd.on, NoConn} /\ sweep' = sweep
    BY <1>14 DEF UpdateStart, NoUpdate
  <2>2. UNCHANGED <<live, total>>
    BY <1>14 DEF UpdateStart, poolVars, dialVars, boundVars
  <2> QED BY <2>1, <2>2, CountFewer DEF Pending
<1>15. ASSUME NEW h \in Hops, UpdateRemove(h) PROVE CountInv'
  <2>1. CountOut(Alive(h)) /\ h \in upd.gone /\ sweep.at # h /\ sweep' = sweep /\ upd'.on = upd.on
    BY <1>15 DEF UpdateRemove, GroupFree, TypeInv, Updates
  <2>2. upd.on = NoConn
    BY <2>1, NoConnTo DEF WalksInv, WalkInv
  <2>3. sweep.on \notin To(h)
    BY ToApart, NoConnTo, <2>1 DEF WalksInv, WalkInv, TypeInv, Sweeps
  <2>4. Alive(h) \cap Pending = {} /\ Alive(h) \in SUBSET live /\ Pending' \subseteq Pending
    BY <2>1, <2>2, <2>3 DEF Alive, Pending, TypeInv
  <2> QED BY <2>1, <2>4, CountOutKeeps
<1>16. ASSUME NEW h \in Hops, UpdateEnter(h) PROVE CountInv'
  <2> DEFINE w == [upd EXCEPT !.active = @ \ {h}]
  <2>1. /\ w \in Updates /\ WalkInv(w) /\ h \in w.todo /\ w.at = NoHop
        /\ upd' = Enters(w, h) /\ sweep' = sweep
    BY <1>16 DEF UpdateEnter, UpdateAt, TypeInv, WalksInv, WalkInv, Updates
  <2> HIDE DEF w
  <2>2. upd'.on = NoConn
    BY <2>1, EntersWalk
  <2>3. UNCHANGED <<live, total>>
    BY <1>16 DEF UpdateEnter, poolVars, dialVars, boundVars
  <2> QED BY <2>1, <2>2, <2>3, CountFewer DEF Pending
<1>17. ASSUME NEW c \in Conns, UpdateCheck(c) PROVE CountInv'
  <2>1. upd'.on \in live \cup {NoConn} /\ sweep' = sweep
    BY <1>17, ChecksWalk DEF UpdateCheck, WalksInv, TypeInv
  <2>2. UNCHANGED <<live, total>>
    BY <1>17 DEF UpdateCheck, poolVars, dialVars, boundVars
  <2> QED BY <2>1, <2>2, CountFewer DEF Pending
<1>18. ASSUME UpdateWrite PROVE CountInv'
  <2>1. upd'.on = NoConn /\ sweep' = sweep /\ upd.on # NoConn
    BY <1>18, WroteWalk DEF UpdateWrite, CanWrite, WalksInv, TypeInv
  <2>2. upd.on \in To(upd.at) /\ sweep.on \in To(sweep.at) \cup {NoConn}
    BY <2>1 DEF WalksInv, WalkInv
  <2>3. upd.at \in Hops /\ sweep.at \in Hops \cup {NoHop} /\ upd.at # sweep.at
    BY <2>2, NoConnTo DEF TypeInv, WalksInv, Sweeps, Updates
  <2>4. upd.on # sweep.on
    BY <2>1, <2>2, <2>3, ToApart, NoConnTo
  <2>5. upd.on \in Pending /\ Pending' \subseteq Pending \ {upd.on}
    BY <2>1, <2>4 DEF Pending
  <2>6. CASE KeepaliveFails(upd.on)
    BY <2>5, <2>6, KeepaliveKeeps
  <2>7. CASE UNCHANGED <<live, total>>
    BY <2>5, <2>7, CountFewer
  <2> QED BY <1>18, <2>6, <2>7 DEF UpdateWrite, poolVars, dialVars, boundVars
<1>19. ASSUME NEW h \in Hops, UpdateNew(h) PROVE CountInv'
  <2>1. PICK n \in 0..MinConnsPerHop : \E cs \in Made(h, n) : Enter(cs)
    BY <1>19 DEF UpdateNew
  <2>2. PICK cs \in Made(h, n) : Enter(cs)
    BY <2>1
  <2>3. cs.new \subseteq Conns
    BY MadeConns, NoConnTo
  <2>4. upd'.on = upd.on /\ sweep' = sweep
    BY <1>19 DEF UpdateNew, TypeInv, Updates
  <2> QED BY <2>2, <2>3, <2>4, EnterKeeps DEF Pending
<1>20. ASSUME NEW h \in Hops, UpdateNewLazy(h) PROVE CountInv'
  <2>1. upd'.on \in {upd.on, NoConn} /\ sweep' = sweep
    BY <1>20 DEF UpdateNewLazy, TypeInv, Updates
  <2>2. UNCHANGED <<live, total>>
    BY <1>20 DEF UpdateNewLazy, poolVars, dialVars, boundVars
  <2> QED BY <2>1, <2>2, CountFewer DEF Pending
<1>21. ASSUME CloseFinish PROVE CountInv'
  <2>1. CountOut(Grouped \cap live) /\ sweep.phase = "done" /\ UNCHANGED <<sweep, upd>>
    BY <1>21 DEF CloseFinish, GoroutinesEnded
  <2>2. sweep.at = NoHop /\ upd.at = NoHop
    BY <1>21, <2>1 DEF CloseFinish, PoolFree, WalksInv, WalkInv
  <2>3. Pending = {} /\ Pending' \subseteq Pending
    BY <2>1, <2>2, NoConnTo DEF Pending, WalksInv, WalkInv
  <2> QED BY <2>1, <2>3, CountOutKeeps
<1>22. CASE UNCHANGED <<live, total, sweep, upd>>
  BY <1>22 DEF CountInv, Pending
<1>23. ASSUME NEW h \in Hops, DialFails(h) PROVE UNCHANGED <<live, total, sweep, upd>>
  BY <1>23 DEF DialFails, poolVars, dialVars, boundVars
<1>24. ASSUME NEW c \in Conns, Join(c) PROVE UNCHANGED <<live, total, sweep, upd>>
  BY <1>24 DEF Join, poolVars, dialVars, boundVars
<1>25. ASSUME NEW s \in Senders, NEW c \in Conns, Acquire(s, c) PROVE UNCHANGED <<live, total, sweep, upd>>
  BY <1>25 DEF Acquire, poolVars, dialVars, boundVars
<1>26. ASSUME NEW h \in Hops, AcquireDials(h) PROVE UNCHANGED <<live, total, sweep, upd>>
  BY <1>26 DEF AcquireDials, poolVars, dialVars, boundVars
<1>27. ASSUME BatchStart PROVE UNCHANGED <<live, total, sweep, upd>>
  BY <1>27 DEF BatchStart, poolVars, dialVars, boundVars
<1>28. ASSUME NEW c \in Conns, TunSend(c) PROVE UNCHANGED <<live, total, sweep, upd>>
  BY <1>28 DEF TunSend, poolVars, dialVars, boundVars
<1>29. ASSUME TunSkip PROVE UNCHANGED <<live, total, sweep, upd>>
  BY <1>29 DEF TunSkip, poolVars, dialVars, boundVars
<1>30. ASSUME BatchEnd PROVE UNCHANGED <<live, total, sweep, upd>>
  BY <1>30 DEF BatchEnd, poolVars, dialVars, boundVars
<1>31. ASSUME CloseStart PROVE UNCHANGED <<live, total, sweep, upd>>
  BY <1>31 DEF CloseStart, poolVars, dialVars, boundVars
<1> QED
  BY <1>1, <1>2, <1>3, <1>4, <1>5, <1>6, <1>7, <1>8, <1>9, <1>10, <1>11, <1>12, <1>13, <1>14, <1>15, <1>16, <1>17, <1>18, <1>19, <1>20, <1>21, <1>22, <1>23, <1>24, <1>25, <1>26, <1>27, <1>28, <1>29, <1>30, <1>31
  DEF Next, DialStep, SenderStep, TunGoesOn, SweepGoesOn, UpdateGoesOn

-----------------------------------------------------------------------------
(* Close.                                                                  *)

(* Once Close has begun, what still runs ends.                             *)
LEMMA CloseStep ==
    ASSUME TypeInv, WalksInv, CloseInv, Next
    PROVE  CloseInv'
<1>1. ASSUME NEW h \in Hops, DialConnects(h) PROVE CloseInv'
  <2>1. state # "closed"
    BY <1>1 DEF DialConnects, CloseInv
  <2>2. UNCHANGED <<state, upd>>
    BY <1>1 DEF DialConnects, poolVars, dialVars, boundVars
  <2> QED BY <2>1, <2>2 DEF CloseInv, PoolFree
<1>2. ASSUME NEW h \in Hops, DialFails(h) PROVE CloseInv'
  <2>1. state # "closed"
    BY <1>2 DEF DialFails, CloseInv
  <2>2. UNCHANGED <<state, upd>>
    BY <1>2 DEF DialFails, poolVars, dialVars, boundVars
  <2> QED BY <2>1, <2>2 DEF CloseInv, PoolFree
<1>3. ASSUME NEW c \in Conns, Land(c) PROVE CloseInv'
  <2>1. state # "closed"
    BY <1>3 DEF Land, CloseInv
  <2>2. UNCHANGED <<state, upd>>
    BY <1>3 DEF Land, poolVars, dialVars, boundVars
  <2> QED BY <2>1, <2>2 DEF CloseInv, PoolFree
<1>4. ASSUME NEW c \in Conns, Join(c) PROVE CloseInv'
  <2>1. state # "closed"
    BY <1>4 DEF Join, CloseInv
  <2>2. UNCHANGED <<state, upd>>
    BY <1>4 DEF Join, poolVars, dialVars, boundVars
  <2> QED BY <2>1, <2>2 DEF CloseInv, PoolFree
<1>5. ASSUME NEW s \in Senders, NEW c \in Conns, Acquire(s, c) PROVE CloseInv'
  <2>1. state # "closed"
    BY <1>5 DEF Acquire, CloseInv, Found
  <2>2. UNCHANGED <<state, upd>>
    BY <1>5 DEF Acquire, poolVars, dialVars, boundVars
  <2> QED BY <2>1, <2>2 DEF CloseInv, PoolFree
<1>6. ASSUME NEW h \in Hops, AcquireDials(h) PROVE CloseInv'
  <2>1. state # "closed"
    BY <1>6 DEF AcquireDials, CloseInv
  <2>2. UNCHANGED <<state, upd>>
    BY <1>6 DEF AcquireDials, poolVars, dialVars, boundVars
  <2> QED BY <2>1, <2>2 DEF CloseInv, PoolFree
<1>7. ASSUME NEW c \in Conns, TunSend(c) PROVE CloseInv'
  <2>1. state # "closed"
    BY <1>7 DEF TunSend, CloseInv, Found
  <2>2. UNCHANGED <<state, upd>>
    BY <1>7 DEF TunSend, poolVars, dialVars, boundVars
  <2> QED BY <2>1, <2>2 DEF CloseInv, PoolFree
<1>8. ASSUME NEW c \in Conns, TunSendFails(c) PROVE CloseInv'
  <2>1. state # "closed"
    BY <1>8 DEF TunSendFails, CloseInv, Found
  <2>2. UNCHANGED <<state, upd>>
    BY <1>8 DEF TunSendFails, poolVars, dialVars, boundVars
  <2> QED BY <2>1, <2>2 DEF CloseInv, PoolFree
<1>9. ASSUME SweepStart PROVE CloseInv'
  <2>1. state # "closed"
    BY <1>9 DEF SweepStart, CloseInv
  <2>2. UNCHANGED <<state, upd>>
    BY <1>9 DEF SweepStart, poolVars, dialVars, boundVars
  <2> QED BY <2>1, <2>2 DEF CloseInv, PoolFree
<1>10. ASSUME SweepExit PROVE CloseInv'
  <2>1. state # "closed"
    BY <1>10 DEF SweepExit, CloseInv
  <2>2. UNCHANGED <<state, upd>>
    BY <1>10 DEF SweepExit, poolVars, dialVars, boundVars
  <2> QED BY <2>1, <2>2 DEF CloseInv, PoolFree
<1>11. ASSUME NextPass PROVE CloseInv'
  <2>1. state # "closed"
    BY <1>11 DEF NextPass, CloseInv
  <2>2. UNCHANGED <<state, upd>>
    BY <1>11 DEF NextPass, poolVars, dialVars, boundVars
  <2> QED BY <2>1, <2>2 DEF CloseInv, PoolFree
<1>12. ASSUME NEW h \in Hops, SkipHop(h) PROVE CloseInv'
  <2>1. sweep'.phase = sweep.phase
    BY <1>12 DEF SkipHop, TypeInv, Sweeps
  <2>2. UNCHANGED <<state, upd, dialing, group, arriving, landing, member>>
    BY <1>12 DEF SkipHop, poolVars, dialVars, boundVars
  <2> QED BY <2>1, <2>2 DEF CloseInv, PoolFree
<1>13. ASSUME NEW h \in Hops, ProbeEnter(h) PROVE CloseInv'
  <2>1. state # "closed"
    BY <1>13 DEF ProbeEnter, CloseInv
  <2>2. UNCHANGED <<state, upd>>
    BY <1>13 DEF ProbeEnter, poolVars, dialVars, boundVars
  <2> QED BY <2>1, <2>2 DEF CloseInv, PoolFree
<1>14. ASSUME NEW c \in Conns, ProbeCheck(c) PROVE CloseInv'
  <2>1. sweep'.phase = sweep.phase
    BY <1>14, ChecksWalk DEF ProbeCheck, WalksInv, TypeInv
  <2>2. UNCHANGED <<state, upd, dialing, group, arriving, landing, member>>
    BY <1>14 DEF ProbeCheck, poolVars, dialVars, boundVars
  <2> QED BY <2>1, <2>2 DEF CloseInv, PoolFree
<1>15. ASSUME ProbeWrite PROVE CloseInv'
  <2>1. sweep'.phase = sweep.phase
    BY <1>15, WroteWalk DEF ProbeWrite, WalksInv, TypeInv
  <2>2. UNCHANGED <<state, upd, dialing, group, arriving, landing, member>>
    BY <1>15 DEF ProbeWrite, poolVars, dialVars, boundVars
  <2> QED BY <2>1, <2>2 DEF CloseInv, PoolFree
<1>16. ASSUME NEW h \in Hops, Maintain(h) PROVE CloseInv'
  <2>1. state # "closed"
    BY <1>16 DEF Maintain, CloseInv
  <2>2. UNCHANGED <<state, upd>>
    BY <1>16 DEF Maintain, poolVars, dialVars, boundVars
  <2> QED BY <2>1, <2>2 DEF CloseInv, PoolFree
<1>17. ASSUME NEW h \in Hops, Shrink(h) PROVE CloseInv'
  <2>1. state # "closed"
    BY <1>17 DEF Shrink, CloseInv
  <2>2. UNCHANGED <<state, upd>>
    BY <1>17 DEF Shrink, poolVars, dialVars, boundVars
  <2> QED BY <2>1, <2>2 DEF CloseInv, PoolFree
<1>18. ASSUME NEW peers \in SUBSET Hops, UpdateStart(peers) PROVE CloseInv'
  <2>1. state = "open"
    BY <1>18 DEF UpdateStart, CloseInv, PoolFree
  <2>2. state' = state
    BY <1>18 DEF UpdateStart
  <2> QED BY <2>1, <2>2 DEF CloseInv
<1>19. ASSUME NEW h \in Hops, UpdateRemove(h) PROVE CloseInv'
  <2>1. state = "open"
    BY <1>19 DEF UpdateRemove, CloseInv, PoolFree
  <2>2. state' = state
    BY <1>19 DEF UpdateRemove
  <2> QED BY <2>1, <2>2 DEF CloseInv
<1>20. ASSUME NEW h \in Hops, UpdateEnter(h) PROVE CloseInv'
  <2>1. state = "open"
    BY <1>20 DEF UpdateEnter, CloseInv, PoolFree, UpdateAt
  <2>2. state' = state
    BY <1>20 DEF UpdateEnter
  <2> QED BY <2>1, <2>2 DEF CloseInv
<1>21. ASSUME NEW c \in Conns, UpdateCheck(c) PROVE CloseInv'
  <2>1. state = "open"
    BY <1>21, NoConnTo DEF UpdateCheck, CloseInv, PoolFree, CanCheck, WalksInv, WalkInv
  <2>2. state' = state
    BY <1>21 DEF UpdateCheck
  <2> QED BY <2>1, <2>2 DEF CloseInv
<1>22. ASSUME UpdateWrite PROVE CloseInv'
  <2>1. state = "open"
    BY <1>22, NoConnTo DEF UpdateWrite, CloseInv, PoolFree, CanWrite, WalksInv, WalkInv
  <2>2. state' = state
    BY <1>22 DEF UpdateWrite
  <2> QED BY <2>1, <2>2 DEF CloseInv
<1>23. ASSUME NEW h \in Hops, UpdateNew(h) PROVE CloseInv'
  <2>1. state = "open"
    BY <1>23 DEF UpdateNew, CloseInv, PoolFree, UpdateAt
  <2>2. state' = state
    BY <1>23 DEF UpdateNew
  <2> QED BY <2>1, <2>2 DEF CloseInv
<1>24. ASSUME NEW h \in Hops, UpdateNewLazy(h) PROVE CloseInv'
  <2>1. state = "open"
    BY <1>24 DEF UpdateNewLazy, CloseInv, PoolFree, UpdateAt
  <2>2. state' = state
    BY <1>24 DEF UpdateNewLazy
  <2> QED BY <2>1, <2>2 DEF CloseInv
<1>25. ASSUME CloseStart PROVE CloseInv'
  BY <1>25 DEF CloseStart, CloseInv, PoolFree
<1>26. ASSUME CloseFinish PROVE CloseInv'
  BY <1>26 DEF CloseFinish, GoroutinesEnded, CloseInv, PoolFree, dialVars
<1>27. CASE UNCHANGED <<state, upd, sweep, dialing, group, arriving, landing, member>>
  BY <1>27 DEF CloseInv, PoolFree
<1>28. ASSUME NEW s \in Senders, Release(s) PROVE UNCHANGED <<state, upd, sweep, dialing, group, arriving, landing, member>>
  BY <1>28 DEF Release, poolVars, dialVars, boundVars
<1>29. ASSUME BatchStart PROVE UNCHANGED <<state, upd, sweep, dialing, group, arriving, landing, member>>
  BY <1>29 DEF BatchStart, poolVars, dialVars, boundVars
<1>30. ASSUME TunSkip PROVE UNCHANGED <<state, upd, sweep, dialing, group, arriving, landing, member>>
  BY <1>30 DEF TunSkip, poolVars, dialVars, boundVars
<1>31. ASSUME BatchEnd PROVE UNCHANGED <<state, upd, sweep, dialing, group, arriving, landing, member>>
  BY <1>31 DEF BatchEnd, poolVars, dialVars, boundVars
<1> QED
  BY <1>1, <1>2, <1>3, <1>4, <1>5, <1>6, <1>7, <1>8, <1>9, <1>10, <1>11, <1>12, <1>13, <1>14, <1>15, <1>16, <1>17, <1>18, <1>19, <1>20, <1>21, <1>22, <1>23, <1>24, <1>25, <1>26, <1>27, <1>28, <1>29, <1>30, <1>31
  DEF Next, DialStep, SenderStep, TunGoesOn, SweepGoesOn, UpdateGoesOn

-----------------------------------------------------------------------------
(* The theorems.                                                           *)

LEMMA InitInv == Init => IInv
<1> SUFFICES ASSUME Init PROVE IInv
  OBVIOUS
<1>1. TypeInv
  BY PoolAssumption DEF Init, TypeInv, Idle, NoUpdate, NoBatch, Sweeps, Updates, Batches, Phases
<1>2. sweep.at = NoHop /\ sweep.on = NoConn /\ sweep.rest = {}
  BY DEF Init, Idle
<1>3. upd.at = NoHop /\ upd.on = NoConn /\ upd.rest = {} /\ upd.gone = {} /\ upd.todo = {}
  BY DEF Init, NoUpdate
<1>4. WalksInv
  BY <1>2, <1>3 DEF WalksInv, WalkInv
<1>5. PlaceInv
  BY DEF Init, PlaceInv, NoStrayConn
<1>6. live \cup Pending = {} /\ total = 0
  BY <1>2, <1>3 DEF Init, Pending
<1>7. CountInv
  BY <1>6, FS_EmptySet DEF CountInv
<1>8. CloseInv
  BY <1>3 DEF Init, CloseInv, PoolFree
<1> QED BY <1>1, <1>4, <1>5, <1>7, <1>8 DEF IInv

LEMMA StepInv == IInv /\ [Next]_vars => IInv'
<1>1. ASSUME IInv, Next PROVE IInv'
  BY <1>1, TypeStep, WalksStep, PlaceStep, CountStep, CloseStep DEF IInv
<1>2. ASSUME IInv, UNCHANGED vars PROVE IInv'
  BY <1>2 DEF IInv, TypeInv, WalksInv, WalkInv, PlaceInv, NoStrayConn, Grouped, CountInv, Pending,
             CloseInv, PoolFree, vars, poolVars, dialVars, boundVars
<1> QED BY <1>1, <1>2

LEMMA InvImplies == IInv => PoolTypeOK /\ CountsAtLeastLive /\ NoStrayConn /\ ClosedPoolIsEmpty
<1> SUFFICES ASSUME IInv PROVE PoolTypeOK /\ CountsAtLeastLive /\ NoStrayConn /\ ClosedPoolIsEmpty
  OBVIOUS
<1>1. TypeInv /\ NoStrayConn
  BY DEF IInv, PlaceInv
<1>2. PoolTypeOK
  BY <1>1 DEF TypeInv, PoolTypeOK, WalkOK, Sweeps, Updates, Batches, Phases
<1>3. CountsAtLeastLive
  <2>1. IsFiniteSet(live \cup Pending) /\ Cardinality(live \cup Pending) \in Nat
    BY <1>1, PendingConns, FiniteConns
  <2>2. Cardinality(live) <= Cardinality(live \cup Pending) /\ Cardinality(live) \in Nat
    BY <2>1, FS_Subset, FS_CardinalityType
  <2> QED BY <1>1, <2>1, <2>2 DEF IInv, CountInv, TypeInv, CountsAtLeastLive
<1>4. ClosedPoolIsEmpty
  <2> SUFFICES ASSUME state = "closed" PROVE live \subseteq lost
    BY DEF ClosedPoolIsEmpty
  <2>1. Grouped = {} /\ arriving = {} /\ landing = {}
    BY InGrouped DEF IInv, CloseInv
  <2> QED BY <1>1, <2>1 DEF NoStrayConn
<1> QED BY <1>1, <1>2, <1>3, <1>4

LEMMA PoolInvariant == PoolSpec => []IInv
BY InitInv, StepInv, PTL DEF PoolSpec

\* The types, for any peers, limits and bounds.
THEOREM PoolTypes == PoolSpec => []PoolTypeOK
BY PoolInvariant, InvImplies, PTL

\* The counter covers the open connections: the senders that close without
\* counting and the keepalives that count a connection out after that never
\* bring it below what is open (pool.go, totalConns).
THEOREM CounterCovers == PoolSpec => []CountsAtLeastLive
BY PoolInvariant, InvImplies, PTL

\* No open connection is out of reach of the pool, those excepted that join a
\* group while Update removes it (pool.go, the landing of a dial).
THEOREM NoneStray == PoolSpec => []NoStrayConn
BY PoolInvariant, InvImplies, PTL

\* After Close nothing the pool can reach is open (pool.go, Close).
THEOREM CloseEmpties == PoolSpec => []ClosedPoolIsEmpty
BY PoolInvariant, InvImplies, PTL

(***************************************************************************)
(* The data plane.                                                         *)
(***************************************************************************)
TaskStates == {"idle", "checked", "refused", "running", "writing", "readerGone", "done"}

DpTypes ==
    /\ DOMAIN closeMu = {"readers", "writer"} /\ closeMu.readers \subseteq Tasks
    /\ task \in [Tasks -> TaskStates]
    /\ \A t \in DnsTasks : task[t] \notin {"writing", "readerGone"}
    /\ wg \in Int
    /\ closing \in {"no", "cancelled", "waiting", "closed", "timedOut"}
    /\ injectCh \in 0 .. InjectCap
    /\ DOMAIN listener = {"pc", "tracking", "active"} /\ listener.active \subseteq Accepted
    /\ DOMAIN conn = Accepted /\ \A c \in Accepted : DOMAIN conn[c] = {"pc", "open"}
    /\ peerFramers \in [DpPeers -> Accepted \cup {NoFramer}]

\* The goroutines of Run that have not ended, and the DNS queries under way.
RunGoroutines ==
    IF task["Run"] = "running" THEN 2 ELSE IF task["Run"] \in {"writing", "readerGone"} THEN 1 ELSE 0
DnsRunning == {t \in DnsTasks : task[t] = "running"}

\* The WaitGroup counts them; who has looked at the context holds the read lock until it
\* has joined, so that nobody is about to join once the context is done.
DpInv ==
    /\ DpTypes
    /\ wg = RunGoroutines + Cardinality(DnsRunning)
    /\ \A t \in Tasks : task[t] = "checked" => t \in closeMu.readers
    /\ closing # "no" => ctxDone
    /\ ctxDone => \A t \in Tasks : task[t] # "checked"

LEMMA DnsRunningFinite == IsFiniteSet(DnsRunning) /\ Cardinality(DnsRunning) \in 0 .. Cardinality(DnsTasks)
  BY DataPlaneAssumption, FS_Subset, FS_CardinalityType DEF DnsRunning

\* At the start.
LEMMA DpInvInit == DpInit => DpInv
<1> SUFFICES ASSUME DpInit PROVE DpInv
  OBVIOUS
<1>1. DpTypes
  BY DataPlaneAssumption DEF DpInit, DpTypes, TaskStates, Tasks
<1>2. DnsRunning = {}
  BY DEF DpInit, DnsRunning, Tasks
<1>3. RunGoroutines = 0
  BY DEF DpInit, RunGoroutines, Tasks
<1> QED
  BY <1>1, <1>2, <1>3, FS_EmptySet DEF DpInit, DpInv

\* The steps of the tasks and of Close keep it, and none joins once Close waits.
LEMMA LifeKeeps ==
  ASSUME DpInv, LifeStep, UNCHANGED connVars
  PROVE  DpInv' /\ NoAddAfterWait
<1> USE DataPlaneAssumption DEF DpTypes, TaskStates, Tasks, connVars
<1> DnsRunning \subseteq DnsTasks /\ IsFiniteSet(DnsRunning) /\ Cardinality(DnsRunning) \in Nat
  BY DnsRunningFinite DEF DnsRunning
<1>0. ASSUME NEW t \in Tasks, UNCHANGED <<task, wg>> PROVE DnsRunning' = DnsRunning /\ RunGoroutines' = RunGoroutines
  BY <1>0 DEF DnsRunning, RunGoroutines
<1>1. ASSUME NEW t \in Tasks, StartTask(t) PROVE DpInv' /\ NoAddAfterWait
  <2>1. DnsRunning' = DnsRunning /\ RunGoroutines' = RunGoroutines
    BY <1>1 DEF DpInv, StartTask, DnsRunning, RunGoroutines
  <2> QED
    BY <1>1, <2>1 DEF DpInv, StartTask, WithReadLock, NoAddAfterWait
<1>2. ASSUME NEW t \in Tasks, JoinTask(t) PROVE DpInv' /\ NoAddAfterWait
  <2>1. ~ctxDone /\ closing = "no"
    BY <1>2 DEF DpInv, JoinTask
  <2>2. wg' = RunGoroutines' + Cardinality(DnsRunning')
    <3>1. CASE t = "Run"
      <4>1. DnsRunning' = DnsRunning
        BY <3>1, <1>2 DEF JoinTask, DnsRunning, DpInv
      <4> QED
        BY <3>1, <4>1, <1>2 DEF JoinTask, RunGoroutines, Goroutines, DpInv
    <3>2. CASE t # "Run"
      <4>1. DnsRunning' = DnsRunning \cup {t} /\ t \notin DnsRunning
        BY <3>2, <1>2 DEF JoinTask, DnsRunning, DpInv
      <4>2. Cardinality(DnsRunning') = Cardinality(DnsRunning) + 1
        BY <4>1, FS_AddElement
      <4>3. RunGoroutines' = RunGoroutines /\ RunGoroutines \in Nat
        BY <3>2, <1>2 DEF JoinTask, RunGoroutines, DpInv
      <4> QED
        BY <3>2, <4>2, <4>3, <1>2 DEF JoinTask, Goroutines, DpInv
    <3> QED
      BY <3>1, <3>2
  <2>3. DpTypes' /\ (\A s \in Tasks : task'[s] = "checked" => s \in closeMu'.readers)
    BY <1>2 DEF DpInv, JoinTask, Goroutines
  <2> QED
    BY <1>2, <2>1, <2>2, <2>3 DEF DpInv, JoinTask, NoAddAfterWait
<1>3. ASSUME NEW t \in Tasks, Refused(t) PROVE DpInv' /\ NoAddAfterWait
  <2>1. DnsRunning' = DnsRunning /\ RunGoroutines' = RunGoroutines
    BY <1>3 DEF DpInv, Refused, DnsRunning, RunGoroutines
  <2> QED
    BY <1>3, <2>1 DEF DpInv, Refused, NoAddAfterWait
<1>4. ASSUME NEW t \in Tasks, DnsEnds(t) PROVE DpInv' /\ NoAddAfterWait
  <2>1. DnsRunning' = DnsRunning \ {t} /\ t \in DnsRunning
    BY <1>4 DEF DnsEnds, DnsRunning, DpInv
  <2>2. Cardinality(DnsRunning') = Cardinality(DnsRunning) - 1
    BY <2>1, FS_RemoveElement
  <2>3. RunGoroutines' = RunGoroutines /\ RunGoroutines \in Nat
    BY <1>4 DEF DnsEnds, RunGoroutines, DpInv
  <2>4. wg' = RunGoroutines' + Cardinality(DnsRunning') /\ wg' <= wg
    BY <2>2, <2>3, <1>4 DEF DnsEnds, DpInv
  <2> QED
    BY <1>4, <2>4 DEF DpInv, DnsEnds, NoAddAfterWait
<1>5. ASSUME ReadEnds \/ WriteEnds PROVE DpInv' /\ NoAddAfterWait
  <2>1. DnsRunning' = DnsRunning
    BY <1>5 DEF ReadEnds, WriteEnds, DnsRunning, DpInv
  <2>2. RunGoroutines' = RunGoroutines - 1 /\ wg' = wg - 1
    BY <1>5 DEF ReadEnds, WriteEnds, RunGoroutines, DpInv
  <2>3. wg' = RunGoroutines' + Cardinality(DnsRunning') /\ wg' <= wg
    BY <2>1, <2>2 DEF DpInv, RunGoroutines
  <2>4. task' \in [Tasks -> TaskStates] /\ \A t \in DnsTasks : task'[t] = task[t]
    BY <1>5 DEF DpInv, ReadEnds, WriteEnds
  <2>5. \A t \in Tasks : task'[t] = "checked" => task[t] = "checked"
    BY <1>5, <2>4 DEF DpInv, ReadEnds, WriteEnds
  <2>6. DpTypes'
    BY <1>5, <2>2, <2>4 DEF DpInv, ReadEnds, WriteEnds
  <2> QED
    BY <1>5, <2>3, <2>5, <2>6 DEF DpInv, ReadEnds, WriteEnds, NoAddAfterWait
<1>6. ASSUME WriteBatch \/ CloseCancels \/ CloseTun \/ CloseReturns PROVE DpInv' /\ NoAddAfterWait
  <2>1. DnsRunning' = DnsRunning /\ RunGoroutines' = RunGoroutines
    BY <1>6 DEF DpInv, WriteBatch, CloseCancels, CloseTun, CloseReturns, DnsRunning, RunGoroutines
  <2> QED
    BY <1>6, <2>1 DEF DpInv, WriteBatch, CloseCancels, CloseTun, CloseReturns, NoAddAfterWait
<1> QED
  BY <1>1, <1>2, <1>3, <1>4, <1>5, <1>6 DEF LifeStep

\* So do the steps of the listener and its connections; a registered connection gives way
\* only to a newer one of its node, or when its own handler ends.
LEMMA ConnKeeps ==
  ASSUME DpInv, ConnStep, UNCHANGED lifeVars
  PROVE  DpInv' /\ LatestConnectionStays
<1> USE DataPlaneAssumption DEF DpTypes, lifeVars, DpPeers
<1>0. DnsRunning' = DnsRunning /\ RunGoroutines' = RunGoroutines
  BY DEF DnsRunning, RunGoroutines
<1>1. ASSUME DpTypes', LatestConnectionStays PROVE DpInv' /\ LatestConnectionStays
  BY <1>0, <1>1 DEF DpInv
<1>2. ASSUME NEW c \in Accepted, Accept(c) \/ TrackConn(c) \/ Breaks(c) PROVE DpTypes' /\ LatestConnectionStays
  BY <1>2 DEF DpInv, Accept, TrackConn, Breaks, LatestConnectionStays
<1>3. ASSUME NEW c \in Accepted, Register(c) PROVE DpTypes' /\ LatestConnectionStays
  BY <1>3 DEF DpInv, Register, LatestConnectionStays
<1>4. ASSUME NEW c \in Accepted, HandlerEnds(c) PROVE DpTypes' /\ LatestConnectionStays
  BY <1>4 DEF DpInv, HandlerEnds, UnregisterPeerFramer, LatestConnectionStays
<1>5. ASSUME ListenerCloses \/ CloseActive \/ ListenerReturns PROVE DpTypes' /\ LatestConnectionStays
  <2>1. peerFramers' = peerFramers /\ DOMAIN listener' = DOMAIN listener /\ listener'.active \subseteq listener.active
    BY <1>5 DEF DpInv, ListenerCloses, CloseActive, ListenerReturns
  <2>2. DOMAIN conn' = Accepted /\ \A c \in Accepted : DOMAIN conn'[c] = {"pc", "open"}
    BY <1>5 DEF DpInv, ListenerCloses, CloseActive, ListenerReturns
  <2> QED
    BY <2>1, <2>2 DEF DpInv, LatestConnectionStays
<1> QED
  BY <1>1, <1>2, <1>3, <1>4, <1>5 DEF ConnStep

\* Every step of the data plane.
LEMMA DpInvStep == DpInv /\ [DpNext]_dpVars => DpInv' /\ [NoAddAfterWait /\ LatestConnectionStays]_dpVars
<1> SUFFICES ASSUME DpInv, [DpNext]_dpVars PROVE DpInv' /\ [NoAddAfterWait /\ LatestConnectionStays]_dpVars
  OBVIOUS
<1>1. CASE LifeStep /\ UNCHANGED connVars
  BY <1>1, LifeKeeps DEF LatestConnectionStays, connVars
<1>2. CASE ConnStep /\ UNCHANGED lifeVars
  BY <1>2, ConnKeeps DEF NoAddAfterWait, lifeVars, DpInv, DpTypes
<1>3. CASE \E c \in Accepted : ReceiveFrame(c)
  <2>1. injectCh' \in 0 .. InjectCap
    BY <1>3, DataPlaneAssumption DEF ReceiveFrame, InjectInbound, DpInv, DpTypes
  <2>2. DnsRunning' = DnsRunning /\ RunGoroutines' = RunGoroutines
    BY <1>3 DEF ReceiveFrame, DnsRunning, RunGoroutines
  <2> QED
    BY <1>3, <2>1, <2>2 DEF ReceiveFrame, DpInv, DpTypes, NoAddAfterWait, LatestConnectionStays
<1>4. CASE UNCHANGED dpVars
  BY <1>4 DEF dpVars, DpInv, DpTypes, DnsRunning, RunGoroutines
<1> QED
  BY <1>1, <1>2, <1>3, <1>4 DEF DpNext

LEMMA DpTypesHold == DpInv => DpTypeOK
<1> SUFFICES ASSUME DpInv PROVE DpTypeOK
  OBVIOUS
<1>1. Cardinality(DnsTasks) \in Nat
  BY DataPlaneAssumption, FS_CardinalityType
<1>2. wg \in 0 .. 2 + Cardinality(DnsTasks)
  BY <1>1, DnsRunningFinite DEF DpInv, RunGoroutines
<1> QED
  BY <1>2 DEF DpInv, DpTypes, DpTypeOK

(***************************************************************************)
(* Outbound packets and the flow table.                                    *)
(***************************************************************************)
FlowsTyped ==
    /\ flows = [k \in DOMAIN flows |-> flows[k]]
    /\ DOMAIN flows \subseteq FlowKeys /\ IsFiniteSet(DOMAIN flows)
    /\ \A k \in DOMAIN flows : DOMAIN flows[k] = {"hop", "age"}

\* The counter is the size of the table; a packet under way carries the hop of its flow for
\* as long as that is in the table, since nobody else routes.
OutInv ==
    /\ FlowsTyped
    /\ totalFlows = Cardinality(DOMAIN flows) /\ totalFlows \in 0 .. MaxFlows
    /\ outPkt # NoPkt => outPkt.key \in FlowKeys
    /\ outPkt.pc = "tracked" /\ outPkt.key \in DOMAIN flows => flows[outPkt.key].hop = outPkt.hop

\* At the start.
LEMMA OutInvInit == OutInit => OutInv
<1> SUFFICES ASSUME OutInit PROVE OutInv
  OBVIOUS
<1>1. flows = <<>> /\ DOMAIN flows = {}
  BY DEF OutInit
<1> QED
  BY <1>1, FS_EmptySet, OutboundAssumption DEF OutInit, OutInv, FlowsTyped, NoPkt

\* A packet is looked up, and its flow entered where there is room.
LEMMA TrackKeeps ==
  ASSUME OutInv, NEW k \in FlowKeys, Track(k)
  PROVE  OutInv' /\ FlowKeepsHop
<1> USE OutboundAssumption DEF OutInv, FlowsTyped, NoPkt
<1>1. CASE k \in DOMAIN flows
  <2>1. DOMAIN flows' = DOMAIN flows /\ \A f \in DOMAIN flows : flows'[f].hop = flows[f].hop /\ DOMAIN flows'[f] = {"hop", "age"}
    BY <1>1 DEF Track
  <2>2. flows' = [f \in DOMAIN flows' |-> flows'[f]]
    BY <1>1 DEF Track
  <2> QED
    BY <1>1, <2>1, <2>2 DEF Track, FlowKeepsHop
<1>2. CASE k \notin DOMAIN flows /\ totalFlows >= MaxFlows
  BY <1>2 DEF Track, Dropped, FlowKeepsHop
<1>3. CASE k \notin DOMAIN flows /\ totalFlows < MaxFlows
  <2>1. /\ flows' = [f \in DOMAIN flows \cup {k} |-> IF f = k THEN [hop |-> Unrouted, age |-> 0] ELSE flows[f]]
        /\ totalFlows' = totalFlows + 1 /\ outPkt' = [pc |-> "tracked", key |-> k, hop |-> Unrouted]
    BY <1>3 DEF Track
  <2>2. DOMAIN flows' = DOMAIN flows \cup {k} /\ \A f \in DOMAIN flows : flows'[f] = flows[f]
    BY <1>3, <2>1
  <2>3. IsFiniteSet(DOMAIN flows') /\ Cardinality(DOMAIN flows') = Cardinality(DOMAIN flows) + 1
    BY <1>3, <2>2, FS_AddElement
  <2>4. flows'[k] = [hop |-> Unrouted, age |-> 0]
    BY <2>1
  <2> HIDE DEF FlowsTyped
  <2>5. FlowsTyped'
    BY <2>1, <2>2, <2>3, <2>4 DEF FlowsTyped
  <2> QED
    BY <1>3, <2>1, <2>2, <2>3, <2>4, <2>5 DEF FlowKeepsHop
<1> QED
  BY <1>1, <1>2, <1>3 DEF Track

\* A flow that has a hop keeps it, one without gets what the FIB says.
LEMMA RouteKeeps ==
  ASSUME OutInv, RoutePacket
  PROVE  OutInv' /\ FlowKeepsHop
<1> USE OutboundAssumption DEF OutInv, FlowsTyped, NoPkt
<1>1. CASE outPkt' = Dropped(outPkt.key, "noRoute") /\ UNCHANGED flows
  BY <1>1 DEF RoutePacket, Dropped, FlowKeepsHop
<1>2. ASSUME NEW h \in NextHop(outPkt),
             flows' = [k \in DOMAIN flows |->
                         IF k = outPkt.key THEN [flows[k] EXCEPT !.hop = h] ELSE flows[k]],
             outPkt' = [pc |-> "routed", key |-> outPkt.key, hop |-> h]
      PROVE  OutInv' /\ FlowKeepsHop
  <2>1. DOMAIN flows' = DOMAIN flows /\ \A k \in DOMAIN flows : DOMAIN flows'[k] = {"hop", "age"}
    BY <1>2
  <2>2. \A k \in DOMAIN flows : IF k = outPkt.key THEN flows'[k].hop = h ELSE flows'[k].hop = flows[k].hop
    BY <1>2
  <2>3. FlowKeepsHop
    BY <2>1, <2>2 DEF RoutePacket, NextHop, FlowKeepsHop
  <2> QED
    BY <1>2, <2>1, <2>3 DEF RoutePacket
<1> QED
  BY <1>1, <1>2 DEF RoutePacket

\* A flow that has been idle for too long leaves the table, and is counted out.
LEMMA ExpireKeeps ==
  ASSUME OutInv, NEW k \in FlowKeys, ExpireShard(k)
  PROVE  OutInv' /\ FlowKeepsHop
<1> USE OutboundAssumption DEF OutInv, FlowsTyped, NoPkt
<1>1. CASE UNCHANGED <<flows, totalFlows>>
  BY <1>1 DEF ExpireShard, FlowKeepsHop
<1>2. CASE k \in DOMAIN flows /\ flows' = [f \in DOMAIN flows \ {k} |-> flows[f]] /\ totalFlows' = Discounted(k)
  <2>1. DOMAIN flows' = DOMAIN flows \ {k} /\ \A f \in DOMAIN flows' : flows'[f] = flows[f]
    BY <1>2
  <2>2. IsFiniteSet(DOMAIN flows') /\ Cardinality(DOMAIN flows') = Cardinality(DOMAIN flows) - 1
    BY <1>2, <2>1, FS_RemoveElement
  <2>3. Cardinality(DOMAIN flows') \in Nat
    BY <2>2, FS_CardinalityType
  <2>4. totalFlows' = Cardinality(DOMAIN flows') /\ totalFlows' \in 0 .. MaxFlows
    BY <1>2, <2>2, <2>3 DEF Discounted
  <2>5. FlowsTyped'
    BY <1>2, <2>1, <2>2
  <2> QED
    BY <1>2, <2>1, <2>4, <2>5 DEF ExpireShard, FlowKeepsHop
<1> QED
  BY <1>1, <1>2 DEF ExpireShard

\* Every step of the way out.
LEMMA OutInvStep == OutInv /\ [OutNext]_obVars => OutInv' /\ [FlowKeepsHop]_obVars
<1> SUFFICES ASSUME OutInv, [OutNext]_obVars PROVE OutInv' /\ [FlowKeepsHop]_obVars
  OBVIOUS
<1>1. CASE PacketDone \/ UpdatePool \/ \E cfg \in NodeConfigs : UpdateRoutes(cfg)
  BY <1>1 DEF PacketDone, UpdatePool, UpdateRoutes, OutInv, FlowsTyped, NoPkt, FlowKeepsHop
<1>2. CASE FlowsAge
  <2>1. DOMAIN flows' = DOMAIN flows /\ \A f \in DOMAIN flows : flows'[f].hop = flows[f].hop /\ DOMAIN flows'[f] = {"hop", "age"}
    BY <1>2 DEF FlowsAge, OutInv, FlowsTyped
  <2>2. FlowsTyped'
    BY <1>2, <2>1 DEF FlowsAge, OutInv, FlowsTyped
  <2> QED
    BY <1>2, <2>1, <2>2 DEF FlowsAge, OutInv, FlowKeepsHop
<1>3. CASE UNCHANGED obVars
  BY <1>3 DEF obVars, OutInv, FlowsTyped
<1> QED
  BY <1>1, <1>2, <1>3, TrackKeeps, RouteKeeps, ExpireKeeps DEF OutNext

LEMMA OutInvShows == OutInv => OutTypeOK /\ FlowsCounted
  BY DEF OutInv, FlowsTyped, OutTypeOK, FlowsCounted

(***************************************************************************)
(* Frames over several nodes.                                              *)
(***************************************************************************)

\* A frame has lost one of its TTL with every node that relayed it, so that a node that
\* receives it after six takes it for a loop, whatever tables brought it there.
FrameInv ==
    /\ dead \subseteq dials /\ dials \subseteq FrameNodes \X FrameNodes
    /\ loopAvoid \in [FrameNodes -> SUBSET FrameNodes]
    /\ DOMAIN rankOf = FrameNodes
    /\ \A n \in FrameNodes : DOMAIN rankOf[n] = {"hops", "maxHops"} /\ rankOf[n].maxHops \in {1, 3}
    /\ packet # NoPacket =>
         /\ DOMAIN packet = {"on", "at", "from", "ttl", "ip", "sent"}
         /\ packet.at \in FrameNodes /\ packet.from \in FrameNodes /\ packet.ip \in 1 .. IpTtl
         /\ packet.on \in {"tun", "accepted", "dialled"} /\ packet.sent \in 0 .. 6
         /\ packet.on = "accepted" => packet.ttl = FrameTtl - (packet.sent - 1)

\* Sending a frame leaves connections that were there, and the frame at the other end of
\* one of them.
LEMMA SendKeeps ==
  ASSUME FrameInv, NEW n \in FrameNodes, NEW except, NEW frame, NEW sent, Send(n, except, frame, sent),
         packet # NoPacket
  PROVE  /\ dead' \subseteq dials' /\ dials' \subseteq FrameNodes \X FrameNodes
         /\ \/ packet' = NoPacket
            \/ \E on \in {"accepted", "dialled"}, at \in FrameNodes :
                 packet' = [on |-> on, at |-> at, from |-> n, ttl |-> frame, ip |-> packet.ip, sent |-> sent]
<1>1. PICK noticed \in SUBSET dead, order \in Tried(n, except) :
        LET first == FirstUp(n, order, dials \ noticed)
        IN  /\ dials' = dials \ {c \in noticed : c[1] = n}
            /\ dead' = dead \ {c \in noticed : c[1] = n}
            /\ \/ first \subseteq dead /\ packet' = NoPacket
               \/ \E c \in first \ dead :
                    packet' = [on |-> IF c[1] = n THEN "accepted" ELSE "dialled",
                               at |-> IF c[1] = n THEN c[2] ELSE c[1], from |-> n,
                               ttl |-> frame, ip |-> packet.ip, sent |-> sent]
  BY DEF Send
<1>2. dead' \subseteq dials' /\ dials' \subseteq FrameNodes \X FrameNodes
  BY <1>1 DEF FrameInv
<1>3. \A c \in FirstUp(n, order, dials \ noticed) : c \in FrameNodes \X FrameNodes
  BY DEF FirstUp, FrameInv
<1>4. \A c \in FrameNodes \X FrameNodes : c[1] \in FrameNodes /\ c[2] \in FrameNodes
  OBVIOUS
<1> QED
  BY <1>1, <1>2, <1>3, <1>4

\* At the start.
LEMMA FrameInvInit == FrameInit => FrameInv
  BY RelayAssumption DEF FrameInit, FrameInv

LEMMA PacketSteps ==
  ASSUME FrameInv, PacketStep
  PROVE  FrameInv'
<1> USE RelayAssumption DEF FrameInv
<1> packet # NoPacket
  BY DEF PacketStep, TunRead, ReceiveAccepted, ReceiveDialled, NoPacket
<1>1. CASE TunRead
  <2>1. Send(packet.at, {}, FrameTtl, 1) /\ UNCHANGED <<rankOf, loopAvoid>>
    BY <1>1 DEF TunRead
  <2>2. \/ packet' = NoPacket
        \/ \E on \in {"accepted", "dialled"}, at \in FrameNodes :
             packet' = [on |-> on, at |-> at, from |-> packet.at, ttl |-> FrameTtl, ip |-> packet.ip, sent |-> 1]
    BY <2>1, SendKeeps
  <2>3. dead' \subseteq dials' /\ dials' \subseteq FrameNodes \X FrameNodes
    BY <2>1, SendKeeps
  <2> QED
    BY <2>1, <2>2, <2>3
<1>2. CASE ReceiveAccepted
  <2>1. CASE Deliver /\ UNCHANGED rankOf
    BY <2>1 DEF Deliver
  <2>2. CASE loopAvoid' = [loopAvoid EXCEPT ![packet.at] = @ \cup {packet.from}] /\ packet' = NoPacket /\ UNCHANGED <<dials, dead, rankOf>>
    BY <2>2
  <2>3. CASE /\ packet.ttl > loopThreshold(packet.at)
             /\ Send(packet.at, {packet.from}, NextTtl(packet.ttl), packet.sent + 1)
             /\ UNCHANGED <<loopAvoid, rankOf>>
    <3>1. packet.on = "accepted" /\ packet.ttl = FrameTtl - (packet.sent - 1)
      BY <1>2 DEF ReceiveAccepted
    <3>2. packet.sent <= 5
      BY <2>3, <3>1 DEF loopThreshold
    <3>3. \/ packet' = NoPacket
          \/ \E on \in {"accepted", "dialled"}, at \in FrameNodes :
               packet' = [on |-> on, at |-> at, from |-> packet.at, ttl |-> NextTtl(packet.ttl), ip |-> packet.ip, sent |-> packet.sent + 1]
      BY <2>3, SendKeeps
    <3>4. dead' \subseteq dials' /\ dials' \subseteq FrameNodes \X FrameNodes
      BY <2>3, SendKeeps
    <3>5. packet.sent + 1 \in 0 .. 6 /\ NextTtl(packet.ttl) = FrameTtl - (packet.sent + 1 - 1)
      BY <3>1, <3>2 DEF NextTtl
    <3> QED
      BY <2>3, <3>3, <3>4, <3>5
  <2> QED
    BY <1>2, <2>1, <2>2, <2>3 DEF ReceiveAccepted
<1>3. CASE ReceiveDialled
  <2>1. CASE Deliver /\ UNCHANGED rankOf
    BY <2>1 DEF Deliver
  <2>2. CASE packet' = NoPacket /\ UNCHANGED <<dials, dead, loopAvoid, rankOf>>
    BY <2>2
  <2>3. CASE packet' = [packet EXCEPT !.on = "tun", !.ip = @ - 1] /\ packet.ip # 1 /\ UNCHANGED <<dials, dead, loopAvoid, rankOf>>
    <3>1. /\ packet'.at = packet.at /\ packet'.from = packet.from /\ packet'.sent = packet.sent
          /\ packet'.on = "tun" /\ packet'.ip = packet.ip - 1 /\ DOMAIN packet' = DOMAIN packet
      BY <2>3
    <3> QED
      BY <2>3, <3>1
  <2> QED
    BY <1>3, <2>1, <2>2, <2>3 DEF ReceiveDialled
<1> QED
  BY <1>1, <1>2, <1>3 DEF PacketStep

\* Every step on the way.
LEMMA FrameInvStep == FrameInv /\ [FrameNext]_frameVars => FrameInv'
<1> SUFFICES ASSUME FrameInv, [FrameNext]_frameVars PROVE FrameInv'
  OBVIOUS
<1> USE RelayAssumption DEF FrameInv
<1>1. CASE NewPacket
  BY <1>1 DEF NewPacket
<1>2. CASE PacketLost
  BY <1>2 DEF PacketLost
<1>3. ASSUME NEW n \in FrameNodes, RanksChange(n) PROVE FrameInv'
  BY <1>3 DEF RanksChange
<1>4. ASSUME NEW n \in FrameNodes, AvoidExpires(n) PROVE FrameInv'
  BY <1>4 DEF AvoidExpires
<1>5. ASSUME NEW c \in dials, ConnectionDies(c) PROVE FrameInv'
  BY <1>5 DEF ConnectionDies
<1>6. ASSUME NEW c \in dead, ConnectionEnds(c) PROVE FrameInv'
  BY <1>6 DEF ConnectionEnds
<1>7. CASE UNCHANGED frameVars
  BY <1>7 DEF frameVars
<1> QED
  BY <1>1, <1>2, <1>3, <1>4, <1>5, <1>6, <1>7, PacketSteps DEF FrameNext

LEMMA FrameInvShows == FrameInv => FrameTypeOK /\ RelaysBounded
  BY DEF FrameInv, FrameTypeOK, RelaysBounded

(***************************************************************************)
(* Packets and frames as bytes.                                            *)
(***************************************************************************)

LEMMA PacketFields ==
  ASSUME NEW p \in Packets
  PROVE  p.len \in Nat /\ p.ihl \in Nat /\ p.doff \in Nat
<1>1. PacketLens \subseteq Nat /\ HeaderWords \subseteq Nat
  BY WireAssumption
<1>2. p.len \in PacketLens /\ p.ihl \in HeaderWords /\ p.doff \in HeaderWords
  BY DEF Packets
<1> QED
  BY <1>1, <1>2

\* No parser of packets touches a byte the packet does not have.
LEMMA ParsersInside ==
  ASSUME NEW p \in Packets
  PROVE  /\ parsePacketToContext(p).need <= p.len /\ extractUDPPayload(p).need <= p.len
         /\ extractTCPPayload(p).need <= p.len /\ buildDNS_SERVFAIL(p).need <= p.len
         /\ extractDstIP(p).need <= p.len /\ extractConnKey(p).need <= p.len
         /\ extractDNSPayload(p).need <= p.len /\ HandleICMP(p).need <= p.len
         /\ Unwrapped(p).need <= p.len
<1> USE DEF None, Rejects, Holds, Larger
<1>1. p.len \in Nat /\ p.ihl \in Nat /\ p.doff \in Nat
  BY PacketFields
<1>2. parsePacketToContext(p).need <= p.len /\ extractUDPPayload(p).need <= p.len
  BY <1>1 DEF parsePacketToContext, extractUDPPayload
<1>3. extractTCPPayload(p).need <= p.len
  BY <1>1 DEF extractTCPPayload
<1>4. buildDNS_SERVFAIL(p).need <= p.len
  BY <1>1 DEF buildDNS_SERVFAIL
<1>5. extractDstIP(p).need <= p.len /\ extractConnKey(p).need <= p.len
  BY <1>1 DEF extractDstIP, extractConnKey
<1>6. isDNSPort(p).need <= p.len
  BY <1>1 DEF isDNSPort
<1>7. extractDNSPayload(p).need <= p.len
  BY <1>1, <1>6 DEF extractDNSPayload
<1>8. HandleICMP(p).need <= p.len
  BY <1>1 DEF HandleICMP
<1>9. isProxyEncapForMe(p).need <= p.len
  BY <1>1 DEF isProxyEncapForMe, proxyEncapHdrLen
<1>10. Unwrapped(p).need <= p.len
  BY <1>1, <1>9 DEF Unwrapped
<1> QED
  BY <1>2, <1>3, <1>4, <1>5, <1>7, <1>8, <1>10

\* A packet with proper headers gives up the payload behind them.
LEMMA PayloadFound ==
  ASSUME NEW p \in Packets, p.version = 4, p.ihl >= 5, p.doff >= 5
  PROVE  /\ p.proto = 6 /\ p.len > 4 * (p.ihl + p.doff) =>
              extractTCPPayload(p).ok /\ extractTCPPayload(p).from = 4 * (p.ihl + p.doff)
         /\ p.proto = 17 /\ p.len >= 4 * p.ihl + 8 =>
              extractUDPPayload(p).ok /\ extractUDPPayload(p).from = 4 * p.ihl + 8
<1>1. p.len \in Nat /\ p.ihl \in Nat /\ p.doff \in Nat
  BY PacketFields
<1>2. p.proto = 6 /\ p.len > 4 * (p.ihl + p.doff) =>
        extractTCPPayload(p).ok /\ extractTCPPayload(p).from = 4 * (p.ihl + p.doff)
  BY <1>1 DEF extractTCPPayload, None, Rejects, Holds
<1>3. p.proto = 17 /\ p.len >= 4 * p.ihl + 8 =>
        extractUDPPayload(p).ok /\ extractUDPPayload(p).from = 4 * p.ihl + 8
  BY <1>1 DEF extractUDPPayload, None, Rejects, Holds
<1> QED
  BY <1>2, <1>3

\* The walk over a ClientHello stands inside of it, and what it has touched is there.
HelloInv ==
    /\ input.len \in Nat
    /\ DOMAIN out = {"at", "off", "end", "hello"}
    /\ out.hello.need <= input.len /\ out.off \in Nat /\ out.off <= input.len
    /\ out.end \in Nat /\ out.end <= input.len

\* Whatever has been read was read inside of its input, and as it was written.
WireInv ==
    /\ ReadsInside /\ WrittenIsRead
    /\ input.kind = "hello" => HelloInv

LEMMA WireInvInit == WireInit => WireInv
  BY DEF WireInit, WireInv, ReadsInside, WrittenIsRead

\* One extension after the other stays inside of the extensions.
LEMMA HelloStays ==
  ASSUME HelloInv, input.kind = "hello", input' = input,
         NEW at, NEW off \in Nat, NEW end \in Nat, NEW need, Hello(at, off, end, need),
         off <= input.len, end <= input.len, need <= input.len
  PROVE  WireInv'
<1>1. out' = [at |-> at, off |-> off, end |-> end, hello |-> [need |-> need, ok |-> at = "name", from |-> off]]
  BY DEF Hello
<1>2. HelloInv'
  BY <1>1 DEF HelloInv
<1>3. ReadsInside'
  BY <1>1 DEF ReadsInside, InputLen
<1>4. WrittenIsRead'
  BY DEF WrittenIsRead
<1> QED
  BY <1>2, <1>3, <1>4 DEF WireInv

LEMMA FieldStays ==
  ASSUME WireInv, NEW at, NEW width \in Nat, NEW next, Field(at, width, next)
  PROVE  WireInv'
<1>1. HelloInv /\ input.kind = "hello" /\ input' = input
  BY DEF Field, Walking, WireInv
<1>2. CASE GiveUp
  BY <1>1, <1>2, HelloStays DEF GiveUp, HelloInv
<1>3. ASSUME NEW n \in FieldLens, input.len >= out.off + width,
             LET off == out.off + width + n
             IN  IF input.len < off
                 THEN Hello(IF input.len >= 11 THEN "unknown" ELSE "more", out.off, out.end, out.off + width)
                 ELSE IF next = "extension" THEN Hello(next, out.off + width, off, out.off + width)
                 ELSE Hello(next, off, out.end, out.off + width)
      PROVE  WireInv'
  <2>1. n \in Nat /\ out.off \in Nat /\ out.end \in Nat /\ input.len \in Nat /\ out.off <= input.len /\ out.end <= input.len
    BY <1>1, WireAssumption DEF HelloInv
  <2>2. CASE input.len < out.off + width + n
    BY <1>1, <1>3, <2>1, <2>2, HelloStays
  <2>3. CASE ~(input.len < out.off + width + n)
    <3>1. CASE next = "extension"
      BY <1>1, <1>3, <2>1, <2>3, <3>1, HelloStays
    <3>2. CASE next # "extension"
      BY <1>1, <1>3, <2>1, <2>3, <3>2, HelloStays
    <3> QED
      BY <3>1, <3>2
  <2> QED
    BY <2>2, <2>3
<1>4. input.len \in Nat /\ out.off + width \in Nat
  BY <1>1 DEF HelloInv
<1> QED
  BY <1>2, <1>3, <1>4 DEF Field

LEMMA ExtensionStays ==
  ASSUME WireInv, ReadExtension
  PROVE  WireInv'
<1>1. HelloInv /\ input.kind = "hello" /\ input' = input
  BY DEF ReadExtension, Walking, WireInv
<1> DEFINE body == out.off + 4
<1>2. CASE GiveUp
  BY <1>1, <1>2, HelloStays DEF GiveUp, HelloInv
<1>3. /\ out.off \in Nat /\ out.end \in Nat /\ input.len \in Nat /\ body \in Nat
      /\ out.off <= input.len /\ out.end <= input.len
  BY <1>1 DEF HelloInv
<1>4. ASSUME NEW n \in FieldLens, NEW sni \in BOOLEAN, body <= out.end,
             IF body + n > out.end \/ (sni /\ ~SniFits(n)) THEN Hello("unknown", out.off, out.end, body)
             ELSE IF ~sni THEN Hello("extension", body + n, out.end, body)
             ELSE \E name \in FieldLens :
                    IF body + 5 + name > out.end THEN Hello("unknown", out.off, out.end, body + 5)
                    ELSE Hello("name", body + 5, out.end, body + 5 + name)
      PROVE  WireInv'
  <2>1. n \in Nat
    BY WireAssumption
  <2>2. CASE body + n > out.end \/ (sni /\ ~SniFits(n))
    BY <1>1, <1>3, <1>4, <2>2, HelloStays
  <2>3. CASE ~(body + n > out.end \/ (sni /\ ~SniFits(n))) /\ ~sni
    <3>1. Hello("extension", body + n, out.end, body)
      BY <1>4, <2>3
    <3>2. body + n \in Nat /\ body + n <= input.len /\ body <= input.len
      BY <1>3, <1>4, <2>1, <2>3
    <3> QED
      BY <1>1, <1>3, <3>1, <3>2, HelloStays
  <2>4. CASE ~(body + n > out.end \/ (sni /\ ~SniFits(n))) /\ sni
    <3>1. body + 5 <= out.end /\ body + 5 \in Nat
      BY <1>3, <2>1, <2>4 DEF SniFits
    <3>2. PICK name \in FieldLens :
                    IF body + 5 + name > out.end THEN Hello("unknown", out.off, out.end, body + 5)
                    ELSE Hello("name", body + 5, out.end, body + 5 + name)
      BY <1>4, <2>4
    <3>3. name \in Nat
      BY WireAssumption
    <3>4. CASE body + 5 + name > out.end
      <4>1. Hello("unknown", out.off, out.end, body + 5) /\ body + 5 <= input.len
        BY <1>3, <3>1, <3>2, <3>4
      <4> QED
        BY <1>1, <1>3, <4>1, HelloStays
    <3>5. CASE ~(body + 5 + name > out.end)
      <4>1. Hello("name", body + 5, out.end, body + 5 + name) /\ body + 5 <= input.len /\ body + 5 + name <= input.len
        BY <1>3, <3>1, <3>2, <3>3, <3>5
      <4> QED
        BY <1>1, <1>3, <3>1, <4>1, HelloStays
    <3> QED
      BY <3>4, <3>5
  <2> QED
    BY <1>4, <2>2, <2>3, <2>4
<1> QED
  BY <1>2, <1>3, <1>4 DEF ReadExtension

LEMMA HelloSteps == WireInv /\ HelloNext => WireInv'
  BY FieldStays, ExtensionStays
     DEF HelloNext, ReadSession, ReadCiphers, ReadCompression, ReadExtensions

\* What is read at once.
LEMMA PacketsRead ==
  ASSUME ParsePacket \/ Wrap
  PROVE  WireInv'
<1>1. ASSUME NEW p \in Packets,
             input' = [kind |-> "packet", packet |-> p],
             out' = [ports |-> parsePacketToContext(p), udp |-> extractUDPPayload(p),
                     tcp |-> extractTCPPayload(p), servfail |-> buildDNS_SERVFAIL(p),
                     dst |-> extractDstIP(p), key |-> extractConnKey(p), dns |-> extractDNSPayload(p),
                     echo |-> HandleICMP(p), inner |-> Unwrapped(p)]
      PROVE  WireInv'
  <2>1. ReadsInside'
    BY <1>1, ParsersInside DEF ReadsInside, InputLen
  <2>2. WrittenIsRead'
    BY <1>1, PayloadFound DEF WrittenIsRead
  <2> QED
    BY <1>1, <2>1, <2>2 DEF WireInv
<1>2. ASSUME NEW n \in PacketLens, n >= 20,
             input' = [kind |-> "wrapped", packet |-> encapProxy(n), payload |-> n],
             out' = [inner |-> Unwrapped(encapProxy(n))]
      PROVE  WireInv'
  <2>1. n \in Nat
    BY WireAssumption
  <2>2. isProxyEncapForMe(encapProxy(n)) = Holds(22, 28) /\ encapProxy(n).len = 28 + n
    BY <1>2, <2>1 DEF isProxyEncapForMe, encapProxy, proxyEncapHdrLen, proxyOuterProto, Larger
  <2>3. Unwrapped(encapProxy(n)) = Holds(22, 28)
    BY <1>2, <2>1, <2>2 DEF Unwrapped, Holds
  <2> QED
    BY <1>2, <2>1, <2>2, <2>3 DEF WireInv, ReadsInside, InputLen, WrittenIsRead, Holds
<1> QED
  BY <1>1, <1>2 DEF ParsePacket, Wrap

LEMMA FramesRead ==
  ASSUME WriteFrame \/ FrameReceived
  PROVE  WireInv'
<1> USE DEF None, Rejects, Holds, fixedHdrSize, vipSize
<1>1. ASSUME NEW f, f.len \in Nat, f.six \in BOOLEAN
      PROVE  ReadStreamFrame(f).need <= f.len /\ DecodeDatagram(f).need <= f.len
  BY <1>1 DEF ReadStreamFrame, DecodeDatagram, parseFrame
<1>2. ASSUME WriteFrame PROVE WireInv'
  <2>1. PICK kind \in FrameKinds, addr \in {"v4", "v6", "mapped", "invalid"}, n \in FrameLens :
          LET f == Written(kind, addr, IF kind = "keepalive" THEN 8 ELSE n)
          IN  /\ f.sent
              /\ input' = [kind |-> "frame", frame |-> f, payload |-> IF kind = "keepalive" THEN 8 ELSE n]
              /\ out' = [read |-> ReadStreamFrame(f)]
    BY <1>2 DEF WriteFrame
  <2> DEFINE payload == IF kind = "keepalive" THEN 8 ELSE n
             f == Written(kind, addr, payload)
  <2>2. payload \in Nat
    BY WireAssumption
  <2>3. /\ f.six \in BOOLEAN /\ f.kind = kind /\ f.sent
        /\ f.len = 4 + (IF f.six THEN 16 ELSE 4) + payload
        /\ kind = "data" => f.len <= MaxFrameLen
    BY <2>1 DEF Written, vipBytes
  <2> HIDE DEF payload, f
  <2>4. input' = [kind |-> "frame", frame |-> f, payload |-> payload] /\ out' = [read |-> ReadStreamFrame(f)]
    BY <2>1 DEF f, payload
  <2>5. f.len \in Nat
    BY <2>2, <2>3
  <2>6. f.len <= MaxFrameLen => ReadStreamFrame(f).ok /\ f.len - ReadStreamFrame(f).from = payload
    <3>1. CASE f.six
      BY <2>2, <2>3, <2>5, <3>1 DEF ReadStreamFrame, parseFrame, MaxFrameLen
    <3>2. CASE ~f.six
      BY <2>2, <2>3, <2>5, <3>2 DEF ReadStreamFrame, parseFrame, MaxFrameLen
    <3> QED
      BY <3>1, <3>2
  <2> QED
    BY <1>1, <2>3, <2>4, <2>5, <2>6 DEF WireInv, ReadsInside, InputLen, WrittenIsRead
<1>3. ASSUME FrameReceived PROVE WireInv'
  <2>1. PICK n \in PacketLens, six \in BOOLEAN :
          LET f == [len |-> n, six |-> six]
          IN  /\ input' = [kind |-> "bytes", frame |-> f]
              /\ out' = [read |-> ReadStreamFrame(f), datagram |-> DecodeDatagram(f)]
    BY <1>3 DEF FrameReceived
  <2> DEFINE f == [len |-> n, six |-> six]
  <2>2. f.len \in Nat /\ f.six \in BOOLEAN
    BY WireAssumption
  <2>3. ReadStreamFrame(f).need <= f.len /\ DecodeDatagram(f).need <= f.len
    BY <1>1, <2>2
  <2> QED
    BY <2>1, <2>2, <2>3 DEF WireInv, ReadsInside, InputLen, WrittenIsRead
<1> QED
  BY <1>2, <1>3

LEMMA ProbesRead ==
  ASSUME ProbeSent
  PROVE  WireInv'
<1> USE DEF None, Rejects, Holds, probeFixedSize, routeSyncEntrySize
<1>1. PICK hops \in RouteLens, sync \in BOOLEAN, short \in BOOLEAN :
        LET whole == Encoded(hops, sync)
            b == IF short THEN [whole EXCEPT !.len = @ - 1] ELSE whole
        IN  /\ input' = [kind |-> "probe", bytes |-> b, hops |-> hops, cut |-> short]
            /\ out' = [probe |-> DecodeProbePayload(b)]
  BY DEF ProbeSent
<1> DEFINE whole == Encoded(hops, sync)
           b == IF short THEN [whole EXCEPT !.len = @ - 1] ELSE whole
<1>2. hops \in Nat
  BY WireAssumption
<1>3. /\ b.count = hops % 256 /\ b.count \in Nat /\ b.sync = sync
      /\ b.len = 24 + 4 * hops + (IF sync THEN 10 ELSE 0) - (IF short THEN 1 ELSE 0)
  BY <1>2 DEF Encoded
<1>4. hops <= 255 => b.count = hops
  BY <1>2, <1>3
<1> HIDE DEF b
<1>5. b.len \in Nat
  BY <1>2, <1>3
<1>6. DecodeProbePayload(b).need <= b.len
  BY <1>3, <1>5 DEF DecodeProbePayload
<1>7. ~short /\ hops <= 255 => DecodeProbePayload(b).ok /\ DecodeProbePayload(b).from = hops
  BY <1>2, <1>3, <1>4, <1>5 DEF DecodeProbePayload
<1>8. input' = [kind |-> "probe", bytes |-> b, hops |-> hops, cut |-> short] /\ out' = [probe |-> DecodeProbePayload(b)]
  BY <1>1 DEF b
<1>9. hops <= 255 \/ hops > 255
  BY <1>2
<1> QED
  BY <1>6, <1>7, <1>8, <1>9 DEF WireInv, ReadsInside, InputLen, WrittenIsRead

LEMMA OthersRead ==
  ASSUME MeasureReceived \/ ReadRecord \/ SniffDNS
  PROVE  WireInv'
<1> USE DEF None, Rejects, Holds
<1>1. ASSUME NEW n \in PacketLens, input' = [kind |-> "measure", len |-> n],
             out' = [frame |-> DecodeBandwidthFrame(n), reply |-> DecodeBandwidthReply(n)]
      PROVE  WireInv'
  <2>1. n \in Nat
    BY WireAssumption
  <2> QED
    BY <1>1, <2>1 DEF WireInv, ReadsInside, InputLen, WrittenIsRead, DecodeBandwidthFrame, DecodeBandwidthReply,
                      bandwidthFixedSize, bandwidthReplySize
<1>2. ASSUME NEW n \in PayloadLens, NEW query \in BOOLEAN, input' = [kind |-> "dns", len |-> n],
             out' = [dns |-> IF n < 12 THEN None ELSE IF query THEN Holds(10, 0) ELSE Rejects(10)]
      PROVE  WireInv'
  <2>1. n \in Nat
    BY WireAssumption
  <2> QED
    BY <1>2, <2>1 DEF WireInv, ReadsInside, InputLen, WrittenIsRead
<1>3. ASSUME NEW n \in PayloadLens, NEW type \in {"hello", "other"}, input' = [kind |-> "hello", len |-> n],
             IF n < 9 \/ type # "hello" \/ n < 44
             THEN LET need == IF n < 5 THEN 0 ELSE IF n < 9 THEN 1 ELSE 6
                  IN  Hello(IF n >= 11 THEN "unknown" ELSE "more", 0, 0, need)
             ELSE Hello("session", 43, 0, 6)
      PROVE  WireInv'
  <2>1. n \in Nat
    BY WireAssumption
  <2>2. \E at, off, need : /\ out' = [at |-> at, off |-> off, end |-> 0, hello |-> [need |-> need, ok |-> at = "name", from |-> off]]
                           /\ off \in Nat /\ off <= n /\ need <= n
    <3>1. CASE n < 9 \/ type # "hello" \/ n < 44
      BY <1>3, <2>1, <3>1 DEF Hello
    <3>2. CASE ~(n < 9 \/ type # "hello" \/ n < 44)
      BY <1>3, <2>1, <3>2 DEF Hello
    <3> QED
      BY <3>1, <3>2
  <2>3. HelloInv' /\ ReadsInside' /\ WrittenIsRead'
    BY <1>3, <2>1, <2>2 DEF HelloInv, ReadsInside, InputLen, WrittenIsRead
  <2> QED
    BY <2>3 DEF WireInv
<1> QED
  BY <1>1, <1>2, <1>3 DEF MeasureReceived, ReadRecord, SniffDNS

\* Every step of the parsers.
LEMMA WireInvStep == WireInv /\ [WireNext]_wireVars => WireInv'
<1> SUFFICES ASSUME WireInv, [WireNext]_wireVars PROVE WireInv'
  OBVIOUS
<1>1. CASE UNCHANGED wireVars
  BY <1>1 DEF wireVars, WireInv, ReadsInside, InputLen, WrittenIsRead, HelloInv
<1> QED
  BY <1>1, HelloSteps, PacketsRead, FramesRead, ProbesRead, OthersRead DEF WireNext

(***************************************************************************)
(* The stream of frames between two nodes.                                 *)
(*                                                                         *)
(* What is said of a stream is said of sequences of parts of frames, which *)
(* grow at the end, lose their head, and are put one behind another.       *)
(***************************************************************************)
PCs == {"idle", "wait", "write", "flush", "over"}

\* A part of frame b comes behind part a of the stream.
Follows(a, b) == IF a.i < a.of THEN b = [a EXCEPT !.i = @ + 1] ELSE b.i = 1

\* Parts that end with the end of a frame and follow each other.
Whole(s) ==
    /\ \A j \in 1 .. Len(s) : j < Len(s) => Follows(s[j], s[j + 1])
    /\ s # <<>> => s[Len(s)].i = s[Len(s)].of
Begins(s) == s = <<>> \/ s[1].i = 1

LEMMA WholeTail ==
  ASSUME NEW s \in Seq(Part), s # <<>>, Whole(s)
  PROVE  Tail(s) \in Seq(Part) /\ Whole(Tail(s))
<1>1. /\ Tail(s) \in Seq(Part) /\ Len(s) \in Nat /\ Len(s) > 0 /\ Len(Tail(s)) = Len(s) - 1
      /\ \A j \in 1 .. Len(s) - 1 : Tail(s)[j] = s[j + 1]
  OBVIOUS
<1>2. ASSUME NEW j \in 1 .. Len(Tail(s)), j < Len(Tail(s)) PROVE Follows(Tail(s)[j], Tail(s)[j + 1])
  <2>1. j + 1 \in 1 .. Len(s) /\ j + 1 < Len(s) /\ Tail(s)[j] = s[j + 1] /\ Tail(s)[j + 1] = s[j + 2]
    BY <1>1, <1>2
  <2>2. Follows(s[j + 1], s[j + 1 + 1]) /\ j + 1 + 1 = j + 2
    BY <2>1 DEF Whole
  <2> QED
    BY <2>1, <2>2
<1>3. Tail(s) # <<>> => Tail(s)[Len(Tail(s))] = s[Len(s)]
  BY <1>1
<1> QED
  BY <1>1, <1>2, <1>3 DEF Whole

LEMMA WholeJoin ==
  ASSUME NEW s \in Seq(Part), NEW t \in Seq(Part), Whole(s), Whole(t), Begins(t)
  PROVE  s \o t \in Seq(Part) /\ Whole(s \o t)
<1>1. /\ s \o t \in Seq(Part) /\ Len(s) \in Nat /\ Len(t) \in Nat /\ Len(s \o t) = Len(s) + Len(t)
      /\ \A j \in 1 .. Len(s \o t) : (s \o t)[j] = IF j <= Len(s) THEN s[j] ELSE t[j - Len(s)]
  OBVIOUS
<1>2. ASSUME NEW j \in 1 .. Len(s \o t), j < Len(s \o t) PROVE Follows((s \o t)[j], (s \o t)[j + 1])
  <2>1. CASE j < Len(s)
    BY <1>1, <2>1 DEF Whole
  <2>2. CASE j = Len(s)
    <3>1. t # <<>> /\ s # <<>> /\ (s \o t)[j] = s[Len(s)] /\ (s \o t)[j + 1] = t[1]
      BY <1>1, <1>2, <2>2
    <3>2. s[Len(s)].i = s[Len(s)].of /\ t[1].i = 1 /\ s[Len(s)] \in Part
      BY <3>1, <1>1 DEF Whole, Begins
    <3>3. ~(s[Len(s)].i < s[Len(s)].of)
      BY <3>2 DEF Part
    <3> QED
      BY <3>1, <3>2, <3>3 DEF Follows
  <2>3. CASE j > Len(s)
    <3>1. /\ j - Len(s) \in 1 .. Len(t) /\ j - Len(s) < Len(t) /\ (s \o t)[j] = t[j - Len(s)]
          /\ (s \o t)[j + 1] = t[j - Len(s) + 1]
      BY <1>1, <1>2, <2>3
    <3> QED
      BY <3>1 DEF Whole
  <2>4. j < Len(s) \/ j = Len(s) \/ j > Len(s)
    BY <1>1
  <2> QED
    BY <2>1, <2>2, <2>3, <2>4, Zenon
<1>3. s \o t # <<>> => (s \o t)[Len(s \o t)] = IF t = <<>> THEN s[Len(s)] ELSE t[Len(t)]
  BY <1>1
<1>4. s \o t # <<>> => (s \o t)[Len(s \o t)].i = (s \o t)[Len(s \o t)].of
  BY <1>1, <1>3 DEF Whole
<1> QED
  BY <1>1, <1>2, <1>4 DEF Whole

\* Moving the head of one sequence to the end of the one before it.
LEMMA HeadMoves ==
  ASSUME NEW s \in Seq(Part), NEW t \in Seq(Part), t # <<>>
  PROVE  /\ Head(t) \in Part /\ Tail(t) \in Seq(Part) /\ Append(s, Head(t)) \in Seq(Part)
         /\ Append(s, Head(t)) \o Tail(t) = s \o t
<1>1. Head(t) \in Part /\ Tail(t) \in Seq(Part) /\ Append(s, Head(t)) \in Seq(Part)
  OBVIOUS
<1>2. /\ Len(Append(s, Head(t)) \o Tail(t)) = Len(s \o t)
      /\ \A j \in 1 .. Len(s \o t) : (Append(s, Head(t)) \o Tail(t))[j] = (s \o t)[j]
  BY <1>1
<1>3. Append(s, Head(t)) \o Tail(t) \in Seq(Part) /\ s \o t \in Seq(Part)
  BY <1>1
<1> QED
  BY <1>1, <1>2, <1>3

LEMMA JoinJoin == \A s, t, u \in Seq(Part) : (s \o t) \o u = s \o (t \o u)
<1> SUFFICES ASSUME NEW s \in Seq(Part), NEW t \in Seq(Part), NEW u \in Seq(Part)
             PROVE  (s \o t) \o u = s \o (t \o u)
  OBVIOUS
<1>1. (s \o t) \o u \in Seq(Part) /\ s \o (t \o u) \in Seq(Part) /\ s \o t \in Seq(Part) /\ t \o u \in Seq(Part)
  OBVIOUS
<1>2. /\ Len((s \o t) \o u) = Len(s \o (t \o u))
      /\ \A j \in 1 .. Len((s \o t) \o u) : ((s \o t) \o u)[j] = (s \o (t \o u))[j]
  BY <1>1
<1> QED
  BY <1>1, <1>2

LEMMA TailJoin ==
  ASSUME NEW s \in Seq(Part), NEW t \in Seq(Part), s # <<>>
  PROVE  Tail(s \o t) = Tail(s) \o t /\ Tail(s) \in Seq(Part) /\ s \o t # <<>> /\ s \o t \in Seq(Part)
<1>1. Tail(s) \in Seq(Part) /\ s \o t \in Seq(Part) /\ s \o t # <<>>
  OBVIOUS
<1>2. Tail(s \o t) \in Seq(Part) /\ Tail(s) \o t \in Seq(Part)
  BY <1>1
<1>3. Len(Tail(s \o t)) = Len(Tail(s) \o t) /\ \A j \in 1 .. Len(Tail(s) \o t) : Tail(s \o t)[j] = (Tail(s) \o t)[j]
  BY <1>1, <1>2
<1> QED
  BY <1>1, <1>2, <1>3

\* The numbers of the keepalives in a sequence, and that each is there once.
Nums(s) == {s[j].n : j \in {j \in 1 .. Len(s) : s[j].kind = "keepalive"}}
Once(s) ==
    \A i, j \in 1 .. Len(s) :
        s[i].kind = "keepalive" /\ s[j].kind = "keepalive" /\ s[i].n = s[j].n => i = j

LEMMA NumsEmpty == Nums(<<>>) = {} /\ Once(<<>>)
  BY DEF Nums, Once

LEMMA NumsAppend ==
  ASSUME NEW s \in Seq(Part), NEW p \in Part
  PROVE  /\ Nums(Append(s, p)) = IF p.kind = "keepalive" THEN Nums(s) \cup {p.n} ELSE Nums(s)
         /\ Once(s) /\ (p.kind = "keepalive" => p.n \notin Nums(s)) => Once(Append(s, p))
<1> DEFINE t == Append(s, p)
<1>1. /\ t \in Seq(Part) /\ Len(s) \in Nat /\ Len(t) = Len(s) + 1 /\ t[Len(s) + 1] = p
      /\ \A j \in 1 .. Len(s) : t[j] = s[j]
  OBVIOUS
<1>2. \A j \in 1 .. Len(t) : j \in 1 .. Len(s) \/ j = Len(s) + 1
  BY <1>1
<1> HIDE DEF t
<1>3. Nums(t) = IF p.kind = "keepalive" THEN Nums(s) \cup {p.n} ELSE Nums(s)
  <2>1. \A n : n \in Nums(t) <=> n \in Nums(s) \/ (p.kind = "keepalive" /\ n = p.n)
    BY <1>1, <1>2 DEF Nums
  <2> QED
    BY <2>1
<1>4. Once(s) /\ (p.kind = "keepalive" => p.n \notin Nums(s)) => Once(t)
  BY <1>1, <1>2 DEF Once, Nums
<1> QED
  BY <1>3, <1>4 DEF t

LEMMA NumsTail ==
  ASSUME NEW s \in Seq(Part), s # <<>>, Once(s)
  PROVE  /\ Nums(Tail(s)) = IF Head(s).kind = "keepalive" THEN Nums(s) \ {Head(s).n} ELSE Nums(s)
         /\ Head(s).kind = "keepalive" => Head(s).n \in Nums(s)
         /\ Once(Tail(s))
<1> DEFINE t == Tail(s)
<1>1. /\ t \in Seq(Part) /\ Len(s) \in Nat /\ Len(t) = Len(s) - 1 /\ Head(s) = s[1] /\ Len(s) >= 1
      /\ \A j \in 1 .. Len(t) : t[j] = s[j + 1] /\ j + 1 \in 1 .. Len(s) /\ j + 1 # 1
  OBVIOUS
<1>2. \A j \in 1 .. Len(s) : j = 1 \/ (j - 1 \in 1 .. Len(t) /\ t[j - 1] = s[j])
  BY <1>1
<1>3. 1 \in 1 .. Len(s)
  BY <1>1
<1> HIDE DEF t
<1>4. Head(s).kind = "keepalive" => Head(s).n \in Nums(s)
  BY <1>1, <1>3 DEF Nums
<1>5. Once(t)
  <2> SUFFICES ASSUME NEW i \in 1 .. Len(t), NEW j \in 1 .. Len(t),
                      t[i].kind = "keepalive", t[j].kind = "keepalive", t[i].n = t[j].n
               PROVE  i = j
    BY DEF Once
  <2>1. i + 1 = j + 1
    BY <1>1 DEF Once
  <2> QED
    BY <2>1
<1>6. Nums(t) \subseteq Nums(s)
  BY <1>1 DEF Nums
<1>7. ASSUME Head(s).kind = "keepalive" PROVE Head(s).n \notin Nums(t)
  BY <1>1, <1>3, <1>7 DEF Nums, Once
<1>8. ASSUME NEW n \in Nums(s), Head(s).kind = "keepalive" => n # Head(s).n PROVE n \in Nums(t)
  <2>1. PICK j \in 1 .. Len(s) : s[j].kind = "keepalive" /\ s[j].n = n
    BY DEF Nums
  <2>2. j - 1 \in 1 .. Len(t) /\ t[j - 1] = s[j]
    BY <1>1, <1>2, <1>8, <2>1
  <2> QED
    BY <2>1, <2>2 DEF Nums
<1>9. Nums(t) = IF Head(s).kind = "keepalive" THEN Nums(s) \ {Head(s).n} ELSE Nums(s)
  <2>1. CASE Head(s).kind = "keepalive"
    BY <2>1, <1>6, <1>7, <1>8
  <2>2. CASE Head(s).kind # "keepalive"
    BY <2>2, <1>6, <1>8
  <2> QED
    BY <2>1, <2>2
<1> QED
  BY <1>4, <1>5, <1>9 DEF t

\* The queries that end in a sequence, counted.
Lasts(s) == {j \in 1 .. Len(s) : s[j].kind = "dns" /\ s[j].i = s[j].of}
Queries(s) == Cardinality(Lasts(s))

LEMMA QueriesType ==
  ASSUME NEW s \in Seq(Part)
  PROVE  IsFiniteSet(Lasts(s)) /\ Queries(s) \in Nat
<1>1. Len(s) \in Nat
  OBVIOUS
<1>2. IsFiniteSet(1 .. Len(s))
  BY <1>1, FS_Interval
<1> QED
  BY <1>2, FS_Subset, FS_CardinalityType DEF Lasts, Queries

LEMMA QueriesNone ==
  ASSUME NEW s, \A j \in 1 .. Len(s) : s[j].kind # "dns"
  PROVE  Queries(s) = 0
<1>1. Lasts(s) = {}
  BY DEF Lasts
<1> QED
  BY <1>1, FS_EmptySet DEF Queries

LEMMA QueriesAppend ==
  ASSUME NEW s \in Seq(Part), NEW p \in Part
  PROVE  Queries(Append(s, p)) = Queries(s) + (IF p.kind = "dns" /\ p.i = p.of THEN 1 ELSE 0)
<1>1. /\ Len(s) \in Nat /\ Len(Append(s, p)) = Len(s) + 1 /\ Append(s, p)[Len(s) + 1] = p
      /\ \A j \in 1 .. Len(s) : Append(s, p)[j] = s[j]
  OBVIOUS
<1>2. Lasts(Append(s, p)) = IF p.kind = "dns" /\ p.i = p.of THEN Lasts(s) \cup {Len(s) + 1} ELSE Lasts(s)
  BY <1>1 DEF Lasts
<1>3. Len(s) + 1 \notin Lasts(s)
  BY <1>1 DEF Lasts
<1>4. IsFiniteSet(Lasts(s)) /\ Queries(s) \in Nat
  BY QueriesType
<1>5. Cardinality(Lasts(s) \cup {Len(s) + 1}) = Cardinality(Lasts(s)) + 1
  BY <1>3, <1>4, FS_AddElement
<1>6. CASE p.kind = "dns" /\ p.i = p.of
  BY <1>2, <1>5, <1>6 DEF Queries
<1>7. CASE ~(p.kind = "dns" /\ p.i = p.of)
  BY <1>2, <1>4, <1>7 DEF Queries
<1> QED
  BY <1>6, <1>7

LEMMA QueriesTail ==
  ASSUME NEW s \in Seq(Part), s # <<>>
  PROVE  Queries(s) = Queries(Tail(s)) + (IF Head(s).kind = "dns" /\ Head(s).i = Head(s).of THEN 1 ELSE 0)
<1> DEFINE L == Lasts(s) \ {1}
           T == Lasts(Tail(s))
           f == [j \in T |-> j + 1]
<1>1. /\ Len(s) \in Nat /\ Len(Tail(s)) = Len(s) - 1 /\ Tail(s) \in Seq(Part) /\ Len(s) >= 1 /\ Head(s) = s[1]
      /\ \A j \in 1 .. Len(Tail(s)) : Tail(s)[j] = s[j + 1]
  OBVIOUS
<1>2. IsFiniteSet(T) /\ IsFiniteSet(Lasts(s)) /\ Cardinality(T) \in Nat
  BY <1>1, QueriesType DEF Queries
<1>3. f \in Bijection(T, L)
  <2>1. \A j \in T : j \in 1 .. Len(Tail(s)) /\ j \in Nat
    BY <1>1 DEF Lasts
  <2>2. \A j \in T : j + 1 \in L
    BY <1>1 DEF Lasts
  <2>3. \A l \in L : l - 1 \in T /\ f[l - 1] = l
    <3> SUFFICES ASSUME NEW l \in L PROVE l - 1 \in T /\ f[l - 1] = l
      OBVIOUS
    <3>1. l \in 1 .. Len(s) /\ l # 1 /\ s[l].kind = "dns" /\ s[l].i = s[l].of
      BY DEF Lasts
    <3>2. l - 1 \in 1 .. Len(Tail(s)) /\ Tail(s)[l - 1] = s[l]
      BY <1>1, <3>1
    <3>3. l - 1 \in T
      BY <3>1, <3>2 DEF Lasts
    <3> QED
      BY <3>1, <3>3
  <2> HIDE DEF T, L
  <2>4. f \in [T -> L] /\ (\A a, b \in T : f[a] = f[b] => a = b)
    BY <2>1, <2>2
  <2> QED
    BY <2>3, <2>4 DEF Bijection, Injection, Surjection, IsInjective
<1>4. Cardinality(L) = Cardinality(T)
  <2> HIDE DEF T, L, f
  <2>1. ExistsBijection(T, L)
    BY <1>3 DEF ExistsBijection
  <2> QED
    BY <1>2, <2>1, FS_Bijection
<1>5. CASE Head(s).kind = "dns" /\ Head(s).i = Head(s).of
  <2>1. 1 \in Lasts(s)
    BY <1>1, <1>5 DEF Lasts
  <2>2. Cardinality(L) = Cardinality(Lasts(s)) - 1 /\ Cardinality(Lasts(s)) \in Nat
    BY <1>2, <2>1, FS_RemoveElement, FS_CardinalityType
  <2> QED
    BY <1>2, <1>4, <1>5, <2>2 DEF Queries
<1>6. CASE ~(Head(s).kind = "dns" /\ Head(s).i = Head(s).of)
  <2>1. L = Lasts(s)
    BY <1>1, <1>6 DEF Lasts
  <2>2. Cardinality(Lasts(s)) = Cardinality(T)
    <3> HIDE DEF T, L
    <3> QED
      BY <1>4, <2>1
  <2> QED
    BY <1>2, <1>6, <2>2 DEF Queries
<1> QED
  BY <1>5, <1>6

FsTypes ==
    /\ bw \in [End -> Seq(Part)] /\ wire \in [End -> Seq(Part)]
    /\ writeMu \in [End -> TaskNames \cup {Free}]
    /\ writers \in [End -> [TaskNames -> [pc : PCs, out : Seq(Part)]]]
    /\ kaPending \in [End -> SUBSET (1 .. MaxPings)] /\ kaSeq \in [End -> 0 .. MaxPings]
    /\ resolving \in [End -> Nat] /\ writes \in 0 .. MaxWrites

FsFlags == attached \in [End -> BOOLEAN] /\ cut \in BOOLEAN

\* What a task that waits for the lock is going to write.
Ready(w, parts) ==
    IF w \in {"ping", "closer"} THEN parts = <<>> ELSE parts # <<>> /\ Whole(parts) /\ Begins(parts)

\* Only the holder of the lock is writing, and what it has written is flushed before it lets
\* go.
FsLocks ==
    /\ \A e \in End : \A w \in TaskNames :
         /\ writers[e][w].pc \in {"write", "flush"} => writeMu[e] = w
         /\ writeMu[e] = w => writers[e][w].pc \in {"write", "flush"}
         /\ writers[e][w].pc = "write" => writers[e][w].out # <<>>
         /\ writers[e][w].pc \in {"idle", "flush", "over"} => writers[e][w].out = <<>>
         /\ writers[e][w].pc = "wait" => Ready(w, writers[e][w].out)
    /\ \A e \in End : writeMu[e] = Free => bw[e] = <<>>

\* What is on the wire, in the buffer and still to be written by the holder is a stream of
\* whole frames, but for the beginning of the one that the reader is in.
Held(e) == IF writeMu[e] = Free THEN <<>> ELSE writers[e][writeMu[e]].out
FsWhole == \A e \in End : ~Gone(e) => Whole(wire[e] \o (bw[e] \o Held(e)))

LEMMA StreamNumbers == MaxPings \in Nat /\ MaxWrites \in Nat
  BY StreamAssumption

LEMMA Ends ==
  /\ "dialler" \in End /\ "acceptor" \in End
  /\ Other("dialler") = "acceptor" /\ Other("acceptor") = "dialler"
  /\ \A e \in End : Other(e) \in End /\ Other(e) # e /\ \A x \in End : x = e \/ x = Other(e)
<1>1. Other("dialler") \in End /\ Other("dialler") # "dialler"
  BY DEF Other, End
<1>2. Other("acceptor") \in End /\ Other("acceptor") # "acceptor"
  BY DEF Other, End
<1> QED
  BY <1>1, <1>2 DEF End

LEMMA SetIs ==
  ASSUME FsTypes, NEW e \in End, NEW w \in TaskNames, NEW p \in PCs, NEW o \in Seq(Part), writers' = Set(e, w, p, o)
  PROVE  /\ writers' \in [End -> [TaskNames -> [pc : PCs, out : Seq(Part)]]]
         /\ writers'[e][w].pc = p /\ writers'[e][w].out = o
         /\ \A x \in End, v \in TaskNames : x # e \/ v # w => writers'[x][v] = writers[x][v]
  BY DEF FsTypes, Set

LEMMA WrittenIs ==
  ASSUME NEW kind \in {"data", "dns", "keepalive", "probe", "reply"}, NEW n \in 0 .. MaxPings
  PROVE  /\ WrittenAs(kind, n) \in Seq(Part) /\ WrittenAs(kind, n) # <<>>
         /\ Whole(WrittenAs(kind, n)) /\ Begins(WrittenAs(kind, n))
         /\ \A j \in 1 .. Len(WrittenAs(kind, n)) : WrittenAs(kind, n)[j].kind = kind /\ WrittenAs(kind, n)[j].n = n
         /\ kind # "dns" => Len(WrittenAs(kind, n)) = 1
<1> DEFINE s == WrittenAs(kind, n)
           k == IF kind = "dns" THEN 3 ELSE 1
<1>1. /\ s \in Seq(Part) /\ Len(s) = k /\ \A j \in 1 .. k : s[j] = [kind |-> kind, n |-> n, i |-> j, of |-> k]
  BY StreamNumbers DEF WrittenAs, Part
<1>2. k \in {1, 3} /\ (kind # "dns" => k = 1)
  OBVIOUS
<1> HIDE DEF s, k
<1>3. s # <<>> /\ 1 \in 1 .. k /\ k \in 1 .. k
  BY <1>1, <1>2
<1>4. Begins(s) /\ s[Len(s)].i = s[Len(s)].of
  BY <1>1, <1>3 DEF Begins
<1>5. ASSUME NEW j \in 1 .. Len(s), j < Len(s) PROVE Follows(s[j], s[j + 1])
  <2>1. j \in 1 .. k /\ j + 1 \in 1 .. k /\ j < k
    BY <1>1, <1>2, <1>5
  <2>2. s[j] = [kind |-> kind, n |-> n, i |-> j, of |-> k] /\ s[j + 1] = [kind |-> kind, n |-> n, i |-> j + 1, of |-> k]
    BY <1>1, <2>1
  <2> QED
    BY <2>1, <2>2 DEF Follows
<1>6. Whole(s)
  BY <1>4, <1>5 DEF Whole
<1>7. /\ \A j \in 1 .. Len(s) : s[j].kind = kind /\ s[j].n = n
      /\ kind # "dns" => Len(s) = 1
  BY <1>1, <1>2
<1> QED
  BY <1>1, <1>3, <1>4, <1>6, <1>7 DEF s

LEMMA FramesAre ==
  ASSUME NEW e \in End, NEW w \in Writes(e)
  PROVE  /\ w \in TaskNames /\ Frames(w) \in Seq(Part) /\ Ready(w, Frames(w))
         /\ \A j \in 1 .. Len(Frames(w)) : Frames(w)[j].kind # "keepalive"
         /\ w # "query" => \A j \in 1 .. Len(Frames(w)) : Frames(w)[j].kind # "dns"
         /\ w = "query" => Frames(w) = WrittenAs("dns", 0)
<1> DEFINE D == WrittenAs("data", 0)
<1>0. 0 \in 0 .. MaxPings
  BY StreamNumbers
<1>1. w \in {"batch", "query", "probe", "data"} /\ w \in TaskNames
  BY DEF Writes, TaskNames, End
<1>2. Frames(w) = IF w = "batch" THEN D \o D ELSE IF w = "data" THEN D ELSE IF w = "probe" THEN WrittenAs("probe", 0) ELSE WrittenAs("dns", 0)
  BY <1>1 DEF Frames
<1>3. D \in Seq(Part) /\ D # <<>> /\ Whole(D) /\ Begins(D) /\ Len(D) = 1 /\ D[1].kind = "data"
  BY <1>0, WrittenIs
<1>4. CASE w = "batch"
  <2>1. D \o D \in Seq(Part) /\ Whole(D \o D)
    BY <1>3, WholeJoin
  <2>2. D \o D # <<>> /\ Begins(D \o D) /\ \A j \in 1 .. Len(D \o D) : (D \o D)[j].kind = "data"
    BY <1>3 DEF Begins
  <2> QED
    BY <1>1, <1>2, <1>4, <2>1, <2>2 DEF Ready
<1>5. CASE w # "batch"
  <2>1. ASSUME NEW kind \in {"data", "dns", "probe"}, Frames(w) = WrittenAs(kind, 0), kind = "dns" <=> w = "query"
        PROVE  /\ Frames(w) \in Seq(Part) /\ Ready(w, Frames(w))
               /\ \A j \in 1 .. Len(Frames(w)) : Frames(w)[j].kind # "keepalive"
               /\ w # "query" => \A j \in 1 .. Len(Frames(w)) : Frames(w)[j].kind # "dns"
    BY <1>0, <1>1, <2>1, WrittenIs DEF Ready
  <2> QED
    BY <1>1, <1>2, <1>5, <2>1
<1> QED
  BY <1>4, <1>5

\* A task that was idle goes for the lock.
Enqueued(e, w, o) ==
    /\ writers[e][w].pc = "idle" /\ writers' = Set(e, w, "wait", o)
    /\ o \in Seq(Part) /\ Ready(w, o)

LEMMA EnqueueKeeps ==
  ASSUME FsTypes, FsLocks, NEW e \in End, NEW w \in TaskNames, NEW o, Enqueued(e, w, o), UNCHANGED <<writeMu, bw>>
  PROVE  /\ writers' \in [End -> [TaskNames -> [pc : PCs, out : Seq(Part)]]] /\ FsLocks'
         /\ \A x \in End : Held(x)' = Held(x)
<1>1. /\ writers' \in [End -> [TaskNames -> [pc : PCs, out : Seq(Part)]]]
      /\ writers'[e][w].pc = "wait" /\ writers'[e][w].out = o
      /\ \A x \in End, v \in TaskNames : x # e \/ v # w => writers'[x][v] = writers[x][v]
  BY SetIs DEF Enqueued, PCs
<1>2. writeMu[e] # w
  BY DEF FsLocks, Enqueued
<1>3. ASSUME NEW x \in End, NEW v \in TaskNames
      PROVE  /\ writers'[x][v].pc \in {"write", "flush"} => writeMu'[x] = v
             /\ writeMu'[x] = v => writers'[x][v].pc \in {"write", "flush"}
             /\ writers'[x][v].pc = "write" => writers'[x][v].out # <<>>
             /\ writers'[x][v].pc \in {"idle", "flush", "over"} => writers'[x][v].out = <<>>
             /\ writers'[x][v].pc = "wait" => Ready(v, writers'[x][v].out)
  <2>1. CASE x = e /\ v = w
    BY <1>1, <1>2, <2>1 DEF Enqueued
  <2>2. CASE x # e \/ v # w
    <3>1. writers'[x][v] = writers[x][v] /\ writeMu' = writeMu
      BY <1>1, <2>2
    <3> QED
      BY <3>1 DEF FsLocks
  <2> QED
    BY <2>1, <2>2
<1>4. FsLocks'
  BY <1>3 DEF FsLocks
<1>5. \A x \in End : writeMu[x] = Free \/ writeMu[x] \in TaskNames
  BY DEF FsTypes
<1>6. \A x \in End : writeMu[x] # Free => writers'[x][writeMu[x]] = writers[x][writeMu[x]]
  BY <1>1, <1>2, <1>5
<1>7. \A x \in End : Held(x)' = Held(x)
  BY <1>6 DEF Held
<1> QED
  BY <1>1, <1>4, <1>7

LEMMA NoParts == \A s \in Seq(Part) : Len(s) = 0 => s = <<>>
  OBVIOUS

LEMMA LastPart ==
  ASSUME NEW s \in Seq(Part)
  PROVE  (Len(s) = 1 => Tail(s) = <<>>) /\ (Len(s) # 1 /\ s # <<>> => Tail(s) # <<>>)
<1>1. ASSUME Len(s) = 1 PROVE Tail(s) = <<>>
  <2>1. Tail(s) \in Seq(Part) /\ Len(Tail(s)) = 0
    BY <1>1
  <2> QED
    BY <2>1, NoParts, Zenon
<1>2. ASSUME Len(s) # 1, s # <<>> PROVE Tail(s) # <<>>
  <2>1. Len(Tail(s)) = Len(s) - 1 /\ Len(s) \in Nat /\ Len(s) > 0
    BY <1>2
  <2>2. Len(Tail(s)) # 0 /\ Len(<<>>) = 0
    BY <1>2, <2>1
  <2> QED
    BY <2>2
<1> QED
  BY <1>1, <1>2

\* A keepalive that waits for the lock has a number left.
FsPings == \A e \in End : writers[e]["ping"].pc = "wait" => kaSeq[e] < MaxPings

FsCore == FsTypes /\ FsFlags /\ FsLocks /\ FsPings /\ FsWhole

LEMMA HeldTypes ==
  ASSUME FsTypes, NEW e \in End
  PROVE  /\ Held(e) \in Seq(Part) /\ wire[e] \in Seq(Part) /\ bw[e] \in Seq(Part)
         /\ writeMu[e] = Free \/ writeMu[e] \in TaskNames
         /\ \A w \in TaskNames : writers[e][w].out \in Seq(Part)
<1>1. /\ wire[e] \in Seq(Part) /\ bw[e] \in Seq(Part) /\ writeMu[e] \in TaskNames \cup {Free}
      /\ \A w \in TaskNames : writers[e][w].out \in Seq(Part)
  BY DEF FsTypes
<1>2. <<>> \in Seq(Part)
  OBVIOUS
<1> QED
  BY <1>1, <1>2 DEF Held

\* What nobody reads and nobody flushes stays whole.
LEMMA WholeStays ==
  ASSUME FsWhole, UNCHANGED <<bw, wire, attached, cut>>, \A x \in End : Held(x)' = Held(x)
  PROVE  FsWhole'
<1>1. ASSUME NEW x \in End, ~Gone(x)' PROVE Whole(wire'[x] \o (bw'[x] \o Held(x)'))
  <2>1. ~Gone(x)
    BY <1>1 DEF Gone
  <2>2. Whole(wire[x] \o (bw[x] \o Held(x)))
    BY <2>1 DEF FsWhole
  <2> QED
    BY <2>2
<1> QED
  BY <1>1 DEF FsWhole

LEMMA EnqueueCore ==
  ASSUME FsCore, NEW e \in End, NEW w \in TaskNames, NEW o, Enqueued(e, w, o),
         UNCHANGED <<writeMu, bw, wire, attached, cut>>, w = "ping" => kaSeq[e] < MaxPings,
         kaPending' = kaPending, kaSeq' = kaSeq, resolving' \in [End -> Nat], writes' \in 0 .. MaxWrites
  PROVE  FsCore'
<1>1. /\ writers' \in [End -> [TaskNames -> [pc : PCs, out : Seq(Part)]]] /\ FsLocks'
      /\ \A x \in End : Held(x)' = Held(x)
  BY EnqueueKeeps DEF FsCore
<1>2. FsWhole'
  BY <1>1, WholeStays DEF FsCore
<1>3. FsTypes' /\ FsFlags'
  BY <1>1 DEF FsCore, FsTypes, FsFlags
<1>4. FsPings'
  <2>1. \A x \in End, v \in TaskNames : x # e \/ v # w => writers'[x][v] = writers[x][v]
    BY SetIs DEF Enqueued, PCs, FsCore
  <2> QED
    BY <2>1 DEF FsCore, FsPings, TaskNames
<1> QED
  BY <1>1, <1>2, <1>3, <1>4 DEF FsCore

\* The tasks that go for the lock.
LEMMA StartsCore ==
  ASSUME FsCore, NEW e \in End, NEW w \in TaskNames,
         StartWrite(e, w) \/ StartPing(e) \/ Resolved(e) \/ StartClose(e)
  PROVE  FsCore'
<1>0. /\ 0 \in 0 .. MaxPings /\ "ping" \in TaskNames /\ "answer" \in TaskNames /\ "closer" \in TaskNames
      /\ <<>> \in Seq(Part) /\ writes \in 0 .. MaxWrites /\ resolving \in [End -> Nat]
  BY StreamNumbers DEF TaskNames, FsCore, FsTypes
<1>1. CASE StartWrite(e, w)
  <2>1. Enqueued(e, w, Frames(w))
    BY <1>1, FramesAre DEF StartWrite, Enqueued
  <2>2. writes' \in 0 .. MaxWrites
    BY <1>0, <1>1, StreamNumbers DEF StartWrite
  <2> QED
    BY <1>0, <1>1, <2>1, <2>2, EnqueueCore DEF StartWrite, Writes
<1>2. CASE StartPing(e)
  <2>1. Enqueued(e, "ping", <<>>)
    BY <1>0, <1>2 DEF StartPing, Enqueued, Ready
  <2> QED
    BY <1>0, <1>2, <2>1, EnqueueCore DEF StartPing
<1>3. CASE StartClose(e)
  <2>1. Enqueued(e, "closer", <<>>)
    BY <1>0, <1>3 DEF StartClose, Enqueued, Ready
  <2> QED
    BY <1>0, <1>3, <2>1, EnqueueCore DEF StartClose
<1>4. CASE Resolved(e)
  <2>1. resolving' \in [End -> Nat]
    BY <1>0, <1>4 DEF Resolved
  <2>2. CASE writers' = Set(e, "answer", "wait", WrittenAs("dns", 0))
    <3>1. Enqueued(e, "answer", WrittenAs("dns", 0))
      BY <1>0, <1>4, <2>2, WrittenIs DEF Resolved, Enqueued, Ready
    <3> QED
      BY <1>0, <1>4, <2>1, <3>1, EnqueueCore DEF Resolved
  <2>3. CASE UNCHANGED writers
    <3>1. \A x \in End : Held(x)' = Held(x)
      BY <1>4, <2>3 DEF Resolved, Held
    <3>2. FsWhole'
      BY <1>4, <3>1, WholeStays DEF Resolved, FsCore
    <3>3. FsTypes' /\ FsFlags' /\ FsLocks' /\ FsPings'
      BY <1>4, <2>1, <2>3 DEF Resolved, FsCore, FsTypes, FsFlags, FsLocks, FsPings
    <3> QED
      BY <3>2, <3>3 DEF FsCore
  <2> QED
    BY <1>4, <2>2, <2>3 DEF Resolved
<1> QED
  BY <1>1, <1>2, <1>3, <1>4

\* A task takes the lock, writes on under it, or lets go of it.
Moves(e, w, p, o, m) ==
    /\ p \in PCs /\ o \in Seq(Part) /\ m \in {Free, w}
    /\ writers' = [writers EXCEPT ![e][w] = [pc |-> p, out |-> o]]
    /\ writeMu' = [writeMu EXCEPT ![e] = m] /\ writeMu[e] \in {Free, w}
    /\ (m = w => p \in {"write", "flush"}) /\ (m = Free => p \in {"idle", "over"} /\ bw'[e] = <<>>)
    /\ (p = "write" => o # <<>>) /\ (p # "write" => o = <<>>)
    /\ \A x \in End : x # e => bw'[x] = bw[x]

LEMMA TaskMoves ==
  ASSUME FsTypes, FsLocks, NEW e \in End, NEW w \in TaskNames, NEW p, NEW o, NEW m, Moves(e, w, p, o, m)
  PROVE  /\ writers' \in [End -> [TaskNames -> [pc : PCs, out : Seq(Part)]]]
         /\ writeMu' \in [End -> TaskNames \cup {Free}]
         /\ FsLocks'
         /\ Held(e)' = o /\ \A x \in End : x # e => Held(x)' = Held(x)
         /\ writers'[e][w].pc = p /\ \A x \in End, v \in TaskNames : x # e \/ v # w => writers'[x][v] = writers[x][v]
<1>0. w # Free
  BY DEF TaskNames, Free
<1>1. /\ writers' \in [End -> [TaskNames -> [pc : PCs, out : Seq(Part)]]]
      /\ writers'[e][w].pc = p /\ writers'[e][w].out = o
      /\ \A x \in End, v \in TaskNames : x # e \/ v # w => writers'[x][v] = writers[x][v]
  <2>1. p \in PCs /\ o \in Seq(Part) /\ writers' = Set(e, w, p, o)
    BY DEF Moves, Set
  <2> QED
    BY <2>1, SetIs
<1>a. /\ p \in PCs /\ m \in {Free, w} /\ writeMu[e] \in {Free, w}
      /\ (m = w => p \in {"write", "flush"}) /\ (m = Free => p \in {"idle", "over"} /\ bw'[e] = <<>>)
      /\ (p = "write" => o # <<>>) /\ (p # "write" => o = <<>>)
      /\ \A x \in End : x # e => bw'[x] = bw[x]
  BY DEF Moves
<1>2. /\ writeMu' \in [End -> TaskNames \cup {Free}] /\ writeMu'[e] = m
      /\ \A x \in End : x # e => writeMu'[x] = writeMu[x]
  BY DEF FsTypes, Moves
<1>3. ASSUME NEW x \in End, NEW v \in TaskNames
      PROVE  /\ writers'[x][v].pc \in {"write", "flush"} => writeMu'[x] = v
             /\ writeMu'[x] = v => writers'[x][v].pc \in {"write", "flush"}
             /\ writers'[x][v].pc = "write" => writers'[x][v].out # <<>>
             /\ writers'[x][v].pc \in {"idle", "flush", "over"} => writers'[x][v].out = <<>>
             /\ writers'[x][v].pc = "wait" => Ready(v, writers'[x][v].out)
  <2>1. CASE x = e /\ v = w
    BY <1>0, <1>1, <1>2, <1>a, <2>1
  <2>2. CASE x # e
    <3>1. writers'[x][v] = writers[x][v] /\ writeMu'[x] = writeMu[x]
      BY <1>1, <1>2, <2>2
    <3> QED
      BY <3>1 DEF FsLocks
  <2>3. CASE x = e /\ v # w
    <3>1. writers'[x][v] = writers[x][v] /\ writeMu'[x] # v /\ writeMu[x] # v
      BY <1>1, <1>2, <1>a, <2>3 DEF TaskNames, Free
    <3> QED
      BY <3>1 DEF FsLocks
  <2> QED
    BY <2>1, <2>2, <2>3
<1>4. \A x \in End : writeMu'[x] = Free => bw'[x] = <<>>
  BY <1>2, <1>a DEF FsLocks
<1>5. FsLocks'
  BY <1>3, <1>4 DEF FsLocks
<1>6. Held(e)' = o
  BY <1>0, <1>1, <1>2, <1>a DEF Held
<1>7. ASSUME NEW x \in End, x # e PROVE Held(x)' = Held(x)
  <2>1. writeMu'[x] = writeMu[x] /\ (writeMu[x] = Free \/ writeMu[x] \in TaskNames)
    BY <1>2, <1>7 DEF FsTypes
  <2>2. writeMu[x] # Free => writers'[x][writeMu[x]] = writers[x][writeMu[x]]
    BY <1>1, <1>7, <2>1
  <2> QED
    BY <2>1, <2>2 DEF Held
<1> QED
  BY <1>1, <1>2, <1>5, <1>6, <1>7

\* The stream stays whole when it stays whole at the end that moves.
LEMMA WholeElsewhere ==
  ASSUME FsWhole, NEW e \in End, UNCHANGED <<attached, cut>>,
         \A x \in End : x # e => wire'[x] = wire[x] /\ bw'[x] = bw[x] /\ Held(x)' = Held(x),
         ~Gone(e) => Whole(wire'[e] \o (bw'[e] \o Held(e)'))
  PROVE  FsWhole'
<1>1. ASSUME NEW x \in End, ~Gone(x)' PROVE Whole(wire'[x] \o (bw'[x] \o Held(x)'))
  <2>1. ~Gone(x)
    BY <1>1 DEF Gone
  <2>2. CASE x # e
    BY <2>1, <2>2 DEF FsWhole
  <2>3. CASE x = e
    BY <2>1, <2>3
  <2> QED
    BY <2>2, <2>3
<1> QED
  BY <1>1 DEF FsWhole

\* The task that gets the lock finds nothing in the buffer.
LEMMA TakeLockCore ==
  ASSUME FsCore, NEW e \in End, NEW w \in TaskNames, TakeLock(e, w)
  PROVE  FsCore'
<1>0. /\ writers[e][w].pc = "wait" /\ writeMu[e] = Free /\ UNCHANGED <<bw, wire, resolving, attached, cut, writes>>
      /\ bw[e] = <<>> /\ writers[e][w].out \in Seq(Part) /\ Ready(w, writers[e][w].out)
  <2>1. writers[e][w].out \in Seq(Part)
    BY HeldTypes DEF FsCore
  <2> QED
    BY <2>1 DEF TakeLock, Guarded, FsCore, FsLocks
<1>a. /\ bw[e] \in Seq(Part) /\ wire[e] \in Seq(Part) /\ <<>> \in Seq(Part) /\ Held(e) = <<>>
      /\ writeMu \in [End -> TaskNames \cup {Free}] /\ kaSeq \in [End -> 0 .. MaxPings]
      /\ kaPending \in [End -> SUBSET (1 .. MaxPings)] /\ MaxPings \in Nat
  BY <1>0, HeldTypes, StreamNumbers DEF FsCore, FsTypes, Held
<1>b. w = "ping" => kaSeq[e] < MaxPings
  BY <1>0 DEF FsCore, FsPings
<1> DEFINE p == IF ~attached[e] THEN IF w = "closer" THEN "over" ELSE "idle" ELSE IF w = "closer" THEN "flush" ELSE "write"
           o == IF ~attached[e] THEN <<>> ELSE IF w = "ping" THEN WrittenAs("keepalive", kaSeq[e] + 1) ELSE writers[e][w].out
           m == IF ~attached[e] THEN Free ELSE w
<1>1. writers' = Set(e, w, p, o) /\ writeMu' = [writeMu EXCEPT ![e] = m]
  <2>1. CASE ~attached[e]
    <3>1. writeMu' = writeMu /\ [writeMu EXCEPT ![e] = Free] = writeMu
      BY <1>0, <1>a, <2>1 DEF TakeLock
    <3> QED
      BY <2>1, <3>1 DEF TakeLock
  <2>2. CASE attached[e]
    BY <2>2 DEF TakeLock
  <2> QED
    BY <2>1, <2>2
<1>2. o \in Seq(Part) /\ Whole(o) /\ Begins(o) /\ (p = "write" => o # <<>>) /\ (p # "write" => o = <<>>)
  <2>1. CASE ~attached[e]
    BY <1>a, <2>1 DEF Whole, Begins
  <2>2. CASE attached[e] /\ w = "ping"
    <3>1. kaSeq[e] + 1 \in 0 .. MaxPings
      BY <1>a, <1>b, <2>2
    <3> QED
      BY <2>2, <3>1, WrittenIs
  <2>3. CASE attached[e] /\ w # "ping"
    BY <1>0, <2>3 DEF Ready, Whole, Begins
  <2> QED
    BY <2>1, <2>2, <2>3
<1>3. /\ p \in PCs /\ p # "wait" /\ m \in {Free, w} /\ writeMu[e] \in {Free, w} /\ (m = w => p \in {"write", "flush"})
      /\ (m = Free => p \in {"idle", "over"}) /\ (m = Free => bw'[e] = <<>>)
  BY <1>0 DEF PCs, Free, TaskNames
<1> HIDE DEF p, o, m
<1>4. /\ writers' \in [End -> [TaskNames -> [pc : PCs, out : Seq(Part)]]]
      /\ writeMu' \in [End -> TaskNames \cup {Free}] /\ FsLocks'
      /\ Held(e)' = o /\ \A x \in End : x # e => Held(x)' = Held(x)
      /\ writers'[e][w].pc = p /\ \A x \in End, v \in TaskNames : x # e \/ v # w => writers'[x][v] = writers[x][v]
  <2>1. FsTypes /\ FsLocks /\ bw' = bw
    BY <1>0 DEF FsCore
  <2>2. /\ m = w => p \in {"write", "flush"}
        /\ m = Free => bw'[e] = <<>>
        /\ \A x \in End : x # e => bw'[x] = bw[x]
    BY <1>0, <1>3, <2>1
  <2>3. PICK q \in PCs, u \in Seq(Part), n \in {Free, w} : q = p /\ u = o /\ n = m
    BY <1>2, <1>3
  <2>4. Moves(e, w, q, u, n)
    BY <1>1, <1>2, <1>3, <2>2, <2>3 DEF Set, Moves
  <2>6. /\ writers' \in [End -> [TaskNames -> [pc : PCs, out : Seq(Part)]]]
        /\ writeMu' \in [End -> TaskNames \cup {Free}] /\ FsLocks'
        /\ Held(e)' = u /\ \A x \in End : x # e => Held(x)' = Held(x)
        /\ writers'[e][w].pc = q /\ \A x \in End, v \in TaskNames : x # e \/ v # w => writers'[x][v] = writers[x][v]
    BY <2>1, <2>4, TaskMoves
  <2> QED
    BY <2>3, <2>6
<1>5. FsWhole'
  <2>1. ASSUME ~Gone(e) PROVE Whole(wire'[e] \o (bw'[e] \o Held(e)'))
    <3>1. Whole(wire[e] \o (bw[e] \o Held(e)))
      BY <2>1 DEF FsCore, FsWhole
    <3>2. bw[e] \o Held(e) = <<>> /\ wire[e] \o <<>> = wire[e] /\ bw'[e] \o Held(e)' = o
      BY <1>0, <1>a, <1>2, <1>4
    <3> QED
      BY <1>0, <1>a, <1>2, <3>1, <3>2, WholeJoin
  <2> QED
    BY <1>0, <1>4, <2>1, WholeElsewhere DEF FsCore
<1>6. /\ kaSeq' \in [End -> 0 .. MaxPings] /\ (w # "ping" => kaSeq' = kaSeq)
      /\ \A x \in End : x # e => kaSeq'[x] = kaSeq[x]
      /\ kaPending' \in [End -> SUBSET (1 .. MaxPings)]
  <2>1. w = "ping" => kaSeq[e] + 1 \in 1 .. MaxPings /\ kaSeq[e] + 1 \in 0 .. MaxPings
    BY <1>a, <1>b
  <2>2. w = "ping" => Awaited(e) \in SUBSET (1 .. MaxPings)
    BY <1>a, <2>1 DEF Awaited
  <2>3. kaSeq' = kaSeq \/ (w = "ping" /\ kaSeq' = [kaSeq EXCEPT ![e] = kaSeq[e] + 1])
    BY DEF TakeLock
  <2>4. kaPending' = kaPending \/ (w = "ping" /\ kaPending' = [kaPending EXCEPT ![e] = Awaited(e)])
    BY DEF TakeLock
  <2>5. kaSeq' \in [End -> 0 .. MaxPings] /\ (w # "ping" => kaSeq' = kaSeq) /\ \A x \in End : x # e => kaSeq'[x] = kaSeq[x]
    BY <1>a, <2>1, <2>3
  <2>6. kaPending' \in [End -> SUBSET (1 .. MaxPings)]
    BY <1>a, <2>2, <2>4
  <2> QED
    BY <2>5, <2>6
<1>7. FsTypes' /\ FsFlags'
  BY <1>0, <1>4, <1>6 DEF FsCore, FsTypes, FsFlags
<1>8. FsPings'
  <2> SUFFICES ASSUME NEW x \in End, writers'[x]["ping"].pc = "wait" PROVE kaSeq'[x] < MaxPings
    BY DEF FsPings
  <2>1. "ping" \in TaskNames
    BY DEF TaskNames
  <2>2. x # e \/ w # "ping"
    BY <1>3, <1>4
  <2>3. kaSeq'[x] = kaSeq[x] /\ writers'[x]["ping"] = writers[x]["ping"]
    BY <1>4, <1>6, <2>1, <2>2
  <2> QED
    BY <2>3 DEF FsCore, FsPings
<1> QED
  BY <1>4, <1>5, <1>7, <1>8 DEF FsCore

\* A part goes to the buffer.
LEMMA WritePartCore ==
  ASSUME FsCore, NEW e \in End, NEW w \in TaskNames, WritePart(e, w)
  PROVE  FsCore'
<1> DEFINE mine == writers[e][w].out
<1>1. /\ writers[e][w].pc = "write" /\ UNCHANGED <<wire, writeMu, kaPending, kaSeq, resolving, attached, cut, writes>>
      /\ mine \in Seq(Part) /\ mine # <<>> /\ writeMu[e] = w /\ bw[e] \in Seq(Part) /\ wire[e] \in Seq(Part)
  BY HeldTypes DEF WritePart, FsCore, FsLocks
<1>2. Head(mine) \in Part /\ Tail(mine) \in Seq(Part) /\ Append(bw[e], Head(mine)) \in Seq(Part)
      /\ Append(bw[e], Head(mine)) \o Tail(mine) = bw[e] \o mine
  <2> HIDE DEF mine
  <2> QED
    BY <1>1, HeadMoves, Zenon
<1>3. (Len(mine) = 1 => Tail(mine) = <<>>) /\ (Len(mine) # 1 => Tail(mine) # <<>>)
  <2> HIDE DEF mine
  <2> QED
    BY <1>1, LastPart, Zenon
<1>4. PICK q \in {"flush", "write"}, u \in Seq(Part) : q = (IF Len(mine) = 1 THEN "flush" ELSE "write") /\ u = Tail(mine)
  BY <1>2
<1>5. /\ bw' = [bw EXCEPT ![e] = Append(bw[e], Head(mine))]
      /\ bw' \in [End -> Seq(Part)] /\ bw'[e] = Append(bw[e], Head(mine)) /\ \A x \in End : x # e => bw'[x] = bw[x]
  <2>1. bw' = [bw EXCEPT ![e] = Append(bw[e], Head(mine))]
    BY DEF WritePart
  <2> QED
    BY <1>2, <2>1 DEF FsCore, FsTypes
<1>6. Moves(e, w, q, u, w)
  <2>1. writeMu' = [writeMu EXCEPT ![e] = w]
    BY <1>1 DEF FsCore, FsTypes
  <2>2. writers' = [writers EXCEPT ![e][w] = [pc |-> q, out |-> u]]
    BY <1>4 DEF WritePart, Set
  <2>3. w # Free
    BY DEF TaskNames, Free
  <2>4. (q = "write" => u # <<>>) /\ (q # "write" => u = <<>>)
    BY <1>3, <1>4
  <2> QED
    BY <1>1, <1>4, <1>5, <2>1, <2>2, <2>3, <2>4 DEF Moves, PCs
<1>7. /\ writers' \in [End -> [TaskNames -> [pc : PCs, out : Seq(Part)]]]
      /\ FsLocks'
      /\ Held(e)' = u /\ \A x \in End : x # e => Held(x)' = Held(x)
      /\ writers'[e][w].pc = q /\ \A x \in End, v \in TaskNames : x # e \/ v # w => writers'[x][v] = writers[x][v]
  BY <1>6, TaskMoves DEF FsCore
<1>8. Held(e) = mine
  BY <1>1 DEF Held, TaskNames, Free
<1>9. FsWhole'
  <2>1. ~Gone(e) => Whole(wire'[e] \o (bw'[e] \o Held(e)'))
    BY <1>1, <1>2, <1>4, <1>5, <1>7, <1>8 DEF FsCore, FsWhole
  <2> QED
    BY <1>1, <1>5, <1>7, <2>1, WholeElsewhere DEF FsCore
<1>10. FsTypes' /\ FsFlags'
  BY <1>1, <1>5, <1>7 DEF FsCore, FsTypes, FsFlags
<1>11. FsPings'
  <2> SUFFICES ASSUME NEW x \in End, writers'[x]["ping"].pc = "wait" PROVE kaSeq'[x] < MaxPings
    BY DEF FsPings
  <2>1. "ping" \in TaskNames
    BY DEF TaskNames
  <2>2. writers'[x]["ping"] = writers[x]["ping"]
    BY <1>4, <1>7, <2>1
  <2> QED
    BY <1>1, <2>2 DEF FsCore, FsPings
<1> QED
  BY <1>7, <1>9, <1>10, <1>11 DEF FsCore

\* The buffer goes to the wire, or is lost with the connection.
LEMMA FlushPartCore ==
  ASSUME FsCore, NEW e \in End, NEW w \in TaskNames, FlushPart(e, w)
  PROVE  FsCore'
<1>1. /\ writers[e][w].pc = "flush" /\ UNCHANGED <<writeMu, writers, kaPending, kaSeq, resolving, attached, cut, writes>>
      /\ bw[e] # <<>> /\ writeMu[e] = w /\ bw[e] \in Seq(Part) /\ wire[e] \in Seq(Part)
      /\ w # Free
  BY HeldTypes DEF FlushPart, FsCore, FsLocks, TaskNames, Free
<1>2. /\ Head(bw[e]) \in Part /\ Tail(bw[e]) \in Seq(Part) /\ Append(wire[e], Head(bw[e])) \in Seq(Part)
      /\ Append(wire[e], Head(bw[e])) \o Tail(bw[e]) = wire[e] \o bw[e]
      /\ Held(e) \in Seq(Part) /\ <<>> \in Seq(Part)
  <2>1. Held(e) \in Seq(Part) /\ <<>> \in Seq(Part)
    BY HeldTypes DEF FsCore
  <2> QED
    BY <1>1, <2>1, HeadMoves, Zenon
<1>3. bw' \in [End -> Seq(Part)] /\ wire' \in [End -> Seq(Part)]
  BY <1>2 DEF FlushPart, FsCore, FsTypes
<1>4. \A x \in End : Held(x)' = Held(x)
  BY <1>1 DEF Held
<1>5. \A x \in End : x # e => bw'[x] = bw[x] /\ wire'[x] = wire[x]
  BY DEF FlushPart, FsCore, FsTypes
<1>6. ASSUME ~Gone(e) PROVE Whole(wire'[e] \o (bw'[e] \o Held(e)'))
  <2>1. wire'[e] = Append(wire[e], Head(bw[e])) /\ bw'[e] = Tail(bw[e])
    <3>1. wire' = [wire EXCEPT ![e] = Append(wire[e], Head(bw[e]))] /\ bw' = [bw EXCEPT ![e] = Tail(bw[e])]
      BY <1>6 DEF FlushPart
    <3>2. wire \in [End -> Seq(Part)] /\ bw \in [End -> Seq(Part)]
      BY DEF FsCore, FsTypes
    <3> QED
      BY <3>1, <3>2
  <2>2. (Append(wire[e], Head(bw[e])) \o Tail(bw[e])) \o Held(e) = Append(wire[e], Head(bw[e])) \o (Tail(bw[e]) \o Held(e))
    <3>1. Append(wire[e], Head(bw[e])) \in Seq(Part) /\ Tail(bw[e]) \in Seq(Part) /\ Held(e) \in Seq(Part)
      BY <1>2
    <3> QED
      BY <3>1, JoinJoin
  <2>3. (wire[e] \o bw[e]) \o Held(e) = wire[e] \o (bw[e] \o Held(e))
    <3>1. wire[e] \in Seq(Part) /\ bw[e] \in Seq(Part) /\ Held(e) \in Seq(Part)
      BY <1>1, <1>2
    <3> QED
      BY <3>1, JoinJoin
  <2>4. Whole(wire[e] \o (bw[e] \o Held(e)))
    BY <1>6 DEF FsCore, FsWhole
  <2> QED
    BY <1>2, <1>4, <2>1, <2>2, <2>3, <2>4
<1>7. FsWhole'
  BY <1>1, <1>4, <1>5, <1>6, WholeElsewhere DEF FsCore
<1>8. FsLocks'
  BY <1>1, <1>5 DEF FsCore, FsLocks
<1> QED
  BY <1>1, <1>3, <1>7, <1>8 DEF FsCore, FsTypes, FsFlags, FsPings

\* A closer that lets go leaves the other end without a connection.
LEMMA UnlockCore ==
  ASSUME FsCore, NEW e \in End, NEW w \in TaskNames, Unlock(e, w)
  PROVE  FsCore'
<1>1. /\ writers[e][w].pc = "flush" /\ UNCHANGED <<bw, kaPending, kaSeq, resolving, cut, writes>>
      /\ bw[e] = <<>> /\ writeMu[e] = w /\ wire \in [End -> Seq(Part)] /\ writers[e][w].out = <<>>
      /\ w # Free /\ <<>> \in Seq(Part) /\ attached \in [End -> BOOLEAN]
  <2>1. writers[e][w].pc = "flush" /\ UNCHANGED <<bw, kaPending, kaSeq, resolving, cut, writes>> /\ bw[e] = <<>>
    BY DEF Unlock
  <2>2. writeMu[e] = w /\ writers[e][w].out = <<>>
    BY <2>1 DEF FsCore, FsLocks
  <2>3. wire \in [End -> Seq(Part)] /\ attached \in [End -> BOOLEAN] /\ <<>> \in Seq(Part)
    BY DEF FsCore, FsTypes, FsFlags
  <2>4. w # Free
    BY DEF TaskNames, Free
  <2> QED
    BY <2>1, <2>2, <2>3, <2>4
<1>2. PICK q \in {"over", "idle"} : q = IF w = "closer" THEN "over" ELSE "idle"
  OBVIOUS
<1>3. Moves(e, w, q, <<>>, Free)
  BY <1>1, <1>2 DEF Unlock, Moves, Set, PCs
<1>4. /\ writers' \in [End -> [TaskNames -> [pc : PCs, out : Seq(Part)]]]
      /\ writeMu' \in [End -> TaskNames \cup {Free}] /\ FsLocks'
      /\ Held(e)' = <<>> /\ \A x \in End : x # e => Held(x)' = Held(x)
      /\ writers'[e][w].pc = q /\ \A x \in End, v \in TaskNames : x # e \/ v # w => writers'[x][v] = writers[x][v]
  BY <1>3, TaskMoves DEF FsCore
<1>5. \A x \in End : Held(x)' = Held(x)
  BY <1>1, <1>4 DEF Held
<1>6. wire' \in [End -> Seq(Part)] /\ attached' \in [End -> BOOLEAN]
  BY <1>1 DEF Unlock
<1>7. FsWhole'
  <2> SUFFICES ASSUME NEW x \in End, ~Gone(x)' PROVE Whole(wire'[x] \o (bw'[x] \o Held(x)'))
    BY DEF FsWhole
  <2>1. Other(x) \in End /\ (x # e => x = Other(e) /\ Other(x) = e) /\ e # Other(e) /\ Other(e) \in End
    BY Ends DEF End
  <2>2. attached'[Other(x)] /\ ~cut
    BY <1>1 DEF Gone
  <2>3. wire'[x] = wire[x]
    BY <1>1, <2>1, <2>2 DEF Unlock
  <2>4. attached[Other(x)]
    BY <1>1, <2>1, <2>2 DEF Unlock
  <2>5. Whole(wire[x] \o (bw[x] \o Held(x)))
    BY <2>2, <2>4 DEF FsCore, FsWhole, Gone
  <2> QED
    BY <1>1, <1>5, <2>3, <2>5
<1>8. FsTypes' /\ FsFlags'
  BY <1>1, <1>4, <1>6 DEF FsCore, FsTypes, FsFlags
<1>9. FsPings'
  <2> SUFFICES ASSUME NEW x \in End, writers'[x]["ping"].pc = "wait" PROVE kaSeq'[x] < MaxPings
    BY DEF FsPings
  <2>1. "ping" \in TaskNames
    BY DEF TaskNames
  <2>2. writers'[x]["ping"] = writers[x]["ping"]
    BY <1>2, <1>4, <2>1
  <2> QED
    BY <1>1, <2>2 DEF FsCore, FsPings
<1> QED
  BY <1>4, <1>7, <1>8, <1>9 DEF FsCore

\* The reader takes the head of the stream, and may have to answer it.
LEMMA TakePacketCore ==
  ASSUME FsCore, NEW e \in End, TakePacket(e)
  PROVE  FsCore'
<1> DEFINE d == Other(e)
           f == Head(wire[d])
           Answers == /\ writers' \in [End -> [TaskNames -> [pc : PCs, out : Seq(Part)]]] /\ FsLocks'
                      /\ \A x \in End : Held(x)' = Held(x)
                      /\ \A x \in End : writers'[x]["ping"] = writers[x]["ping"]
<1>1. /\ d \in End /\ d # e /\ wire[d] \in Seq(Part) /\ wire[d] # <<>> /\ f \in Part /\ Tail(wire[d]) \in Seq(Part)
      /\ bw[d] \o Held(d) \in Seq(Part)
  <2>1. d \in End /\ d # e
    BY Ends
  <2>2. wire[d] \in Seq(Part) /\ bw[d] \in Seq(Part) /\ Held(d) \in Seq(Part)
    BY <2>1, HeldTypes DEF FsCore
  <2> HIDE DEF d
  <2>3. wire[d] # <<>>
    BY DEF TakePacket, d
  <2> QED
    BY <2>1, <2>2, <2>3
<1>2. UNCHANGED <<bw, writeMu, kaSeq, attached, cut, writes>> /\ wire' = [wire EXCEPT ![d] = Tail(@)]
  BY DEF TakePacket
<1>3. wire' \in [End -> Seq(Part)] /\ wire'[d] = Tail(wire[d]) /\ \A x \in End : x # d => wire'[x] = wire[x]
  <2> HIDE DEF d
  <2> QED
    BY <1>1, <1>2 DEF FsCore, FsTypes
<1>4. Answers
  <2>1. writers[e]["reader"].pc = "idle" /\ "reader" \in TaskNames /\ "ping" \in TaskNames
    BY DEF TakePacket, Reading, TaskNames
  <2>2. ASSUME NEW kind \in {"keepalive", "reply"}, NEW n \in 0 .. MaxPings, writers' = Set(e, "reader", "wait", WrittenAs(kind, n))
        PROVE  Answers
    <3>1. Enqueued(e, "reader", WrittenAs(kind, n))
      BY <2>1, <2>2, WrittenIs DEF Enqueued, Ready
    <3>2. /\ writers' \in [End -> [TaskNames -> [pc : PCs, out : Seq(Part)]]] /\ FsLocks'
          /\ \A x \in End : Held(x)' = Held(x)
      BY <1>2, <2>1, <3>1, EnqueueKeeps DEF FsCore
    <3>3. \A x \in End : writers'[x]["ping"] = writers[x]["ping"]
      BY <2>1, <2>2, WrittenIs, SetIs DEF FsCore, PCs
    <3> QED
      BY <3>2, <3>3
  <2>3. CASE UNCHANGED writers
    <3>1. FsLocks' /\ \A x \in End : Held(x)' = Held(x)
      BY <1>2, <2>3 DEF FsCore, FsLocks, Held
    <3> QED
      BY <2>3, <3>1 DEF FsCore, FsTypes
  <2>4. CASE writers' = Set(e, "reader", "wait", Echo(f.n))
    <3>1. PICK n \in 0 .. MaxPings : n = f.n
      <4> HIDE DEF f
      <4> QED
        BY <1>1 DEF Part
    <3>2. writers' = Set(e, "reader", "wait", WrittenAs("keepalive", n))
      <4> HIDE DEF f
      <4> QED
        BY <2>4, <3>1 DEF Echo, Set
    <3> QED
      BY <2>2, <3>2
  <2>5. CASE writers' = Set(e, "reader", "wait", WrittenAs("reply", 0))
    <3>1. 0 \in 0 .. MaxPings
      BY StreamNumbers
    <3> QED
      BY <2>2, <2>5, <3>1
  <2>6. \/ UNCHANGED writers \/ writers' = Set(e, "reader", "wait", Echo(f.n))
        \/ writers' = Set(e, "reader", "wait", WrittenAs("reply", 0))
    BY DEF TakePacket
  <2> QED
    BY <2>3, <2>4, <2>5, <2>6
<1>5. kaPending' \in [End -> SUBSET (1 .. MaxPings)] /\ resolving' \in [End -> Nat]
  BY DEF TakePacket, FsCore, FsTypes
<1>6. FsWhole'
  <2> SUFFICES ASSUME NEW x \in End, ~Gone(x)' PROVE Whole(wire'[x] \o (bw'[x] \o Held(x)'))
    BY DEF FsWhole
  <2>1. Whole(wire[x] \o (bw[x] \o Held(x)))
    BY <1>2 DEF FsCore, FsWhole, Gone
  <2>2. CASE x # d
    BY <1>2, <1>3, <1>4, <2>1, <2>2
  <2>3. CASE x = d
    <3> DEFINE r == bw[d] \o Held(d)
    <3> HIDE DEF d, r
    <3>1. /\ Tail(wire[d] \o r) = Tail(wire[d]) \o r /\ wire[d] \o r # <<>> /\ wire[d] \o r \in Seq(Part)
      BY <1>1, TailJoin, Zenon DEF r
    <3>2. Whole(wire[d] \o r)
      BY <2>1, <2>3 DEF r
    <3>3. Whole(Tail(wire[d] \o r))
      BY <3>1, <3>2, WholeTail
    <3> QED
      BY <1>2, <1>3, <1>4, <2>3, <3>1, <3>3 DEF r
  <2> QED
    BY <2>2, <2>3
<1>7. FsPings'
  BY <1>2, <1>4 DEF FsCore, FsPings
<1>8. FsTypes' /\ FsFlags'
  BY <1>2, <1>3, <1>4, <1>5 DEF FsCore, FsTypes, FsFlags
<1> QED
  BY <1>4, <1>6, <1>7, <1>8 DEF FsCore

LEMMA NetworkDropsCore ==
  ASSUME FsCore, NetworkDrops
  PROVE  FsCore'
<1>1. UNCHANGED <<bw, writeMu, writers, kaPending, kaSeq, resolving, attached, writes>> /\ cut' = TRUE
      /\ wire' = [x \in End |-> <<>>] /\ <<>> \in Seq(Part)
  BY DEF NetworkDrops
<1>2. FsWhole'
  BY <1>1 DEF FsWhole, Gone
<1>3. FsTypes' /\ FsFlags' /\ FsLocks' /\ FsPings'
  BY <1>1 DEF FsCore, FsTypes, FsFlags, FsLocks, FsPings
<1> QED
  BY <1>2, <1>3 DEF FsCore

LEMMA FsCoreNext == FsCore /\ [FsNext]_fsVars => FsCore'
<1> SUFFICES ASSUME FsCore, [FsNext]_fsVars PROVE FsCore'
  OBVIOUS
<1>1. ASSUME NEW e \in End, NEW w \in TaskNames, StartWrite(e, w) \/ StartPing(e) \/ Resolved(e) \/ StartClose(e) PROVE FsCore'
  BY <1>1, StartsCore
<1>2. ASSUME NEW e \in End, TakePacket(e) PROVE FsCore'
  BY <1>2, TakePacketCore
<1>3. ASSUME NEW e \in End, NEW w \in TaskNames, TaskStep(e, w) PROVE FsCore'
  BY <1>3, TakeLockCore, WritePartCore, FlushPartCore, UnlockCore DEF TaskStep
<1>4. CASE NetworkDrops
  BY <1>4, NetworkDropsCore
<1>5. CASE UNCHANGED fsVars
  <2>1. UNCHANGED <<bw, wire, writeMu, writers, kaPending, kaSeq, resolving, attached, cut, writes>>
    BY <1>5 DEF fsVars
  <2>2. \A x \in End : Held(x)' = Held(x)
    BY <2>1 DEF Held
  <2>3. FsWhole'
    BY <2>1, <2>2, WholeStays DEF FsCore
  <2> QED
    BY <2>1, <2>3 DEF FsCore, FsTypes, FsFlags, FsLocks, FsPings
<1>6. "ping" \in TaskNames
  BY DEF TaskNames
<1> QED
  BY <1>1, <1>2, <1>3, <1>4, <1>5, <1>6 DEF FsNext

LEMMA FsCoreInit == FsInit => FsCore
<1> SUFFICES ASSUME FsInit PROVE FsCore
  OBVIOUS
<1>1. FsTypes /\ FsFlags
  <2>1. <<>> \in Seq(Part) /\ 0 \in 0 .. MaxPings /\ 0 \in 0 .. MaxWrites /\ "idle" \in PCs
    BY StreamNumbers DEF PCs
  <2>2. [w \in TaskNames |-> NothingToWrite] \in [TaskNames -> [pc : PCs, out : Seq(Part)]]
    BY <2>1 DEF NothingToWrite
  <2>3. writers \in [End -> [TaskNames -> [pc : PCs, out : Seq(Part)]]]
    BY <2>2 DEF FsInit
  <2> QED
    BY <2>1, <2>3 DEF FsInit, FsTypes, FsFlags
<1>2. FsLocks /\ FsPings
  BY DEF FsInit, FsLocks, FsPings, NothingToWrite, TaskNames, Free
<1>3. FsWhole
  <2>1. \A e \in End : wire[e] \o (bw[e] \o Held(e)) = <<>>
    BY DEF FsInit, Held
  <2>2. Whole(<<>>)
    BY DEF Whole
  <2> QED
    BY <2>1, <2>2 DEF FsWhole
<1> QED
  BY <1>1, <1>2, <1>3 DEF FsCore

LEMMA WholeShows == FsTypes /\ FsWhole => FramesWhole
<1> SUFFICES ASSUME FsTypes, FsWhole, NEW e \in End, ~Gone(e), NEW j \in 1 .. Len(Out(e))
             PROVE  /\ j > 1 /\ Out(e)[j].i > 1 => Out(e)[j - 1] = [Out(e)[j] EXCEPT !.i = @ - 1]
                    /\ j < Len(Out(e)) /\ Out(e)[j].i < Out(e)[j].of => Out(e)[j + 1] = [Out(e)[j] EXCEPT !.i = @ + 1]
  BY DEF FramesWhole
<1>1. wire[e] \in Seq(Part) /\ bw[e] \in Seq(Part) /\ Held(e) \in Seq(Part)
  BY HeldTypes
<1>2. Out(e) \in Seq(Part) /\ wire[e] \o (bw[e] \o Held(e)) = Out(e) \o Held(e)
  <2>1. (wire[e] \o bw[e]) \o Held(e) = wire[e] \o (bw[e] \o Held(e))
    BY <1>1, JoinJoin
  <2> QED
    BY <1>1, <2>1 DEF Out
<1> DEFINE s == Out(e)
<1> HIDE DEF s
<1>3. /\ s \in Seq(Part) /\ Len(s) \in Nat /\ Len(s \o Held(e)) >= Len(s) /\ Len(s \o Held(e)) \in Nat
      /\ \A k \in 1 .. Len(s) : (s \o Held(e))[k] = s[k] /\ s[k] \in Part
  BY <1>1, <1>2 DEF s
<1>4. ASSUME NEW k \in 1 .. Len(s), k < Len(s) PROVE Follows(s[k], s[k + 1])
  <2>1. Whole(s \o Held(e))
    BY <1>2 DEF FsWhole, s
  <2>2. k \in 1 .. Len(s \o Held(e)) /\ k < Len(s \o Held(e)) /\ k + 1 \in 1 .. Len(s)
    BY <1>3, <1>4
  <2>3. Follows((s \o Held(e))[k], (s \o Held(e))[k + 1])
    BY <2>1, <2>2 DEF Whole
  <2> QED
    BY <1>3, <2>2, <2>3
<1>5. j \in 1 .. Len(s) /\ s[j] \in Part
  BY <1>3 DEF s
<1>6. ASSUME j > 1, s[j].i > 1 PROVE s[j - 1] = [s[j] EXCEPT !.i = @ - 1]
  <2>1. j - 1 \in 1 .. Len(s) /\ j - 1 < Len(s) /\ j - 1 + 1 = j /\ s[j - 1] \in Part
    BY <1>3, <1>5, <1>6
  <2>2. Follows(s[j - 1], s[j])
    BY <1>4, <2>1
  <2>3. s[j] = [s[j - 1] EXCEPT !.i = @ + 1]
    BY <1>6, <2>2 DEF Follows
  <2>4. /\ s[j] = [kind |-> s[j].kind, n |-> s[j].n, i |-> s[j].i, of |-> s[j].of]
        /\ s[j - 1] = [kind |-> s[j - 1].kind, n |-> s[j - 1].n, i |-> s[j - 1].i, of |-> s[j - 1].of]
        /\ s[j - 1].i \in Int
    BY <1>5, <2>1 DEF Part
  <2>5. s[j].kind = s[j - 1].kind /\ s[j].n = s[j - 1].n /\ s[j].i = s[j - 1].i + 1 /\ s[j].of = s[j - 1].of
    BY <2>3, <2>4
  <2>6. [s[j] EXCEPT !.i = @ - 1] = [kind |-> s[j].kind, n |-> s[j].n, i |-> s[j].i - 1, of |-> s[j].of]
    BY <2>4
  <2>7. s[j].i - 1 = s[j - 1].i
    BY <2>4, <2>5
  <2> QED
    BY <2>4, <2>5, <2>6, <2>7
<1>7. ASSUME j < Len(s), s[j].i < s[j].of PROVE s[j + 1] = [s[j] EXCEPT !.i = @ + 1]
  BY <1>4, <1>5, <1>7 DEF Follows
<1> QED
  BY <1>6, <1>7 DEF s

(***************************************************************************)
(* Keepalives and queries on their way.                                    *)
(***************************************************************************)
Without(kind, s) == \A j \in 1 .. Len(s) : s[j].kind # kind

LEMMA WithoutIs ==
  ASSUME NEW kind, NEW s \in Seq(Part), Without(kind, s)
  PROVE  s # <<>> => Head(s).kind # kind /\ Tail(s) \in Seq(Part) /\ Without(kind, Tail(s))
<1> SUFFICES ASSUME s # <<>> PROVE Head(s).kind # kind /\ Tail(s) \in Seq(Part) /\ Without(kind, Tail(s))
  OBVIOUS
<1>1. /\ Head(s) = s[1] /\ 1 \in 1 .. Len(s) /\ Tail(s) \in Seq(Part)
      /\ \A j \in 1 .. Len(Tail(s)) : j + 1 \in 1 .. Len(s) /\ Tail(s)[j] = s[j + 1]
  OBVIOUS
<1> QED
  BY <1>1 DEF Without

LEMMA WithoutEmpty == \A kind : Without(kind, <<>>)
  BY DEF Without

LEMMA WithoutShows ==
  ASSUME NEW s
  PROVE  /\ Without("keepalive", s) => Nums(s) = {} /\ Once(s)
         /\ Without("dns", s) => Queries(s) = 0
<1>1. Without("keepalive", s) => Nums(s) = {} /\ Once(s)
  BY DEF Without, Nums, Once
<1>2. Without("dns", s) => Queries(s) = 0
  BY QueriesNone DEF Without
<1> QED
  BY <1>1, <1>2

\* The tasks that never write a keepalive or a query.
Quiet(e, w, o) ==
    /\ (e = "dialler" /\ w = "ping") \/ (e = "acceptor" /\ w = "reader") \/ Without("keepalive", o)
    /\ e = "dialler" /\ w # "query" => Without("dns", o)

FsTasks ==
    /\ kaPending["acceptor"] = {} /\ kaPending["dialler"] \subseteq 1 .. kaSeq["dialler"]
    /\ writers["acceptor"]["ping"].pc = "idle" /\ writers["dialler"]["answer"].pc = "idle"
    /\ resolving["dialler"] = 0
    /\ \A e \in End : \A w \in TaskNames : Quiet(e, w, writers[e][w].out)

\* A task that takes another place in its work leaves the others where they are.
TaskTurns(e, w, p, o) ==
    /\ writers' = [writers EXCEPT ![e][w] = [pc |-> p, out |-> o]]
    /\ p \in PCs /\ o \in Seq(Part) /\ Quiet(e, w, o)
    /\ e = "acceptor" /\ w = "ping" => p = "idle"
    /\ e = "dialler" /\ w = "answer" => p = "idle"

LEMMA TasksTurn ==
  ASSUME FsTypes, FsTasks, NEW e \in End, NEW w \in TaskNames, NEW p, NEW o, TaskTurns(e, w, p, o)
  PROVE  /\ writers'["acceptor"]["ping"].pc = "idle" /\ writers'["dialler"]["answer"].pc = "idle"
         /\ \A x \in End : \A v \in TaskNames : Quiet(x, v, writers'[x][v].out)
         /\ writers'[e][w].pc = p /\ writers'[e][w].out = o
         /\ \A x \in End, v \in TaskNames : x # e \/ v # w => writers'[x][v] = writers[x][v]
<1>1. /\ writers'[e][w].pc = p /\ writers'[e][w].out = o
      /\ \A x \in End, v \in TaskNames : x # e \/ v # w => writers'[x][v] = writers[x][v]
  <2>1. p \in PCs /\ o \in Seq(Part) /\ writers' = Set(e, w, p, o)
    BY DEF TaskTurns, Set
  <2> QED
    BY <2>1, SetIs
<1>2. "ping" \in TaskNames /\ "answer" \in TaskNames /\ "acceptor" \in End /\ "dialler" \in End
  BY DEF TaskNames, End
<1>3. Quiet(e, w, o) /\ (e = "acceptor" /\ w = "ping" => p = "idle") /\ (e = "dialler" /\ w = "answer" => p = "idle")
  BY DEF TaskTurns
<1>4. writers'["acceptor"]["ping"].pc = "idle" /\ writers'["dialler"]["answer"].pc = "idle"
  <2>1. CASE e = "acceptor" /\ w = "ping"
    BY <1>1, <1>2, <1>3, <2>1 DEF FsTasks
  <2>2. CASE e = "dialler" /\ w = "answer"
    BY <1>1, <1>2, <1>3, <2>2 DEF FsTasks
  <2>3. CASE ~(e = "acceptor" /\ w = "ping") /\ ~(e = "dialler" /\ w = "answer")
    BY <1>1, <1>2, <2>3 DEF FsTasks
  <2> QED
    BY <2>1, <2>2, <2>3
<1>5. ASSUME NEW x \in End, NEW v \in TaskNames PROVE Quiet(x, v, writers'[x][v].out)
  <2>1. CASE x = e /\ v = w
    BY <1>1, <1>3, <2>1
  <2>2. CASE x # e \/ v # w
    <3>1. writers'[x][v] = writers[x][v]
      BY <1>1, <2>2
    <3> QED
      BY <3>1 DEF FsTasks
  <2> QED
    BY <2>1, <2>2
<1> QED
  BY <1>1, <1>4, <1>5

LEMMA TaskStands ==
  ASSUME FsCore, FsTasks, NEW e \in End, NEW w \in TaskNames
  PROVE  /\ writers[e][w].out \in Seq(Part) /\ Quiet(e, w, writers[e][w].out)
         /\ e = "acceptor" /\ w = "ping" => writers[e][w].pc = "idle"
         /\ e = "dialler" /\ w = "answer" => writers[e][w].pc = "idle"
         /\ writers[e][w].pc \in {"idle", "flush", "over"} => writers[e][w].out = <<>>
BY HeldTypes DEF FsCore, FsTasks, FsLocks

\* What each step does to a task's work.
LEMMA TakeLockTask ==
  ASSUME FsCore, FsTasks, NEW e \in End, NEW w \in TaskNames, TakeLock(e, w)
  PROVE  /\ FsTasks'
         /\ \A x \in End, v \in TaskNames : x # e \/ v # w => writers'[x][v] = writers[x][v]
         /\ UNCHANGED <<bw, wire, resolving, writes>>
         /\ \/ /\ kaPending' = kaPending
               /\ writers'[e][w].out = <<>> \/ writers'[e][w].out = writers[e][w].out
            \/ /\ e = "dialler" /\ w = "ping" /\ kaSeq["dialler"] + 1 \in 1 .. MaxPings
               /\ writers'[e][w].out = WrittenAs("keepalive", kaSeq["dialler"] + 1)
               /\ kaPending'["dialler"] = kaPending["dialler"] \cup {kaSeq["dialler"] + 1}
<1>1. /\ writers[e][w].pc = "wait" /\ UNCHANGED <<bw, wire, resolving, attached, cut, writes>>
      /\ writers[e][w].out \in Seq(Part) /\ Quiet(e, w, writers[e][w].out) /\ ~(e = "acceptor" /\ w = "ping")
      /\ ~(e = "dialler" /\ w = "answer") /\ <<>> \in Seq(Part) /\ Quiet(e, w, <<>>)
      /\ e \in {"dialler", "acceptor"}
  BY TaskStands, WithoutEmpty DEF TakeLock, Quiet, End
<1>2. /\ kaSeq \in [End -> 0 .. MaxPings] /\ kaPending \in [End -> SUBSET (1 .. MaxPings)] /\ MaxPings \in Nat
      /\ "dialler" \in End /\ "acceptor" \in End
  BY StreamNumbers DEF FsCore, FsTypes, End
<1>3. CASE ~(attached[e] /\ w = "ping")
  <2>1. PICK p \in PCs, o \in Seq(Part) :
              (o = <<>> \/ o = writers[e][w].out) /\ writers' = [writers EXCEPT ![e][w] = [pc |-> p, out |-> o]]
    BY <1>1, <1>3 DEF TakeLock, Set, PCs
  <2>2. kaPending' = kaPending /\ kaSeq' = kaSeq
    BY <1>3 DEF TakeLock
  <2>3. TaskTurns(e, w, p, o)
    BY <1>1, <2>1 DEF TaskTurns
  <2>4. /\ writers'["acceptor"]["ping"].pc = "idle" /\ writers'["dialler"]["answer"].pc = "idle"
        /\ \A x \in End : \A v \in TaskNames : Quiet(x, v, writers'[x][v].out)
        /\ writers'[e][w].out = o
        /\ \A x \in End, v \in TaskNames : x # e \/ v # w => writers'[x][v] = writers[x][v]
    BY <2>3, TasksTurn DEF FsCore
  <2>5. FsTasks'
    BY <1>1, <2>2, <2>4 DEF FsTasks
  <2> QED
    BY <1>1, <2>1, <2>2, <2>4, <2>5
<1>4. CASE attached[e] /\ w = "ping"
  <2> DEFINE n == kaSeq["dialler"] + 1
  <2>1. e = "dialler" /\ w = "ping" /\ n \in 1 .. MaxPings /\ n \in 0 .. MaxPings
    BY <1>1, <1>2, <1>4 DEF FsCore, FsPings
  <2>2. PICK k \in 0 .. MaxPings : k = n
    BY <2>1
  <2>3. writers' = [writers EXCEPT ![e][w] = [pc |-> "write", out |-> WrittenAs("keepalive", k)]]
    BY <1>4, <2>1, <2>2 DEF TakeLock, Set
  <2>4. kaPending' = [kaPending EXCEPT !["dialler"] = kaPending["dialler"] \cup {n}] /\ kaSeq' = [kaSeq EXCEPT !["dialler"] = n]
    BY <1>4, <2>1 DEF TakeLock, Awaited
  <2>5. kaPending'["dialler"] = kaPending["dialler"] \cup {n} /\ kaPending'["acceptor"] = kaPending["acceptor"] /\ kaSeq'["dialler"] = n
    BY <1>2, <2>4
  <2>6. WrittenAs("keepalive", k) \in Seq(Part) /\ Without("dns", WrittenAs("keepalive", k))
    BY WrittenIs DEF Without
  <2>7. TaskTurns(e, w, "write", WrittenAs("keepalive", k))
    BY <2>1, <2>3, <2>6 DEF TaskTurns, Quiet, PCs
  <2>8. /\ writers'["acceptor"]["ping"].pc = "idle" /\ writers'["dialler"]["answer"].pc = "idle"
        /\ \A x \in End : \A v \in TaskNames : Quiet(x, v, writers'[x][v].out)
        /\ writers'[e][w].out = WrittenAs("keepalive", k)
        /\ \A x \in End, v \in TaskNames : x # e \/ v # w => writers'[x][v] = writers[x][v]
    BY <2>7, TasksTurn DEF FsCore
  <2>9. kaPending'["dialler"] \subseteq 1 .. kaSeq'["dialler"] /\ kaPending'["acceptor"] = {}
    <3>1. kaSeq["dialler"] \in 0 .. MaxPings /\ kaPending["dialler"] \subseteq 1 .. kaSeq["dialler"] /\ kaPending["acceptor"] = {}
      BY <1>2 DEF FsTasks
    <3>2. \A i \in kaPending["dialler"] : i \in 1 .. n
      BY <3>1
    <3> QED
      BY <1>2, <2>1, <2>5, <3>1, <3>2
  <2>10. FsTasks'
    BY <1>1, <2>8, <2>9 DEF FsTasks
  <2>11. writers'[e][w].out = WrittenAs("keepalive", n)
    BY <2>2, <2>8
  <2> QED
    BY <1>1, <2>1, <2>5, <2>8, <2>10, <2>11
<1> QED
  BY <1>3, <1>4

LEMMA WritePartTask ==
  ASSUME FsCore, FsTasks, NEW e \in End, NEW w \in TaskNames, WritePart(e, w)
  PROVE  /\ FsTasks'
         /\ \A x \in End, v \in TaskNames : x # e \/ v # w => writers'[x][v] = writers[x][v]
         /\ UNCHANGED <<wire, kaPending, resolving, writes>>
         /\ writers[e][w].out \in Seq(Part) /\ writers[e][w].out # <<>> /\ writers'[e][w].out = Tail(writers[e][w].out)
         /\ bw'[e] = Append(bw[e], Head(writers[e][w].out)) /\ \A x \in End : x # e => bw'[x] = bw[x]
<1>1. /\ writers[e][w].pc = "write" /\ UNCHANGED <<wire, writeMu, kaPending, kaSeq, resolving, attached, cut, writes>>
      /\ writers[e][w].out # <<>>
  BY DEF WritePart, FsCore, FsLocks
<1>2. /\ writers[e][w].out \in Seq(Part) /\ Quiet(e, w, writers[e][w].out) /\ ~(e = "acceptor" /\ w = "ping")
      /\ ~(e = "dialler" /\ w = "answer")
  BY <1>1, TaskStands
<1>3. bw'[e] = Append(bw[e], Head(writers[e][w].out)) /\ \A x \in End : x # e => bw'[x] = bw[x]
  BY DEF WritePart, FsCore, FsTypes
<1>4. Tail(writers[e][w].out) \in Seq(Part) /\ Quiet(e, w, Tail(writers[e][w].out))
  <2>1. PICK s \in Seq(Part) : s = writers[e][w].out
    BY <1>2
  <2>2. Tail(s) \in Seq(Part)
    BY <1>1, <2>1
  <2>3. Without("keepalive", s) => Without("keepalive", Tail(s))
    BY <1>1, <2>1, WithoutIs
  <2>4. Without("dns", s) => Without("dns", Tail(s))
    BY <1>1, <2>1, WithoutIs
  <2> QED
    BY <1>2, <2>1, <2>2, <2>3, <2>4 DEF Quiet
<1>5. PICK p \in PCs, o \in Seq(Part) : o = Tail(writers[e][w].out) /\ writers' = [writers EXCEPT ![e][w] = [pc |-> p, out |-> o]]
  BY <1>4 DEF WritePart, Set, PCs
<1>6. TaskTurns(e, w, p, o)
  BY <1>2, <1>4, <1>5 DEF TaskTurns
<1>7. /\ writers'["acceptor"]["ping"].pc = "idle" /\ writers'["dialler"]["answer"].pc = "idle"
      /\ \A x \in End : \A v \in TaskNames : Quiet(x, v, writers'[x][v].out)
      /\ writers'[e][w].out = o
      /\ \A x \in End, v \in TaskNames : x # e \/ v # w => writers'[x][v] = writers[x][v]
  BY <1>6, TasksTurn DEF FsCore
<1>8. FsTasks'
  BY <1>1, <1>7 DEF FsTasks
<1> QED
  BY <1>1, <1>2, <1>3, <1>5, <1>7, <1>8

LEMMA FlushPartTask ==
  ASSUME FsCore, FsTasks, NEW e \in End, NEW w \in TaskNames, FlushPart(e, w)
  PROVE  /\ FsTasks' /\ UNCHANGED <<writers, kaPending, resolving, writes>>
         /\ bw[e] # <<>>
         /\ \/ wire' = wire /\ bw'[e] = <<>>
            \/ wire'[e] = Append(wire[e], Head(bw[e])) /\ bw'[e] = Tail(bw[e])
         /\ \A x \in End : x # e => bw'[x] = bw[x] /\ wire'[x] = wire[x]
<1>1. wire \in [End -> Seq(Part)] /\ bw \in [End -> Seq(Part)]
  BY DEF FsCore, FsTypes
<1>2. UNCHANGED <<writers, kaPending, kaSeq, resolving, writes>> /\ bw[e] # <<>>
  BY DEF FlushPart
<1>3. /\ \/ wire' = wire /\ bw'[e] = <<>>
         \/ wire'[e] = Append(wire[e], Head(bw[e])) /\ bw'[e] = Tail(bw[e])
      /\ \A x \in End : x # e => bw'[x] = bw[x] /\ wire'[x] = wire[x]
  <2>1. CASE wire' = wire /\ bw' = [bw EXCEPT ![e] = <<>>]
    BY <1>1, <2>1
  <2>2. CASE wire' = [wire EXCEPT ![e] = Append(wire[e], Head(bw[e]))] /\ bw' = [bw EXCEPT ![e] = Tail(bw[e])]
    BY <1>1, <2>2
  <2> QED
    BY <2>1, <2>2 DEF FlushPart
<1> QED
  BY <1>2, <1>3 DEF FsTasks

LEMMA UnlockTask ==
  ASSUME FsCore, FsTasks, NEW e \in End, NEW w \in TaskNames, Unlock(e, w)
  PROVE  /\ FsTasks' /\ UNCHANGED <<bw, kaPending, resolving, writes>>
         /\ \A x \in End, v \in TaskNames : writers'[x][v].out = writers[x][v].out
         /\ \A x \in End : wire'[x] = wire[x] \/ wire'[x] = <<>>
<1>1. /\ writers[e][w].pc = "flush" /\ UNCHANGED <<bw, kaPending, kaSeq, resolving, writes>>
      /\ writers[e][w].out = <<>> /\ wire \in [End -> Seq(Part)] /\ Quiet(e, w, <<>>)
      /\ ~(e = "acceptor" /\ w = "ping") /\ ~(e = "dialler" /\ w = "answer")
  BY TaskStands DEF Unlock, FsCore, FsTypes
<1>2. PICK p \in PCs : writers' = [writers EXCEPT ![e][w] = [pc |-> p, out |-> <<>>]]
  BY DEF Unlock, Set, PCs
<1>3. TaskTurns(e, w, p, <<>>)
  BY <1>1, <1>2 DEF TaskTurns
<1>4. /\ writers'["acceptor"]["ping"].pc = "idle" /\ writers'["dialler"]["answer"].pc = "idle"
      /\ \A x \in End : \A v \in TaskNames : Quiet(x, v, writers'[x][v].out)
      /\ writers'[e][w].out = <<>>
      /\ \A x \in End, v \in TaskNames : x # e \/ v # w => writers'[x][v] = writers[x][v]
  BY <1>3, TasksTurn DEF FsCore
<1>5. FsTasks'
  BY <1>1, <1>4 DEF FsTasks
<1>6. ASSUME NEW x \in End, NEW v \in TaskNames PROVE writers'[x][v].out = writers[x][v].out
  <2>1. CASE x = e /\ v = w
    BY <1>1, <1>4, <2>1
  <2>2. CASE x # e \/ v # w
    BY <1>4, <2>2
  <2> QED
    BY <2>1, <2>2
<1>7. \A x \in End : wire'[x] = wire[x] \/ wire'[x] = <<>>
  <2>1. Other(e) \in End
    BY Ends
  <2> QED
    BY <1>1, <2>1 DEF Unlock
<1> QED
  BY <1>1, <1>5, <1>6, <1>7

LEMMA StartsTask ==
  ASSUME FsCore, FsTasks, NEW e \in End, NEW w \in TaskNames,
         StartWrite(e, w) \/ StartPing(e) \/ Resolved(e) \/ StartClose(e)
  PROVE  /\ FsTasks' /\ UNCHANGED <<bw, wire, kaPending>>
         /\ writers'["dialler"]["ping"].out = writers["dialler"]["ping"].out
         /\ writers'["acceptor"]["reader"].out = writers["acceptor"]["reader"].out
         /\ \/ /\ writers'["dialler"]["query"].out = writers["dialler"]["query"].out
               /\ writes' \in {writes, writes + 1} /\ resolving'["acceptor"] \in {resolving["acceptor"], resolving["acceptor"] - 1}
            \/ /\ writers["dialler"]["query"].out = <<>> /\ writers'["dialler"]["query"].out = WrittenAs("dns", 0)
               /\ writes' = writes + 1 /\ resolving' = resolving
<1>0. /\ "ping" \in TaskNames /\ "answer" \in TaskNames /\ "closer" \in TaskNames /\ "reader" \in TaskNames /\ "query" \in TaskNames
      /\ "dialler" \in End /\ "acceptor" \in End /\ <<>> \in Seq(Part) /\ resolving \in [End -> Nat] /\ 0 \in 0 .. MaxPings
      /\ UNCHANGED <<bw, wire, kaPending, kaSeq>> /\ "wait" \in PCs
  <2>1. /\ "ping" \in TaskNames /\ "answer" \in TaskNames /\ "closer" \in TaskNames /\ "reader" \in TaskNames /\ "query" \in TaskNames
        /\ "dialler" \in End /\ "acceptor" \in End /\ <<>> \in Seq(Part) /\ "wait" \in PCs
    BY DEF TaskNames, End, PCs
  <2>2. UNCHANGED <<bw, wire, kaPending, kaSeq>>
    BY DEF StartWrite, StartPing, Resolved, StartClose
  <2>3. resolving \in [End -> Nat] /\ 0 \in 0 .. MaxPings
    BY StreamNumbers DEF FsCore, FsTypes
  <2> QED
    BY <2>1, <2>2, <2>3
<1>1. ASSUME NEW v \in TaskNames, NEW o \in Seq(Part), TaskTurns(e, v, "wait", o), writers[e][v].out = <<>>,
             o = <<>> \/ (v # "ping" /\ v # "reader"), resolving'["dialler"] = 0
      PROVE  /\ FsTasks' /\ writers'[e][v].out = o
             /\ writers'["dialler"]["ping"].out = writers["dialler"]["ping"].out
             /\ writers'["acceptor"]["reader"].out = writers["acceptor"]["reader"].out
             /\ (e # "dialler" \/ v # "query") => writers'["dialler"]["query"].out = writers["dialler"]["query"].out
  <2>1. /\ writers'["acceptor"]["ping"].pc = "idle" /\ writers'["dialler"]["answer"].pc = "idle"
        /\ \A x \in End : \A u \in TaskNames : Quiet(x, u, writers'[x][u].out)
        /\ writers'[e][v].out = o
        /\ \A x \in End, u \in TaskNames : x # e \/ u # v => writers'[x][u] = writers[x][u]
    BY <1>1, TasksTurn DEF FsCore
  <2>2. ASSUME NEW x \in End, NEW u \in {"ping", "reader"} PROVE writers'[x][u].out = writers[x][u].out
    <3>1. CASE x = e /\ u = v
      BY <1>1, <2>1, <3>1
    <3>2. CASE x # e \/ u # v
      BY <1>0, <2>1, <3>2
    <3> QED
      BY <3>1, <3>2
  <2>3. FsTasks'
    BY <1>0, <1>1, <2>1 DEF FsTasks
  <2> QED
    BY <1>0, <2>1, <2>2, <2>3
<1>2. CASE StartWrite(e, w)
  <2>1. /\ w \in Writes(e) /\ writers[e][w].pc = "idle" /\ writers[e][w].out = <<>> /\ UNCHANGED resolving /\ writes' = writes + 1
        /\ writers' = [writers EXCEPT ![e][w] = [pc |-> "wait", out |-> Frames(w)]]
    BY <1>2, TaskStands DEF StartWrite, Set
  <2>2. /\ Frames(w) \in Seq(Part) /\ Without("keepalive", Frames(w)) /\ (w # "query" => Without("dns", Frames(w)))
        /\ (w = "query" => Frames(w) = WrittenAs("dns", 0))
    BY <2>1, FramesAre DEF Without
  <2>3. w # "ping" /\ w # "answer" /\ w # "reader" /\ (w = "query" => e = "dialler")
    BY <2>1 DEF Writes
  <2>4. TaskTurns(e, w, "wait", Frames(w))
    BY <1>0, <2>1, <2>2, <2>3 DEF TaskTurns, Quiet
  <2>5. resolving'["dialler"] = 0
    BY <2>1 DEF FsTasks
  <2>6. /\ FsTasks' /\ writers'[e][w].out = Frames(w)
        /\ writers'["dialler"]["ping"].out = writers["dialler"]["ping"].out
        /\ writers'["acceptor"]["reader"].out = writers["acceptor"]["reader"].out
        /\ (e # "dialler" \/ w # "query") => writers'["dialler"]["query"].out = writers["dialler"]["query"].out
    BY <1>1, <2>1, <2>2, <2>3, <2>4, <2>5
  <2>7. CASE w = "query"
    BY <1>0, <2>1, <2>2, <2>3, <2>6, <2>7
  <2>8. CASE w # "query"
    BY <1>0, <2>1, <2>6, <2>8
  <2> QED
    BY <2>7, <2>8
<1>3. CASE StartPing(e) \/ StartClose(e)
  <2>1. PICK v \in {"ping", "closer"} :
               /\ writers[e][v].pc = "idle" /\ writers' = [writers EXCEPT ![e][v] = [pc |-> "wait", out |-> <<>>]]
               /\ v = "ping" => e = "dialler"
    BY <1>3 DEF StartPing, StartClose, Set, Pings
  <2>2. v \in TaskNames /\ writers[e][v].out = <<>> /\ UNCHANGED <<resolving, writes>>
    BY <1>0, <1>3, <2>1, TaskStands DEF StartPing, StartClose
  <2>3. TaskTurns(e, v, "wait", <<>>)
    BY <1>0, <2>1, WithoutEmpty DEF TaskTurns, Quiet
  <2>4. resolving'["dialler"] = 0
    BY <2>2 DEF FsTasks
  <2>5. /\ FsTasks'
        /\ writers'["dialler"]["ping"].out = writers["dialler"]["ping"].out
        /\ writers'["acceptor"]["reader"].out = writers["acceptor"]["reader"].out
        /\ writers'["dialler"]["query"].out = writers["dialler"]["query"].out
    BY <1>0, <1>1, <2>1, <2>2, <2>3, <2>4
  <2> QED
    BY <1>0, <2>2, <2>5
<1>4. CASE Resolved(e)
  <2>1. /\ e = "acceptor" /\ writers[e]["answer"].pc = "idle" /\ writes' = writes
        /\ resolving' = [resolving EXCEPT !["acceptor"] = resolving["acceptor"] - 1]
    <3>1. resolving[e] > 0 /\ resolving["dialler"] = 0 /\ ~(0 > 0)
      BY <1>4 DEF Resolved, FsTasks
    <3>2. e = "acceptor"
      BY <3>1 DEF End
    <3> QED
      BY <1>4, <3>2 DEF Resolved
  <2>2. resolving'["dialler"] = 0 /\ resolving'["acceptor"] = resolving["acceptor"] - 1
    BY <1>0, <2>1 DEF FsTasks
  <2>3. CASE UNCHANGED writers
    BY <1>0, <2>1, <2>2, <2>3 DEF FsTasks
  <2>4. CASE writers' = Set(e, "answer", "wait", WrittenAs("dns", 0))
    <3>1. writers' = [writers EXCEPT ![e]["answer"] = [pc |-> "wait", out |-> WrittenAs("dns", 0)]]
      BY <2>4 DEF Set
    <3>2. WrittenAs("dns", 0) \in Seq(Part) /\ Without("keepalive", WrittenAs("dns", 0))
      BY <1>0, WrittenIs DEF Without
    <3>3. TaskTurns(e, "answer", "wait", WrittenAs("dns", 0))
      BY <1>0, <2>1, <3>1, <3>2 DEF TaskTurns, Quiet
    <3>4. writers[e]["answer"].out = <<>>
      BY <1>0, <2>1, TaskStands
    <3>5. /\ FsTasks'
          /\ writers'["dialler"]["ping"].out = writers["dialler"]["ping"].out
          /\ writers'["acceptor"]["reader"].out = writers["acceptor"]["reader"].out
          /\ writers'["dialler"]["query"].out = writers["dialler"]["query"].out
      BY <1>0, <1>1, <2>1, <2>2, <3>2, <3>3, <3>4
    <3> QED
      BY <1>0, <2>1, <2>2, <3>5
  <2> QED
    BY <1>4, <2>3, <2>4 DEF Resolved
<1> QED
  BY <1>2, <1>3, <1>4

\* The accepting end answers a keepalive with its number, and begins to resolve a query.
LEMMA AcceptorTakes ==
  ASSUME FsCore, FsTasks, TakePacket("acceptor")
  PROVE  LET f == Head(wire["dialler"]) IN
         /\ FsTasks' /\ UNCHANGED <<bw, writes>> /\ wire["dialler"] # <<>> /\ f \in Part
         /\ kaPending'["dialler"] = kaPending["dialler"]
         /\ wire'["dialler"] = Tail(wire["dialler"]) /\ wire'["acceptor"] = wire["acceptor"]
         /\ writers["acceptor"]["reader"].out = <<>>
         /\ IF f.kind = "keepalive" THEN writers'["acceptor"]["reader"].out = WrittenAs("keepalive", f.n)
            ELSE Without("keepalive", writers'["acceptor"]["reader"].out)
         /\ writers'["acceptor"]["reader"].out \in Seq(Part)
         /\ \A v \in TaskNames : writers'["dialler"][v] = writers["dialler"][v]
         /\ resolving'["acceptor"] = resolving["acceptor"] + (IF f.kind = "dns" /\ f.i = f.of THEN 1 ELSE 0)
<1> DEFINE f == Head(wire["dialler"])
<1>0. /\ "reader" \in TaskNames /\ "ping" \in TaskNames /\ "dialler" \in End /\ "acceptor" \in End
      /\ Other("acceptor") = "dialler" /\ 0 \in 0 .. MaxPings /\ "dialler" # "acceptor"
      /\ wire \in [End -> Seq(Part)] /\ resolving \in [End -> Nat] /\ kaPending \in [End -> SUBSET (1 .. MaxPings)]
  <2>1. "reader" \in TaskNames /\ "ping" \in TaskNames /\ 0 \in 0 .. MaxPings /\ "dialler" # "acceptor"
    BY StreamNumbers DEF TaskNames
  <2>2. wire \in [End -> Seq(Part)] /\ resolving \in [End -> Nat] /\ kaPending \in [End -> SUBSET (1 .. MaxPings)]
    BY DEF FsCore, FsTypes
  <2> QED
    BY <2>1, <2>2, Ends
<1>1. /\ wire["dialler"] # <<>> /\ writers["acceptor"]["reader"].pc = "idle" /\ UNCHANGED <<bw, kaSeq, writes>>
      /\ wire' = [wire EXCEPT !["dialler"] = Tail(wire["dialler"])]
      /\ kaPending' = IF f.kind = "keepalive" THEN [kaPending EXCEPT !["acceptor"] = kaPending["acceptor"] \ {f.n}] ELSE kaPending
      /\ writers' = IF f.kind = "keepalive" /\ f.n \notin kaPending["acceptor"]
                    THEN Set("acceptor", "reader", "wait", Echo(f.n))
                    ELSE IF f.kind = "probe" THEN Set("acceptor", "reader", "wait", WrittenAs("reply", 0))
                    ELSE writers
      /\ resolving' = IF f.kind = "dns" /\ f.i = f.of THEN [resolving EXCEPT !["acceptor"] = resolving["acceptor"] + 1] ELSE resolving
  BY <1>0 DEF TakePacket, Reading
<1>2. f \in Part /\ f.n \in 0 .. MaxPings
  <2>1. PICK s \in Seq(Part) : s = wire["dialler"] /\ s # <<>>
    BY <1>0, <1>1
  <2>2. Head(s) \in Part
    BY <2>1
  <2> QED
    BY <2>1, <2>2 DEF Part
<1> HIDE DEF f
<1>3. /\ wire'["dialler"] = Tail(wire["dialler"]) /\ wire'["acceptor"] = wire["acceptor"]
      /\ kaPending'["dialler"] = kaPending["dialler"] /\ kaPending'["acceptor"] = {}
      /\ resolving'["acceptor"] = resolving["acceptor"] + (IF f.kind = "dns" /\ f.i = f.of THEN 1 ELSE 0)
      /\ resolving'["dialler"] = 0
  <2>1. wire'["dialler"] = Tail(wire["dialler"]) /\ wire'["acceptor"] = wire["acceptor"]
    BY <1>0, <1>1
  <2>2. kaPending'["dialler"] = kaPending["dialler"] /\ kaPending'["acceptor"] = {}
    BY <1>0, <1>1 DEF FsTasks
  <2>3. /\ resolving'["acceptor"] = resolving["acceptor"] + (IF f.kind = "dns" /\ f.i = f.of THEN 1 ELSE 0)
        /\ resolving'["dialler"] = 0
    BY <1>0, <1>1 DEF FsTasks
  <2> QED
    BY <2>1, <2>2, <2>3
<1>4. writers["acceptor"]["reader"].out = <<>>
  BY <1>0, <1>1, TaskStands
<1> DEFINE Read == /\ FsTasks' /\ writers'["acceptor"]["reader"].out \in Seq(Part)
                   /\ \A v \in TaskNames : writers'["dialler"][v] = writers["dialler"][v]
                   /\ IF f.kind = "keepalive" THEN writers'["acceptor"]["reader"].out = WrittenAs("keepalive", f.n)
                      ELSE Without("keepalive", writers'["acceptor"]["reader"].out)
<1> HIDE DEF Read
<1>5. ASSUME NEW o \in Seq(Part), writers' = Set("acceptor", "reader", "wait", o),
             IF f.kind = "keepalive" THEN o = WrittenAs("keepalive", f.n) ELSE Without("keepalive", o)
      PROVE  Read
  <2>1. TaskTurns("acceptor", "reader", "wait", o)
    BY <1>5 DEF TaskTurns, Quiet, Set, PCs
  <2>2. /\ writers'["acceptor"]["ping"].pc = "idle" /\ writers'["dialler"]["answer"].pc = "idle"
        /\ \A x \in End : \A u \in TaskNames : Quiet(x, u, writers'[x][u].out)
        /\ writers'["acceptor"]["reader"].out = o
        /\ \A x \in End, u \in TaskNames : x # "acceptor" \/ u # "reader" => writers'[x][u] = writers[x][u]
    BY <1>0, <2>1, TasksTurn DEF FsCore
  <2>3. FsTasks'
    BY <1>1, <1>3, <2>2 DEF FsTasks
  <2> QED
    BY <1>0, <1>5, <2>2, <2>3 DEF Read
<1>6. ASSUME f.kind = "keepalive" PROVE Read
  <2>1. PICK n \in 0 .. MaxPings : n = f.n
    BY <1>2
  <2>2. WrittenAs("keepalive", n) \in Seq(Part)
    BY WrittenIs
  <2>3. writers' = Set("acceptor", "reader", "wait", WrittenAs("keepalive", n))
    BY <1>1, <1>6, <2>1 DEF FsTasks, Echo, Set
  <2>4. WrittenAs("keepalive", n) = WrittenAs("keepalive", f.n)
    BY <2>1
  <2> QED
    BY <1>5, <1>6, <2>2, <2>3, <2>4
<1>7. ASSUME f.kind = "probe" PROVE Read
  <2>1. WrittenAs("reply", 0) \in Seq(Part) /\ Without("keepalive", WrittenAs("reply", 0))
    BY <1>0, WrittenIs DEF Without
  <2>2. writers' = Set("acceptor", "reader", "wait", WrittenAs("reply", 0)) /\ f.kind # "keepalive"
    BY <1>1, <1>7
  <2> QED
    BY <1>5, <2>1, <2>2
<1>8. ASSUME f.kind # "keepalive", f.kind # "probe" PROVE Read
  <2>1. writers' = writers
    BY <1>1, <1>8
  <2>2. FsTasks'
    BY <1>1, <1>3, <2>1 DEF FsTasks
  <2>3. Without("keepalive", writers'["acceptor"]["reader"].out) /\ writers'["acceptor"]["reader"].out \in Seq(Part)
    <3>1. writers'["acceptor"]["reader"].out = <<>> /\ <<>> \in Seq(Part) /\ Without("keepalive", <<>>)
      BY <1>4, <2>1, WithoutEmpty
    <3> QED
      BY <3>1
  <2> QED
    BY <1>8, <2>1, <2>2, <2>3 DEF Read
<1>9. Read
  BY <1>6, <1>7, <1>8
<1> QED
  BY <1>1, <1>2, <1>3, <1>4, <1>9 DEF Read, f

\* The dialling end takes back the number it waits for.
LEMMA DiallerTakes ==
  ASSUME FsCore, FsTasks, TakePacket("dialler"),
         Head(wire["acceptor"]).kind = "keepalive" => Head(wire["acceptor"]).n \in kaPending["dialler"]
  PROVE  LET f == Head(wire["acceptor"]) IN
         /\ FsTasks' /\ UNCHANGED <<bw, resolving, writes>> /\ wire["acceptor"] # <<>> /\ f \in Part
         /\ kaPending'["dialler"] = IF f.kind = "keepalive" THEN kaPending["dialler"] \ {f.n} ELSE kaPending["dialler"]
         /\ wire'["acceptor"] = Tail(wire["acceptor"]) /\ wire'["dialler"] = wire["dialler"]
         /\ \A x \in End, v \in TaskNames : x # "dialler" \/ v # "reader" => writers'[x][v] = writers[x][v]
<1> DEFINE f == Head(wire["acceptor"])
<1>0. /\ "reader" \in TaskNames /\ "ping" \in TaskNames /\ "dialler" \in End /\ "acceptor" \in End
      /\ Other("dialler") = "acceptor" /\ 0 \in 0 .. MaxPings /\ "dialler" # "acceptor"
      /\ wire \in [End -> Seq(Part)] /\ kaPending \in [End -> SUBSET (1 .. MaxPings)]
  <2>1. "reader" \in TaskNames /\ "ping" \in TaskNames /\ 0 \in 0 .. MaxPings /\ "dialler" # "acceptor"
    BY StreamNumbers DEF TaskNames
  <2>2. wire \in [End -> Seq(Part)] /\ kaPending \in [End -> SUBSET (1 .. MaxPings)]
    BY DEF FsCore, FsTypes
  <2> QED
    BY <2>1, <2>2, Ends
<1>1. /\ wire["acceptor"] # <<>> /\ UNCHANGED <<bw, kaSeq, writes, resolving>>
      /\ wire' = [wire EXCEPT !["acceptor"] = Tail(wire["acceptor"])]
      /\ kaPending' = IF f.kind = "keepalive" THEN [kaPending EXCEPT !["dialler"] = kaPending["dialler"] \ {f.n}] ELSE kaPending
      /\ writers' = IF f.kind = "keepalive" /\ f.n \notin kaPending["dialler"]
                    THEN Set("dialler", "reader", "wait", Echo(f.n))
                    ELSE IF f.kind = "probe" THEN Set("dialler", "reader", "wait", WrittenAs("reply", 0))
                    ELSE writers
  BY <1>0 DEF TakePacket, Reading
<1>2. f \in Part
  <2>1. PICK s \in Seq(Part) : s = wire["acceptor"] /\ s # <<>>
    BY <1>0, <1>1
  <2>2. Head(s) \in Part
    BY <2>1
  <2> QED
    BY <2>1, <2>2
<1>a. f.kind = "keepalive" => f.n \in kaPending["dialler"]
  OBVIOUS
<1> HIDE DEF f
<1>3. /\ wire'["acceptor"] = Tail(wire["acceptor"]) /\ wire'["dialler"] = wire["dialler"]
      /\ kaPending'["dialler"] = IF f.kind = "keepalive" THEN kaPending["dialler"] \ {f.n} ELSE kaPending["dialler"]
      /\ kaPending'["acceptor"] = {}
      /\ kaPending'["dialler"] \subseteq 1 .. kaSeq["dialler"]
  <2>1. wire'["acceptor"] = Tail(wire["acceptor"]) /\ wire'["dialler"] = wire["dialler"]
    BY <1>0, <1>1
  <2>2. /\ kaPending'["dialler"] = IF f.kind = "keepalive" THEN kaPending["dialler"] \ {f.n} ELSE kaPending["dialler"]
        /\ kaPending'["acceptor"] = {}
    BY <1>0, <1>1 DEF FsTasks
  <2>3. kaPending'["dialler"] \subseteq 1 .. kaSeq["dialler"]
    BY <2>2 DEF FsTasks
  <2> QED
    BY <2>1, <2>2, <2>3
<1>4. CASE f.kind = "probe"
  <2>1. WrittenAs("reply", 0) \in Seq(Part) /\ Without("keepalive", WrittenAs("reply", 0)) /\ Without("dns", WrittenAs("reply", 0))
    BY <1>0, WrittenIs DEF Without
  <2>2. writers' = Set("dialler", "reader", "wait", WrittenAs("reply", 0))
    BY <1>1, <1>4
  <2>3. TaskTurns("dialler", "reader", "wait", WrittenAs("reply", 0))
    BY <2>1, <2>2 DEF TaskTurns, Quiet, Set, PCs
  <2>4. /\ writers'["acceptor"]["ping"].pc = "idle" /\ writers'["dialler"]["answer"].pc = "idle"
        /\ \A x \in End : \A u \in TaskNames : Quiet(x, u, writers'[x][u].out)
        /\ \A x \in End, u \in TaskNames : x # "dialler" \/ u # "reader" => writers'[x][u] = writers[x][u]
    BY <1>0, <2>3, TasksTurn DEF FsCore
  <2>5. FsTasks'
    BY <1>1, <1>3, <2>4 DEF FsTasks
  <2> QED
    BY <1>1, <1>2, <1>3, <2>4, <2>5 DEF f
<1>5. CASE f.kind # "probe"
  <2>1. writers' = writers
    BY <1>1, <1>a, <1>5
  <2>2. FsTasks'
    BY <1>1, <1>3, <2>1 DEF FsTasks
  <2> QED
    BY <1>1, <1>2, <1>3, <2>1, <2>2 DEF f
<1> QED
  BY <1>4, <1>5

\* Where a keepalive is on its way to the accepting end and back.
Places == {"ping", "buffer", "wire", "reader", "bufferBack", "wireBack"}
At == [p \in Places |->
         IF p = "ping" THEN writers["dialler"]["ping"].out
         ELSE IF p = "buffer" THEN bw["dialler"] ELSE IF p = "wire" THEN wire["dialler"]
         ELSE IF p = "reader" THEN writers["acceptor"]["reader"].out
         ELSE IF p = "bufferBack" THEN bw["acceptor"] ELSE wire["acceptor"]]

\* A keepalive is in one of them, once, and the dialling end waits for it.
FsEcho ==
    /\ \A p \in Places : Once(At[p]) /\ Nums(At[p]) \subseteq kaPending["dialler"]
    /\ \A p, q \in Places : p # q => Nums(At[p]) \cap Nums(At[q]) = {}

LEMMA AtTypes ==
  ASSUME FsCore
  PROVE  /\ At["ping"] = writers["dialler"]["ping"].out /\ At["buffer"] = bw["dialler"] /\ At["wire"] = wire["dialler"]
         /\ At["reader"] = writers["acceptor"]["reader"].out /\ At["bufferBack"] = bw["acceptor"]
         /\ At["wireBack"] = wire["acceptor"]
         /\ \A p \in Places : At[p] \in Seq(Part)
<1>1. /\ At["ping"] = writers["dialler"]["ping"].out /\ At["buffer"] = bw["dialler"] /\ At["wire"] = wire["dialler"]
      /\ At["reader"] = writers["acceptor"]["reader"].out /\ At["bufferBack"] = bw["acceptor"]
      /\ At["wireBack"] = wire["acceptor"]
  BY DEF At, Places
<1>2. "dialler" \in End /\ "acceptor" \in End /\ "ping" \in TaskNames /\ "reader" \in TaskNames
  BY DEF End, TaskNames
<1>3. /\ bw["dialler"] \in Seq(Part) /\ bw["acceptor"] \in Seq(Part) /\ wire["dialler"] \in Seq(Part) /\ wire["acceptor"] \in Seq(Part)
      /\ writers["dialler"]["ping"].out \in Seq(Part) /\ writers["acceptor"]["reader"].out \in Seq(Part)
  BY <1>2, HeldTypes DEF FsCore
<1> QED
  BY <1>1, <1>3 DEF Places

\* Numbers are lost, or move from one place to another.
LEMMA NumbersShrink ==
  ASSUME FsEcho, \A p \in Places : Once(At'[p]) /\ Nums(At'[p]) \subseteq Nums(At[p]),
         \A p \in Places : Nums(At'[p]) \subseteq kaPending'["dialler"]
  PROVE  FsEcho'
<1>1. ASSUME NEW p \in Places, NEW q \in Places, p # q PROVE Nums(At'[p]) \cap Nums(At'[q]) = {}
  <2>1. Nums(At'[p]) \subseteq Nums(At[p]) /\ Nums(At'[q]) \subseteq Nums(At[q]) /\ Nums(At[p]) \cap Nums(At[q]) = {}
    BY <1>1 DEF FsEcho
  <2> QED
    BY <2>1, Zenon
<1> QED
  BY <1>1, Zenon DEF FsEcho

LEMMA NumbersMove ==
  ASSUME FsEcho, NEW p \in Places, NEW q \in Places, p # q, NEW n, n \in Nums(At[p]),
         kaPending'["dialler"] = kaPending["dialler"],
         \A r \in Places : Once(At'[r]),
         \A r \in Places : r # q => Nums(At'[r]) \subseteq Nums(At[r]),
         Nums(At'[p]) \subseteq Nums(At[p]) \ {n}, Nums(At'[q]) \subseteq Nums(At[q]) \cup {n}
  PROVE  FsEcho'
<1>1. ASSUME NEW r \in Places PROVE Nums(At'[r]) \subseteq kaPending'["dialler"]
  BY DEF FsEcho
<1>2. ASSUME NEW r \in Places, r # q PROVE Nums(At'[r]) \cap Nums(At'[q]) = {}
  <2>1. Nums(At[r]) \cap Nums(At[q]) = {} /\ Nums(At'[r]) \subseteq Nums(At[r]) /\ (r # p => Nums(At[r]) \cap Nums(At[p]) = {})
    BY <1>2 DEF FsEcho
  <2>2. n \notin Nums(At'[r])
    BY <2>1
  <2> QED
    BY <2>1, <2>2
<1>3. ASSUME NEW r \in Places, NEW s \in Places, r # s PROVE Nums(At'[r]) \cap Nums(At'[s]) = {}
  <2>1. CASE r = q
    BY <1>2, <1>3, <2>1
  <2>2. CASE s = q
    BY <1>2, <1>3, <2>2
  <2>3. CASE r # q /\ s # q
    BY <1>3, <2>3 DEF FsEcho
  <2> QED
    BY <2>1, <2>2, <2>3
<1> QED
  BY <1>1, <1>3, Zenon DEF FsEcho

\* The head of one place comes behind another.
LEMMA HeadPasses ==
  ASSUME FsCore, FsEcho, NEW p \in Places, NEW q \in Places, p # q, At[p] # <<>>,
         kaPending'["dialler"] = kaPending["dialler"],
         At'[p] = Tail(At[p]), At'[q] = Append(At[q], Head(At[p])), \A r \in Places \ {p, q} : At'[r] = At[r]
  PROVE  FsEcho'
<1>1. PICK s \in Seq(Part), t \in Seq(Part) : s = At[p] /\ t = At[q]
  BY AtTypes
<1>2. /\ s # <<>> /\ Once(s) /\ Once(t) /\ Nums(s) \cap Nums(t) = {} /\ Head(s) \in Part
  <2>1. s # <<>>
    BY <1>1
  <2>2. Once(s) /\ Once(t) /\ Nums(s) \cap Nums(t) = {}
    BY <1>1 DEF FsEcho
  <2>3. Head(s) \in Part
    BY <2>1
  <2> QED
    BY <2>1, <2>2, <2>3
<1>3. /\ Nums(Tail(s)) = IF Head(s).kind = "keepalive" THEN Nums(s) \ {Head(s).n} ELSE Nums(s)
      /\ Head(s).kind = "keepalive" => Head(s).n \in Nums(s)
      /\ Once(Tail(s))
  BY <1>2, NumsTail
<1>4. PICK h \in Part : h = Head(s)
  BY <1>2
<1>5. /\ Nums(Append(t, h)) = IF h.kind = "keepalive" THEN Nums(t) \cup {h.n} ELSE Nums(t)
      /\ Once(Append(t, h))
  BY <1>2, <1>3, <1>4, NumsAppend
<1>6. At'[p] = Tail(s) /\ At'[q] = Append(t, h)
  BY <1>1, <1>4
<1>7. \A r \in Places : Once(At'[r])
  BY <1>3, <1>5, <1>6 DEF FsEcho
<1>8. \A r \in Places : r # q => Nums(At'[r]) \subseteq Nums(At[r])
  BY <1>1, <1>3, <1>6
<1>9. CASE h.kind = "keepalive"
  <2>1. PICK n : n = h.n
    OBVIOUS
  <2>2. n \in Nums(At[p]) /\ Nums(At'[p]) \subseteq Nums(At[p]) \ {n} /\ Nums(At'[q]) \subseteq Nums(At[q]) \cup {n}
    BY <1>1, <1>3, <1>4, <1>5, <1>6, <1>9, <2>1
  <2> QED
    BY <1>7, <1>8, <2>2, NumbersMove
<1>10. CASE h.kind # "keepalive"
  <2>1. \A r \in Places : Once(At'[r]) /\ Nums(At'[r]) \subseteq Nums(At[r])
    BY <1>1, <1>3, <1>4, <1>5, <1>6, <1>7, <1>8, <1>10
  <2>2. \A r \in Places : Nums(At'[r]) \subseteq kaPending'["dialler"]
    BY <2>1 DEF FsEcho
  <2> QED
    BY <2>1, <2>2, NumbersShrink
<1> QED
  BY <1>9, <1>10

\* A place is emptied, or takes in something else.
LEMMA PlacesKeep ==
  ASSUME FsEcho, kaPending'["dialler"] = kaPending["dialler"],
         \A p \in Places : At'[p] = At[p] \/ Without("keepalive", At'[p])
  PROVE  FsEcho'
<1>1. ASSUME NEW p \in Places PROVE Once(At'[p]) /\ Nums(At'[p]) \subseteq Nums(At[p])
  <2>1. CASE At'[p] = At[p]
    BY <2>1 DEF FsEcho
  <2>2. CASE Without("keepalive", At'[p])
    <3>1. Nums(At'[p]) = {} /\ Once(At'[p])
      BY <2>2 DEF Without, Nums, Once
    <3> QED
      BY <3>1
  <2> QED
    BY <2>1, <2>2
<1>2. \A p \in Places : Nums(At'[p]) \subseteq kaPending'["dialler"]
  BY <1>1 DEF FsEcho
<1> QED
  BY <1>1, <1>2, NumbersShrink

\* Another part comes behind a place.
LEMMA OtherPart ==
  ASSUME FsCore, FsEcho, kaPending'["dialler"] = kaPending["dialler"], NEW q \in Places, NEW h \in Part, h.kind # "keepalive",
         At'[q] = Append(At[q], h), \A r \in Places \ {q} : At'[r] = At[r]
  PROVE  FsEcho'
<1>1. PICK t \in Seq(Part) : t = At[q]
  BY AtTypes
<1>2. Nums(Append(t, h)) = Nums(t) /\ (Once(t) => Once(Append(t, h)))
  BY NumsAppend
<1>3. \A r \in Places : Once(At'[r]) /\ Nums(At'[r]) = Nums(At[r])
  BY <1>1, <1>2 DEF FsEcho
<1>4. \A r \in Places : Nums(At'[r]) \subseteq kaPending'["dialler"]
  BY <1>3 DEF FsEcho
<1> QED
  BY <1>3, <1>4, NumbersShrink

LEMMA AtPrimed ==
  /\ At'["ping"] = writers'["dialler"]["ping"].out /\ At'["buffer"] = bw'["dialler"] /\ At'["wire"] = wire'["dialler"]
  /\ At'["reader"] = writers'["acceptor"]["reader"].out /\ At'["bufferBack"] = bw'["acceptor"]
  /\ At'["wireBack"] = wire'["acceptor"]
  /\ \A p \in Places : p \in {"ping", "buffer", "wire", "reader", "bufferBack", "wireBack"}
BY DEF At, Places

LEMMA AtNames == {"ping", "buffer", "wire", "reader", "bufferBack", "wireBack"} \subseteq Places
BY DEF Places

LEMMA StartsEcho ==
  ASSUME FsCore, FsTasks, FsEcho, NEW e \in End, NEW w \in TaskNames,
         StartWrite(e, w) \/ StartPing(e) \/ Resolved(e) \/ StartClose(e)
  PROVE  FsEcho'
<1>1. /\ UNCHANGED <<bw, wire, kaPending>>
      /\ writers'["dialler"]["ping"].out = writers["dialler"]["ping"].out
      /\ writers'["acceptor"]["reader"].out = writers["acceptor"]["reader"].out
  BY StartsTask
<1>2. \A p \in Places : At'[p] = At[p]
  BY <1>1, AtTypes, AtPrimed
<1> QED
  BY <1>1, <1>2, PlacesKeep

LEMMA TakeLockEcho ==
  ASSUME FsCore, FsTasks, FsEcho, NEW e \in End, NEW w \in TaskNames, TakeLock(e, w)
  PROVE  FsEcho'
<1>0. /\ \A x \in End, v \in TaskNames : x # e \/ v # w => writers'[x][v] = writers[x][v]
      /\ UNCHANGED <<bw, wire>>
      /\ \/ /\ kaPending' = kaPending
            /\ writers'[e][w].out = <<>> \/ writers'[e][w].out = writers[e][w].out
         \/ /\ e = "dialler" /\ w = "ping" /\ kaSeq["dialler"] + 1 \in 1 .. MaxPings
            /\ writers'[e][w].out = WrittenAs("keepalive", kaSeq["dialler"] + 1)
            /\ kaPending'["dialler"] = kaPending["dialler"] \cup {kaSeq["dialler"] + 1}
  BY TakeLockTask
<1>a. "dialler" \in End /\ "acceptor" \in End /\ "ping" \in TaskNames /\ "reader" \in TaskNames
  BY DEF End, TaskNames
<1>1. CASE kaPending' = kaPending /\ (writers'[e][w].out = <<>> \/ writers'[e][w].out = writers[e][w].out)
  <2>1. \A x \in End, v \in TaskNames : writers'[x][v].out = <<>> \/ writers'[x][v].out = writers[x][v].out
    BY <1>0, <1>1
  <2>2. \A p \in Places : At'[p] = At[p] \/ At'[p] = <<>>
    BY <1>0, <1>a, <2>1, AtTypes, AtPrimed
  <2>3. \A p \in Places : At'[p] = At[p] \/ Without("keepalive", At'[p])
    BY <2>2, WithoutEmpty
  <2> QED
    BY <1>1, <2>3, PlacesKeep
<1>2. CASE /\ e = "dialler" /\ w = "ping" /\ kaSeq["dialler"] + 1 \in 1 .. MaxPings
           /\ writers'[e][w].out = WrittenAs("keepalive", kaSeq["dialler"] + 1)
           /\ kaPending'["dialler"] = kaPending["dialler"] \cup {kaSeq["dialler"] + 1}
  <2>1. PICK n \in 0 .. MaxPings : n = kaSeq["dialler"] + 1 /\ n \in Int
    BY <1>2, StreamNumbers
  <2>2. At'["ping"] = WrittenAs("keepalive", n) /\ kaPending'["dialler"] = kaPending["dialler"] \cup {n}
    BY <1>2, <2>1, AtPrimed
  <2>3. \A p \in Places : p # "ping" => At'[p] = At[p]
    BY <1>0, <1>2, <1>a, AtTypes, AtPrimed
  <2>4. n \notin kaPending["dialler"]
    <3>1. kaSeq["dialler"] \in 0 .. MaxPings
      BY <1>a DEF FsCore, FsTypes
    <3> QED
      BY <2>1, <3>1 DEF FsTasks
  <2>5. Nums(WrittenAs("keepalive", n)) \subseteq {n} /\ Once(WrittenAs("keepalive", n))
    <3>1. PICK s \in Seq(Part) : s = WrittenAs("keepalive", n)
      BY WrittenIs
    <3>2. Len(s) = 1 /\ \A j \in 1 .. Len(s) : s[j].n = n
      BY <3>1, WrittenIs
    <3> QED
      BY <3>1, <3>2 DEF Nums, Once
  <2>6. \A p \in Places : Once(At'[p]) /\ Nums(At'[p]) \subseteq kaPending'["dialler"] /\ (p # "ping" => Nums(At'[p]) = Nums(At[p]))
    BY <2>2, <2>3, <2>5 DEF FsEcho
  <2>7. ASSUME NEW p \in Places, p # "ping" PROVE Nums(At'[p]) \cap Nums(At'["ping"]) = {}
    <3>1. Nums(At'[p]) \subseteq kaPending["dialler"]
      BY <2>6, <2>7 DEF FsEcho
    <3> QED
      BY <2>2, <2>4, <2>5, <3>1
  <2>8. ASSUME NEW p \in Places, NEW q \in Places, p # q PROVE Nums(At'[p]) \cap Nums(At'[q]) = {}
    <3>1. CASE p = "ping" \/ q = "ping"
      BY <2>7, <2>8, <3>1
    <3>2. CASE p # "ping" /\ q # "ping"
      BY <2>6, <2>8, <3>2 DEF FsEcho
    <3> QED
      BY <3>1, <3>2
  <2> QED
    BY <2>6, <2>8, Zenon DEF FsEcho
<1> QED
  BY <1>0, <1>1, <1>2

LEMMA WritePartEcho ==
  ASSUME FsCore, FsTasks, FsEcho, NEW e \in End, NEW w \in TaskNames, WritePart(e, w)
  PROVE  FsEcho'
<1>0. /\ \A x \in End, v \in TaskNames : x # e \/ v # w => writers'[x][v] = writers[x][v]
      /\ UNCHANGED <<wire, kaPending>>
      /\ writers[e][w].out \in Seq(Part) /\ writers[e][w].out # <<>> /\ writers'[e][w].out = Tail(writers[e][w].out)
      /\ bw'[e] = Append(bw[e], Head(writers[e][w].out)) /\ \A x \in End : x # e => bw'[x] = bw[x]
  BY WritePartTask
<1>a. "dialler" \in End /\ "acceptor" \in End /\ "ping" \in TaskNames /\ "reader" \in TaskNames /\ "dialler" # "acceptor" /\ "ping" # "reader"
  BY DEF End, TaskNames
<1>b. /\ At["ping"] = writers["dialler"]["ping"].out /\ At["buffer"] = bw["dialler"] /\ At["wire"] = wire["dialler"]
      /\ At["reader"] = writers["acceptor"]["reader"].out /\ At["bufferBack"] = bw["acceptor"]
      /\ At["wireBack"] = wire["acceptor"]
  BY AtTypes
<1>1. CASE e = "dialler" /\ w = "ping"
  <2>1. /\ At["ping"] # <<>> /\ At'["ping"] = Tail(At["ping"]) /\ At'["buffer"] = Append(At["buffer"], Head(At["ping"]))
    BY <1>0, <1>1, <1>b, AtPrimed
  <2>2. \A r \in Places \ {"ping", "buffer"} : At'[r] = At[r]
    BY <1>0, <1>1, <1>a, <1>b, AtPrimed
  <2>3. "ping" \in Places /\ "buffer" \in Places /\ kaPending'["dialler"] = kaPending["dialler"]
    BY <1>0, AtNames
  <2> QED
    BY <2>1, <2>2, <2>3, HeadPasses
<1>2. CASE e = "acceptor" /\ w = "reader"
  <2>1. /\ At["reader"] # <<>> /\ At'["reader"] = Tail(At["reader"]) /\ At'["bufferBack"] = Append(At["bufferBack"], Head(At["reader"]))
    BY <1>0, <1>2, <1>b, AtPrimed
  <2>2. \A r \in Places \ {"reader", "bufferBack"} : At'[r] = At[r]
    BY <1>0, <1>2, <1>a, <1>b, AtPrimed
  <2>3. "reader" \in Places /\ "bufferBack" \in Places /\ kaPending'["dialler"] = kaPending["dialler"]
    BY <1>0, AtNames
  <2> QED
    BY <2>1, <2>2, <2>3, HeadPasses
<1>3. CASE ~(e = "dialler" /\ w = "ping") /\ ~(e = "acceptor" /\ w = "reader")
  <2>1. PICK s \in Seq(Part) : s = writers[e][w].out /\ s # <<>>
    BY <1>0
  <2>2. Without("keepalive", s)
    BY <1>3, <2>1, TaskStands DEF Quiet
  <2>3. PICK h \in Part : h = Head(s) /\ h.kind # "keepalive"
    <3>1. Head(s) \in Part
      BY <2>1
    <3> QED
      BY <2>1, <2>2, <3>1, WithoutIs
  <2>4. bw'[e] = Append(bw[e], h)
    BY <1>0, <2>1, <2>3
  <2>5. PICK q \in {"buffer", "bufferBack"} : (q = "buffer" <=> e = "dialler") /\ q \in Places
    BY AtNames
  <2>6. /\ At'[q] = Append(At[q], h)
        /\ \A r \in Places \ {q} : At'[r] = At[r]
    <3>1. e \in {"dialler", "acceptor"}
      BY DEF End
    <3>2. writers'["dialler"]["ping"] = writers["dialler"]["ping"] /\ writers'["acceptor"]["reader"] = writers["acceptor"]["reader"]
      BY <1>0, <1>3, <1>a
    <3>3. CASE e = "dialler"
      <4>1. q = "buffer" /\ bw'["dialler"] = Append(bw["dialler"], h) /\ bw'["acceptor"] = bw["acceptor"]
        BY <1>0, <1>a, <2>4, <2>5, <3>3
      <4> QED
        BY <1>0, <1>b, <3>2, <4>1, AtPrimed
    <3>4. CASE e = "acceptor"
      <4>1. q = "bufferBack" /\ bw'["acceptor"] = Append(bw["acceptor"], h) /\ bw'["dialler"] = bw["dialler"]
        BY <1>0, <1>a, <2>4, <2>5, <3>4
      <4> QED
        BY <1>0, <1>b, <3>2, <4>1, AtPrimed
    <3> QED
      BY <3>1, <3>3, <3>4
  <2>7. kaPending'["dialler"] = kaPending["dialler"]
    BY <1>0
  <2> QED
    BY <2>3, <2>5, <2>6, <2>7, OtherPart
<1> QED
  BY <1>1, <1>2, <1>3

LEMMA FlushPartEcho ==
  ASSUME FsCore, FsTasks, FsEcho, NEW e \in End, NEW w \in TaskNames, FlushPart(e, w)
  PROVE  FsEcho'
<1>0. /\ UNCHANGED <<writers, kaPending>> /\ bw[e] # <<>>
      /\ \/ wire' = wire /\ bw'[e] = <<>>
         \/ wire'[e] = Append(wire[e], Head(bw[e])) /\ bw'[e] = Tail(bw[e])
      /\ \A x \in End : x # e => bw'[x] = bw[x] /\ wire'[x] = wire[x]
  BY FlushPartTask
<1>a. "dialler" \in End /\ "acceptor" \in End /\ "dialler" # "acceptor" /\ e \in {"dialler", "acceptor"}
  BY DEF End
<1>b. /\ At["ping"] = writers["dialler"]["ping"].out /\ At["buffer"] = bw["dialler"] /\ At["wire"] = wire["dialler"]
      /\ At["reader"] = writers["acceptor"]["reader"].out /\ At["bufferBack"] = bw["acceptor"]
      /\ At["wireBack"] = wire["acceptor"]
  BY AtTypes
<1>1. CASE wire' = wire /\ bw'[e] = <<>>
  <2>1. \A p \in Places : At'[p] = At[p] \/ At'[p] = <<>>
    BY <1>0, <1>1, <1>a, <1>b, AtPrimed
  <2>2. \A p \in Places : At'[p] = At[p] \/ Without("keepalive", At'[p])
    BY <2>1, WithoutEmpty
  <2> QED
    BY <1>0, <2>2, PlacesKeep
<1>2. CASE wire'[e] = Append(wire[e], Head(bw[e])) /\ bw'[e] = Tail(bw[e])
  <2>1. PICK p \in Places, q \in Places :
               (e = "dialler" /\ p = "buffer" /\ q = "wire") \/ (e = "acceptor" /\ p = "bufferBack" /\ q = "wireBack")
    BY <1>a, AtNames
  <2>2. p # q /\ At[p] # <<>> /\ At'[p] = Tail(At[p]) /\ At'[q] = Append(At[q], Head(At[p]))
    BY <1>0, <1>2, <1>b, <2>1, AtPrimed
  <2>3. \A r \in Places \ {p, q} : At'[r] = At[r]
    BY <1>0, <1>2, <1>a, <1>b, <2>1, AtPrimed
  <2>4. kaPending'["dialler"] = kaPending["dialler"]
    BY <1>0
  <2> QED
    BY <2>2, <2>3, <2>4, HeadPasses
<1> QED
  BY <1>0, <1>1, <1>2

LEMMA UnlockEcho ==
  ASSUME FsCore, FsTasks, FsEcho, NEW e \in End, NEW w \in TaskNames, Unlock(e, w)
  PROVE  FsEcho'
<1>0. /\ UNCHANGED <<bw, kaPending>>
      /\ \A x \in End, v \in TaskNames : writers'[x][v].out = writers[x][v].out
      /\ \A x \in End : wire'[x] = wire[x] \/ wire'[x] = <<>>
  BY UnlockTask
<1>a. "dialler" \in End /\ "acceptor" \in End /\ "ping" \in TaskNames /\ "reader" \in TaskNames
  BY DEF End, TaskNames
<1>1. \A p \in Places : At'[p] = At[p] \/ At'[p] = <<>>
  BY <1>0, <1>a, AtTypes, AtPrimed
<1>2. \A p \in Places : At'[p] = At[p] \/ Without("keepalive", At'[p])
  BY <1>1, WithoutEmpty
<1> QED
  BY <1>0, <1>2, PlacesKeep

LEMMA DropsEcho ==
  ASSUME FsCore, FsTasks, FsEcho, NetworkDrops
  PROVE  FsEcho' /\ FsTasks'
<1>0. /\ UNCHANGED <<bw, kaPending, kaSeq, writers, resolving>>
      /\ wire'["dialler"] = <<>> /\ wire'["acceptor"] = <<>>
  BY DEF NetworkDrops, End
<1>1. \A p \in Places : At'[p] = At[p] \/ At'[p] = <<>>
  BY <1>0, AtTypes, AtPrimed
<1>2. \A p \in Places : At'[p] = At[p] \/ Without("keepalive", At'[p])
  BY <1>1, WithoutEmpty
<1>3. FsTasks'
  BY <1>0 DEF FsTasks
<1> QED
  BY <1>0, <1>2, <1>3, PlacesKeep

LEMMA AcceptorEcho ==
  ASSUME FsCore, FsTasks, FsEcho, TakePacket("acceptor")
  PROVE  FsEcho'
<1>0. LET f == Head(wire["dialler"]) IN
      /\ bw' = bw /\ wire["dialler"] # <<>> /\ f \in Part
      /\ kaPending'["dialler"] = kaPending["dialler"]
      /\ wire'["dialler"] = Tail(wire["dialler"]) /\ wire'["acceptor"] = wire["acceptor"]
      /\ writers["acceptor"]["reader"].out = <<>>
      /\ IF f.kind = "keepalive" THEN writers'["acceptor"]["reader"].out = WrittenAs("keepalive", f.n)
         ELSE Without("keepalive", writers'["acceptor"]["reader"].out)
      /\ \A v \in TaskNames : writers'["dialler"][v] = writers["dialler"][v]
  BY AcceptorTakes
<1>a. "ping" \in TaskNames
  BY DEF TaskNames
<1>b. /\ At["ping"] = writers["dialler"]["ping"].out /\ At["buffer"] = bw["dialler"] /\ At["wire"] = wire["dialler"]
      /\ At["reader"] = writers["acceptor"]["reader"].out /\ At["bufferBack"] = bw["acceptor"]
      /\ At["wireBack"] = wire["acceptor"] /\ At["wire"] \in Seq(Part) /\ "wire" \in Places /\ "reader" \in Places
  BY AtTypes, AtNames
<1>1. PICK s \in Seq(Part) : s = At["wire"] /\ s # <<>>
  BY <1>0, <1>b
<1>2. PICK f \in Part : f = Head(s)
  BY <1>1
<1>3. /\ At'["wire"] = Tail(s)
      /\ IF f.kind = "keepalive" THEN At'["reader"] = WrittenAs("keepalive", f.n) ELSE Without("keepalive", At'["reader"])
      /\ \A r \in Places : r # "wire" /\ r # "reader" => At'[r] = At[r]
  BY <1>0, <1>1, <1>2, <1>a, <1>b, AtPrimed
<1>4. Once(s)
  BY <1>1, <1>b DEF FsEcho
<1>5. /\ Nums(Tail(s)) = IF f.kind = "keepalive" THEN Nums(s) \ {f.n} ELSE Nums(s)
      /\ f.kind = "keepalive" => f.n \in Nums(s)
      /\ Once(Tail(s))
  BY <1>1, <1>2, <1>4, NumsTail
<1>6. ASSUME f.kind = "keepalive" PROVE Nums(At'["reader"]) \subseteq {f.n} /\ Once(At'["reader"])
  <2>1. PICK n \in 0 .. MaxPings : n = f.n
    BY DEF Part
  <2>2. PICK t \in Seq(Part) : t = WrittenAs("keepalive", n)
    BY WrittenIs
  <2>3. Len(t) = 1 /\ \A j \in 1 .. Len(t) : t[j].n = n
    BY <2>2, WrittenIs
  <2>4. Nums(t) \subseteq {n} /\ Once(t)
    BY <2>3 DEF Nums, Once
  <2>5. At'["reader"] = t
    BY <1>3, <1>6, <2>1, <2>2
  <2> QED
    BY <2>1, <2>4, <2>5
<1>7. ASSUME f.kind # "keepalive" PROVE Nums(At'["reader"]) = {} /\ Once(At'["reader"])
  BY <1>3, <1>7 DEF Without, Nums, Once
<1>8. \A r \in Places : Once(At'[r])
  BY <1>3, <1>5, <1>6, <1>7 DEF FsEcho
<1>9. \A r \in Places : r # "reader" => Nums(At'[r]) \subseteq Nums(At[r])
  BY <1>1, <1>3, <1>5
<1>10. CASE f.kind = "keepalive"
  <2>1. PICK n : n = f.n
    OBVIOUS
  <2>2. n \in Nums(At["wire"]) /\ Nums(At'["wire"]) \subseteq Nums(At["wire"]) \ {n} /\ Nums(At'["reader"]) \subseteq Nums(At["reader"]) \cup {n}
    BY <1>1, <1>3, <1>5, <1>6, <1>10, <2>1
  <2>3. kaPending'["dialler"] = kaPending["dialler"]
    BY <1>0
  <2>4. PICK p \in Places, q \in Places : p = "wire" /\ q = "reader" /\ p # q
    BY AtNames
  <2>5. /\ n \in Nums(At[p]) /\ Nums(At'[p]) \subseteq Nums(At[p]) \ {n} /\ Nums(At'[q]) \subseteq Nums(At[q]) \cup {n}
        /\ \A r \in Places : r # q => Nums(At'[r]) \subseteq Nums(At[r])
    BY <1>9, <2>2, <2>4
  <2> QED
    BY <1>8, <2>3, <2>4, <2>5, NumbersMove
<1>11. CASE f.kind # "keepalive"
  <2>1. \A r \in Places : Once(At'[r]) /\ Nums(At'[r]) \subseteq Nums(At[r])
    BY <1>7, <1>8, <1>9, <1>11
  <2>2. \A r \in Places : Nums(At'[r]) \subseteq kaPending'["dialler"]
    BY <1>0, <2>1 DEF FsEcho
  <2> QED
    BY <2>1, <2>2, NumbersShrink
<1> QED
  BY <1>10, <1>11

LEMMA DiallerEcho ==
  ASSUME FsCore, FsTasks, FsEcho, TakePacket("dialler")
  PROVE  /\ FsEcho'
         /\ Head(wire["acceptor"]).kind = "keepalive" => Head(wire["acceptor"]).n \in kaPending["dialler"]
<1>b. /\ At["ping"] = writers["dialler"]["ping"].out /\ At["buffer"] = bw["dialler"] /\ At["wire"] = wire["dialler"]
      /\ At["reader"] = writers["acceptor"]["reader"].out /\ At["bufferBack"] = bw["acceptor"]
      /\ At["wireBack"] = wire["acceptor"] /\ At["wireBack"] \in Seq(Part) /\ "wireBack" \in Places
  BY AtTypes, AtNames
<1>1. PICK s \in Seq(Part) : s = At["wireBack"] /\ s # <<>>
  <2>1. wire["acceptor"] # <<>>
    BY Ends DEF TakePacket
  <2> QED
    BY <1>b, <2>1
<1>2. PICK f \in Part : f = Head(s)
  BY <1>1
<1>3. Once(s) /\ Nums(s) \subseteq kaPending["dialler"]
  BY <1>1, <1>b DEF FsEcho
<1>4. /\ Nums(Tail(s)) = IF f.kind = "keepalive" THEN Nums(s) \ {f.n} ELSE Nums(s)
      /\ f.kind = "keepalive" => f.n \in Nums(s)
      /\ Once(Tail(s))
  BY <1>1, <1>2, <1>3, NumsTail
<1>5. Head(wire["acceptor"]).kind = "keepalive" => Head(wire["acceptor"]).n \in kaPending["dialler"]
  BY <1>1, <1>2, <1>3, <1>4, <1>b
<1>6. LET g == Head(wire["acceptor"]) IN
      /\ bw' = bw
      /\ kaPending'["dialler"] = IF g.kind = "keepalive" THEN kaPending["dialler"] \ {g.n} ELSE kaPending["dialler"]
      /\ wire'["acceptor"] = Tail(wire["acceptor"]) /\ wire'["dialler"] = wire["dialler"]
      /\ \A x \in End, v \in TaskNames : x # "dialler" \/ v # "reader" => writers'[x][v] = writers[x][v]
  BY <1>5, DiallerTakes
<1>7. /\ kaPending'["dialler"] = IF f.kind = "keepalive" THEN kaPending["dialler"] \ {f.n} ELSE kaPending["dialler"]
      /\ At'["wireBack"] = Tail(s) /\ \A r \in Places : r # "wireBack" => At'[r] = At[r]
  <2>1. "dialler" \in End /\ "acceptor" \in End /\ "ping" \in TaskNames /\ "reader" \in TaskNames
    BY DEF End, TaskNames
  <2> QED
    BY <1>1, <1>2, <1>6, <1>b, <2>1, AtPrimed
<1>8. \A r \in Places : Once(At'[r]) /\ Nums(At'[r]) \subseteq Nums(At[r])
  BY <1>1, <1>4, <1>7 DEF FsEcho
<1>9. ASSUME NEW r \in Places PROVE Nums(At'[r]) \subseteq kaPending'["dialler"]
  <2>1. Nums(At'[r]) \subseteq kaPending["dialler"]
    BY <1>8 DEF FsEcho
  <2>2. ASSUME f.kind = "keepalive" PROVE f.n \notin Nums(At'[r])
    <3>1. CASE r = "wireBack"
      BY <1>4, <1>7, <2>2, <3>1
    <3>2. CASE r # "wireBack"
      <4>1. Nums(At[r]) \cap Nums(At["wireBack"]) = {}
        BY <1>b, <3>2 DEF FsEcho
      <4> QED
        BY <1>1, <1>4, <1>8, <2>2, <4>1
    <3> QED
      BY <3>1, <3>2
  <2> QED
    BY <1>7, <2>1, <2>2
<1>10. FsEcho'
  BY <1>8, <1>9, NumbersShrink
<1> QED
  BY <1>5, <1>10

\* A query is on its way, or is being resolved, for each that has been written.
FsQueries ==
    Queries(wire["dialler"]) + Queries(bw["dialler"]) + Queries(writers["dialler"]["query"].out) + resolving["acceptor"] <= writes

LEMMA QueriesThere ==
  ASSUME FsCore
  PROVE  /\ wire["dialler"] \in Seq(Part) /\ bw["dialler"] \in Seq(Part) /\ writers["dialler"]["query"].out \in Seq(Part)
         /\ Queries(wire["dialler"]) \in Nat /\ Queries(bw["dialler"]) \in Nat /\ Queries(writers["dialler"]["query"].out) \in Nat
         /\ resolving["acceptor"] \in Nat /\ writes \in Nat /\ Queries(<<>>) = 0
         /\ "dialler" \in End /\ "acceptor" \in End /\ "query" \in TaskNames
<1>1. "dialler" \in End /\ "acceptor" \in End /\ "query" \in TaskNames
  BY DEF End, TaskNames
<1>2. /\ wire["dialler"] \in Seq(Part) /\ bw["dialler"] \in Seq(Part) /\ writers["dialler"]["query"].out \in Seq(Part)
  BY <1>1, HeldTypes DEF FsCore
<1>3. /\ Queries(wire["dialler"]) \in Nat /\ Queries(bw["dialler"]) \in Nat /\ Queries(writers["dialler"]["query"].out) \in Nat
  <2>1. \A s \in Seq(Part) : Queries(s) \in Nat
    BY QueriesType
  <2> QED
    BY <1>2, <2>1
<1>4. resolving["acceptor"] \in Nat /\ writes \in Nat
  BY <1>1, StreamNumbers DEF FsCore, FsTypes
<1>5. Queries(<<>>) = 0
  BY WithoutEmpty, WithoutShows
<1> QED
  BY <1>1, <1>2, <1>3, <1>4, <1>5

LEMMA OneQuery == Queries(WrittenAs("dns", 0)) = 1
<1>1. /\ Len(WrittenAs("dns", 0)) = 3
      /\ \A j \in 1 .. 3 : WrittenAs("dns", 0)[j] = [kind |-> "dns", n |-> 0, i |-> j, of |-> 3]
  BY DEF WrittenAs
<1>2. Lasts(WrittenAs("dns", 0)) = {3}
  BY <1>1 DEF Lasts
<1> QED
  BY <1>2, FS_Singleton DEF Queries

\* The head of one goes behind the other.
LEMMA QueryPasses ==
  ASSUME NEW s \in Seq(Part), NEW t \in Seq(Part), s # <<>>
  PROVE  Queries(Tail(s)) + Queries(Append(t, Head(s))) = Queries(s) + Queries(t) /\ Queries(Tail(s)) \in Nat
         /\ Queries(Append(t, Head(s))) \in Nat
<1>1. PICK h \in Part : h = Head(s)
  OBVIOUS
<1>2. Queries(s) = Queries(Tail(s)) + (IF h.kind = "dns" /\ h.i = h.of THEN 1 ELSE 0)
  BY <1>1, QueriesTail
<1>3. Queries(Append(t, h)) = Queries(t) + (IF h.kind = "dns" /\ h.i = h.of THEN 1 ELSE 0)
  BY QueriesAppend
<1>4. Tail(s) \in Seq(Part) /\ Append(t, h) \in Seq(Part)
  OBVIOUS
<1>5. Queries(Tail(s)) \in Nat /\ Queries(t) \in Nat /\ Queries(Append(t, h)) \in Nat /\ Queries(s) \in Nat
  BY <1>4, QueriesType
<1> QED
  BY <1>1, <1>2, <1>3, <1>5

LEMMA QueriesStep ==
  ASSUME FsCore, FsTasks, FsQueries, NEW e \in End, NEW w \in TaskNames,
         TaskStep(e, w)
  PROVE  FsQueries'
<1> USE QueriesThere
<1>1. CASE TakeLock(e, w)
  <2>1. /\ \A x \in End, v \in TaskNames : x # e \/ v # w => writers'[x][v] = writers[x][v]
        /\ UNCHANGED <<bw, wire, resolving, writes>>
        /\ \/ writers'[e][w].out = <<>> \/ writers'[e][w].out = writers[e][w].out
           \/ w = "ping"
    BY <1>1, TakeLockTask
  <2>2. writers'["dialler"]["query"].out = <<>> \/ writers'["dialler"]["query"].out = writers["dialler"]["query"].out
    BY <2>1
  <2> QED
    BY <2>1, <2>2 DEF FsQueries
<1>2. CASE WritePart(e, w)
  <2>1. /\ \A x \in End, v \in TaskNames : x # e \/ v # w => writers'[x][v] = writers[x][v]
        /\ UNCHANGED <<wire, kaPending, resolving, writes>>
        /\ writers[e][w].out \in Seq(Part) /\ writers[e][w].out # <<>> /\ writers'[e][w].out = Tail(writers[e][w].out)
        /\ bw'[e] = Append(bw[e], Head(writers[e][w].out)) /\ \A x \in End : x # e => bw'[x] = bw[x]
    BY <1>2, WritePartTask
  <2>2. CASE e = "dialler" /\ w = "query"
    <3>1. PICK s \in Seq(Part), t \in Seq(Part) : s = writers["dialler"]["query"].out /\ t = bw["dialler"]
      OBVIOUS
    <3>2. s # <<>> /\ writers'["dialler"]["query"].out = Tail(s) /\ bw'["dialler"] = Append(t, Head(s))
      BY <2>1, <2>2, <3>1
    <3>3. Queries(Tail(s)) + Queries(Append(t, Head(s))) = Queries(s) + Queries(t) /\ Queries(Tail(s)) \in Nat
          /\ Queries(Append(t, Head(s))) \in Nat
      BY <3>2, QueryPasses
    <3> QED
      BY <2>1, <3>1, <3>2, <3>3 DEF FsQueries
  <2>3. CASE e = "dialler" /\ w # "query"
    <3>1. PICK s \in Seq(Part), t \in Seq(Part) : s = writers[e][w].out /\ t = bw["dialler"] /\ s # <<>>
      BY <2>1
    <3>2. Without("dns", s)
      BY <2>3, <3>1, TaskStands DEF Quiet
    <3>3. PICK h \in Part : h = Head(s) /\ h.kind # "dns"
      <4>1. Head(s) \in Part
        BY <3>1
      <4> QED
        BY <3>1, <3>2, <4>1, WithoutIs
    <3>4. bw'["dialler"] = Append(t, h) /\ Queries(Append(t, h)) = Queries(t) /\ writers'["dialler"]["query"] = writers["dialler"]["query"]
      <4>1. Queries(Append(t, h)) = Queries(t) + 0
        BY <3>3, QueriesAppend
      <4>2. Queries(t) \in Nat
        BY <3>1
      <4> QED
        BY <2>1, <2>3, <3>1, <3>3, <4>1, <4>2
    <3> QED
      BY <2>1, <3>1, <3>4 DEF FsQueries
  <2>4. CASE e # "dialler"
    BY <2>1, <2>4 DEF FsQueries
  <2> QED
    BY <2>2, <2>3, <2>4
<1>3. CASE FlushPart(e, w)
  <2>1. /\ UNCHANGED <<writers, kaPending, resolving, writes>>
        /\ bw[e] # <<>>
        /\ \/ wire' = wire /\ bw'[e] = <<>>
           \/ wire'[e] = Append(wire[e], Head(bw[e])) /\ bw'[e] = Tail(bw[e])
        /\ \A x \in End : x # e => bw'[x] = bw[x] /\ wire'[x] = wire[x]
    BY <1>3, FlushPartTask
  <2>2. CASE e # "dialler"
    BY <2>1, <2>2 DEF FsQueries
  <2>3. CASE e = "dialler" /\ wire' = wire /\ bw'[e] = <<>>
    BY <2>1, <2>3 DEF FsQueries
  <2>4. CASE e = "dialler" /\ wire'[e] = Append(wire[e], Head(bw[e])) /\ bw'[e] = Tail(bw[e])
    <3>1. PICK s \in Seq(Part), t \in Seq(Part) : s = bw["dialler"] /\ t = wire["dialler"] /\ s # <<>>
      BY <2>1, <2>4
    <3>2. bw'["dialler"] = Tail(s) /\ wire'["dialler"] = Append(t, Head(s))
      BY <2>4, <3>1
    <3>3. Queries(Tail(s)) + Queries(Append(t, Head(s))) = Queries(s) + Queries(t) /\ Queries(Tail(s)) \in Nat
          /\ Queries(Append(t, Head(s))) \in Nat
      BY <3>1, QueryPasses
    <3> QED
      BY <2>1, <3>1, <3>2, <3>3 DEF FsQueries
  <2> QED
    BY <2>1, <2>2, <2>3, <2>4
<1>4. CASE Unlock(e, w)
  <2>1. /\ UNCHANGED <<bw, kaPending, resolving, writes>>
        /\ writers'["dialler"]["query"].out = writers["dialler"]["query"].out
        /\ wire'["dialler"] = wire["dialler"] \/ wire'["dialler"] = <<>>
    BY <1>4, UnlockTask
  <2> QED
    BY <2>1 DEF FsQueries
<1> QED
  BY <1>1, <1>2, <1>3, <1>4 DEF TaskStep

LEMMA QueriesOthers ==
  ASSUME FsCore, FsTasks, FsEcho, FsQueries, NEW e \in End, NEW w \in TaskNames,
         StartWrite(e, w) \/ StartPing(e) \/ Resolved(e) \/ StartClose(e) \/ TakePacket(e) \/ NetworkDrops
  PROVE  FsQueries'
<1> USE QueriesThere
<1>1. CASE StartWrite(e, w) \/ StartPing(e) \/ Resolved(e) \/ StartClose(e)
  <2>1. /\ UNCHANGED <<bw, wire, kaPending>>
        /\ \/ /\ writers'["dialler"]["query"].out = writers["dialler"]["query"].out
              /\ writes' \in {writes, writes + 1} /\ resolving'["acceptor"] \in {resolving["acceptor"], resolving["acceptor"] - 1}
           \/ /\ writers["dialler"]["query"].out = <<>> /\ writers'["dialler"]["query"].out = WrittenAs("dns", 0)
              /\ writes' = writes + 1 /\ resolving' = resolving
    BY <1>1, StartsTask
  <2>2. bw'["dialler"] = bw["dialler"] /\ wire'["dialler"] = wire["dialler"]
    BY <2>1
  <2>3. CASE /\ writers'["dialler"]["query"].out = writers["dialler"]["query"].out
             /\ writes' \in {writes, writes + 1} /\ resolving'["acceptor"] \in {resolving["acceptor"], resolving["acceptor"] - 1}
    BY <2>2, <2>3 DEF FsQueries
  <2>4. CASE /\ writers["dialler"]["query"].out = <<>> /\ writers'["dialler"]["query"].out = WrittenAs("dns", 0)
             /\ writes' = writes + 1 /\ resolving' = resolving
    <3>1. Queries(writers["dialler"]["query"].out) = 0 /\ Queries(writers'["dialler"]["query"].out) = 1
      BY <2>4, OneQuery
    <3> QED
      BY <2>2, <2>4, <3>1 DEF FsQueries
  <2> QED
    BY <2>1, <2>3, <2>4
<1>2. CASE e = "acceptor" /\ TakePacket(e)
  <2>1. LET f == Head(wire["dialler"]) IN
        /\ UNCHANGED <<bw, writes>> /\ wire["dialler"] # <<>>
        /\ wire'["dialler"] = Tail(wire["dialler"])
        /\ \A v \in TaskNames : writers'["dialler"][v] = writers["dialler"][v]
        /\ resolving'["acceptor"] = resolving["acceptor"] + (IF f.kind = "dns" /\ f.i = f.of THEN 1 ELSE 0)
    BY <1>2, AcceptorTakes
  <2>2. PICK s \in Seq(Part) : s = wire["dialler"] /\ s # <<>>
    BY <2>1
  <2>3. Queries(s) = Queries(Tail(s)) + (IF Head(s).kind = "dns" /\ Head(s).i = Head(s).of THEN 1 ELSE 0)
    BY <2>2, QueriesTail
  <2>4. Queries(Tail(s)) \in Nat
    <3>1. Tail(s) \in Seq(Part)
      BY <2>2
    <3> QED
      BY <3>1, QueriesType
  <2>5. wire'["dialler"] = Tail(s) /\ resolving'["acceptor"] = resolving["acceptor"] + (IF Head(s).kind = "dns" /\ Head(s).i = Head(s).of THEN 1 ELSE 0)
        /\ writers'["dialler"]["query"] = writers["dialler"]["query"]
    BY <2>1, <2>2
  <2> QED
    BY <2>1, <2>2, <2>3, <2>4, <2>5 DEF FsQueries
<1>3. CASE e = "dialler" /\ TakePacket(e)
  <2>1. /\ UNCHANGED <<bw, resolving, writes>> /\ wire'["dialler"] = wire["dialler"]
        /\ writers'["dialler"]["query"] = writers["dialler"]["query"]
    BY <1>3, DiallerTakes, DiallerEcho
  <2> QED
    BY <2>1 DEF FsQueries
<1>4. CASE NetworkDrops
  <2>1. UNCHANGED <<bw, writers, resolving, writes>> /\ wire'["dialler"] = <<>>
    BY <1>4 DEF NetworkDrops
  <2> QED
    BY <2>1 DEF FsQueries
<1>5. e \in {"dialler", "acceptor"}
  BY DEF End
<1> QED
  BY <1>1, <1>2, <1>3, <1>4, <1>5

FsInv == FsCore /\ FsTasks /\ FsEcho /\ FsQueries

LEMMA FsInvInit == FsInit => FsInv
<1> SUFFICES ASSUME FsInit PROVE FsInv
  OBVIOUS
<1>1. FsCore
  BY FsCoreInit
<1>2. /\ bw = [e \in End |-> <<>>] /\ wire = [e \in End |-> <<>>]
      /\ \A e \in End, w \in TaskNames : writers[e][w].out = <<>> /\ writers[e][w].pc = "idle"
      /\ "dialler" \in End /\ "acceptor" \in End
      /\ "ping" \in TaskNames /\ "answer" \in TaskNames /\ "reader" \in TaskNames /\ "query" \in TaskNames
  BY DEF FsInit, NothingToWrite, End, TaskNames
<1>3. FsTasks
  BY <1>2, WithoutEmpty DEF FsInit, FsTasks, Quiet
<1>4. \A p \in Places : At[p] = <<>>
  BY <1>2 DEF At
<1>5. FsEcho
  BY <1>4, NumsEmpty DEF FsEcho
<1>6. Queries(<<>>) = 0 /\ resolving["acceptor"] = 0 /\ writes = 0
  BY <1>1, <1>2, QueriesThere DEF FsInit
<1>7. FsQueries
  BY <1>2, <1>6 DEF FsQueries
<1> QED
  BY <1>1, <1>3, <1>5, <1>7 DEF FsInv

LEMMA FsInvStep == FsInv /\ [FsNext]_fsVars => FsInv'
<1> SUFFICES ASSUME FsInv, [FsNext]_fsVars PROVE FsInv'
  OBVIOUS
<1>0. FsCore /\ FsTasks /\ FsEcho /\ FsQueries
  BY DEF FsInv
<1>1. FsCore'
  BY <1>0, FsCoreNext
<1>2. ASSUME NEW e \in End, NEW w \in TaskNames, StartWrite(e, w) \/ StartPing(e) \/ Resolved(e) \/ StartClose(e)
      PROVE  FsTasks' /\ FsEcho' /\ FsQueries'
  BY <1>0, <1>2, StartsTask, StartsEcho, QueriesOthers
<1>3. ASSUME NEW e \in End, NEW w \in TaskNames, TaskStep(e, w)
      PROVE  FsTasks' /\ FsEcho' /\ FsQueries'
  <2>1. FsQueries'
    BY <1>0, <1>3, QueriesStep
  <2>2. CASE TakeLock(e, w)
    BY <1>0, <2>1, <2>2, TakeLockTask, TakeLockEcho
  <2>3. CASE WritePart(e, w)
    BY <1>0, <2>1, <2>3, WritePartTask, WritePartEcho
  <2>4. CASE FlushPart(e, w)
    BY <1>0, <2>1, <2>4, FlushPartTask, FlushPartEcho
  <2>5. CASE Unlock(e, w)
    BY <1>0, <2>1, <2>5, UnlockTask, UnlockEcho
  <2> QED
    BY <1>3, <2>2, <2>3, <2>4, <2>5 DEF TaskStep
<1>4. ASSUME NEW e \in End, TakePacket(e) PROVE FsTasks' /\ FsEcho' /\ FsQueries'
  <2>1. PICK w \in TaskNames : TRUE
    BY DEF TaskNames
  <2>2. FsQueries'
    BY <1>0, <1>4, <2>1, QueriesOthers
  <2>3. CASE e = "acceptor"
    BY <1>0, <1>4, <2>2, <2>3, AcceptorTakes, AcceptorEcho
  <2>4. CASE e = "dialler"
    BY <1>0, <1>4, <2>2, <2>4, DiallerTakes, DiallerEcho
  <2> QED
    BY <2>3, <2>4 DEF End
<1>5. ASSUME NetworkDrops PROVE FsTasks' /\ FsEcho' /\ FsQueries'
  <2>1. PICK e \in End, w \in TaskNames : TRUE
    BY DEF TaskNames, End
  <2> QED
    BY <1>0, <1>5, <2>1, QueriesOthers, DropsEcho
<1>6. ASSUME UNCHANGED fsVars PROVE FsTasks' /\ FsEcho' /\ FsQueries'
  <2>1. UNCHANGED <<bw, wire, writers, kaPending, kaSeq, resolving, writes>>
    BY <1>6 DEF fsVars
  <2>2. \A p \in Places : At'[p] = At[p]
    BY <2>1 DEF At
  <2> QED
    BY <1>0, <2>1, <2>2 DEF FsTasks, FsEcho, FsQueries
<1>7. "ping" \in TaskNames
  BY DEF TaskNames
<1>8. FsTasks' /\ FsEcho' /\ FsQueries'
  BY <1>2, <1>3, <1>4, <1>5, <1>6, <1>7 DEF FsNext
<1> QED
  BY <1>1, <1>8 DEF FsInv

\* What the parts of the stream's invariant show of it.
LEMMA FsInvShows == FsInv => FsTypeOK /\ FramesWhole /\ EchoedOnce
<1> SUFFICES ASSUME FsInv PROVE FsTypeOK /\ FramesWhole /\ EchoedOnce
  OBVIOUS
<1>0. FsCore /\ FsTasks /\ FsEcho /\ FsQueries
  BY DEF FsInv
<1>1. FramesWhole
  BY <1>0, WholeShows DEF FsCore
<1>2. ASSUME NEW s \in Seq(Part) PROVE Range(s) \subseteq Part
  BY DEF Range
<1>3. FsTypeOK
  <2>1. resolving \in [End -> 0 .. MaxWrites]
    <3>1. resolving["acceptor"] <= writes /\ resolving["acceptor"] \in Nat /\ writes \in 0 .. MaxWrites /\ MaxWrites \in Nat
      <4>1. writes \in 0 .. MaxWrites
        BY <1>0 DEF FsCore, FsTypes
      <4> QED
        BY <1>0, <4>1, QueriesThere, StreamNumbers DEF FsQueries
    <3>2. resolving["acceptor"] \in 0 .. MaxWrites /\ resolving["dialler"] \in 0 .. MaxWrites
      BY <1>0, <3>1 DEF FsTasks
    <3> QED
      BY <1>0, <3>2 DEF FsCore, FsTypes, End
  <2>2. ASSUME NEW e \in End PROVE Range(bw[e]) \cup Range(wire[e]) \subseteq Part
    <3>1. bw[e] \in Seq(Part) /\ wire[e] \in Seq(Part)
      BY <1>0, HeldTypes DEF FsCore
    <3>2. Range(bw[e]) \subseteq Part /\ Range(wire[e]) \subseteq Part
      BY <1>2, <3>1
    <3> QED
      BY <3>2
  <2>3. ASSUME NEW e \in End, NEW w \in TaskNames
        PROVE  writers[e][w].pc \in {"idle", "wait", "write", "flush", "over"} /\ Range(writers[e][w].out) \subseteq Part
    <3>1. writers[e][w].out \in Seq(Part)
      BY <1>0, HeldTypes DEF FsCore
    <3>2. writers[e][w].pc \in PCs
      BY <1>0 DEF FsCore, FsTypes
    <3> QED
      BY <1>2, <3>1, <3>2 DEF PCs
  <2> QED
    BY <1>0, <2>1, <2>2, <2>3 DEF FsTypeOK, FsCore, FsTypes, FsFlags
<1>4. EchoedOnce
  <2> SUFFICES ASSUME NEW e \in End, NEW j \in InFlight(e)
               PROVE  \/ Out(e)[j].n \in kaPending[e] /\ Out(e)[j].n \notin kaPending[Other(e)] /\ e \in Pings
                      \/ Out(e)[j].n \in kaPending[Other(e)] /\ e \notin Pings
    BY DEF EchoedOnce
  <2>1. PICK s \in Seq(Part), t \in Seq(Part) : s = wire[e] /\ t = bw[e]
    BY <1>0, HeldTypes DEF FsCore
  <2>2. Out(e) = s \o t
    BY <2>1 DEF Out
  <2>3. Nums(s) \subseteq kaPending["dialler"] /\ Nums(t) \subseteq kaPending["dialler"]
    <3>1. /\ At["buffer"] = bw["dialler"] /\ At["wire"] = wire["dialler"]
          /\ At["bufferBack"] = bw["acceptor"] /\ At["wireBack"] = wire["acceptor"]
      BY <1>0, AtTypes
    <3>2. \A p \in {"buffer", "wire", "bufferBack", "wireBack"} : Nums(At[p]) \subseteq kaPending["dialler"]
      BY <1>0, AtNames DEF FsEcho
    <3> QED
      BY <2>1, <3>1, <3>2 DEF End
  <2>4. (s \o t)[j].n \in Nums(s) \cup Nums(t)
    <3>1. /\ j \in 1 .. Len(s \o t) /\ (s \o t)[j].kind = "keepalive"
      BY <2>2 DEF InFlight
    <3>2. /\ Len(s) \in Nat /\ Len(t) \in Nat /\ Len(s \o t) = Len(s) + Len(t)
          /\ (s \o t)[j] = IF j <= Len(s) THEN s[j] ELSE t[j - Len(s)]
      BY <3>1
    <3>3. CASE j <= Len(s)
      <4>1. j \in 1 .. Len(s) /\ (s \o t)[j] = s[j]
        BY <3>1, <3>2, <3>3
      <4> QED
        BY <3>1, <4>1 DEF Nums
    <3>4. CASE ~(j <= Len(s))
      <4>1. j - Len(s) \in 1 .. Len(t) /\ (s \o t)[j] = t[j - Len(s)]
        BY <3>1, <3>2, <3>4
      <4> QED
        BY <3>1, <4>1 DEF Nums
    <3> QED
      BY <3>3, <3>4
  <2>5. Out(e)[j].n \in kaPending["dialler"] /\ kaPending["acceptor"] = {}
    BY <1>0, <2>2, <2>3, <2>4 DEF FsTasks
  <2> QED
    BY <2>5, Ends DEF End, Pings
<1> QED
  BY <1>1, <1>3, <1>4

(***************************************************************************)
(* The path trace.                                                         *)
(***************************************************************************)
FrameFields == {"reply", "auto", "nonce", "hop", "orig", "route", "dst", "at", "passes"}
TraceFields == {"route", "auto", "round", "got", "recv", "calm"}

\* A route visits other nodes than the source, each once.
RouteOk(r) ==
    /\ r \in Seq(TraceNodes) /\ Len(r) \in 1 .. Cardinality(TraceNodes)
    /\ \A i, j \in DOMAIN r : r[i] = r[j] => i = j
    /\ \A i \in DOMAIN r : r[i] # TraceSource

\* The way back from a hop of the route that is traced, and the link to a hop.
Back(k) == [i \in 1 .. k |-> IF i < k THEN trace.route[k - i] ELSE TraceSource]
Link(i) == {trace.route[i - 1], trace.route[i]}

PtShape ==
    /\ DOMAIN trace = TraceFields /\ trace.round \in 0 .. TraceRounds /\ relinks \in 0 .. MaxRelinks /\ joined \subseteq Pairs
    /\ waiter \in {0, trace.round} /\ (waiter = 0 => replies = {})
    /\ trace.round = 0 => inFlight = {} /\ trace.route = <<>>
    /\ trace.round > 0 => RouteOk(trace.route)
    /\ trace.got \subseteq DOMAIN trace.route /\ replies \subseteq DOMAIN trace.route /\ trace.got \cap replies = {}
    /\ trace.recv \in [DOMAIN trace.route -> Nat]
    /\ \A i \in DOMAIN trace.recv : trace.recv[i] <= trace.round /\ (i \notin trace.got => trace.recv[i] <= trace.round - 1)

\* A request is addressed to the next hop, and relayed only on its way to the first; a
\* reply to the source, or along the way back of its hop.
Way(f) ==
    /\ DOMAIN f = FrameFields /\ f.nonce \in 1 .. trace.round /\ f.auto = trace.auto
    /\ f.at \in TraceNodes /\ f.passes \in 0 .. MaxProbeHops /\ f.hop \in Nat
    /\ ~f.reply => /\ f.route = trace.route /\ f.hop < Len(trace.route) /\ f.dst = trace.route[f.hop + 1]
                   /\ f.hop > 0 => f.at = f.dst
    /\ f.reply => /\ f.orig \in DOMAIN trace.route
                  /\ f.auto => f.dst = TraceSource
                  /\ ~f.auto => f.route = Back(f.orig) /\ f.hop < f.orig /\ f.dst = Back(f.orig)[f.hop + 1]
PtFrames == \A f \in inFlight : Way(f)

\* Of the round that somebody waits for there is one request, and a reply of each hop that
\* it has passed, on its way or come back.
PtOnce ==
    /\ \A f, g \in inFlight : f.nonce = waiter /\ g.nonce = waiter =>
         /\ ~f.reply /\ ~g.reply => f = g
         /\ f.reply /\ g.reply /\ f.orig = g.orig => f = g
         /\ f.reply /\ ~g.reply => f.orig <= g.hop
    /\ \A f \in inFlight : f.nonce = waiter =>
         /\ f.reply => f.orig \notin trace.got \cup replies
         /\ ~f.reply => \A i \in trace.got \cup replies : i <= f.hop

\* While no link changes, it has passed the links before them.
PtTrue ==
    trace.calm =>
        /\ \A i \in trace.got \cup replies : i > 1 => Link(i) \in joined
        /\ \A f \in inFlight : f.nonce = waiter =>
             /\ f.reply /\ f.orig > 1 => Link(f.orig) \in joined
             /\ ~f.reply /\ f.hop > 0 => Link(f.hop + 1) \in joined

\* While the links of the route hold, nothing goes astray.
Good ==
    /\ Links(trace.route) \cup {{TraceSource, trace.route[1]}} \subseteq joined
    /\ trace.auto => \A i \in DOMAIN trace.route : {TraceSource, trace.route[i]} \in joined
PtReports ==
    waiter # 0 /\ trace.calm /\ Good =>
        /\ \A f \in inFlight : f.nonce = waiter => f.at = f.dst
        /\ \A i \in DOMAIN trace.route :
             \/ i \in trace.got \cup replies
             \/ \E f \in inFlight : f.nonce = waiter /\ (IF f.reply THEN f.orig = i ELSE f.hop < i)

PtInv == PtShape /\ PtFrames /\ PtOnce /\ PtTrue /\ PtReports

LEMMA TraceNumbers ==
  /\ IsFiniteSet(TraceNodes) /\ TraceSource \in TraceNodes /\ TraceTarget \in TraceNodes /\ TraceSource # TraceTarget
  /\ TraceRounds \in Nat /\ MaxProbeHops \in Nat /\ MaxProbeHops > 0 /\ MaxRelinks \in Nat
  /\ Cardinality(TraceNodes) \in Nat /\ Cardinality(TraceNodes) >= 2
  /\ IsFiniteSet(Others) /\ Cardinality(Others) \in Nat /\ Cardinality(Others) + 1 <= Cardinality(TraceNodes)
<1>1. /\ IsFiniteSet(TraceNodes) /\ TraceSource \in TraceNodes /\ TraceTarget \in TraceNodes /\ TraceSource # TraceTarget
      /\ TraceRounds \in Nat /\ MaxProbeHops \in Nat /\ MaxProbeHops > 0 /\ MaxRelinks \in Nat
  BY TraceAssumption
<1> DEFINE S == TraceNodes \ {TraceSource}
<1>2. IsFiniteSet(S) /\ Cardinality(S) = Cardinality(TraceNodes) - 1 /\ Cardinality(TraceNodes) \in Nat
  BY <1>1, FS_RemoveElement, FS_CardinalityType
<1>3. IsFiniteSet(S \ {TraceTarget}) /\ Cardinality(S \ {TraceTarget}) = Cardinality(S) - 1 /\ Cardinality(S) \in Nat
      /\ Cardinality(S \ {TraceTarget}) \in Nat
  <2>1. TraceTarget \in S
    BY <1>1
  <2> HIDE DEF S
  <2> QED
    BY <1>2, <2>1, FS_RemoveElement, FS_CardinalityType
<1>4. S \ {TraceTarget} = Others
  BY DEF Others
<1>5. IsFiniteSet(Others) /\ Cardinality(Others) \in Nat /\ Cardinality(Others) = Cardinality(S) - 1 /\ Cardinality(S) \in Nat
      /\ Cardinality(S) = Cardinality(TraceNodes) - 1 /\ Cardinality(TraceNodes) \in Nat
  BY <1>2, <1>3, <1>4
<1> HIDE DEF S
<1>6. Cardinality(TraceNodes) >= 2 /\ Cardinality(Others) + 1 <= Cardinality(TraceNodes)
  BY <1>5
<1> QED
  BY <1>1, <1>5, <1>6

\* What is asked to be traced is a route.
LEMMA AskedRoutes == \A a \in Asked : RouteOk(a[1])
<1>1. ASSUME NEW r \in AllRoutes PROVE RouteOk(r)
  <2>1. PICK k \in 0 .. Cardinality(Others) : \E via \in Injection(1 .. k, Others) : r = Append(via, TraceTarget)
    BY DEF AllRoutes
  <2>9. PICK via \in Injection(1 .. k, Others) : r = Append(via, TraceTarget)
    BY <2>1
  <2>2. via \in [1 .. k -> Others] /\ \A i, j \in 1 .. k : via[i] = via[j] => i = j
    BY DEF Injection, IsInjective
  <2>3. k \in Nat /\ k + 1 \in 1 .. Cardinality(TraceNodes)
    BY TraceNumbers
  <2>4. via \in Seq(Others) /\ Len(via) = k
    BY <2>2, <2>3
  <2>5. /\ Len(r) = k + 1 /\ r \in Seq(TraceNodes) /\ DOMAIN r = 1 .. k + 1
        /\ \A i \in 1 .. k : r[i] = via[i]
        /\ r[k + 1] = TraceTarget
    BY <2>9, <2>2, <2>3, <2>4, TraceNumbers DEF Others
  <2>6. \A i \in 1 .. k : r[i] # TraceTarget /\ r[i] # TraceSource
    BY <2>2, <2>5 DEF Others
  <2>7. \A i \in 1 .. k + 1 : i \in 1 .. k \/ i = k + 1
    BY <2>3
  <2>8. \A i, j \in DOMAIN r : r[i] = r[j] => i = j
    BY <2>2, <2>5, <2>6, <2>7
  <2> QED
    BY <2>3, <2>5, <2>6, <2>7, <2>8, TraceNumbers DEF RouteOk
<1>2. ASSUME NEW r \in QueryRoute PROVE RouteOk(r)
  <2>1. CASE r = <<TraceTarget>>
    BY <2>1, TraceNumbers DEF RouteOk
  <2>2. CASE TraceTarget \notin Joined(TraceSource) /\ \E n \in Joined(TraceSource) : r = <<n, TraceTarget>>
    <3>1. PICK n \in TraceNodes : n # TraceTarget /\ n # TraceSource /\ r = <<n, TraceTarget>>
      BY <2>2 DEF Joined
    <3> QED
      BY <3>1, TraceNumbers DEF RouteOk
  <2> QED
    BY <2>1, <2>2 DEF QueryRoute
<1>3. \A r \in TracedRoutes : r \in AllRoutes
  BY TraceAssumption
<1>4. SUFFICES ASSUME NEW a \in Asked PROVE RouteOk(a[1])
  OBVIOUS
<1>5. (a[1] \in TracedRoutes \/ a[1] \in QueryRoute)
  BY <1>4 DEF Asked
<1> QED
  BY <1>1, <1>2, <1>3, <1>5

\* The frames that come of one frame.
Sent(f, dst, n) == [f EXCEPT !.dst = dst, !.at = n]

LEMMA AdvancedIs ==
  ASSUME NEW f, DOMAIN f = FrameFields
  PROVE  LET g == Advanced(f) IN
         /\ DOMAIN g = FrameFields /\ g.reply = f.reply /\ g.auto = f.auto /\ g.nonce = f.nonce /\ g.hop = f.hop + 1
         /\ g.orig = f.orig /\ g.route = f.route /\ g.passes = 0 /\ g.at = f.at
BY DEF Advanced, FrameFields

LEMMA ReplyIs ==
  ASSUME NEW f, DOMAIN f = FrameFields
  PROVE  LET g == Reply(f) IN
         /\ DOMAIN g = FrameFields /\ g.reply = TRUE /\ g.auto = f.auto /\ g.nonce = f.nonce /\ g.hop = 0
         /\ g.orig = f.hop /\ g.passes = f.passes /\ g.route = IF f.auto THEN <<>> ELSE WayBack(f)
BY DEF Reply, FrameFields

LEMMA PassedIs ==
  ASSUME NEW f, DOMAIN f = FrameFields
  PROVE  LET g == [f EXCEPT !.passes = @ + 1] IN
         /\ DOMAIN g = FrameFields /\ g.reply = f.reply /\ g.auto = f.auto /\ g.nonce = f.nonce /\ g.hop = f.hop
         /\ g.orig = f.orig /\ g.route = f.route /\ g.passes = f.passes + 1
BY DEF FrameFields

\* While the links hold, every step of the way back and of the way on is one of them.
LEMMA WayHolds ==
  ASSUME PtShape, RouteOk(trace.route), Good
  PROVE  /\ \A k \in DOMAIN trace.route : \A i \in 1 .. k - 1 :
              Back(k)[i + 1] # Back(k)[i] /\ Back(k)[i + 1] \in Joined(Back(k)[i])
         /\ \A k \in DOMAIN trace.route :
              /\ Back(k)[1] # trace.route[k] /\ Back(k)[1] \in Joined(trace.route[k])
              /\ k < Len(trace.route) => trace.route[k + 1] # trace.route[k] /\ trace.route[k + 1] \in Joined(trace.route[k])
              /\ trace.auto => TraceSource # trace.route[k] /\ TraceSource \in Joined(trace.route[k])
<1> DEFINE r == trace.route
<1>1. /\ r \in Seq(TraceNodes) /\ Len(r) \in Nat /\ Len(r) >= 1 /\ DOMAIN r = 1 .. Len(r)
      /\ \A i, j \in DOMAIN r : r[i] = r[j] => i = j
      /\ \A i \in DOMAIN r : r[i] # TraceSource /\ r[i] \in TraceNodes
  BY TraceNumbers DEF RouteOk
<1>2. /\ \A i \in DOMAIN r : i < Len(r) => {r[i], r[i + 1]} \in joined
      /\ {TraceSource, r[1]} \in joined
      /\ trace.auto => \A i \in DOMAIN r : {TraceSource, r[i]} \in joined
  <2>1. \A i \in DOMAIN r : i < Len(r) => {r[i], r[i + 1]} \in Links(r)
    BY <1>1 DEF Links
  <2> QED
    BY <2>1 DEF Good
<1>3. ASSUME NEW x \in TraceNodes, NEW y \in TraceNodes, {x, y} \in joined, x # y
      PROVE  x \in Joined(y) /\ y \in Joined(x)
  <2>1. {x, y} = {y, x}
    OBVIOUS
  <2> QED
    BY <1>3, <2>1 DEF Joined
<1> HIDE DEF r
<1>4. \A k \in DOMAIN r : Back(k) = [i \in 1 .. k |-> IF i < k THEN r[k - i] ELSE TraceSource]
  BY DEF Back, r
<1>5. TraceSource \in TraceNodes
  BY TraceNumbers
<1>6. ASSUME NEW k \in DOMAIN r, NEW i \in 1 .. k - 1
      PROVE  Back(k)[i + 1] # Back(k)[i] /\ Back(k)[i + 1] \in Joined(Back(k)[i])
  <2>1. k \in Nat /\ i \in Nat /\ i < k /\ i >= 1 /\ i \in 1 .. k /\ i + 1 \in 1 .. k /\ k - i \in DOMAIN r /\ k - i < Len(r)
    BY <1>1
  <2>2. Back(k)[i] = r[k - i]
    BY <1>4, <2>1
  <2>3. CASE i + 1 < k
    <3>1. k - (i + 1) \in DOMAIN r /\ k - (i + 1) < Len(r) /\ k - (i + 1) + 1 = k - i /\ k - (i + 1) # k - i
      BY <1>1, <2>1, <2>3
    <3>2. Back(k)[i + 1] = r[k - (i + 1)]
      BY <1>4, <2>1, <2>3
    <3>3. {r[k - (i + 1)], r[k - i]} \in joined /\ r[k - (i + 1)] # r[k - i]
      BY <1>1, <1>2, <2>1, <3>1
    <3> QED
      BY <1>1, <1>3, <2>1, <2>2, <3>1, <3>2, <3>3
  <2>4. CASE i + 1 = k
    <3>0. ~(i + 1 < k) /\ k - i = 1
      BY <2>1, <2>4
    <3>1. Back(k)[i + 1] = TraceSource /\ k - i = 1
      BY <1>4, <2>1, <3>0
    <3>2. r[1] # TraceSource /\ r[1] \in TraceNodes /\ {TraceSource, r[1]} \in joined
      BY <1>1, <1>2
    <3>3. TraceSource \in Joined(r[1])
      BY <1>3, <1>5, <3>2
    <3> QED
      BY <2>2, <3>1, <3>2, <3>3
  <2> QED
    BY <2>1, <2>3, <2>4
<1>7. ASSUME NEW k \in DOMAIN r
      PROVE  /\ Back(k)[1] # r[k] /\ Back(k)[1] \in Joined(r[k])
             /\ k < Len(r) => r[k + 1] # r[k] /\ r[k + 1] \in Joined(r[k])
             /\ trace.auto => TraceSource # r[k] /\ TraceSource \in Joined(r[k])
  <2>1. k \in Nat /\ k >= 1 /\ 1 \in 1 .. k
    BY <1>1
  <2>2. k < Len(r) => r[k + 1] # r[k] /\ r[k + 1] \in Joined(r[k])
      <3>1. CASE k < Len(r)
      <4>1. k + 1 \in DOMAIN r /\ k + 1 # k
        BY <1>1, <2>1, <3>1
      <4>2. r[k] # r[k + 1] /\ {r[k], r[k + 1]} \in joined /\ r[k] \in TraceNodes /\ r[k + 1] \in TraceNodes
        BY <1>1, <1>2, <3>1, <4>1
      <4> QED
        BY <1>3, <4>2
    <3> QED
      BY <3>1
  <2>3. trace.auto => TraceSource # r[k] /\ TraceSource \in Joined(r[k])
    BY <1>1, <1>2, <1>3, <1>5
  <2>4. CASE k = 1
    <3>1. Back(k)[1] = TraceSource
      BY <1>4, <2>1, <2>4
    <3> QED
      BY <1>1, <1>2, <1>3, <1>5, <2>2, <2>3, <2>4, <3>1
  <2>5. CASE k > 1
    <3>1. Back(k)[1] = r[k - 1] /\ k - 1 \in DOMAIN r /\ k - 1 < Len(r) /\ k - 1 + 1 = k /\ k - 1 # k
      BY <1>1, <1>4, <2>1, <2>5
    <3>2. {r[k - 1], r[k]} \in joined /\ r[k - 1] # r[k]
      BY <1>1, <1>2, <3>1
    <3> QED
      BY <1>1, <1>3, <2>2, <2>3, <3>1, <3>2
  <2> QED
    BY <2>1, <2>4, <2>5
<1> QED
  BY <1>6, <1>7 DEF r

\* What comes of a frame that is handled: it goes on, or it is answered and passed on, or
\* it has come back.
NewOk(f, new) ==
    /\ \A g \in new : Way(g) /\ g.nonce = f.nonce
    /\ \A g, h \in new : (g.reply <=> h.reply) => g = h
    /\ f.reply => \A g \in new : g.reply /\ g.orig = f.orig
    /\ ~f.reply => \/ \A g \in new : ~g.reply /\ g.hop = f.hop
                   \/ \A g \in new : IF g.reply THEN g.orig = f.hop + 1
                                     ELSE g.hop = f.hop + 1 /\ Link(f.hop + 2) \in joined
    /\ f.at = f.dst /\ Good =>
         /\ \A g \in new : g.at = g.dst
         /\ ~f.reply => /\ \E g \in new : g.reply /\ g.orig = f.hop + 1
                        /\ f.hop + 1 < Len(trace.route) => \E g \in new : ~g.reply /\ g.hop = f.hop + 1
Delivered(f, new) ==
    \/ replies' = replies /\ (f.at = f.dst /\ Good /\ f.reply => new # {})
    \/ f.reply /\ new = {} /\ replies' = IF waiter = f.nonce THEN replies \cup {f.orig} ELSE replies

LEMMA RelayedOk ==
  ASSUME PtShape, RouteOk(trace.route), NEW f, Way(f), f.dst # f.at, f.passes < MaxProbeHops,
         NEW news \in sendProbeFrame(f.at, [f EXCEPT !.passes = @ + 1], f.dst, FALSE)
  PROVE  NewOk(f, news)
<1>a. PICK g : g = [f EXCEPT !.passes = @ + 1]
  OBVIOUS
<1>0. DOMAIN f = FrameFields
  BY DEF Way
<1>1. /\ DOMAIN g = FrameFields /\ g.reply = f.reply /\ g.auto = f.auto /\ g.nonce = f.nonce /\ g.hop = f.hop
      /\ g.orig = f.orig /\ g.route = f.route /\ g.passes = f.passes + 1
  BY <1>0, <1>a, PassedIs
<1>2. news \in sendProbeFrame(f.at, g, f.dst, FALSE)
  BY <1>a, Zenon
<1>3. news = {} \/ \E n \in Joined(f.at) : news = {Sent(g, f.dst, n)}
  BY <1>2 DEF sendProbeFrame, Sent
<1>4. CASE news = {}
  BY <1>4 DEF NewOk
<1>5. ASSUME NEW n \in Joined(f.at), news = {Sent(g, f.dst, n)} PROVE NewOk(f, news)
  <2> DEFINE s == Sent(g, f.dst, n)
  <2>1. /\ DOMAIN s = FrameFields /\ s.reply = g.reply /\ s.auto = g.auto /\ s.nonce = g.nonce /\ s.hop = g.hop
        /\ s.orig = g.orig /\ s.route = g.route /\ s.dst = f.dst /\ s.at = n /\ s.passes = g.passes
    BY <1>1 DEF Sent, FrameFields
  <2>2. news = {s}
    BY <1>5
  <2> HIDE DEF s
  <2>3. n \in TraceNodes
    BY DEF Joined
  <2>4. f.passes + 1 \in 0 .. MaxProbeHops
    BY TraceNumbers DEF Way
  <2>5. Way(s)
    BY <1>1, <2>1, <2>3, <2>4 DEF Way
  <2> QED
    BY <1>1, <2>1, <2>2, <2>5 DEF NewOk
<1> QED
  BY <1>3, <1>4, <1>5

LEMMA PassedBackOk ==
  ASSUME PtShape, RouteOk(trace.route), NEW f, Way(f), f.dst = f.at, f.reply, ~f.auto,
         NEW n \in HopAfter(Advanced(f)), NEW news \in sendProbeFrame(f.at, Advanced(f), n, FALSE)
  PROVE  NewOk(f, news) /\ (Good => news # {})
<1>a. PICK g : g = Advanced(f)
  OBVIOUS
<1>0. DOMAIN f = FrameFields
  BY DEF Way
<1>1. /\ DOMAIN g = FrameFields /\ g.reply = f.reply /\ g.auto = f.auto /\ g.nonce = f.nonce /\ g.hop = f.hop + 1
      /\ g.orig = f.orig /\ g.route = f.route /\ g.passes = 0 /\ g.at = f.at
  BY <1>0, <1>a, AdvancedIs
<1>2. news \in sendProbeFrame(f.at, g, n, FALSE) /\ n \in HopAfter(g)
  BY <1>a
<1>b. PICK k : k = f.orig
  OBVIOUS
<1>3. k \in DOMAIN trace.route /\ f.route = Back(k) /\ f.hop \in Nat /\ f.hop < k /\ f.dst = Back(k)[f.hop + 1] /\ k \in Nat
  BY <1>b, TraceNumbers DEF Way, RouteOk
<1>4. Len(f.route) = k
  BY <1>3 DEF Back
<1>5. f.hop + 1 < k /\ n = Back(k)[f.hop + 2]
  BY <1>1, <1>2, <1>3, <1>4 DEF HopAfter
<1>6. /\ news = {} \/ \E x \in Joined(f.at) : news = {Sent(g, n, x)}
      /\ n # f.at /\ n \in Joined(f.at) => news = {Sent(g, n, n)}
  BY <1>2 DEF sendProbeFrame, Sent
<1>7. ASSUME NEW x \in TraceNodes
      PROVE  LET s == Sent(g, n, x) IN
             Way(s) /\ s.nonce = f.nonce /\ s.reply /\ s.orig = f.orig /\ s.at = x /\ s.dst = n
  <2> DEFINE s == Sent(g, n, x)
  <2>1. /\ DOMAIN s = FrameFields /\ s.reply = g.reply /\ s.auto = g.auto /\ s.nonce = g.nonce /\ s.hop = g.hop
        /\ s.orig = g.orig /\ s.route = g.route /\ s.dst = n /\ s.at = x /\ s.passes = g.passes
    BY <1>1 DEF Sent, FrameFields
  <2> HIDE DEF s
  <2>2. s.hop \in Nat /\ s.hop < k /\ s.hop + 1 = f.hop + 2 /\ 0 \in 0 .. MaxProbeHops
    BY <1>1, <1>3, <1>5, <2>1, TraceNumbers
  <2>3. Way(s)
    BY <1>1, <1>b, <1>3, <1>5, <2>1, <2>2 DEF Way
  <2> QED
    BY <1>1, <2>1, <2>3 DEF s
<1>8. Good => n # f.at /\ n \in Joined(f.at)
  <2>1. f.hop + 1 \in 1 .. k - 1 /\ f.hop + 1 + 1 = f.hop + 2
    BY <1>3, <1>5
  <2>2. f.at = Back(k)[f.hop + 1]
    BY <1>3
  <2>3. Good => Back(k)[f.hop + 1 + 1] # Back(k)[f.hop + 1] /\ Back(k)[f.hop + 1 + 1] \in Joined(Back(k)[f.hop + 1])
    BY <1>3, <2>1, WayHolds, Zenon
  <2> QED
    BY <1>5, <2>1, <2>2, <2>3
<1>9. CASE news = {}
  BY <1>6, <1>8, <1>9 DEF NewOk
<1>10. ASSUME NEW x \in Joined(f.at), news = {Sent(g, n, x)} PROVE NewOk(f, news) /\ news # {}
  <2>1. x \in TraceNodes
    BY DEF Joined
  <2> DEFINE s == Sent(g, n, x)
  <2>2. Way(s) /\ s.nonce = f.nonce /\ s.reply /\ s.orig = f.orig /\ s.at = x /\ s.dst = n
    BY <1>7, <2>1
  <2>3. Good => news = {Sent(g, n, n)} /\ n \in TraceNodes
    BY <1>6, <1>8 DEF Joined
  <2>4. Good => Sent(g, n, n).at = n /\ Sent(g, n, n).dst = n
    BY <1>7, <2>3
  <2>5. news = {s}
    BY <1>10
  <2>6. Good => s.at = s.dst
    BY <2>3, <2>4, <2>5
  <2> HIDE DEF s
  <2> QED
    BY <2>2, <2>5, <2>6 DEF NewOk
<1> QED
  BY <1>6, <1>9, <1>10

LEMMA AnsweredOk ==
  ASSUME PtShape, RouteOk(trace.route), NEW f, Way(f), f.dst = f.at, ~f.reply,
         NEW back \in SendReply(f.at, Advanced(f)), NEW on \in Forward(f.at, Advanced(f))
  PROVE  NewOk(f, back \cup on)
<1>a. PICK g : g = Advanced(f)
  OBVIOUS
<1>0. DOMAIN f = FrameFields
  BY DEF Way
<1>1. /\ DOMAIN g = FrameFields /\ g.reply = f.reply /\ g.auto = f.auto /\ g.nonce = f.nonce /\ g.hop = f.hop + 1
      /\ g.orig = f.orig /\ g.route = f.route /\ g.passes = 0 /\ g.at = f.at
  BY <1>0, <1>a, AdvancedIs
<1>b. PICK k : k = f.hop + 1
  OBVIOUS
<1>2. /\ f.hop \in Nat /\ f.hop < Len(trace.route) /\ f.route = trace.route /\ f.at = trace.route[k] /\ f.auto = trace.auto
      /\ k \in Nat /\ k >= 1 /\ k = g.hop /\ k \in DOMAIN trace.route /\ f.hop + 2 = k + 1 /\ k <= Len(trace.route)
  BY <1>1, <1>b, TraceNumbers DEF Way, RouteOk
<1>c. PICK h : h = Reply(g)
  OBVIOUS
<1>3. /\ DOMAIN h = FrameFields /\ h.reply = TRUE /\ h.auto = g.auto /\ h.nonce = g.nonce /\ h.hop = 0
      /\ h.orig = k /\ h.passes = 0 /\ h.route = IF g.auto THEN <<>> ELSE WayBack(g)
  BY <1>1, <1>2, <1>c, ReplyIs
<1>4. WayBack(g) = Back(k)
  <2>1. g.hop - 1 + 1 = k /\ g.route = trace.route
    BY <1>1, <1>2
  <2>2. \A i \in 1 .. k : (i <= g.hop - 1 <=> i < k) /\ g.hop - 1 + 1 - i = k - i
    BY <1>2
  <2> QED
    BY <2>1, <2>2 DEF WayBack, Back
<1>d. PICK d : d = IF g.auto THEN TraceSource ELSE h.route[1]
  OBVIOUS
<1>5. back \in sendProbeFrame(f.at, h, d, FALSE)
  BY <1>a, <1>c, <1>d DEF SendReply
<1>6. /\ back = {} \/ \E x \in Joined(f.at) : back = {Sent(h, d, x)}
      /\ d # f.at /\ d \in Joined(f.at) => back = {Sent(h, d, d)}
  BY <1>5 DEF sendProbeFrame, Sent
<1>7. ASSUME NEW x \in TraceNodes
      PROVE  LET s == Sent(h, d, x) IN
             Way(s) /\ s.nonce = f.nonce /\ s.reply /\ s.orig = k /\ s.at = x /\ s.dst = d
  <2> DEFINE s == Sent(h, d, x)
  <2>1. /\ DOMAIN s = FrameFields /\ s.reply = h.reply /\ s.auto = h.auto /\ s.nonce = h.nonce /\ s.hop = h.hop
        /\ s.orig = h.orig /\ s.route = h.route /\ s.dst = d /\ s.at = x /\ s.passes = h.passes
    BY <1>3 DEF Sent, FrameFields
  <2> HIDE DEF s
  <2>2. 0 \in 0 .. MaxProbeHops /\ 0 < k /\ 0 \in Nat /\ 0 + 1 = 1
    BY <1>2, TraceNumbers
  <2>3. Way(s)
    BY <1>1, <1>2, <1>3, <1>4, <1>d, <2>1, <2>2 DEF Way
  <2> QED
    BY <1>1, <1>3, <2>1, <2>3 DEF s
<1>8. Good => d # f.at /\ d \in Joined(f.at)
  <2>1. Good => /\ Back(k)[1] # trace.route[k] /\ Back(k)[1] \in Joined(trace.route[k])
                /\ trace.auto => TraceSource # trace.route[k] /\ TraceSource \in Joined(trace.route[k])
    BY <1>2, WayHolds, Zenon
  <2> QED
    BY <1>1, <1>2, <1>3, <1>4, <1>d, <2>1
<1>9. /\ \A s \in back : Way(s) /\ s.nonce = f.nonce /\ s.reply /\ s.orig = k
      /\ \A s, t \in back : s = t
      /\ Good => back # {} /\ \A s \in back : s.at = s.dst
  <2>1. CASE back = {}
    BY <1>6, <1>8, <2>1
  <2>2. ASSUME NEW x \in Joined(f.at), back = {Sent(h, d, x)}
        PROVE /\ \A s \in back : Way(s) /\ s.nonce = f.nonce /\ s.reply /\ s.orig = k
              /\ \A s, t \in back : s = t
              /\ Good => back # {} /\ \A s \in back : s.at = s.dst
    <3>1. x \in TraceNodes
      BY DEF Joined
    <3>2. PICK s : s = Sent(h, d, x)
      OBVIOUS
    <3>3. Way(s) /\ s.nonce = f.nonce /\ s.reply /\ s.orig = k /\ s.at = x /\ s.dst = d
      BY <1>7, <3>1, <3>2
    <3>4. Good => back = {Sent(h, d, d)} /\ d \in TraceNodes
      BY <1>6, <1>8 DEF Joined
    <3>5. Good => Sent(h, d, d).at = d
      BY <1>7, <3>4
    <3>6. Good => s.at = s.dst
      BY <2>2, <3>2, <3>3, <3>4, <3>5
    <3> QED
      BY <2>2, <3>2, <3>3, <3>6
  <2> QED
    BY <1>6, <2>1, <2>2
<1>10. ~g.reply
  BY <1>1
<1>11. /\ \A s \in on : /\ Way(s) /\ s.nonce = f.nonce /\ ~s.reply /\ s.hop = k /\ s.at = s.dst
                        /\ Link(k + 1) \in joined
       /\ \A s, t \in on : s = t
       /\ Good /\ k < Len(trace.route) => on # {}
  <2>1. CASE ~(k < Len(trace.route))
    <3>1. on = {}
      BY <1>1, <1>2, <1>a, <2>1 DEF Forward, HopAfter
    <3> QED
      BY <2>1, <3>1
  <2>2. CASE k < Len(trace.route)
    <3>a. PICK n : n = trace.route[k + 1]
      OBVIOUS
    <3>1. on \in sendProbeFrame(f.at, g, n, TRUE)
      BY <1>1, <1>2, <1>a, <2>2, <3>a DEF Forward, HopAfter
    <3>2. /\ on = {} \/ (n \in Joined(f.at) /\ on = {Sent(g, n, n)})
          /\ n # f.at /\ n \in Joined(f.at) => on = {Sent(g, n, n)}
      BY <3>1 DEF sendProbeFrame, Sent
    <3>3. Good => on # {}
      <4>1. Good => trace.route[k + 1] # trace.route[k] /\ trace.route[k + 1] \in Joined(trace.route[k])
        BY <1>2, <2>2, WayHolds, Zenon
      <4> QED
        BY <1>2, <3>2, <3>a, <4>1
    <3>4. CASE on = {}
      BY <3>3, <3>4
    <3>5. CASE n \in Joined(f.at) /\ on = {Sent(g, n, n)}
      <4>1. n \in TraceNodes /\ {f.at, n} \in joined
        BY <3>5 DEF Joined
      <4>2. PICK s : s = Sent(g, n, n)
        OBVIOUS
      <4>3. /\ DOMAIN s = FrameFields /\ s.reply = g.reply /\ s.auto = g.auto /\ s.nonce = g.nonce /\ s.hop = g.hop
            /\ s.orig = g.orig /\ s.route = g.route /\ s.dst = n /\ s.at = n /\ s.passes = g.passes
        BY <1>1, <4>2 DEF Sent, FrameFields
      <4>4. 0 \in 0 .. MaxProbeHops
        BY TraceNumbers
      <4>5. s.hop = k /\ s.hop + 1 = k + 1 /\ s.passes = 0 /\ s.route = trace.route
        BY <1>1, <1>2, <4>3
      <4>6. Way(s)
        BY <1>1, <1>2, <1>10, <2>2, <3>a, <4>1, <4>3, <4>4, <4>5 DEF Way
      <4>7. Link(k + 1) \in joined
        <5>1. PICK j : j = k + 1
          OBVIOUS
        <5>2. trace.route[j - 1] = f.at /\ trace.route[j] = n
          BY <1>2, <3>a, <5>1
        <5>3. Link(j) = {f.at, n}
          BY <5>2 DEF Link
        <5>4. Link(j) \in joined
          BY <4>1, <5>3
        <5> QED
          BY <5>1, <5>4
      <4> QED
        BY <1>1, <1>10, <3>3, <3>5, <4>2, <4>3, <4>5, <4>6, <4>7
    <3> QED
      BY <3>2, <3>4, <3>5
  <2> QED
    BY <2>1, <2>2
<1>12. \A s \in back \cup on : s \in back \/ s \in on
  OBVIOUS
<1> QED
  <2>1. \A s \in back \cup on : Way(s) /\ s.nonce = f.nonce
    BY <1>9, <1>11
  <2>2. \A s, t \in back \cup on : (s.reply <=> t.reply) => s = t
    BY <1>9, <1>11
  <2>3. \A s \in back \cup on : IF s.reply THEN s.orig = f.hop + 1 ELSE s.hop = f.hop + 1 /\ Link(f.hop + 2) \in joined
    BY <1>2, <1>b, <1>9, <1>11
  <2>4. Good => /\ \A s \in back \cup on : s.at = s.dst
                /\ \E s \in back \cup on : s.reply /\ s.orig = f.hop + 1
                /\ f.hop + 1 < Len(trace.route) => \E s \in back \cup on : ~s.reply /\ s.hop = f.hop + 1
    BY <1>2, <1>b, <1>9, <1>11
  <2> QED
    BY <2>1, <2>2, <2>3, <2>4 DEF NewOk

LEMMA Handled ==
  ASSUME PtShape, NEW f \in inFlight, Way(f), HandleProbeFrame(f)
  PROVE  \E new : inFlight' = (inFlight \ {f}) \cup new /\ NewOk(f, new) /\ Delivered(f, new)
<1>1. RouteOk(trace.route)
  BY DEF PtShape
<1>2. f.passes < MaxProbeHops
  BY DEF HandleProbeFrame
<1>3. CASE f.dst # f.at
  <2>1. PICK news \in sendProbeFrame(f.at, [f EXCEPT !.passes = @ + 1], f.dst, FALSE) : inFlight' = (inFlight \ {f}) \cup news /\ replies' = replies
    BY <1>3 DEF HandleProbeFrame
  <2>2. NewOk(f, news)
    BY <1>1, <1>2, <1>3, RelayedOk, Zenon
  <2> QED
    BY <1>3, <2>1, <2>2 DEF Delivered
<1>4. ASSUME f.dst = f.at, f.reply, f.auto \/ HopAfter(Advanced(f)) = {}, Answered(f), inFlight' = inFlight \ {f}
      PROVE  \E new : inFlight' = (inFlight \ {f}) \cup new /\ NewOk(f, new) /\ Delivered(f, new)
  <2>1. NewOk(f, {})
    BY <1>4 DEF NewOk
  <2>2. Delivered(f, {})
    BY <1>4 DEF Delivered, Answered, Awaits
  <2>3. inFlight' = (inFlight \ {f}) \cup {}
    BY <1>4
  <2> QED
    BY <2>1, <2>2, <2>3
<1>5. ASSUME f.dst = f.at, f.reply, ~f.auto, replies' = replies,
             NEW n \in HopAfter(Advanced(f)), NEW news \in sendProbeFrame(f.at, Advanced(f), n, FALSE),
             inFlight' = (inFlight \ {f}) \cup news
      PROVE  \E new : inFlight' = (inFlight \ {f}) \cup new /\ NewOk(f, new) /\ Delivered(f, new)
  <2>1. NewOk(f, news) /\ (Good => news # {})
    BY <1>1, <1>5, PassedBackOk, Zenon
  <2> QED
    BY <1>5, <2>1 DEF Delivered
<1>6. ASSUME f.dst = f.at, ~f.reply, replies' = replies,
             NEW back \in SendReply(f.at, Advanced(f)), NEW on \in Forward(f.at, Advanced(f)),
             inFlight' = (inFlight \ {f}) \cup back \cup on
      PROVE  \E new : inFlight' = (inFlight \ {f}) \cup new /\ NewOk(f, new) /\ Delivered(f, new)
  <2>1. NewOk(f, back \cup on)
    BY <1>1, <1>6, AnsweredOk, Zenon
  <2>2. inFlight' = (inFlight \ {f}) \cup (back \cup on)
    BY <1>6
  <2>3. Delivered(f, back \cup on)
    BY <1>6 DEF Delivered
  <2> QED
    BY <2>1, <2>2, <2>3
<1> QED
  BY <1>3, <1>4, <1>5, <1>6 DEF HandleProbeFrame

\* What is said of the frames is kept by a frame that is handled.
LEMMA HandleKeeps ==
  ASSUME PtInv, NEW f \in inFlight, HandleProbeFrame(f)
  PROVE  PtInv'
<1>1. PtShape /\ PtFrames /\ PtOnce /\ PtTrue /\ PtReports /\ Way(f)
  BY DEF PtInv, PtFrames
<1>2. UNCHANGED <<joined, trace, waiter, relinks>>
  BY DEF HandleProbeFrame
<1>3. PICK new : inFlight' = (inFlight \ {f}) \cup new /\ NewOk(f, new) /\ Delivered(f, new)
  BY <1>1, Handled, Zenon
<1>4. /\ \A g \in new : Way(g) /\ g.nonce = f.nonce
      /\ \A g, h \in new : (g.reply <=> h.reply) => g = h
      /\ f.reply => \A g \in new : g.reply /\ g.orig = f.orig
      /\ ~f.reply => \/ \A g \in new : ~g.reply /\ g.hop = f.hop
                     \/ \A g \in new : IF g.reply THEN g.orig = f.hop + 1
                                       ELSE g.hop = f.hop + 1 /\ Link(f.hop + 2) \in joined
  BY <1>3 DEF NewOk
<1>5. /\ f.nonce \in 1 .. trace.round /\ f.hop \in Nat /\ trace.round \in Nat
      /\ f.reply => f.orig \in DOMAIN trace.route
      /\ DOMAIN trace.route \subseteq Nat
  BY <1>1, TraceNumbers DEF Way, PtShape, RouteOk
<1>6. /\ \A g \in inFlight' : g \in new \/ (g \in inFlight /\ g # f)
      /\ \A g \in inFlight : g # f => g \in inFlight'
      /\ \A g \in new : g \in inFlight'
      /\ replies \subseteq replies'
      /\ \A i \in replies' : i \in replies \/ (f.reply /\ i = f.orig /\ waiter = f.nonce /\ new = {})
  BY <1>3 DEF Delivered
<1>7. \A g \in inFlight \cup new : g.hop \in Nat /\ (g.reply => g.orig \in Nat)
  BY <1>1, <1>4, <1>5 DEF PtFrames, Way
<1>8. PtShape'
  BY <1>1, <1>2, <1>5, <1>6 DEF PtShape, PtOnce, RouteOk
<1>9. PtFrames'
  <2>1. \A g \in inFlight' : Way(g)
    BY <1>1, <1>4, <1>6 DEF PtFrames
  <2> QED
    BY <1>2, <2>1 DEF PtFrames, Way, Back
<1>10. PtOnce'
  <2>1. ASSUME NEW g \in inFlight', NEW h \in inFlight', g.nonce = waiter, h.nonce = waiter
        PROVE  /\ ~g.reply /\ ~h.reply => g = h
               /\ g.reply /\ h.reply /\ g.orig = h.orig => g = h
               /\ g.reply /\ ~h.reply => g.orig <= h.hop
    <3>1. CASE g \in new /\ h \in new
      BY <1>4, <1>5, <1>7, <3>1
    <3>2. CASE g \in inFlight /\ g # f /\ h \in inFlight /\ h # f
      BY <1>1, <2>1, <3>2 DEF PtOnce
    <3>3. CASE g \in new /\ h \in inFlight /\ h # f
      <4>1. f.nonce = waiter
        BY <1>4, <2>1, <3>3
      <4>2. /\ ~f.reply /\ ~h.reply => f = h
            /\ f.reply /\ h.reply /\ f.orig = h.orig => f = h
            /\ f.reply /\ ~h.reply => f.orig <= h.hop
            /\ h.reply /\ ~f.reply => h.orig <= f.hop
        BY <1>1, <2>1, <3>3, <4>1 DEF PtOnce
      <4> QED
        BY <1>4, <1>5, <1>7, <3>3, <4>2
    <3>4. CASE h \in new /\ g \in inFlight /\ g # f
      <4>1. f.nonce = waiter
        BY <1>4, <2>1, <3>4
      <4>2. /\ ~f.reply /\ ~g.reply => f = g
            /\ f.reply /\ g.reply /\ f.orig = g.orig => f = g
            /\ f.reply /\ ~g.reply => f.orig <= g.hop
            /\ g.reply /\ ~f.reply => g.orig <= f.hop
        BY <1>1, <2>1, <3>4, <4>1 DEF PtOnce
      <4> QED
        BY <1>4, <1>5, <1>7, <3>4, <4>2
    <3> QED
      BY <1>6, <3>1, <3>2, <3>3, <3>4
  <2>2. ASSUME NEW g \in inFlight', g.nonce = waiter
        PROVE  /\ g.reply => g.orig \notin trace.got \cup replies'
               /\ ~g.reply => \A i \in trace.got \cup replies' : i <= g.hop
    <3>1. CASE g \in new
      <4>1. f.nonce = waiter /\ new # {}
        BY <1>4, <2>2, <3>1
      <4>2. /\ f.reply => f.orig \notin trace.got \cup replies
            /\ ~f.reply => \A i \in trace.got \cup replies : i <= f.hop
        BY <1>1, <4>1 DEF PtOnce
      <4>3. replies' = replies
        BY <1>6, <4>1
      <4>4. trace.got \cup replies \subseteq Nat
        BY <1>1, <1>5 DEF PtShape
      <4>5. CASE f.reply
        BY <1>4, <3>1, <4>2, <4>3, <4>5
      <4>6. CASE ~f.reply
        BY <1>4, <1>5, <1>7, <3>1, <4>2, <4>3, <4>4, <4>6
      <4> QED
        BY <4>5, <4>6
    <3>2. CASE g \in inFlight /\ g # f
      BY <1>1, <1>6, <2>2, <3>2 DEF PtOnce
    <3> QED
      BY <1>6, <3>1, <3>2
  <2> QED
    BY <1>2, <2>1, <2>2 DEF PtOnce
<1>11. PtTrue'
  <2> SUFFICES ASSUME trace.calm
               PROVE  /\ \A i \in trace.got \cup replies' : i > 1 => Link(i) \in joined
                      /\ \A g \in inFlight' : g.nonce = waiter =>
                           /\ g.reply /\ g.orig > 1 => Link(g.orig) \in joined
                           /\ ~g.reply /\ g.hop > 0 => Link(g.hop + 1) \in joined
    BY <1>2 DEF PtTrue, Link
  <2>1. /\ \A i \in trace.got \cup replies : i > 1 => Link(i) \in joined
        /\ \A g \in inFlight : g.nonce = waiter =>
             /\ g.reply /\ g.orig > 1 => Link(g.orig) \in joined
             /\ ~g.reply /\ g.hop > 0 => Link(g.hop + 1) \in joined
    BY <1>1 DEF PtTrue
  <2>2. ASSUME NEW i \in trace.got \cup replies', i > 1 PROVE Link(i) \in joined
    <3>1. CASE i \in trace.got \cup replies
      BY <2>1, <2>2, <3>1
    <3>2. CASE f.reply /\ i = f.orig /\ waiter = f.nonce
      BY <2>1, <2>2, <3>2
    <3> QED
      BY <1>6, <3>1, <3>2
  <2>3. ASSUME NEW g \in inFlight', g.nonce = waiter
        PROVE  /\ g.reply /\ g.orig > 1 => Link(g.orig) \in joined
               /\ ~g.reply /\ g.hop > 0 => Link(g.hop + 1) \in joined
    <3>1. CASE g \in inFlight
      BY <2>1, <2>3, <3>1
    <3>2. CASE g \in new
      <4>1. f.nonce = waiter
        BY <1>4, <2>3, <3>2
      <4>2. /\ f.reply /\ f.orig > 1 => Link(f.orig) \in joined
            /\ ~f.reply /\ f.hop > 0 => Link(f.hop + 1) \in joined
        BY <2>1, <4>1
      <4>3. CASE f.reply
        BY <1>4, <3>2, <4>2, <4>3
      <4>4. CASE ~f.reply /\ ~g.reply /\ g.hop = f.hop
        BY <4>2, <4>4
      <4>5. CASE ~f.reply /\ ~g.reply /\ g.hop = f.hop + 1 /\ Link(f.hop + 2) \in joined
        <5>1. g.hop + 1 = f.hop + 2
          BY <1>5, <4>5
        <5> QED
          BY <4>5, <5>1
      <4>6. CASE ~f.reply /\ g.reply /\ g.orig = f.hop + 1
        <5>1. g.orig > 1 => f.hop > 0
          BY <1>5, <4>6
        <5> QED
          BY <4>2, <4>6, <5>1
      <4> QED
        BY <1>4, <3>2, <4>3, <4>4, <4>5, <4>6
    <3> QED
      BY <1>6, <3>1, <3>2
  <2> QED
    BY <2>2, <2>3
<1>12. PtReports'
  <2> SUFFICES ASSUME waiter # 0, trace.calm, Good
               PROVE  /\ \A g \in inFlight' : g.nonce = waiter => g.at = g.dst
                      /\ \A i \in DOMAIN trace.route :
                           \/ i \in trace.got \cup replies'
                           \/ \E g \in inFlight' : g.nonce = waiter /\ (IF g.reply THEN g.orig = i ELSE g.hop < i)
    BY <1>2 DEF PtReports, Good, Links
  <2>1. /\ \A g \in inFlight : g.nonce = waiter => g.at = g.dst
        /\ \A i \in DOMAIN trace.route :
             \/ i \in trace.got \cup replies
             \/ \E g \in inFlight : g.nonce = waiter /\ (IF g.reply THEN g.orig = i ELSE g.hop < i)
    BY <1>1 DEF PtReports
  <2>2. f.nonce = waiter =>
          /\ \A g \in new : g.at = g.dst
          /\ f.reply => new # {} \/ f.orig \in replies'
          /\ ~f.reply => /\ \E g \in new : g.reply /\ g.orig = f.hop + 1
                         /\ f.hop + 1 < Len(trace.route) => \E g \in new : ~g.reply /\ g.hop = f.hop + 1
    <3>1. f.nonce = waiter => f.at = f.dst
      BY <2>1
    <3> QED
      BY <1>3, <3>1 DEF NewOk, Delivered
  <2>3. \A g \in inFlight' : g.nonce = waiter => g.at = g.dst
    BY <1>4, <1>6, <2>1, <2>2
  <2>4. ASSUME NEW i \in DOMAIN trace.route
        PROVE  \/ i \in trace.got \cup replies'
               \/ \E g \in inFlight' : g.nonce = waiter /\ (IF g.reply THEN g.orig = i ELSE g.hop < i)
    <3>1. CASE i \in trace.got \cup replies
      BY <1>6, <3>1
    <3>2. CASE \E g \in inFlight : g # f /\ g.nonce = waiter /\ (IF g.reply THEN g.orig = i ELSE g.hop < i)
      BY <1>6, <3>2
    <3>3. CASE f.nonce = waiter /\ f.reply /\ f.orig = i
      <4>1. CASE f.orig \in replies'
        BY <3>3, <4>1
      <4>2. CASE new # {}
        BY <1>4, <1>6, <3>3, <4>2
      <4> QED
        BY <2>2, <3>3, <4>1, <4>2
    <3>4. CASE f.nonce = waiter /\ ~f.reply /\ f.hop < i
      <4>1. i \in Nat /\ i <= Len(trace.route) /\ Len(trace.route) \in Nat
        BY <1>1, <1>5, TraceNumbers DEF PtShape, RouteOk
      <4>2. CASE i = f.hop + 1
        BY <1>4, <1>6, <2>2, <3>4, <4>2
      <4>3. CASE i # f.hop + 1
        <5>1. f.hop + 1 < i /\ f.hop + 1 < Len(trace.route)
          BY <1>5, <3>4, <4>1, <4>3
        <5> QED
          BY <1>4, <1>6, <2>2, <3>4, <5>1
      <4> QED
        BY <4>2, <4>3
    <3> QED
      BY <2>1, <3>1, <3>2, <3>3, <3>4
  <2> QED
    BY <2>3, <2>4
<1> QED
  BY <1>8, <1>9, <1>10, <1>11, <1>12 DEF PtInv

LEMMA PtInvInit == PtInit => PtInv
<1> SUFFICES ASSUME PtInit PROVE PtInv
  OBVIOUS
<1>1. joined \subseteq Pairs
  BY TraceAssumption DEF PtInit
<1>2. PtShape
  BY <1>1, TraceNumbers DEF PtInit, PtShape, NoTrace, TraceFields
<1> QED
  BY <1>2 DEF PtInit, PtInv, PtFrames, PtOnce, PtTrue, PtReports, NoTrace

\* The request of a round leaves the source.
LEMMA StartKeeps ==
  ASSUME PtInv, NEW r, NEW auto, RouteOk(r), StartRound(r, auto)
  PROVE  PtInv'
<1>1. PtShape /\ PtFrames
  BY DEF PtInv
<1>a. PICK k : k = trace.round + 1
  OBVIOUS
<1>b. PICK q : q = Request(r, auto, k)
  OBVIOUS
<1>2. /\ waiter = 0 /\ waiter' = k /\ replies' = {} /\ trace.round < TraceRounds /\ joined' = joined /\ relinks' = relinks
      /\ trace.round > 0 => r = trace.route /\ auto = trace.auto
  BY <1>a DEF StartRound
<1>3. PICK news \in sendProbeFrame(TraceSource, q, r[1], FALSE) : inFlight' = inFlight \cup news
  BY <1>a, <1>b DEF StartRound
<1>4. /\ DOMAIN trace' = TraceFields /\ trace'.route = r /\ trace'.auto = auto /\ trace'.round = k /\ trace'.got = {}
      /\ trace'.calm = TRUE
      /\ trace'.recv = IF trace.round = 0 THEN [i \in DOMAIN r |-> 0] ELSE trace.recv
  BY <1>1, <1>a DEF StartRound, PtShape, TraceFields
<1>5. /\ trace.round \in Nat /\ k \in Nat /\ k > 0 /\ k \in 0 .. TraceRounds /\ trace.round = k - 1
      /\ DOMAIN r = 1 .. Len(r) /\ Len(r) \in Nat /\ Len(r) >= 1 /\ r \in Seq(TraceNodes)
      /\ \A i \in DOMAIN r : i \in Nat
      /\ \A i \in DOMAIN r : r[i] # TraceSource /\ r[i] \in TraceNodes
      /\ 0 \in 0 .. MaxProbeHops /\ k \in 1 .. k /\ TraceSource \in TraceNodes
  BY <1>1, <1>2, <1>a, TraceNumbers DEF PtShape, RouteOk
<1>6. PtShape'
  <2>1. /\ trace'.recv \in [DOMAIN r -> Nat]
        /\ \A i \in DOMAIN trace'.recv : trace'.recv[i] <= k /\ trace'.recv[i] <= k - 1
    <3>1. CASE trace.round = 0
      BY <1>4, <1>5, <3>1
    <3>2. CASE trace.round # 0
      <4>1. trace'.recv = trace.recv /\ trace.route = r /\ trace.recv \in [DOMAIN r -> Nat]
        BY <1>1, <1>2, <1>4, <1>5, <3>2 DEF PtShape
      <4>2. \A i \in DOMAIN trace.recv : trace.recv[i] <= trace.round
        BY <1>1 DEF PtShape
      <4> QED
        BY <1>5, <4>1, <4>2
    <3> QED
      BY <3>1, <3>2
  <2> QED
    BY <1>1, <1>2, <1>4, <1>5, <2>1 DEF PtShape, RouteOk
<1>7. /\ news = {} \/ \E x \in Joined(TraceSource) : news = {Sent(q, r[1], x)}
      /\ r[1] # TraceSource /\ r[1] \in Joined(TraceSource) => news = {Sent(q, r[1], r[1])}
  BY <1>3 DEF sendProbeFrame, Sent
<1>8. /\ DOMAIN q = FrameFields /\ q.reply = FALSE /\ q.auto = auto /\ q.nonce = k /\ q.hop = 0
      /\ q.route = r /\ q.passes = 0
  BY <1>b DEF Request, FrameFields
<1>9. ASSUME NEW x \in TraceNodes
      PROVE  LET s == Sent(q, r[1], x) IN
             Way(s)' /\ s.nonce = k /\ ~s.reply /\ s.hop = 0 /\ s.at = x /\ s.dst = r[1]
  <2>a. PICK s : s = Sent(q, r[1], x)
    OBVIOUS
  <2>1. /\ DOMAIN s = FrameFields /\ s.reply = FALSE /\ s.auto = auto /\ s.nonce = k /\ s.hop = 0
        /\ s.route = r /\ s.passes = 0 /\ s.at = x /\ s.dst = r[1]
    BY <1>8, <2>a DEF Sent, FrameFields
  <2>2. 0 < Len(r) /\ 0 \in Nat /\ 0 + 1 = 1
    BY <1>5
  <2>3. Way(s)'
    BY <1>4, <1>5, <2>1, <2>2 DEF Way
  <2> QED
    BY <2>a, <2>1, <2>3
<1>10. Good' => r[1] # TraceSource /\ r[1] \in Joined(TraceSource)
  BY <1>2, <1>4, <1>5 DEF Good, Joined
<1>11. /\ \A s \in news : Way(s)' /\ s.nonce = k /\ ~s.reply /\ s.hop = 0
       /\ \A s, t \in news : s = t
       /\ Good' => news # {} /\ \A s \in news : s.at = s.dst
  <2>1. CASE news = {}
    BY <1>7, <1>10, <2>1
  <2>2. ASSUME NEW x \in Joined(TraceSource), news = {Sent(q, r[1], x)}
        PROVE  /\ \A s \in news : Way(s)' /\ s.nonce = k /\ ~s.reply /\ s.hop = 0
               /\ \A s, t \in news : s = t
               /\ Good' => news # {} /\ \A s \in news : s.at = s.dst
    <3>a. PICK s : s = Sent(q, r[1], x)
      OBVIOUS
    <3>1. x \in TraceNodes
      BY DEF Joined
    <3>2. Way(s)' /\ s.nonce = k /\ ~s.reply /\ s.hop = 0 /\ s.at = x /\ s.dst = r[1]
      BY <1>9, <3>1, <3>a
    <3>3. Good' => news = {Sent(q, r[1], r[1])} /\ r[1] \in TraceNodes
      BY <1>7, <1>10 DEF Joined
    <3>4. Good' => Sent(q, r[1], r[1]).at = r[1]
      BY <1>9, <3>3
    <3>5. Good' => s.at = s.dst
      BY <2>2, <3>a, <3>2, <3>3, <3>4
    <3> QED
      BY <2>2, <3>a, <3>2, <3>5
  <2> QED
    BY <1>7, <2>1, <2>2
<1>12. /\ \A s \in inFlight' : s \in inFlight \/ s \in news
       /\ \A s \in news : s \in inFlight'
       /\ \A s \in inFlight : s.nonce # k
  BY <1>1, <1>3, <1>5 DEF PtFrames, Way
<1>13. PtFrames'
  <2>1. ASSUME NEW s \in inFlight PROVE Way(s)'
    <3>1. trace.round > 0 /\ r = trace.route /\ auto = trace.auto
      BY <1>1, <1>2, <1>5 DEF PtShape
    <3>2. Way(s) /\ s.nonce \in 1 .. trace.round
      BY <1>1 DEF PtFrames, Way
    <3>3. s.nonce \in 1 .. k
      BY <1>5, <3>2
    <3>4. \A i : Back(i)' = Back(i)
      BY <1>4, <3>1 DEF Back
    <3> QED
      BY <1>4, <3>1, <3>2, <3>3, <3>4 DEF Way
  <2> QED
    BY <1>11, <1>12, <2>1 DEF PtFrames
<1>14. PtOnce'
  BY <1>2, <1>4, <1>11, <1>12 DEF PtOnce
<1>15. PtTrue'
  BY <1>2, <1>4, <1>11, <1>12 DEF PtTrue
<1>16. PtReports'
  <2>1. ASSUME Good'
        PROVE  /\ \A s \in inFlight' : s.nonce = k => s.at = s.dst
               /\ \A i \in DOMAIN r : \E s \in inFlight' : s.nonce = k /\ ~s.reply /\ s.hop < i
    BY <1>5, <1>11, <1>12, <2>1
  <2> QED
    BY <1>2, <1>4, <2>1 DEF PtReports
<1> QED
  BY <1>6, <1>13, <1>14, <1>15, <1>16 DEF PtInv

LEMMA CollectKeeps ==
  ASSUME PtInv, CollectReply
  PROVE  PtInv'
<1>1. PtShape /\ PtFrames /\ PtOnce /\ PtTrue /\ PtReports
  BY DEF PtInv
<1>2. PICK r \in replies : /\ waiter # 0 /\ replies' = replies \ {r}
                           /\ trace' = [trace EXCEPT !.got = @ \cup {r}, !.recv[r] = @ + 1]
                           /\ UNCHANGED <<joined, inFlight, waiter, relinks>>
  BY DEF CollectReply
<1>3. /\ DOMAIN trace' = TraceFields /\ trace'.route = trace.route /\ trace'.auto = trace.auto /\ trace'.round = trace.round
      /\ trace'.calm = trace.calm /\ trace'.got = trace.got \cup {r}
      /\ trace'.recv = [trace.recv EXCEPT ![r] = @ + 1]
  BY <1>1, <1>2 DEF PtShape, TraceFields
<1>4. r \in DOMAIN trace.route /\ r \notin trace.got /\ trace.recv \in [DOMAIN trace.route -> Nat] /\ trace.round \in Nat
      /\ trace'.got \cup replies' = trace.got \cup replies
  BY <1>1, <1>2, <1>3, TraceNumbers DEF PtShape
<1>5. /\ trace'.recv \in [DOMAIN trace.route -> Nat]
      /\ \A i \in DOMAIN trace'.recv : trace'.recv[i] = IF i = r THEN trace.recv[i] + 1 ELSE trace.recv[i]
  BY <1>3, <1>4
<1>6. \A i \in DOMAIN trace'.recv : trace'.recv[i] <= trace.round /\ (i \notin trace'.got => trace'.recv[i] <= trace.round - 1)
  <2>1. \A i \in DOMAIN trace.route : trace.recv[i] \in Nat /\ trace.recv[i] <= trace.round
                                      /\ (i \notin trace.got => trace.recv[i] <= trace.round - 1)
    BY <1>1, <1>4 DEF PtShape
  <2> QED
    BY <1>3, <1>4, <1>5, <2>1
<1>7. PtShape'
  BY <1>1, <1>2, <1>3, <1>4, <1>5, <1>6 DEF PtShape, RouteOk
<1>8. PtFrames'
  BY <1>1, <1>2, <1>3 DEF PtFrames, Way, Back
<1>9. PtOnce'
  BY <1>1, <1>2, <1>3, <1>4 DEF PtOnce
<1>10. PtTrue'
  <2>1. ASSUME trace.calm, NEW i \in trace'.got \cup replies', i > 1 PROVE {trace.route[i - 1], trace.route[i]} \in joined
    <3>1. i \in trace.got \cup replies
      BY <1>4, <2>1
    <3> QED
      BY <1>1, <2>1, <3>1 DEF PtTrue, Link
  <2>2. ASSUME trace.calm, NEW g \in inFlight, g.nonce = waiter
        PROVE  /\ g.reply /\ g.orig > 1 => {trace.route[g.orig - 1], trace.route[g.orig]} \in joined
               /\ ~g.reply /\ g.hop > 0 => {trace.route[(g.hop + 1) - 1], trace.route[g.hop + 1]} \in joined
    BY <1>1, <2>2 DEF PtTrue, Link
  <2> QED
    BY <1>2, <1>3, <2>1, <2>2 DEF PtTrue, Link
<1>11. PtReports'
  BY <1>1, <1>2, <1>3, <1>4 DEF PtReports, Good, Links
<1> QED
  BY <1>7, <1>8, <1>9, <1>10, <1>11 DEF PtInv

LEMMA EndKeeps ==
  ASSUME PtInv, EndRound
  PROVE  PtInv'
<1>1. PtShape /\ PtFrames /\ PtOnce /\ PtTrue /\ PtReports
  BY DEF PtInv
<1>2. waiter' = 0 /\ replies' = {} /\ UNCHANGED <<joined, inFlight, trace, relinks>>
  BY DEF EndRound
<1>3. \A f \in inFlight : f.nonce # 0
  BY <1>1, TraceNumbers DEF PtShape, PtFrames, Way
<1>4. PtShape'
  BY <1>1, <1>2 DEF PtShape, RouteOk
<1>5. PtFrames'
  BY <1>1, <1>2 DEF PtFrames, Way, Back
<1>6. PtOnce'
  BY <1>1, <1>2, <1>3 DEF PtOnce
<1>7. PtTrue'
  BY <1>1, <1>2, <1>3 DEF PtTrue, Link
<1>8. PtReports'
  BY <1>2 DEF PtReports
<1> QED
  BY <1>4, <1>5, <1>6, <1>7, <1>8 DEF PtInv

\* A link that changes and a frame that is lost end the calm of the round.
LEMMA DisturbedKeeps ==
  ASSUME PtInv, Disturbed, inFlight' \subseteq inFlight, joined' \subseteq Pairs, UNCHANGED <<waiter, replies>>
  PROVE  PtInv'
<1>1. PtShape /\ PtFrames /\ PtOnce
  BY DEF PtInv
<1>2. /\ DOMAIN trace' = TraceFields /\ trace'.route = trace.route /\ trace'.auto = trace.auto /\ trace'.round = trace.round
      /\ trace'.calm = FALSE /\ trace'.got = trace.got /\ trace'.recv = trace.recv
      /\ relinks' \in 0 .. MaxRelinks
  BY <1>1, TraceNumbers DEF Disturbed, PtShape, TraceFields
<1>3. PtShape'
  BY <1>1, <1>2 DEF PtShape, RouteOk
<1>4. PtFrames'
  BY <1>1, <1>2 DEF PtFrames, Way, Back
<1>5. PtOnce'
  BY <1>1, <1>2 DEF PtOnce
<1> QED
  BY <1>2, <1>3, <1>4, <1>5 DEF PtInv, PtTrue, PtReports

LEMMA PtInvStep == PtInv /\ [PtNext]_ptVars => PtInv'
<1> SUFFICES ASSUME PtInv, [PtNext]_ptVars PROVE PtInv'
  OBVIOUS
<1>1. ASSUME NEW a \in Asked, StartRound(a[1], a[2]) PROVE PtInv'
  <2>1. RouteOk(a[1])
    BY AskedRoutes
  <2>2. PICK r, auto : r = a[1] /\ auto = a[2]
    OBVIOUS
  <2>3. RouteOk(r) /\ StartRound(r, auto)
    BY <1>1, <2>1, <2>2
  <2> QED
    BY <2>3, StartKeeps
<1>2. ASSUME NEW f \in inFlight, HandleProbeFrame(f) PROVE PtInv'
  BY <1>2, HandleKeeps
<1>3. ASSUME NEW f \in inFlight, FrameLost(f) PROVE PtInv'
  <2>1. Disturbed /\ inFlight' \subseteq inFlight /\ joined' \subseteq Pairs /\ UNCHANGED <<waiter, replies>>
    BY <1>3 DEF FrameLost, PtInv, PtShape
  <2> QED
    BY <2>1, DisturbedKeeps
<1>4. ASSUME NEW p \in Pairs, Relink(p) PROVE PtInv'
  <2>1. Disturbed /\ inFlight' \subseteq inFlight /\ joined' \subseteq Pairs /\ UNCHANGED <<waiter, replies>>
    BY <1>4 DEF Relink, PtInv, PtShape
  <2> QED
    BY <2>1, DisturbedKeeps
<1>5. CASE CollectReply
  BY <1>5, CollectKeeps
<1>6. CASE EndRound
  BY <1>6, EndKeeps
<1>7. CASE UNCHANGED ptVars
  <2>1. UNCHANGED <<joined, inFlight, trace, waiter, replies, relinks>>
    BY <1>7 DEF ptVars
  <2>2. PtShape' /\ PtFrames'
    BY <2>1 DEF PtInv, PtShape, PtFrames, Way, Back, RouteOk
  <2>3. PtOnce' /\ PtTrue'
    BY <2>1 DEF PtInv, PtOnce, PtTrue, Link
  <2>4. PtReports'
    BY <2>1 DEF PtInv, PtReports, Good, Links
  <2> QED
    BY <2>2, <2>3, <2>4 DEF PtInv
<1> QED
  BY <1>1, <1>2, <1>3, <1>4, <1>5, <1>6, <1>7 DEF PtNext

LEMMA PtInvShows == PtInv => PtTypeOK /\ EveryHopReports /\ TraceTellsTruth
<1> SUFFICES ASSUME PtInv PROVE PtTypeOK /\ EveryHopReports /\ TraceTellsTruth
  OBVIOUS
<1>1. PtShape /\ PtFrames /\ PtTrue /\ PtReports
  BY DEF PtInv
<1>2. TraceTellsTruth
  BY <1>1 DEF TraceTellsTruth, PtTrue, PtShape, Link
<1>3. EveryHopReports
  BY <1>1 DEF EveryHopReports, PtShape, PtReports, Good
<1>4. PtTypeOK
  <2>1. replies \subseteq 1 .. Cardinality(TraceNodes)
    <3>1. CASE trace.round = 0
      BY <1>1, <3>1 DEF PtShape
    <3>2. CASE trace.round > 0
      BY <1>1, <3>2, TraceNumbers DEF PtShape, RouteOk
    <3> QED
      BY <1>1, <3>1, <3>2, TraceNumbers DEF PtShape
  <2>2. ASSUME NEW f \in inFlight PROVE f.dst \in TraceNodes
    <3>1. Way(f) /\ trace.round > 0 /\ RouteOk(trace.route)
      BY <1>1, TraceNumbers DEF PtShape, PtFrames
    <3>2. /\ trace.route \in Seq(TraceNodes) /\ Len(trace.route) \in Nat /\ DOMAIN trace.route = 1 .. Len(trace.route)
          /\ \A i \in 1 .. Len(trace.route) : trace.route[i] \in TraceNodes
      BY <3>1, TraceNumbers DEF RouteOk
    <3>3. CASE ~f.reply
      <4>1. f.hop + 1 \in 1 .. Len(trace.route) /\ f.dst = trace.route[f.hop + 1]
        BY <3>1, <3>2, <3>3 DEF Way
      <4> QED
        BY <3>2, <4>1
    <3>4. CASE f.reply /\ f.auto
      BY <3>1, <3>4, TraceNumbers DEF Way
    <3>5. CASE f.reply /\ ~f.auto
      <4>a. PICK k : k = f.orig
        OBVIOUS
      <4>1. k \in 1 .. Len(trace.route) /\ f.hop \in Nat /\ f.hop < k /\ f.dst = Back(k)[f.hop + 1]
        BY <3>1, <3>2, <3>5, <4>a DEF Way
      <4>b. PICK i : i = f.hop + 1
        OBVIOUS
      <4>2. i \in 1 .. k /\ k \in Nat /\ f.dst = Back(k)[i]
        BY <3>2, <4>1, <4>b
      <4>3. Back(k)[i] = IF i < k THEN trace.route[k - i] ELSE TraceSource
        BY <4>2 DEF Back
      <4>4. i < k => k - i \in 1 .. Len(trace.route)
        BY <3>2, <4>1, <4>2
      <4> QED
        BY <3>2, <4>2, <4>3, <4>4, TraceNumbers
    <3> QED
      BY <3>3, <3>4, <3>5
  <2> QED
    BY <1>1, <2>1, <2>2 DEF PtTypeOK, PtShape, PtFrames, Way
<1> QED
  BY <1>2, <1>3, <1>4

(***************************************************************************)
(* Sessions over relays.                                                   *)
(***************************************************************************)

\* No route is twice in a baseline, and what is remembered by index is about it.
Typed ==
    /\ baseline \in Seq(Paths)
    /\ \A i, j \in DOMAIN baseline : baseline[i] = baseline[j] => i = j
    /\ sessions \in [Sessions -> [origKey : Paths \cup {NoPath}, curIdx : Nat, shifted : BOOLEAN]]
    /\ unavail \in [Sessions -> SUBSET Nat] /\ left \in [Sessions -> SUBSET Paths] /\ idle \subseteq Sessions

\* A session has a route of the baseline for its home and is there unless it was moved;
\* it was moved because what it left is marked, and one that is forgotten was driven off
\* nothing.
Homed(s) ==
    sessions[s] # NoSession =>
        /\ sessions[s].origKey \in PathsOf(baseline) /\ sessions[s].curIdx \in DOMAIN baseline
        /\ ~sessions[s].shifted => baseline[sessions[s].curIdx] = sessions[s].origKey
LeftIsMarked(s) ==
    /\ unavail[s] \subseteq DOMAIN baseline
    /\ \A p \in left[s] : \E i \in unavail[s] : baseline[i] = p
    /\ sessions[s] = NoSession => left[s] = {}
StuckOnly(s) ==
    sessions[s] # NoSession /\ baseline[sessions[s].curIdx] \in left[s] =>
        DOMAIN baseline \ {sessions[s].curIdx} \subseteq unavail[s]

SessInv == Typed /\ \A s \in Sessions : Homed(s) /\ LeftIsMarked(s) /\ StuckOnly(s)

\* Where there are routes, one of them comes first.
LEMMA ClockwiseIn ==
    ASSUME baseline \in Seq(Paths), NEW s \in Sessions, NEW indices, indices \subseteq DOMAIN baseline, indices # {}
    PROVE  Clockwise(s, indices) \in indices
<1> DEFINE T == {RingRank[s][baseline[i]] : i \in indices}
<1>1. \A i \in indices : RingRank[s][baseline[i]] \in Nat
  BY SessionAssumption
<1>2. T \subseteq Nat /\ T # {}
  BY <1>1
<1>3. PICK x \in T : \A y \in T : ~(<<y, x>> \in OpToRel(<, Nat))
  <2> HIDE DEF T
  <2> QED BY <1>2, NatLessThanWellFounded, WFMin
<1>4. PICK i \in indices : x = RingRank[s][baseline[i]]
  OBVIOUS
<1>5. \A j \in indices : ~(RingRank[s][baseline[j]] < x)
  BY <1>1, <1>2, <1>3 DEF OpToRel
<1>6. \A j \in indices : RingRank[s][baseline[i]] <= RingRank[s][baseline[j]]
  BY <1>1, <1>4, <1>5
<1> QED
  BY <1>6 DEF Clockwise

\* A session that is used has a home and a place, and where it was new nothing is held
\* against its place.
LEMMA KnownHomed ==
    ASSUME SessInv, baseline # <<>>, NEW s \in Sessions
    PROVE  /\ Known(s) \in [origKey : Paths, curIdx : DOMAIN baseline, shifted : BOOLEAN]
           /\ Known(s).origKey \in PathsOf(baseline)
           /\ ~Known(s).shifted => baseline[Known(s).curIdx] = Known(s).origKey
           /\ baseline[Known(s).curIdx] \in left[s] => DOMAIN baseline \ {Known(s).curIdx} \subseteq unavail[s]
<1>1. CASE sessions[s] # NoSession
  <2>1. Known(s) = sessions[s]
    BY <1>1 DEF Known
  <2>2. PathsOf(baseline) \subseteq Paths
    BY DEF SessInv, Typed, PathsOf
  <2> QED
    BY <1>1, <2>1, <2>2 DEF SessInv, Typed, Homed, StuckOnly
<1>2. CASE sessions[s] = NoSession
  <2>1. DOMAIN baseline # {} /\ baseline \in Seq(Paths)
    BY DEF SessInv, Typed
  <2>2. ringPick(s) \in DOMAIN baseline
    BY <2>1, ClockwiseIn DEF ringPick
  <2>3. Known(s) = [origKey |-> baseline[ringPick(s)], curIdx |-> ringPick(s), shifted |-> FALSE]
    BY <1>2 DEF Known
  <2>4. baseline[ringPick(s)] \in Paths /\ baseline[ringPick(s)] \in PathsOf(baseline)
    BY <2>1, <2>2 DEF PathsOf
  <2>5. left[s] = {}
    BY <1>2 DEF SessInv, LeftIsMarked
  <2> QED
    BY <2>2, <2>3, <2>4, <2>5
<1> QED
  BY <1>1, <1>2

LEMMA SessInvInit == SessInit => SessInv
  BY SessionAssumption DEF SessInit, SessInv, Typed, Homed, LeftIsMarked, StuckOnly, NoSession

\* A new baseline: everybody is at home, and nothing is marked.
LEMMA SetBaselineKeeps == ASSUME SessInv, NEW b \in Baselines, SetBaseline(b) PROVE SessInv'
<1>1. b \in Seq(Paths) /\ \A i, j \in DOMAIN b : b[i] = b[j] => i = j
  BY SessionAssumption
<1>2. \A p \in PathsOf(b) : IndexOf(b, p) \in DOMAIN b /\ b[IndexOf(b, p)] = p
  BY DEF PathsOf, IndexOf
<1>3. DOMAIN b \subseteq Nat
  BY <1>1
<1>4. sessions' \in [Sessions -> [origKey : Paths \cup {NoPath}, curIdx : Nat, shifted : BOOLEAN]]
  <2> SUFFICES ASSUME NEW s \in Sessions
               PROVE  (IF sessions[s].origKey \in PathsOf(b)
                       THEN [sessions[s] EXCEPT !.curIdx = IndexOf(b, sessions[s].origKey), !.shifted = FALSE]
                       ELSE NoSession) \in [origKey : Paths \cup {NoPath}, curIdx : Nat, shifted : BOOLEAN]
    BY DEF SetBaseline
  <2>1. sessions[s] \in [origKey : Paths \cup {NoPath}, curIdx : Nat, shifted : BOOLEAN]
    BY DEF SessInv, Typed
  <2>2. CASE sessions[s].origKey \in PathsOf(b)
    <3>1. IndexOf(b, sessions[s].origKey) \in Nat
      BY <1>2, <1>3, <2>2
    <3> QED
      BY <2>1, <2>2, <3>1
  <2> QED
    BY <2>2 DEF NoSession
<1>5. Typed'
  BY <1>1, <1>4 DEF SetBaseline, SessInv, Typed
<1>6. ASSUME NEW s \in Sessions PROVE (Homed(s) /\ LeftIsMarked(s) /\ StuckOnly(s))'
  <2>1. CASE sessions[s].origKey \in PathsOf(b)
    <3>1. sessions'[s] = [sessions[s] EXCEPT !.curIdx = IndexOf(b, sessions[s].origKey), !.shifted = FALSE]
      BY <2>1 DEF SetBaseline
    <3>2. /\ sessions'[s].origKey = sessions[s].origKey /\ ~sessions'[s].shifted
          /\ sessions'[s].curIdx = IndexOf(b, sessions[s].origKey)
      BY <3>1 DEF SessInv, Typed
    <3> QED
      <4>1. baseline' = b /\ unavail'[s] = {} /\ left'[s] = {}
        BY DEF SetBaseline
      <4>2. Homed(s)'
        BY <1>2, <2>1, <3>2, <4>1 DEF Homed
      <4> QED
        BY <4>1, <4>2 DEF LeftIsMarked, StuckOnly
  <2>2. CASE sessions[s].origKey \notin PathsOf(b)
    <3>1. sessions'[s] = NoSession
      BY <2>2 DEF SetBaseline
    <3> QED
      BY <3>1 DEF SetBaseline, Homed, LeftIsMarked, StuckOnly
  <2> QED
    BY <2>1, <2>2
<1> QED
  BY <1>5, <1>6 DEF SessInv

LEMMA PickKeeps == ASSUME SessInv, NEW s \in Sessions, Pick(s) PROVE SessInv'
<1>1. DOMAIN baseline \subseteq Nat
  BY DEF SessInv, Typed
<1>2. /\ baseline # <<>> /\ baseline' = baseline /\ unavail' = unavail /\ left' = left
      /\ sessions' = [sessions EXCEPT ![s] = Known(s)] /\ idle' \subseteq idle
  BY DEF Pick
<1>3. Typed'
  BY <1>1, <1>2, KnownHomed DEF SessInv, Typed
<1>4. ASSUME NEW t \in Sessions PROVE (Homed(t) /\ LeftIsMarked(t) /\ StuckOnly(t))'
  <2>1. CASE t = s
    <3>1. sessions'[s] = Known(s)
      BY <1>2 DEF SessInv, Typed
    <3>2. Known(s) # NoSession
      BY <1>2, KnownHomed, SessionAssumption DEF NoSession
    <3> QED
      BY <1>2, <2>1, <3>1, <3>2, KnownHomed DEF SessInv, Homed, LeftIsMarked, StuckOnly
  <2>2. CASE t # s
    BY <1>2, <2>2 DEF SessInv, Typed, Homed, LeftIsMarked, StuckOnly
  <2> QED
    BY <2>1, <2>2
<1> QED
  BY <1>3, <1>4 DEF SessInv

\* The route that is left is marked, and the next one is none of the marked.
LEMMA DegradeKeeps == ASSUME SessInv, NEW s \in Sessions, Degrade(s) PROVE SessInv'
<1> DEFINE st == Known(s)
           marked == unavail[s] \cup {st.curIdx}
           exits == DOMAIN baseline \ (marked \cup {st.curIdx})
           next == IF exits = {} THEN st ELSE [st EXCEPT !.curIdx = Clockwise(s, exits), !.shifted = TRUE]
<1>1. /\ baseline # <<>> /\ baseline' = baseline
      /\ sessions' = [sessions EXCEPT ![s] = next] /\ unavail' = [unavail EXCEPT ![s] = marked]
      /\ left' = [left EXCEPT ![s] = @ \cup {baseline[st.curIdx]}] /\ idle' \subseteq idle
  BY DEF Degrade, Marked
<1>2. /\ st \in [origKey : Paths, curIdx : DOMAIN baseline, shifted : BOOLEAN]
      /\ st.origKey \in PathsOf(baseline) /\ (~st.shifted => baseline[st.curIdx] = st.origKey)
  BY <1>1, KnownHomed
<1>3. baseline \in Seq(Paths) /\ DOMAIN baseline \subseteq Nat
  BY DEF SessInv, Typed
<1>4. exits # {} => Clockwise(s, exits) \in exits
  BY <1>3, ClockwiseIn
<1>5. /\ next \in [origKey : Paths, curIdx : DOMAIN baseline, shifted : BOOLEAN]
      /\ next.origKey = st.origKey
      /\ exits = {} => next = st
      /\ exits # {} => next.shifted /\ next.curIdx \in exits
  BY <1>2, <1>4
<1> HIDE DEF st, next
<1>6. baseline[st.curIdx] \in Paths
  BY <1>2, <1>3
<1>7. Typed'
  BY <1>1, <1>2, <1>3, <1>5, <1>6 DEF SessInv, Typed
<1>8. sessions'[s] = next /\ unavail'[s] = marked /\ left'[s] = left[s] \cup {baseline[st.curIdx]}
  BY <1>1 DEF SessInv, Typed
<1>9. next # NoSession
  BY <1>5, SessionAssumption DEF NoSession
<1>10. Homed(s)'
  BY <1>1, <1>2, <1>5, <1>8 DEF Homed
<1>11. LeftIsMarked(s)'
  BY <1>1, <1>2, <1>8, <1>9 DEF SessInv, LeftIsMarked
<1>12. StuckOnly(s)'
  <2>1. CASE exits = {}
    BY <1>1, <1>5, <1>8, <2>1 DEF StuckOnly
  <2>2. CASE exits # {}
    <3>1. next.curIdx \in DOMAIN baseline /\ next.curIdx \notin unavail[s] /\ next.curIdx # st.curIdx
      BY <1>5, <2>2
    <3>2. baseline[next.curIdx] # baseline[st.curIdx]
      BY <1>2, <3>1 DEF SessInv, Typed
    <3>3. baseline[next.curIdx] \notin left[s]
      BY <3>1 DEF SessInv, Typed, LeftIsMarked
    <3> QED
      BY <1>1, <1>8, <3>2, <3>3 DEF StuckOnly
  <2> QED
    BY <2>1, <2>2
<1>13. ASSUME NEW t \in Sessions, t # s PROVE (Homed(t) /\ LeftIsMarked(t) /\ StuckOnly(t))'
  <2>1. sessions'[t] = sessions[t] /\ unavail'[t] = unavail[t] /\ left'[t] = left[t]
    BY <1>1, <1>13 DEF SessInv, Typed
  <2>2. Homed(t)'
    BY <1>1, <2>1 DEF SessInv, Homed
  <2>3. LeftIsMarked(t)'
    BY <1>1, <2>1 DEF SessInv, LeftIsMarked
  <2>4. StuckOnly(t)'
    BY <1>1, <2>1 DEF SessInv, StuckOnly
  <2> QED
    BY <2>2, <2>3, <2>4
<1> QED
  BY <1>7, <1>10, <1>11, <1>12, <1>13 DEF SessInv

LEMMA MarkUnavailableKeeps ==
    ASSUME SessInv, NEW s \in Sessions, NEW i \in DOMAIN baseline, MarkUnavailable(s, i) PROVE SessInv'
<1>1. i \in Nat
  BY DEF SessInv, Typed
<1>2. \A t \in Sessions : unavail[t] \subseteq unavail'[t] /\ unavail'[t] \subseteq unavail[t] \cup {i}
  BY DEF MarkUnavailable, SessInv, Typed
<1>3. Typed'
  BY <1>1 DEF MarkUnavailable, SessInv, Typed
<1>4. ASSUME NEW t \in Sessions PROVE (Homed(t) /\ LeftIsMarked(t) /\ StuckOnly(t))'
  BY <1>2 DEF MarkUnavailable, SessInv, Homed, LeftIsMarked, StuckOnly
<1> QED
  BY <1>3, <1>4 DEF SessInv

LEMMA SweepStaleKeeps == ASSUME SessInv, SweepStale PROVE SessInv'
<1>1. Typed'
  BY DEF SweepStale, SessInv, Typed, NoSession
<1>2. ASSUME NEW s \in Sessions PROVE (Homed(s) /\ LeftIsMarked(s) /\ StuckOnly(s))'
  <2>1. CASE s \in idle
    BY <2>1 DEF SweepStale, SessInv, Homed, LeftIsMarked, StuckOnly
  <2>2. CASE s \notin idle
    BY <2>2 DEF SweepStale, SessInv, Homed, LeftIsMarked, StuckOnly
  <2> QED
    BY <2>1, <2>2
<1> QED
  BY <1>1, <1>2 DEF SessInv

LEMMA SessInvStep == SessInv /\ [SessNext]_sessVars => SessInv'
<1> SUFFICES ASSUME SessInv, [SessNext]_sessVars PROVE SessInv'
  OBVIOUS
<1>1. CASE SessionsAge \/ UNCHANGED sessVars
  BY <1>1 DEF SessionsAge, sessVars, SessInv, Typed, Homed, LeftIsMarked, StuckOnly
<1> QED
  BY <1>1, SetBaselineKeeps, PickKeeps, DegradeKeeps, MarkUnavailableKeeps, SweepStaleKeeps DEF SessNext

LEMMA SessInvShows == SessInv => SessTypeOK /\ KeepsOffDegraded
<1> SUFFICES ASSUME SessInv PROVE SessTypeOK /\ KeepsOffDegraded
  OBVIOUS
<1>1. KeepsOffDegraded
  BY DEF SessInv, KeepsOffDegraded, Homed, StuckOnly
<1>2. ASSUME NEW s \in Sessions PROVE left[s] \subseteq PathsOf(baseline)
  BY DEF SessInv, Typed, LeftIsMarked, PathsOf
<1>3. SessTypeOK
  BY <1>2 DEF SessInv, SessTypeOK, Typed, Homed, LeftIsMarked
<1> QED
  BY <1>1, <1>3

\* For any routes, ring, baselines and sessions: a session is at home unless it was driven
\* off, and never on a route it was driven off while another is left to it.
THEOREM SessionsKeepOffDegraded == SessSpec => []KeepsOffDegraded
<1>1. SessInv => KeepsOffDegraded
  BY DEF SessInv, KeepsOffDegraded, Homed, StuckOnly
<1> QED
  BY <1>1, SessInvInit, SessInvStep, PTL DEF SessSpec

(***************************************************************************)
(* The components together.                                                *)
(***************************************************************************)
TrafficInv == IInv /\ DpInv /\ OutInv /\ FrameInv /\ FsInv /\ PtInv /\ SessInv /\ WireInv

LEMMA TrafficInvInit == TrafficInit => TrafficInv
<1> SUFFICES ASSUME TrafficInit PROVE TrafficInv
  OBVIOUS
<1>1. Init /\ DpInit /\ OutInit /\ FrameInit /\ FsInit /\ PtInit /\ SessInit /\ WireInit
  BY DEF TrafficInit
<1> QED
  BY <1>1, InitInv, DpInvInit, OutInvInit, FrameInvInit, FsInvInit, PtInvInit, SessInvInit, WireInvInit DEF TrafficInv

\* A step is one of a component, and leaves the others alone.
LEMMA TrafficSteps ==
    [TrafficNext]_trafficVars =>
        /\ [Next]_vars /\ [DpNext]_dpVars /\ [OutNext]_obVars /\ [FrameNext]_frameVars
        /\ [FsNext]_fsVars /\ [PtNext]_ptVars /\ [SessNext]_sessVars /\ [WireNext]_wireVars
BY DEF TrafficNext, trafficVars

LEMMA TrafficInvStep == TrafficInv /\ [TrafficNext]_trafficVars => TrafficInv'
<1> SUFFICES ASSUME TrafficInv, [TrafficNext]_trafficVars PROVE TrafficInv'
  OBVIOUS
<1>1. IInv /\ DpInv /\ OutInv /\ FrameInv /\ FsInv /\ PtInv /\ SessInv /\ WireInv
  BY DEF TrafficInv
<1>2. IInv'
  BY <1>1, TrafficSteps, StepInv
<1>3. DpInv'
  BY <1>1, TrafficSteps, DpInvStep
<1>4. OutInv'
  BY <1>1, TrafficSteps, OutInvStep
<1>5. FrameInv'
  BY <1>1, TrafficSteps, FrameInvStep
<1>6. FsInv'
  BY <1>1, TrafficSteps, FsInvStep
<1>7. PtInv'
  BY <1>1, TrafficSteps, PtInvStep
<1>8. SessInv'
  BY <1>1, TrafficSteps, SessInvStep
<1>9. WireInv'
  BY <1>1, TrafficSteps, WireInvStep
<1> QED
  BY <1>2, <1>3, <1>4, <1>5, <1>6, <1>7, <1>8, <1>9 DEF TrafficInv

\* Every reachable state satisfies the invariants of all the components (the conjuncts
\* above: pool, data plane, flows, frames, stream, trace, sessions, layouts).
THEOREM TrafficInvariant == TrafficSpec => []TrafficInv
BY TrafficInvInit, TrafficInvStep, PTL DEF TrafficSpec

\* The types of everything that carries traffic, for any peers, flows, nodes, routes and
\* bounds.
THEOREM TrafficTypes == TrafficSpec => []TrafficTypeOK
<1>1. TrafficInv => TrafficTypeOK
  <2> SUFFICES ASSUME TrafficInv PROVE TrafficTypeOK
    OBVIOUS
  <2>1. PoolTypeOK /\ DpTypeOK /\ OutTypeOK /\ FrameTypeOK /\ FsTypeOK /\ PtTypeOK /\ SessTypeOK
    BY InvImplies, DpTypesHold, OutInvShows, FrameInvShows, FsInvShows, PtInvShows, SessInvShows DEF TrafficInv
  <2> QED
    BY <2>1 DEF TrafficTypeOK
<1> QED
  BY <1>1, TrafficInvariant, PTL

\* A packet is sent on at most as often as its time to live allows, and every flow has one
\* place in the count, for any rank tables, dials, configurations and flows (OnFrame,
\* RelayForward; Tracker.totalFlows).
THEOREM PacketsStayBounded == TrafficSpec => []PacketsBounded
<1>1. TrafficInv => PacketsBounded
  BY OutInvShows, FrameInvShows DEF TrafficInv, PacketsBounded
<1> QED
  BY <1>1, TrafficInvariant, PTL

\* Frames arrive whole and in order, an echo answers the own keepalive, no length is
\* believed further than the bytes go, what is written is what is read, and a trace is told
\* of every hop that can report and of no other way than its own; for any number of writes,
\* pings, packet lengths, nodes and routes (Framer.writeMu, kaPending; frame.go, tls.go,
\* wrapper.go; runMTR).
THEOREM PeersUnderstandOneAnother == TrafficSpec => []PeersUnderstand
<1>1. TrafficInv => PeersUnderstand
  <2> SUFFICES ASSUME TrafficInv PROVE PeersUnderstand
    OBVIOUS
  <2>1. FramesWhole /\ EchoedOnce
    BY FsInvShows DEF TrafficInv
  <2>2. EveryHopReports /\ TraceTellsTruth
    BY PtInvShows DEF TrafficInv
  <2>3. ReadsInside /\ WrittenIsRead
    BY DEF TrafficInv, WireInv
  <2> QED
    BY <2>1, <2>2, <2>3 DEF PeersUnderstand
<1> QED
  BY <1>1, TrafficInvariant, PTL

\* A flow keeps its hop, a session stays off what it was driven off, a peer's packets go to
\* its latest connection, and nothing joins what Close waits for, whatever routes and
\* connections change meanwhile (processOutboundBatch; Degrade, SetBaseline;
\* UnregisterPeerFramer, closeMu).
THEOREM TrafficKeeps == TrafficSpec => TrafficKeepsItsWay
<1> DEFINE Keeps == /\ part = "outbound" => FlowKeepsHop
                    /\ part = "sessions" => KeepsOffDegraded'
                    /\ part = "dataplane" => NoAddAfterWait /\ LatestConnectionStays
<1>1. TrafficInv /\ [TrafficNext]_trafficVars => [Keeps]_trafficVars
  <2> SUFFICES ASSUME TrafficInv, [TrafficNext]_trafficVars PROVE Keeps
    OBVIOUS
  <2>1. FlowKeepsHop
    <3>1. [FlowKeepsHop]_obVars
      BY TrafficSteps, OutInvStep DEF TrafficInv
    <3>2. UNCHANGED obVars => FlowKeepsHop
      BY DEF obVars, FlowKeepsHop
    <3> QED
      BY <3>1, <3>2
  <2>2. KeepsOffDegraded'
    <3>1. SessInv'
      BY TrafficSteps, SessInvStep DEF TrafficInv
    <3> QED
      BY <3>1 DEF SessInv, KeepsOffDegraded, Homed, StuckOnly
  <2>3. NoAddAfterWait /\ LatestConnectionStays
    <3>1. [NoAddAfterWait /\ LatestConnectionStays]_dpVars
      BY TrafficSteps, DpInvStep DEF TrafficInv
    <3>2. wg \in Int
      BY DEF TrafficInv, DpInv, DpTypes
    <3>3. UNCHANGED dpVars => NoAddAfterWait /\ LatestConnectionStays
      BY <3>2 DEF dpVars, NoAddAfterWait, LatestConnectionStays
    <3> QED
      BY <3>1, <3>3
  <2> QED
    BY <2>1, <2>2, <2>3
<1> QED
  BY <1>1, TrafficInvariant, PTL DEF TrafficSpec, TrafficKeepsItsWay
=============================================================================
