-------------------------- MODULE NodeHost_proofs --------------------------
(***************************************************************************)
(* A node on its host, for any configurations, servers, NATs, places,      *)
(* gateways, connections, flows and bounds: the program and the system     *)
(* state it changes, the DNS relay, the addresses it reports, its position *)
(* and its mapping on the gateway, the log and the local socket, its       *)
(* identity, the direct flows, and the whole of MCNodeHost. Each part has  *)
(* an inductive invariant; HostInv is their conjunction, as a step of the  *)
(* whole is a step of one part that leaves the others alone.               *)
(***************************************************************************)
EXTENDS MCNodeHost, WellFoundedInduction, FiniteSetTheorems, TLAPS

(***************************************************************************)
(* The firewall (internal/nodecore/firewall): the rules in force are those *)
(* of the present configuration whatever command fails and wherever the    *)
(* program dies. First that the rules generated are what the recursive     *)
(* functions of HostFirewall say, then the commands that set them up and   *)
(* take them down, then the invariant.                                     *)
(***************************************************************************)

\* A function defined by steps exists: the first place where it would not cannot be.
ByStep(f, n, z, next) == f[0] = z /\ \A i \in 1 .. n : f[i] = next[i][f[i - 1]]
LEMMA RecursionExists ==
  ASSUME NEW n \in Nat, NEW S, NEW z \in S, NEW next \in [1 .. n -> [S -> S]]
  PROVE  \E f \in [0 .. n -> S] : ByStep(f, n, z, next)
<1> DEFINE Upto(m) == \E f \in [0 .. m -> S] : f[0] = z /\ \A i \in 1 .. m : f[i] = next[i][f[i - 1]]
           Bad == {m \in 0 .. n : ~Upto(m)}
<1>1. Upto(0)
  <2>1. PICK f : f = [i \in 0 .. 0 |-> z]
    OBVIOUS
  <2>2. f \in [0 .. 0 -> S] /\ f[0] = z /\ \A i \in 1 .. 0 : f[i] = next[i][f[i - 1]]
    BY <2>1
  <2> QED
    BY <2>2
<1>2. ASSUME NEW m \in 1 .. n, Upto(m - 1) PROVE Upto(m)
  <2>1. PICK g \in [0 .. m - 1 -> S] : g[0] = z /\ \A i \in 1 .. m - 1 : g[i] = next[i][g[i - 1]]
    BY <1>2
  <2>2. PICK f : f = [i \in 0 .. m |-> IF i = m THEN next[m][g[m - 1]] ELSE g[i]]
    OBVIOUS
  <2>3. next[m] \in [S -> S] /\ g[m - 1] \in S
    BY <2>1
  <2>4. f \in [0 .. m -> S] /\ f[m] = next[m][g[m - 1]] /\ \A i \in 0 .. m - 1 : f[i] = g[i]
    BY <2>2, <2>3
  <2>5. f[0] = z /\ \A i \in 1 .. m : f[i] = next[i][f[i - 1]]
    BY <2>1, <2>4
  <2> QED
    BY <2>4, <2>5
<1>3. ASSUME Bad # {} PROVE FALSE
  <2>1. PICK m \in Bad : \A k \in Bad : ~(<<k, m>> \in OpToRel(<, Nat))
    <3>1. Bad \subseteq Nat
      OBVIOUS
    <3> HIDE DEF Bad
    <3> QED
      BY <1>3, <3>1, NatLessThanWellFounded, WFMin
  <2>2. m \in 0 .. n /\ ~Upto(m)
    BY <2>1
  <2>3. \A k \in 0 .. n : k < m => Upto(k)
    <3> HIDE DEF Upto
    <3> TAKE k \in 0 .. n
    <3> HAVE k < m
    <3>1. <<k, m>> \in OpToRel(<, Nat)
      BY <2>2 DEF OpToRel
    <3>2. k \notin Bad
      BY <2>1, <3>1
    <3> QED
      BY <3>2
  <2>4. m # 0
    BY <1>1, <2>2
  <2>5. m \in 1 .. n /\ Upto(m - 1)
    <3> HIDE DEF Upto
    <3> QED
      BY <2>2, <2>3, <2>4
  <2> HIDE DEF Upto
  <2> QED
    BY <1>2, <2>2, <2>5
<1>4. n \notin Bad
  BY <1>3
<1>5. PICK f \in [0 .. n -> S] : f[0] = z /\ \A i \in 1 .. n : f[i] = next[i][f[i - 1]]
  BY <1>4
<1>6. ByStep(f, n, z, next)
  BY <1>5 DEF ByStep
<1> QED
  BY <1>5, <1>6

\* What the first value has and every step keeps, all values have.
LEMMA StaysIn ==
  ASSUME NEW n \in Nat, NEW S, NEW f, f[0] \in S, \A i \in 1 .. n : f[i - 1] \in S => f[i] \in S
  PROVE  \A i \in 0 .. n : f[i] \in S
<1> DEFINE Bad == {i \in 0 .. n : f[i] \notin S}
<1>1. ASSUME Bad # {} PROVE FALSE
  <2>1. Bad \subseteq Nat
    OBVIOUS
  <2>2. PICK m \in Bad : \A k \in Bad : ~(<<k, m>> \in OpToRel(<, Nat))
    <3> HIDE DEF Bad
    <3> QED
      BY <1>1, <2>1, NatLessThanWellFounded, WFMin
  <2>3. m \in 0 .. n /\ f[m] \notin S
    BY <2>2
  <2>4. m # 0
    BY <2>3
  <2>5. m \in 1 .. n /\ m - 1 \in 0 .. n
    BY <2>3, <2>4
  <2>6. PICK k : k = m - 1
    OBVIOUS
  <2>7. <<k, m>> \in OpToRel(<, Nat)
    BY <2>5, <2>6 DEF OpToRel
  <2>8. k \notin Bad
    BY <2>2, <2>7
  <2>9. f[m - 1] \in S
    BY <2>5, <2>6, <2>8
  <2> QED
    BY <2>3, <2>5, <2>9
<1> QED
  BY <1>1
\* Joined sequences.
LEMMA Concat ==
  ASSUME NEW S, NEW p \in Seq(S), NEW q \in Seq(S)
  PROVE  /\ p \o q \in Seq(S) /\ Len(p \o q) = Len(p) + Len(q) /\ Len(p) \in Nat /\ Len(q) \in Nat
         /\ \A i \in 1 .. Len(p \o q) : (p \o q)[i] = IF i <= Len(p) THEN p[i] ELSE q[i - Len(p)]
<1>1. p \o q \in Seq(S) /\ Len(p \o q) = Len(p) + Len(q) /\ Len(p) \in Nat /\ Len(q) \in Nat
  OBVIOUS
<1>2. ASSUME NEW i \in 1 .. Len(p) + Len(q)
      PROVE  (p \o q)[i] = IF i <= Len(p) THEN p[i] ELSE q[i - Len(p)]
  OBVIOUS
<1> QED
  BY <1>1, <1>2

(***************************************************************************)
(* The packet filter and the DNS proxy.                                    *)
(***************************************************************************)
(* What is being applied is the end of one program: the hooks and "ready", *)
(* the flushing of fs, and the rules g.                                    *)
ChainSet == {"DNS", "DNS-OUT", "NAT", "NAT-POST", "FWD"}
FwRules == {"REDIRECT", "RETURN", "DNAT", "ACCEPT", "MASQUERADE-to", "MASQUERADE-from", "none"}
FwArgs == FwAddresses \cup {"proxy", "none"}
FwCmd == [verb : {"hook", "ready", "F", "A", "D", "X"}, chain : ChainSet, rule : FwRules, arg : FwArgs]
RuleCmds(fs) == [verb : {"A"}, chain : Range(fs), rule : FwRules, arg : FwArgs]

ProgramAt(fs, g, i) ==
  IF i <= 5 THEN Cmd("hook", Chains[i])
  ELSE IF i = 6 THEN Cmd("ready", "DNS")
  ELSE IF i <= 6 + Len(fs) THEN Cmd("F", fs[i - 6])
  ELSE g[i - 6 - Len(fs)]
StopAt(i) == IF i <= 5 THEN Cmd("F", Chains[i]) ELSE IF i <= 10 THEN Cmd("D", Chains[i - 5]) ELSE Cmd("X", Chains[i - 10])
\* How many commands of it have been run, those before a start included.
Done0(fs, g) == 6 + Len(fs) + Len(g) - Len(todo)
Remains(fs, g) == /\ Len(todo) <= 6 + Len(fs) + Len(g)
                  /\ \A i \in DOMAIN todo : todo[i] = ProgramAt(fs, g, Done0(fs, g) + i)

\* How far the chains are made and filled after so many commands, and a list under way.
Hooked(place, aborted) ==
  /\ place < 6 => ready = FALSE /\ \A j \in 1 .. 5 : j <= place => jumps[Chains[j]] > 0
  /\ place >= 6 => ready = TRUE \/ (todo = <<>> /\ aborted)
FilledSoFar(fs, g, place) ==
  \A j \in DOMAIN fs : place >= 6 + j =>
    filled[fs[j]] = FilledBy(g, fs[j])[IF place >= 6 + Len(fs) THEN place - 6 - Len(fs) ELSE 0]
Going(fs, g, bad) ==
  Remains(fs, g) /\ Hooked(Done0(fs, g), bad = TRUE) /\ (bad = FALSE => FilledSoFar(fs, g, Done0(fs, g)))
Applying(name, fs, g) == doing = name => IF name \in failed THEN Going(fs, g, TRUE) ELSE Going(fs, g, FALSE)
\* The cleanup under way: a chain whose flush has been run is empty, unless one failed.
Stopping ==
  doing = "stop" => /\ Len(todo) <= 15 /\ \A i \in DOMAIN todo : todo[i] = StopAt(15 - Len(todo) + i)
                    /\ "stop" \notin failed => \A j \in 1 .. 5 : j <= 15 - Len(todo) => filled[Chains[j]] = <<>>

\* A chain may have a jump more for each command that failed, and one while it is hooked.
JumpsAre == jumps \in [ChainSet -> Nat] /\ filled \in [ChainSet -> Seq(FwRule)] /\ \A c \in ChainSet : jumps[c] <= 1 + fwFaults
AllHooked == ready = TRUE => \A c \in ChainSet : jumps[c] > 0
FwTypes ==
  /\ doing \in {"down", "idle", "dns", "egress", "stop"} /\ ready \in BOOLEAN /\ failed \subseteq {"dns", "egress", "stop"}
  /\ proxy \in [port : Nat, upstream : FwAddresses \cup {"none"}, records : SUBSET Names]
  /\ dns \in DnsConfigs \cup {NoDns} /\ egress \in EgressLists /\ later \in EgressLists
  /\ configs \in 0 .. MaxConfigs /\ fwFaults \in 0 .. MaxFwFaults
\* What a node that is down leaves behind: a chain that is still jumped to is empty.
FwPhase ==
  /\ doing \in {"down", "idle"} => todo = <<>>
  /\ doing = "down" => ready = FALSE /\ dns = NoDns /\ egress = <<>>
  /\ doing \in {"down", "stop"} => proxy = NoProxy
  /\ doing # "stop" => AllHooked
  /\ doing = "down" /\ "stop" \notin failed => \A c \in ChainSet : jumps[c] = 0 \/ filled[c] = <<>>
  /\ doing = "dns" => dns # NoDns
\* The rules in force, once they have all been set without a failure.
Exact(fs, g) == ready = TRUE /\ \A j \in DOMAIN fs : filled[fs[j]] = Expected(g, fs[j])
DnsExact == doing \in {"idle", "egress"} /\ "dns" \notin failed /\ dns # NoDns => Exact(DnsChains, GenerateDNSRedirect(dns))
EgressExact == (doing = "idle" \/ (doing = "dns" /\ later = <<>>)) /\ "egress" \notin failed /\ egress # <<>> =>
                 Exact(EgressChains, GenerateEgressRules(egress))
\* The rules of the DNS-OUT chain, while no command has failed.
OutShape(q) ==
  /\ Len(q) <= 2
  /\ Len(q) >= 1 => q[1].rule = "RETURN" /\ q[1].arg \notin {"proxy", "resolver"}
  /\ Len(q) = 2 => q[2].rule = "REDIRECT" /\ q[2].arg = "proxy"
FwCalm ==
  fwFaults = 0 =>
    /\ failed = {}
    /\ OutShape(filled["DNS-OUT"])
    /\ doing \notin {"down", "stop"} /\ dns.enabled = TRUE => proxy.records = dns.records
FwProxied == proxy # NoProxy => dns # NoDns
\* The inductive invariant.
FwInv ==
  /\ JumpsAre /\ todo \in Seq(FwCmd) /\ FwTypes /\ FwPhase /\ FwCalm /\ FwProxied /\ DnsExact /\ EgressExact /\ Stopping
  /\ Applying("dns", DnsChains, GenerateDNSRedirect(dns))
  /\ Applying("egress", EgressChains, GenerateEgressRules(egress))


LEMMA FilledUnfolds ==
  ASSUME NEW cmds \in Seq(FwCmd), NEW c
  PROVE  /\ FilledBy(cmds, c) \in [0 .. Len(cmds) -> Seq(FwRule)] /\ FilledBy(cmds, c)[0] = <<>>
         /\ \A i \in 1 .. Len(cmds) :
              FilledBy(cmds, c)[i] = IF cmds[i].verb = "A" /\ cmds[i].chain = c
                                     THEN Append(FilledBy(cmds, c)[i - 1], Rule(cmds[i])) ELSE FilledBy(cmds, c)[i - 1]
<1>1. PICK n, S, z : n = Len(cmds) /\ S = Seq(FwRule) /\ z = <<>>
  OBVIOUS
<1>2. /\ n \in Nat /\ z \in S
      /\ \A i \in 1 .. n : Rule(cmds[i]) \in FwRule
      /\ \A q \in S, r \in FwRule : Append(q, r) \in S
  <2>1. \A x \in FwCmd : Rule(x) \in FwRule
    BY DEF Rule, FwRule, FwCmd, FwRules, FwArgs
  <2>2. \A i \in 1 .. n : cmds[i] \in FwCmd
    BY <1>1
  <2>3. \A q \in Seq(FwRule), r \in FwRule : Append(q, r) \in Seq(FwRule)
    OBVIOUS
  <2> QED
    BY <1>1, <2>1, <2>2, <2>3
<1> DEFINE Adds(i) == cmds[i].verb = "A" /\ cmds[i].chain = c
           Body(f) == [i \in 0 .. Len(cmds) |->
                         IF i = 0 THEN <<>>
                         ELSE IF cmds[i].verb = "A" /\ cmds[i].chain = c THEN Append(f[i - 1], Rule(cmds[i]))
                         ELSE f[i - 1]]
           FwCommand(f, i) == IF Adds(i) THEN Append(f[i - 1], Rule(cmds[i])) ELSE f[i - 1]
<1>3. PICK command : command = [i \in 1 .. n |-> [q \in S |-> IF Adds(i) THEN Append(q, Rule(cmds[i])) ELSE q]]
  OBVIOUS
<1>4. \A i \in 1 .. n : command[i] = [q \in S |-> IF Adds(i) THEN Append(q, Rule(cmds[i])) ELSE q]
  BY <1>3
<1>5. \A i \in 1 .. n : command[i] \in [S -> S] /\ \A q \in S : command[i][q] = IF Adds(i) THEN Append(q, Rule(cmds[i])) ELSE q
  <2> HIDE DEF Adds
  <2> QED
    BY <1>2, <1>4
<1>6. command \in [1 .. n -> [S -> S]]
  <2>1. command = [i \in 1 .. n |-> command[i]]
    BY <1>3
  <2> QED
    BY <1>5, <2>1
<1>7. PICK f \in [0 .. n -> S] : f[0] = z /\ \A i \in 1 .. n : f[i] = command[i][f[i - 1]]
  <2>1. PICK f \in [0 .. n -> S] : ByStep(f, n, z, command)
    BY <1>2, <1>6, RecursionExists
  <2>2. f[0] = z /\ \A i \in 1 .. n : f[i] = command[i][f[i - 1]]
    BY <2>1 DEF ByStep
  <2> QED
    BY <2>2
<1>8. ASSUME NEW i \in 1 .. n PROVE f[i] = FwCommand(f, i)
  <2>1. PICK q : q = f[i - 1]
    OBVIOUS
  <2>2. q \in S /\ f[i] = command[i][q]
    BY <1>2, <1>7, <2>1
  <2> HIDE DEF Adds
  <2> QED
    BY <1>5, <2>1, <2>2
<1>9. f = Body(f)
  <2>1. ASSUME NEW i \in 0 .. n PROVE f[i] = Body(f)[i]
    <3>1. CASE i = 0
      BY <1>1, <1>7, <3>1
    <3>2. CASE i # 0
      <4>1. i \in 1 .. n /\ i \in 0 .. Len(cmds)
        BY <1>1, <1>2, <3>2
      <4>2. f[i] = FwCommand(f, i)
        BY <1>8, <4>1
      <4> QED
        BY <3>2, <4>1, <4>2
    <3> QED
      BY <3>1, <3>2
  <2>2. f = [i \in 0 .. n |-> f[i]]
    BY <1>7
  <2>3. DOMAIN Body(f) = 0 .. n /\ Body(f) = [i \in 0 .. n |-> Body(f)[i]]
    BY <1>1
  <2> HIDE DEF Body
  <2> QED
    BY <2>1, <2>2, <2>3
<1>10. FilledBy(cmds, c) = CHOOSE g : g = Body(g)
  BY DEF FilledBy
<1>11. PICK g : g = FilledBy(cmds, c)
  OBVIOUS
<1>12. g = Body(g)
  <2> HIDE DEF Body
  <2>1. \E h : h = Body(h)
    BY <1>9
  <2>2. (CHOOSE h : h = Body(h)) = Body(CHOOSE h : h = Body(h))
    BY <2>1, Zenon
  <2> QED
    BY <1>10, <1>11, <2>2, Zenon
<1>13. g = [i \in 0 .. n |-> g[i]] /\ g[0] = z /\ \A i \in 1 .. n : g[i] = FwCommand(g, i)
  <2>1. DOMAIN g = 0 .. n /\ g = [i \in 0 .. n |-> g[i]]
    BY <1>1, <1>12
  <2>2. g[0] = z
    BY <1>1, <1>2, <1>12
  <2>3. ASSUME NEW i \in 1 .. n PROVE g[i] = FwCommand(g, i)
    <3>1. i \in 0 .. Len(cmds) /\ i # 0
      BY <1>1, <1>2
    <3>2. g[i] = Body(g)[i]
      <4> HIDE DEF Body
      <4> QED
        BY <1>12
    <3> QED
      BY <3>1, <3>2
  <2> QED
    BY <2>1, <2>2, <2>3
<1>14. ASSUME NEW i \in 1 .. n, g[i - 1] \in S PROVE g[i] \in S
  <2>1. PICK q : q = g[i - 1]
    OBVIOUS
  <2> HIDE DEF Adds
  <2> QED
    BY <1>2, <1>13, <1>14, <2>1
<1>15. \A i \in 0 .. n : g[i] \in S
  BY <1>2, <1>13, <1>14, StaysIn
<1>16. g \in [0 .. n -> S]
  BY <1>13, <1>15
<1> QED
  BY <1>1, <1>11, <1>13, <1>16

\* Chains, commands and rules.
LEMMA ChainsAre ==
  /\ DnsChains = <<"DNS", "DNS-OUT">> /\ EgressChains = <<"NAT", "NAT-POST", "FWD">>
  /\ Chains[1] = "DNS" /\ Chains[2] = "DNS-OUT" /\ Chains[3] = "NAT" /\ Chains[4] = "NAT-POST" /\ Chains[5] = "FWD"
  /\ Range(DnsChains) = {"DNS", "DNS-OUT"} /\ Range(EgressChains) = {"NAT", "NAT-POST", "FWD"}
  /\ Range(Chains) = ChainSet /\ DOMAIN Chains = 1 .. 5
  /\ Len(DnsChains) = 2 /\ Len(EgressChains) = 3 /\ Len(Chains) = 5
  /\ \A i \in 1 .. 5 : Chains[i] \in ChainSet
  /\ \A c \in ChainSet : \E i \in 1 .. 5 : c = Chains[i]
<1>1. DnsChains = <<"DNS", "DNS-OUT">> /\ EgressChains = <<"NAT", "NAT-POST", "FWD">>
  BY DEF DnsChains, EgressChains
<1>2. PICK p, q : p = <<"DNS", "DNS-OUT">> /\ q = <<"NAT", "NAT-POST", "FWD">>
  OBVIOUS
<1>3. /\ Len(p) = 2 /\ Len(q) = 3 /\ p[1] = "DNS" /\ p[2] = "DNS-OUT"
      /\ q[1] = "NAT" /\ q[2] = "NAT-POST" /\ q[3] = "FWD"
  BY <1>2
<1>4. /\ Len(p \o q) = 5 /\ DOMAIN (p \o q) = 1 .. 5
      /\ \A i \in 1 .. 5 : (p \o q)[i] = IF i <= 2 THEN p[i] ELSE q[i - 2]
  <2>1. p \in Seq(ChainSet)
    <3>1. "DNS" \in ChainSet /\ "DNS-OUT" \in ChainSet
      BY DEF ChainSet
    <3> QED
      BY <1>2, <3>1
  <2>2. q \in Seq(ChainSet)
    <3>1. "NAT" \in ChainSet /\ "NAT-POST" \in ChainSet /\ "FWD" \in ChainSet
      BY DEF ChainSet
    <3> QED
      BY <1>2, <3>1
  <2>3. PICK r : r = p \o q
    OBVIOUS
  <2>4. /\ r \in Seq(ChainSet) /\ Len(r) = Len(p) + Len(q)
        /\ \A i \in 1 .. Len(r) : r[i] = IF i <= Len(p) THEN p[i] ELSE q[i - Len(p)]
    BY <2>1, <2>2, <2>3, Concat
  <2>5. Len(r) = 5
    BY <1>3, <2>4
  <2>6. DOMAIN r = 1 .. 5
    <3>1. \A S : \A s \in Seq(S) : DOMAIN s = 1 .. Len(s)
      OBVIOUS
    <3> QED
      BY <2>4, <2>5, <3>1, Zenon
  <2>7. \A i \in 1 .. 5 : r[i] = IF i <= 2 THEN p[i] ELSE q[i - 2]
    BY <1>3, <2>4, <2>5
  <2> QED
    BY <2>3, <2>5, <2>6, <2>7, Zenon
<1>5. Chains = p \o q
  BY <1>1, <1>2, Zenon DEF Chains
<1>6. Chains[1] = "DNS" /\ Chains[2] = "DNS-OUT" /\ Chains[3] = "NAT" /\ Chains[4] = "NAT-POST" /\ Chains[5] = "FWD"
  BY <1>3, <1>4, <1>5
<1>7. DOMAIN Chains = 1 .. 5 /\ Len(Chains) = 5
  BY <1>4, <1>5
<1>8. \A i \in 1 .. 5 : i = 1 \/ i = 2 \/ i = 3 \/ i = 4 \/ i = 5
  OBVIOUS
<1>9. /\ \A i \in 1 .. 5 : Chains[i] \in ChainSet
      /\ \A c \in ChainSet : \E i \in 1 .. 5 : c = Chains[i]
  BY <1>6, <1>8 DEF ChainSet
<1>10. Range(Chains) = ChainSet
  BY <1>7, <1>9 DEF Range
<1>11. Range(DnsChains) = {"DNS", "DNS-OUT"}
  <2>1. DOMAIN DnsChains = {1, 2}
    BY <1>1
  <2> QED
    BY <1>1, <2>1 DEF Range
<1>12. Range(EgressChains) = {"NAT", "NAT-POST", "FWD"}
  <2>1. DOMAIN EgressChains = {1, 2, 3}
    BY <1>1
  <2> QED
    BY <1>1, <2>1 DEF Range
<1> QED
  BY <1>1, <1>6, <1>7, <1>9, <1>10, <1>11, <1>12

LEMMA CmdsAre ==
  /\ \A v \in {"hook", "ready", "F", "D", "X"}, c \in ChainSet :
       Cmd(v, c) \in FwCmd /\ Cmd(v, c).verb = v /\ Cmd(v, c).chain = c
  /\ \A c \in ChainSet, r \in FwRules, a \in FwArgs :
       /\ Add(c, r, a) \in FwCmd /\ Add(c, r, a).verb = "A" /\ Add(c, r, a).chain = c
       /\ Add(c, r, a).rule = r /\ Add(c, r, a).arg = a
  /\ \A fs : \A c \in Range(fs), r \in FwRules, a \in FwArgs : Add(c, r, a) \in RuleCmds(fs)
  /\ \A fs : Range(fs) \subseteq ChainSet => RuleCmds(fs) \subseteq FwCmd
  /\ \A fs : \A x \in RuleCmds(fs) : x.verb = "A" /\ x.chain \in Range(fs)
  /\ \A x \in FwCmd : x.verb \in {"hook", "ready", "F", "A", "D", "X"} /\ x.chain \in ChainSet /\ Rule(x) \in FwRule
<1>1. \A v \in {"hook", "ready", "F", "D", "X"}, c \in ChainSet :
        Cmd(v, c) \in FwCmd /\ Cmd(v, c).verb = v /\ Cmd(v, c).chain = c
  BY DEF Cmd, FwCmd, FwRules, FwArgs
<1>2. \A c \in ChainSet, r \in FwRules, a \in FwArgs :
        /\ Add(c, r, a) \in FwCmd /\ Add(c, r, a).verb = "A" /\ Add(c, r, a).chain = c
        /\ Add(c, r, a).rule = r /\ Add(c, r, a).arg = a
  BY DEF Add, FwCmd
<1>3. \A fs : \A c \in Range(fs), r \in FwRules, a \in FwArgs : Add(c, r, a) \in RuleCmds(fs)
  BY DEF Add, RuleCmds
<1>4. \A fs : Range(fs) \subseteq ChainSet => RuleCmds(fs) \subseteq FwCmd
  <2> SUFFICES ASSUME NEW fs, Range(fs) \subseteq ChainSet, NEW x \in RuleCmds(fs) PROVE x \in FwCmd
    OBVIOUS
  <2>1. PICK R : R = Range(fs)
    OBVIOUS
  <2>2. x \in [verb : {"A"}, chain : R, rule : FwRules, arg : FwArgs] /\ R \subseteq ChainSet
    BY <2>1 DEF RuleCmds
  <2> QED
    BY <2>2 DEF FwCmd
<1>5. \A fs : \A x \in RuleCmds(fs) : x.verb = "A" /\ x.chain \in Range(fs)
  BY DEF RuleCmds
<1>6. \A x \in FwCmd : x.verb \in {"hook", "ready", "F", "A", "D", "X"} /\ x.chain \in ChainSet /\ Rule(x) \in FwRule
  BY DEF FwCmd, Rule, FwRule, FwRules, FwArgs
<1> QED
  BY <1>1, <1>2, <1>3, <1>4, <1>5, <1>6

\* What DNS parts there are, and the rules each makes.
LEMMA DnsParts ==
  \A c \in DnsConfigs \cup {NoDns} :
    /\ c.enabled \in BOOLEAN /\ c.port \in Nat /\ c.upstream \in FwArgs /\ c.records \subseteq Names
    /\ c.upstream \notin {"proxy", "resolver"}
    /\ c.enabled = TRUE => c # NoDns /\ c.mode \in {"local", "lan"}
<1> SUFFICES ASSUME NEW c \in DnsConfigs \cup {NoDns}
             PROVE  /\ c.enabled \in BOOLEAN /\ c.port \in Nat /\ c.upstream \in FwArgs /\ c.records \subseteq Names
                    /\ c.upstream \notin {"proxy", "resolver"}
                    /\ c.enabled = TRUE => c # NoDns /\ c.mode \in {"local", "lan"}
  OBVIOUS
<1>1. NoDns.enabled = FALSE /\ NoDns.port = 0 /\ NoDns.upstream = "none" /\ NoDns.records = {}
  BY DEF NoDns
<1>2. CASE c = NoDns
  <2>1. c.enabled = FALSE /\ c.port \in Nat /\ c.upstream = "none" /\ c.records \subseteq Names
    BY <1>1, <1>2
  <2>2. c.enabled \in BOOLEAN /\ ~(c.enabled = TRUE)
    BY <2>1, Zenon
  <2>3. "none" \in FwArgs /\ "none" \notin {"proxy", "resolver"}
    BY DEF FwArgs
  <2> QED
    BY <2>1, <2>2, <2>3, Zenon
<1>3. CASE c \in DnsConfigs
  <2>1. c \in [enabled : BOOLEAN, mode : {"local", "lan"}, port : Nat, upstream : FwAddresses, records : SUBSET Names]
    BY <1>3, FirewallAssumption
  <2>2. /\ c.enabled \in BOOLEAN /\ c.port \in Nat /\ c.upstream \in FwAddresses /\ c.records \subseteq Names
        /\ c.mode \in {"local", "lan"}
    BY <2>1
  <2>3. c.enabled = TRUE => c # NoDns
    BY <1>1
  <2>4. c.upstream \in FwArgs /\ c.upstream \notin {"proxy", "resolver"}
    BY <2>2, FirewallAssumption DEF FwArgs
  <2> QED
    BY <2>2, <2>3, <2>4
<1> QED
  BY <1>2, <1>3

LEMMA DnsRules ==
  ASSUME NEW c \in DnsConfigs \cup {NoDns}
  PROVE  /\ GenerateDNSRedirect(c) \in Seq(RuleCmds(DnsChains))
         /\ \/ GenerateDNSRedirect(c) = <<>>
            \/ GenerateDNSRedirect(c) = <<Add("DNS", "DNAT", "proxy")>>
            \/ /\ c.enabled = TRUE
               /\ GenerateDNSRedirect(c) = <<Add("DNS", "REDIRECT", "proxy"), Add("DNS-OUT", "RETURN", c.upstream),
                                             Add("DNS-OUT", "REDIRECT", "proxy")>>
<1>1. /\ c.enabled \in BOOLEAN /\ c.upstream \in FwArgs /\ (c.enabled = TRUE => c.mode \in {"local", "lan"})
  BY DnsParts
<1>2. /\ Add("DNS", "DNAT", "proxy") \in RuleCmds(DnsChains)
      /\ Add("DNS", "REDIRECT", "proxy") \in RuleCmds(DnsChains)
      /\ Add("DNS-OUT", "RETURN", c.upstream) \in RuleCmds(DnsChains)
      /\ Add("DNS-OUT", "REDIRECT", "proxy") \in RuleCmds(DnsChains)
  <2>1. "DNS" \in Range(DnsChains) /\ "DNS-OUT" \in Range(DnsChains)
    BY ChainsAre
  <2>2. "DNAT" \in FwRules /\ "proxy" \in FwArgs /\ "REDIRECT" \in FwRules /\ "RETURN" \in FwRules
    BY DEF FwRules, FwArgs
  <2> QED
    BY <1>1, <2>1, <2>2, CmdsAre
<1>3. CASE c.enabled = FALSE
  <2>1. GenerateDNSRedirect(c) = <<>>
    BY <1>3 DEF GenerateDNSRedirect
  <2> QED
    BY <2>1
<1>4. CASE c.enabled = TRUE /\ c.mode = "lan"
  <2>1. GenerateDNSRedirect(c) = <<Add("DNS", "DNAT", "proxy")>>
    BY <1>4 DEF GenerateDNSRedirect
  <2> QED
    BY <1>2, <2>1
<1>5. CASE c.enabled = TRUE /\ c.mode = "local"
  <2>1. GenerateDNSRedirect(c) = <<Add("DNS", "REDIRECT", "proxy"), Add("DNS-OUT", "RETURN", c.upstream),
                                   Add("DNS-OUT", "REDIRECT", "proxy")>>
    BY <1>5 DEF GenerateDNSRedirect
  <2>2. <<Add("DNS", "REDIRECT", "proxy"), Add("DNS-OUT", "RETURN", c.upstream), Add("DNS-OUT", "REDIRECT", "proxy")>>
          \in Seq(RuleCmds(DnsChains))
    BY <1>2
  <2> QED
    BY <1>5, <2>1, <2>2, Zenon
<1> QED
  BY <1>1, <1>3, <1>4, <1>5

EgressRule == [kind : {"direct", "static_mapping", "discovered_mapping"}, vip : FwAddresses, target : FwAddresses, snat : BOOLEAN]

LEMMA EgressOfIs == \A r \in EgressRule : EgressOf(r) \in Seq(RuleCmds(EgressChains))
<1> SUFFICES ASSUME NEW r \in EgressRule PROVE EgressOf(r) \in Seq(RuleCmds(EgressChains))
  OBVIOUS
<1>1. PICK R : R = RuleCmds(EgressChains)
  OBVIOUS
<1>2. PICK to : to = IF r.kind = "direct" THEN r.vip ELSE r.target
  OBVIOUS
<1>3. to \in FwArgs /\ r.vip \in FwArgs
  BY <1>2 DEF EgressRule, FwArgs
<1>4. /\ Add("NAT", "DNAT", r.vip) \in R /\ Add("FWD", "ACCEPT", to) \in R
      /\ Add("NAT-POST", "MASQUERADE-to", to) \in R /\ Add("NAT-POST", "MASQUERADE-from", to) \in R
  <2>1. "NAT" \in Range(EgressChains) /\ "NAT-POST" \in Range(EgressChains) /\ "FWD" \in Range(EgressChains)
    BY ChainsAre
  <2>2. "DNAT" \in FwRules /\ "ACCEPT" \in FwRules /\ "MASQUERADE-to" \in FwRules /\ "MASQUERADE-from" \in FwRules
    BY DEF FwRules
  <2> QED
    BY <1>1, <1>3, <2>1, <2>2, CmdsAre
<1>5. PICK a, b, c, d : /\ a = (IF r.kind = "direct" THEN <<>> ELSE <<Add("NAT", "DNAT", r.vip)>>)
                        /\ b = <<Add("FWD", "ACCEPT", to)>>
                        /\ c = (IF r.kind = "direct" THEN <<>> ELSE <<Add("NAT-POST", "MASQUERADE-to", to)>>)
                        /\ d = (IF r.snat THEN <<Add("NAT-POST", "MASQUERADE-from", to)>> ELSE <<>>)
  OBVIOUS
<1>6. EgressOf(r) = a \o b \o c \o d
  BY <1>2, <1>5, Zenon DEF EgressOf
<1>7. a \in Seq(R) /\ b \in Seq(R) /\ c \in Seq(R) /\ d \in Seq(R)
  BY <1>4, <1>5
<1>8. a \o b \o c \o d \in Seq(R)
  BY <1>7
<1> QED
  BY <1>1, <1>6, <1>8

LEMMA EgressRules ==
  ASSUME NEW rs \in EgressLists
  PROVE  GenerateEgressRules(rs) \in Seq(RuleCmds(EgressChains))
<1>1. PICK n, S, z : n = Len(rs) /\ S = Seq(RuleCmds(EgressChains)) /\ z = <<>>
  OBVIOUS
<1>2. rs \in Seq(EgressRule)
  BY FirewallAssumption DEF EgressRule
<1>3. /\ n \in Nat /\ z \in S
      /\ \A i \in 1 .. n : EgressOf(rs[i]) \in S
      /\ \A q \in S, r \in S : q \o r \in S
  <2>1. \A i \in 1 .. n : rs[i] \in EgressRule
    BY <1>1, <1>2
  <2>2. \A q, r \in Seq(RuleCmds(EgressChains)) : q \o r \in Seq(RuleCmds(EgressChains))
    OBVIOUS
  <2> QED
    BY <1>1, <1>2, <2>1, <2>2, EgressOfIs
<1> DEFINE Body(f) == [i \in 0 .. Len(rs) |-> IF i = 0 THEN <<>> ELSE f[i - 1] \o EgressOf(rs[i])]
<1>4. PICK command : command = [i \in 1 .. n |-> [q \in S |-> q \o EgressOf(rs[i])]]
  OBVIOUS
<1>5. \A i \in 1 .. n : command[i] \in [S -> S] /\ \A q \in S : command[i][q] = q \o EgressOf(rs[i])
  <2>1. \A i \in 1 .. n : command[i] = [q \in S |-> q \o EgressOf(rs[i])]
    BY <1>4
  <2> QED
    BY <1>3, <2>1
<1>6. command \in [1 .. n -> [S -> S]]
  <2>1. command = [i \in 1 .. n |-> command[i]]
    BY <1>4
  <2> QED
    BY <1>5, <2>1
<1>7. PICK f \in [0 .. n -> S] : f[0] = z /\ \A i \in 1 .. n : f[i] = command[i][f[i - 1]]
  <2>1. PICK f \in [0 .. n -> S] : ByStep(f, n, z, command)
    BY <1>3, <1>6, RecursionExists
  <2>2. f[0] = z /\ \A i \in 1 .. n : f[i] = command[i][f[i - 1]]
    BY <2>1 DEF ByStep
  <2> QED
    BY <2>2
<1>8. ASSUME NEW i \in 1 .. n PROVE f[i] = f[i - 1] \o EgressOf(rs[i])
  <2>1. PICK q : q = f[i - 1]
    OBVIOUS
  <2>2. q \in S /\ f[i] = command[i][q]
    BY <1>3, <1>7, <2>1
  <2> QED
    BY <1>5, <2>1, <2>2
<1>9. f = Body(f)
  <2>1. ASSUME NEW i \in 0 .. n PROVE f[i] = Body(f)[i]
    <3>1. CASE i = 0
      BY <1>1, <1>7, <3>1
    <3>2. CASE i # 0
      <4>1. i \in 1 .. n /\ i \in 0 .. Len(rs)
        BY <1>1, <1>3, <3>2
      <4>2. f[i] = f[i - 1] \o EgressOf(rs[i])
        BY <1>8, <4>1
      <4> QED
        BY <3>2, <4>1, <4>2
    <3> QED
      BY <3>1, <3>2
  <2>2. f = [i \in 0 .. n |-> f[i]]
    BY <1>7
  <2>3. DOMAIN Body(f) = 0 .. n /\ Body(f) = [i \in 0 .. n |-> Body(f)[i]]
    BY <1>1
  <2> HIDE DEF Body
  <2> QED
    BY <2>1, <2>2, <2>3
<1>10. EgressUpTo(rs) = CHOOSE g : g = Body(g)
  BY DEF EgressUpTo
<1>11. PICK g : g = EgressUpTo(rs)
  OBVIOUS
<1>12. g = Body(g)
  <2> HIDE DEF Body
  <2>1. \E h : h = Body(h)
    BY <1>9
  <2>2. (CHOOSE h : h = Body(h)) = Body(CHOOSE h : h = Body(h))
    BY <2>1, Zenon
  <2> QED
    BY <1>10, <1>11, <2>2, Zenon
<1>13. g[0] = z /\ \A i \in 1 .. n : g[i] = g[i - 1] \o EgressOf(rs[i])
  <2>1. g[0] = z
    BY <1>1, <1>3, <1>12
  <2>2. ASSUME NEW i \in 1 .. n PROVE g[i] = g[i - 1] \o EgressOf(rs[i])
    <3>1. i \in 0 .. Len(rs) /\ i # 0
      BY <1>1, <1>3
    <3>2. g[i] = Body(g)[i]
      <4> HIDE DEF Body
      <4> QED
        BY <1>12
    <3> QED
      BY <3>1, <3>2
  <2> QED
    BY <2>1, <2>2
<1>14. ASSUME NEW i \in 1 .. n, g[i - 1] \in S PROVE g[i] \in S
  BY <1>3, <1>13, <1>14
<1>15. \A i \in 0 .. n : g[i] \in S
  BY <1>3, <1>13, <1>14, StaysIn
<1>16. g[n] \in S
  BY <1>3, <1>15
<1> QED
  BY <1>1, <1>11, <1>16, Zenon DEF GenerateEgressRules

\* The programs the goroutine runs.
LEMMA HooksAre ==
  ASSUME ready \in BOOLEAN
  PROVE  /\ ensureChains \in Seq(FwCmd)
         /\ Len(ensureChains) = IF ready = TRUE THEN 0 ELSE 6
         /\ ready = FALSE => \A i \in 1 .. 6 : ensureChains[i] = IF i <= 5 THEN Cmd("hook", Chains[i]) ELSE Cmd("ready", "DNS")
<1>1. CASE ready = TRUE
  <2>1. ensureChains = <<>>
    BY <1>1 DEF ensureChains
  <2> QED
    BY <1>1, <2>1
<1>2. CASE ready = FALSE
  <2>1. PICK p, q : p = Each("hook", Chains) /\ q = <<Cmd("ready", "DNS")>>
    OBVIOUS
  <2>2. ensureChains = p \o q
    BY <1>2, <2>1, Zenon DEF ensureChains
  <2>3. p = [i \in 1 .. 5 |-> Cmd("hook", Chains[i])]
    BY <2>1, ChainsAre, Zenon DEF Each
  <2>4. \A i \in 1 .. 5 : Cmd("hook", Chains[i]) \in FwCmd
    BY ChainsAre, CmdsAre
  <2>5. p \in Seq(FwCmd) /\ Len(p) = 5 /\ \A i \in 1 .. 5 : p[i] = Cmd("hook", Chains[i])
    BY <2>3, <2>4
  <2>6. Cmd("ready", "DNS") \in FwCmd
    <3>1. "DNS" \in ChainSet
      BY DEF ChainSet
    <3> QED
      BY <3>1, CmdsAre
  <2>7. q \in Seq(FwCmd) /\ Len(q) = 1 /\ q[1] = Cmd("ready", "DNS")
    BY <2>1, <2>6
  <2>8. PICK r : r = p \o q
    OBVIOUS
  <2>9. /\ r \in Seq(FwCmd) /\ Len(r) = Len(p) + Len(q)
        /\ \A i \in 1 .. Len(r) : r[i] = IF i <= Len(p) THEN p[i] ELSE q[i - Len(p)]
    BY <2>5, <2>7, <2>8, Concat
  <2>10. Len(r) = 6
    BY <2>5, <2>7, <2>9
  <2>11. ASSUME NEW i \in 1 .. 6 PROVE r[i] = IF i <= 5 THEN Cmd("hook", Chains[i]) ELSE Cmd("ready", "DNS")
    <3>1. CASE i <= 5
      BY <2>5, <2>9, <2>10, <3>1
    <3>2. CASE i = 6
      BY <2>5, <2>7, <2>9, <2>10, <3>2
    <3> QED
      BY <3>1, <3>2
  <2>12. ensureChains = r
    BY <2>2, <2>8
  <2> QED
    BY <1>2, <2>9, <2>10, <2>11, <2>12
<1> QED
  BY <1>1, <1>2

ChainList(fs) == fs = DnsChains \/ fs = EgressChains

LEMMA ListsAre ==
  ASSUME NEW fs, ChainList(fs)
  PROVE  /\ Len(fs) \in Nat /\ DOMAIN fs = 1 .. Len(fs) /\ Len(fs) <= 3 /\ Len(fs) >= 2
         /\ \A i \in 1 .. Len(fs) : fs[i] \in ChainSet /\ fs[i] \in Range(fs)
         /\ \A i, j \in 1 .. Len(fs) : fs[i] = fs[j] => i = j
         /\ \A c \in Range(fs) : c \in ChainSet /\ \E i \in 1 .. Len(fs) : c = fs[i]
<1>1. CASE fs = DnsChains
  <2>1. fs = <<"DNS", "DNS-OUT">> /\ Range(fs) = {"DNS", "DNS-OUT"} /\ Len(fs) = 2
    BY <1>1, ChainsAre
  <2>2. fs[1] = "DNS" /\ fs[2] = "DNS-OUT" /\ DOMAIN fs = 1 .. 2
    BY <2>1
  <2>3. \A i \in 1 .. 2 : i = 1 \/ i = 2
    OBVIOUS
  <2> QED
    BY <2>1, <2>2, <2>3 DEF ChainSet
<1>2. CASE fs = EgressChains
  <2>1. fs = <<"NAT", "NAT-POST", "FWD">> /\ Range(fs) = {"NAT", "NAT-POST", "FWD"} /\ Len(fs) = 3
    BY <1>2, ChainsAre
  <2>2. fs[1] = "NAT" /\ fs[2] = "NAT-POST" /\ fs[3] = "FWD" /\ DOMAIN fs = 1 .. 3
    BY <2>1
  <2>3. \A i \in 1 .. 3 : i = 1 \/ i = 2 \/ i = 3
    OBVIOUS
  <2> QED
    BY <2>1, <2>2, <2>3 DEF ChainSet
<1> QED
  BY <1>1, <1>2 DEF ChainList

LEMMA FlushIs ==
  ASSUME NEW fs, ChainList(fs)
  PROVE  Flush(fs) \in Seq(FwCmd) /\ Len(Flush(fs)) = Len(fs) /\ \A i \in 1 .. Len(fs) : Flush(fs)[i] = Cmd("F", fs[i])
<1>1. PICK n : n = Len(fs)
  OBVIOUS
<1>2. n \in Nat /\ DOMAIN fs = 1 .. n /\ \A i \in 1 .. n : fs[i] \in ChainSet
  BY <1>1, ListsAre
<1>3. PICK q : q = Flush(fs)
  OBVIOUS
<1>4. q = [i \in 1 .. n |-> Cmd("F", fs[i])]
  BY <1>2, <1>3, Zenon DEF Flush, Each
<1>5. \A i \in 1 .. n : Cmd("F", fs[i]) \in FwCmd
  BY <1>2, CmdsAre
<1>6. q \in Seq(FwCmd) /\ Len(q) = n /\ \A i \in 1 .. n : q[i] = Cmd("F", fs[i])
  BY <1>2, <1>4, <1>5
<1> QED
  BY <1>1, <1>3, <1>6, Zenon

LEMMA JoinedCmds ==
  ASSUME NEW p \in Seq(FwCmd), NEW q \in Seq(FwCmd), NEW r, r = p \o q
  PROVE  /\ r \in Seq(FwCmd) /\ Len(r) = Len(p) + Len(q)
         /\ \A i \in 1 .. Len(r) : r[i] = IF i <= Len(p) THEN p[i] ELSE q[i - Len(p)]
  BY Concat

\* Where q begins is where the program has arrived.
Begins(q, fs, g) ==
  /\ q \in Seq(FwCmd) /\ Len(q) <= 6 + Len(fs) + Len(g)
  /\ Len(q) = (IF ready = TRUE THEN 0 ELSE 6) + Len(fs) + Len(g)
  /\ \A i \in 1 .. Len(q) : q[i] = ProgramAt(fs, g, 6 + Len(fs) + Len(g) - Len(q) + i)

LEMMA ProgramStarts ==
  ASSUME ready \in BOOLEAN, NEW fs, ChainList(fs), NEW g \in Seq(RuleCmds(fs)), NEW e, e = ensureChains
  PROVE  Begins(e \o Flush(fs) \o g, fs, g) /\ Begins(e \o (Flush(fs) \o g), fs, g)
<1>1. PICK L, G, E, f : L = Len(fs) /\ G = Len(g) /\ E = Len(e) /\ f = Flush(fs)
  OBVIOUS
<1>2. L \in Nat /\ f \in Seq(FwCmd) /\ Len(f) = L /\ \A i \in 1 .. L : f[i] = Cmd("F", fs[i])
  BY <1>1, FlushIs, ListsAre
<1>3. g \in Seq(FwCmd) /\ G \in Nat
  <2>1. RuleCmds(fs) \subseteq FwCmd
    BY CmdsAre, ListsAre
  <2> QED
    BY <1>1, <2>1
<1>4. /\ e \in Seq(FwCmd) /\ E = IF ready = TRUE THEN 0 ELSE 6
      /\ E = 6 => \A i \in 1 .. 6 : e[i] = IF i <= 5 THEN Cmd("hook", Chains[i]) ELSE Cmd("ready", "DNS")
  <2>1. /\ ensureChains \in Seq(FwCmd) /\ Len(ensureChains) = IF ready = TRUE THEN 0 ELSE 6
        /\ ready = FALSE => \A i \in 1 .. 6 : ensureChains[i] = IF i <= 5 THEN Cmd("hook", Chains[i]) ELSE Cmd("ready", "DNS")
    BY HooksAre
  <2>2. CASE ready = TRUE
    BY <1>1, <2>1, <2>2
  <2>3. CASE ready = FALSE
    BY <1>1, <2>1, <2>3
  <2> QED
    BY <2>2, <2>3
<1>5. E \in Nat /\ L \in Nat /\ G \in Nat /\ (E = 0 \/ E = 6)
  BY <1>2, <1>3, <1>4
<1>6. ASSUME NEW q \in Seq(FwCmd), Len(q) = E + L + G,
             \A i \in 1 .. E + L + G : q[i] = IF i <= E THEN e[i] ELSE IF i <= E + L THEN f[i - E] ELSE g[i - E - L]
      PROVE  Begins(q, fs, g)
  <2>1. ASSUME NEW i \in 1 .. E + L + G PROVE q[i] = ProgramAt(fs, g, 6 + L + G - (E + L + G) + i)
    <3>1. PICK k : k = 6 + L + G - (E + L + G) + i
      OBVIOUS
    <3>2. k = i + (6 - E) /\ k \in 1 .. 6 + L + G /\ k \in Nat /\ i \in Nat
      BY <1>5, <3>1
    <3>3. q[i] = IF i <= E THEN e[i] ELSE IF i <= E + L THEN f[i - E] ELSE g[i - E - L]
      BY <1>6
    <3>4. CASE i <= E
      <4>1. E = 6 /\ i \in 1 .. 6 /\ k = i
        BY <1>5, <3>2, <3>4
      <4>2. q[i] = IF k <= 5 THEN Cmd("hook", Chains[k]) ELSE Cmd("ready", "DNS")
        BY <1>4, <3>3, <3>4, <4>1
      <4>3. k <= 5 \/ k = 6
        BY <4>1
      <4> QED
        BY <3>1, <4>2, <4>3 DEF ProgramAt
    <3>5. CASE i > E /\ i <= E + L
      <4>1. PICK m : m = i - E
        OBVIOUS
      <4>2. m \in 1 .. L /\ m = k - 6 /\ k > 6 /\ k <= 6 + L
        BY <1>5, <3>2, <3>5, <4>1
      <4>3. q[i] = f[m] /\ f[m] = Cmd("F", fs[m])
        <5>1. ~(i <= E)
          BY <1>5, <3>2, <3>5
        <5>2. q[i] = f[m]
          BY <3>3, <3>5, <4>1, <5>1, Zenon
        <5> QED
          BY <1>2, <4>2, <5>2, Zenon
      <4>4. ProgramAt(fs, g, k) = Cmd("F", fs[m])
        BY <1>1, <1>5, <3>2, <4>2 DEF ProgramAt
      <4> QED
        BY <3>1, <4>3, <4>4
    <3>6. CASE i > E + L
      <4>1. PICK m : m = i - E - L
        OBVIOUS
      <4>2. m = k - 6 - L /\ k > 6 + L /\ ~(k <= 5) /\ k # 6
        BY <1>5, <3>2, <3>6, <4>1
      <4>3. q[i] = g[m]
        <5>1. ~(i <= E) /\ ~(i <= E + L)
          BY <1>5, <3>2, <3>6
        <5> QED
          BY <3>3, <4>1, <5>1, Zenon
      <4>4. ProgramAt(fs, g, k) = g[m]
        BY <1>1, <1>5, <3>2, <4>2 DEF ProgramAt
      <4> QED
        BY <3>1, <4>3, <4>4
    <3> QED
      BY <1>5, <3>2, <3>4, <3>5, <3>6
  <2> QED
    BY <1>1, <1>2, <1>3, <1>4, <1>6, <2>1 DEF Begins
<1>7. PICK p, q : p = e \o f \o g /\ q = e \o (f \o g)
  OBVIOUS
<1>8. Begins(p, fs, g)
  <2>1. PICK h : h = e \o f
    OBVIOUS
  <2>2. /\ h \in Seq(FwCmd) /\ Len(h) = E + L
        /\ \A i \in 1 .. E + L : h[i] = IF i <= E THEN e[i] ELSE f[i - E]
    <3>1. /\ h \in Seq(FwCmd) /\ Len(h) = Len(e) + Len(f)
          /\ \A i \in 1 .. Len(h) : h[i] = IF i <= Len(e) THEN e[i] ELSE f[i - Len(e)]
      <4>1. e \in Seq(FwCmd) /\ f \in Seq(FwCmd)
        BY <1>2, <1>4
      <4> QED
        BY <2>1, <4>1, JoinedCmds
    <3> QED
      BY <1>1, <1>2, <3>1
  <2>3. p = h \o g
    BY <1>7, <2>1
  <2>4. /\ p \in Seq(FwCmd) /\ Len(p) = E + L + G
        /\ \A i \in 1 .. E + L + G : p[i] = IF i <= E + L THEN h[i] ELSE g[i - (E + L)]
    <3>1. /\ p \in Seq(FwCmd) /\ Len(p) = Len(h) + Len(g)
          /\ \A i \in 1 .. Len(p) : p[i] = IF i <= Len(h) THEN h[i] ELSE g[i - Len(h)]
      BY <1>3, <2>2, <2>3, JoinedCmds
    <3> QED
      BY <1>1, <2>2, <3>1
  <2>5. \A i \in 1 .. E + L + G : p[i] = IF i <= E THEN e[i] ELSE IF i <= E + L THEN f[i - E] ELSE g[i - E - L]
    BY <1>5, <2>2, <2>4
  <2> QED
    BY <1>6, <2>4, <2>5
<1>9. Begins(q, fs, g)
  <2>1. PICK h : h = f \o g
    OBVIOUS
  <2>2. /\ h \in Seq(FwCmd) /\ Len(h) = L + G
        /\ \A i \in 1 .. L + G : h[i] = IF i <= L THEN f[i] ELSE g[i - L]
    <3>1. /\ h \in Seq(FwCmd) /\ Len(h) = Len(f) + Len(g)
          /\ \A i \in 1 .. Len(h) : h[i] = IF i <= Len(f) THEN f[i] ELSE g[i - Len(f)]
      <4>1. f \in Seq(FwCmd) /\ g \in Seq(FwCmd)
        BY <1>2, <1>3
      <4> QED
        BY <2>1, <4>1, JoinedCmds
    <3> QED
      BY <1>1, <1>2, <3>1
  <2>3. q = e \o h
    BY <1>7, <2>1
  <2>4. /\ q \in Seq(FwCmd) /\ Len(q) = E + (L + G)
        /\ \A i \in 1 .. E + (L + G) : q[i] = IF i <= E THEN e[i] ELSE h[i - E]
    <3>1. /\ q \in Seq(FwCmd) /\ Len(q) = Len(e) + Len(h)
          /\ \A i \in 1 .. Len(q) : q[i] = IF i <= Len(e) THEN e[i] ELSE h[i - Len(e)]
      <4>1. e \in Seq(FwCmd) /\ h \in Seq(FwCmd)
        BY <1>4, <2>2
      <4> QED
        BY <2>3, <4>1, JoinedCmds
    <3> QED
      BY <1>1, <2>2, <3>1
  <2>5. \A i \in 1 .. E + L + G : q[i] = IF i <= E THEN e[i] ELSE IF i <= E + L THEN f[i - E] ELSE g[i - E - L]
    <3> SUFFICES ASSUME NEW i \in 1 .. E + L + G
                 PROVE  q[i] = IF i <= E THEN e[i] ELSE IF i <= E + L THEN f[i - E] ELSE g[i - E - L]
      OBVIOUS
    <3>1. CASE i <= E
      BY <1>5, <2>4, <3>1
    <3>2. CASE i > E
      <4>1. PICK k : k = i - E
        OBVIOUS
      <4>2. k \in 1 .. L + G /\ q[i] = h[k]
        BY <1>5, <2>4, <3>2, <4>1
      <4>3. h[k] = IF k <= L THEN f[k] ELSE g[k - L]
        BY <2>2, <4>2
      <4> QED
        BY <1>5, <3>2, <4>1, <4>2, <4>3
    <3> QED
      BY <1>5, <3>1, <3>2
  <2>6. Len(q) = E + L + G
    BY <1>5, <2>4
  <2> QED
    BY <1>6, <2>4, <2>5, <2>6
<1> QED
  BY <1>1, <1>7, <1>8, <1>9, Zenon

\* The command that comes next, by how far the program is.
LEMMA NextCommand ==
  ASSUME NEW fs, ChainList(fs), NEW g \in Seq(RuleCmds(fs)), todo \in Seq(FwCmd), todo # <<>>, Remains(fs, g)
  PROVE  /\ Done0(fs, g) \in 0 .. 5 + Len(fs) + Len(g) /\ Head(todo) \in FwCmd
         /\ \/ \E k \in 1 .. 5 : Done0(fs, g) = k - 1 /\ Head(todo) = Cmd("hook", Chains[k])
            \/ Done0(fs, g) = 5 /\ Head(todo) = Cmd("ready", "DNS")
            \/ \E k \in 1 .. Len(fs) : Done0(fs, g) = 5 + k /\ Head(todo) = Cmd("F", fs[k])
            \/ \E k \in 1 .. Len(g) : Done0(fs, g) = 5 + Len(fs) + k /\ Head(todo) = g[k]
<1>1. PICK L, G, place, m : L = Len(fs) /\ G = Len(g) /\ place = Done0(fs, g) /\ m = Len(todo)
  OBVIOUS
<1>2. L \in Nat /\ G \in Nat /\ m \in Nat /\ m >= 1 /\ m <= 6 + L + G /\ place = 6 + L + G - m
  BY <1>1, ListsAre DEF Remains, Done0
<1>3. place \in 0 .. 5 + L + G
  BY <1>2
<1>4. Head(todo) = todo[1] /\ Head(todo) \in FwCmd /\ 1 \in DOMAIN todo
  BY <1>1, <1>2
<1>5. Head(todo) = ProgramAt(fs, g, place + 1)
  BY <1>1, <1>4 DEF Remains
<1>6. PICK k : k = place + 1
  OBVIOUS
<1>7. k \in 1 .. 6 + L + G /\ k \in Nat /\ place = k - 1 /\ Head(todo) = ProgramAt(fs, g, k)
  BY <1>2, <1>3, <1>5, <1>6
<1>8. CASE k <= 5
  <2>1. Head(todo) = Cmd("hook", Chains[k]) /\ k \in 1 .. 5
    BY <1>2, <1>7, <1>8 DEF ProgramAt
  <2> QED
    BY <1>1, <1>3, <1>4, <1>7, <2>1
<1>9. CASE k = 6
  <2>1. Head(todo) = Cmd("ready", "DNS") /\ place = 5
    BY <1>7, <1>9 DEF ProgramAt
  <2> QED
    BY <1>1, <1>3, <1>4, <2>1
<1>10. CASE k > 6 /\ k <= 6 + L
  <2>1. PICK j : j = k - 6
    OBVIOUS
  <2>2. j \in 1 .. L /\ place = 5 + j
    BY <1>2, <1>7, <1>10, <2>1
  <2>3. Head(todo) = Cmd("F", fs[j])
    BY <1>1, <1>2, <1>7, <1>10, <2>1 DEF ProgramAt
  <2> QED
    BY <1>1, <1>3, <1>4, <2>2, <2>3
<1>11. CASE k > 6 + L
  <2>1. PICK j : j = k - 6 - L
    OBVIOUS
  <2>2. j \in 1 .. G /\ place = 5 + L + j
    BY <1>2, <1>7, <1>11, <2>1
  <2>3. Head(todo) = g[j]
    BY <1>1, <1>2, <1>7, <1>11, <2>1 DEF ProgramAt
  <2> QED
    BY <1>1, <1>3, <1>4, <2>2, <2>3
<1> QED
  BY <1>2, <1>7, <1>8, <1>9, <1>10, <1>11

\* A command run leaves the rest of its program.
LEMMA RestRemains ==
  ASSUME NEW fs, ChainList(fs), NEW g \in Seq(RuleCmds(fs)), todo \in Seq(FwCmd), todo # <<>>, Remains(fs, g),
         todo' = Tail(todo)
  PROVE  /\ Remains(fs, g)' /\ Done0(fs, g)' = Done0(fs, g) + 1 /\ todo' \in Seq(FwCmd)
         /\ Done0(fs, g)' = 6 + Len(fs) + Len(g) => todo' = <<>>
<1>1. PICK N, place, m, q : N = 6 + Len(fs) + Len(g) /\ place = Done0(fs, g) /\ m = Len(todo) /\ q = Tail(todo)
  OBVIOUS
<1>2. N \in Nat /\ m \in Nat /\ m >= 1 /\ m <= N /\ place = N - m
  BY <1>1, ListsAre DEF Remains, Done0
<1>3. q \in Seq(FwCmd) /\ Len(q) = m - 1 /\ \A i \in 1 .. m - 1 : q[i] = todo[i + 1]
  BY <1>1, <1>2
<1>4. \A i \in 1 .. m : todo[i] = ProgramAt(fs, g, place + i)
  BY <1>1 DEF Remains
<1>5. ASSUME NEW i \in 1 .. m - 1 PROVE q[i] = ProgramAt(fs, g, place + 1 + i)
  <2>1. PICK k : k = i + 1
    OBVIOUS
  <2>2. k \in 1 .. m /\ q[i] = todo[k] /\ place + k = place + 1 + i
    BY <1>2, <1>3, <2>1
  <2> QED
    BY <1>4, <2>2
<1>6. Done0(fs, g)' = place + 1
  BY <1>1, <1>2, <1>3 DEF Done0
<1>7. Remains(fs, g)'
  <2>1. Len(todo') <= N
    BY <1>1, <1>2, <1>3
  <2>2. \A i \in DOMAIN todo' : todo'[i] = ProgramAt(fs, g, Done0(fs, g)' + i)
    BY <1>1, <1>2, <1>3, <1>5, <1>6
  <2> QED
    BY <1>1, <2>1, <2>2 DEF Remains
<1>8. ASSUME place + 1 = N PROVE q = <<>>
  BY <1>2, <1>3, <1>8
<1> QED
  BY <1>1, <1>3, <1>6, <1>7, <1>8

\* What one command does.
LEMMA TakeIs ==
  ASSUME NEW cmd \in FwCmd, Take(cmd), NEW c, c = cmd.chain
  PROVE  /\ cmd.verb = "hook" => jumps' = [jumps EXCEPT ![c] = IF @ = 0 THEN 1 ELSE @] /\ UNCHANGED <<filled, ready>>
         /\ cmd.verb = "ready" => ready' = TRUE /\ UNCHANGED <<jumps, filled>>
         /\ cmd.verb = "F" => filled' = [filled EXCEPT ![c] = <<>>] /\ UNCHANGED <<jumps, ready>>
         /\ cmd.verb = "A" => filled' = [filled EXCEPT ![c] = Append(@, Rule(cmd))] /\ UNCHANGED <<jumps, ready>>
         /\ cmd.verb = "D" => jumps' = [jumps EXCEPT ![c] = IF @ = 0 THEN 0 ELSE @ - 1] /\ UNCHANGED <<filled, ready>>
         /\ cmd.verb = "X" => UNCHANGED <<jumps, filled, ready>>
  BY DEF Take, Hook

LEMMA TakeKeepsTypes ==
  ASSUME NEW cmd \in FwCmd, Take(cmd), JumpsAre, ready \in BOOLEAN, fwFaults \in Nat, fwFaults' = fwFaults
  PROVE  JumpsAre' /\ ready' \in BOOLEAN
<1>1. PICK c : c = cmd.chain
  OBVIOUS
<1>2. c \in ChainSet /\ Rule(cmd) \in FwRule /\ cmd.verb \in {"hook", "ready", "F", "A", "D", "X"}
  BY <1>1, CmdsAre
<1>3. CASE cmd.verb = "hook"
  <2>1. jumps' = [jumps EXCEPT ![c] = IF @ = 0 THEN 1 ELSE @] /\ UNCHANGED <<filled, ready>>
    BY <1>1, <1>3, TakeIs
  <2> QED
    BY <1>2, <2>1 DEF JumpsAre
<1>4. CASE cmd.verb = "ready"
  <2>1. ready' = TRUE /\ UNCHANGED <<jumps, filled>>
    BY <1>1, <1>4, TakeIs
  <2> QED
    BY <1>2, <2>1 DEF JumpsAre
<1>5. CASE cmd.verb = "F"
  <2>1. filled' = [filled EXCEPT ![c] = <<>>] /\ UNCHANGED <<jumps, ready>>
    BY <1>1, <1>5, TakeIs
  <2>2. <<>> \in Seq(FwRule)
    OBVIOUS
  <2> QED
    BY <1>2, <2>1, <2>2 DEF JumpsAre
<1>6. CASE cmd.verb = "A"
  <2>1. filled' = [filled EXCEPT ![c] = Append(@, Rule(cmd))] /\ UNCHANGED <<jumps, ready>>
    BY <1>1, <1>6, TakeIs
  <2>2. PICK q : q = Append(filled[c], Rule(cmd))
    OBVIOUS
  <2>3. q \in Seq(FwRule)
    BY <1>2, <2>2 DEF JumpsAre
  <2>4. filled' = [filled EXCEPT ![c] = q]
    BY <2>1, <2>2
  <2> QED
    BY <1>2, <2>1, <2>3, <2>4 DEF JumpsAre
<1>7. CASE cmd.verb = "D"
  <2>1. jumps' = [jumps EXCEPT ![c] = IF @ = 0 THEN 0 ELSE @ - 1] /\ UNCHANGED <<filled, ready>>
    BY <1>1, <1>7, TakeIs
  <2> QED
    BY <1>2, <2>1 DEF JumpsAre
<1>8. CASE cmd.verb = "X"
  <2>1. UNCHANGED <<jumps, filled, ready>>
    BY <1>1, <1>8, TakeIs
  <2> QED
    BY <2>1 DEF JumpsAre
<1> QED
  BY <1>2, <1>3, <1>4, <1>5, <1>6, <1>7, <1>8

IndexOf(fs, place) == IF place >= 6 + Len(fs) THEN place - 6 - Len(fs) ELSE 0
LEMMA FilledMeans ==
  ASSUME NEW fs, ChainList(fs), NEW g, NEW place
  PROVE  FilledSoFar(fs, g, place) <=>
           \A j \in 1 .. Len(fs) : place >= 6 + j => filled[fs[j]] = FilledBy(g, fs[j])[IndexOf(fs, place)]
<1>1. DOMAIN fs = 1 .. Len(fs)
  BY ListsAre
<1> QED
  BY <1>1, Zenon DEF FilledSoFar, IndexOf

\* A command of the program runs: what the program has done so far stays so.
LEMMA ProgramRuns ==
  ASSUME NEW fs, ChainList(fs), NEW g \in Seq(RuleCmds(fs)), NEW bad \in BOOLEAN,
         todo \in Seq(FwCmd), todo # <<>>, JumpsAre, ready \in BOOLEAN, AllHooked,
         Going(fs, g, bad), Take(Head(todo)), todo' = Tail(todo)
  PROVE  /\ Going(fs, g, bad)' /\ AllHooked' /\ (ready = TRUE => ready' = TRUE)
         /\ \A c \in ChainSet \ Range(fs) : filled'[c] = filled[c]
         /\ \A j \in 1 .. Len(fs) : Done0(fs, g)' < 6 + j => filled'[fs[j]] = filled[fs[j]]
<1>1. PICK L, G, place, cmd : L = Len(fs) /\ G = Len(g) /\ place = Done0(fs, g) /\ cmd = Head(todo)
  OBVIOUS
<1>2. /\ place \in 0 .. 5 + L + G /\ cmd \in FwCmd
      /\ \/ \E k \in 1 .. 5 : place = k - 1 /\ cmd = Cmd("hook", Chains[k])
         \/ place = 5 /\ cmd = Cmd("ready", "DNS")
         \/ \E k \in 1 .. L : place = 5 + k /\ cmd = Cmd("F", fs[k])
         \/ \E k \in 1 .. G : place = 5 + L + k /\ cmd = g[k]
  BY <1>1, NextCommand DEF Going
<1>3. /\ L \in Nat /\ G \in Nat /\ place \in Nat /\ L >= 2 /\ L <= 3
      /\ \A i \in 1 .. L : fs[i] \in ChainSet /\ fs[i] \in Range(fs)
      /\ \A i, j \in 1 .. L : fs[i] = fs[j] => i = j
  BY <1>1, <1>2, ListsAre
<1>4. Remains(fs, g)' /\ Done0(fs, g)' = place + 1
  <2>1. Remains(fs, g)
    BY DEF Going
  <2>2. Remains(fs, g)' /\ Done0(fs, g)' = Done0(fs, g) + 1
    BY <2>1, RestRemains
  <2> QED
    BY <1>1, <2>2
<1>5. /\ place < 6 => ready = FALSE /\ \A j \in 1 .. 5 : j <= place => jumps[Chains[j]] > 0
      /\ place >= 6 => ready = TRUE
      /\ bad = FALSE => \A j \in 1 .. L : place >= 6 + j => filled[fs[j]] = FilledBy(g, fs[j])[IndexOf(fs, place)]
  BY <1>1, FilledMeans DEF Going, Hooked
<1>6. Take(cmd)
  BY <1>1
<1>7. ASSUME place + 1 < 6 => ready' = FALSE /\ \A j \in 1 .. 5 : j <= place + 1 => jumps'[Chains[j]] > 0,
             place + 1 >= 6 => ready' = TRUE,
             bad = FALSE => \A j \in 1 .. L : place + 1 >= 6 + j => filled'[fs[j]] = FilledBy(g, fs[j])[IndexOf(fs, place + 1)]
      PROVE  Going(fs, g, bad)'
  <2>1. PICK to : to = place + 1
    OBVIOUS
  <2>2. Done0(fs, g)' = to
    BY <1>4, <2>1
  <2>3. Hooked(to, bad = TRUE)'
    BY <1>3, <1>7, <2>1 DEF Hooked
  <2>4. bad = FALSE => FilledSoFar(fs, g, to)'
    <3>1. bad = FALSE => \A j \in 1 .. L : to >= 6 + j => filled'[fs[j]] = FilledBy(g, fs[j])[IndexOf(fs, to)]
      BY <1>7, <2>1
    <3>2. DOMAIN fs = 1 .. L
      BY <1>1, ListsAre
    <3> QED
      BY <1>1, <3>1, <3>2, Zenon DEF FilledSoFar, IndexOf
  <2> QED
    BY <1>4, <2>2, <2>3, <2>4 DEF Going
<1>8. CASE \E k \in 1 .. 5 : place = k - 1 /\ cmd = Cmd("hook", Chains[k])
  <2>1. PICK k \in 1 .. 5 : place = k - 1 /\ cmd = Cmd("hook", Chains[k])
    BY <1>8
  <2>2. PICK c : c = Chains[k]
    OBVIOUS
  <2>3. c \in ChainSet /\ cmd.verb = "hook" /\ cmd.chain = c
    BY <2>1, <2>2, ChainsAre, CmdsAre
  <2>4. jumps' = [jumps EXCEPT ![c] = IF @ = 0 THEN 1 ELSE @] /\ filled' = filled /\ ready' = ready
    BY <1>2, <1>6, <2>3, TakeIs
  <2>5. \A j \in 1 .. 5 : Chains[j] \in ChainSet
    BY ChainsAre
  <2>6. \A d \in ChainSet : jumps'[d] = IF d = c THEN (IF jumps[d] = 0 THEN 1 ELSE jumps[d]) ELSE jumps[d]
    BY <2>3, <2>4 DEF JumpsAre
  <2>7. \A d \in ChainSet : jumps[d] \in Nat
    BY DEF JumpsAre
  <2>8. ASSUME NEW j \in 1 .. 5, j <= place + 1 PROVE jumps'[Chains[j]] > 0
    <3>1. PICK d : d = Chains[j]
      OBVIOUS
    <3>2. d \in ChainSet /\ jumps[d] \in Nat
      BY <2>5, <2>7, <3>1
    <3>3. j <= place => jumps[d] > 0
      BY <1>5, <2>1, <3>1
    <3>4. j <= place \/ j = k
      BY <2>1, <2>8
    <3> QED
      BY <2>2, <2>6, <3>1, <3>2, <3>3, <3>4
  <2>9. place + 1 < 6 /\ ready = FALSE /\ ready' = FALSE
    BY <1>5, <2>1, <2>4
  <2>10. Going(fs, g, bad)'
    <3>1. place + 1 < 6 => ready' = FALSE /\ \A j \in 1 .. 5 : j <= place + 1 => jumps'[Chains[j]] > 0
      BY <2>8, <2>9
    <3>2. place + 1 >= 6 => ready' = TRUE
      BY <1>3, <2>9
    <3>3. bad = FALSE => \A j \in 1 .. L : place + 1 >= 6 + j => filled'[fs[j]] = FilledBy(g, fs[j])[IndexOf(fs, place + 1)]
      BY <1>3, <2>9
    <3> QED
      BY <1>7, <3>1, <3>2, <3>3, Zenon
  <2> QED
    BY <2>4, <2>9, <2>10 DEF AllHooked
<1>9. CASE place = 5 /\ cmd = Cmd("ready", "DNS")
  <2>1. cmd.verb = "ready"
    <3>1. "DNS" \in ChainSet
      BY DEF ChainSet
    <3> QED
      BY <1>9, <3>1, CmdsAre
  <2>2. ready' = TRUE /\ jumps' = jumps /\ filled' = filled
    BY <1>2, <1>6, <2>1, TakeIs
  <2>3. \A j \in 1 .. 5 : jumps[Chains[j]] > 0
    BY <1>5, <1>9
  <2>4. \A c \in ChainSet : jumps'[c] > 0
    BY <2>2, <2>3, ChainsAre
  <2>5. Going(fs, g, bad)'
    <3>1. place + 1 < 6 => ready' = FALSE /\ \A j \in 1 .. 5 : j <= place + 1 => jumps'[Chains[j]] > 0
      BY <1>9
    <3>2. place + 1 >= 6 => ready' = TRUE
      BY <2>2
    <3>3. bad = FALSE => \A j \in 1 .. L : place + 1 >= 6 + j => filled'[fs[j]] = FilledBy(g, fs[j])[IndexOf(fs, place + 1)]
      BY <1>3, <1>9
    <3> QED
      BY <1>7, <3>1, <3>2, <3>3, Zenon
  <2> QED
    BY <2>2, <2>4, <2>5 DEF AllHooked
<1>10. CASE \E k \in 1 .. L : place = 5 + k /\ cmd = Cmd("F", fs[k])
  <2>1. PICK k \in 1 .. L : place = 5 + k /\ cmd = Cmd("F", fs[k])
    BY <1>10
  <2>2. PICK c : c = fs[k]
    OBVIOUS
  <2>3. c \in ChainSet /\ c \in Range(fs) /\ cmd.verb = "F" /\ cmd.chain = c
    BY <1>3, <2>1, <2>2, CmdsAre
  <2>4. filled' = [filled EXCEPT ![c] = <<>>] /\ jumps' = jumps /\ ready' = ready
    BY <1>2, <1>6, <2>3, TakeIs
  <2>5. \A d \in ChainSet : filled'[d] = IF d = c THEN <<>> ELSE filled[d]
    BY <2>3, <2>4 DEF JumpsAre
  <2>6. ready = TRUE /\ ready' = TRUE /\ AllHooked'
    BY <1>3, <1>5, <2>1, <2>4 DEF AllHooked
  <2>7. k \in Nat /\ IndexOf(fs, place) = 0 /\ IndexOf(fs, place + 1) = 0
    BY <1>1, <1>3, <2>1 DEF IndexOf
  <2>8. ASSUME bad = FALSE, NEW j \in 1 .. L, place + 1 >= 6 + j
        PROVE  filled'[fs[j]] = FilledBy(g, fs[j])[IndexOf(fs, place + 1)]
    <3>1. PICK d : d = fs[j]
      OBVIOUS
    <3>2. d \in ChainSet /\ (d = c => j = k) /\ j <= k
      BY <1>3, <2>1, <2>2, <2>8, <3>1
    <3>3. CASE j = k
      <4>1. g \in Seq(FwCmd)
        BY CmdsAre, ListsAre
      <4>2. FilledBy(g, d)[0] = <<>>
        BY <4>1, FilledUnfolds
      <4>3. filled'[d] = <<>>
        BY <2>2, <2>5, <3>1, <3>2, <3>3
      <4> QED
        BY <2>7, <3>1, <4>2, <4>3
    <3>4. CASE j # k
      <4>1. place >= 6 + j
        BY <1>3, <2>1, <3>2, <3>4
      <4>2. filled[d] = FilledBy(g, d)[0]
        BY <1>5, <2>7, <2>8, <3>1, <4>1
      <4>3. filled'[d] = filled[d]
        BY <2>5, <3>2, <3>4
      <4> QED
        BY <2>7, <3>1, <4>2, <4>3
    <3> QED
      BY <3>3, <3>4
  <2>9. Going(fs, g, bad)'
    <3>1. place + 1 < 6 => ready' = FALSE /\ \A j \in 1 .. 5 : j <= place + 1 => jumps'[Chains[j]] > 0
      BY <1>3, <2>1
    <3>2. place + 1 >= 6 => ready' = TRUE
      BY <2>6
    <3>3. bad = FALSE => \A j \in 1 .. L : place + 1 >= 6 + j => filled'[fs[j]] = FilledBy(g, fs[j])[IndexOf(fs, place + 1)]
      BY <2>8
    <3> QED
      BY <1>7, <3>1, <3>2, <3>3, Zenon
  <2>10. \A d \in ChainSet \ Range(fs) : filled'[d] = filled[d]
    BY <2>3, <2>5
  <2>11. ASSUME NEW j \in 1 .. L, place + 1 < 6 + j PROVE filled'[fs[j]] = filled[fs[j]]
    <3>1. j # k
      BY <1>3, <2>1, <2>11
    <3>2. fs[j] \in ChainSet /\ fs[j] # c
      BY <1>3, <2>2, <3>1
    <3> QED
      BY <2>5, <3>2
  <2> QED
    BY <1>1, <1>4, <2>6, <2>9, <2>10, <2>11
<1>11. CASE \E k \in 1 .. G : place = 5 + L + k /\ cmd = g[k]
  <2>1. PICK k \in 1 .. G : place = 5 + L + k /\ cmd = g[k]
    BY <1>11
  <2>2. PICK c : c = cmd.chain
    OBVIOUS
  <2>3. cmd \in RuleCmds(fs)
    BY <1>1, <2>1
  <2>4. cmd.verb = "A" /\ c \in Range(fs) /\ c \in ChainSet
    BY <2>2, <2>3, CmdsAre, ListsAre
  <2>5. PICK r : r = Rule(cmd)
    OBVIOUS
  <2>6. filled' = [filled EXCEPT ![c] = Append(@, r)] /\ jumps' = jumps /\ ready' = ready
    BY <1>2, <1>6, <2>2, <2>4, <2>5, TakeIs
  <2>7. \A d \in ChainSet : filled'[d] = IF d = c THEN Append(filled[d], r) ELSE filled[d]
    BY <2>4, <2>6 DEF JumpsAre
  <2>8. ready = TRUE /\ ready' = TRUE /\ AllHooked'
    BY <1>3, <1>5, <2>1, <2>6 DEF AllHooked
  <2>9. k \in Nat /\ IndexOf(fs, place) = k - 1 /\ IndexOf(fs, place + 1) = k
    BY <1>1, <1>3, <2>1 DEF IndexOf
  <2>10. ASSUME bad = FALSE, NEW j \in 1 .. L PROVE filled'[fs[j]] = FilledBy(g, fs[j])[IndexOf(fs, place + 1)]
    <3>1. PICK d, m : d = fs[j] /\ m = k - 1
      OBVIOUS
    <3>2. d \in ChainSet /\ place >= 6 + j
      BY <1>3, <2>1, <3>1
    <3>3. filled[d] = FilledBy(g, d)[m]
      BY <1>5, <2>9, <2>10, <3>1, <3>2
    <3>4. g \in Seq(FwCmd)
      BY CmdsAre, ListsAre
    <3>5. FilledBy(g, d)[k] = IF g[k].verb = "A" /\ g[k].chain = d THEN Append(FilledBy(g, d)[k - 1], Rule(g[k]))
                              ELSE FilledBy(g, d)[k - 1]
      BY <1>1, <2>1, <3>4, FilledUnfolds
    <3>6. FilledBy(g, d)[k] = IF c = d THEN Append(filled[d], r) ELSE filled[d]
      BY <2>1, <2>2, <2>4, <2>5, <3>1, <3>3, <3>5
    <3>7. filled'[d] = FilledBy(g, d)[k]
      BY <2>7, <3>2, <3>6
    <3> QED
      BY <2>9, <3>1, <3>7
  <2>11. Going(fs, g, bad)'
    <3>1. place + 1 < 6 => ready' = FALSE /\ \A j \in 1 .. 5 : j <= place + 1 => jumps'[Chains[j]] > 0
      BY <1>3, <2>1
    <3>2. place + 1 >= 6 => ready' = TRUE
      BY <2>8
    <3>3. bad = FALSE => \A j \in 1 .. L : place + 1 >= 6 + j => filled'[fs[j]] = FilledBy(g, fs[j])[IndexOf(fs, place + 1)]
      BY <2>10
    <3> QED
      BY <1>7, <3>1, <3>2, <3>3, Zenon
  <2>12. \A d \in ChainSet \ Range(fs) : filled'[d] = filled[d]
    BY <2>4, <2>7
  <2>13. \A j \in 1 .. L : ~(place + 1 < 6 + j)
    BY <1>3, <2>1
  <2> QED
    BY <1>1, <1>4, <2>8, <2>11, <2>12, <2>13
<1> QED
  BY <1>2, <1>8, <1>9, <1>10, <1>11

\* A command of the program fails.
LEMMA ProgramFails ==
  ASSUME NEW fs, ChainList(fs), NEW g \in Seq(RuleCmds(fs)), NEW bad \in BOOLEAN,
         todo \in Seq(FwCmd), todo # <<>>, JumpsAre, ready \in BOOLEAN, AllHooked, fwFaults \in Nat,
         Going(fs, g, bad), RunFails
  PROVE  Going(fs, g, TRUE)' /\ AllHooked' /\ JumpsAre' /\ ready' = ready /\ filled' = filled
<1>1. PICK L, G, place, cmd : L = Len(fs) /\ G = Len(g) /\ place = Done0(fs, g) /\ cmd = Head(todo)
  OBVIOUS
<1>2. /\ place \in 0 .. 5 + L + G /\ cmd \in FwCmd
      /\ \/ \E k \in 1 .. 5 : place = k - 1 /\ cmd = Cmd("hook", Chains[k])
         \/ place = 5 /\ cmd = Cmd("ready", "DNS")
         \/ \E k \in 1 .. L : place = 5 + k /\ cmd = Cmd("F", fs[k])
         \/ \E k \in 1 .. G : place = 5 + L + k /\ cmd = g[k]
  BY <1>1, NextCommand DEF Going
<1>3. /\ L \in Nat /\ G \in Nat /\ place \in Nat
      /\ \A i \in 1 .. L : fs[i] \in ChainSet
  BY <1>1, <1>2, ListsAre
<1>4. cmd.verb = "hook" => place <= 4
  <2>1. \A k \in 1 .. L : Cmd("F", fs[k]).verb = "F"
    BY <1>3, CmdsAre
  <2>2. \A k \in 1 .. G : g[k].verb = "A"
    BY <1>1, CmdsAre
  <2>3. Cmd("ready", "DNS").verb = "ready"
    BY DEF Cmd
  <2> QED
    BY <1>2, <2>1, <2>2, <2>3
<1>5. cmd.verb # "hook" /\ cmd.verb # "ready" => place >= 6
  <2>1. \A k \in 1 .. 5 : Cmd("hook", Chains[k]).verb = "hook"
    BY ChainsAre, CmdsAre
  <2>2. Cmd("ready", "DNS").verb = "ready"
    BY DEF Cmd
  <2> QED
    BY <1>2, <1>3, <2>1, <2>2
<1>6. /\ place < 6 => ready = FALSE /\ \A j \in 1 .. 5 : j <= place => jumps[Chains[j]] > 0
      /\ place >= 6 => ready = TRUE
  BY <1>1 DEF Going, Hooked
<1>7. ready' = ready /\ filled' = filled /\ fwFaults' = fwFaults + 1
  BY DEF RunFails, FwFault
<1>8. cmd.verb = "hook" => cmd.chain \in ChainSet /\ \A k \in 1 .. 5 : place = k - 1 => cmd.chain = Chains[k]
  <2>1. \A k \in 1 .. 5 : Cmd("hook", Chains[k]).chain = Chains[k]
    BY ChainsAre, CmdsAre
  <2>2. cmd.chain \in ChainSet
    BY <1>2, CmdsAre
  <2>3. ASSUME cmd.verb = "hook", NEW k \in 1 .. 5, place = k - 1 PROVE cmd.chain = Chains[k]
    <3>1. \A i \in 1 .. L : ~(place = 5 + i)
      BY <1>3, <2>3
    <3>2. \A i \in 1 .. G : ~(place = 5 + L + i)
      BY <1>3, <2>3
    <3>3. \E i \in 1 .. 5 : place = i - 1 /\ cmd = Cmd("hook", Chains[i])
      BY <1>2, <2>3, <3>1, <3>2
    <3>4. PICK i \in 1 .. 5 : place = i - 1 /\ cmd = Cmd("hook", Chains[i])
      BY <3>3
    <3>5. i = k
      BY <2>3, <3>4
    <3> QED
      BY <2>1, <3>4, <3>5
  <2> QED
    BY <2>2, <2>3
<1>9. \A d \in ChainSet : jumps[d] \in Nat /\ jumps[d] <= 1 + fwFaults
  BY DEF JumpsAre
<1>10. \/ cmd.verb = "hook" /\ jumps' = [jumps EXCEPT ![cmd.chain] = @ + 1] /\ todo' = Tail(todo)
       \/ cmd.verb = "hook" /\ todo' = <<>> /\ jumps' = jumps
       \/ cmd.verb # "hook" /\ cmd.verb # "ready" /\ todo' = Tail(todo) /\ jumps' = jumps
  BY <1>1 DEF RunFails
<1>11. CASE cmd.verb = "hook" /\ jumps' = [jumps EXCEPT ![cmd.chain] = @ + 1] /\ todo' = Tail(todo)
  <2>1. PICK c : c = cmd.chain
    OBVIOUS
  <2>2. c \in ChainSet /\ place <= 4 /\ ready = FALSE
    BY <1>3, <1>4, <1>6, <1>8, <1>11, <2>1
  <2>3. jumps' = [jumps EXCEPT ![c] = jumps[c] + 1]
    BY <1>11, <2>1
  <2>4. \A d \in ChainSet : jumps'[d] = IF d = c THEN jumps[d] + 1 ELSE jumps[d]
    BY <2>2, <2>3 DEF JumpsAre
  <2>5. JumpsAre'
    <3>1. jumps' \in [ChainSet -> Nat]
      BY <1>9, <2>2, <2>3 DEF JumpsAre
    <3>2. \A d \in ChainSet : jumps'[d] <= 1 + fwFaults'
      BY <1>7, <1>9, <2>4
    <3> QED
      BY <1>7, <3>1, <3>2 DEF JumpsAre
  <2>6. Remains(fs, g)' /\ Done0(fs, g)' = place + 1
    BY <1>1, <1>11, RestRemains DEF Going
  <2>7. ASSUME NEW j \in 1 .. 5, j <= place + 1 PROVE jumps'[Chains[j]] > 0
    <3>1. PICK d : d = Chains[j]
      OBVIOUS
    <3>2. d \in ChainSet
      BY <3>1, ChainsAre
    <3>3. j <= place => jumps[d] > 0
      BY <1>3, <1>6, <2>2, <3>1
    <3>4. ~(j <= place) => d = c
      BY <1>3, <1>8, <1>11, <2>1, <2>7, <3>1
    <3> QED
      BY <1>9, <2>4, <3>1, <3>2, <3>3, <3>4
  <2>8. Hooked(Done0(fs, g), TRUE = TRUE)'
    <3>1. PICK to : to = place + 1
      OBVIOUS
    <3>2. to < 6 /\ Done0(fs, g)' = to /\ \A j \in 1 .. 5 : j <= to => jumps'[Chains[j]] > 0
      BY <1>3, <2>2, <2>6, <2>7, <3>1
    <3>3. to \in Nat
      BY <1>3, <3>1
    <3> QED
      BY <1>7, <2>2, <3>2, <3>3 DEF Hooked
  <2>9. AllHooked'
    BY <1>7, <2>2 DEF AllHooked
  <2> QED
    BY <1>7, <2>5, <2>6, <2>8, <2>9 DEF Going
<1>12. CASE cmd.verb = "hook" /\ todo' = <<>> /\ jumps' = jumps
  <2>1. PICK N : N = 6 + L + G
    OBVIOUS
  <2>2. Len(todo') = 0 /\ DOMAIN todo' = {} /\ N \in Nat /\ N >= 6
    BY <1>3, <1>12, <2>1
  <2>3. Remains(fs, g)' /\ Done0(fs, g)' = N
    BY <1>1, <2>1, <2>2 DEF Remains, Done0
  <2>4. Hooked(Done0(fs, g), TRUE = TRUE)'
    BY <1>12, <2>2, <2>3 DEF Hooked
  <2>5. JumpsAre' /\ AllHooked'
    BY <1>7, <1>9, <1>12 DEF JumpsAre, AllHooked
  <2> QED
    BY <1>7, <2>3, <2>4, <2>5 DEF Going
<1>13. CASE cmd.verb # "hook" /\ cmd.verb # "ready" /\ todo' = Tail(todo) /\ jumps' = jumps
  <2>1. place >= 6 /\ ready = TRUE
    BY <1>5, <1>6, <1>13
  <2>2. Remains(fs, g)' /\ Done0(fs, g)' = place + 1
    BY <1>1, <1>13, RestRemains DEF Going
  <2>3. Hooked(Done0(fs, g), TRUE = TRUE)'
    BY <1>3, <1>7, <2>1, <2>2 DEF Hooked
  <2>4. JumpsAre' /\ AllHooked'
    BY <1>7, <1>9, <1>13 DEF JumpsAre, AllHooked
  <2> QED
    BY <1>7, <2>2, <2>3, <2>4 DEF Going
<1> QED
  BY <1>10, <1>11, <1>12, <1>13

\* The rules of DNS-OUT, as they are added one by one.
LEMMA OutRules ==
  ASSUME NEW c \in DnsConfigs \cup {NoDns}, NEW g, g = GenerateDNSRedirect(c), NEW k \in 0 .. Len(g)
  PROVE  OutShape(FilledBy(g, "DNS-OUT")[k])
<1>1. PICK f : f = FilledBy(g, "DNS-OUT")
  OBVIOUS
<1>2. g \in Seq(FwCmd)
  <2>1. g \in Seq(RuleCmds(DnsChains)) /\ RuleCmds(DnsChains) \subseteq FwCmd
    BY DnsRules, CmdsAre, ListsAre DEF ChainList
  <2> QED
    BY <2>1
<1>3. /\ f[0] = <<>>
      /\ \A i \in 1 .. Len(g) : f[i] = IF g[i].verb = "A" /\ g[i].chain = "DNS-OUT" THEN Append(f[i - 1], Rule(g[i])) ELSE f[i - 1]
  BY <1>1, <1>2, FilledUnfolds
<1>4. PICK none : none = <<>>
  OBVIOUS
<1>5. OutShape(none)
  BY <1>4 DEF OutShape
<1>6. CASE g = <<>>
  <2>1. k = 0
    BY <1>6
  <2> QED
    BY <1>1, <1>3, <1>4, <1>5, <2>1
<1>7. CASE g = <<Add("DNS", "DNAT", "proxy")>>
  <2>1. Len(g) = 1 /\ g[1].chain # "DNS-OUT"
    BY <1>7 DEF Add
  <2>2. f[1] = f[0]
    BY <1>3, <2>1
  <2>3. k = 0 \/ k = 1
    BY <2>1
  <2> QED
    BY <1>1, <1>3, <1>4, <1>5, <2>2, <2>3
<1>8. CASE g = <<Add("DNS", "REDIRECT", "proxy"), Add("DNS-OUT", "RETURN", c.upstream), Add("DNS-OUT", "REDIRECT", "proxy")>>
  <2>1. PICK a, b, r, s : /\ a = g[2] /\ b = g[3] /\ r = Rule(g[2]) /\ s = Rule(g[3])
    OBVIOUS
  <2>2. /\ Len(g) = 3 /\ g[1].chain # "DNS-OUT" /\ a.verb = "A" /\ a.chain = "DNS-OUT" /\ b.verb = "A" /\ b.chain = "DNS-OUT"
        /\ a.rule = "RETURN" /\ a.arg = c.upstream /\ b.rule = "REDIRECT" /\ b.arg = "proxy"
    BY <1>8, <2>1 DEF Add
  <2>3. r.rule = "RETURN" /\ r.arg = c.upstream /\ s.rule = "REDIRECT" /\ s.arg = "proxy"
    BY <2>1, <2>2 DEF Rule
  <2>4. f[1] = f[0] /\ f[0] = <<>>
    BY <1>3, <2>2
  <2>5. f[2] = Append(f[1], r) /\ f[3] = Append(f[2], s)
    <3>1. \A i \in 1 .. 3 : f[i] = IF g[i].verb = "A" /\ g[i].chain = "DNS-OUT" THEN Append(f[i - 1], Rule(g[i])) ELSE f[i - 1]
      BY <1>3, <2>2
    <3>2. f[2] = IF g[2].verb = "A" /\ g[2].chain = "DNS-OUT" THEN Append(f[1], Rule(g[2])) ELSE f[1]
      BY <3>1
    <3>3. f[3] = IF g[3].verb = "A" /\ g[3].chain = "DNS-OUT" THEN Append(f[2], Rule(g[3])) ELSE f[2]
      BY <3>1
    <3> QED
      BY <2>1, <2>2, <3>2, <3>3
  <2>6. Len(f[2]) = 1 /\ f[2][1] = r /\ Len(f[3]) = 2 /\ f[3][1] = r /\ f[3][2] = s
    <3>1. \A S : \A q \in Seq(S), x \in S : /\ Append(q, x) \in Seq(S) /\ Len(Append(q, x)) = Len(q) + 1
                                          /\ Append(q, x)[Len(q) + 1] = x
                                          /\ \A i \in 1 .. Len(q) : Append(q, x)[i] = q[i]
      OBVIOUS
    <3>2. PICK S : S = {r, s}
      OBVIOUS
    <3>3. f[1] \in Seq(S) /\ Len(f[1]) = 0 /\ r \in S /\ s \in S
      BY <2>4, <3>2
    <3>4. f[2] \in Seq(S) /\ Len(f[2]) = 1 /\ f[2][1] = r
      BY <2>5, <3>1, <3>3
    <3> QED
      BY <2>5, <3>1, <3>3, <3>4
  <2>7. c.upstream \notin {"proxy", "resolver"}
    BY DnsParts
  <2>8. OutShape(f[2])
    BY <2>3, <2>6, <2>7 DEF OutShape
  <2>9. OutShape(f[3])
    BY <2>3, <2>6, <2>7 DEF OutShape
  <2>10. k = 0 \/ k = 1 \/ k = 2 \/ k = 3
    BY <2>2
  <2>11. CASE k = 0 \/ k = 1
    BY <1>1, <1>4, <1>5, <2>4, <2>11
  <2>12. CASE k = 2
    BY <1>1, <2>8, <2>12
  <2>13. CASE k = 3
    BY <1>1, <2>9, <2>13
  <2> QED
    BY <2>10, <2>11, <2>12, <2>13
<1> QED
  BY <1>6, <1>7, <1>8, DnsRules

\* The program that stops the node.
LEMMA StopStarts ==
  ASSUME NEW q, q = GenerateCleanup
  PROVE  q \in Seq(FwCmd) /\ Len(q) = 15 /\ \A i \in 1 .. 15 : q[i] = StopAt(i)
<1>1. ASSUME NEW v \in {"F", "D", "X"}
      PROVE  /\ Each(v, Chains) \in Seq(FwCmd) /\ Len(Each(v, Chains)) = 5
             /\ \A i \in 1 .. 5 : Each(v, Chains)[i] = Cmd(v, Chains[i])
  <2>1. PICK p : p = Each(v, Chains)
    OBVIOUS
  <2>2. p = [i \in 1 .. 5 |-> Cmd(v, Chains[i])]
    BY <2>1, ChainsAre, Zenon DEF Each
  <2>3. \A i \in 1 .. 5 : Cmd(v, Chains[i]) \in FwCmd
    BY ChainsAre, CmdsAre
  <2>4. p \in Seq(FwCmd) /\ Len(p) = 5 /\ \A i \in 1 .. 5 : p[i] = Cmd(v, Chains[i])
    BY <2>2, <2>3
  <2> QED
    BY <2>1, <2>4, Zenon
<1>2. PICK a, b, c : a = Each("F", Chains) /\ b = Each("D", Chains) /\ c = Each("X", Chains)
  OBVIOUS
<1>3. /\ a \in Seq(FwCmd) /\ Len(a) = 5 /\ \A i \in 1 .. 5 : a[i] = Cmd("F", Chains[i])
      /\ b \in Seq(FwCmd) /\ Len(b) = 5 /\ \A i \in 1 .. 5 : b[i] = Cmd("D", Chains[i])
      /\ c \in Seq(FwCmd) /\ Len(c) = 5 /\ \A i \in 1 .. 5 : c[i] = Cmd("X", Chains[i])
  BY <1>1, <1>2
<1>4. PICK p : p = a \o b
  OBVIOUS
<1>5. q = p \o c
  BY <1>2, <1>4, Zenon DEF GenerateCleanup, Flush
<1>6. /\ p \in Seq(FwCmd) /\ Len(p) = Len(a) + Len(b)
      /\ \A i \in 1 .. Len(p) : p[i] = IF i <= Len(a) THEN a[i] ELSE b[i - Len(a)]
  <2>1. a \in Seq(FwCmd) /\ b \in Seq(FwCmd)
    BY <1>3
  <2> QED
    BY <1>4, <2>1, JoinedCmds
<1>7. /\ q \in Seq(FwCmd) /\ Len(q) = Len(p) + Len(c)
      /\ \A i \in 1 .. Len(q) : q[i] = IF i <= Len(p) THEN p[i] ELSE c[i - Len(p)]
  <2>1. p \in Seq(FwCmd) /\ c \in Seq(FwCmd)
    BY <1>3, <1>6
  <2> QED
    BY <1>5, <2>1, JoinedCmds
<1>8. Len(p) = 10 /\ Len(q) = 15
  BY <1>3, <1>6, <1>7
<1>9. ASSUME NEW i \in 1 .. 15 PROVE q[i] = StopAt(i)
  <2>1. CASE i <= 5
    <3>1. q[i] = Cmd("F", Chains[i])
      BY <1>3, <1>6, <1>7, <1>8, <2>1
    <3> QED
      BY <2>1, <3>1 DEF StopAt
  <2>2. CASE i > 5 /\ i <= 10
    <3>1. PICK k : k = i - 5
      OBVIOUS
    <3>2. k \in 1 .. 5
      BY <2>2, <3>1
    <3>3. q[i] = b[k]
      BY <1>3, <1>6, <1>7, <1>8, <2>2, <3>1
    <3>4. q[i] = Cmd("D", Chains[k])
      BY <1>3, <3>2, <3>3
    <3> QED
      BY <2>2, <3>1, <3>4 DEF StopAt
  <2>3. CASE i > 10
    <3>1. PICK k : k = i - 10
      OBVIOUS
    <3>2. k \in 1 .. 5
      BY <2>3, <3>1
    <3>3. q[i] = c[k]
      <4>1. q[i] = IF i <= Len(p) THEN p[i] ELSE c[i - Len(p)]
        BY <1>7, <1>8
      <4>2. ~(i <= Len(p)) /\ i - Len(p) = k
        BY <1>8, <2>3, <3>1
      <4> QED
        BY <4>1, <4>2, Zenon
    <3>4. q[i] = Cmd("X", Chains[k])
      BY <1>3, <3>2, <3>3
    <3> QED
      BY <2>3, <3>1, <3>4 DEF StopAt
  <2> QED
    BY <2>1, <2>2, <2>3
<1> QED
  BY <1>7, <1>8, <1>9

\* How far it is, and its next command.
StopDone == 15 - Len(todo)
LEMMA StopCommand ==
  ASSUME todo \in Seq(FwCmd), todo # <<>>, doing = "stop", Stopping
  PROVE  /\ StopDone \in 0 .. 14 /\ Head(todo) \in FwCmd
         /\ \/ \E k \in 1 .. 5 : StopDone = k - 1 /\ Head(todo) = Cmd("F", Chains[k])
            \/ StopDone >= 5 /\ \E k \in 1 .. 5 : Head(todo) \in {Cmd("D", Chains[k]), Cmd("X", Chains[k])}
         /\ Tail(todo) \in Seq(FwCmd) /\ Len(Tail(todo)) = Len(todo) - 1
         /\ \A i \in DOMAIN Tail(todo) : Tail(todo)[i] = StopAt(StopDone + 1 + i)
<1>1. PICK m, place, q : m = Len(todo) /\ place = StopDone /\ q = Tail(todo)
  OBVIOUS
<1>2. m \in Nat /\ m >= 1 /\ m <= 15 /\ place = 15 - m /\ place \in 0 .. 14
  <2>1. Len(todo) <= 15
    BY DEF Stopping
  <2>2. m \in Nat /\ m >= 1
    BY <1>1
  <2>3. m <= 15
    BY <1>1, <2>1, Zenon
  <2>4. place = 15 - m
    BY <1>1, Zenon DEF StopDone
  <2> QED
    BY <2>2, <2>3, <2>4
<1>3. \A i \in 1 .. m : todo[i] = StopAt(place + i)
  BY <1>1, <1>2 DEF Stopping, StopDone
<1>4. Head(todo) = todo[1] /\ Head(todo) \in FwCmd
  BY <1>1, <1>2
<1>5. PICK n : n = place + 1
  OBVIOUS
<1>6. Head(todo) = StopAt(n) /\ n \in 1 .. 15 /\ n \in Nat /\ place = n - 1
  BY <1>2, <1>3, <1>4, <1>5
<1>7. /\ q \in Seq(FwCmd) /\ Len(q) = m - 1 /\ DOMAIN q = 1 .. m - 1
      /\ \A i \in 1 .. m - 1 : q[i] = todo[i + 1]
  BY <1>1, <1>2
<1>8. ASSUME NEW i \in 1 .. m - 1 PROVE q[i] = StopAt(place + 1 + i)
  <2>1. PICK k : k = i + 1
    OBVIOUS
  <2>2. k \in 1 .. m /\ q[i] = todo[k] /\ place + k = place + 1 + i
    BY <1>2, <1>7, <2>1
  <2> QED
    BY <1>3, <2>2
<1>9. CASE n <= 5
  <2>1. n \in 1 .. 5 /\ Head(todo) = Cmd("F", Chains[n])
    BY <1>6, <1>9 DEF StopAt
  <2> QED
    BY <1>1, <1>2, <1>4, <1>6, <1>7, <1>8, <2>1
<1>10. CASE n > 5
  <2>1. \E k \in 1 .. 5 : Head(todo) \in {Cmd("D", Chains[k]), Cmd("X", Chains[k])}
    <3>1. CASE n <= 10
      <4>1. PICK k : k = n - 5
        OBVIOUS
      <4>2. k \in 1 .. 5 /\ Head(todo) = Cmd("D", Chains[k])
        BY <1>6, <1>10, <3>1, <4>1 DEF StopAt
      <4> QED
        BY <4>2
    <3>2. CASE n > 10
      <4>1. PICK k : k = n - 10
        OBVIOUS
      <4>2. k \in 1 .. 5 /\ Head(todo) = Cmd("X", Chains[k])
        BY <1>6, <3>2, <4>1 DEF StopAt
      <4> QED
        BY <4>2
    <3> QED
      BY <1>6, <3>1, <3>2
  <2>2. place >= 5
    BY <1>6, <1>10
  <2> QED
    BY <1>1, <1>2, <1>4, <1>7, <1>8, <2>1, <2>2
<1> QED
  BY <1>6, <1>9, <1>10

LEMMA StopRuns ==
  ASSUME todo \in Seq(FwCmd), todo # <<>>, doing = "stop", Stopping, JumpsAre, Take(Head(todo)), todo' = Tail(todo),
         doing' = doing, failed' = failed
  PROVE  Stopping' /\ \A c \in ChainSet : filled'[c] \in {filled[c], <<>>}
<1>1. PICK place, cmd : place = StopDone /\ cmd = Head(todo)
  OBVIOUS
<1>2. /\ place \in 0 .. 14 /\ cmd \in FwCmd
      /\ \/ \E k \in 1 .. 5 : place = k - 1 /\ cmd = Cmd("F", Chains[k])
         \/ place >= 5 /\ \E k \in 1 .. 5 : cmd \in {Cmd("D", Chains[k]), Cmd("X", Chains[k])}
      /\ todo' \in Seq(FwCmd) /\ Len(todo') = Len(todo) - 1
      /\ \A i \in DOMAIN todo' : todo'[i] = StopAt(place + 1 + i)
  BY <1>1, StopCommand
<1>3. Len(todo) \in Nat /\ place = 15 - Len(todo) /\ 15 - Len(todo') = place + 1 /\ Len(todo') <= 15
  BY <1>1, <1>2 DEF StopDone
<1>4. "stop" \notin failed => \A j \in 1 .. 5 : j <= place => filled[Chains[j]] = <<>>
  BY <1>1 DEF Stopping, StopDone
<1>5. /\ \A c \in ChainSet : filled'[c] \in {filled[c], <<>>}
      /\ \A j \in 1 .. 5 : j = place + 1 => filled'[Chains[j]] = <<>>
  <2>1. CASE \E k \in 1 .. 5 : place = k - 1 /\ cmd = Cmd("F", Chains[k])
    <3>1. PICK k \in 1 .. 5 : place = k - 1 /\ cmd = Cmd("F", Chains[k])
      BY <2>1
    <3>2. PICK c : c = Chains[k]
      OBVIOUS
    <3>3. c \in ChainSet /\ cmd.verb = "F" /\ cmd.chain = c
      BY <3>1, <3>2, ChainsAre, CmdsAre
    <3>4. filled' = [filled EXCEPT ![c] = <<>>]
      BY <1>1, <1>2, <3>3, TakeIs
    <3>5. \A d \in ChainSet : filled'[d] = IF d = c THEN <<>> ELSE filled[d]
      BY <3>3, <3>4 DEF JumpsAre
    <3>6. \A j \in 1 .. 5 : j = place + 1 => j = k
      BY <3>1
    <3> QED
      BY <3>2, <3>3, <3>5, <3>6
  <2>2. CASE place >= 5 /\ \E k \in 1 .. 5 : cmd \in {Cmd("D", Chains[k]), Cmd("X", Chains[k])}
    <3>1. PICK k \in 1 .. 5 : cmd \in {Cmd("D", Chains[k]), Cmd("X", Chains[k])}
      BY <2>2
    <3>2. cmd.verb \in {"D", "X"}
      BY <3>1, ChainsAre, CmdsAre
    <3>3. filled' = filled
      BY <1>1, <1>2, <3>2, TakeIs
    <3>4. \A j \in 1 .. 5 : ~(j = place + 1)
      BY <1>2, <2>2
    <3> QED
      BY <3>3, <3>4
  <2> QED
    BY <1>2, <2>1, <2>2
<1>6. ASSUME "stop" \notin failed, NEW j \in 1 .. 5, j <= place + 1 PROVE filled'[Chains[j]] = <<>>
  <2>1. Chains[j] \in ChainSet
    BY ChainsAre
  <2>2. CASE j <= place
    BY <1>4, <1>5, <1>6, <2>1, <2>2
  <2>3. CASE j = place + 1
    BY <1>5, <2>3
  <2> QED
    BY <1>2, <1>6, <2>2, <2>3
<1>7. PICK to : to = place + 1
  OBVIOUS
<1>8. /\ Len(todo') <= 15 /\ \A i \in DOMAIN todo' : todo'[i] = StopAt(15 - Len(todo') + i)
  BY <1>2, <1>3
<1>9. "stop" \notin failed' => \A j \in 1 .. 5 : j <= 15 - Len(todo') => filled'[Chains[j]] = <<>>
  BY <1>3, <1>6
<1> QED
  BY <1>5, <1>8, <1>9 DEF Stopping

LEMMA StopFails ==
  ASSUME todo \in Seq(FwCmd), doing = "stop", Stopping, JumpsAre, RunFails, fwFaults \in Nat
  PROVE  Stopping' /\ todo' \in Seq(FwCmd) /\ JumpsAre'
<1>1. todo # <<>>
  BY DEF RunFails
<1>2. PICK place, cmd : place = StopDone /\ cmd = Head(todo)
  OBVIOUS
<1>3. /\ place \in 0 .. 14 /\ cmd \in FwCmd
      /\ \/ \E k \in 1 .. 5 : place = k - 1 /\ cmd = Cmd("F", Chains[k])
         \/ place >= 5 /\ \E k \in 1 .. 5 : cmd \in {Cmd("D", Chains[k]), Cmd("X", Chains[k])}
      /\ Tail(todo) \in Seq(FwCmd) /\ Len(Tail(todo)) = Len(todo) - 1
      /\ \A i \in DOMAIN Tail(todo) : Tail(todo)[i] = StopAt(place + 1 + i)
  BY <1>1, <1>2, StopCommand
<1>4. cmd.verb # "hook"
  BY <1>3, ChainsAre, CmdsAre
<1>5. todo' = Tail(todo) /\ jumps' = jumps /\ filled' = filled /\ failed' = failed \cup {"stop"} /\ fwFaults' = fwFaults + 1
  BY <1>2, <1>4 DEF RunFails, FwFault
<1>6. Len(todo) \in Nat /\ place = 15 - Len(todo) /\ 15 - Len(todo') = place + 1 /\ Len(todo') <= 15
  BY <1>2, <1>3, <1>5 DEF StopDone
<1>7. \A i \in DOMAIN todo' : todo'[i] = StopAt(15 - Len(todo') + i)
  BY <1>3, <1>5, <1>6
<1>8. Stopping'
  BY <1>5, <1>6, <1>7 DEF Stopping
<1>9. JumpsAre'
  <2>1. \A c \in ChainSet : jumps[c] \in Nat /\ jumps[c] <= 1 + fwFaults
    BY DEF JumpsAre
  <2>2. \A c \in ChainSet : jumps'[c] <= 1 + fwFaults'
    BY <1>5, <2>1
  <2> QED
    BY <1>5, <2>2 DEF JumpsAre
<1> QED
  BY <1>3, <1>5, <1>8, <1>9

(* Every action keeps the invariant.                                       *)
LEMMA ChainNames ==
  /\ ChainList(DnsChains) /\ ChainList(EgressChains)
  /\ \A c \in Range(DnsChains) : c \in ChainSet /\ c \notin Range(EgressChains)
  /\ \A c \in Range(EgressChains) : c \in ChainSet /\ c \notin Range(DnsChains)
  /\ DOMAIN DnsChains = 1 .. 2 /\ DOMAIN EgressChains = 1 .. 3 /\ DnsChains[2] = "DNS-OUT"
  /\ \A j \in 1 .. 2 : DnsChains[j] \in Range(DnsChains)
  /\ \A j \in 1 .. 3 : EgressChains[j] \in Range(EgressChains)
  /\ "DNS-OUT" \in Range(DnsChains)
<1>1. ChainList(DnsChains) /\ ChainList(EgressChains)
  BY DEF ChainList
<1>2. /\ \A c \in Range(DnsChains) : c \in ChainSet /\ c \notin Range(EgressChains)
      /\ \A c \in Range(EgressChains) : c \in ChainSet /\ c \notin Range(DnsChains)
      /\ "DNS-OUT" \in Range(DnsChains)
  BY ChainsAre DEF ChainSet
<1>3. DOMAIN DnsChains = 1 .. 2 /\ DOMAIN EgressChains = 1 .. 3
  BY <1>1, ChainsAre, ListsAre
<1>4. DnsChains[2] = "DNS-OUT"
  BY ChainsAre
<1>5. /\ \A j \in 1 .. 2 : DnsChains[j] \in Range(DnsChains)
      /\ \A j \in 1 .. 3 : EgressChains[j] \in Range(EgressChains)
  BY <1>1, ChainsAre, ListsAre
<1> QED
  BY <1>1, <1>2, <1>3, <1>4, <1>5

\* What a program that begins has done is what it starts from.
LEMMA GoesFrom ==
  ASSUME NEW fs, ChainList(fs), NEW g \in Seq(RuleCmds(fs)), ready \in BOOLEAN, Begins(todo', fs, g), ready' = ready
  PROVE  todo' \in Seq(FwCmd) /\ Going(fs, g, TRUE)' /\ Going(fs, g, FALSE)'
<1>1. PICK N, m, q : N = 6 + Len(fs) + Len(g) /\ m = Len(todo') /\ q = todo'
  OBVIOUS
<1>2. Len(fs) \in Nat /\ Len(g) \in Nat /\ Len(fs) >= 2 /\ DOMAIN fs = 1 .. Len(fs)
  BY ListsAre
<1>3. /\ q \in Seq(FwCmd) /\ m <= N /\ m = (IF ready = TRUE THEN 0 ELSE 6) + Len(fs) + Len(g)
      /\ \A i \in 1 .. m : q[i] = ProgramAt(fs, g, N - m + i)
  <2>1. Begins(q, fs, g)
    BY <1>1
  <2>2. /\ q \in Seq(FwCmd) /\ Len(q) <= 6 + Len(fs) + Len(g)
        /\ Len(q) = (IF ready = TRUE THEN 0 ELSE 6) + Len(fs) + Len(g)
        /\ \A i \in 1 .. Len(q) : q[i] = ProgramAt(fs, g, 6 + Len(fs) + Len(g) - Len(q) + i)
    BY <2>1 DEF Begins
  <2>3. m = Len(q)
    BY <1>1
  <2>4. q \in Seq(FwCmd) /\ m <= N /\ m = (IF ready = TRUE THEN 0 ELSE 6) + Len(fs) + Len(g)
    BY <1>1, <2>2, <2>3
  <2>5. ASSUME NEW i \in 1 .. m PROVE q[i] = ProgramAt(fs, g, N - m + i)
    <3>1. q[i] = ProgramAt(fs, g, 6 + Len(fs) + Len(g) - Len(q) + i)
      BY <2>2, <2>3
    <3> QED
      BY <1>1, <2>3, <3>1
  <2> QED
    BY <2>4, <2>5
<1>4. PICK place : place = Done0(fs, g)'
  OBVIOUS
<1>5. place = N - m
  BY <1>1, <1>4 DEF Done0
<1>6. (ready = TRUE /\ place = 6) \/ (ready = FALSE /\ place = 0)
  <2>1. N = 6 + Len(fs) + Len(g)
    BY <1>1
  <2>2. CASE ready = TRUE
    <3>1. m = 0 + Len(fs) + Len(g)
      BY <1>3, <2>2
    <3>2. place = 6
      BY <1>2, <1>5, <2>1, <3>1
    <3> QED
      BY <2>2, <3>2, Zenon
  <2>3. CASE ready = FALSE
    <3>1. m = 6 + Len(fs) + Len(g)
      BY <1>3, <2>3
    <3>2. place = 0
      BY <1>2, <1>5, <2>1, <3>1
    <3> QED
      BY <2>3, <3>2, Zenon
  <2> QED
    BY <2>2, <2>3
<1>7. Remains(fs, g)'
  <2>1. DOMAIN q = 1 .. m
    <3>1. \A S : \A s \in Seq(S) : DOMAIN s = 1 .. Len(s)
      OBVIOUS
    <3> QED
      BY <1>1, <1>3, <3>1, Zenon
  <2>2. \A i \in DOMAIN todo' : todo'[i] = ProgramAt(fs, g, Done0(fs, g)' + i)
    BY <1>1, <1>3, <1>4, <1>5, <2>1
  <2> QED
    BY <1>1, <1>3, <2>2 DEF Remains
<1>8. Hooked(place, TRUE = TRUE)' /\ Hooked(place, FALSE = TRUE)'
  BY <1>6 DEF Hooked
<1>9. FilledSoFar(fs, g, place)'
  <2>1. \A j \in 1 .. Len(fs) : ~(place >= 6 + j)
    BY <1>2, <1>6
  <2> QED
    BY <1>2, <2>1, Zenon DEF FilledSoFar
<1>10. Going(fs, g, TRUE)' /\ Going(fs, g, FALSE)'
  BY <1>4, <1>7, <1>8, <1>9 DEF Going
<1> QED
  BY <1>1, <1>3, <1>10

\* A program that is through, without a failure, has filled its chains.
LEMMA DoneIsExact ==
  ASSUME NEW fs, ChainList(fs), NEW g \in Seq(RuleCmds(fs)), ready \in BOOLEAN, todo = <<>>, Going(fs, g, FALSE)
  PROVE  Exact(fs, g)
<1>1. PICK L, G, place : L = Len(fs) /\ G = Len(g) /\ place = Done0(fs, g)
  OBVIOUS
<1>2. L \in Nat /\ G \in Nat /\ place = 6 + L + G /\ DOMAIN fs = 1 .. L
  <2>1. Len(todo) = 0
    OBVIOUS
  <2>2. L \in Nat /\ G \in Nat /\ DOMAIN fs = 1 .. L
    BY <1>1, ListsAre
  <2> QED
    BY <1>1, <2>1, <2>2 DEF Done0
<1>3. ready = TRUE
  BY <1>1, <1>2 DEF Going, Hooked
<1>4. IndexOf(fs, place) = G
  BY <1>1, <1>2 DEF IndexOf
<1>5. ASSUME NEW j \in 1 .. L PROVE filled[fs[j]] = Expected(g, fs[j])
  <2>1. place >= 6 + j
    BY <1>2
  <2>2. filled[fs[j]] = FilledBy(g, fs[j])[IndexOf(fs, place)]
    BY <1>1, <2>1, FilledMeans DEF Going
  <2> QED
    BY <1>1, <1>4, <2>2, Zenon DEF Expected
<1> QED
  BY <1>2, <1>3, <1>5 DEF Exact

LEMMA SameRules ==
  ASSUME NEW fs, NEW g, ready' = ready, filled' = filled, Exact(fs, g)
  PROVE  Exact(fs, g)'
  BY DEF Exact

LEMMA RulesAre ==
  ASSUME FwTypes
  PROVE  GenerateDNSRedirect(dns) \in Seq(RuleCmds(DnsChains)) /\ GenerateEgressRules(egress) \in Seq(RuleCmds(EgressChains))
  BY DnsRules, EgressRules DEF FwTypes

LEMMA FwInvInit == FwInit => FwInv
<1> SUFFICES ASSUME FwInit PROVE FwInv
  OBVIOUS
<1>1. Range(Chains) = ChainSet
  BY ChainsAre
<1>2. PICK none : none = <<>>
  OBVIOUS
<1>3. /\ jumps = [c \in ChainSet |-> 0] /\ filled = [c \in ChainSet |-> none]
      /\ todo = <<>> /\ doing = "down" /\ ready = FALSE /\ proxy = NoProxy
      /\ dns = NoDns /\ egress = <<>> /\ later = <<>> /\ failed = {} /\ configs = 0 /\ fwFaults = 0
  BY <1>1, <1>2, Zenon DEF FwInit
<1>4. /\ NoProxy \in [port : Nat, upstream : FwAddresses \cup {"none"}, records : SUBSET Names]
      /\ <<>> \in EgressLists /\ MaxConfigs \in Nat /\ MaxFwFaults \in Nat
  BY FirewallAssumption DEF NoProxy
<1>5. none \in Seq(FwRule) /\ "DNS-OUT" \in ChainSet /\ OutShape(none)
  BY <1>2 DEF ChainSet, OutShape
<1>6. JumpsAre /\ todo \in Seq(FwCmd)
  BY <1>3, <1>5 DEF JumpsAre
<1>7. FwTypes
  <2>1. doing \in {"down", "idle", "dns", "egress", "stop"} /\ failed \subseteq {"dns", "egress", "stop"}
    BY <1>3
  <2>2. ready \in BOOLEAN
    BY <1>3, Zenon
  <2>3. dns \in DnsConfigs \cup {NoDns}
    BY <1>3
  <2>4. configs \in 0 .. MaxConfigs /\ fwFaults \in 0 .. MaxFwFaults
    BY <1>3, <1>4
  <2>5. /\ proxy \in [port : Nat, upstream : FwAddresses \cup {"none"}, records : SUBSET Names]
        /\ egress \in EgressLists /\ later \in EgressLists
    BY <1>3, <1>4, Zenon
  <2> QED
    BY <2>1, <2>2, <2>3, <2>4, <2>5, Zenon DEF FwTypes
<1>8. FwPhase
  BY <1>3 DEF FwPhase, AllHooked
<1>9. FwCalm
  BY <1>3, <1>5 DEF FwCalm
<1> QED
  BY <1>3, <1>6, <1>7, <1>8, <1>9 DEF FwInv, FwProxied, DnsExact, EgressExact, Stopping, Applying

LEMMA FwPlain ==
  ASSUME FwInv
  PROVE  /\ JumpsAre /\ todo \in Seq(FwCmd) /\ FwTypes /\ FwPhase /\ FwCalm /\ FwProxied /\ DnsExact /\ EgressExact /\ Stopping
         /\ Applying("dns", DnsChains, GenerateDNSRedirect(dns)) /\ Applying("egress", EgressChains, GenerateEgressRules(egress))
         /\ ready \in BOOLEAN /\ fwFaults \in Nat
         /\ GenerateDNSRedirect(dns) \in Seq(RuleCmds(DnsChains)) /\ GenerateEgressRules(egress) \in Seq(RuleCmds(EgressChains))
<1>1. FwTypes
  BY DEF FwInv
<1>2. ready \in BOOLEAN /\ fwFaults \in Nat
  BY <1>1 DEF FwTypes
<1> QED
  BY <1>1, <1>2, RulesAre DEF FwInv

LEMMA StartKeeps == FwInv /\ NodeStarts => FwInv'
<1> SUFFICES ASSUME FwInv, NodeStarts PROVE FwInv'
  OBVIOUS
<1>1. /\ doing = "down" /\ doing' = "idle" /\ jumps' = jumps /\ filled' = filled /\ todo' = todo /\ ready' = ready
      /\ proxy' = proxy /\ dns' = dns /\ egress' = egress /\ later' = later /\ failed' = failed /\ configs' = configs
      /\ fwFaults' = fwFaults
  BY DEF NodeStarts
<1>2. JumpsAre' /\ todo' \in Seq(FwCmd)
  BY <1>1, FwPlain DEF JumpsAre
<1>3. FwTypes'
  BY <1>1, FwPlain DEF FwTypes
<1>4. FwPhase'
  BY <1>1, FwPlain DEF FwPhase, AllHooked
<1>5. dns = NoDns /\ egress = <<>> /\ proxy = NoProxy
  BY <1>1, FwPlain DEF FwPhase
<1>6. FwCalm'
  <2>1. NoDns.enabled = FALSE
    BY DEF NoDns
  <2> QED
    BY <1>1, <1>5, <2>1, FwPlain DEF FwCalm
<1> QED
  BY <1>1, <1>2, <1>3, <1>4, <1>5, <1>6 DEF FwInv, FwProxied, DnsExact, EgressExact, Stopping, Applying

LEMMA CloseKeeps == FwInv /\ CloseHost => FwInv'
<1> SUFFICES ASSUME FwInv, CloseHost PROVE FwInv'
  OBVIOUS
<1>1. /\ doing = "idle" /\ doing' = "stop" /\ jumps' = jumps /\ filled' = filled /\ todo' = GenerateCleanup /\ ready' = ready
      /\ proxy' = NoProxy /\ dns' = dns /\ egress' = egress /\ later' = later /\ failed' = failed \ {"stop"} /\ configs' = configs
      /\ fwFaults' = fwFaults
  BY DEF CloseHost
<1>2. todo' \in Seq(FwCmd) /\ Len(todo') = 15 /\ \A i \in 1 .. 15 : todo'[i] = StopAt(i)
  BY <1>1, StopStarts
<1>3. JumpsAre'
  BY <1>1, FwPlain DEF JumpsAre
<1>4. FwTypes'
  <2>1. NoProxy \in [port : Nat, upstream : FwAddresses \cup {"none"}, records : SUBSET Names]
    BY DEF NoProxy
  <2> QED
    BY <1>1, <2>1, FwPlain DEF FwTypes
<1>5. FwPhase'
  BY <1>1 DEF FwPhase
<1>6. FwCalm'
  BY <1>1, FwPlain DEF FwCalm
<1>7. Stopping'
  <2>1. DOMAIN todo' = 1 .. 15
    BY <1>2
  <2>2. \A i \in DOMAIN todo' : todo'[i] = StopAt(15 - Len(todo') + i)
    BY <1>2, <2>1
  <2>3. \A j \in 1 .. 5 : ~(j <= 15 - Len(todo'))
    BY <1>2
  <2> QED
    BY <1>2, <2>2, <2>3 DEF Stopping
<1> QED
  BY <1>1, <1>2, <1>3, <1>4, <1>5, <1>6, <1>7 DEF FwInv, FwProxied, DnsExact, EgressExact, Applying

LEMMA StoppedKeeps == FwInv /\ Stopped => FwInv'
<1> SUFFICES ASSUME FwInv, Stopped PROVE FwInv'
  OBVIOUS
<1>1. /\ doing = "stop" /\ todo = <<>> /\ doing' = "down" /\ jumps' = jumps /\ filled' = filled /\ todo' = todo /\ ready' = FALSE
      /\ proxy' = proxy /\ dns' = NoDns /\ egress' = <<>> /\ later' = <<>> /\ failed' = failed /\ configs' = configs
      /\ fwFaults' = fwFaults
  BY DEF Stopped
<1>2. JumpsAre' /\ todo' \in Seq(FwCmd)
  BY <1>1, FwPlain DEF JumpsAre
<1>3. FwTypes'
  <2>1. <<>> \in EgressLists
    BY FirewallAssumption
  <2>2. ready' \in BOOLEAN
    BY <1>1, Zenon
  <2> QED
    BY <1>1, <2>1, <2>2, FwPlain DEF FwTypes
<1>4. FwPhase'
  <2>1. "stop" \notin failed => \A j \in 1 .. 5 : filled[Chains[j]] = <<>>
    <3>1. Len(todo) = 0
      BY <1>1
    <3>2. \A j \in 1 .. 5 : j <= 15 - Len(todo)
      BY <3>1
    <3> QED
      BY <1>1, <3>2, FwPlain DEF Stopping
  <2>2. "stop" \notin failed => \A c \in ChainSet : filled[c] = <<>>
    BY <2>1, ChainsAre
  <2>3. proxy = NoProxy
    BY <1>1, FwPlain DEF FwPhase
  <2>4. AllHooked'
    BY <1>1 DEF AllHooked
  <2> QED
    BY <1>1, <2>2, <2>3, <2>4 DEF FwPhase
<1>5. FwCalm' /\ FwProxied'
  <2>1. proxy = NoProxy
    BY <1>1, FwPlain DEF FwPhase
  <2> QED
    BY <1>1, <2>1, FwPlain DEF FwCalm, FwProxied
<1> QED
  BY <1>1, <1>2, <1>3, <1>4, <1>5 DEF FwInv, DnsExact, EgressExact, Stopping, Applying

LEMMA DiesKeeps == FwInv /\ NodeDies => FwInv'
<1> SUFFICES ASSUME FwInv, NodeDies PROVE FwInv'
  OBVIOUS
<1>1. /\ doing' = "down" /\ jumps' = jumps /\ filled' = filled /\ todo' = <<>> /\ ready' = FALSE
      /\ proxy' = NoProxy /\ dns' = NoDns /\ egress' = <<>> /\ later' = <<>> /\ failed' = {"dns", "egress", "stop"}
      /\ configs' = configs /\ fwFaults' = fwFaults + 1 /\ fwFaults < MaxFwFaults
  BY DEF NodeDies, FwFault
<1>2. fwFaults \in Nat /\ MaxFwFaults \in Nat
  BY FwPlain, FirewallAssumption
<1>3. JumpsAre' /\ todo' \in Seq(FwCmd)
  <2>1. \A c \in ChainSet : jumps[c] \in Nat /\ jumps[c] <= 1 + fwFaults
    BY FwPlain DEF JumpsAre
  <2>2. \A c \in ChainSet : jumps'[c] <= 1 + fwFaults'
    BY <1>1, <1>2, <2>1
  <2> QED
    BY <1>1, <2>2, FwPlain DEF JumpsAre
<1>4. FwTypes'
  <2>1. <<>> \in EgressLists
    BY FirewallAssumption
  <2>2. ready' \in BOOLEAN
    BY <1>1, Zenon
  <2>3. NoProxy \in [port : Nat, upstream : FwAddresses \cup {"none"}, records : SUBSET Names]
    BY DEF NoProxy
  <2>4. fwFaults' \in 0 .. MaxFwFaults /\ configs' \in 0 .. MaxConfigs
    BY <1>1, <1>2, FwPlain DEF FwTypes
  <2>5. doing' \in {"down", "idle", "dns", "egress", "stop"} /\ failed' \subseteq {"dns", "egress", "stop"}
    BY <1>1
  <2> QED
    BY <1>1, <2>1, <2>2, <2>3, <2>4, <2>5 DEF FwTypes
<1>5. FwPhase'
  BY <1>1 DEF FwPhase, AllHooked
<1>6. FwCalm' /\ FwProxied'
  BY <1>1, <1>2 DEF FwCalm, FwProxied
<1> QED
  BY <1>1, <1>3, <1>4, <1>5, <1>6 DEF FwInv, DnsExact, EgressExact, Stopping, Applying

\* The list of an application that is through is exact.
LEMMA DnsThrough ==
  ASSUME FwInv, doing = "dns", todo = <<>>, "dns" \notin failed
  PROVE  Exact(DnsChains, GenerateDNSRedirect(dns))
<1>1. PICK g : g = GenerateDNSRedirect(dns)
  OBVIOUS
<1>2. g \in Seq(RuleCmds(DnsChains)) /\ Going(DnsChains, g, FALSE)
  BY <1>1, FwPlain DEF Applying
<1>3. Exact(DnsChains, g)
  BY <1>2, DoneIsExact, ChainNames, FwPlain
<1> QED
  BY <1>1, <1>3
LEMMA EgressThrough ==
  ASSUME FwInv, doing = "egress", todo = <<>>, "egress" \notin failed
  PROVE  Exact(EgressChains, GenerateEgressRules(egress))
<1>1. PICK g : g = GenerateEgressRules(egress)
  OBVIOUS
<1>2. g \in Seq(RuleCmds(EgressChains)) /\ Going(EgressChains, g, FALSE)
  BY <1>1, FwPlain DEF Applying
<1>3. Exact(EgressChains, g)
  BY <1>2, DoneIsExact, ChainNames, FwPlain
<1> QED
  BY <1>1, <1>3

\* The egress list begins to be applied.
LEMMA EgressStarts ==
  ASSUME FwInv, NEW rs \in EgressLists, todo' = ensureChains \o ApplyEgress(rs), egress' = rs, ready' = ready, doing' = "egress"
  PROVE  todo' \in Seq(FwCmd) /\ Applying("egress", EgressChains, GenerateEgressRules(egress))'
<1>1. PICK g : g = GenerateEgressRules(rs)
  OBVIOUS
<1>2. PICK e : e = ensureChains
  OBVIOUS
<1>3. g \in Seq(RuleCmds(EgressChains)) /\ ready \in BOOLEAN
  BY <1>1, EgressRules, FwPlain
<1>4. todo' = e \o (Flush(EgressChains) \o g)
  BY <1>1, <1>2, Zenon DEF ApplyEgress
<1>5. Begins(todo', EgressChains, g)
  <2>1. Begins(e \o (Flush(EgressChains) \o g), EgressChains, g)
    BY <1>2, <1>3, ProgramStarts, ChainNames
  <2> QED
    BY <1>4, <2>1
<1>6. todo' \in Seq(FwCmd) /\ Going(EgressChains, g, TRUE)' /\ Going(EgressChains, g, FALSE)'
  BY <1>3, <1>5, GoesFrom, ChainNames
<1>7. GenerateEgressRules(egress)' = g
  BY <1>1
<1> QED
  BY <1>6, <1>7 DEF Applying

LEMMA DnsDoneKeeps == FwInv /\ DnsDone => FwInv'
<1> SUFFICES ASSUME FwInv, DnsDone PROVE FwInv'
  OBVIOUS
<1>1. /\ doing = "dns" /\ todo = <<>> /\ jumps' = jumps /\ filled' = filled /\ ready' = ready
      /\ proxy' = proxy /\ dns' = dns /\ later' = later /\ failed' = failed /\ configs' = configs
      /\ fwFaults' = fwFaults
      /\ \/ later # <<>> /\ doing' = "egress" /\ todo' = ensureChains \o ApplyEgress(later) /\ egress' = later
         \/ later = <<>> /\ doing' = "idle" /\ todo' = todo /\ egress' = egress
  BY DEF DnsDone
<1>2. JumpsAre'
  BY <1>1, FwPlain DEF JumpsAre
<1>3. FwTypes' /\ later \in EgressLists
  BY <1>1, FwPlain DEF FwTypes
<1>4. FwCalm' /\ FwProxied'
  BY <1>1, FwPlain DEF FwCalm, FwProxied
<1>5. FwPhase'
  <2>1. AllHooked'
    BY <1>1, FwPlain DEF FwPhase, AllHooked
  <2> QED
    BY <1>1, <2>1 DEF FwPhase
<1>6. DnsExact'
  <2>1. "dns" \notin failed => Exact(DnsChains, GenerateDNSRedirect(dns))
    BY <1>1, DnsThrough
  <2>2. PICK g : g = GenerateDNSRedirect(dns)
    OBVIOUS
  <2>3. "dns" \notin failed => Exact(DnsChains, g)'
    BY <1>1, <2>1, <2>2, SameRules
  <2> QED
    BY <1>1, <2>2, <2>3 DEF DnsExact
<1>7. CASE later # <<>> /\ doing' = "egress" /\ todo' = ensureChains \o ApplyEgress(later) /\ egress' = later
  <2>1. todo' \in Seq(FwCmd) /\ Applying("egress", EgressChains, GenerateEgressRules(egress))'
    BY <1>1, <1>3, <1>7, EgressStarts
  <2>2. EgressExact' /\ Stopping' /\ Applying("dns", DnsChains, GenerateDNSRedirect(dns))'
    BY <1>7 DEF EgressExact, Stopping, Applying
  <2> QED
    BY <1>2, <1>3, <1>4, <1>5, <1>6, <2>1, <2>2 DEF FwInv
<1>8. CASE later = <<>> /\ doing' = "idle" /\ todo' = todo /\ egress' = egress
  <2>1. EgressExact'
    <3>1. "egress" \notin failed /\ egress # <<>> => Exact(EgressChains, GenerateEgressRules(egress))
      BY <1>1, <1>8, FwPlain DEF EgressExact
    <3>2. PICK g : g = GenerateEgressRules(egress)
      OBVIOUS
    <3>3. "egress" \notin failed /\ egress # <<>> => Exact(EgressChains, g)'
      BY <1>1, <3>1, <3>2, SameRules
    <3> QED
      BY <1>1, <1>8, <3>2, <3>3 DEF EgressExact
  <2>2. Stopping' /\ Applying("dns", DnsChains, GenerateDNSRedirect(dns))' /\ Applying("egress", EgressChains, GenerateEgressRules(egress))'
    BY <1>8 DEF Stopping, Applying
  <2>3. todo' \in Seq(FwCmd)
    BY <1>8, FwPlain
  <2> QED
    BY <1>2, <1>3, <1>4, <1>5, <1>6, <2>1, <2>2, <2>3 DEF FwInv
<1> QED
  BY <1>1, <1>7, <1>8

LEMMA EgressDoneKeeps == FwInv /\ EgressDone => FwInv'
<1> SUFFICES ASSUME FwInv, EgressDone PROVE FwInv'
  OBVIOUS
<1>1. /\ doing = "egress" /\ todo = <<>> /\ doing' = "idle" /\ jumps' = jumps /\ filled' = filled /\ todo' = todo /\ ready' = ready
      /\ proxy' = proxy /\ dns' = dns /\ egress' = egress /\ later' = later /\ failed' = failed /\ configs' = configs
      /\ fwFaults' = fwFaults
  BY DEF EgressDone
<1>2. JumpsAre' /\ todo' \in Seq(FwCmd)
  BY <1>1, FwPlain DEF JumpsAre
<1>3. FwTypes'
  BY <1>1, FwPlain DEF FwTypes
<1>4. FwCalm' /\ FwProxied'
  BY <1>1, FwPlain DEF FwCalm, FwProxied
<1>5. FwPhase'
  BY <1>1, FwPlain DEF FwPhase, AllHooked
<1>6. DnsExact'
  <2>1. "dns" \notin failed /\ dns # NoDns => Exact(DnsChains, GenerateDNSRedirect(dns))
    BY <1>1, FwPlain DEF DnsExact
  <2>2. PICK g : g = GenerateDNSRedirect(dns)
    OBVIOUS
  <2>3. "dns" \notin failed /\ dns # NoDns => Exact(DnsChains, g)'
    BY <1>1, <2>1, <2>2, SameRules
  <2> QED
    BY <1>1, <2>2, <2>3 DEF DnsExact
<1>7. EgressExact'
  <2>1. "egress" \notin failed => Exact(EgressChains, GenerateEgressRules(egress))
    BY <1>1, EgressThrough
  <2>2. PICK g : g = GenerateEgressRules(egress)
    OBVIOUS
  <2>3. "egress" \notin failed => Exact(EgressChains, g)'
    BY <1>1, <2>1, <2>2, SameRules
  <2> QED
    BY <1>1, <2>2, <2>3 DEF EgressExact
<1>8. Stopping' /\ Applying("dns", DnsChains, GenerateDNSRedirect(dns))' /\ Applying("egress", EgressChains, GenerateEgressRules(egress))'
  BY <1>1 DEF Stopping, Applying
<1> QED
  BY <1>2, <1>3, <1>4, <1>5, <1>6, <1>7, <1>8 DEF FwInv

LEMMA ApplyKeeps ==
  ASSUME FwInv, NEW c \in DnsConfigs \cup {NoDns}, NEW rs \in EgressLists, ApplyHostConfig(c, rs)
  PROVE  FwInv'
<1>1. /\ doing = "idle" /\ jumps' = jumps /\ filled' = filled /\ ready' = ready /\ later' = rs
      /\ configs < MaxConfigs /\ configs' = configs + 1
      /\ failed' = failed \ ((IF c = NoDns THEN {} ELSE {"dns"}) \cup (IF rs = <<>> THEN {} ELSE {"egress"}))
  BY DEF ApplyHostConfig
<1>2. \/ c.enabled = FALSE /\ proxy' = proxy /\ fwFaults' = fwFaults
      \/ c.enabled = TRUE /\ proxy' = UpdateRecords(c) /\ fwFaults' = fwFaults
      \/ c.enabled = TRUE /\ proxy' = New(c) /\ fwFaults' = fwFaults
      \/ fwFaults < MaxFwFaults /\ fwFaults' = fwFaults + 1 /\ proxy' = proxy
  <2>1. c.enabled \in BOOLEAN
    BY DnsParts
  <2>2. IF ~c.enabled THEN proxy' = proxy /\ fwFaults' = fwFaults
        ELSE IF proxy # NoProxy THEN proxy' = UpdateRecords(c) /\ fwFaults' = fwFaults
        ELSE \/ proxy' = New(c) /\ fwFaults' = fwFaults
             \/ FwFault /\ proxy' = proxy
    BY DEF ApplyHostConfig
  <2>3. CASE c.enabled = FALSE
    BY <2>2, <2>3
  <2>4. CASE c.enabled = TRUE
    BY <2>2, <2>4 DEF FwFault
  <2> QED
    BY <2>1, <2>3, <2>4
<1>3. \/ c # NoDns /\ dns' = c /\ doing' = "dns" /\ todo' = ApplyDNS(c) /\ egress' = egress
      \/ c = NoDns /\ dns' = dns /\ rs # <<>> /\ doing' = "egress" /\ todo' = ensureChains \o ApplyEgress(rs) /\ egress' = rs
      \/ c = NoDns /\ dns' = dns /\ rs = <<>> /\ doing' = doing /\ todo' = todo /\ egress' = egress
  BY DEF ApplyHostConfig
<1>4. fwFaults \in Nat /\ fwFaults' \in 0 .. MaxFwFaults /\ fwFaults' >= fwFaults /\ configs' \in 0 .. MaxConfigs
  BY <1>1, <1>2, FwPlain, FirewallAssumption DEF FwTypes
<1>5. JumpsAre'
  <2>1. \A d \in ChainSet : jumps[d] \in Nat /\ jumps[d] <= 1 + fwFaults
    BY FwPlain DEF JumpsAre
  <2>2. \A d \in ChainSet : jumps'[d] <= 1 + fwFaults'
    BY <1>1, <1>4, <2>1
  <2> QED
    BY <1>1, <2>2, FwPlain DEF JumpsAre
<1>6. proxy' \in [port : Nat, upstream : FwAddresses \cup {"none"}, records : SUBSET Names]
  <2>1. PICK T : T = FwAddresses \cup {"none"}
    OBVIOUS
  <2>2. c.port \in Nat /\ c.records \subseteq Names /\ c.upstream \in T
    BY <2>1, DnsParts DEF FwArgs
  <2>3. proxy \in [port : Nat, upstream : T, records : SUBSET Names]
    BY <2>1, FwPlain DEF FwTypes
  <2>4. New(c) \in [port : Nat, upstream : T, records : SUBSET Names]
    BY <2>2 DEF New
  <2>5. UpdateRecords(c) \in [port : Nat, upstream : T, records : SUBSET Names]
    BY <2>2, <2>3 DEF UpdateRecords
  <2> QED
    BY <1>2, <2>1, <2>3, <2>4, <2>5
<1>7. dns' \in DnsConfigs \cup {NoDns} /\ egress' \in EgressLists
  BY <1>3, FwPlain DEF FwTypes
<1>8. FwTypes'
  <2>1. doing' \in {"down", "idle", "dns", "egress", "stop"}
    BY <1>1, <1>3
  <2>2. failed' \subseteq {"dns", "egress", "stop"}
    BY <1>1, FwPlain DEF FwTypes
  <2>3. ready' \in BOOLEAN
    BY <1>1, FwPlain
  <2> QED
    BY <1>1, <1>4, <1>6, <1>7, <2>1, <2>2, <2>3 DEF FwTypes
<1>9. FwPhase'
  <2>1. AllHooked'
    BY <1>1, FwPlain DEF FwPhase, AllHooked
  <2>2. doing = "idle" /\ todo = <<>>
    BY <1>1, FwPlain DEF FwPhase
  <2> QED
    BY <1>3, <2>1, <2>2 DEF FwPhase
<1>10. FwCalm'
  <2> SUFFICES ASSUME fwFaults' = 0 PROVE FwCalm'
    BY DEF FwCalm
  <2>1. fwFaults = 0 /\ fwFaults' = fwFaults
    BY <1>4
  <2>2. failed = {} /\ OutShape(filled["DNS-OUT"]) /\ (dns.enabled = TRUE => proxy.records = dns.records)
    BY <1>1, <2>1, FwPlain DEF FwCalm
  <2>3. \/ c.enabled = FALSE /\ proxy' = proxy
        \/ proxy' = UpdateRecords(c)
        \/ proxy' = New(c)
    BY <1>2, <1>4, <2>1
  <2>4. New(c).records = c.records
    BY DEF New
  <2>5. UpdateRecords(c).records = c.records
    BY FwPlain DEF UpdateRecords, FwTypes
  <2>6. NoDns.enabled = FALSE
    BY DEF NoDns
  <2>7. c # NoDns => (dns'.enabled = TRUE => proxy'.records = dns'.records)
    BY <1>3, <2>3, <2>4, <2>5
  <2>8. c = NoDns => (dns'.enabled = TRUE => proxy'.records = dns'.records)
    <3> HAVE c = NoDns
    <3>1. ~(c.enabled = TRUE)
      BY <2>6
    <3>2. proxy' = proxy /\ dns' = dns
      BY <1>2, <1>3, <1>4, <2>1, <3>1
    <3> QED
      BY <2>2, <3>2
  <2>9. failed' = {}
    BY <1>1, <2>2
  <2> QED
    BY <1>1, <2>2, <2>7, <2>8, <2>9 DEF FwCalm
<1>11. FwProxied'
  <2>1. c = NoDns => proxy' = proxy
    <3> HAVE c = NoDns
    <3>1. ~(c.enabled = TRUE)
      BY DEF NoDns
    <3> QED
      BY <1>2, <3>1
  <2> QED
    BY <1>3, <2>1, FwPlain DEF FwProxied
<1>12. Stopping'
  BY <1>1, <1>3 DEF Stopping
<1>13. c = NoDns => DnsExact'
  <2> HAVE c = NoDns
  <2>1. failed' = failed \/ failed' = failed \ {"egress"}
    BY <1>1
  <2>2. "dns" \notin failed /\ dns # NoDns => Exact(DnsChains, GenerateDNSRedirect(dns))
    BY <1>1, FwPlain DEF DnsExact
  <2>3. PICK g : g = GenerateDNSRedirect(dns)
    OBVIOUS
  <2>4. "dns" \notin failed /\ dns # NoDns => Exact(DnsChains, g)'
    BY <1>1, <2>2, <2>3, SameRules
  <2>5. "dns" \notin failed' => "dns" \notin failed
    BY <2>1
  <2> QED
    BY <1>3, <2>3, <2>4, <2>5 DEF DnsExact
<1>14. rs = <<>> => EgressExact'
  <2> HAVE rs = <<>>
  <2>1. failed' = failed \/ failed' = failed \ {"dns"}
    BY <1>1
  <2>2. "egress" \notin failed /\ egress # <<>> => Exact(EgressChains, GenerateEgressRules(egress))
    BY <1>1, FwPlain DEF EgressExact
  <2>3. PICK g : g = GenerateEgressRules(egress)
    OBVIOUS
  <2>4. "egress" \notin failed /\ egress # <<>> => Exact(EgressChains, g)'
    BY <1>1, <2>2, <2>3, SameRules
  <2>5. "egress" \notin failed' => "egress" \notin failed
    BY <2>1
  <2>6. egress' = egress
    BY <1>3
  <2> QED
    BY <2>3, <2>4, <2>5, <2>6 DEF EgressExact
<1>15. CASE c # NoDns /\ dns' = c /\ doing' = "dns" /\ todo' = ApplyDNS(c) /\ egress' = egress
  <2>1. PICK g, e : g = GenerateDNSRedirect(c) /\ e = ensureChains
    OBVIOUS
  <2>2. g \in Seq(RuleCmds(DnsChains)) /\ ready \in BOOLEAN
    BY <2>1, DnsRules, FwPlain
  <2>3. todo' = e \o Flush(DnsChains) \o g
    BY <1>15, <2>1, Zenon DEF ApplyDNS
  <2>4. Begins(todo', DnsChains, g)
    <3>1. Begins(e \o Flush(DnsChains) \o g, DnsChains, g)
      BY <2>1, <2>2, ProgramStarts, ChainNames
    <3> QED
      BY <2>3, <3>1
  <2>5. todo' \in Seq(FwCmd) /\ Going(DnsChains, g, TRUE)' /\ Going(DnsChains, g, FALSE)'
    BY <1>1, <2>2, <2>4, GoesFrom, ChainNames
  <2>6. Applying("dns", DnsChains, GenerateDNSRedirect(dns))'
    BY <1>15, <2>1, <2>5 DEF Applying
  <2>7. Applying("egress", EgressChains, GenerateEgressRules(egress))' /\ DnsExact'
    BY <1>15 DEF Applying, DnsExact
  <2>8. EgressExact'
    BY <1>1, <1>14, <1>15 DEF EgressExact
  <2> QED
    BY <1>5, <1>8, <1>9, <1>10, <1>11, <1>12, <2>5, <2>6, <2>7, <2>8 DEF FwInv
<1>16. CASE c = NoDns /\ dns' = dns /\ rs # <<>> /\ doing' = "egress" /\ todo' = ensureChains \o ApplyEgress(rs) /\ egress' = rs
  <2>1. todo' \in Seq(FwCmd) /\ Applying("egress", EgressChains, GenerateEgressRules(egress))'
    BY <1>1, <1>16, EgressStarts
  <2>2. Applying("dns", DnsChains, GenerateDNSRedirect(dns))' /\ EgressExact'
    BY <1>16 DEF Applying, EgressExact
  <2> QED
    BY <1>5, <1>8, <1>9, <1>10, <1>11, <1>12, <1>13, <1>16, <2>1, <2>2 DEF FwInv
<1>17. CASE c = NoDns /\ dns' = dns /\ rs = <<>> /\ doing' = doing /\ todo' = todo /\ egress' = egress
  <2>1. /\ Applying("dns", DnsChains, GenerateDNSRedirect(dns))'
        /\ Applying("egress", EgressChains, GenerateEgressRules(egress))'
    BY <1>1, <1>17 DEF Applying
  <2>2. todo' \in Seq(FwCmd)
    BY <1>17, FwPlain
  <2> QED
    BY <1>5, <1>8, <1>9, <1>10, <1>11, <1>12, <1>13, <1>14, <1>17, <2>1, <2>2 DEF FwInv
<1> QED
  BY <1>3, <1>15, <1>16, <1>17

\* A command leaves the exact rules of other chains than those of its program.
LEMMA OthersRules ==
  ASSUME NEW fs, NEW gs, (fs = DnsChains /\ gs = EgressChains) \/ (fs = EgressChains /\ gs = DnsChains),
         NEW g, Exact(gs, g), ready = TRUE => ready' = TRUE,
         \A c \in ChainSet \ Range(fs) : filled'[c] = filled[c]
  PROVE  Exact(gs, g)'
<1>1. \A j \in DOMAIN gs : gs[j] \in ChainSet \ Range(fs)
  BY ChainNames
<1> QED
  BY <1>1 DEF Exact

LEMMA RunKeeps == FwInv /\ Run => FwInv'
<1> SUFFICES ASSUME FwInv, Run PROVE FwInv'
  OBVIOUS
<1>1. /\ todo # <<>> /\ Take(Head(todo)) /\ todo' = Tail(todo) /\ doing' = doing
      /\ proxy' = proxy /\ dns' = dns /\ egress' = egress /\ later' = later /\ failed' = failed /\ configs' = configs
      /\ fwFaults' = fwFaults
  BY DEF Run
<1>2. doing \in {"dns", "egress", "stop"}
  BY <1>1, FwPlain DEF FwPhase, FwTypes
<1>3. Head(todo) \in FwCmd /\ todo' \in Seq(FwCmd)
  BY <1>1, FwPlain
<1>4. JumpsAre' /\ ready' \in BOOLEAN
  BY <1>1, <1>3, TakeKeepsTypes, FwPlain
<1>5. FwTypes' /\ FwProxied'
  BY <1>1, <1>4, FwPlain DEF FwTypes, FwProxied
<1>6. OutShape(filled'["DNS-OUT"]) => FwCalm'
  BY <1>1, FwPlain DEF FwCalm
<1>7. doing # "stop" => AllHooked
  BY FwPlain DEF FwPhase
<1>8. CASE doing = "dns"
  <2>1. PICK g : g = GenerateDNSRedirect(dns)
    OBVIOUS
  <2>2. g \in Seq(RuleCmds(DnsChains)) /\ GenerateDNSRedirect(dns)' = g /\ dns # NoDns /\ dns \in DnsConfigs \cup {NoDns}
    BY <1>1, <1>8, <2>1, FwPlain DEF FwPhase, FwTypes
  <2>3. PICK bad \in BOOLEAN : bad = IF "dns" \in failed THEN TRUE ELSE FALSE
    BY Zenon
  <2>4. Going(DnsChains, g, bad)
    BY <1>8, <2>1, <2>3, FwPlain DEF Applying
  <2>5. /\ Going(DnsChains, g, bad)' /\ AllHooked' /\ (ready = TRUE => ready' = TRUE)
        /\ \A c \in ChainSet \ Range(DnsChains) : filled'[c] = filled[c]
        /\ \A j \in 1 .. Len(DnsChains) : Done0(DnsChains, g)' < 6 + j => filled'[DnsChains[j]] = filled[DnsChains[j]]
    <3>1. /\ todo \in Seq(FwCmd) /\ todo # <<>> /\ JumpsAre /\ ready \in BOOLEAN /\ AllHooked /\ ChainList(DnsChains)
          /\ Take(Head(todo)) /\ todo' = Tail(todo)
      BY <1>1, <1>7, <1>8, ChainNames, FwPlain
    <3>2. g \in Seq(RuleCmds(DnsChains)) /\ bad \in BOOLEAN
      BY <2>2
    <3> QED
      BY <2>4, <3>1, <3>2, ProgramRuns
  <2>6. Applying("dns", DnsChains, GenerateDNSRedirect(dns))'
    <3>1. doing' = "dns" => IF "dns" \in failed' THEN Going(DnsChains, g, TRUE)' ELSE Going(DnsChains, g, FALSE)'
      BY <1>1, <2>3, <2>5
    <3> QED
      BY <2>2, <3>1 DEF Applying
  <2>7. EgressExact'
    <3>1. PICK h : h = GenerateEgressRules(egress)
      OBVIOUS
    <3>2. later = <<>> /\ "egress" \notin failed /\ egress # <<>> => Exact(EgressChains, h)
      BY <1>8, <3>1, FwPlain DEF EgressExact
    <3>3. later = <<>> /\ "egress" \notin failed /\ egress # <<>> => Exact(EgressChains, h)'
      BY <2>5, <3>2, OthersRules
    <3> QED
      BY <1>1, <1>8, <3>1, <3>3 DEF EgressExact
  <2>8. FwCalm'
    <3>1. SUFFICES ASSUME fwFaults = 0 PROVE OutShape(filled'["DNS-OUT"])
      BY <1>1, <1>6 DEF FwCalm
    <3>2. failed = {} /\ OutShape(filled["DNS-OUT"])
      BY <3>1, FwPlain DEF FwCalm
    <3>3. PICK place : place = Done0(DnsChains, g)'
      OBVIOUS
    <3>4. bad = FALSE /\ FilledSoFar(DnsChains, g, place)'
      BY <2>3, <2>5, <3>2, <3>3 DEF Going
    <3>5. Len(DnsChains) = 2 /\ DOMAIN DnsChains = 1 .. 2 /\ DnsChains[2] = "DNS-OUT"
      BY ChainsAre, ChainNames
    <3>6. place \in Nat /\ place <= 8 + Len(g) /\ Len(g) \in Nat
      <4>1. Remains(DnsChains, g)' /\ Len(todo') \in Nat /\ Len(g) \in Nat
        BY <1>3, <2>2, <2>5 DEF Going
      <4>2. Len(todo') <= 6 + Len(DnsChains) + Len(g)
        BY <4>1 DEF Remains
      <4>3. place = 6 + Len(DnsChains) + Len(g) - Len(todo')
        BY <3>3 DEF Done0
      <4> QED
        BY <3>5, <4>1, <4>2, <4>3
    <3>7. CASE place < 8
      <4>1. filled'["DNS-OUT"] = filled["DNS-OUT"]
        BY <2>5, <3>3, <3>5, <3>7
      <4> QED
        BY <3>2, <4>1
    <3>8. CASE place >= 8
      <4>1. PICK k : k = place - 8
        OBVIOUS
      <4>2. k \in 0 .. Len(g)
        BY <3>6, <3>8, <4>1
      <4>3. filled'["DNS-OUT"] = FilledBy(g, "DNS-OUT")[k]
        <5>1. \A j \in 1 .. 2 : place >= 6 + j =>
                filled'[DnsChains[j]] = FilledBy(g, DnsChains[j])[IF place >= 6 + 2 THEN place - 6 - 2 ELSE 0]
          BY <3>4, <3>5, Zenon DEF FilledSoFar
        <5>2. filled'[DnsChains[2]] = FilledBy(g, DnsChains[2])[IF place >= 6 + 2 THEN place - 6 - 2 ELSE 0]
          BY <3>6, <3>8, <5>1
        <5>3. (IF place >= 6 + 2 THEN place - 6 - 2 ELSE 0) = k
          BY <3>6, <3>8, <4>1
        <5> QED
          BY <3>5, <5>2, <5>3, Zenon
      <4>4. OutShape(FilledBy(g, "DNS-OUT")[k])
        BY <2>1, <2>2, <4>2, OutRules
      <4> QED
        BY <4>3, <4>4
    <3> QED
      BY <3>6, <3>7, <3>8
  <2>9. FwPhase' /\ DnsExact' /\ Stopping' /\ Applying("egress", EgressChains, GenerateEgressRules(egress))'
    BY <1>1, <1>8, <2>2, <2>5 DEF FwPhase, DnsExact, Stopping, Applying
  <2> QED
    BY <1>3, <1>4, <1>5, <2>6, <2>7, <2>8, <2>9 DEF FwInv
<1>9. CASE doing = "egress"
  <2>1. PICK g : g = GenerateEgressRules(egress)
    OBVIOUS
  <2>2. g \in Seq(RuleCmds(EgressChains)) /\ GenerateEgressRules(egress)' = g
    BY <1>1, <2>1, FwPlain
  <2>3. PICK bad \in BOOLEAN : bad = IF "egress" \in failed THEN TRUE ELSE FALSE
    BY Zenon
  <2>4. Going(EgressChains, g, bad)
    BY <1>9, <2>1, <2>3, FwPlain DEF Applying
  <2>5. /\ Going(EgressChains, g, bad)' /\ AllHooked' /\ (ready = TRUE => ready' = TRUE)
        /\ \A c \in ChainSet \ Range(EgressChains) : filled'[c] = filled[c]
    <3>1. /\ todo \in Seq(FwCmd) /\ todo # <<>> /\ JumpsAre /\ ready \in BOOLEAN /\ AllHooked /\ ChainList(EgressChains)
          /\ Take(Head(todo)) /\ todo' = Tail(todo)
      BY <1>1, <1>7, <1>9, ChainNames, FwPlain
    <3>2. g \in Seq(RuleCmds(EgressChains)) /\ bad \in BOOLEAN
      BY <2>2
    <3> QED
      BY <2>4, <3>1, <3>2, ProgramRuns
  <2>6. Applying("egress", EgressChains, GenerateEgressRules(egress))'
    <3>1. doing' = "egress" => IF "egress" \in failed' THEN Going(EgressChains, g, TRUE)' ELSE Going(EgressChains, g, FALSE)'
      BY <1>1, <2>3, <2>5
    <3> QED
      BY <2>2, <3>1 DEF Applying
  <2>7. DnsExact'
    <3>1. PICK h : h = GenerateDNSRedirect(dns)
      OBVIOUS
    <3>2. "dns" \notin failed /\ dns # NoDns => Exact(DnsChains, h)
      BY <1>9, <3>1, FwPlain DEF DnsExact
    <3>3. "dns" \notin failed /\ dns # NoDns => Exact(DnsChains, h)'
      BY <2>5, <3>2, OthersRules
    <3> QED
      BY <1>1, <1>9, <3>1, <3>3 DEF DnsExact
  <2>8. FwCalm'
    <3>1. filled'["DNS-OUT"] = filled["DNS-OUT"]
      BY <2>5, ChainNames
    <3> QED
      BY <1>1, <3>1, FwPlain DEF FwCalm
  <2>9. FwPhase' /\ EgressExact' /\ Stopping' /\ Applying("dns", DnsChains, GenerateDNSRedirect(dns))'
    BY <1>1, <1>9, <2>5 DEF FwPhase, EgressExact, Stopping, Applying
  <2> QED
    BY <1>3, <1>4, <1>5, <2>6, <2>7, <2>8, <2>9 DEF FwInv
<1>10. CASE doing = "stop"
  <2>1. Stopping' /\ \A c \in ChainSet : filled'[c] \in {filled[c], <<>>}
    BY <1>1, <1>10, StopRuns, FwPlain
  <2>2. FwCalm'
    <3>1. "DNS-OUT" \in ChainSet
      BY DEF ChainSet
    <3>2. PICK none : none = <<>>
      OBVIOUS
    <3>3. OutShape(none)
      BY <3>2 DEF OutShape
    <3>4. filled'["DNS-OUT"] \in {filled["DNS-OUT"], none}
      BY <2>1, <3>1, <3>2
    <3> QED
      BY <1>1, <3>3, <3>4, FwPlain DEF FwCalm
  <2>3. FwPhase'
    BY <1>1, <1>10, FwPlain DEF FwPhase
  <2>4. /\ DnsExact' /\ EgressExact' /\ Applying("dns", DnsChains, GenerateDNSRedirect(dns))'
        /\ Applying("egress", EgressChains, GenerateEgressRules(egress))'
    BY <1>1, <1>10 DEF DnsExact, EgressExact, Applying
  <2> QED
    BY <1>3, <1>4, <1>5, <2>1, <2>2, <2>3, <2>4 DEF FwInv
<1> QED
  BY <1>2, <1>8, <1>9, <1>10

LEMMA FailKeeps == FwInv /\ RunFails => FwInv'
<1> SUFFICES ASSUME FwInv, RunFails PROVE FwInv'
  OBVIOUS
<1>1. /\ todo # <<>> /\ doing' = doing /\ filled' = filled /\ ready' = ready
      /\ proxy' = proxy /\ dns' = dns /\ egress' = egress /\ later' = later /\ failed' = failed \cup {doing} /\ configs' = configs
      /\ fwFaults < MaxFwFaults /\ fwFaults' = fwFaults + 1
  BY DEF RunFails, FwFault
<1>2. doing \in {"dns", "egress", "stop"}
  BY <1>1, FwPlain DEF FwPhase, FwTypes
<1>3. todo' \in Seq(FwCmd)
  <2>1. todo' = <<>> \/ todo' = Tail(todo)
    BY DEF RunFails
  <2>2. PICK q, S : q = todo /\ S = FwCmd
    OBVIOUS
  <2>3. q \in Seq(S) /\ q # <<>>
    BY <1>1, <2>2, FwPlain
  <2>4. Tail(q) \in Seq(S) /\ <<>> \in Seq(S)
    BY <2>3
  <2> QED
    BY <2>1, <2>2, <2>4
<1>4. FwTypes' /\ FwProxied'
  <2>1. fwFaults' \in 0 .. MaxFwFaults
    BY <1>1, FwPlain, FirewallAssumption
  <2>2. failed' \subseteq {"dns", "egress", "stop"}
    BY <1>1, <1>2, FwPlain DEF FwTypes
  <2> QED
    BY <1>1, <2>1, <2>2, FwPlain DEF FwTypes, FwProxied
<1>5. FwCalm'
  BY <1>1, FwPlain DEF FwCalm
<1>6. doing # "stop" => AllHooked
  BY FwPlain DEF FwPhase
<1>7. CASE doing = "dns"
  <2>1. PICK g : g = GenerateDNSRedirect(dns)
    OBVIOUS
  <2>2. g \in Seq(RuleCmds(DnsChains)) /\ GenerateDNSRedirect(dns)' = g /\ dns # NoDns
    BY <1>1, <1>7, <2>1, FwPlain DEF FwPhase
  <2>3. PICK bad \in BOOLEAN : Going(DnsChains, g, bad)
    BY <1>7, <2>1, FwPlain, Zenon DEF Applying
  <2>4. Going(DnsChains, g, TRUE)' /\ AllHooked' /\ JumpsAre'
    BY <1>1, <1>6, <1>7, <2>2, <2>3, ProgramFails, ChainNames, FwPlain
  <2>5. Applying("dns", DnsChains, GenerateDNSRedirect(dns))'
    BY <1>1, <1>7, <2>2, <2>4 DEF Applying
  <2>6. EgressExact'
    <3>1. PICK h : h = GenerateEgressRules(egress)
      OBVIOUS
    <3>2. later = <<>> /\ "egress" \notin failed /\ egress # <<>> => Exact(EgressChains, h)
      BY <1>7, <3>1, FwPlain DEF EgressExact
    <3>3. later = <<>> /\ "egress" \notin failed /\ egress # <<>> => Exact(EgressChains, h)'
      BY <1>1, <3>2, SameRules
    <3> QED
      BY <1>1, <1>7, <3>1, <3>3 DEF EgressExact
  <2>7. FwPhase' /\ DnsExact' /\ Stopping' /\ Applying("egress", EgressChains, GenerateEgressRules(egress))'
    BY <1>1, <1>7, <2>2, <2>4 DEF FwPhase, DnsExact, Stopping, Applying
  <2> QED
    BY <1>3, <1>4, <1>5, <2>4, <2>5, <2>6, <2>7 DEF FwInv
<1>8. CASE doing = "egress"
  <2>1. PICK g : g = GenerateEgressRules(egress)
    OBVIOUS
  <2>2. g \in Seq(RuleCmds(EgressChains)) /\ GenerateEgressRules(egress)' = g
    BY <1>1, <2>1, FwPlain
  <2>3. PICK bad \in BOOLEAN : Going(EgressChains, g, bad)
    BY <1>8, <2>1, FwPlain, Zenon DEF Applying
  <2>4. Going(EgressChains, g, TRUE)' /\ AllHooked' /\ JumpsAre'
    BY <1>1, <1>6, <1>8, <2>2, <2>3, ProgramFails, ChainNames, FwPlain
  <2>5. Applying("egress", EgressChains, GenerateEgressRules(egress))'
    BY <1>1, <1>8, <2>2, <2>4 DEF Applying
  <2>6. DnsExact'
    <3>1. PICK h : h = GenerateDNSRedirect(dns)
      OBVIOUS
    <3>2. "dns" \notin failed /\ dns # NoDns => Exact(DnsChains, h)
      BY <1>8, <3>1, FwPlain DEF DnsExact
    <3>3. "dns" \notin failed /\ dns # NoDns => Exact(DnsChains, h)'
      BY <1>1, <3>2, SameRules
    <3> QED
      BY <1>1, <1>8, <3>1, <3>3 DEF DnsExact
  <2>7. FwPhase' /\ EgressExact' /\ Stopping' /\ Applying("dns", DnsChains, GenerateDNSRedirect(dns))'
    BY <1>1, <1>8, <2>4 DEF FwPhase, EgressExact, Stopping, Applying
  <2> QED
    BY <1>3, <1>4, <1>5, <2>4, <2>5, <2>6, <2>7 DEF FwInv
<1>9. CASE doing = "stop"
  <2>1. Stopping' /\ JumpsAre'
    BY <1>9, StopFails, FwPlain
  <2>2. FwPhase'
    BY <1>1, <1>9, FwPlain DEF FwPhase
  <2>3. /\ DnsExact' /\ EgressExact' /\ Applying("dns", DnsChains, GenerateDNSRedirect(dns))'
        /\ Applying("egress", EgressChains, GenerateEgressRules(egress))'
    BY <1>1, <1>9 DEF DnsExact, EgressExact, Applying
  <2> QED
    BY <1>3, <1>4, <1>5, <2>1, <2>2, <2>3 DEF FwInv
<1> QED
  BY <1>2, <1>7, <1>8, <1>9

LEMMA FwInvStep == FwInv /\ [FwNext]_fwVars => FwInv'
<1> SUFFICES ASSUME FwInv, [FwNext]_fwVars PROVE FwInv'
  OBVIOUS
<1>1. CASE UNCHANGED fwVars
  <2>1. /\ jumps' = jumps /\ filled' = filled /\ todo' = todo /\ doing' = doing /\ ready' = ready /\ proxy' = proxy /\ dns' = dns
        /\ egress' = egress /\ later' = later /\ failed' = failed /\ configs' = configs /\ fwFaults' = fwFaults
    BY <1>1 DEF fwVars
  <2>2. JumpsAre' /\ todo' \in Seq(FwCmd) /\ FwTypes' /\ FwPhase' /\ FwCalm' /\ FwProxied' /\ Stopping'
    BY <2>1, FwPlain DEF JumpsAre, FwTypes, FwPhase, AllHooked, FwCalm, FwProxied, Stopping
  <2>3. DnsExact' /\ EgressExact'
    BY <2>1, FwPlain DEF DnsExact, EgressExact, Exact
  <2>4. Applying("dns", DnsChains, GenerateDNSRedirect(dns))' /\ Applying("egress", EgressChains, GenerateEgressRules(egress))'
    BY <2>1, FwPlain DEF Applying, Going, Remains, Done0, Hooked, FilledSoFar
  <2> QED
    BY <2>2, <2>3, <2>4 DEF FwInv
<1>2. CASE \E c \in DnsConfigs \cup {NoDns}, rs \in EgressLists : ApplyHostConfig(c, rs)
  BY <1>2, ApplyKeeps
<1> QED
  BY <1>1, <1>2, StartKeeps, RunKeeps, FailKeeps, DnsDoneKeeps, EgressDoneKeeps, CloseKeeps, StoppedKeeps, DiesKeeps DEF FwNext

\* What the chain does with a query: where it is empty nothing, and one to the upstream
\* it exempts is not caught.
LEMMA Exempted ==
  ASSUME FwInv, fwFaults = 0
  PROVE  /\ filled["DNS-OUT"] = <<>> => \A to : ~Caught(to)
         /\ \A u : Exempts(u) => ~Caught(u)
<1>1. PICK q : q = filled["DNS-OUT"]
  OBVIOUS
<1>2. q \in Seq(FwRule) /\ OutShape(q)
  <2>1. "DNS-OUT" \in ChainSet
    BY DEF ChainSet
  <2> QED
    BY <1>1, <2>1, FwPlain DEF JumpsAre, FwCalm
<1>3. ASSUME q = <<>>, NEW to PROVE ~Caught(to)
  <2>1. DOMAIN q = {}
    BY <1>3
  <2>2. First("DNS-OUT", {"RETURN", "REDIRECT"}, {to, "proxy"}) = 0
    BY <1>1, <2>1 DEF First
  <2> QED
    BY <2>2 DEF Caught
<1>4. ASSUME NEW u, Exempts(u), q # <<>> PROVE ~Caught(u)
  <2>1. Len(q) >= 1 /\ 1 \in DOMAIN q /\ DOMAIN q = 1 .. Len(q) /\ Len(q) \in Nat
    BY <1>2, <1>4
  <2>2. q[1].rule = "RETURN" /\ q[1].arg = u
    BY <1>1, <1>2, <1>4, <2>1 DEF OutShape, Exempts
  <2>3. PICK hits : hits = {i \in DOMAIN filled["DNS-OUT"] : /\ filled["DNS-OUT"][i].rule \in {"RETURN", "REDIRECT"}
                                                           /\ filled["DNS-OUT"][i].arg \in {u, "proxy"}}
    OBVIOUS
  <2>4. 1 \in hits /\ \A j \in hits : j \in Nat /\ 1 <= j
    BY <1>1, <2>1, <2>2, <2>3
  <2>5. PICK i : i = First("DNS-OUT", {"RETURN", "REDIRECT"}, {u, "proxy"})
    OBVIOUS
  <2>6. i = IF jumps["DNS-OUT"] = 0 \/ hits = {} THEN 0 ELSE CHOOSE k \in hits : \A j \in hits : k <= j
    BY <2>3, <2>5 DEF First
  <2>7. i = 0 \/ i = 1
    <3>1. PICK k : k = CHOOSE m \in hits : \A j \in hits : m <= j
      OBVIOUS
    <3>2. k \in hits /\ \A j \in hits : k <= j
      BY <2>4, <3>1
    <3>3. k = 1
      BY <2>4, <3>2
    <3> QED
      BY <2>6, <3>1, <3>3
  <2> QED
    BY <1>1, <2>2, <2>5, <2>7 DEF Caught
<1> QED
  BY <1>1, <1>3, <1>4

LEMMA FwInvShows == FwInv => FwTypeOK /\ RulesExact /\ QueriesAnswered
<1> SUFFICES ASSUME FwInv PROVE FwTypeOK /\ RulesExact /\ QueriesAnswered
  OBVIOUS
<1>1. FwTypeOK
  <2>1. ASSUME NEW c \in Range(Chains) PROVE jumps[c] \in 0 .. 1 + MaxFwFaults /\ filled[c] \in Seq(FwRule)
    <3>1. c \in ChainSet
      BY ChainsAre
    <3>2. jumps[c] \in Nat /\ jumps[c] <= 1 + fwFaults /\ fwFaults \in 0 .. MaxFwFaults /\ filled[c] \in Seq(FwRule)
      BY <3>1, FwPlain DEF JumpsAre, FwTypes
    <3> QED
      BY <3>2, FirewallAssumption
  <2>2. proxy.records \subseteq Names
    BY FwPlain DEF FwTypes
  <2> QED
    BY <2>1, <2>2, FwPlain DEF FwTypes, FwTypeOK
<1>2. RulesExact
  <2>1. doing # "stop" /\ ready = TRUE => \A c \in ChainSet : jumps[c] > 0
    BY FwPlain DEF FwPhase, AllHooked
  <2>2. ASSUME doing = "idle", "dns" \notin failed, dns # NoDns, NEW c \in Range(DnsChains)
        PROVE  jumps[c] > 0 /\ filled[c] = Expected(GenerateDNSRedirect(dns), c)
    <3>1. Exact(DnsChains, GenerateDNSRedirect(dns))
      BY <2>2, FwPlain DEF DnsExact
    <3>2. PICK j \in 1 .. Len(DnsChains) : c = DnsChains[j]
      BY <2>2, ListsAre, ChainNames
    <3>3. j \in DOMAIN DnsChains /\ c \in ChainSet
      BY <3>2, ListsAre, ChainNames
    <3> QED
      BY <2>1, <2>2, <3>1, <3>2, <3>3 DEF Exact
  <2>3. ASSUME doing = "idle", "egress" \notin failed, egress # <<>>, NEW c \in Range(EgressChains)
        PROVE  jumps[c] > 0 /\ filled[c] = Expected(GenerateEgressRules(egress), c)
    <3>1. Exact(EgressChains, GenerateEgressRules(egress))
      BY <2>3, FwPlain DEF EgressExact
    <3>2. PICK j \in 1 .. Len(EgressChains) : c = EgressChains[j]
      BY <2>3, ListsAre, ChainNames
    <3>3. j \in DOMAIN EgressChains /\ c \in ChainSet
      BY <3>2, ListsAre, ChainNames
    <3> QED
      BY <2>1, <2>3, <3>1, <3>2, <3>3 DEF Exact
  <2>4. doing = "down" /\ "stop" \notin failed => \A c \in Range(Chains) : jumps[c] = 0 \/ filled[c] = <<>>
    BY FwPlain, ChainsAre DEF FwPhase
  <2> QED
    BY <2>2, <2>3, <2>4 DEF RulesExact
<1>3. QueriesAnswered
  <2> SUFFICES ASSUME doing \notin {"down", "stop"}, fwFaults = 0, proxy # NoProxy, proxy.port = dns.port,
                      proxy.upstream = dns.upstream, Exempts(dns.upstream), NEW n \in Names
               PROVE  /\ Answer(n) # "lost"
                      /\ doing = "idle" /\ Answer(n) # "resolver" => (Answer(n) = "record") = (n \in dns.records)
    BY Zenon DEF QueriesAnswered
  <2>1. ~Caught(proxy.upstream) /\ (filled["DNS-OUT"] = <<>> => ~Caught("resolver"))
    BY Exempted
  <2>2. Answer(n) = IF ~Caught("resolver") THEN "resolver" ELSE IF n \in proxy.records THEN "record" ELSE "upstream"
    BY <2>1 DEF Answer, handlePacket
  <2>3. Answer(n) # "lost"
    BY <2>2
  <2>4. ASSUME doing = "idle", Answer(n) # "resolver" PROVE (Answer(n) = "record") = (n \in dns.records)
    <3>1. filled["DNS-OUT"] # <<>>
      BY <2>1, <2>2, <2>4
    <3>2. dns # NoDns /\ failed = {}
      BY FwPlain DEF FwProxied, FwCalm
    <3>3. Exact(DnsChains, GenerateDNSRedirect(dns))
      BY <2>4, <3>2, FwPlain DEF DnsExact
    <3>4. filled["DNS-OUT"] = Expected(GenerateDNSRedirect(dns), "DNS-OUT")
      BY <3>3, ChainNames DEF Exact
    <3>5. dns.enabled = TRUE
      <4>1. dns.enabled \in BOOLEAN
        BY DnsParts, FwPlain DEF FwTypes
      <4>2. ASSUME dns.enabled = FALSE PROVE FALSE
        <5>1. PICK none : none = <<>>
          OBVIOUS
        <5>2. GenerateDNSRedirect(dns) = none
          BY <4>2, <5>1 DEF GenerateDNSRedirect
        <5>3. none \in Seq(FwCmd) /\ Len(none) = 0
          BY <5>1
        <5>4. FilledBy(none, "DNS-OUT")[0] = <<>>
          BY <5>3, FilledUnfolds
        <5>5. Expected(none, "DNS-OUT") = <<>>
          BY <5>3, <5>4, Zenon DEF Expected
        <5> QED
          BY <3>1, <3>4, <5>2, <5>5
      <4> QED
        BY <4>1, <4>2
    <3>6. proxy.records = dns.records
      BY <3>5, FwPlain DEF FwCalm
    <3>7. Answer(n) = IF n \in dns.records THEN "record" ELSE "upstream"
      BY <2>2, <2>4, <3>6
    <3> QED
      BY <3>7
  <2> QED
    BY <2>3, <2>4
<1> QED
  BY <1>1, <1>2, <1>3

(***************************************************************************)
(* The program (cmd/corelink-node).                                        *)
(***************************************************************************)
(* While no configuration is being applied, what is in use has the last    *)
(* one, and so has the data plane that is about to take its place; nothing *)
(* else runs.                                                              *)
Replacing == at.step \in {"listen", "swap"}

NumbersRight ==
  /\ at.step \in {"core", "listen", "swap"} => at.n # 0
  /\ at.step = "done" => agent.dp = 0

UpToDate ==
  /\ Replacing => inst[at.n].cfg = held.n
  /\ at.step \notin {"apply", "close", "done"} =>
       /\ agent.dp # 0 => inst[agent.dp].cfg = held.n
       /\ agent.pr # 0 => inst[agent.pr].peers = held.n

OneRuns ==
  \A n \in Assemblies : inst[n].dp = "running" => n = agent.dp \/ (Replacing /\ n = at.n)

NpInv == NpTypeOK /\ NumbersRight /\ UpToDate /\ OneRuns

LEMMA NpInvInit == NpInit => NpInv
<1> SUFFICES ASSUME NpInit PROVE NpInv
  OBVIOUS
<1> USE NodeAssumption DEF NpInit, FirstConfigs, NoInstance, Assemblies, Roles
<1>1. NpTypeOK
  BY DEF NpTypeOK, NotConnected
<1>2. NumbersRight /\ UpToDate /\ OneRuns
  BY DEF NumbersRight, UpToDate, OneRuns, Replacing
<1> QED
  BY <1>1, <1>2 DEF NpInv

Instance == [tun: BOOLEAN, dp: {"none", "running", "closed"}, cfg: 0 .. MaxConfig,
             peers: 0 .. MaxConfig, policy: 0 .. MaxConfig, relay: BOOLEAN]

LEMMA ClosedIsInstance ==
  ASSUME inst \in [Assemblies -> Instance], NEW n \in Assemblies
  PROVE  /\ Replaced(n) \in [Assemblies -> Instance]
         /\ Replaced(n)[n].dp = "closed" /\ Replaced(n)[n].cfg = inst[n].cfg /\ Replaced(n)[n].peers = inst[n].peers
         /\ \A m \in Assemblies : m # n => Replaced(n)[m] = inst[m]
<1>1. PICK i \in Instance : i = inst[n]
  OBVIOUS
<1>2. PICK j : j = [[i EXCEPT !.dp = "closed"] EXCEPT !.tun = FALSE]
  OBVIOUS
<1>3. j \in Instance /\ j.dp = "closed" /\ j.cfg = i.cfg /\ j.peers = i.peers
  BY <1>2 DEF Instance
<1>4. Replaced(n) = [inst EXCEPT ![n] = j]
  BY <1>1, <1>2 DEF Replaced
<1> QED
  BY <1>1, <1>3, <1>4
StepNames == {"tun", "core", "listen", "swap", "apply", "decide", "commit", "sync", "close", "done"}
Where == [step: StepNames, boot: BOOLEAN, n: 0 .. MaxAssembly]
Handles == [dp: 0 .. MaxAssembly, split: 0 .. MaxAssembly, pr: 0 .. MaxAssembly,
            listener: 0 .. MaxAssembly, relay: BOOLEAN]
Given == [n: 1 .. MaxConfig, role: Roles, ver: Nat, split: BOOLEAN]

LEMMA NpTypesAre ==
  NpTypeOK <=> /\ agent \in Handles /\ inst \in [Assemblies -> Instance]
               /\ inbound \in [Dialers -> NotConnected .. MaxAssembly]
               /\ held \in Given /\ topo \in [role: Roles, ver: Nat] /\ at \in Where
BY DEF NpTypeOK, Instance, Where, StepNames, Handles, Given

LEMMA RunsOn ==
  ASSUME at \in Where, NEW l \in StepNames, at' = [at EXCEPT !.step = l]
  PROVE  at' \in Where /\ at'.step = l /\ at'.boot = at.boot /\ at'.n = at.n
BY DEF Where

\* What the invariant says, of what a step leads to.
LEMMA NpInvAfter ==
  ASSUME agent' \in Handles, inst' \in [Assemblies -> Instance],
         inbound' \in [Dialers -> NotConnected .. MaxAssembly],
         held' \in Given, topo' \in [role: Roles, ver: Nat], at' \in Where,
         NumbersRight', UpToDate', OneRuns'
  PROVE  NpInv'
BY NpTypesAre DEF NpInv, NpTypeOK, Instance, Where, StepNames, Handles, Given, Roles, NotConnected, Assemblies

LEMMA CreateTunKeeps == ASSUME NpInv, CreateTun PROVE NpInv'
<1> USE NodeAssumption
<1>0. /\ agent \in Handles /\ inst \in [Assemblies -> Instance] /\ at \in Where
      /\ at.n \in 0 .. MaxAssembly /\ at.n < MaxAssembly /\ at.step = "tun" /\ agent.dp \in 0 .. MaxAssembly /\ agent.pr \in 0 .. MaxAssembly
  BY NpTypesAre DEF NpInv, CreateTun, Where, Handles
<1>1. /\ inst' \in [Assemblies -> Instance]
      /\ \A n \in Assemblies : inst'[n].dp = inst[n].dp /\ inst'[n].cfg = inst[n].cfg /\ inst'[n].peers = inst[n].peers
  <2>1. ASSUME NEW n \in Assemblies
        PROVE  inst'[n] \in Instance /\ inst'[n].dp = inst[n].dp /\ inst'[n].cfg = inst[n].cfg /\ inst'[n].peers = inst[n].peers
    <3>1. PICK i \in Instance : i = inst[n]
      BY <1>0
    <3>2. PICK b \in BOOLEAN : inst'[n] = [i EXCEPT !.tun = b]
      <4>1. inst'[n] = [i EXCEPT !.tun = (n = at.n + 1)] \/ inst'[n] = [i EXCEPT !.tun = FALSE]
        BY <3>1 DEF CreateTun
      <4>2. (n = at.n + 1) \in BOOLEAN /\ FALSE \in BOOLEAN
        OBVIOUS
      <4> QED
        BY <4>1, <4>2, Zenon
    <3> QED
      BY <3>1, <3>2 DEF Instance
  <2>2. inst' = [n \in Assemblies |-> inst'[n]]
    BY DEF CreateTun
  <2> QED
    BY <2>1, <2>2
<1>2. at.n + 1 \in 0 .. MaxAssembly /\ at.n + 1 # 0
  BY <1>0
<1>3. agent' \in Handles /\ agent'.dp = agent.dp /\ agent'.pr = agent.pr
  <2>1. agent' = agent \/ agent' = [agent EXCEPT !.split = at.n + 1]
    BY DEF CreateTun
  <2> QED
    BY <1>0, <1>2, <2>1 DEF Handles
<1>4. at' \in Where /\ (at'.step = "core" => at'.n # 0) /\ at'.step \in {"core", "close", "apply", "commit"}
  <2>1. CASE at' = [at EXCEPT !.step = "core", !.n = at.n + 1]
    BY <1>0, <1>2, <2>1 DEF Where, StepNames
  <2>2. CASE AssemblyFails
    <3>1. PICK l \in {"close", "apply", "commit"} : at' = [at EXCEPT !.step = l]
      BY <2>2 DEF AssemblyFails, Assembled, Goto
    <3> QED
      BY <1>0, <3>1, RunsOn DEF StepNames
  <2> QED
    BY <2>1, <2>2 DEF CreateTun
<1>5. UNCHANGED <<inbound, held, topo>>
  BY DEF CreateTun
<1>6. NumbersRight' /\ UpToDate' /\ OneRuns'
  BY <1>0, <1>1, <1>3, <1>4, <1>5 DEF NpInv, NumbersRight, Replacing, UpToDate, OneRuns, Assemblies
<1> QED
  BY <1>1, <1>3, <1>4, <1>5, <1>6, NpTypesAre, NpInvAfter DEF NpInv

LEMMA BuildCoreKeeps == ASSUME NpInv, BuildCore PROVE NpInv'
<1> USE NodeAssumption
<1>0. /\ agent \in Handles /\ inst \in [Assemblies -> Instance] /\ at \in Where /\ held.n \in 1 .. MaxConfig
      /\ at.n \in Assemblies /\ at.step = "core" /\ agent.dp \in 0 .. MaxAssembly /\ agent.pr \in 0 .. MaxAssembly
  BY NpTypesAre DEF NpInv, BuildCore, Where, Handles, Given, NumbersRight, Assemblies
<1>1. PICK i \in Instance : i = inst[at.n]
  BY <1>0
<1>2. UNCHANGED <<inbound, held, topo>>
  BY DEF BuildCore
<1>3. CASE /\ inst' = [inst EXCEPT ![at.n].dp = "running", ![at.n].cfg = held.n, ![at.n].peers = held.n]
           /\ agent' = [agent EXCEPT !.pr = at.n] /\ Goto("listen")
  <2>1. PICK j : j = [[[i EXCEPT !.dp = "running"] EXCEPT !.cfg = held.n] EXCEPT !.peers = held.n]
    OBVIOUS
  <2>2. j \in Instance /\ j.cfg = held.n /\ j.peers = held.n
    <3>1. PICK k : k = [i EXCEPT !.dp = "running"]
      OBVIOUS
    <3>2. k \in Instance
      BY <3>1 DEF Instance
    <3>3. PICK l : l = [k EXCEPT !.cfg = held.n]
      OBVIOUS
    <3>4. l \in Instance /\ l.cfg = held.n
      BY <1>0, <3>2, <3>3 DEF Instance
    <3>5. j = [l EXCEPT !.peers = held.n]
      BY <2>1, <3>1, <3>3
    <3> QED
      BY <1>0, <3>4, <3>5 DEF Instance
  <2>3. inst' = [inst EXCEPT ![at.n] = j]
    <3>1. PICK f : f = [inst EXCEPT ![at.n] = [i EXCEPT !.dp = "running"]]
      OBVIOUS
    <3>2. PICK g : g = [f EXCEPT ![at.n] = [f[at.n] EXCEPT !.cfg = held.n]]
      OBVIOUS
    <3>3. inst' = [g EXCEPT ![at.n] = [g[at.n] EXCEPT !.peers = held.n]]
      BY <1>1, <1>3, <3>1, <3>2
    <3>4. g = [inst EXCEPT ![at.n] = [[i EXCEPT !.dp = "running"] EXCEPT !.cfg = held.n]]
      BY <1>0, <3>1, <3>2
    <3> QED
      BY <1>0, <2>1, <3>3, <3>4
  <2>4. inst' \in [Assemblies -> Instance] /\ inst'[at.n] = j /\ \A n \in Assemblies : n # at.n => inst'[n] = inst[n]
    BY <1>0, <2>2, <2>3
  <2>5. agent' \in Handles /\ agent'.dp = agent.dp /\ agent'.pr = at.n
    BY <1>0, <1>3 DEF Handles, Assemblies
  <2>6. at' \in Where /\ at'.step = "listen" /\ at'.n = at.n
    BY <1>0, <1>3, RunsOn DEF Goto, StepNames
  <2>7. NumbersRight' /\ UpToDate' /\ OneRuns'
    BY <1>0, <1>2, <2>2, <2>4, <2>5, <2>6 DEF NpInv, NumbersRight, Replacing, UpToDate, OneRuns, Assemblies
  <2> QED
    BY <1>2, <2>4, <2>5, <2>6, <2>7, NpTypesAre, NpInvAfter DEF NpInv
<1>4. CASE inst' = [inst EXCEPT ![at.n].tun = FALSE] /\ AssemblyFails /\ UNCHANGED agent
  <2>1. PICK j : j = [i EXCEPT !.tun = FALSE]
    OBVIOUS
  <2>2. j \in Instance /\ j.dp = i.dp /\ j.cfg = i.cfg /\ j.peers = i.peers
    BY <1>0, <2>1 DEF Instance
  <2>3. inst' = [inst EXCEPT ![at.n] = j]
    BY <1>1, <1>4, <2>1, <1>0
  <2>4. /\ inst' \in [Assemblies -> Instance]
        /\ \A n \in Assemblies : inst'[n].dp = inst[n].dp /\ inst'[n].cfg = inst[n].cfg /\ inst'[n].peers = inst[n].peers
    BY <1>0, <1>1, <2>2, <2>3
  <2>5. PICK l \in {"close", "apply", "commit"} : at' = [at EXCEPT !.step = l]
    BY <1>4 DEF AssemblyFails, Assembled, Goto
  <2>6. at' \in Where /\ at'.step = l /\ at'.n = at.n
    BY <1>0, <2>5, RunsOn DEF StepNames
  <2>7. NumbersRight' /\ UpToDate' /\ OneRuns'
    BY <1>0, <1>2, <1>4, <2>4, <2>6 DEF NpInv, NumbersRight, Replacing, UpToDate, OneRuns, Assemblies
  <2> QED
    BY <1>0, <1>2, <1>4, <2>4, <2>6, <2>7, NpTypesAre, NpInvAfter DEF NpInv
<1> QED
  BY <1>3, <1>4 DEF BuildCore

LEMMA SwapKeeps == ASSUME NpInv, Listen \/ Swap \/ Close PROVE NpInv'
<1> USE NodeAssumption
<1>0. /\ agent \in Handles /\ inst \in [Assemblies -> Instance] /\ at \in Where /\ held.n \in 1 .. MaxConfig
      /\ agent.dp \in 0 .. MaxAssembly /\ agent.pr \in 0 .. MaxAssembly /\ at.n \in 0 .. MaxAssembly
      /\ inbound \in [Dialers -> NotConnected .. MaxAssembly]
  BY NpTypesAre DEF NpInv, Where, Handles, Given
<1>1. CASE Listen
  <2>1. agent' \in Handles /\ agent'.dp = agent.dp /\ agent'.pr = agent.pr
    BY <1>0, <1>1 DEF Listen, Handles
  <2>2. at' \in Where /\ at.step = "listen" /\ at'.step = "swap" /\ at'.n = at.n /\ UNCHANGED <<inst, inbound, held, topo>>
    BY <1>0, <1>1, RunsOn DEF Listen, Goto, StepNames
  <2>3. NumbersRight' /\ UpToDate' /\ OneRuns'
    BY <2>1, <2>2 DEF NpInv, NumbersRight, Replacing, UpToDate, OneRuns
  <2> QED
    BY <1>0, <2>1, <2>2, <2>3, NpTypesAre, NpInvAfter DEF NpInv
<1>2. CASE Swap \/ Close
  <2>1. inst' = (IF agent.dp = 0 THEN inst ELSE Replaced(agent.dp))
    BY <1>2 DEF Swap, Close
  <2>2. /\ inst' \in [Assemblies -> Instance]
        /\ \A n \in Assemblies : inst'[n].cfg = inst[n].cfg /\ inst'[n].peers = inst[n].peers
        /\ \A n \in Assemblies : inst'[n].dp = "running" => inst[n].dp = "running" /\ n # agent.dp
    <3>1. CASE agent.dp = 0
      BY <1>0, <2>1, <3>1 DEF Assemblies
    <3>2. CASE agent.dp # 0
      <4>1. agent.dp \in Assemblies
        BY <1>0, <3>2 DEF Assemblies
      <4> QED
        BY <1>0, <2>1, <3>2, <4>1, ClosedIsInstance
    <3> QED
      BY <3>1, <3>2
  <2>3. CASE Swap
    <3>1. agent' \in Handles /\ agent'.dp = at.n /\ agent'.pr = agent.pr
      BY <1>0, <2>3 DEF Swap, Handles
    <3>2. /\ at' \in Where /\ at.step = "swap" /\ at'.step \in {"apply", "commit"} /\ at'.n = at.n
          /\ UNCHANGED <<inbound, held, topo>>
      <4>1. PICK l \in {"apply", "commit"} : at' = [at EXCEPT !.step = l]
        BY <2>3 DEF Swap, Goto, Assembled
      <4> QED
        BY <1>0, <2>3, <4>1, RunsOn DEF Swap, StepNames
    <3>3. NumbersRight' /\ UpToDate' /\ OneRuns'
      BY <1>0, <2>2, <3>1, <3>2 DEF NpInv, NumbersRight, Replacing, UpToDate, OneRuns, Assemblies
    <3> QED
      BY <2>2, <3>1, <3>2, <3>3, NpTypesAre, NpInvAfter DEF NpInv
  <2>4. CASE Close
    <3>1. agent' \in Handles /\ agent'.dp = 0
      <4>1. PICK k : k = [agent EXCEPT !.dp = 0]
        OBVIOUS
      <4>2. k \in Handles /\ k.dp = 0
        BY <1>0, <4>1 DEF Handles
      <4>3. agent' = [[k EXCEPT !.split = 0] EXCEPT !.listener = 0]
        BY <2>4, <4>1 DEF Close
      <4> QED
        BY <1>0, <4>2, <4>3 DEF Handles
    <3>2. at' \in Where /\ at.step = "close" /\ at'.step = "done" /\ at'.n = at.n /\ UNCHANGED <<held, topo>>
      BY <1>0, <2>4, RunsOn DEF Close, Goto, StepNames
    <3>3. inbound' \in [Dialers -> NotConnected .. MaxAssembly]
      BY <1>0, <2>4 DEF Close, NotConnected
    <3>4. NumbersRight' /\ UpToDate' /\ OneRuns'
      BY <1>0, <2>2, <3>1, <3>2 DEF NpInv, NumbersRight, Replacing, UpToDate, OneRuns, Assemblies
    <3> QED
      BY <2>2, <3>1, <3>2, <3>3, <3>4, NpTypesAre, NpInvAfter DEF NpInv
  <2> QED
    BY <1>2, <2>3, <2>4
<1> QED
  BY <1>1, <1>2

LEMMA ApplyConfigKeeps == ASSUME NpInv, ApplyConfig PROVE NpInv'
<1> USE NodeAssumption
<1>0. /\ agent \in Handles /\ inst \in [Assemblies -> Instance] /\ at \in Where /\ held \in Given /\ held.n \in 1 .. MaxConfig
      /\ agent.dp \in 0 .. MaxAssembly /\ agent.pr \in 0 .. MaxAssembly /\ held.split \in BOOLEAN /\ agent.relay \in BOOLEAN
  BY NpTypesAre DEF NpInv, Where, Handles, Given
<1>1. ASSUME NEW n \in Assemblies
      PROVE  /\ inst'[n] \in Instance /\ inst'[n].dp = inst[n].dp
             /\ n = agent.dp => inst'[n].cfg = held.n
             /\ n = agent.pr => inst'[n].peers = held.n
  <2>1. PICK i \in Instance : i = inst[n]
    BY <1>0
  <2>2. PICK cfg \in 0 .. MaxConfig : cfg = IF n = agent.dp THEN held.n ELSE i.cfg
    BY <1>0 DEF Instance
  <2>3. PICK peers \in 0 .. MaxConfig : peers = IF n = agent.pr THEN held.n ELSE i.peers
    BY <1>0 DEF Instance
  <2>4. PICK policy \in 0 .. MaxConfig : policy = IF n = agent.split /\ held.split THEN held.n ELSE i.policy
    BY <1>0 DEF Instance
  <2>5. PICK j : j = [[[i EXCEPT !.cfg = cfg] EXCEPT !.peers = peers] EXCEPT !.policy = policy]
    OBVIOUS
  <2>6. j \in Instance /\ j.dp = i.dp /\ j.cfg = cfg /\ j.peers = peers
    BY <2>2, <2>3, <2>4, <2>5 DEF Instance
  <2>7. inst'[n] = [j EXCEPT !.relay = (i.relay \/ (n = agent.split /\ ~agent.relay /\ held.split))]
    <3>1. inst'[n] = Applied(n)
      BY DEF ApplyConfig
    <3> QED
      BY <2>1, <2>2, <2>3, <2>4, <2>5, <3>1 DEF Applied
  <2>8. (i.relay \/ (n = agent.split /\ ~agent.relay /\ held.split)) \in BOOLEAN
    OBVIOUS
  <2>9. PICK r \in BOOLEAN : inst'[n] = [j EXCEPT !.relay = r]
    BY <2>7, <2>8, Zenon
  <2> QED
    BY <2>1, <2>2, <2>3, <2>6, <2>9 DEF Instance
<1>2. inst' \in [Assemblies -> Instance]
  BY <1>1 DEF ApplyConfig
<1>3. agent' \in Handles /\ agent'.dp = agent.dp /\ agent'.pr = agent.pr
  <2>1. PICK r \in BOOLEAN : agent' = [agent EXCEPT !.relay = r]
    <3>1. agent' = [agent EXCEPT !.relay = (agent.relay \/ (held.split /\ agent.split # 0))]
      BY DEF ApplyConfig
    <3>2. (agent.relay \/ (held.split /\ agent.split # 0)) \in BOOLEAN
      OBVIOUS
    <3> QED
      BY <3>1, <3>2, Zenon
  <2> QED
    BY <1>0, <2>1 DEF Handles
<1>4. at' \in Where /\ at'.step \in {"sync", "decide"} /\ at'.n = at.n /\ UNCHANGED <<inbound, held, topo>>
  <2>1. PICK l \in {"sync", "decide"} : at' = [at EXCEPT !.step = l]
    BY DEF ApplyConfig, Goto
  <2> QED
    BY <1>0, <2>1, RunsOn DEF ApplyConfig, StepNames
<1>5. NumbersRight' /\ UpToDate' /\ OneRuns'
  BY <1>0, <1>1, <1>3, <1>4 DEF NpInv, NumbersRight, Replacing, UpToDate, OneRuns, Assemblies, ApplyConfig
<1> QED
  BY <1>0, <1>2, <1>3, <1>4, <1>5, NpTypesAre, NpInvAfter DEF NpInv

LEMMA NpOthersKeep ==
  ASSUME NpInv, \/ OnConfig \/ Decide \/ Commit \/ RunEnds \/ UNCHANGED npVars
                \/ \E d \in Dialers : OnPeerConnect(d) \/ OnPeerDisconnect(d)
  PROVE  NpInv'
<1> USE NodeAssumption
<1>0. /\ agent \in Handles /\ inst \in [Assemblies -> Instance] /\ at \in Where /\ held \in Given
      /\ inbound \in [Dialers -> NotConnected .. MaxAssembly] /\ topo \in [role: Roles, ver: Nat]
      /\ held.n \in 1 .. MaxConfig /\ held.ver \in Nat /\ held.role \in Roles /\ agent.dp \in 0 .. MaxAssembly
  BY NpTypesAre DEF NpInv, Handles, Given
<1>1. CASE OnConfig
  <2>1. held' \in Given
    <3>1. PICK r \in Roles, v \in held.ver .. held.ver + 1, s \in BOOLEAN :
            held' = [n |-> held.n + 1, role |-> r, ver |-> v, split |-> s]
      BY <1>1 DEF OnConfig
    <3>2. held.n + 1 \in 1 .. MaxConfig /\ v \in Nat
      BY <1>0, <1>1 DEF OnConfig
    <3> QED
      BY <3>1, <3>2 DEF Given
  <2>2. at' \in Where /\ at'.step = "apply" /\ at.step = "sync" /\ at'.n = at.n
    BY <1>0, <1>1 DEF OnConfig, Where, StepNames
  <2>3. NumbersRight' /\ UpToDate' /\ OneRuns'
    BY <1>1, <2>2 DEF OnConfig, NpInv, NumbersRight, Replacing, UpToDate, OneRuns
  <2> QED
    BY <1>0, <1>1, <2>1, <2>2, <2>3, NpInvAfter DEF OnConfig
<1>2. CASE Decide \/ Commit \/ RunEnds
  <2>1. PICK l \in {"sync", "commit", "tun", "close"} : at' = [at EXCEPT !.step = l]
    BY <1>2 DEF Decide, Commit, RunEnds, Goto
  <2>2. at' \in Where /\ at'.step = l /\ at'.n = at.n
    BY <1>0, <2>1, RunsOn DEF StepNames
  <2>3. topo' \in [role: Roles, ver: Nat] /\ UNCHANGED <<agent, inst, inbound, held>> /\ at.step \in {"decide", "commit", "sync"}
    BY <1>0, <1>2 DEF Decide, Commit, RunEnds
  <2>4. NumbersRight' /\ UpToDate' /\ OneRuns'
    BY <2>2, <2>3 DEF NpInv, NumbersRight, Replacing, UpToDate, OneRuns
  <2> QED
    BY <1>0, <2>2, <2>3, <2>4, NpInvAfter
<1>3. ASSUME NEW d \in Dialers, OnPeerConnect(d) \/ OnPeerDisconnect(d) PROVE NpInv'
  <2>1. UNCHANGED <<agent, inst, held, topo, at>>
    BY <1>3 DEF OnPeerConnect, OnPeerDisconnect
  <2>2. inbound' \in [Dialers -> NotConnected .. MaxAssembly]
    BY <1>0, <1>3 DEF OnPeerConnect, OnPeerDisconnect, NotConnected
  <2>3. NumbersRight' /\ UpToDate' /\ OneRuns'
    BY <2>1 DEF NpInv, NumbersRight, Replacing, UpToDate, OneRuns
  <2> QED
    BY <1>0, <2>1, <2>2, <2>3, NpInvAfter
<1>4. CASE UNCHANGED npVars
  <2>1. NumbersRight' /\ UpToDate' /\ OneRuns'
    BY <1>4 DEF npVars, NpInv, NumbersRight, Replacing, UpToDate, OneRuns
  <2> QED
    BY <1>0, <1>4, <2>1, NpInvAfter DEF npVars
<1> QED
  BY <1>1, <1>2, <1>3, <1>4

LEMMA NpInvStep == NpInv /\ [NpNext]_npVars => NpInv'
BY CreateTunKeeps, BuildCoreKeeps, SwapKeeps, ApplyConfigKeeps, NpOthersKeep DEF NpNext

LEMMA NpInvShows == NpInv => NpTypeOK /\ OneCurrentDataPlane
BY NpTypesAre DEF NpInv, UpToDate, OneRuns, NumbersRight, Replacing, OneCurrentDataPlane, Assemblies, Handles, Where
(***************************************************************************)
(* The split tunnel.                                                       *)
(***************************************************************************)
(* While no backup was cut short: a backup is of the system's own          *)
(* configuration, but for the one being written; while there is none, that *)
(* is in place, and it is overridden only when the backup is written.  Only *)
(* a backup that exists is restored, cut short or not.                      *)
MidWrite == {"override", "rewrite", "restore", "return"}

ResolvSafe(s, atStep) ==
  /\ s.backup \in {"none", "own"} \/ (atStep = "save" /\ s.backup = "torn")
  /\ s.resolv = "own" \/ s.backup = "own"
  /\ atStep \in MidWrite => s.backup = "own"
  /\ atStep \in {"save", "unback"} => s.resolv = "own"

Restoring == {"restore", "return"}

StInv ==
  /\ StTypeOK
  /\ op.step \in Restoring => sys.backup # "none"
  /\ ~cut => ResolvSafe(sys, op.step)

SystemType == [rules: SUBSET Rules, mark: BOOLEAN, resolv: Contents, backup: Contents \cup {"none"}]
EngineType == [rules: [Dsts -> Actions], stack: BOOLEAN, active: BOOLEAN, applied: BOOLEAN]
OpSteps == Rules \cup {"down", "idle", "stack", "backup", "save", "override", "rewrite", "activate",
                       "clear", "unroute", "restore", "return", "unback", "stop"}
OpType == [step: OpSteps, of: {"start", "apply", "clean", "exit"}]
NeutralSteps == Rules \cup {"down", "idle", "stack", "backup", "activate", "clear", "unroute", "stop"}

LEMMA StTypesAre ==
  StTypeOK <=> /\ eng \in EngineType /\ sys \in SystemType /\ op \in OpType
               /\ cache \in [Dsts -> Actions \cup {NoAction}]
               /\ reader \in [dst: Dsts \cup {"none"}, act: Actions \cup {NoAction}]
               /\ round \in 0 .. MaxPolicy /\ cut \in BOOLEAN
BY DEF StTypeOK, EngineType, SystemType, OpType, OpSteps

LEMMA StInvAfter ==
  ASSUME eng' \in EngineType, sys' \in SystemType, op' \in OpType,
         cache' \in [Dsts -> Actions \cup {NoAction}],
         reader' \in [dst: Dsts \cup {"none"}, act: Actions \cup {NoAction}], round' \in 0 .. MaxPolicy,
         cut' \in BOOLEAN, op'.step \in Restoring => sys'.backup # "none",
         ~cut' => ResolvSafe(sys', op'.step)
  PROVE  StInv'
<1>1. StTypeOK'
  BY DEF StTypeOK, EngineType, SystemType, OpType, OpSteps
<1> QED
  BY <1>1 DEF StInv

(* A step that leaves both files alone, from any but the writing of a       *)
(* backup, to one that relies on neither.                                   *)
LEMMA FilesAlone ==
  ASSUME NEW s, NEW u, NEW l, NEW k, ResolvSafe(s, l), l # "save",
         u.resolv = s.resolv, u.backup = s.backup, k \in NeutralSteps
  PROVE  ResolvSafe(u, k)
BY DEF ResolvSafe, MidWrite, NeutralSteps, Rules

LEMMA StartsTyped ==
  /\ NoEngine \in EngineType /\ Clean \in [Dsts -> Actions \cup {NoAction}]
  /\ NoRead \in [dst: Dsts \cup {"none"}, act: Actions \cup {NoAction}]
BY DEF NoEngine, EngineType, Clean, NoRead, NoAction, Actions

LEMMA StInvInit == StInit => StInv
<1> SUFFICES ASSUME StInit PROVE StInv
  OBVIOUS
<1>1. sys \in SystemType /\ op \in OpType /\ op.step = "down" /\ sys.resolv = "own" /\ sys.backup = "none"
      /\ round \in 0 .. MaxPolicy
  BY SplitAssumption DEF StInit, SystemType, OpType, OpSteps, Rules, Contents
<1>1a. cut \in BOOLEAN
  BY DEF StInit
<1>2. ResolvSafe(sys, op.step)
  BY <1>1 DEF ResolvSafe, MidWrite
<1> QED
  BY <1>1, <1>1a, <1>2, StartsTyped, StTypesAre DEF StInit, StInv, Restoring

LEMMA StepTaken == ASSUME op \in OpType, NEW l \in OpSteps, Step(l) PROVE op' \in OpType /\ op'.step = l
BY DEF Step, OpType

LEMMA StepBegins == ASSUME NEW l \in OpSteps, NEW of \in {"start", "apply", "clean", "exit"}, Begin(l, of)
                PROVE op' \in OpType /\ op'.step = l
BY DEF Begin, OpType

(* A file operation that fails leaves the files as they are. *)
LEMMA NothingWritten ==
  ASSUME StInv, NEW l \in NeutralSteps, WriteFails(l), op.step # "save",
         UNCHANGED <<eng, cache, reader, round, cut>>
  PROVE  StInv'
<1>1. l \in OpSteps /\ op \in OpType /\ Step(l) /\ UNCHANGED sys
  BY StTypesAre DEF StInv, NeutralSteps, OpSteps, WriteFails
<1>2. op' \in OpType /\ op'.step = l
  BY <1>1, StepTaken
<1>3. ~cut' => ResolvSafe(sys', op'.step)
  BY <1>1, <1>2, FilesAlone DEF StInv
<1> QED
  BY <1>1, <1>2, <1>3, StTypesAre, StInvAfter DEF StInv, Restoring, NeutralSteps, Rules

(* Nor does a step of the engine alone. *)
LEMMA FilesUntouched ==
  ASSUME StInv, eng' \in EngineType, sys' \in SystemType, sys'.resolv = sys.resolv, sys'.backup = sys.backup,
         op' \in OpType, op'.step \in NeutralSteps, op.step # "save",
         cache' \in [Dsts -> Actions \cup {NoAction}],
         reader' \in [dst: Dsts \cup {"none"}, act: Actions \cup {NoAction}],
         round' \in 0 .. MaxPolicy, cut' = cut
  PROVE  StInv'
<1>1. ~cut' => ResolvSafe(sys', op'.step)
  BY FilesAlone DEF StInv
<1> QED
  BY <1>1, StTypesAre, StInvAfter DEF StInv, Restoring, NeutralSteps, Rules

(* A step of the writing of a file. *)
LEMMA FileStep ==
  ASSUME StInv, sys' \in SystemType, NEW l \in OpSteps, Step(l), cut' \in BOOLEAN,
         UNCHANGED <<eng, cache, reader, round>>, l \in Restoring => sys'.backup # "none",
         ~cut' => ResolvSafe(sys', l)
  PROVE  StInv'
<1>1. op' \in OpType /\ op'.step = l
  BY StepTaken, StTypesAre DEF StInv
<1> QED
  BY <1>1, StTypesAre, StInvAfter DEF StInv

LEMMA BackupKeeps ==
  ASSUME StInv, BackupResolv \/ SaveBackup
  PROVE  StInv'
<1>0. sys \in SystemType /\ cut \in BOOLEAN /\ (~cut => ResolvSafe(sys, op.step))
  BY StTypesAre DEF StInv
<1>1. CASE BackupResolv
  <2>0. op.step = "backup" /\ UNCHANGED <<eng, cache, reader, round, cut>>
    BY <1>1 DEF BackupResolv
  <2>1. CASE WriteFails("activate")
    BY <2>0, <2>1, NothingWritten DEF NeutralSteps
  <2>2. CASE HasBackup /\ Step("override") /\ UNCHANGED sys
    <3>1. ~cut' => ResolvSafe(sys', "override")
      BY <1>0, <2>0, <2>2 DEF ResolvSafe, HasBackup, MidWrite
    <3> QED
      BY <1>0, <2>0, <2>2, <3>1, FileStep DEF OpSteps, Restoring
  <2>3. CASE ~HasBackup /\ sys' = [sys EXCEPT !.backup = "torn"] /\ Step("save")
    <3>1. sys' \in SystemType /\ sys'.resolv = sys.resolv /\ sys'.backup = "torn"
      BY <1>0, <2>3 DEF SystemType, Contents
    <3>2. ~cut' => ResolvSafe(sys', "save")
      BY <1>0, <2>0, <2>3, <3>1 DEF ResolvSafe, HasBackup, MidWrite
    <3> QED
      BY <1>0, <2>0, <2>3, <3>1, <3>2, FileStep DEF OpSteps, Restoring
  <2> QED
    BY <1>1, <2>1, <2>2, <2>3 DEF BackupResolv
<1>2. CASE SaveBackup
  <2>0. op.step = "save" /\ UNCHANGED <<eng, cache, reader, round>>
    BY <1>2 DEF SaveBackup
  <2>1. CASE sys' = [sys EXCEPT !.backup = sys.resolv] /\ Step("override") /\ UNCHANGED cut
    <3>1. sys' \in SystemType /\ sys'.resolv = sys.resolv /\ sys'.backup = sys.resolv
      BY <1>0, <2>1 DEF SystemType
    <3>2. ~cut' => ResolvSafe(sys', "override")
      BY <1>0, <2>0, <2>1, <3>1 DEF ResolvSafe, MidWrite
    <3> QED
      BY <1>0, <2>0, <2>1, <3>1, <3>2, FileStep DEF OpSteps, Restoring
  <2>2. CASE WriteFails("activate") /\ cut' = TRUE
    BY <1>0, <2>0, <2>2, FileStep DEF WriteFails, OpSteps, Restoring
  <2> QED
    BY <1>2, <2>1, <2>2 DEF SaveBackup
<1> QED
  BY <1>1, <1>2

LEMMA OverrideKeeps ==
  ASSUME StInv, OverrideResolv \/ WritePublic
  PROVE  StInv'
<1>0. sys \in SystemType /\ cut \in BOOLEAN /\ (~cut => ResolvSafe(sys, op.step))
  BY StTypesAre DEF StInv
<1>1. CASE OverrideResolv
  <2>0. op.step = "override" /\ UNCHANGED <<eng, cache, reader, round, cut>>
    BY <1>1 DEF OverrideResolv
  <2>1. CASE sys' = [sys EXCEPT !.resolv = "torn"] /\ Step("rewrite")
    <3>1. sys' \in SystemType /\ sys'.backup = sys.backup
      BY <1>0, <2>1 DEF SystemType, Contents
    <3>2. ~cut' => ResolvSafe(sys', "rewrite")
      BY <1>0, <2>0, <3>1 DEF ResolvSafe, MidWrite
    <3> QED
      BY <1>0, <2>0, <2>1, <3>1, <3>2, FileStep DEF OpSteps, Restoring
  <2>2. CASE WriteFails("activate")
    BY <2>0, <2>2, NothingWritten DEF NeutralSteps
  <2> QED
    BY <1>1, <2>1, <2>2 DEF OverrideResolv
<1>2. CASE WritePublic
  <2>0. op.step = "rewrite" /\ UNCHANGED <<eng, cache, reader, round, cut>> /\ Step("activate")
    BY <1>2 DEF WritePublic
  <2>1. sys' \in SystemType /\ sys'.backup = sys.backup
    <3>1. CASE sys' = sys
      BY <1>0, <3>1
    <3>2. CASE sys' = [sys EXCEPT !.resolv = "public"]
      BY <1>0, <3>2 DEF SystemType, Contents
    <3> QED
      BY <1>2, <3>1, <3>2 DEF WritePublic
  <2>2. ~cut' => ResolvSafe(sys', "activate")
    BY <1>0, <2>0, <2>1 DEF ResolvSafe, MidWrite
  <2> QED
    BY <1>0, <2>0, <2>1, <2>2, FileStep DEF OpSteps, Restoring
<1> QED
  BY <1>1, <1>2

LEMMA RestoreKeeps ==
  ASSUME StInv, RestoreResolv \/ WriteBack \/ RemoveBackup
  PROVE  StInv'
<1>0. /\ sys \in SystemType /\ cut \in BOOLEAN /\ (~cut => ResolvSafe(sys, op.step))
      /\ op.step \in Restoring => sys.backup # "none"
  BY StTypesAre DEF StInv
<1>0a. Removed \in NeutralSteps /\ Removed \in OpSteps /\ Removed \in {"idle", "stop"}
  BY DEF Removed, NeutralSteps, OpSteps
<1>1. CASE RestoreResolv
  <2>0. op.step = "restore" /\ UNCHANGED <<eng, cache, reader, round, cut>>
    BY <1>1 DEF RestoreResolv
  <2>1. CASE sys' = [sys EXCEPT !.resolv = "torn"] /\ Step("return")
    <3>1. sys' \in SystemType /\ sys'.backup = sys.backup /\ sys.backup # "none"
      BY <1>0, <2>0, <2>1 DEF SystemType, Contents, Restoring
    <3>2. ~cut' => ResolvSafe(sys', "return")
      BY <1>0, <2>0, <3>1 DEF ResolvSafe, MidWrite
    <3> QED
      BY <1>0, <2>0, <2>1, <3>1, <3>2, FileStep DEF OpSteps, Restoring
  <2>2. CASE WriteFails(Removed)
    BY <1>0a, <2>0, <2>2, NothingWritten
  <2> QED
    BY <1>1, <2>1, <2>2 DEF RestoreResolv
<1>2. CASE WriteBack
  <2>0. op.step = "return" /\ UNCHANGED <<eng, cache, reader, round, cut>>
    BY <1>2 DEF WriteBack
  <2>1. CASE sys' = [sys EXCEPT !.resolv = sys.backup] /\ Step("unback")
    <3>1. ~cut => sys.backup = "own"
      BY <1>0, <2>0 DEF ResolvSafe, MidWrite
    <3>2. sys.backup \in Contents
      BY <1>0, <2>0 DEF SystemType, Restoring
    <3>3. sys' \in SystemType /\ sys'.resolv = sys.backup /\ sys'.backup = sys.backup
      BY <1>0, <2>1, <3>2 DEF SystemType
    <3>4. ~cut' => ResolvSafe(sys', "unback")
      BY <2>0, <3>1, <3>3 DEF ResolvSafe, MidWrite
    <3> QED
      BY <1>0, <2>0, <2>1, <3>3, <3>4, FileStep DEF OpSteps, Restoring
  <2>2. CASE WriteFails(Removed)
    BY <1>0a, <2>0, <2>2, NothingWritten
  <2> QED
    BY <1>2, <2>1, <2>2 DEF WriteBack
<1>3. CASE RemoveBackup
  <2>0. op.step = "unback" /\ UNCHANGED <<eng, cache, reader, round, cut>> /\ Step(Removed)
    BY <1>3 DEF RemoveBackup
  <2>1. sys' \in SystemType /\ sys'.resolv = sys.resolv /\ sys'.backup \in {sys.backup, "none"}
    <3>1. CASE sys' = sys
      BY <1>0, <3>1
    <3>2. CASE sys' = [sys EXCEPT !.backup = "none"]
      BY <1>0, <3>2 DEF SystemType
    <3> QED
      BY <1>3, <3>1, <3>2 DEF RemoveBackup
  <2>2. ~cut' => ResolvSafe(sys', Removed)
    BY <1>0, <1>0a, <2>0, <2>1 DEF ResolvSafe, MidWrite
  <2> QED
    BY <1>0, <1>0a, <2>0, <2>1, <2>2, FileStep DEF Restoring
<1> QED
  BY <1>1, <1>2, <1>3

LEMMA StInvStep == StInv /\ [StNext]_stVars => StInv'
<1> SUFFICES ASSUME StInv, [StNext]_stVars PROVE StInv'
  OBVIOUS
<1>0. /\ eng \in EngineType /\ sys \in SystemType /\ op \in OpType
      /\ cache \in [Dsts -> Actions \cup {NoAction}]
      /\ reader \in [dst: Dsts \cup {"none"}, act: Actions \cup {NoAction}]
      /\ round \in 0 .. MaxPolicy /\ cut \in BOOLEAN
      /\ op.step \in Restoring => sys.backup # "none"
      /\ ~cut => ResolvSafe(sys, op.step)
  BY StTypesAre DEF StInv
<1> USE <1>0, StartsTyped, FilesUntouched DEF NeutralSteps
<1>1. ASSUME NEW removes \in BOOLEAN, Assemble(removes) PROVE StInv'
  <2>1. sys' \in SystemType /\ sys'.resolv = sys.resolv /\ sys'.backup = sys.backup
    BY <1>1 DEF Assemble, SystemType
  <2>2. op' \in OpType /\ op'.step \in {"unroute", "idle"}
    BY <1>1, StepBegins DEF Assemble, OpSteps
  <2> QED
    BY <1>1, <2>1, <2>2 DEF Assemble
<1>2. ASSUME NEW rules \in [Dsts -> Actions], Apply(rules) PROVE StInv'
  <2>1. eng' \in EngineType
    <3>1. eng' = [eng EXCEPT !.rules = rules]
      BY <1>2 DEF Apply
    <3> QED
      BY <3>1 DEF EngineType
  <2>2. op' \in OpType /\ op'.step \in {"clear", "stack"}
    BY <1>2, StepBegins DEF Apply, OpSteps
  <2>3. round' \in 0 .. MaxPolicy
    BY <1>2, SplitAssumption DEF Apply
  <2> QED
    BY <1>2, <2>1, <2>2, <2>3 DEF Apply
<1>3. CASE NewStack \/ InstallRule \/ CleanupEnds \/ Activate
  <2>1. sys' \in SystemType /\ sys'.resolv = sys.resolv /\ sys'.backup = sys.backup
    <3>1. PICK q \in SUBSET Rules, m \in BOOLEAN : sys' = [sys EXCEPT !.rules = q, !.mark = m]
      <4>1. CASE sys' = sys
        <5>1. sys' = [sys EXCEPT !.rules = sys.rules, !.mark = sys.mark] /\ sys.rules \in SUBSET Rules /\ sys.mark \in BOOLEAN
          BY <4>1 DEF SystemType
        <5> QED
          BY <5>1
      <4>2. CASE sys' = [sys EXCEPT !.mark = FALSE]
        <5>1. sys' = [sys EXCEPT !.rules = sys.rules, !.mark = FALSE] /\ sys.rules \in SUBSET Rules
          BY <4>2 DEF SystemType
        <5> QED
          BY <5>1
      <4>3. CASE InstallRule /\ sys' = [sys EXCEPT !.rules = @ \cup {op.step}]
        <5>1. sys' = [sys EXCEPT !.rules = sys.rules \cup {op.step}, !.mark = sys.mark] /\ sys.mark \in BOOLEAN
          BY <4>3 DEF SystemType
        <5>2. sys.rules \cup {op.step} \in SUBSET Rules
          BY <4>3 DEF InstallRule, SystemType
        <5> QED
          BY <5>1, <5>2
      <4> QED
        BY <1>3, <4>1, <4>2, <4>3 DEF NewStack, InstallRule, CleanupEnds, Activate
    <3> QED
      BY <3>1 DEF SystemType
  <2>2. eng' \in EngineType
    <3>1. CASE NewStack \/ InstallRule
      BY <3>1 DEF NewStack, InstallRule, EngineType
    <3>2. CASE CleanupEnds
      <4>1. eng' = [eng EXCEPT !.stack = FALSE, !.applied = FALSE]
        BY <3>2 DEF CleanupEnds
      <4> QED
        BY <4>1 DEF EngineType
    <3>3. CASE Activate
      <4>1. eng' = [eng EXCEPT !.active = TRUE, !.applied = TRUE]
        BY <3>3 DEF Activate
      <4> QED
        BY <4>1 DEF EngineType
    <3> QED
      BY <1>3, <3>1, <3>2, <3>3
  <2>3. PICK l \in {"table", "fwmark", "main", "backup", "idle", "down"} : Step(l)
    BY <1>3 DEF NewStack, InstallRule, CleanupEnds, Activate, AfterRule, Rules
  <2>4. op' \in OpType /\ op'.step = l /\ l \in NeutralSteps /\ op.step # "save"
    BY <1>3, <2>3, StepTaken DEF OpSteps, Rules, NewStack, InstallRule, CleanupEnds, Activate
  <2>5. UNCHANGED <<reader, round, cut>> /\ cache' \in {cache, Clean}
    BY <1>3 DEF NewStack, InstallRule, CleanupEnds, Activate
  <2> QED
    BY <2>1, <2>2, <2>3, <2>4, <2>5
<1>4. CASE BackupResolv \/ SaveBackup
  BY <1>4, BackupKeeps
<1>5. CASE OverrideResolv \/ WritePublic
  BY <1>5, OverrideKeeps
<1>6. CASE ClearCache
  <2>1. op' \in OpType /\ op'.step = "idle"
    BY <1>6, StepTaken DEF ClearCache, OpSteps
  <2> QED
    BY <1>6, <2>1 DEF ClearCache
<1>7. CASE RemovePolicyRoutes
  <2>1. sys' \in SystemType /\ sys'.resolv = sys.resolv /\ sys'.backup = sys.backup
    BY <1>7 DEF RemovePolicyRoutes, SystemType
  <2>2. PICK l \in {"idle", "stop", "restore"} : Step(l) /\ (l = "restore" => sys.backup # "none")
    BY <1>7 DEF RemovePolicyRoutes, Removed
  <2>3. op' \in OpType /\ op'.step = l
    BY <2>2, StepTaken DEF OpSteps
  <2>4. ~cut => ResolvSafe(sys', l)
    BY <1>7, <2>1, <2>2 DEF RemovePolicyRoutes, ResolvSafe, MidWrite
  <2> QED
    BY <1>7, <2>1, <2>2, <2>3, <2>4, StInvAfter DEF RemovePolicyRoutes, Restoring
<1>8. CASE RestoreResolv \/ WriteBack \/ RemoveBackup
  BY <1>8, RestoreKeeps
<1>10. ASSUME NEW of \in {"clean", "exit"}, StartCleanup(of) PROVE StInv'
  <2>1. eng' \in EngineType
    BY <1>10 DEF StartCleanup, EngineType
  <2>2. op' \in OpType /\ op'.step = "unroute"
    BY <1>10, StepBegins DEF StartCleanup, OpSteps
  <2> QED
    BY <1>10, <2>1, <2>2 DEF StartCleanup
<1>11. CASE Crash
  <2>1. sys' \in SystemType /\ sys'.resolv = sys.resolv /\ sys'.backup = sys.backup
    BY <1>11 DEF Crash, SystemType
  <2>2. op' \in OpType /\ op'.step = "down"
    BY <1>11, StepBegins DEF Crash, OpSteps
  <2>3. cut' \in BOOLEAN /\ (~cut' => ~cut /\ op.step # "save")
    BY <1>11 DEF Crash
  <2>4. ~cut' => ResolvSafe(sys', "down")
    BY <2>1, <2>3, FilesAlone
  <2> QED
    BY <1>11, <2>1, <2>2, <2>3, <2>4, StInvAfter DEF Crash, Restoring
<1>12. ASSUME NEW d \in Dsts, ReadPacket(d) \/ CacheExpires(d) PROVE StInv'
  <2>1. cache' \in [Dsts -> Actions \cup {NoAction}]
    BY <1>12 DEF ReadPacket, CacheExpires
  <2>2. reader' \in [dst: Dsts \cup {"none"}, act: Actions \cup {NoAction}]
    BY <1>12 DEF ReadPacket, CacheExpires, EngineType
  <2>3. UNCHANGED <<eng, sys, op, round, cut>>
    BY <1>12 DEF ReadPacket, CacheExpires
  <2> QED
    BY <2>1, <2>2, <2>3, StInvAfter
<1>13. CASE CachePut
  <2>1. cache' \in [Dsts -> Actions \cup {NoAction}]
    BY <1>13 DEF CachePut
  <2> QED
    BY <1>13, <2>1, StInvAfter DEF CachePut
<1>14. CASE UNCHANGED stVars
  BY <1>14, StInvAfter DEF stVars
<1> QED
  BY <1>1, <1>2, <1>3, <1>4, <1>5, <1>6, <1>7, <1>8, <1>10, <1>11, <1>12, <1>13, <1>14
     DEF StNext, SetUp, TakeDown

LEMMA StInvShows == StInv => StTypeOK /\ OwnResolvKept
BY DEF StInv, ResolvSafe, OwnResolvKept
(***************************************************************************)
(* The DNS relay.                                                          *)
(***************************************************************************)
(* A query is numbered when it is intercepted; it waits under one          *)
(* transaction id at most, and no longer once it is answered.              *)
DnsInv ==
  /\ DnsTypeOK
  /\ \A t \in TxIds : pending[t] <= asked
  /\ \A t, u \in TxIds : pending[t] # NoQuery /\ pending[t] = pending[u] => t = u
  /\ \A q \in Queries : answers[q] # 0 => /\ answers[q] = 1 /\ q <= asked
                                          /\ \A t \in TxIds : pending[t] # q

LEMMA DnsInvInit == DnsInit => DnsInv
BY DnsAssumption DEF DnsInit, DnsInv, DnsTypeOK, Queries, NoQuery

LEMMA DnsInvStep == DnsInv /\ [DnsNext]_dnsVars => DnsInv'
<1> SUFFICES ASSUME DnsInv, [DnsNext]_dnsVars PROVE DnsInv'
  OBVIOUS
<1>0. /\ linked \subseteq Dialled /\ asked \in 0 .. MaxQueries
      /\ pending \in [TxIds -> Queries \cup {NoQuery}]
      /\ frames \subseteq Frame /\ work \subseteq Frame
      /\ answers \in [Queries -> Nat] /\ MaxQueries \in Nat
  BY DnsAssumption DEF DnsInv, DnsTypeOK
<1>1. ASSUME NEW tx \in TxIds, InterceptFromTUN(tx) PROVE DnsInv'
  <2>1. SendDNSTo(tx, asked + 1) \subseteq Frame
    BY <1>0, <1>1 DEF SendDNSTo, Frame, InterceptFromTUN, Dialled, Queries
  <2>2. asked' \in 0 .. MaxQueries /\ asked' = asked + 1 /\ asked + 1 \in Queries
    BY <1>0, <1>1 DEF InterceptFromTUN, Queries
  <2>3. frames' \subseteq Frame /\ UNCHANGED <<linked, work, answers>>
    BY <1>0, <1>1, <2>1 DEF InterceptFromTUN
  <2>4. pending' \in [TxIds -> Queries \cup {NoQuery}] /\ pending'[tx] = asked + 1
        /\ \A t \in TxIds : t # tx => pending'[t] = pending[t]
    BY <1>0, <1>1, <2>2 DEF InterceptFromTUN
  <2>5. \A t \in TxIds : pending[t] <= asked
    BY DEF DnsInv
  <2>6. DnsTypeOK'
    BY <1>0, <2>2, <2>3, <2>4 DEF DnsTypeOK
  <2>7. \A t \in TxIds : pending'[t] <= asked'
    BY <1>0, <2>2, <2>4, <2>5 DEF Queries, NoQuery
  <2>8. \A t, u \in TxIds : pending'[t] # NoQuery /\ pending'[t] = pending'[u] => t = u
    <3> SUFFICES ASSUME NEW t \in TxIds, NEW u \in TxIds, pending'[t] # NoQuery, pending'[t] = pending'[u] PROVE t = u
      OBVIOUS
    <3>1. pending[t] <= asked /\ pending[u] <= asked /\ (pending[t] # NoQuery /\ pending[t] = pending[u] => t = u)
      BY DEF DnsInv
    <3>2. pending[t] \in Int /\ pending[u] \in Int
      BY <1>0 DEF Queries, NoQuery
    <3> QED
      BY <1>0, <2>4, <3>1, <3>2
  <2>9. \A q \in Queries : answers'[q] # 0 => /\ answers'[q] = 1 /\ q <= asked'
                                              /\ \A t \in TxIds : pending'[t] # q
    <3> SUFFICES ASSUME NEW q \in Queries, answers'[q] # 0
                 PROVE  answers'[q] = 1 /\ q <= asked' /\ \A t \in TxIds : pending'[t] # q
      OBVIOUS
    <3>1. answers[q] = 1 /\ q <= asked /\ \A t \in TxIds : pending[t] # q
      BY <2>3 DEF DnsInv
    <3>2. q \in Int /\ q # asked + 1
      BY <1>0, <3>1 DEF Queries
    <3> QED
      BY <1>0, <2>2, <2>3, <2>4, <3>1, <3>2
  <2> QED
    BY <2>6, <2>7, <2>8, <2>9 DEF DnsInv
<1>2. ASSUME NEW f \in frames, HandleResponse(f) PROVE DnsInv'
  <2>1. f.tx \in TxIds /\ frames' \subseteq Frame /\ UNCHANGED <<linked, asked, work>>
    BY <1>0, <1>2 DEF HandleResponse, Frame
  <2>2. pending' \in [TxIds -> Queries \cup {NoQuery}] /\ pending'[f.tx] = NoQuery
        /\ \A t \in TxIds : t # f.tx => pending'[t] = pending[t]
    BY <1>0, <1>2, <2>1 DEF HandleResponse, TakenOut
  <2>3. CASE pending[f.tx] = NoQuery
    <3>1. answers' = answers
      BY <1>2, <2>3 DEF HandleResponse
    <3> QED
      BY <1>0, <2>1, <2>2, <2>3, <3>1 DEF DnsInv, DnsTypeOK, Queries, NoQuery
  <2>4. CASE pending[f.tx] # NoQuery
    <3>1. PICK a \in Queries : a = pending[f.tx]
      BY <1>0, <2>1, <2>4
    <3>2. answers[a] = 0 /\ a <= asked
      BY <2>1, <3>1 DEF DnsInv
    <3>3. answers' \in [Queries -> Nat] /\ answers'[a] = 1 /\ \A q \in Queries : q # a => answers'[q] = answers[q]
      BY <1>0, <1>2, <2>4, <3>1, <3>2 DEF HandleResponse
    <3>4. \A t \in TxIds : pending'[t] # a
      BY <2>1, <2>2, <2>4, <3>1 DEF DnsInv
    <3>5. DnsTypeOK'
      BY <1>0, <2>1, <2>2, <3>3 DEF DnsTypeOK
    <3>6. \A t \in TxIds : pending'[t] <= asked'
      BY <1>0, <2>1, <2>2 DEF DnsInv, NoQuery
    <3>7. \A t, u \in TxIds : pending'[t] # NoQuery /\ pending'[t] = pending'[u] => t = u
      BY <2>1, <2>2 DEF DnsInv
    <3>8. \A q \in Queries : answers'[q] # 0 => /\ answers'[q] = 1 /\ q <= asked'
                                                /\ \A t \in TxIds : pending'[t] # q
      <4> SUFFICES ASSUME NEW q \in Queries, answers'[q] # 0
                   PROVE  answers'[q] = 1 /\ q <= asked' /\ \A t \in TxIds : pending'[t] # q
        OBVIOUS
      <4>1. CASE q = a
        BY <2>1, <3>2, <3>3, <3>4, <4>1
      <4>2. CASE q # a
        <5>1. answers[q] = 1 /\ q <= asked /\ \A t \in TxIds : pending[t] # q
          BY <3>3, <4>2 DEF DnsInv
        <5>2. q # NoQuery
          BY DEF Queries, NoQuery
        <5> QED
          BY <2>1, <2>2, <3>3, <4>2, <5>1, <5>2
      <4> QED
        BY <4>1, <4>2
    <3> QED
      BY <3>5, <3>6, <3>7, <3>8 DEF DnsInv
  <2> QED
    BY <2>3, <2>4
<1>3. ASSUME NEW tx \in TxIds, CleanupPending(tx) PROVE DnsInv'
  <2>1. pending' \in [TxIds -> Queries \cup {NoQuery}] /\ pending'[tx] = NoQuery
        /\ \A t \in TxIds : t # tx => pending'[t] = pending[t]
    BY <1>0, <1>3 DEF CleanupPending, TakenOut
  <2> QED
    BY <1>0, <1>3, <2>1 DEF CleanupPending, DnsInv, DnsTypeOK, Queries, NoQuery
<1>4. ASSUME UNCHANGED <<asked, pending, answers>>, linked' \subseteq Dialled, frames' \subseteq Frame, work' \subseteq Frame
      PROVE  DnsInv'
  BY <1>0, <1>4 DEF DnsInv, DnsTypeOK
<1>5. ASSUME NEW f \in frames, ExitReceives(f) PROVE DnsInv'
  BY <1>0, <1>4, <1>5 DEF ExitReceives
<1>6. ASSUME NEW f \in work, UpstreamAnswers(f) PROVE DnsInv'
  <2>1. [f EXCEPT !.to = "asker"] \in Frame
    BY <1>0 DEF Frame
  <2>2. frames' = frames \/ frames' = frames \cup {[f EXCEPT !.to = "asker"]}
    BY <1>6 DEF UpstreamAnswers
  <2> QED
    BY <1>0, <1>4, <1>6, <2>1, <2>2 DEF UpstreamAnswers
<1>7. ASSUME NEW c \in Dialled, Connect(c) \/ ConnectionLost(c) PROVE DnsInv'
  BY <1>0, <1>4, <1>7 DEF Connect, ConnectionLost
<1>8. CASE UNCHANGED dnsVars
  BY <1>0, <1>4, <1>8 DEF dnsVars
<1> QED
  BY <1>1, <1>2, <1>3, <1>5, <1>6, <1>7, <1>8 DEF DnsNext

LEMMA DnsInvShows == DnsInv => DnsTypeOK /\ AnsweredAtMostOnce
BY DEF DnsInv, DnsTypeOK, AnsweredAtMostOnce

(***************************************************************************)
(* The addresses a node reports.                                           *)
(***************************************************************************)
LEMMA MergedUnfolds ==
  ASSUME NEW D, NEW cs \in Seq(D)
  PROVE  /\ MergedUpTo(cs)[0] = {}
         /\ \A i \in 1 .. Len(cs) : MergedUpTo(cs)[i] = MergedWith(MergedUpTo(cs)[i - 1], cs[i])
<1>1. PICK n, S, z : n = Len(cs) /\ S = SUBSET D /\ z = {}
  OBVIOUS
<1>2. /\ n \in Nat /\ z \in S
      /\ \A i \in 1 .. n : cs[i] \in D
      /\ \A i \in 1 .. n : \A q \in S : MergedWith(q, cs[i]) \in S
  <2>1. n \in Nat /\ z \in S /\ \A i \in 1 .. n : cs[i] \in D
    BY <1>1
  <2>2. ASSUME NEW i \in 1 .. n, NEW q \in S PROVE MergedWith(q, cs[i]) \in S
    <3>1. cs[i] \in D /\ q \subseteq D
      BY <1>1, <2>1
    <3> QED
      BY <1>1, <3>1 DEF MergedWith
  <2> QED
    BY <2>1, <2>2
<1> DEFINE Body(f) == [i \in 0 .. Len(cs) |-> IF i = 0 THEN {} ELSE MergedWith(f[i - 1], cs[i])]
<1>4. PICK turn : turn = [i \in 1 .. n |-> [q \in S |-> MergedWith(q, cs[i])]]
  OBVIOUS
<1>5. \A i \in 1 .. n : turn[i] \in [S -> S] /\ \A q \in S : turn[i][q] = MergedWith(q, cs[i])
  <2>1. \A i \in 1 .. n : turn[i] = [q \in S |-> MergedWith(q, cs[i])]
    BY <1>4
  <2> QED
    BY <1>2, <2>1
<1>6. turn \in [1 .. n -> [S -> S]]
  <2>1. turn = [i \in 1 .. n |-> turn[i]]
    BY <1>4
  <2> QED
    BY <1>5, <2>1
<1>7. PICK f \in [0 .. n -> S] : f[0] = z /\ \A i \in 1 .. n : f[i] = turn[i][f[i - 1]]
  <2>1. PICK f \in [0 .. n -> S] : ByStep(f, n, z, turn)
    BY <1>2, <1>6, RecursionExists
  <2>2. f[0] = z /\ \A i \in 1 .. n : f[i] = turn[i][f[i - 1]]
    BY <2>1 DEF ByStep
  <2> QED
    BY <2>2
<1>8. ASSUME NEW i \in 1 .. n PROVE f[i] = MergedWith(f[i - 1], cs[i])
  <2>1. PICK q : q = f[i - 1]
    OBVIOUS
  <2>2. q \in S /\ f[i] = turn[i][q]
    BY <1>2, <1>7, <2>1
  <2> QED
    BY <1>5, <2>1, <2>2
<1>9. f = Body(f)
  <2>1. ASSUME NEW i \in 0 .. n PROVE f[i] = Body(f)[i]
    <3>1. CASE i = 0
      BY <1>1, <1>7, <3>1
    <3>2. CASE i # 0
      <4>1. i \in 1 .. n /\ i \in 0 .. Len(cs)
        BY <1>1, <1>2, <3>2
      <4>2. f[i] = MergedWith(f[i - 1], cs[i])
        BY <1>8, <4>1
      <4> QED
        BY <3>2, <4>1, <4>2
    <3> QED
      BY <3>1, <3>2
  <2>2. f = [i \in 0 .. n |-> f[i]]
    BY <1>7
  <2>3. DOMAIN Body(f) = 0 .. n /\ Body(f) = [i \in 0 .. n |-> Body(f)[i]]
    BY <1>1
  <2> HIDE DEF Body
  <2> QED
    BY <2>1, <2>2, <2>3
<1>10. MergedUpTo(cs) = CHOOSE g : g = Body(g)
  BY DEF MergedUpTo
<1>11. PICK g : g = MergedUpTo(cs)
  OBVIOUS
<1>12. g = Body(g)
  <2> HIDE DEF Body
  <2>1. \E h : h = Body(h)
    BY <1>9
  <2>2. (CHOOSE h : h = Body(h)) = Body(CHOOSE h : h = Body(h))
    BY <2>1, Zenon
  <2> QED
    BY <1>10, <1>11, <2>2, Zenon
<1>13. g[0] = {}
  BY <1>1, <1>2, <1>12
<1>14. ASSUME NEW i \in 1 .. Len(cs) PROVE g[i] = MergedWith(g[i - 1], cs[i])
  <2>1. i \in 0 .. Len(cs) /\ i # 0
    BY <1>1, <1>2
  <2>2. g[i] = Body(g)[i]
    <3> HIDE DEF Body
    <3> QED
      BY <1>12
  <2> QED
    BY <2>1, <2>2
<1> QED
  BY <1>11, <1>13, <1>14

\* What Merge makes of candidates: nothing new, and for each candidate one of its address
\* that is as trustworthy.
Kinds == {"CDN", "IP_DIRECT"}
Sources == {"URL", "CONFIG", "STUN", "UPNP", "OBSERVED", "NETIF"}
IngressRec == [kind : Kinds, host : Host, port : Nat, src : Sources, conf : Nat, nat : {"UNKNOWN", "FULL_CONE", "SYMMETRIC"}]
SameAddress(i, j) == i.host = j.host /\ i.port = j.port /\ i.kind = j.kind
Represented(out, c) == \E m \in out : SameAddress(m, c) /\ m.conf >= c.conf

LEMMA RecFields ==
  ASSUME NEW x \in IngressRec
  PROVE  x.kind \in Kinds /\ x.host \in Host /\ x.port \in Nat /\ x.src \in Sources /\ x.conf \in Nat
         /\ x.nat \in {"UNKNOWN", "FULL_CONE", "SYMMETRIC"} /\ sourcePriority[x.src] \in Nat
<1>1. x.kind \in Kinds /\ x.host \in Host /\ x.port \in Nat /\ x.src \in Sources /\ x.conf \in Nat
      /\ x.nat \in {"UNKNOWN", "FULL_CONE", "SYMMETRIC"}
  BY DEF IngressRec
<1>2. \A s \in Sources : sourcePriority[s] \in Nat
  BY DEF Sources, sourcePriority
<1> QED
  BY <1>1, <1>2

LEMMA MergedWithKeeps ==
  ASSUME NEW out \in SUBSET IngressRec, NEW c \in IngressRec
  PROVE  /\ MergedWith(out, c) \subseteq out \cup {c}
         /\ Represented(MergedWith(out, c), c)
         /\ \A x \in IngressRec : Represented(out, x) => Represented(MergedWith(out, c), x)
<1>1. MergedWith(out, c) \subseteq out \cup {c}
  BY DEF MergedWith
<1>2. \A x \in IngressRec : x.conf \in Nat /\ sourcePriority[x.src] \in Nat
  BY RecFields
<1>3. \A i : i \in Rivals(out, c) <=> i \in out /\ SameAddress(i, c)
  BY DEF Rivals, dedupKey, SameAddress
<1>4. CASE \A i \in Rivals(out, c) : betterThan(c, i)
  <2>1. MergedWith(out, c) = (out \ Rivals(out, c)) \cup {c}
    BY <1>4 DEF MergedWith
  <2>2. \A i \in Rivals(out, c) : c.conf >= i.conf
    <3>1. \A i \in Rivals(out, c) : i \in IngressRec
      BY <1>3
    <3> QED
      BY <1>2, <1>4, <3>1 DEF betterThan
  <2>3. Represented(MergedWith(out, c), c)
    <3>1. c \in MergedWith(out, c) /\ SameAddress(c, c) /\ c.conf >= c.conf
      BY <1>2, <2>1 DEF SameAddress
    <3> QED
      BY <3>1 DEF Represented
  <2>4. ASSUME NEW x \in IngressRec, Represented(out, x) PROVE Represented(MergedWith(out, c), x)
    <3>1. PICK m \in out : SameAddress(m, x) /\ m.conf >= x.conf
      BY <2>4 DEF Represented
    <3>2. CASE m \in Rivals(out, c)
      <4>1. SameAddress(c, x)
        BY <1>3, <3>1, <3>2 DEF SameAddress
      <4>2. c.conf >= x.conf
        BY <1>2, <2>2, <3>1, <3>2
      <4> QED
        BY <2>1, <4>1, <4>2 DEF Represented
    <3>3. CASE m \notin Rivals(out, c)
      BY <2>1, <3>1, <3>3 DEF Represented
    <3> QED
      BY <3>2, <3>3
  <2> QED
    BY <1>1, <2>3, <2>4
<1>5. CASE ~ \A i \in Rivals(out, c) : betterThan(c, i)
  <2>1. MergedWith(out, c) = out
    BY <1>5 DEF MergedWith
  <2>2. PICK i \in Rivals(out, c) : ~betterThan(c, i)
    BY <1>5
  <2>3. i \in out /\ SameAddress(i, c)
    BY <1>3, <2>2
  <2>4. i.conf >= c.conf
    BY <1>2, <2>2, <2>3 DEF betterThan
  <2>5. Represented(MergedWith(out, c), c)
    BY <2>1, <2>3, <2>4 DEF Represented
  <2> QED
    BY <1>1, <2>1, <2>5
<1> QED
  BY <1>4, <1>5

LEMMA MergeKeeps ==
  ASSUME NEW D \in SUBSET IngressRec, NEW cs \in Seq(D)
  PROVE  Merge(cs) \subseteq D /\ \A k \in 1 .. Len(cs) : Represented(Merge(cs), cs[k])
<1>1. PICK n, out : n = Len(cs) /\ out = MergedUpTo(cs)
  OBVIOUS
<1>2. n \in Nat /\ \A i \in 1 .. n : cs[i] \in D
  BY <1>1
<1>3. out[0] = {} /\ \A i \in 1 .. n : out[i] = MergedWith(out[i - 1], cs[i])
  BY <1>1, MergedUnfolds
<1> DEFINE Kept(i) == out[i] \subseteq D /\ \A k \in 1 .. i : Represented(out[i], cs[k])
<1>4. PICK kept : kept = [i \in 0 .. n |-> IF Kept(i) THEN 1 ELSE 0]
  OBVIOUS
<1>5. kept[0] = 1
  <2>1. Kept(0)
    BY <1>3
  <2>2. 0 \in 0 .. n
    BY <1>2
  <2> HIDE DEF Kept
  <2> QED
    BY <1>4, <2>1, <2>2
<1>6. ASSUME NEW i \in 1 .. n, kept[i - 1] = 1 PROVE kept[i] = 1
  <2>1. PICK j, b : j = i - 1 /\ b = out[i - 1]
    OBVIOUS
  <2>2. j \in 0 .. n /\ i \in 0 .. n /\ \A k \in 1 .. i : k \in 1 .. j \/ k = i
    BY <1>2, <2>1
  <2>3. Kept(j)
    <3> HIDE DEF Kept
    <3> QED
      BY <1>4, <1>6, <2>1, <2>2
  <2>4. b \subseteq D /\ \A k \in 1 .. j : Represented(b, cs[k])
    BY <2>1, <2>3
  <2>5. out[i] = MergedWith(b, cs[i]) /\ cs[i] \in D
    BY <1>2, <1>3, <2>1
  <2>6. PICK c : c = cs[i]
    OBVIOUS
  <2>10. b \in SUBSET IngressRec /\ c \in IngressRec /\ out[i] = MergedWith(b, c)
    BY <2>4, <2>5, <2>6
  <2>11. /\ MergedWith(b, c) \subseteq b \cup {c} /\ Represented(MergedWith(b, c), c)
         /\ \A x \in IngressRec : Represented(b, x) => Represented(MergedWith(b, c), x)
    BY <2>10, MergedWithKeeps
  <2>7. out[i] \subseteq b \cup {c} /\ Represented(out[i], c) /\ \A x \in IngressRec : Represented(b, x) => Represented(out[i], x)
    BY <2>10, <2>11
  <2>8. \A k \in 1 .. j : cs[k] \in IngressRec
    BY <1>2, <2>2
  <2>9. Kept(i)
    BY <2>2, <2>4, <2>5, <2>6, <2>7, <2>8
  <2> HIDE DEF Kept
  <2> QED
    BY <1>4, <2>2, <2>9
<1>7. \A i \in 0 .. n : kept[i] \in {1}
  <2>1. PICK S : S = {1}
    OBVIOUS
  <2>2. kept[0] \in S /\ \A i \in 1 .. n : kept[i - 1] \in S => kept[i] \in S
    BY <1>5, <1>6, <2>1
  <2>3. n \in Nat
    BY <1>2
  <2>4. \A i \in 0 .. n : kept[i] \in S
    BY <2>2, <2>3, StaysIn
  <2> QED
    BY <2>1, <2>4
<1>8. Kept(n)
  <2> HIDE DEF Kept
  <2> QED
    BY <1>2, <1>4, <1>7
<1> QED
  BY <1>1, <1>8, Zenon DEF Merge

\* A set written as a sequence has all its elements there.
LEMMA SetAsSeq ==
  ASSUME NEW S, IsFiniteSet(S)
  PROVE  SetToSeq(S) \in Seq(S) /\ \A x \in S : \E k \in 1 .. Len(SetToSeq(S)) : SetToSeq(S)[k] = x
<1>1. PICK n : n = Cardinality(S)
  OBVIOUS
<1>2. n \in Nat /\ ExistsBijection(1 .. n, S)
  BY <1>1, FS_CardinalityType
<1>3. PICK g \in [1 .. n -> S] : IsInjective(g)
  <2>1. PICK g \in Bijection(1 .. n, S) : TRUE
    BY <1>2 DEF ExistsBijection
  <2>2. g \in [1 .. n -> S] /\ \A a, b \in 1 .. n : g[a] = g[b] => a = b
    BY <2>1 DEF Bijection, Injection, IsInjective
  <2>3. IsInjective(g)
    BY <2>2 DEF IsInjective
  <2> QED
    BY <2>2, <2>3
<1>4. PICK f : f = SetToSeq(S)
  OBVIOUS
<1>5. f \in [1 .. n -> S] /\ IsInjective(f)
  BY <1>1, <1>3, <1>4, Zenon DEF SetToSeq
<1>6. f \in Injection(1 .. n, S)
  BY <1>5 DEF Injection, IsInjective
<1>7. IsFiniteSet(1 .. n) /\ Cardinality(1 .. n) = n
  <2>1. 1 \in Int /\ n \in Int
    BY <1>2
  <2>2. IsFiniteSet(1 .. n) /\ Cardinality(1 .. n) = IF 1 > n THEN 0 ELSE n - 1 + 1
    BY <2>1, FS_Interval
  <2> QED
    BY <1>2, <2>2
<1>8. f \in Surjection(1 .. n, S)
  <2>1. PICK T : T = 1 .. n
    OBVIOUS
  <2>2. f \in Injection(T, S) /\ Cardinality(T) = Cardinality(S)
    BY <1>1, <1>6, <1>7, <2>1
  <2>3. f \in Surjection(T, S)
    BY <2>2, FS_Injection
  <2> QED
    BY <2>1, <2>3
<1>9. \A x \in S : \E k \in 1 .. n : f[k] = x
  BY <1>8 DEF Surjection
<1>10. f \in Seq(S) /\ Len(f) = n
  BY <1>2, <1>5
<1> QED
  BY <1>4, <1>9, <1>10

\* A candidate is as its source says: an edge is declared, and so is an address without a
\* port but for an interface's or a page's; a stable mapping is the same for two servers.
SeenByTwo(nm, h, p) ==
  \E j, k \in 1 .. Len(StunServers) : j # k /\ \A x \in {j, k} : nm[StunServers[x]] = [host |-> h, port |-> p]
StableAt(i, nm) == isPubliclyRoutable(i.host) /\ SeenByTwo(nm, i.host, i.port)
Sound(nm, ds) ==
  {i \in IngressRec :
     /\ i.conf = Confidence(i.src, i.host)
     /\ i.kind = "CDN" => i.src = "CONFIG"
     /\ i.port = 0 => i.src \in {"CONFIG", "NETIF", "URL"}
     /\ i.src = "CONFIG" /\ i.kind = "IP_DIRECT" => \E d \in Range(ds) : ~d.cdn /\ d.host = i.host /\ d.port = i.port
     /\ i.src = "STUN" /\ i.nat = "FULL_CONE" => StableAt(i, nm)}

Edge(i, d) == i.kind = "CDN" /\ i.host = d.host /\ i.port = d.port
Edges(cs, ds) == \A d \in Range(ds) : d.cdn => \E k \in 1 .. Len(cs) : Edge(cs[k], d)
OwnOf(i, h) == i.kind = "IP_DIRECT" /\ i.host = h /\ i.port = 0 /\ i.src = "NETIF" /\ i.conf >= 60
Reachable(h) == HostClass[h] \in {"public", "lan"}
Owned(cs, ow) == \A h \in ow : Reachable(h) => \E k \in 1 .. Len(cs) : OwnOf(cs[k], h)

Reached(set, ow, ds) ==
  /\ \A h \in ow : Reachable(h) =>
       \/ \E i \in set : i.kind = "IP_DIRECT" /\ i.host = h /\ i.port > 0
       \/ \E d \in Range(ds) : ~d.cdn /\ d.host = h /\ d.port = 0
  /\ \A d \in Range(ds) : d.cdn => \E i \in set : Edge(i, d)
Truthful(set, nm, ow, ds) ==
  /\ set \subseteq IngressRec
  /\ \A i \in set : i.src = "STUN" /\ i.nat = "FULL_CONE" => StableAt(i, nm)
  /\ set # {} => Reached(set, ow, ds)

ServerAddr == [host : Host, port : Nat \ {0}]

LEMMA IngressAre ==
  ASSUME NEW kind \in Kinds, NEW host \in Host, NEW port \in Nat, NEW src \in Sources,
         NEW nat \in {"UNKNOWN", "FULL_CONE", "SYMMETRIC"}
  PROVE  \E i \in IngressRec : /\ i = Ingress(kind, host, port, src, nat)
                               /\ i.kind = kind /\ i.host = host /\ i.port = port /\ i.src = src
                               /\ i.conf = Confidence(src, host) /\ i.nat = nat
<1>1. Confidence(src, host) \in Nat
  BY DEF Confidence, Sources
<1>2. PICK i : i = Ingress(kind, host, port, src, nat)
  OBVIOUS
<1>3. /\ i.kind = kind /\ i.host = host /\ i.port = port /\ i.src = src
      /\ i.conf = Confidence(src, host) /\ i.nat = nat
  BY <1>2 DEF Ingress
<1>4. i \in IngressRec
  BY <1>1, <1>2 DEF Ingress, IngressRec
<1> QED
  BY <1>2, <1>3, <1>4

LEMMA PortsKnown ==
  ASSUME NEW set \in SUBSET IngressRec
  PROVE  /\ \A i \in set : \E x \in WithPorts(set) :
              x.kind = i.kind /\ x.host = i.host /\ x.port = IF i.port = 0 /\ i.src = "NETIF" THEN ListenPort ELSE i.port
         /\ \A x \in WithPorts(set) : /\ x \in IngressRec
                                      /\ x \in set \/ x.src = "NETIF"
<1>1. ASSUME NEW i \in set
      PROVE  \E x \in IngressRec :
               /\ x = IF i.port = 0 /\ i.src = "NETIF" THEN [i EXCEPT !.port = ListenPort] ELSE i
               /\ x.kind = i.kind /\ x.host = i.host /\ x.port = IF i.port = 0 /\ i.src = "NETIF" THEN ListenPort ELSE i.port
               /\ x \in set \/ x.src = "NETIF"
  <2>1. CASE i.port = 0 /\ i.src = "NETIF"
    <3>1. PICK x : x = [i EXCEPT !.port = ListenPort]
      OBVIOUS
    <3>2. ListenPort \in Nat
      BY IngressAssumption
    <3>3. x \in IngressRec /\ x.kind = i.kind /\ x.host = i.host /\ x.port = ListenPort /\ x.src = i.src
      BY <3>1, <3>2 DEF IngressRec
    <3> QED
      BY <2>1, <3>1, <3>3
  <2>2. CASE ~(i.port = 0 /\ i.src = "NETIF")
    BY <2>2
  <2> QED
    BY <2>1, <2>2
<1>2. \A i \in set : \E x \in WithPorts(set) :
        x.kind = i.kind /\ x.host = i.host /\ x.port = IF i.port = 0 /\ i.src = "NETIF" THEN ListenPort ELSE i.port
  BY <1>1 DEF WithPorts
<1>3. ASSUME NEW x \in WithPorts(set) PROVE x \in IngressRec /\ (x \in set \/ x.src = "NETIF")
  <2>1. PICK i \in set : x = IF i.port = 0 /\ i.src = "NETIF" THEN [i EXCEPT !.port = ListenPort] ELSE i
    BY DEF WithPorts
  <2> QED
    BY <1>1, <2>1
<1> QED
  BY <1>2, <1>3

\* An interface's address is beaten only by an address the operator declares without a port.
LEMMA MergeTruthful ==
  ASSUME NEW nm, NEW ow, NEW ds, NEW cs \in Seq(Sound(nm, ds)), Edges(cs, ds), Owned(cs, ow)
  PROVE  Truthful(WithPorts(Merge(cs)), nm, ow, ds)
<1>1. Sound(nm, ds) \subseteq IngressRec
  BY DEF Sound
<1>2. PICK D, set, all : D = Sound(nm, ds) /\ set = Merge(cs) /\ all = WithPorts(set)
  OBVIOUS
<1>3. set \subseteq D /\ \A k \in 1 .. Len(cs) : Represented(set, cs[k])
  BY <1>1, <1>2, MergeKeeps
<1>4. set \in SUBSET IngressRec /\ D \subseteq IngressRec
  BY <1>1, <1>2, <1>3
<1>5. \A i \in set : \E x \in all :
        x.kind = i.kind /\ x.host = i.host /\ x.port = IF i.port = 0 /\ i.src = "NETIF" THEN ListenPort ELSE i.port
  BY <1>2, <1>4, PortsKnown
<1>6. \A x \in all : x \in IngressRec /\ (x \in set \/ x.src = "NETIF")
  BY <1>2, <1>4, PortsKnown
<1>7. \A i \in D : /\ i.conf = Confidence(i.src, i.host)
                   /\ i.kind = "CDN" => i.src = "CONFIG"
                   /\ i.port = 0 => i.src \in {"CONFIG", "NETIF", "URL"}
                   /\ i.src = "CONFIG" /\ i.kind = "IP_DIRECT" => \E d \in Range(ds) : ~d.cdn /\ d.host = i.host /\ d.port = i.port
                   /\ i.src = "STUN" /\ i.nat = "FULL_CONE" => StableAt(i, nm)
  BY <1>2 DEF Sound
<1>8. \A k \in 1 .. Len(cs) : cs[k] \in D
  BY <1>2
<1>9. \A i \in all : i.src = "STUN" /\ i.nat = "FULL_CONE" => StableAt(i, nm)
  BY <1>3, <1>6, <1>7
<1>10. ASSUME NEW h \in ow, Reachable(h)
       PROVE  \/ \E i \in all : i.kind = "IP_DIRECT" /\ i.host = h /\ i.port > 0
              \/ \E d \in Range(ds) : ~d.cdn /\ d.host = h /\ d.port = 0
  <2>1. PICK k \in 1 .. Len(cs) : OwnOf(cs[k], h)
    BY <1>10 DEF Owned
  <2>2. PICK c : c = cs[k]
    OBVIOUS
  <2>3. c \in D /\ c.kind = "IP_DIRECT" /\ c.host = h /\ c.port = 0 /\ c.conf >= 60
    BY <1>8, <2>1, <2>2 DEF OwnOf
  <2>4. PICK m \in set : SameAddress(m, c) /\ m.conf >= c.conf
    BY <1>3, <2>2 DEF Represented
  <2>5. m \in D /\ m.kind = "IP_DIRECT" /\ m.host = h /\ m.port = 0
    BY <1>3, <2>3, <2>4 DEF SameAddress
  <2>6. m.conf >= 60
    <3>1. m.conf \in Nat /\ c.conf \in Nat
      BY <1>4, <2>3, <2>4, RecFields
    <3> QED
      BY <2>3, <2>4, <3>1
  <2>7. m.src # "URL"
    <3>1. Confidence("URL", h) = 50
      BY DEF Confidence
    <3> QED
      BY <1>7, <2>5, <2>6, <3>1
  <2>8. m.src = "CONFIG" \/ m.src = "NETIF"
    BY <1>7, <2>5, <2>7
  <2>9. CASE m.src = "CONFIG"
    BY <1>7, <2>5, <2>9
  <2>10. CASE m.src = "NETIF"
    <3>1. PICK x \in all : x.kind = m.kind /\ x.host = m.host /\ x.port = IF m.port = 0 /\ m.src = "NETIF" THEN ListenPort ELSE m.port
      BY <1>5
    <3>2. x.kind = "IP_DIRECT" /\ x.host = h /\ x.port = ListenPort
      BY <2>5, <2>10, <3>1
    <3>3. ListenPort > 0
      BY IngressAssumption
    <3> QED
      BY <3>2, <3>3
  <2> QED
    BY <2>8, <2>9, <2>10
<1>11. ASSUME NEW d \in Range(ds), d.cdn PROVE \E i \in all : Edge(i, d)
  <2>1. PICK k \in 1 .. Len(cs) : Edge(cs[k], d)
    BY <1>11 DEF Edges
  <2>2. PICK m \in set : SameAddress(m, cs[k]) /\ m.conf >= cs[k].conf
    BY <1>3 DEF Represented
  <2>3. m \in D /\ Edge(m, d)
    BY <1>3, <2>1, <2>2 DEF SameAddress, Edge
  <2>4. m.src # "NETIF"
    BY <1>7, <2>3 DEF Edge
  <2>5. PICK x \in all : x.kind = m.kind /\ x.host = m.host /\ x.port = IF m.port = 0 /\ m.src = "NETIF" THEN ListenPort ELSE m.port
    BY <1>5, <2>2
  <2> QED
    BY <2>3, <2>4, <2>5 DEF Edge
<1>12. Truthful(all, nm, ow, ds)
  BY <1>6, <1>9, <1>10, <1>11 DEF Truthful, Reached
<1> QED
  BY <1>2, <1>12

\* What the servers saw: each mapping by another server, none by the one awaited.
Mapped(ms, upTo, here, nm) ==
  /\ ms \in Seq(ServerAddr) /\ Len(ms) <= 2
  /\ Len(ms) >= 1 => \E j \in 1 .. upTo : ms[1] = nm[StunServers[j]] /\ (here = "await" => j < upTo)
  /\ Len(ms) = 2 => \E j, k \in 1 .. upTo : j # k /\ ms[1] = nm[StunServers[j]] /\ ms[2] = nm[StunServers[k]]
  /\ here = "await" => upTo >= 1 /\ Len(ms) <= 1
AnswerSound(a, upTo, nm) == a.txid \in 1 .. upTo /\ a.seen = nm[StunServers[a.txid]]

Listing(ow) == [{"now", "cached", "reported"} -> SUBSET ow]

IngressInv ==
  /\ natMap \in NatMaps /\ own \in OwnAddresses /\ declared \in Declared
  /\ step \in Steps /\ serversAsked \in 0 .. Len(StunServers) /\ discoveries \in 0 .. MaxDiscoveries
  /\ candidates \in Seq(Sound(natMap, declared))
  /\ step # "idle" => Edges(candidates, declared)
  /\ listed \in Listing(own)
  /\ step \in {"url", "portmap", "report"} => Owned(candidates, listed.now)
  /\ step \in {"idle", "observe"} => serversAsked = 0 /\ mappings = <<>>
  /\ \A a \in stunAnswers : AnswerSound(a, serversAsked, natMap)
  /\ Mapped(mappings, serversAsked, step, natMap)
  /\ Truthful(cached, natMap, listed.cached, declared) /\ Truthful(ingressSets, natMap, listed.reported, declared)

LEMMA ServersAre ==
  /\ Len(StunServers) \in Nat /\ Len(StunServers) >= 1
  /\ \A j \in 1 .. Len(StunServers) : StunServers[j] \in Range(StunServers)
  /\ DOMAIN StunServers = 1 .. Len(StunServers)
<1>1. PICK T : T = Range(StunServers)
  OBVIOUS
<1>2. StunServers \in Seq(T) /\ StunServers # <<>>
  BY <1>1, IngressAssumption
<1>3. DOMAIN StunServers = 1 .. Len(StunServers) /\ Len(StunServers) \in Nat /\ Len(StunServers) >= 1
  <2>1. \A S : \A s \in Seq(S) : DOMAIN s = 1 .. Len(s)
    OBVIOUS
  <2>2. Len(StunServers) \in Nat /\ Len(StunServers) # 0
    BY <1>2
  <2> QED
    BY <1>2, <2>1, <2>2
<1> QED
  BY <1>3 DEF Range

LEMMA NatsAre ==
  ASSUME NEW m \in NatMaps
  PROVE  /\ \A j \in 1 .. Len(StunServers) : m[StunServers[j]] \in ServerAddr
         /\ \A s \in Range(StunServers) : m[s] \in ServerAddr
<1>1. m \in [Range(StunServers) -> ServerAddr]
  BY IngressAssumption DEF ServerAddr, Host
<1>2. \A s \in Range(StunServers) : m[s] \in ServerAddr
  BY <1>1
<1> QED
  BY <1>2, ServersAre

LEMMA AddrFields ==
  ASSUME NEW a \in ServerAddr
  PROVE  a.host \in Host /\ a.port \in Nat /\ a.port > 0 /\ a = [host |-> a.host, port |-> a.port] /\ a \in Addr
BY DEF ServerAddr, Addr

LEMMA DirectSound ==
  ASSUME NEW nm, NEW ds, NEW h \in Host, NEW p \in Nat, NEW src \in {"URL", "UPNP", "OBSERVED", "NETIF"},
         p = 0 => src \in {"NETIF", "URL"}
  PROVE  \E i \in Sound(nm, ds) : /\ i = Direct([host |-> h, port |-> p], src)
                                  /\ i.kind = "IP_DIRECT" /\ i.host = h /\ i.port = p /\ i.src = src /\ i.conf = Confidence(src, h)
<1>1. src \in Sources /\ "IP_DIRECT" \in Kinds
  BY DEF Sources, Kinds
<1>2. PICK i \in IngressRec : /\ i = Ingress("IP_DIRECT", h, p, src, "UNKNOWN")
                              /\ i.kind = "IP_DIRECT" /\ i.host = h /\ i.port = p /\ i.src = src
                              /\ i.conf = Confidence(src, h) /\ i.nat = "UNKNOWN"
  BY <1>1, IngressAre
<1>3. i = Direct([host |-> h, port |-> p], src)
  BY <1>2 DEF Direct
<1>4. i \in Sound(nm, ds)
  BY <1>2 DEF Sound
<1> QED
  BY <1>2, <1>3, <1>4

LEMMA StunSound ==
  ASSUME NEW nm, NEW ds, NEW h \in Host, NEW p \in Nat, p > 0, NEW nat \in {"UNKNOWN", "FULL_CONE", "SYMMETRIC"},
         nat = "FULL_CONE" => isPubliclyRoutable(h) /\ SeenByTwo(nm, h, p)
  PROVE  Ingress("IP_DIRECT", h, p, "STUN", nat) \in Sound(nm, ds)
<1>1. "STUN" \in Sources /\ "IP_DIRECT" \in Kinds
  BY DEF Sources, Kinds
<1>2. PICK i \in IngressRec : /\ i = Ingress("IP_DIRECT", h, p, "STUN", nat)
                              /\ i.kind = "IP_DIRECT" /\ i.host = h /\ i.port = p /\ i.src = "STUN"
                              /\ i.conf = Confidence("STUN", h) /\ i.nat = nat
  BY <1>1, IngressAre
<1>3. i.nat = "FULL_CONE" => StableAt(i, nm)
  BY <1>2 DEF StableAt
<1>4. i \in Sound(nm, ds)
  BY <1>2, <1>3 DEF Sound
<1> QED
  BY <1>2, <1>4

LEMMA DeclaredSound ==
  ASSUME NEW nm, NEW ds \in Declared
  PROVE  ConfigIngresses(ds) \in Seq(Sound(nm, ds)) /\ Edges(ConfigIngresses(ds), ds)
<1>1. PICK R : R = [cdn : BOOLEAN, host : Host, port : Nat]
  OBVIOUS
<1>0. PICK n : n = Len(ds)
  OBVIOUS
<1>2. ds \in Seq(R)
  BY <1>1, IngressAssumption DEF Host
<1>3. n \in Nat /\ DOMAIN ds = 1 .. n /\ \A k \in 1 .. n : ds[k] \in R
  <2>1. \A S : \A s \in Seq(S) : DOMAIN s = 1 .. Len(s)
    OBVIOUS
  <2>2. DOMAIN ds = 1 .. n
    BY <1>0, <1>2, <2>1
  <2>3. n \in Nat
    BY <1>0, <1>2
  <2>4. \A k \in 1 .. n : ds[k] \in R
    BY <1>0, <1>2
  <2> QED
    BY <2>2, <2>3, <2>4
<1>4. PICK cs : cs = ConfigIngresses(ds)
  OBVIOUS
<1>5. ASSUME NEW k \in 1 .. n
      PROVE  cs[k] \in Sound(nm, ds) /\ (ds[k].cdn => Edge(cs[k], ds[k]))
  <2>1. PICK d, kind : d = ds[k] /\ kind = IF d.cdn THEN "CDN" ELSE "IP_DIRECT"
    OBVIOUS
  <2>2. d \in R /\ d.host \in Host /\ d.port \in Nat /\ d \in Range(ds)
    BY <1>1, <1>3, <2>1 DEF Range
  <2>3. kind \in Kinds /\ "CONFIG" \in Sources
    BY <2>1 DEF Kinds, Sources
  <2>4. PICK i \in IngressRec : /\ i = Ingress(kind, d.host, d.port, "CONFIG", "UNKNOWN")
                                /\ i.kind = kind /\ i.host = d.host /\ i.port = d.port /\ i.src = "CONFIG"
                                /\ i.conf = Confidence("CONFIG", d.host) /\ i.nat = "UNKNOWN"
    BY <2>2, <2>3, IngressAre
  <2>5. cs[k] = i
    BY <1>3, <1>4, <2>1, <2>4 DEF ConfigIngresses
  <2>6. i.kind = "IP_DIRECT" => ~d.cdn
    BY <2>1, <2>4
  <2>7. i \in Sound(nm, ds)
    BY <2>2, <2>4, <2>6 DEF Sound
  <2>8. d.cdn => Edge(i, d)
    BY <2>1, <2>4 DEF Edge
  <2> QED
    BY <2>1, <2>5, <2>7, <2>8
<1>6. cs \in Seq(Sound(nm, ds)) /\ Len(cs) = n
  <2>1. PICK D : D = Sound(nm, ds)
    OBVIOUS
  <2>2. cs = [k \in 1 .. n |-> cs[k]]
    BY <1>3, <1>4 DEF ConfigIngresses
  <2>3. \A k \in 1 .. n : cs[k] \in D
    BY <1>5, <2>1
  <2>4. cs \in [1 .. n -> D]
    BY <2>2, <2>3
  <2>5. cs \in Seq(D) /\ Len(cs) = n
    BY <1>3, <2>4
  <2> QED
    BY <2>1, <2>5
<1>7. Edges(cs, ds)
  <2> SUFFICES ASSUME NEW d \in Range(ds), d.cdn PROVE \E k \in 1 .. Len(cs) : Edge(cs[k], d)
    BY DEF Edges
  <2>1. PICK k \in 1 .. n : d = ds[k]
    BY <1>3 DEF Range
  <2> QED
    BY <1>5, <1>6, <2>1
<1> QED
  BY <1>4, <1>6, <1>7

LEMMA JoinKeeps ==
  ASSUME NEW D, NEW cs \in Seq(D), NEW is \in Seq(D), NEW ds, NEW ow
  PROVE  /\ cs \o is \in Seq(D)
         /\ Edges(cs, ds) => Edges(cs \o is, ds)
         /\ Owned(cs, ow) => Owned(cs \o is, ow)
         /\ Owned(is, ow) => Owned(cs \o is, ow)
<1>1. PICK all : all = cs \o is
  OBVIOUS
<1>2. /\ all \in Seq(D) /\ Len(all) = Len(cs) + Len(is) /\ Len(cs) \in Nat /\ Len(is) \in Nat
      /\ \A i \in 1 .. Len(all) : all[i] = IF i <= Len(cs) THEN cs[i] ELSE is[i - Len(cs)]
  BY <1>1, Concat
<1>3. \A k \in 1 .. Len(cs) : \E m \in 1 .. Len(all) : all[m] = cs[k]
  BY <1>2
<1>4. ASSUME NEW k \in 1 .. Len(is) PROVE \E m \in 1 .. Len(all) : all[m] = is[k]
  <2>1. PICK m : m = k + Len(cs)
    OBVIOUS
  <2>2. m \in 1 .. Len(all) /\ m - Len(cs) = k /\ ~(m <= Len(cs))
    BY <1>2, <2>1
  <2>3. all[m] = is[m - Len(cs)]
    BY <1>2, <2>2
  <2> QED
    BY <2>2, <2>3
<1>5. Edges(cs, ds) => Edges(all, ds)
  BY <1>3 DEF Edges
<1>6. Owned(cs, ow) => Owned(all, ow)
  BY <1>3 DEF Owned
<1>7. Owned(is, ow) => Owned(all, ow)
  BY <1>4 DEF Owned
<1> QED
  BY <1>1, <1>2, <1>5, <1>6, <1>7

\* The hosts of the interfaces, as the candidates made of them.
LEMMA InterfacesAre ==
  ASSUME NEW nm, NEW ds, own \in OwnAddresses, NEW hosts \in SUBSET own
  PROVE  SetToSeq(EnumInterfaces(hosts)) \in Seq(Sound(nm, ds)) /\ Owned(SetToSeq(EnumInterfaces(hosts)), hosts)
<1>1. hosts \subseteq Host /\ IsFiniteSet(hosts)
  BY IngressAssumption, FS_Subset DEF Host
<1> DEFINE T == {o \in hosts : HostClass[o] \notin {"loop", "vip"}}
           OwnAt(h) == Direct([host |-> h, port |-> 0], "NETIF")
<1>2. PICK E : E = {OwnAt(h) : h \in T}
  OBVIOUS
<1>13. E = EnumInterfaces(hosts)
  BY <1>2 DEF EnumInterfaces
<1>3. T \in SUBSET hosts
  OBVIOUS
<1>14. \A h \in hosts : Reachable(h) => h \in T
  BY DEF Reachable
<1> HIDE DEF T, OwnAt
<1>4. IsFiniteSet(T)
  BY <1>1, <1>3, FS_Subset
<1>5. \A h \in T : \E i \in Sound(nm, ds) :
        /\ i = OwnAt(h)
        /\ i.kind = "IP_DIRECT" /\ i.host = h /\ i.port = 0 /\ i.src = "NETIF" /\ i.conf = Confidence("NETIF", h)
  <2>1. "NETIF" \in {"URL", "UPNP", "OBSERVED", "NETIF"} /\ "NETIF" \in {"NETIF", "URL"} /\ 0 \in Nat
    OBVIOUS
  <2>2. \A h \in Host : \E i \in Sound(nm, ds) :
          /\ i = OwnAt(h)
          /\ i.kind = "IP_DIRECT" /\ i.host = h /\ i.port = 0 /\ i.src = "NETIF" /\ i.conf = Confidence("NETIF", h)
    BY <2>1, DirectSound DEF OwnAt
  <2> QED
    BY <1>1, <1>3, <2>2
<1>7. E \subseteq Sound(nm, ds)
  BY <1>2, <1>5
<1>8. IsFiniteSet(E)
  <2>1. PICK f : f = [h \in T |-> OwnAt(h)]
    OBVIOUS
  <2>2. f \in Surjection(T, E)
    BY <1>2, <2>1 DEF Surjection
  <2> QED
    BY <1>4, <2>2, FS_Surjection
<1>9. SetToSeq(E) \in Seq(E) /\ \A x \in E : \E k \in 1 .. Len(SetToSeq(E)) : SetToSeq(E)[k] = x
  BY <1>8, SetAsSeq
<1>10. PICK cs : cs = SetToSeq(E)
  OBVIOUS
<1>11. cs \in Seq(Sound(nm, ds))
  <2>1. PICK D : D = Sound(nm, ds)
    OBVIOUS
  <2>2. cs \in Seq(E) /\ E \subseteq D
    BY <1>7, <1>9, <1>10, <2>1
  <2>3. cs \in Seq(D)
    BY <2>2
  <2> QED
    BY <2>1, <2>3
<1>12. Owned(cs, hosts)
  <2> SUFFICES ASSUME NEW h \in hosts, Reachable(h) PROVE \E k \in 1 .. Len(cs) : OwnOf(cs[k], h)
    BY DEF Owned
  <2>1. h \in T
    BY <1>14
  <2>2. PICK i \in Sound(nm, ds) :
        /\ i = OwnAt(h)
        /\ i.kind = "IP_DIRECT" /\ i.host = h /\ i.port = 0 /\ i.src = "NETIF" /\ i.conf = Confidence("NETIF", h)
    BY <1>5, <2>1
  <2>3. i \in E
    BY <1>2, <2>1, <2>2
  <2>4. PICK k \in 1 .. Len(cs) : cs[k] = i
    BY <1>9, <1>10, <2>3
  <2>5. Confidence("NETIF", h) >= 60
    BY DEF Confidence
  <2> QED
    BY <2>2, <2>4, <2>5 DEF OwnOf
<1> QED
  BY <1>10, <1>11, <1>12, <1>13

LEMMA IngressInvInit == IngressInit => IngressInv
<1> SUFFICES ASSUME IngressInit PROVE IngressInv
  OBVIOUS
<1>1. /\ natMap \in NatMaps /\ own \in OwnAddresses /\ declared \in Declared
      /\ step = "idle" /\ candidates = <<>> /\ serversAsked = 0 /\ stunAnswers = {} /\ mappings = <<>>
      /\ cached = {} /\ ingressSets = {} /\ discoveries = 0
      /\ listed = [now |-> {}, cached |-> {}, reported |-> {}]
  BY DEF IngressInit
<1>2. candidates \in Seq(Sound(natMap, declared))
  BY <1>1
<1>3. Mapped(mappings, serversAsked, step, natMap)
  BY <1>1 DEF Mapped
<1>4. \A ow : Truthful({}, natMap, ow, declared)
  BY DEF Truthful
<1>6. listed \in Listing(own)
  BY <1>1 DEF Listing
<1>5. step \in Steps /\ serversAsked \in 0 .. Len(StunServers) /\ discoveries \in 0 .. MaxDiscoveries
  BY <1>1, ServersAre, IngressAssumption DEF Steps
<1> QED
  BY <1>1, <1>2, <1>3, <1>4, <1>5, <1>6 DEF IngressInv

\* The surroundings stay; what a step of a discovery may change, part by part.
LEMMA IngressInvFacts ==
  ASSUME IngressInv, UNCHANGED surroundings,
         step' \in Steps, serversAsked' \in 0 .. Len(StunServers), discoveries' \in 0 .. MaxDiscoveries,
         candidates' \in Seq(Sound(natMap, declared)), listed' \in Listing(own),
         step' # "idle" => Edges(candidates', declared),
         step' \in {"url", "portmap", "report"} => Owned(candidates', listed'.now),
         step' \in {"idle", "observe"} => serversAsked' = 0 /\ mappings' = <<>>,
         \A a \in stunAnswers' : AnswerSound(a, serversAsked', natMap),
         Mapped(mappings', serversAsked', step', natMap),
         Truthful(cached', natMap, listed'.cached, declared), Truthful(ingressSets', natMap, listed'.reported, declared)
  PROVE  IngressInv'
<1>1. natMap' = natMap /\ own' = own /\ declared' = declared
  BY DEF surroundings
<1>2. natMap \in NatMaps /\ own \in OwnAddresses /\ declared \in Declared
  BY DEF IngressInv
<1>3. candidates' \in Seq(Sound(natMap', declared')) /\ listed' \in Listing(own')
  BY <1>1, Zenon
<1>4. (step' # "idle" => Edges(candidates', declared')) /\ (step' \in {"url", "portmap", "report"} => Owned(candidates', listed'.now))
  BY <1>1
<1>5. (\A a \in stunAnswers' : AnswerSound(a, serversAsked', natMap')) /\ Mapped(mappings', serversAsked', step', natMap')
  BY <1>1
<1>6. Truthful(cached', natMap', listed'.cached, declared') /\ Truthful(ingressSets', natMap', listed'.reported, declared')
  BY <1>1
<1>7. natMap' \in NatMaps /\ own' \in OwnAddresses /\ declared' \in Declared
  BY <1>1, <1>2
<1>8. IngressInv' = (/\ natMap' \in NatMaps /\ own' \in OwnAddresses /\ declared' \in Declared
        /\ step' \in Steps /\ serversAsked' \in 0 .. Len(StunServers) /\ discoveries' \in 0 .. MaxDiscoveries
        /\ candidates' \in Seq(Sound(natMap', declared'))
        /\ (step' # "idle" => Edges(candidates', declared'))
        /\ listed' \in Listing(own')
        /\ (step' \in {"url", "portmap", "report"} => Owned(candidates', listed'.now))
        /\ (step' \in {"idle", "observe"} => serversAsked' = 0 /\ mappings' = <<>>)
        /\ (\A a \in stunAnswers' : AnswerSound(a, serversAsked', natMap'))
        /\ Mapped(mappings', serversAsked', step', natMap')
        /\ Truthful(cached', natMap', listed'.cached, declared') /\ Truthful(ingressSets', natMap', listed'.reported, declared'))
  BY Zenon DEF IngressInv
<1> QED
  BY <1>3, <1>4, <1>5, <1>6, <1>7, <1>8

LEMMA MappedStays ==
  ASSUME NEW ms, NEW upTo, NEW here, NEW nm, NEW to, Mapped(ms, upTo, here, nm), to # "await"
  PROVE  Mapped(ms, upTo, to, nm)
BY DEF Mapped

LEMMA GatherKeepsInv ==
  ASSUME IngressInv, NEW from, NEW to, NEW is \in Seq(Sound(natMap, declared)), Gather(from, to, is),
         from # "idle", to \in Steps, to \notin {"idle", "observe", "await"},
         listed' \in Listing(own), listed'.cached = listed.cached, listed'.reported = listed.reported,
         to \in {"url", "portmap", "report"} =>
           (from \in {"url", "portmap", "report"} /\ listed'.now = listed.now) \/ Owned(is, listed'.now)
  PROVE  IngressInv'
<1>1. /\ step = from /\ step' = to /\ candidates' = candidates \o is
      /\ UNCHANGED surroundings /\ serversAsked' = serversAsked /\ stunAnswers' = stunAnswers
      /\ mappings' = mappings /\ cached' = cached /\ ingressSets' = ingressSets /\ discoveries' = discoveries
  BY DEF Gather
<1>2. /\ serversAsked \in 0 .. Len(StunServers) /\ discoveries \in 0 .. MaxDiscoveries
      /\ candidates \in Seq(Sound(natMap, declared))
      /\ step # "idle" => Edges(candidates, declared)
      /\ step \in {"url", "portmap", "report"} => Owned(candidates, listed.now)
      /\ \A a \in stunAnswers : AnswerSound(a, serversAsked, natMap)
      /\ Mapped(mappings, serversAsked, step, natMap)
      /\ Truthful(cached, natMap, listed.cached, declared) /\ Truthful(ingressSets, natMap, listed.reported, declared)
  BY DEF IngressInv
<1>3. PICK D, cs : D = Sound(natMap, declared) /\ cs = candidates
  OBVIOUS
<1>4. cs \in Seq(D) /\ is \in Seq(D)
  BY <1>2, <1>3
<1>5. cs \o is \in Seq(D)
  BY <1>4, JoinKeeps
<1>6. \A ds : Edges(cs, ds) => Edges(cs \o is, ds)
  BY <1>4, JoinKeeps
<1>7. \A ow : (Owned(cs, ow) => Owned(cs \o is, ow)) /\ (Owned(is, ow) => Owned(cs \o is, ow))
  BY <1>4, JoinKeeps
<1>8. step' # "idle" => Edges(candidates', declared)
  <2>1. Edges(cs, declared)
    BY <1>1, <1>2, <1>3
  <2>2. Edges(cs \o is, declared)
    BY <1>6, <2>1
  <2> QED
    BY <1>1, <1>3, <2>2
<1>9. step' \in {"url", "portmap", "report"} => Owned(candidates', listed'.now)
  <2> SUFFICES ASSUME step' \in {"url", "portmap", "report"} PROVE Owned(candidates', listed'.now)
    OBVIOUS
  <2>1. Owned(cs, listed'.now) \/ Owned(is, listed'.now)
    BY <1>1, <1>2, <1>3
  <2>2. Owned(cs \o is, listed'.now)
    BY <1>7, <2>1
  <2> QED
    BY <1>1, <1>3, <2>2
<1>10. candidates' \in Seq(Sound(natMap, declared))
  BY <1>1, <1>3, <1>5
<1>11. Mapped(mappings', serversAsked', step', natMap)
  <2>1. Mapped(mappings, serversAsked, to, natMap)
    <3>1. to # "await" /\ Mapped(mappings, serversAsked, step, natMap)
      BY <1>2
    <3> QED
      BY <3>1, MappedStays
  <2> QED
    BY <1>1, <2>1
<1>12. /\ step' \in Steps /\ serversAsked' \in 0 .. Len(StunServers) /\ discoveries' \in 0 .. MaxDiscoveries
       /\ step' \notin {"idle", "observe"} /\ \A a \in stunAnswers' : AnswerSound(a, serversAsked', natMap)
       /\ Truthful(cached', natMap, listed'.cached, declared) /\ Truthful(ingressSets', natMap, listed'.reported, declared)
  BY <1>1, <1>2
<1> HIDE DEF IngressInv, surroundings
<1> QED
  BY <1>1, <1>8, <1>9, <1>10, <1>11, <1>12, IngressInvFacts

\* The candidates of each source.
LEMMA StunIngressSound ==
  ASSUME IngressInv PROVE StunIngress \in Seq(Sound(natMap, declared))
<1>1. /\ natMap \in NatMaps /\ Mapped(mappings, serversAsked, step, natMap) /\ serversAsked \in 0 .. Len(StunServers)
  BY DEF IngressInv
<1>2. CASE mappings = <<>>
  BY <1>2 DEF StunIngress
<1>3. CASE mappings # <<>>
  <2>1. PICK n : n = Len(mappings)
    OBVIOUS
  <2>2. mappings \in Seq(ServerAddr) /\ n <= 2
    BY <1>1, <2>1 DEF Mapped
  <2>3. n = 1 \/ n = 2
    <3>1. n \in Nat /\ n # 0
      BY <1>3, <2>1, <2>2
    <3> QED
      BY <2>2, <3>1
  <2>4. PICK a : a = mappings[1]
    OBVIOUS
  <2>5. a \in ServerAddr
    BY <2>1, <2>2, <2>3, <2>4
  <2>6. a.host \in Host /\ a.port \in Nat /\ a.port > 0 /\ a = [host |-> a.host, port |-> a.port]
    BY <2>5, AddrFields
  <2>7. PICK nat : nat = NatType(mappings)
    OBVIOUS
  <2>8. nat \in {"UNKNOWN", "FULL_CONE", "SYMMETRIC"}
    BY <2>7 DEF NatType
  <2>9. ASSUME nat = "FULL_CONE"
        PROVE  isPubliclyRoutable(a.host) /\ SeenByTwo(natMap, a.host, a.port)
    <3>1. isPubliclyRoutable(a.host) /\ n # 1 /\ a = mappings[2]
      BY <2>1, <2>4, <2>7, <2>9 DEF NatType
    <3>2. PICK j \in 1 .. serversAsked, k \in 1 .. serversAsked :
            j # k /\ a = natMap[StunServers[j]] /\ mappings[2] = natMap[StunServers[k]]
      BY <1>1, <2>1, <2>3, <2>4, <3>1 DEF Mapped
    <3>3. j \in 1 .. Len(StunServers) /\ k \in 1 .. Len(StunServers)
      BY <1>1, ServersAre
    <3>4. \A x \in {j, k} : natMap[StunServers[x]] = [host |-> a.host, port |-> a.port]
      BY <2>6, <3>1, <3>2
    <3> QED
      BY <3>1, <3>2, <3>3, <3>4 DEF SeenByTwo
  <2>10. PICK i : i = Ingress("IP_DIRECT", a.host, a.port, "STUN", nat)
    OBVIOUS
  <2>11. PICK nm, ds, h, p : nm = natMap /\ ds = declared /\ h = a.host /\ p = a.port
    OBVIOUS
  <2>12. /\ h \in Host /\ p \in Nat /\ p > 0
         /\ nat = "FULL_CONE" => isPubliclyRoutable(h) /\ SeenByTwo(nm, h, p)
    BY <2>6, <2>9, <2>11
  <2>13. Ingress("IP_DIRECT", h, p, "STUN", nat) \in Sound(nm, ds)
    BY <2>8, <2>12, StunSound
  <2>14. i \in Sound(natMap, declared)
    BY <2>10, <2>11, <2>13
  <2>15. StunIngress = <<i>>
    BY <1>3, <2>4, <2>7, <2>10 DEF StunIngress
  <2> QED
    BY <2>14, <2>15
<1> QED
  BY <1>2, <1>3

LEMMA ObservedSound ==
  ASSUME IngressInv PROVE Observed \in Sound(natMap, declared)
<1>1. PICK a : a = natMap[StunServers[1]]
  OBVIOUS
<1>2. a \in ServerAddr
  <2>1. natMap \in NatMaps
    BY DEF IngressInv
  <2>2. \A j \in 1 .. Len(StunServers) : natMap[StunServers[j]] \in ServerAddr
    BY <2>1, NatsAre
  <2> QED
    BY <1>1, <2>2, ServersAre
<1>3. PICK h, p : h = a.host /\ p = ClientPort
  OBVIOUS
<1>4. h \in Host /\ p \in Nat /\ p # 0
  BY <1>2, <1>3, AddrFields, IngressAssumption
<1>5. [a EXCEPT !.port = ClientPort] = [host |-> h, port |-> p]
  BY <1>2, <1>3 DEF ServerAddr
<1>6. \E i \in Sound(natMap, declared) : i = Direct([host |-> h, port |-> p], "OBSERVED")
  <2>1. "OBSERVED" \in {"URL", "UPNP", "OBSERVED", "NETIF"} /\ (p = 0 => "OBSERVED" \in {"NETIF", "URL"})
    BY <1>4
  <2>2. \A nm, ds : \E i \in Sound(nm, ds) : i = Direct([host |-> h, port |-> p], "OBSERVED")
    BY <1>4, <2>1, DirectSound
  <2> QED
    BY <2>2
<1> QED
  BY <1>1, <1>5, <1>6 DEF Observed

LEMMA PublicIPsAre ==
  ASSUME IngressInv, NEW h \in PublicIP
  PROVE  /\ Direct([host |-> h, port |-> 0], "URL") \in Sound(natMap, declared)
         /\ Direct([host |-> h, port |-> ListenPort], "UPNP") \in Sound(natMap, declared)
<1>1. h \in Host
  <2>1. natMap \in NatMaps
    BY DEF IngressInv
  <2>2. PICK s \in Range(StunServers) : h = natMap[s].host
    BY DEF PublicIP
  <2>3. natMap[s] \in ServerAddr
    BY <2>1, <2>2, NatsAre
  <2> QED
    BY <2>2, <2>3, AddrFields
<1>2. ListenPort \in Nat /\ ListenPort # 0 /\ 0 \in Nat
  BY IngressAssumption
<1>3. \A nm, ds : \E i \in Sound(nm, ds) : i = Direct([host |-> h, port |-> 0], "URL")
  <2>1. "URL" \in {"URL", "UPNP", "OBSERVED", "NETIF"} /\ "URL" \in {"NETIF", "URL"}
    OBVIOUS
  <2> QED
    BY <1>1, <1>2, <2>1, DirectSound
<1>4. \A nm, ds : \E i \in Sound(nm, ds) : i = Direct([host |-> h, port |-> ListenPort], "UPNP")
  <2>1. "UPNP" \in {"URL", "UPNP", "OBSERVED", "NETIF"} /\ (ListenPort = 0 => "UPNP" \in {"NETIF", "URL"})
    BY <1>2
  <2> QED
    BY <1>1, <1>2, <2>1, DirectSound
<1> QED
  BY <1>3, <1>4

LEMMA IngressInvStep == IngressInv /\ [IngressNext]_ingressVars => IngressInv'
<1> SUFFICES ASSUME IngressInv, [IngressNext]_ingressVars PROVE IngressInv'
  OBVIOUS
<1>1. /\ natMap \in NatMaps /\ own \in OwnAddresses /\ declared \in Declared
      /\ step \in Steps /\ serversAsked \in 0 .. Len(StunServers) /\ discoveries \in 0 .. MaxDiscoveries
      /\ candidates \in Seq(Sound(natMap, declared))
      /\ step # "idle" => Edges(candidates, declared)
      /\ listed \in Listing(own)
      /\ step \in {"url", "portmap", "report"} => Owned(candidates, listed.now)
      /\ step \in {"idle", "observe"} => serversAsked = 0 /\ mappings = <<>>
      /\ \A a \in stunAnswers : AnswerSound(a, serversAsked, natMap)
      /\ Mapped(mappings, serversAsked, step, natMap)
      /\ Truthful(cached, natMap, listed.cached, declared) /\ Truthful(ingressSets, natMap, listed.reported, declared)
  BY DEF IngressInv
<1>2. Len(StunServers) \in Nat /\ MaxDiscoveries \in Nat
  BY ServersAre, IngressAssumption
<1> HIDE DEF IngressInv
<1>4. CASE StartDiscovery
  <2>1. /\ step' = "observe" /\ candidates' = ConfigIngresses(declared) /\ discoveries < MaxDiscoveries
        /\ discoveries' = discoveries + 1 /\ serversAsked' = 0 /\ stunAnswers' = {} /\ mappings' = <<>>
        /\ UNCHANGED surroundings /\ cached' = cached /\ ingressSets' = ingressSets /\ listed' = listed
    BY <1>4 DEF StartDiscovery
  <2>2. candidates' \in Seq(Sound(natMap, declared)) /\ Edges(candidates', declared)
    <3>1. \A nm : ConfigIngresses(declared) \in Seq(Sound(nm, declared)) /\ Edges(ConfigIngresses(declared), declared)
      BY <1>1, DeclaredSound
    <3> QED
      BY <2>1, <3>1
  <2>3. Mapped(mappings', serversAsked', step', natMap)
    BY <2>1 DEF Mapped
  <2>4. step' \in Steps /\ serversAsked' \in 0 .. Len(StunServers) /\ discoveries' \in 0 .. MaxDiscoveries
    BY <1>1, <1>2, <2>1 DEF Steps
  <2>5. /\ step' \notin {"url", "portmap", "report"} /\ (\A a \in stunAnswers' : AnswerSound(a, serversAsked', natMap))
        /\ Truthful(cached', natMap, listed'.cached, declared) /\ Truthful(ingressSets', natMap, listed'.reported, declared)
        /\ listed' \in Listing(own)
    BY <1>1, <2>1
  <2> QED
    BY <2>1, <2>2, <2>3, <2>4, <2>5, IngressInvFacts
<1>5. CASE ObserveAddress
  <2>1. PICK is \in {<<>>, <<Observed>>} : Gather("observe", "stun", is) /\ listed' = listed
    BY <1>5 DEF ObserveAddress
  <2>2. is \in Seq(Sound(natMap, declared))
    <3>1. PICK D, i : D = Sound(natMap, declared) /\ i = Observed
      OBVIOUS
    <3>2. i \in D
      BY <3>1, ObservedSound
    <3>3. <<>> \in Seq(D) /\ <<i>> \in Seq(D)
      BY <3>2
    <3> QED
      BY <2>1, <3>1, <3>3
  <2>3. "observe" # "idle" /\ "stun" \in Steps /\ "stun" \notin {"idle", "observe", "await"} /\ "stun" \notin {"url", "portmap", "report"}
    BY DEF Steps
  <2> QED
    BY <1>1, <2>1, <2>2, <2>3, GatherKeepsInv
<1>6. CASE EndStun
  <2>1. PICK is : is = StunIngress
    OBVIOUS
  <2>2. is \in Seq(Sound(natMap, declared)) /\ Gather("stun", "interfaces", is) /\ listed' = listed
    BY <1>6, <2>1, StunIngressSound DEF EndStun
  <2>3. /\ "stun" # "idle" /\ "interfaces" \in Steps /\ "interfaces" \notin {"idle", "observe", "await"}
        /\ "interfaces" \notin {"url", "portmap", "report"}
    BY DEF Steps
  <2> QED
    BY <1>1, <2>2, <2>3, GatherKeepsInv
<1>7. CASE Interfaces
  <2>1. PICK hosts \in SUBSET own : /\ Gather("interfaces", "url", SetToSeq(EnumInterfaces(hosts)))
                                   /\ listed' = [listed EXCEPT !.now = hosts]
    BY <1>7 DEF Interfaces
  <2>2. PICK is : is = SetToSeq(EnumInterfaces(hosts))
    OBVIOUS
  <2>3. is \in Seq(Sound(natMap, declared)) /\ Owned(is, hosts)
    <3>1. \A nm, ds : /\ SetToSeq(EnumInterfaces(hosts)) \in Seq(Sound(nm, ds))
                       /\ Owned(SetToSeq(EnumInterfaces(hosts)), hosts)
      BY <1>1, InterfacesAre
    <3> QED
      BY <2>2, <3>1
  <2>4. /\ listed' \in Listing(own) /\ listed'.now = hosts
        /\ listed'.cached = listed.cached /\ listed'.reported = listed.reported
    BY <1>1, <2>1 DEF Listing
  <2>5. "interfaces" # "idle" /\ "url" \in Steps /\ "url" \notin {"idle", "observe", "await"}
    BY DEF Steps
  <2>6. Gather("interfaces", "url", is) /\ Owned(is, listed'.now)
    BY <2>1, <2>2, <2>3, <2>4
  <2> QED
    BY <2>3, <2>4, <2>5, <2>6, GatherKeepsInv
<1>8. CASE AskUrl
  <2>1. PICK is \in {<<>>} \cup {<<Direct([host |-> h, port |-> 0], "URL")>> : h \in PublicIP} :
          Gather("url", "portmap", is) /\ listed' = listed
    BY <1>8 DEF AskUrl
  <2>2. is \in Seq(Sound(natMap, declared))
    <3>1. CASE is = <<>>
      BY <3>1
    <3>2. CASE is # <<>>
      <4>1. PICK h \in PublicIP : is = <<Direct([host |-> h, port |-> 0], "URL")>>
        BY <2>1, <3>2
      <4>2. PICK i : i = Direct([host |-> h, port |-> 0], "URL")
        OBVIOUS
      <4>3. i \in Sound(natMap, declared) /\ is = <<i>>
        BY <4>1, <4>2, PublicIPsAre
      <4> QED
        BY <4>3
    <3> QED
      BY <3>1, <3>2
  <2>3. "url" # "idle" /\ "portmap" \in Steps /\ "portmap" \notin {"idle", "observe", "await"} /\ "url" \in {"url", "portmap", "report"}
    BY DEF Steps
  <2> QED
    BY <1>1, <2>1, <2>2, <2>3, GatherKeepsInv
<1>9. CASE MapPorts
  <2>1. PICK is \in {<<>>} \cup {<<Direct([host |-> h, port |-> ListenPort], "UPNP")>> : h \in PublicIP} :
          Gather("portmap", "report", is) /\ listed' = listed
    BY <1>9 DEF MapPorts
  <2>2. is \in Seq(Sound(natMap, declared))
    <3>1. CASE is = <<>>
      BY <3>1
    <3>2. CASE is # <<>>
      <4>1. PICK h \in PublicIP : is = <<Direct([host |-> h, port |-> ListenPort], "UPNP")>>
        BY <2>1, <3>2
      <4>2. PICK i : i = Direct([host |-> h, port |-> ListenPort], "UPNP")
        OBVIOUS
      <4>3. i \in Sound(natMap, declared) /\ is = <<i>>
        BY <4>1, <4>2, PublicIPsAre
      <4> QED
        BY <4>3
    <3> QED
      BY <3>1, <3>2
  <2>3. "portmap" # "idle" /\ "report" \in Steps /\ "report" \notin {"idle", "observe", "await"} /\ "portmap" \in {"url", "portmap", "report"}
    BY DEF Steps
  <2> QED
    BY <1>1, <2>1, <2>2, <2>3, GatherKeepsInv
<1>10. CASE AskTarget
  <2>1. PICK n : n = serversAsked + 1
    OBVIOUS
  <2>2. /\ step = "stun" /\ serversAsked < Len(StunServers) /\ Len(mappings) < 2 /\ serversAsked' = n
        /\ candidates' = candidates /\ mappings' = mappings /\ cached' = cached /\ ingressSets' = ingressSets
        /\ discoveries' = discoveries /\ UNCHANGED surroundings /\ listed' = listed
        /\ \/ step' = "stun" /\ stunAnswers' = stunAnswers
           \/ step' = "await" /\ stunAnswers' \in {stunAnswers, stunAnswers \cup {StunAnswer(n)}}
    BY <1>10, <2>1 DEF AskTarget
  <2>3. n \in 1 .. Len(StunServers) /\ n > serversAsked /\ n \in 0 .. Len(StunServers)
    BY <1>1, <1>2, <2>1, <2>2
  <2>4. \A a \in stunAnswers' : AnswerSound(a, n, natMap)
    <3>1. \A a \in stunAnswers : AnswerSound(a, n, natMap)
      BY <1>1, <2>3 DEF AnswerSound
    <3>2. AnswerSound(StunAnswer(n), n, natMap)
      BY <2>3 DEF AnswerSound, StunAnswer
    <3> QED
      BY <2>2, <3>1, <3>2
  <2>5. Mapped(mappings, n, step', natMap)
    <3>1. /\ mappings \in Seq(ServerAddr) /\ Len(mappings) \in Nat
          /\ Len(mappings) >= 1 => \E j \in 1 .. serversAsked : mappings[1] = natMap[StunServers[j]]
      BY <1>1 DEF Mapped
    <3>2. Len(mappings) >= 1 => \E j \in 1 .. n : mappings[1] = natMap[StunServers[j]] /\ j < n
      BY <1>1, <2>3, <3>1
    <3> QED
      BY <2>2, <2>3, <3>1, <3>2 DEF Mapped
  <2>6. step' \in Steps /\ step' \notin {"idle", "observe", "url", "portmap", "report"} /\ step # "idle"
    BY <2>2 DEF Steps
  <2>7. Mapped(mappings', serversAsked', step', natMap) /\ \A a \in stunAnswers' : AnswerSound(a, serversAsked', natMap)
    BY <2>2, <2>4, <2>5
  <2>8. /\ serversAsked' \in 0 .. Len(StunServers) /\ discoveries' \in 0 .. MaxDiscoveries
        /\ candidates' \in Seq(Sound(natMap, declared)) /\ Edges(candidates', declared) /\ listed' \in Listing(own)
        /\ Truthful(cached', natMap, listed'.cached, declared) /\ Truthful(ingressSets', natMap, listed'.reported, declared)
    BY <1>1, <2>2, <2>3, <2>6
  <2> HIDE DEF surroundings
  <2> QED
    BY <2>2, <2>6, <2>7, <2>8, IngressInvFacts
<1>11. CASE TargetTimesOut
  <2>1. /\ step = "await" /\ step' = "stun" /\ UNCHANGED surroundings
        /\ candidates' = candidates /\ serversAsked' = serversAsked /\ stunAnswers' = stunAnswers /\ mappings' = mappings
        /\ cached' = cached /\ ingressSets' = ingressSets /\ discoveries' = discoveries /\ listed' = listed
    BY <1>11 DEF TargetTimesOut
  <2>2. Mapped(mappings', serversAsked', step', natMap)
    <3>1. Mapped(mappings, serversAsked, "stun", natMap)
      BY <1>1, MappedStays
    <3> QED
      BY <2>1, <3>1
  <2>3. step' \in Steps /\ step' \notin {"idle", "observe", "url", "portmap", "report"} /\ step # "idle"
    BY <2>1 DEF Steps
  <2>4. /\ serversAsked' \in 0 .. Len(StunServers) /\ discoveries' \in 0 .. MaxDiscoveries
        /\ candidates' \in Seq(Sound(natMap, declared)) /\ Edges(candidates', declared) /\ listed' \in Listing(own)
        /\ Truthful(cached', natMap, listed'.cached, declared) /\ Truthful(ingressSets', natMap, listed'.reported, declared)
        /\ \A a \in stunAnswers' : AnswerSound(a, serversAsked', natMap)
    BY <1>1, <2>1, <2>3
  <2> HIDE DEF surroundings
  <2> QED
    BY <2>1, <2>2, <2>3, <2>4, IngressInvFacts
<1>12. CASE \E a \in stunAnswers : ReadAnswer(a)
  <2>1. PICK a \in stunAnswers : ReadAnswer(a)
    BY <1>12
  <2>2. /\ step = "await" /\ stunAnswers' \in {stunAnswers, stunAnswers \ {a}} /\ UNCHANGED surroundings
        /\ candidates' = candidates /\ serversAsked' = serversAsked
        /\ cached' = cached /\ ingressSets' = ingressSets /\ discoveries' = discoveries /\ listed' = listed
    BY <2>1 DEF ReadAnswer
  <2>3. \/ a.txid = serversAsked /\ mappings' = Append(mappings, a.seen) /\ step' = "stun"
        \/ mappings' = mappings /\ step' = step
    BY <2>1 DEF ReadAnswer, WorthReporting, IsAnswerTo
  <2>4. Mapped(mappings', serversAsked', step', natMap)
    <3>1. CASE mappings' = mappings /\ step' = step
      BY <1>1, <2>2, <3>1
    <3>2. CASE a.txid = serversAsked /\ mappings' = Append(mappings, a.seen) /\ step' = "stun"
      <4>1. PICK n, x, k : n = Len(mappings) /\ x = a.seen /\ k = serversAsked
        OBVIOUS
      <4>2. k \in 1 .. Len(StunServers) /\ k \in 1 .. k /\ x = natMap[StunServers[k]]
        BY <1>1, <1>2, <2>1, <3>2, <4>1 DEF AnswerSound
      <4>3. x \in ServerAddr
        BY <1>1, <4>2, NatsAre
      <4>4. /\ mappings \in Seq(ServerAddr) /\ n \in Nat /\ n <= 1
            /\ n >= 1 => \E j \in 1 .. k : mappings[1] = natMap[StunServers[j]] /\ j < k
        <5>1. mappings \in Seq(ServerAddr) /\ n \in Nat
          BY <1>1, <4>1 DEF Mapped
        <5> QED
          BY <1>1, <2>2, <4>1, <5>1 DEF Mapped
      <4>5. PICK ms : ms = Append(mappings, x)
        OBVIOUS
      <4>6. ms \in Seq(ServerAddr) /\ Len(ms) = n + 1 /\ ms[n + 1] = x /\ (n = 1 => ms[1] = mappings[1])
        BY <4>1, <4>3, <4>4, <4>5
      <4>7. Mapped(ms, k, "stun", natMap)
        <5>1. CASE n = 0
          BY <4>2, <4>6, <5>1 DEF Mapped
        <5>2. CASE n = 1
          <6>1. PICK j \in 1 .. k : mappings[1] = natMap[StunServers[j]] /\ j < k
            BY <4>4, <5>2
          <6>2. j # k /\ ms[1] = natMap[StunServers[j]] /\ ms[2] = natMap[StunServers[k]] /\ Len(ms) = 2
            BY <4>2, <4>6, <5>2, <6>1
          <6>3. \E i, m \in 1 .. k : i # m /\ ms[1] = natMap[StunServers[i]] /\ ms[2] = natMap[StunServers[m]]
            BY <4>2, <6>1, <6>2
          <6>4. \E i \in 1 .. k : ms[1] = natMap[StunServers[i]]
            BY <6>1, <6>2
          <6>5. ms \in Seq(ServerAddr) /\ "stun" # "await"
            BY <4>6
          <6>6. Len(ms) <= 2
            BY <6>2
          <6> QED
            BY <6>3, <6>4, <6>5, <6>6 DEF Mapped
        <5> QED
          BY <4>4, <5>1, <5>2
      <4> QED
        BY <2>2, <3>2, <4>1, <4>5, <4>7
    <3> QED
      BY <2>3, <3>1, <3>2
  <2>5. step' \in Steps /\ step' \notin {"idle", "observe", "url", "portmap", "report"} /\ step # "idle"
    BY <2>2, <2>3 DEF Steps
  <2>6. /\ serversAsked' \in 0 .. Len(StunServers) /\ discoveries' \in 0 .. MaxDiscoveries
        /\ candidates' \in Seq(Sound(natMap, declared)) /\ Edges(candidates', declared) /\ listed' \in Listing(own)
        /\ Truthful(cached', natMap, listed'.cached, declared) /\ Truthful(ingressSets', natMap, listed'.reported, declared)
        /\ \A b \in stunAnswers' : AnswerSound(b, serversAsked', natMap)
    BY <1>1, <2>2, <2>5
  <2> HIDE DEF surroundings
  <2> QED
    BY <2>2, <2>4, <2>5, <2>6, IngressInvFacts
<1>13. CASE Report
  <2>1. PICK all : all = WithPorts(Merge(candidates))
    OBVIOUS
  <2>2. /\ step = "report" /\ step' = "idle" /\ cached' = all
        /\ candidates' = <<>> /\ mappings' = <<>> /\ stunAnswers' = {} /\ serversAsked' = 0
        /\ UNCHANGED surroundings /\ discoveries' = discoveries
        /\ \/ ingressSets' = all /\ listed' = [listed EXCEPT !.cached = listed.now, !.reported = listed.now]
           \/ ingressSets' = ingressSets /\ listed' = [listed EXCEPT !.cached = listed.now]
    BY <1>13, <2>1 DEF Report
  <2>3. Truthful(all, natMap, listed.now, declared)
    <3>1. PICK nm, ds, ow, cs : nm = natMap /\ ds = declared /\ ow = listed.now /\ cs = candidates
      OBVIOUS
    <3>2. cs \in Seq(Sound(nm, ds)) /\ Edges(cs, ds) /\ Owned(cs, ow)
      BY <1>1, <2>2, <3>1
    <3>3. Truthful(WithPorts(Merge(cs)), nm, ow, ds)
      BY <3>2, MergeTruthful
    <3> QED
      BY <2>1, <3>1, <3>3
  <2>4. Mapped(mappings', serversAsked', step', natMap)
    BY <2>2 DEF Mapped
  <2>5. candidates' \in Seq(Sound(natMap, declared))
    BY <2>2
  <2>6. /\ listed' \in Listing(own) /\ listed'.cached = listed.now
        /\ \/ ingressSets' = all /\ listed'.reported = listed.now
           \/ ingressSets' = ingressSets /\ listed'.reported = listed.reported
    BY <1>1, <2>2 DEF Listing
  <2>7. /\ Truthful(cached', natMap, listed'.cached, declared)
        /\ Truthful(ingressSets', natMap, listed'.reported, declared)
    <3>1. Truthful(cached', natMap, listed'.cached, declared)
      BY <2>2, <2>3, <2>6
    <3>2. CASE ingressSets' = all /\ listed'.reported = listed.now
      BY <2>3, <3>1, <3>2
    <3>3. CASE ingressSets' = ingressSets /\ listed'.reported = listed.reported
      BY <1>1, <3>1, <3>3
    <3> QED
      BY <2>6, <3>2, <3>3
  <2>8. /\ step' \in Steps /\ serversAsked' \in 0 .. Len(StunServers) /\ discoveries' \in 0 .. MaxDiscoveries
        /\ step' = "idle" /\ step' \notin {"url", "portmap", "report"} /\ serversAsked' = 0 /\ mappings' = <<>>
        /\ \A b \in stunAnswers' : AnswerSound(b, serversAsked', natMap)
    BY <1>1, <1>2, <2>2 DEF Steps
  <2> HIDE DEF surroundings
  <2> QED
    BY <2>2, <2>4, <2>5, <2>6, <2>7, <2>8, IngressInvFacts
<1>14. CASE UNCHANGED ingressVars
  BY <1>1, <1>14, IngressInvFacts DEF ingressVars, surroundings
<1> QED
  BY <1>4, <1>5, <1>6, <1>7, <1>8, <1>9, <1>10, <1>11, <1>12, <1>13, <1>14 DEF IngressNext

LEMMA IngressInvShows == IngressInv => IngressTypeOK /\ StableIsStable /\ OwnAddressDialable
<1> SUFFICES ASSUME IngressInv PROVE IngressTypeOK /\ StableIsStable /\ OwnAddressDialable
  OBVIOUS
<1>1. /\ natMap \in NatMaps /\ step \in Steps /\ serversAsked \in 0 .. Len(StunServers) /\ discoveries \in 0 .. MaxDiscoveries
      /\ candidates \in Seq(Sound(natMap, declared)) /\ listed \in Listing(own)
      /\ \A a \in stunAnswers : AnswerSound(a, serversAsked, natMap)
      /\ Mapped(mappings, serversAsked, step, natMap)
      /\ Truthful(cached, natMap, listed.cached, declared) /\ Truthful(ingressSets, natMap, listed.reported, declared)
  BY DEF IngressInv
<1>2. Range(candidates) \cup cached \cup ingressSets \subseteq IngressRec
  <2>1. PICK D : D = Sound(natMap, declared)
    OBVIOUS
  <2>2. D \subseteq IngressRec /\ candidates \in Seq(D)
    BY <1>1, <2>1 DEF Sound
  <2>3. \A S : \A s \in Seq(S) : DOMAIN s = 1 .. Len(s) /\ \A k \in 1 .. Len(s) : s[k] \in S
    OBVIOUS
  <2>4. Range(candidates) \subseteq D
    BY <2>2, <2>3 DEF Range
  <2> QED
    BY <1>1, <2>2, <2>4 DEF Truthful
<1>3. IngressTypeOK
  <2>1. \A i \in Range(candidates) \cup cached \cup ingressSets :
          /\ <<i.host, i.port>> \in Host \X Nat /\ i.src \in DOMAIN sourcePriority
          /\ i.nat \in {"UNKNOWN", "FULL_CONE", "SYMMETRIC"}
    <3>1. \A i \in IngressRec : i.host \in Host /\ i.port \in Nat /\ i.src \in Sources /\ i.nat \in {"UNKNOWN", "FULL_CONE", "SYMMETRIC"}
      BY RecFields
    <3>2. DOMAIN sourcePriority = Sources
      BY DEF sourcePriority, Sources
    <3> QED
      BY <1>2, <3>1, <3>2
  <2>2. Len(mappings) <= 2 /\ Range(mappings) \subseteq Addr
    <3>1. mappings \in Seq(ServerAddr) /\ Len(mappings) <= 2
      BY <1>1 DEF Mapped
    <3>2. \A S : \A s \in Seq(S) : DOMAIN s = 1 .. Len(s) /\ \A k \in 1 .. Len(s) : s[k] \in S
      OBVIOUS
    <3>3. Range(mappings) \subseteq ServerAddr
      BY <3>1, <3>2 DEF Range
    <3> QED
      BY <3>1, <3>3, AddrFields
  <2>3. \A a \in stunAnswers : a.txid \in 1 .. serversAsked /\ a.seen \in Addr
    <3> SUFFICES ASSUME NEW a \in stunAnswers PROVE a.txid \in 1 .. serversAsked /\ a.seen \in Addr
      OBVIOUS
    <3>1. a.txid \in 1 .. serversAsked /\ a.seen = natMap[StunServers[a.txid]]
      BY <1>1 DEF AnswerSound
    <3>2. PICK k : k = a.txid
      OBVIOUS
    <3>3. k \in 1 .. Len(StunServers) /\ a.seen = natMap[StunServers[k]]
      BY <1>1, <3>1, <3>2, ServersAre
    <3>4. natMap[StunServers[k]] \in ServerAddr
      BY <1>1, <3>3, NatsAre
    <3> QED
      BY <3>1, <3>3, <3>4, AddrFields
  <2> QED
    BY <1>1, <2>1, <2>2, <2>3 DEF IngressTypeOK, Listing
<1>4. StableIsStable
  <2>1. DOMAIN StunServers = 1 .. Len(StunServers)
    BY ServersAre
  <2>2. \A i \in cached \cup ingressSets : i.src = "STUN" /\ i.nat = "FULL_CONE" => StableAt(i, natMap)
    BY <1>1 DEF Truthful
  <2>3. \A i : StableAt(i, natMap) =>
          /\ isPubliclyRoutable(i.host)
          /\ \E j, k \in DOMAIN StunServers :
               j # k /\ \A x \in {j, k} : natMap[StunServers[x]] = [host |-> i.host, port |-> i.port]
    BY <2>1 DEF StableAt, SeenByTwo
  <2> QED
    BY <2>2, <2>3 DEF StableIsStable
<1>5. OwnAddressDialable
  <2>1. \A set, hosts : Reached(set, hosts, declared) => Dialable(set, hosts)
    BY DEF Reached, Dialable, Edge, Reachable
  <2>2. /\ cached # {} => Reached(cached, listed.cached, declared)
        /\ ingressSets # {} => Reached(ingressSets, listed.reported, declared)
    BY <1>1 DEF Truthful
  <2> QED
    BY <2>1, <2>2 DEF OwnAddressDialable
<1> QED
  BY <1>3, <1>4, <1>5
(***************************************************************************)
(* The node's position.                                                    *)
(***************************************************************************)
(* Whatever is on its way to the controller's memory or its row is exact   *)
(* only where it is true.                                                  *)
True(g) == g.acc = "high" => g.at = "home"
LocInv ==
  /\ LocTypeOK
  /\ True(found) /\ \A g \in persisting : True(g)
  /\ \A g \in Geo : nodeGeo = <<g>> \/ row = <<g>> => True(g)

LEMMA ResolvesTrue == ASSUME NEW answered, abroad \in BOOLEAN PROVE Resolve(answered) \in Geo /\ True(Resolve(answered))
BY DEF Resolve, ByCloudflare, Nowhere, Geo, True

LEMMA LocInvInit == LocInit => LocInv
<1> SUFFICES ASSUME LocInit PROVE LocInv
  OBVIOUS
<1>1. Nowhere \in Geo /\ True(Nowhere)
  BY DEF Nowhere, Geo, True
<1>2. \A g \in Geo : <<g>> # <<>>
  OBVIOUS
<1>3. LocTypeOK
  <2>1. nodeGeo \in MaybeKnown /\ row \in MaybeKnown
    BY DEF LocInit, MaybeKnown
  <2>2. tries \in 0 .. FirstTries /\ locFaults \in 0 .. MaxLocFaults
    BY LocAssumption DEF LocInit
  <2>3. abroad \in BOOLEAN /\ knownCity \in BOOLEAN
    BY Zenon DEF LocInit
  <2>4. geoFlush \in BOOLEAN
    BY DEF LocInit
  <2>5. pages \subseteq Page
    BY DEF LocInit, Answers
  <2> QED
    BY <1>1, <2>1, <2>2, <2>3, <2>4, <2>5 DEF LocInit, LocTypeOK
<1>4. \A g \in Geo : ~(nodeGeo = <<g>> \/ row = <<g>>)
  BY <1>2 DEF LocInit
<1> QED
  BY <1>1, <1>3, <1>4 DEF LocInit, LocInv

LEMMA LocInvStep == LocInv /\ [LocNext]_locVars => LocInv'
<1> SUFFICES ASSUME LocInv, [LocNext]_locVars PROVE LocInv'
  OBVIOUS
<1>0. /\ FirstTries \in Nat /\ MaxLocFaults \in Nat
      /\ abroad \in BOOLEAN /\ knownCity \in BOOLEAN /\ pages \subseteq Page
      /\ reporter \in {"locate", "pause", "report", "wait"} /\ tries \in 0 .. FirstTries
      /\ found \in Geo /\ geoFlush \in BOOLEAN /\ master \in {"up", "down", "back"}
      /\ nodeGeo \in MaybeKnown /\ row \in MaybeKnown /\ persisting \subseteq Geo /\ locFaults \in 0 .. MaxLocFaults
  BY LocAssumption DEF LocInv, LocTypeOK
<1>1. /\ True(found) /\ \A g \in persisting : True(g)
      /\ \A g \in Geo : nodeGeo = <<g>> \/ row = <<g>> => True(g)
  BY DEF LocInv
<1>2. \A g \in Geo : <<g>> # <<>>
  OBVIOUS
<1>3. ASSUME /\ abroad' = abroad /\ knownCity' = knownCity /\ pages' \subseteq Page
             /\ reporter' \in {"locate", "pause", "report", "wait"} /\ tries' \in 0 .. FirstTries
             /\ found' \in Geo /\ geoFlush' \in BOOLEAN /\ master' \in {"up", "down", "back"}
             /\ nodeGeo' \in MaybeKnown /\ row' \in MaybeKnown /\ persisting' \subseteq Geo /\ locFaults' \in 0 .. MaxLocFaults,
             True(found'), \A g \in persisting' : True(g),
             \A g \in Geo : nodeGeo' = <<g>> \/ row' = <<g>> => True(g)
      PROVE  LocInv'
  BY <1>0, <1>3 DEF LocInv, LocTypeOK, True
<1> HIDE DEF LocInv
<1>4. ReportFails => reporter' \in {"locate", "pause", "report", "wait"} /\ tries' \in 0 .. FirstTries
  BY <1>0 DEF ReportFails
<1>5. LocFault => locFaults' \in 0 .. MaxLocFaults
  BY <1>0 DEF LocFault
<1>6. CASE Locate
  <2>1. found' = found \/ found' = Resolve(pages)
    BY <1>6 DEF Locate
  <2>2. found' \in Geo /\ True(found')
    BY <1>0, <1>1, <2>1, ResolvesTrue
  <2>3. reporter' \in {"locate", "pause", "report", "wait"} /\ tries' \in 0 .. FirstTries
    BY <1>0, <1>4, <1>6 DEF Locate
  <2> QED
    BY <1>0, <1>1, <1>3, <1>6, <2>2, <2>3 DEF Locate
<1>7. CASE ReportNodeGeo
  <2>1. reporter' \in {"locate", "pause", "report", "wait"} /\ tries' \in 0 .. FirstTries
    BY <1>0, <1>4, <1>7 DEF ReportNodeGeo
  <2>2. UNCHANGED <<abroad, knownCity, pages, found, geoFlush, master, row, locFaults>>
    BY <1>7 DEF ReportNodeGeo
  <2>3. \/ nodeGeo' = nodeGeo /\ persisting' = persisting
        \/ nodeGeo' = <<found>> /\ persisting' = persisting \cup {found}
    BY <1>7 DEF ReportNodeGeo
  <2>4. nodeGeo' \in MaybeKnown /\ persisting' \subseteq Geo
    <3>1. <<found>> \in MaybeKnown
      BY <1>0 DEF MaybeKnown
    <3>2. CASE nodeGeo' = nodeGeo /\ persisting' = persisting
      BY <1>0, <3>2
    <3>3. CASE nodeGeo' = <<found>> /\ persisting' = persisting \cup {found}
      BY <1>0, <3>1, <3>3
    <3> QED
      BY <2>3, <3>2, <3>3
  <2>5. \A g \in Geo : nodeGeo' = <<g>> \/ row' = <<g>> => True(g)
    <3> SUFFICES ASSUME NEW g \in Geo, nodeGeo' = <<g>> \/ row' = <<g>> PROVE True(g)
      OBVIOUS
    <3>1. CASE nodeGeo' = <<found>> /\ nodeGeo' = <<g>>
      <4>1. <<g>>[1] = <<found>>[1]
        BY <3>1
      <4>2. g = found
        BY <4>1
      <4> QED
        BY <1>1, <4>2
    <3>2. CASE nodeGeo = <<g>> \/ row = <<g>>
      BY <1>1, <3>2
    <3> QED
      BY <2>2, <2>3, <3>1, <3>2
  <2>6. \A g \in persisting' : True(g)
    BY <1>1, <2>3
  <2> QED
    BY <1>0, <1>1, <1>3, <2>1, <2>2, <2>4, <2>5, <2>6
<1>8. ASSUME NEW g \in persisting, PersistGeo(g) PROVE LocInv'
  <2>1. row' = <<g>> /\ row' \in MaybeKnown
    BY <1>0, <1>8 DEF PersistGeo, MaybeKnown
  <2> QED
    BY <1>0, <1>1, <1>3, <1>8, <2>1 DEF PersistGeo
<1>9. ASSUME NEW g \in persisting, PersistFails(g) PROVE LocInv'
  BY <1>0, <1>1, <1>3, <1>5, <1>9 DEF PersistFails
<1>10. CASE MasterStops
  BY <1>0, <1>1, <1>2, <1>3, <1>5, <1>10 DEF MasterStops, MaybeKnown
<1>11. CASE MasterStarts
  <2>1. nodeGeo' = row \/ nodeGeo' = <<>>
    BY <1>11 DEF MasterStarts
  <2>2. nodeGeo' \in MaybeKnown
    BY <1>0, <2>1 DEF MaybeKnown
  <2> QED
    BY <1>0, <1>1, <1>2, <1>3, <1>11, <2>1, <2>2 DEF MasterStarts
<1>12. CASE PagesChange
  <2>1. pages' \subseteq Page
    BY <1>12 DEF PagesChange, Answers
  <2> QED
    BY <1>0, <1>1, <1>3, <1>5, <1>12, <2>1 DEF PagesChange
<1>13. CASE OnReconnect
  BY <1>0, <1>1, <1>3, <1>13 DEF OnReconnect, Flushed
<1>14. CASE Unpause \/ TakeFlush \/ HalfHour
  BY <1>0, <1>1, <1>3, <1>14 DEF Unpause, TakeFlush, HalfHour
<1>15. CASE UNCHANGED locVars
  BY <1>0, <1>1, <1>3, <1>15 DEF locVars
<1> QED
  BY <1>6, <1>7, <1>8, <1>9, <1>10, <1>11, <1>12, <1>13, <1>14, <1>15 DEF LocNext, ReporterStep, MasterStep

LEMMA LocInvShows == LocInv => LocTypeOK /\ ExactIsTrue
<1> SUFFICES ASSUME LocInv, NEW k \in {nodeGeo, row} \ {<<>>}, k[1].acc = "high" PROVE k[1].at = "home"
  BY DEF LocInv, ExactIsTrue
<1>1. PICK g \in Geo : k = <<g>>
  BY DEF LocInv, LocTypeOK, MaybeKnown
<1>2. k[1] = g
  BY <1>1
<1> QED
  BY <1>1, <1>2 DEF LocInv, True

LEMMA ModBasics == ASSUME NEW n \in Nat \ {0}, NEW a \in Int
                   PROVE (a % n) \in 0 .. n - 1 /\ (a \div n) \in Int /\ a = n * (a \div n) + (a % n)
OBVIOUS
LEMMA Q1 == ASSUME NEW n \in Nat \ {0}, NEW d \in Int, NEW e \in Int, d = n * e, d < n, -n < d PROVE e = 0
<1>1. CASE e >= 1
  <2>1. n * e >= n
    BY <1>1
  <2> QED BY <2>1
<1>2. CASE e <= -1
  <2>1. n * e <= -n
    BY <1>2
  <2> QED BY <2>1
<1> QED BY <1>1, <1>2
LEMMA Q2 == ASSUME NEW n \in Int, NEW q \in Int, NEW p \in Int PROVE n * (q - p) = (n * q) - (n * p) /\ n * q \in Int /\ n * p \in Int
OBVIOUS
LEMMA ModUnique == ASSUME NEW n \in Nat \ {0}, NEW q \in Int, NEW r \in 0 .. n - 1, NEW a \in Int, a = (n * q) + r
                   PROVE (a % n) = r
<1>1. PICK p \in Int, s \in 0 .. n - 1 : a = (n * p) + s /\ s = (a % n)
  BY ModBasics
<1>2. s - r = n * (q - p)
  <2>1. PICK x \in Int, y \in Int : x = n * q /\ y = n * p
    BY Q2
  <2>2. x + r = y + s
    BY <1>1, <2>1
  <2>3. s - r = x - y
    BY <2>2
  <2>4. n * (q - p) = x - y
    BY <2>1, Q2
  <2> QED
    BY <2>3, <2>4
<1>3. s - r < n /\ -n < s - r
  OBVIOUS
<1>4. PICK d \in Int : d = s - r
  OBVIOUS
<1>5. PICK e \in Int : e = q - p
  OBVIOUS
<1>6. e = 0
  BY <1>2, <1>3, <1>4, <1>5, Q1
<1>7. s - r = 0
  BY <1>2, <1>5, <1>6
<1>8. s = r
  BY <1>7
<1>9. s = (a % n)
  BY <1>1
<1> QED
  BY <1>8, <1>9, Zenon
LEMMA ModDiff == ASSUME NEW n \in Nat \ {0}, NEW a \in Int, NEW b \in Int, (a % n) = (b % n)
                   PROVE ((a - b) % n) = 0
<1>1. PICK p \in Int : a = n * p + (a % n)
  BY ModBasics
<1>2. PICK q \in Int : b = n * q + (b % n)
  BY ModBasics
<1>3. PICK r \in 0 .. n - 1 : r = (a % n) /\ r = (b % n)
  BY ModBasics
<1>4. a - b = n * p - n * q
  BY <1>1, <1>2, <1>3
<1>5. a - b = n * (p - q) + 0
  BY <1>4, Q2
<1> QED
  BY <1>5, ModUnique
(***************************************************************************)
(* The mapping on the gateway.                                             *)
(***************************************************************************)
(* The port igdMap tries at an attempt, when no port is tried twice: the   *)
(* numbers of nextCandidateExternalPort see to that (GatewayAssumption).   *)
Span == DynHigh - DynLow + 1
Raw(k) == DynLow + ((InternalPort + k * PortStep) % Span)
Cand(k) == IF k = 0 THEN InternalPort ELSE Raw(k)

LEMMA RawPort == ASSUME NEW k \in Nat
                 PROVE  /\ Span \in Nat \ {0} /\ InternalPort + k * PortStep \in Nat
                        /\ ((InternalPort + k * PortStep) % Span) \in 0 .. Span - 1
                        /\ Raw(k) \in DynLow .. DynHigh /\ Raw(k) \in Nat \ {0}
<1>1. Span \in Nat \ {0} /\ DynHigh = DynLow + Span - 1 /\ DynLow \in Nat \ {0}
  BY GatewayAssumption DEF Span
<1>2. k * PortStep \in Nat
  BY GatewayAssumption
<1>3. InternalPort + k * PortStep \in Nat
  BY <1>2, GatewayAssumption
<1>4. PICK m \in Nat : m = InternalPort + k * PortStep
  BY <1>3
<1>5. (m % Span) \in 0 .. Span - 1
  BY <1>1, <1>4, ModBasics
<1>6. PICK r \in 0 .. Span - 1 : r = (m % Span)
  BY <1>5
<1>7. Raw(k) = DynLow + r
  BY <1>4, <1>6 DEF Raw
<1> QED
  BY <1>1, <1>3, <1>4, <1>5, <1>6, <1>7

LEMMA RawDistinct ==
  ASSUME NEW j \in Nat, NEW k \in 1 .. MaxAttempts - 1, j < k, Raw(j) = Raw(k)
  PROVE  FALSE
<1>1. PICK a \in Int, b \in Int : a = InternalPort + k * PortStep /\ b = InternalPort + j * PortStep
  BY RawPort, GatewayAssumption
<1>2. Span \in Nat \ {0} /\ (a % Span) \in Int /\ (b % Span) \in Int /\ DynLow \in Int
  BY <1>1, RawPort, ModBasics, GatewayAssumption
<1>3. DynLow + (a % Span) = DynLow + (b % Span)
  BY <1>1 DEF Raw
<1>4. (a % Span) = (b % Span)
  BY <1>2, <1>3
<1>5. ((a - b) % Span) = 0
  BY <1>2, <1>4, ModDiff
<1>6. PICK d \in 1 .. MaxAttempts - 1 : d = k - j
  BY GatewayAssumption
<1>7. a - b = d * PortStep
  <2>1. PICK x \in Int, y \in Int : x = k * PortStep /\ y = j * PortStep
    BY GatewayAssumption
  <2>2. d * PortStep = x - y
    BY <1>6, <2>1, Q2, GatewayAssumption
  <2> QED
    BY <1>1, <2>1, <2>2, GatewayAssumption
<1> QED
  BY <1>5, <1>6, <1>7, GatewayAssumption DEF Span

LEMMA RawNotInternal ==
  ASSUME NEW k \in 1 .. MaxAttempts - 1 PROVE Raw(k) # InternalPort
<1> SUFFICES ASSUME Raw(k) = InternalPort PROVE FALSE
  OBVIOUS
<1>1. k \in Nat /\ k * PortStep \in Int /\ InternalPort \in Nat /\ DynLow \in Nat
  BY GatewayAssumption
<1>2. PICK a \in Int, i \in 0 .. Span - 1 : a = InternalPort + k * PortStep /\ i = (a % Span) /\ InternalPort = DynLow + i
  <2>1. PICK a \in Nat : a = InternalPort + k * PortStep
    BY <1>1, RawPort
  <2>2. (a % Span) \in 0 .. Span - 1
    BY <1>1, <2>1, RawPort
  <2>3. InternalPort = DynLow + (a % Span)
    BY <2>1 DEF Raw
  <2> QED
    BY <2>1, <2>2, <2>3
<1>3. Span \in Nat \ {0} /\ (DynLow % Span) = 0
  BY RawPort, GatewayAssumption DEF Span
<1>4. (InternalPort % Span) = i
  <2>1. PICK q \in Int : DynLow = Span * q + (DynLow % Span)
    <3>1. (DynLow \div Span) \in Int /\ DynLow = Span * (DynLow \div Span) + (DynLow % Span)
      BY <1>1, <1>3, ModBasics
    <3> QED
      BY <3>1
  <2>2. PICK x \in Int : x = Span * q
    BY <1>3, Q2
  <2>3. DynLow = x
    BY <1>1, <1>3, <2>1, <2>2
  <2>4. InternalPort = Span * q + i
    BY <1>2, <2>2, <2>3
  <2> QED
    BY <1>1, <1>3, <2>4, ModUnique
<1>5. ((a - InternalPort) % Span) = 0
  BY <1>1, <1>2, <1>3, <1>4, ModDiff
<1>6. a - InternalPort = k * PortStep
  <2>1. PICK x \in Int : x = k * PortStep
    BY <1>1
  <2> QED
    BY <1>1, <1>2, <2>1
<1> QED
  BY <1>5, <1>6, GatewayAssumption DEF Span

LEMMA CandsDistinct ==
  ASSUME NEW j \in 0 .. MaxAttempts - 1, NEW k \in 0 .. MaxAttempts - 1, Cand(j) = Cand(k)
  PROVE  j = k
<1>1. ASSUME NEW a \in 0 .. MaxAttempts - 1, NEW b \in 0 .. MaxAttempts - 1, a < b, Cand(a) = Cand(b)
      PROVE  FALSE
  <2>1. b \in 1 .. MaxAttempts - 1 /\ Cand(b) = Raw(b) /\ a \in Nat
    BY <1>1, GatewayAssumption DEF Cand
  <2>2. CASE a = 0
    BY <1>1, <2>1, <2>2, RawNotInternal DEF Cand
  <2>3. CASE a # 0
    BY <1>1, <2>1, <2>3, RawDistinct DEF Cand
  <2> QED
    BY <2>2, <2>3
<1> QED
  BY <1>1, GatewayAssumption

LEMMA NextCandidate ==
  ASSUME NEW k \in Nat, k + 1 < MaxAttempts
  PROVE  nextCandidateExternalPort(Cand(k), k + 1) = Cand(k + 1) /\ Cand(k + 1) \in ExtPorts
<1>1. k + 1 \in 1 .. MaxAttempts - 1 /\ k \in 0 .. MaxAttempts - 1 /\ k + 1 \in 0 .. MaxAttempts - 1 /\ k + 1 # 0
  BY GatewayAssumption
<1>2. Raw(k + 1) # InternalPort /\ Cand(k + 1) = Raw(k + 1)
  BY <1>1, RawNotInternal DEF Cand
<1>3. Raw(k + 1) # Cand(k)
  BY <1>1, <1>2, CandsDistinct
<1>4. nextCandidateExternalPort(Cand(k), k + 1) = Raw(k + 1)
  BY <1>2, <1>3 DEF nextCandidateExternalPort, Raw, Span
<1>5. Raw(k + 1) \in ExtPorts
  BY <1>1, RawPort DEF ExtPorts
<1> QED
  BY <1>2, <1>4, <1>5

(* A request or an answer of an exchange there has been.  Time is asked    *)
(* for unless a mapping is being removed, and then none is held again; so  *)
(* the gateway's table keeps what is held, and an answer that grants time  *)
(* names a port granted for a time in its own exchange.                    *)
GwOp == [kind : {"none", "map", "refresh", "unmap"}, tries : 0 .. MaxAttempts, ext : ExtPorts \cup {0}, life : Lease,
         last : BOOLEAN]
GwTypes ==
  /\ speaks \in Datagrams \cup {"igd"} /\ portsTaken \subseteq ExtPorts /\ mine \subseteq ExtPorts \ portsTaken
  /\ operation \in GwOp /\ xchg \in 0 .. MaxExchanges
  /\ \A r \in requests : r.x \in 1 .. xchg /\ r.ext \in ExtPorts \cup {0} /\ r.life \in Lease
  /\ \A r \in responses : r.x \in 1 .. xchg /\ r.ext \in ExtPorts \cup {0} /\ r.life \in Lease
  /\ mapped.ext \in ExtPorts \cup {0} /\ mapped.life \in Lease /\ gwFaults \in 0 .. MaxGwFaults
GwOpOk ==
  /\ operation.kind = "none" => operation = NoOp
  /\ operation # NoOp => xchg >= 1
  /\ operation.kind = "map" => mapped = NoneHeld
  /\ ~operation.last => operation.kind = "map" /\ xchg < MaxExchanges
  /\ operation.kind \in {"map", "refresh"} => operation.life = 1
  /\ operation.kind = "refresh" => operation.ext \in ExtPorts
  /\ operation.kind = "unmap" => mapped.ext # 0
Ending == operation.kind = "unmap" \/ mapped = DoneWith
GwHeldOk ==
  /\ mapped.ext # 0 => mapped.life = 1
  /\ mapped.ext # 0 /\ ~forgot /\ operation.kind # "unmap" => mine # {}
GwMsgOk ==
  /\ \A r \in requests : r.life = 0 => Ending
  /\ \A r \in responses : r.life = 1 => r.ext # 0 /\ [x |-> r.x, ext |-> r.ext] \in grants
  /\ \A r \in responses : r.life = 1 /\ ~forgot => mine # {} \/ Ending
  /\ requests # {} \/ responses # {} => speaks \in Datagrams
GwTried ==
  operation.kind = "map" =>
    IF speaks = "igd"
    THEN /\ operation.tries \in 0 .. MaxAttempts - 1 /\ operation.ext = Cand(operation.tries)
         /\ \A p \in conflicts : \E j \in 0 .. operation.tries - 1 : p = Cand(j)
    ELSE conflicts = {}
GwInv == GwTypes /\ GwOpOk /\ GwHeldOk /\ GwMsgOk /\ GwTried

LEMMA ExtPortsNotZero == 0 \notin ExtPorts /\ InternalPort \in ExtPorts /\ TakenPorts \subseteq ExtPorts
BY GatewayAssumption DEF ExtPorts

LEMMA NoOpTyped == NoOp \in GwOp /\ NoOp.kind = "none" /\ NoOp.tries = 0 /\ NoOp.life = 0 /\ NoOp.last = TRUE
BY GatewayAssumption DEF NoOp, GwOp, Lease

LEMMA HeldDistinct == /\ NoneHeld.ext = 0 /\ NoneHeld.life = 0 /\ DoneWith.ext = 0 /\ DoneWith.life = 1
                      /\ NoneHeld # DoneWith
BY DEF NoneHeld, DoneWith

LEMMA GwInvShows == GwInv => GatewayTypeOK /\ RefreshKeeps
<1> SUFFICES ASSUME GwInv PROVE GatewayTypeOK /\ RefreshKeeps
  OBVIOUS
<1>1. GatewayTypeOK
  BY DEF GwInv, GwTypes, GatewayTypeOK, GwOp
<1>2. operation.kind = "map" => operation.ext \notin conflicts
  <2> SUFFICES ASSUME operation.kind = "map", operation.ext \in conflicts PROVE FALSE
    OBVIOUS
  <2>1. speaks = "igd"
    BY DEF GwInv, GwTried
  <2>2. PICK t \in 0 .. MaxAttempts - 1 : t = operation.tries /\ operation.ext = Cand(t)
    BY <2>1 DEF GwInv, GwTried
  <2>3. PICK j \in 0 .. t - 1 : operation.ext = Cand(j)
    BY <2>1, <2>2 DEF GwInv, GwTried
  <2>4. j \in 0 .. MaxAttempts - 1 /\ j # t
    BY <2>2, <2>3, GatewayAssumption
  <2> QED
    BY <2>2, <2>3, <2>4, CandsDistinct
<1> QED
  BY <1>1, <1>2 DEF GwInv, GwHeldOk, RefreshKeeps

LEMMA GwInvInit == GatewayInit => GwInv
<1> SUFFICES ASSUME GatewayInit PROVE GwInv
  OBVIOUS
<1>1. GwTypes
  BY NoOpTyped, HeldDistinct, ExtPortsNotZero, GatewayAssumption DEF GatewayInit, GwTypes, Lease, Datagrams
<1> QED
  BY <1>1, NoOpTyped, HeldDistinct DEF GatewayInit, GwInv, GwOpOk, GwHeldOk, GwMsgOk, GwTried

(* An operation that ends leaves the mapping as it was, done with, or as   *)
(* the gateway granted it.                                                 *)
GrantedAs(ext) == \E g \in grants' : g.ext = ext /\ (speaks # "natpmp" => g.x = xchg)
GwGain == mapped' # mapped /\ mapped'.ext # 0 => GrantedAs(mapped'.ext)

LEMMA GwFinishes ==
  ASSUME GwInv, operation' = NoOp, UNCHANGED <<speaks, portsTaken, xchg, forgot>>,
         requests' \subseteq requests, responses' \subseteq responses,
         grants \subseteq grants', mine' \subseteq ExtPorts \ portsTaken, gwFaults' \in 0 .. MaxGwFaults,
         \/ mapped' = DoneWith
         \/ mapped' = mapped /\ operation.kind # "unmap" /\ (mine # {} => mine' # {})
         \/ /\ operation.kind = "map" /\ mapped'.ext \in ExtPorts /\ mapped'.life = 1
            /\ mine' # {} \/ forgot
            /\ GrantedAs(mapped'.ext)
  PROVE  GwInv' /\ GwGain
<1>0. GwTypes /\ GwOpOk /\ GwHeldOk /\ GwMsgOk /\ GwTried
  BY DEF GwInv
<1>1. GwTypes'
  BY <1>0, NoOpTyped, HeldDistinct DEF GwTypes, Lease
<1>2. GwOpOk'
  BY NoOpTyped DEF GwOpOk
<1>3. GwHeldOk'
  BY <1>0, HeldDistinct, NoOpTyped DEF GwHeldOk
<1>4. GwMsgOk'
  <2>1. CASE mapped' = DoneWith
    BY <1>0, <2>1 DEF GwMsgOk, Ending
  <2>2. CASE mapped' = mapped /\ operation.kind # "unmap" /\ (mine # {} => mine' # {})
    BY <1>0, <2>2 DEF GwMsgOk, Ending
  <2>3. CASE operation.kind = "map" /\ (mine' # {} \/ forgot)
    <3>1. ~Ending
      BY <1>0, <2>3, HeldDistinct DEF GwOpOk, Ending
    <3>2. \A r \in requests : r.life # 0
      BY <1>0, <3>1 DEF GwMsgOk
    <3> QED
      BY <1>0, <2>3, <3>2 DEF GwMsgOk
  <2> QED
    BY <2>1, <2>2, <2>3
<1>5. GwTried'
  BY NoOpTyped DEF GwTried
<1>6. GwGain
  BY HeldDistinct DEF GwGain
<1> QED
  BY <1>1, <1>2, <1>3, <1>4, <1>5, <1>6 DEF GwInv

(* The second round of Map is an exchange of its own.                      *)
LEMMA GwAgain ==
  ASSUME GwInv, ~operation.last, SecondRound, UNCHANGED <<speaks, portsTaken, forgot>>,
         requests' \subseteq requests, responses' \subseteq responses,
         grants \subseteq grants', mine \subseteq mine', mine' \subseteq ExtPorts \ portsTaken,
         gwFaults' \in 0 .. MaxGwFaults
  PROVE  GwInv' /\ GwGain
<1>0. GwTypes /\ GwOpOk /\ GwHeldOk /\ GwMsgOk /\ GwTried
  BY DEF GwInv
<1>1. /\ operation.kind = "map" /\ xchg < MaxExchanges /\ operation.life = 1 /\ mapped = NoneHeld
      /\ operation \in GwOp /\ xchg \in 0 .. MaxExchanges /\ MaxExchanges \in Nat
      /\ MaxAttempts \in Nat /\ MaxAttempts >= 1
  BY <1>0, GatewayAssumption DEF GwOpOk, GwTypes
<1>2. PICK e \in ExtPorts \cup {0} : /\ e = IF speaks = "igd" THEN InternalPort ELSE 0
                                     /\ operation' = [operation EXCEPT !.tries = 0, !.last = TRUE, !.ext = e]
  BY ExtPortsNotZero DEF SecondRound
<1>3. /\ operation' \in GwOp /\ operation'.kind = "map" /\ operation'.tries = 0 /\ operation'.life = 1
      /\ operation'.last = TRUE /\ operation'.ext = e
  <2>0. PICK t \in 0 .. MaxAttempts : t = 0
    BY <1>1
  <2>01. PICK l \in BOOLEAN : l = TRUE
    OBVIOUS
  <2>1. t = 0 /\ l = TRUE /\ operation' = [operation EXCEPT !.tries = t, !.last = l, !.ext = e]
    BY <1>2, <2>0, <2>01
  <2>2. /\ operation' \in GwOp /\ operation'.kind = operation.kind /\ operation'.tries = t
        /\ operation'.life = operation.life /\ operation'.ext = e
    BY <1>1, <2>1 DEF GwOp
  <2>3. operation'.last = l
    BY <1>1, <2>1 DEF GwOp
  <2> QED
    BY <1>1, <2>1, <2>2, <2>3
<1>4. xchg' = xchg + 1 /\ xchg' \in 1 .. MaxExchanges /\ conflicts' = {} /\ mapped' = mapped
  BY <1>1 DEF SecondRound
<1>5. GwTypes'
  <2>1. \A r \in requests' : r.x \in 1 .. xchg' /\ r.ext \in ExtPorts \cup {0} /\ r.life \in Lease
    BY <1>0, <1>1, <1>4 DEF GwTypes
  <2>2. \A r \in responses' : r.x \in 1 .. xchg' /\ r.ext \in ExtPorts \cup {0} /\ r.life \in Lease
    BY <1>0, <1>1, <1>4 DEF GwTypes
  <2> QED
    BY <1>0, <1>3, <1>4, <2>1, <2>2 DEF GwTypes
<1>6. GwOpOk'
  BY <1>1, <1>3, <1>4 DEF GwOpOk
<1>7. GwHeldOk'
  BY <1>0, <1>1, <1>4, HeldDistinct DEF GwHeldOk
<1>8. GwMsgOk'
  BY <1>0, <1>1, <1>3, <1>4 DEF GwMsgOk, Ending
<1>9. GwTried'
  BY <1>1, <1>2, <1>3, <1>4 DEF GwTried, Cand
<1> QED
  BY <1>4, <1>5, <1>6, <1>7, <1>8, <1>9 DEF GwInv, GwGain

LEMMA GwInvStep == GwInv /\ [GatewayNext]_gatewayVars => GwInv' /\ GwGain
<1> SUFFICES ASSUME GwInv, [GatewayNext]_gatewayVars PROVE GwInv' /\ GwGain
  OBVIOUS
<1>0. GwTypes /\ GwOpOk /\ GwHeldOk /\ GwMsgOk /\ GwTried
  BY DEF GwInv
<1>00. /\ operation \in GwOp /\ xchg \in 0 .. MaxExchanges /\ gwFaults \in 0 .. MaxGwFaults
       /\ mapped.ext \in ExtPorts \cup {0} /\ mapped.life \in Lease
       /\ mine \subseteq ExtPorts \ portsTaken
       /\ MaxRetries \in Nat \ {0} /\ MaxAttempts \in Nat /\ MaxRetries <= MaxAttempts
       /\ MaxGwFaults \in Nat /\ MaxExchanges \in Nat
  BY <1>0, GatewayAssumption DEF GwTypes
<1>1. GwFault => gwFaults' \in 0 .. MaxGwFaults
  BY <1>00 DEF GwFault
<1>2. ASSUME NEW kind \in {"map", "refresh", "unmap"}, NEW ext \in ExtPorts \cup {0}, NEW life \in Lease,
             BeginOperation(kind, ext, life),
             kind = "map" => mapped = NoneHeld /\ ext = InternalPort,
             kind = "map" => xchg + 1 < MaxExchanges,
             kind # "map" => mapped.ext # 0,
             kind # "unmap" => life = 1 /\ ext \in ExtPorts
      PROVE  GwInv' /\ GwGain
  <2>1. /\ operation' = [kind |-> kind, tries |-> 0, ext |-> ext, life |-> life, last |-> kind # "map"]
        /\ operation = NoOp /\ xchg' = xchg + 1 /\ conflicts' = {} /\ xchg < MaxExchanges
        /\ UNCHANGED <<speaks, portsTaken, mine, requests, responses, mapped, grants, forgot, gwFaults>>
    BY <1>2 DEF BeginOperation
  <2>2. /\ operation' \in GwOp /\ operation'.kind = kind /\ operation'.tries = 0 /\ operation'.ext = ext
        /\ operation'.life = life /\ operation'.last = (kind # "map")
    <3>1. PICK l \in BOOLEAN : l = (kind # "map")
      OBVIOUS
    <3>2. operation' = [kind |-> kind, tries |-> 0, ext |-> ext, life |-> life, last |-> l]
      BY <2>1, <3>1
    <3>3. /\ operation' \in GwOp /\ operation'.kind = kind /\ operation'.tries = 0 /\ operation'.ext = ext
          /\ operation'.life = life
      BY <1>00, <3>2 DEF GwOp
    <3>4. operation'.last = l
      BY <3>2
    <3> QED
      BY <3>1, <3>3, <3>4
  <2>3. xchg' \in 0 .. MaxExchanges
    BY <1>00, <2>1
  <2>4. GwTypes'
    <3>1. \A r \in requests' : r.x \in 1 .. xchg' /\ r.ext \in ExtPorts \cup {0} /\ r.life \in Lease
      BY <1>0, <1>00, <2>1 DEF GwTypes
    <3>2. \A r \in responses' : r.x \in 1 .. xchg' /\ r.ext \in ExtPorts \cup {0} /\ r.life \in Lease
      BY <1>0, <1>00, <2>1 DEF GwTypes
    <3> QED
      BY <1>0, <2>1, <2>2, <2>3, <3>1, <3>2 DEF GwTypes
  <2>5. GwOpOk'
    <3>1. ~operation'.last => kind = "map"
      BY <2>2
    <3>2. /\ operation'.kind # "none" /\ xchg' >= 1
          /\ kind = "map" => mapped' = NoneHeld /\ xchg' < MaxExchanges
          /\ kind # "map" => mapped'.ext # 0
      BY <1>2, <1>00, <2>1, <2>2
    <3>3. /\ operation'.kind = kind /\ operation'.life = life /\ operation'.ext = ext
      BY <2>2
    <3> QED
      BY <1>2, <3>1, <3>2, <3>3 DEF GwOpOk
  <2>6. GwHeldOk'
    BY <1>0, <2>1, <2>2, NoOpTyped DEF GwHeldOk
  <2>7. GwMsgOk'
    <3>1. mapped # DoneWith /\ ~Ending
      BY <1>2, <2>1, HeldDistinct, NoOpTyped DEF Ending
    <3>2. \A r \in requests : r.life # 0
      BY <1>0, <3>1 DEF GwMsgOk
    <3>3. \A r \in responses : r.life = 1 /\ ~forgot => mine # {}
      BY <1>0, <3>1 DEF GwMsgOk
    <3> QED
      BY <1>0, <2>1, <3>2, <3>3 DEF GwMsgOk
  <2>8. GwTried'
    <3>1. kind = "map" => MaxAttempts - 1 \in Nat /\ ext = Cand(0)
      BY <1>2, <1>00 DEF Cand
    <3> QED
      BY <1>00, <2>1, <2>2, <3>1 DEF GwTried
  <2> QED
    BY <2>1, <2>4, <2>5, <2>6, <2>7, <2>8 DEF GwInv, GwGain
<1>3. CASE Map
  BY <1>2, <1>3, ExtPortsNotZero DEF Map, Lease
<1>4. CASE Refresh
  <2>1. mapped.life = 1 /\ mapped.ext \in ExtPorts
    BY <1>0, <1>00, <1>4 DEF Refresh, GwHeldOk
  <2> QED
    BY <1>2, <1>00, <1>4, <2>1 DEF Refresh
<1>5. CASE Unmap
  <2>1. PICK ext \in ExtPorts \cup {0} : BeginOperation("unmap", ext, 0)
    BY <1>00, <1>5 DEF Unmap
  <2> QED
    BY <1>2, <1>5, <2>1 DEF Unmap, Lease
<1>6. CASE SendRequest
  <2>1. /\ UNCHANGED <<speaks, portsTaken, mine, xchg, responses, mapped, grants, conflicts, forgot, gwFaults>>
        /\ requests' = requests \cup {RequestSent} /\ operation # NoOp /\ speaks \in Datagrams
        /\ operation' = [operation EXCEPT !.tries = @ + 1] /\ operation.tries < MaxRetries
    BY <1>6 DEF SendRequest
  <2>2. /\ operation' \in GwOp /\ operation'.kind = operation.kind /\ operation'.ext = operation.ext
        /\ operation'.life = operation.life /\ operation'.tries = operation.tries + 1
        /\ operation'.last = operation.last
    BY <1>00, <2>1 DEF GwOp
  <2>3. operation'# NoOp
    BY <1>00, <2>2, NoOpTyped DEF GwOp
  <2>4. /\ RequestSent.x = xchg /\ RequestSent.ext = operation.ext /\ RequestSent.life = operation.life
        /\ xchg \in 1 .. xchg /\ operation.ext \in ExtPorts \cup {0} /\ operation.life \in Lease
    BY <1>0, <1>00, <2>1 DEF RequestSent, GwOp, GwOpOk
  <2>5. GwTypes'
    BY <1>0, <2>1, <2>2, <2>4 DEF GwTypes
  <2>6. operation.life = 0 => operation.kind = "unmap"
    BY <1>0, <1>00, <2>1 DEF GwOpOk, GwOp
  <2>7. GwMsgOk'
    BY <1>0, <2>1, <2>2, <2>4, <2>6 DEF GwMsgOk, Ending
  <2>8. GwOpOk' /\ GwHeldOk'
    BY <1>0, <2>1, <2>2, <2>3 DEF GwOpOk, GwHeldOk
  <2>9. GwTried'
    BY <1>0, <2>1, <2>2 DEF GwTried, Datagrams
  <2> QED
    BY <2>1, <2>5, <2>7, <2>8, <2>9 DEF GwInv, GwGain
\* What fails leaves the mapping as it was, or done with, or is tried in a second round.
<1>7. ASSUME Fails, UNCHANGED <<speaks, portsTaken, forgot>>, mine \subseteq mine', mine' \subseteq ExtPorts \ portsTaken,
             requests' \subseteq requests, responses' \subseteq responses, grants \subseteq grants',
             gwFaults' \in 0 .. MaxGwFaults
      PROVE  GwInv' /\ GwGain
  <2>1. CASE ~operation.last /\ SecondRound
    BY <1>7, <2>1, GwAgain
  <2>2. CASE Finish(IF operation.kind = "unmap" THEN DoneWith ELSE mapped)
    <3>1. /\ operation' = NoOp /\ (mapped' = DoneWith \/ (mapped' = mapped /\ operation.kind # "unmap"))
          /\ xchg' = xchg
      BY <2>2 DEF Finish
    <3>2. mine # {} => mine' # {}
      BY <1>7
    <3> QED
      BY <1>7, <3>1, <3>2, GwFinishes
  <2> QED
    BY <1>7, <2>1, <2>2 DEF Fails
<1>8. CASE ExchangeFails
  BY <1>00, <1>7, <1>8 DEF ExchangeFails
<1>9. CASE GivenUp
  BY <1>00, <1>1, <1>7, <1>9 DEF GivenUp
<1>10. CASE NoDeviceFound
  BY <1>00, <1>7, <1>10 DEF NoDeviceFound
<1>11. ASSUME NEW r \in responses, ReadResponse(r) PROVE GwInv' /\ GwGain
  <2>1. /\ UNCHANGED <<speaks, portsTaken, mine, requests, grants, forgot, gwFaults>>
        /\ responses' \subseteq responses /\ operation.tries > 0
    BY <1>11 DEF ReadResponse
  <2>2. CASE Fails
    BY <1>00, <1>7, <2>1, <2>2
  <2>3. CASE Succeeds(r.ext, r.life) /\ (speaks = "pcp" => NonceEchoed(r)) /\ speaks \in Datagrams /\ ~Fails
    <3>1. r.ext \in ExtPorts \cup {0} /\ r.life \in Lease /\ (speaks # "natpmp" => r.x = xchg)
      BY <1>0, <2>3 DEF NonceEchoed, GwTypes, Datagrams
    <3>2. operation # NoOp
      BY <2>1, NoOpTyped
    <3>3. operation.kind \in {"map", "refresh", "unmap"}
      BY <1>0, <1>00, <3>2 DEF GwOpOk, GwOp
    <3>4. /\ mine' \subseteq ExtPorts \ portsTaken /\ requests' \subseteq requests /\ grants \subseteq grants'
          /\ gwFaults' \in 0 .. MaxGwFaults
      BY <1>00, <2>1
    <3>5. CASE operation.kind = "map"
      <4>1. operation.life = 1 /\ ~Ending
        BY <1>0, <3>5, HeldDistinct DEF GwOpOk, Ending
      <4>2. r.life = 1 /\ operation' = NoOp /\ mapped' = [ext |-> r.ext, life |-> 1] /\ xchg' = xchg
        BY <2>3, <3>1, <3>5, <4>1 DEF Succeeds, validateGrantedTTL, Finish, Lease
      <4>3. mapped'.ext = r.ext /\ mapped'.life = 1
        BY <4>2
      <4>4. mine' # {} \/ forgot
        BY <1>0, <2>1, <4>1, <4>2 DEF GwMsgOk
      <4>5. r.ext \in ExtPorts /\ [x |-> r.x, ext |-> r.ext] \in grants'
        BY <1>0, <2>1, <3>1, <4>2 DEF GwMsgOk
      <4>6. GrantedAs(mapped'.ext)
        BY <3>1, <4>3, <4>5 DEF GrantedAs
      <4>7. mapped'.ext \in ExtPorts
        BY <4>3, <4>5
      <4> QED
        BY <2>1, <3>4, <3>5, <4>2, <4>3, <4>4, <4>6, <4>7, GwFinishes
    <3>6. CASE operation.kind # "map"
      <4>1. operation' = NoOp /\ (mapped' = DoneWith \/ (mapped' = mapped /\ operation.kind # "unmap")) /\ xchg' = xchg
        BY <2>3, <3>3, <3>6 DEF Succeeds, Finish
      <4> QED
        BY <2>1, <3>4, <4>1, GwFinishes
    <3> QED
      BY <3>5, <3>6
  <2>4. speaks \in Datagrams
    BY <1>0 DEF GwMsgOk
  <2> QED
    BY <1>11, <2>2, <2>3, <2>4 DEF ReadResponse, OuterAddressUntold, Believed
<1>12. CASE AddPortMapping
  <2>1. /\ UNCHANGED <<speaks, portsTaken, requests, responses, forgot, gwFaults>>
        /\ speaks = "igd" /\ operation.kind \in {"map", "refresh"}
        /\ operation.life = 1 /\ operation.ext \in ExtPorts
    <3>1. /\ UNCHANGED <<speaks, portsTaken, requests, responses, forgot, gwFaults>>
          /\ speaks = "igd" /\ operation.kind \in {"map", "refresh"} /\ operation.life = 1
      BY <1>0, <1>12 DEF AddPortMapping, GwOpOk
    <3>2. operation.ext \in ExtPorts
      <4>1. CASE operation.kind = "refresh"
        BY <1>0, <4>1 DEF GwOpOk
      <4>2. CASE operation.kind = "map"
        <5>1. PICK k \in 0 .. MaxAttempts - 1 : operation.ext = Cand(k)
          BY <1>0, <3>1, <4>2 DEF GwTried
        <5> QED
          BY <1>00, <5>1, RawPort, ExtPortsNotZero DEF Cand, ExtPorts
      <4> QED
        BY <3>1, <4>1, <4>2
    <3> QED
      BY <3>1, <3>2
  <2>4. CASE NotAdded /\ Fails
    BY <1>00, <1>7, <2>1, <2>4 DEF NotAdded
  <2>2. CASE ~InConflict(operation.ext) /\ Added /\ (Succeeds(operation.ext, operation.life) \/ Fails)
    <3>1. /\ mine' = mine \cup {operation.ext} /\ grants' = grants \cup {[x |-> xchg, ext |-> operation.ext]}
          /\ Succeeds(operation.ext, operation.life) \/ Fails
      BY <2>2 DEF Added
    <3>2. /\ mine' \subseteq ExtPorts \ portsTaken /\ mine' # {} /\ mine \subseteq mine' /\ grants \subseteq grants'
          /\ GrantedAs(operation.ext)
      <4>1. mine' \subseteq ExtPorts \ portsTaken /\ mine' # {} /\ mine \subseteq mine' /\ grants \subseteq grants'
        BY <1>00, <2>1, <2>2, <3>1 DEF InConflict
      <4>2. PICK g : g = [x |-> xchg, ext |-> operation.ext]
        OBVIOUS
      <4>3. g \in grants' /\ g.ext = operation.ext /\ g.x = xchg
        BY <3>1, <4>2
      <4> QED
        BY <4>1, <4>3 DEF GrantedAs
    <3>3. CASE Fails
      BY <1>00, <1>7, <2>1, <3>2, <3>3
    <3>4. CASE Succeeds(operation.ext, operation.life) /\ ~Fails
      <4>1. CASE operation.kind = "map"
        <5>1. operation' = NoOp /\ mapped' = [ext |-> operation.ext, life |-> 1] /\ xchg' = xchg
          BY <2>1, <3>4, <4>1 DEF Succeeds, validateGrantedTTL, Finish
        <5>2. mapped'.ext = operation.ext /\ mapped'.life = 1
          BY <5>1
        <5>3. GrantedAs(mapped'.ext) /\ mapped'.ext \in ExtPorts
          BY <2>1, <3>2, <5>2
        <5> QED
          BY <1>00, <2>1, <3>2, <4>1, <5>1, <5>2, <5>3, GwFinishes
      <4>2. CASE operation.kind = "refresh"
        <5>1. operation' = NoOp /\ mapped' = mapped /\ xchg' = xchg
          BY <2>1, <3>4, <4>2 DEF Succeeds, Finish
        <5> QED
          BY <1>00, <2>1, <3>2, <4>2, <5>1, GwFinishes
      <4> QED
        BY <2>1, <4>1, <4>2
    <3> QED
      BY <3>1, <3>3, <3>4
  <2>3. CASE /\ InConflict(operation.ext) /\ NotAdded
             /\ IF operation.kind = "map" /\ operation.tries + 1 < MaxAttempts
                THEN /\ operation' = [operation EXCEPT !.tries = @ + 1, !.ext = nextCandidateExternalPort(operation.ext, operation.tries + 1)]
                     /\ conflicts' = conflicts \cup {operation.ext}
                     /\ UNCHANGED <<mapped, xchg>>
                ELSE Fails
    <3>1. UNCHANGED <<mine, grants>>
      BY <2>3 DEF NotAdded
    <3>2. CASE Fails
      BY <1>00, <1>7, <2>1, <3>1, <3>2
    <3>3. ASSUME operation.kind = "map", operation.tries + 1 < MaxAttempts, UNCHANGED <<mapped, xchg>>,
                 conflicts' = conflicts \cup {operation.ext},
                 operation' = [operation EXCEPT !.tries = @ + 1, !.ext = nextCandidateExternalPort(operation.ext, operation.tries + 1)]
          PROVE  GwInv' /\ GwGain
      <4>1. PICK k \in Nat : k = operation.tries /\ operation.ext = Cand(k) /\ k + 1 < MaxAttempts
        BY <1>0, <1>00, <2>1, <3>3 DEF GwTried
      <4>2. operation' = [operation EXCEPT !.tries = k + 1, !.ext = Cand(k + 1)] /\ Cand(k + 1) \in ExtPorts
        BY <3>3, <4>1, NextCandidate
      <4>3. /\ operation' \in GwOp /\ operation'.kind = operation.kind /\ operation'.life = operation.life
            /\ operation'.tries = k + 1 /\ operation'.ext = Cand(k + 1) /\ operation'.last = operation.last
        <5>1. PICK t \in 0 .. MaxAttempts, c \in ExtPorts \cup {0} : t = k + 1 /\ c = Cand(k + 1)
          BY <1>00, <4>1, <4>2
        <5>2. operation' = [operation EXCEPT !.tries = t, !.ext = c]
          BY <4>2, <5>1
        <5>3. /\ operation' \in GwOp /\ operation'.kind = operation.kind /\ operation'.life = operation.life
              /\ operation'.tries = t /\ operation'.ext = c /\ operation'.last = operation.last
          BY <1>00, <5>2 DEF GwOp
        <5> QED
          BY <5>1, <5>3
      <4>4. operation' # NoOp /\ operation # NoOp
        BY <3>3, <4>3, NoOpTyped
      <4>5. GwTypes'
        BY <1>0, <2>1, <3>1, <3>3, <4>3 DEF GwTypes
      <4>6. GwOpOk' /\ GwHeldOk' /\ GwMsgOk'
        BY <1>0, <2>1, <3>1, <3>3, <4>2, <4>3, <4>4 DEF GwOpOk, GwHeldOk, GwMsgOk, Ending
      <4>7. GwTried'
        <5>1. \A p \in conflicts' : \E j \in 0 .. k : p = Cand(j)
          <6>1. \A p \in conflicts : \E j \in 0 .. k - 1 : p = Cand(j)
            BY <1>0, <2>1, <3>3, <4>1 DEF GwTried
          <6>2. k \in 0 .. k /\ \A j \in 0 .. k - 1 : j \in 0 .. k
            OBVIOUS
          <6> QED
            BY <3>3, <4>1, <6>1, <6>2
        <5>2. (k + 1) - 1 = k /\ k + 1 \in 0 .. MaxAttempts - 1
          BY <1>00, <4>1
        <5>3. operation'.tries - 1 = k
          BY <4>3, <5>2
        <5>4. speaks' = "igd" /\ operation'.tries \in 0 .. MaxAttempts - 1 /\ operation'.ext = Cand(operation'.tries)
          BY <2>1, <4>3, <5>2
        <5> QED
          BY <5>1, <5>3, <5>4 DEF GwTried
      <4> QED
        BY <3>3, <4>5, <4>6, <4>7 DEF GwInv, GwGain
    <3> QED
      BY <2>3, <3>2, <3>3
  <2> QED
    BY <1>12, <2>2, <2>3, <2>4 DEF AddPortMapping
<1>13. CASE DeletePortMapping
  <2>1. /\ operation' = NoOp /\ mapped' = DoneWith /\ mine' \subseteq mine
        /\ UNCHANGED <<speaks, portsTaken, xchg, requests, responses, grants, conflicts, forgot, gwFaults>>
    BY <1>13 DEF DeletePortMapping, Finish
  <2> QED
    BY <1>00, <2>1, GwFinishes
<1>14. ASSUME NEW r \in requests, Serve(r) PROVE GwInv' /\ GwGain
  <2>1. /\ UNCHANGED <<speaks, portsTaken, operation, xchg, mapped, conflicts, forgot, gwFaults>>
        /\ requests' \subseteq requests
    BY <1>14 DEF Serve
  <2>2. r.x \in 1 .. xchg /\ r.ext \in ExtPorts \cup {0} /\ r.life \in Lease
    BY <1>0 DEF GwTypes
  <2>3. GwTried' /\ GwOpOk'
    BY <1>0, <2>1 DEF GwTried, GwOpOk
  <2>4. ASSUME NEW a, a.x = r.x, a.ext \in ExtPorts \cup {0}, a.life \in Lease, responses' = responses \cup {a},
               mine' \subseteq ExtPorts \ portsTaken, grants \subseteq grants',
               mine # {} /\ mine' = {} => Ending,
               a.life = 1 => a.ext # 0 /\ [x |-> a.x, ext |-> a.ext] \in grants' /\ mine' # {}
        PROVE  GwInv'
    <3>1. GwTypes'
      BY <1>0, <2>1, <2>2, <2>4 DEF GwTypes
    <3>2. GwHeldOk'
      BY <1>0, <2>1, <2>4, HeldDistinct DEF GwHeldOk, Ending
    <3>3. Ending' = Ending
      BY <2>1 DEF Ending
    <3>4. /\ \A q \in requests' : q.life = 0 => Ending'
          /\ \A q \in responses' : q.life = 1 => q.ext # 0 /\ [x |-> q.x, ext |-> q.ext] \in grants'
          /\ \A q \in responses' : q.life = 1 /\ ~forgot' => mine' # {} \/ Ending'
          /\ speaks' \in Datagrams
      BY <1>0, <2>1, <2>4, <3>3 DEF GwMsgOk
    <3>5. GwMsgOk'
      BY <3>4 DEF GwMsgOk
    <3> QED
      BY <2>3, <3>1, <3>2, <3>5 DEF GwInv
  <2>5. GwGain
    BY <2>1 DEF GwGain
  <2>6. CASE r.life = 0
    <3>1. mine' = {} /\ grants' = grants /\ responses' = responses \cup {[x |-> r.x, ok |-> TRUE, ext |-> 0, life |-> 0]}
      BY <1>14, <2>6 DEF Serve
    <3>2. Ending
      BY <1>0, <2>6 DEF GwMsgOk
    <3>3. PICK a : a = [x |-> r.x, ok |-> TRUE, ext |-> 0, life |-> 0]
      OBVIOUS
    <3>4. a.x = r.x /\ a.ext = 0 /\ a.life = 0 /\ a.life \in Lease
      BY <3>3 DEF Lease
    <3>5. responses' = responses \cup {a}
      BY <3>1, <3>3
    <3> QED
      BY <2>4, <2>5, <3>1, <3>2, <3>4, <3>5
  <2>7. ASSUME NEW p \in Granted(r), NEW life \in Lease,
               IF life = 0 THEN UNCHANGED <<mine, grants>>
               ELSE mine' = {p} /\ grants' = grants \cup {[x |-> r.x, ext |-> p]},
               responses' = responses \cup {[x |-> r.x, ok |-> TRUE, ext |-> p, life |-> life]}
        PROVE  GwInv'
    <3>1. p \in ExtPorts \ portsTaken
      BY <1>00, <2>7 DEF Granted, FreePorts
    <3>2. PICK a : a = [x |-> r.x, ok |-> TRUE, ext |-> p, life |-> life]
      OBVIOUS
    <3>3. a.x = r.x /\ a.ext = p /\ a.life = life
      BY <3>2
    <3>4. mine' \subseteq ExtPorts \ portsTaken /\ grants \subseteq grants' /\ (mine # {} => mine' # {})
          /\ (life = 1 => mine' # {} /\ [x |-> r.x, ext |-> p] \in grants')
      BY <1>00, <2>7, <3>1
    <3>5. p # 0
      BY <3>1, ExtPortsNotZero
    <3> QED
      BY <2>4, <2>7, <3>1, <3>2, <3>3, <3>4, <3>5
  <2>8. ASSUME UNCHANGED <<mine, grants>>, responses' = responses \cup {[x |-> r.x, ok |-> FALSE, ext |-> 0, life |-> 0]}
        PROVE  GwInv'
    <3>1. PICK a : a = [x |-> r.x, ok |-> FALSE, ext |-> 0, life |-> 0]
      OBVIOUS
    <3>2. a.x = r.x /\ a.ext = 0 /\ a.life = 0 /\ a.life \in Lease
      BY <3>1 DEF Lease
    <3>3. responses' = responses \cup {a}
      BY <2>8, <3>1
    <3>4. mine' \subseteq ExtPorts \ portsTaken /\ grants \subseteq grants' /\ (mine # {} => mine' # {})
      BY <1>00, <2>8
    <3>5. a.life # 1 /\ a.ext \in ExtPorts \cup {0}
      BY <3>2
    <3> QED
      BY <2>4, <3>2, <3>3, <3>4, <3>5
  <2> QED
    BY <1>14, <2>5, <2>6, <2>7, <2>8 DEF Serve
\* What the network drops and what is unchanged.
<1>15. ASSUME UNCHANGED <<speaks, portsTaken, mine, operation, xchg, mapped, grants, conflicts, forgot>>,
              requests' \subseteq requests, responses' \subseteq responses, gwFaults' \in 0 .. MaxGwFaults
       PROVE  GwInv' /\ GwGain
  <2>1. GwTypes'
    BY <1>0, <1>15 DEF GwTypes
  <2>2. GwMsgOk'
    BY <1>0, <1>15 DEF GwMsgOk, Ending
  <2>3. GwOpOk' /\ GwHeldOk' /\ GwTried'
    BY <1>0, <1>15 DEF GwOpOk, GwHeldOk, GwTried
  <2> QED
    BY <1>15, <2>1, <2>2, <2>3 DEF GwInv, GwGain
<1>16. ASSUME NEW r, Dropped(r) PROVE GwInv' /\ GwGain
  BY <1>1, <1>15, <1>16 DEF Dropped
<1>17. CASE GatewayRestarts
  <2>1. /\ mine' = {} /\ forgot' = TRUE /\ portsTaken' \subseteq ExtPorts /\ gwFaults' \in 0 .. MaxGwFaults
        /\ UNCHANGED <<speaks, operation, xchg, requests, responses, mapped, grants, conflicts>>
    BY <1>1, <1>17, ExtPortsNotZero DEF GatewayRestarts
  <2>2. GwTypes'
    BY <1>0, <2>1 DEF GwTypes
  <2>3. GwOpOk' /\ GwTried'
    BY <1>0, <2>1 DEF GwOpOk, GwTried
  <2>4. GwHeldOk' /\ GwMsgOk'
    BY <1>0, <2>1 DEF GwHeldOk, GwMsgOk, Ending
  <2> QED
    BY <2>1, <2>2, <2>3, <2>4 DEF GwInv, GwGain
<1>18. CASE UNCHANGED gatewayVars
  BY <1>00, <1>15, <1>18 DEF gatewayVars
<1> QED
  BY <1>3, <1>4, <1>5, <1>6, <1>8, <1>9, <1>10, <1>11, <1>12, <1>13, <1>14, <1>16, <1>17, <1>18 DEF GatewayNext

(***************************************************************************)
(* The log's ring.                                                         *)
(***************************************************************************)
(* The newest entries are where their numbers say.                         *)
RingType == [entries : [0 .. LogCap - 1 -> 0 .. MaxLogs], idx : 0 .. LogCap - 1, full : BOOLEAN]
LogInv ==
  /\ ring \in RingType /\ logged \in 0 .. MaxLogs
  /\ ring.idx = (logged % LogCap)
  /\ (ring.full = TRUE) <=> logged >= LogCap
  /\ \A k \in 1 .. logged : k > logged - LogCap => ring.entries[((k - 1) % LogCap)] = k

LEMMA ModPlus ==
  ASSUME NEW n \in Nat \ {0}, NEW a \in Int, NEW b \in Int, NEW d \in Int,
         (a % n) = (b % n)
  PROVE  ((a + d) % n) = ((b + d) % n) /\ ((a + n) % n) = (a % n)
<1>1. PICK p \in Int, q \in Int, r \in 0 .. n - 1 : a = n * p + r /\ b = n * q + r /\ r = (a % n)
  BY ModBasics
<1>2. PICK x \in Int, y \in Int : x = n * p /\ y = n * q
  BY Q2
<1>3. a = x + r /\ b = y + r
  BY <1>1, <1>2
<1>4. PICK s \in 0 .. n - 1, e \in Int : r + d = n * e + s
  <2>1. r + d \in Int
    OBVIOUS
  <2> QED
    BY <2>1, ModBasics
<1>5. PICK z \in Int : z = n * e
  BY Q2
<1>6. r + d = z + s
  BY <1>4, <1>5
<1>7. a + d = (x + z) + s /\ b + d = (y + z) + s /\ a + n = (x + n) + r
  BY <1>3, <1>6
<1>8. x + z = n * (p + e) /\ y + z = n * (q + e) /\ x + n = n * (p + 1)
  BY <1>2, <1>5
<1>9. a + d = n * (p + e) + s /\ b + d = n * (q + e) + s /\ a + n = n * (p + 1) + r
  BY <1>7, <1>8
<1>10. ((a + d) % n) = s
  <2>1. PICK u \in Int, v \in Int : u = a + d /\ v = p + e
    OBVIOUS
  <2>2. u = n * v + s
    BY <1>9, <2>1
  <2>3. (u % n) = s
    BY <2>2, ModUnique
  <2>4. u = a + d
    BY <2>1
  <2> QED
    BY <2>3, <2>4, Zenon
<1>11. ((b + d) % n) = s
  <2>1. PICK u \in Int, v \in Int : u = b + d /\ v = q + e
    OBVIOUS
  <2>2. u = n * v + s
    BY <1>9, <2>1
  <2>3. (u % n) = s
    BY <2>2, ModUnique
  <2>4. u = b + d
    BY <2>1
  <2> QED
    BY <2>3, <2>4, Zenon
<1>12. ((a + n) % n) = r
  <2>1. PICK u \in Int, v \in Int : u = a + n /\ v = p + 1
    OBVIOUS
  <2>2. u = n * v + r
    BY <1>9, <2>1
  <2>3. (u % n) = r
    BY <2>2, ModUnique
  <2>4. u = a + n
    BY <2>1
  <2> QED
    BY <2>3, <2>4, Zenon
<1>13. r = (a % n)
  BY <1>1
<1> QED
  BY <1>10, <1>11, <1>12, <1>13, Zenon

LEMMA ModSmall == ASSUME NEW n \in Nat \ {0}, NEW a \in 0 .. n - 1 PROVE (a % n) = a
<1>1. a = n * 0 + a
  OBVIOUS
<1> QED
  BY <1>1, ModUnique

\* Two numbers less than n apart are not the same.
LEMMA ModNear == ASSUME NEW n \in Nat \ {0}, NEW a \in Int, NEW b \in Int, a < b, b < a + n
                 PROVE  (a % n) # (b % n)
<1> SUFFICES ASSUME (a % n) = (b % n) PROVE FALSE
  OBVIOUS
<1>1. ((b - a) % n) = 0
  BY ModDiff
<1>2. PICK d \in 0 .. n - 1 : d = b - a /\ d # 0
  OBVIOUS
<1>3. (d % n) = d
  BY ModSmall
<1> QED
  BY <1>1, <1>2, <1>3

LEMMA LogInvInit == RpcInit => LogInv
<1> SUFFICES ASSUME RpcInit PROVE LogInv
  OBVIOUS
<1>1. LogCap \in Nat \ {0} /\ MaxLogs \in Nat
  BY RpcAssumption
<1>2. (0 % LogCap) = 0
  BY <1>1, ModSmall
<1>3. ring \in RingType /\ ring.idx = 0 /\ ring.full = FALSE /\ logged = 0
  BY <1>1 DEF RpcInit, RingType
<1> QED
  BY <1>1, <1>2, <1>3 DEF LogInv

LEMMA LogInvStep == LogInv /\ Log => LogInv'
<1> SUFFICES ASSUME LogInv, Log PROVE LogInv'
  OBVIOUS
<1>1. LogCap \in Nat \ {0} /\ MaxLogs \in Nat
  BY RpcAssumption
<1>2. PICK es \in [0 .. LogCap - 1 -> 0 .. MaxLogs], at0 \in 0 .. LogCap - 1, fl \in BOOLEAN :
        ring = [entries |-> es, idx |-> at0, full |-> fl]
  BY DEF LogInv, RingType
<1>3. ring.entries = es /\ ring.idx = at0 /\ ring.full = fl
  BY <1>2
<1>4. PICK now \in 0 .. MaxLogs : now = logged /\ logged' = now + 1 /\ now + 1 \in 0 .. MaxLogs /\ now \in Nat
  BY <1>1 DEF LogInv, Log
<1>5. at0 = (now % LogCap)
  BY <1>3, <1>4 DEF LogInv
<1>6. PICK next \in 0 .. LogCap - 1 : next = ((at0 + 1) % LogCap)
  <2>1. PICK up \in Int : up = at0 + 1
    BY <1>1
  <2>2. (up % LogCap) \in 0 .. LogCap - 1
    BY <1>1, ModBasics
  <2> QED
    BY <2>1, <2>2
<1>60. PICK more \in Nat : more = now + 1
  BY <1>4
<1>7. next = (more % LogCap)
  <2>1. (at0 % LogCap) = at0
    BY <1>1, ModSmall
  <2>2. (at0 % LogCap) = (now % LogCap)
    BY <1>5, <2>1
  <2>3. at0 \in Int /\ now \in Int /\ 1 \in Int
    BY <1>1
  <2>4. ((at0 + 1) % LogCap) = ((now + 1) % LogCap)
    BY <1>1, <2>2, <2>3, ModPlus
  <2> QED
    BY <1>6, <1>60, <2>4
<1>8. PICK fl2 \in BOOLEAN : (fl2 = TRUE) <=> (fl = TRUE \/ next = 0)
  BY Zenon
<1>9. ring' = [entries |-> [es EXCEPT ![at0] = now + 1], idx |-> next, full |-> fl \/ next = 0]
  BY <1>3, <1>4, <1>6 DEF Log, RingWith
<1>10. (fl \/ next = 0) = fl2
  BY <1>8
<1>11. ring' = [entries |-> [es EXCEPT ![at0] = now + 1], idx |-> next, full |-> fl2]
  BY <1>9, <1>10
<1>12. [es EXCEPT ![at0] = now + 1] \in [0 .. LogCap - 1 -> 0 .. MaxLogs]
  BY <1>4
<1>13. ring' \in RingType /\ ring'.entries = [es EXCEPT ![at0] = now + 1] /\ ring'.idx = next /\ ring'.full = fl2
  BY <1>11, <1>12 DEF RingType
<1>14. (fl = TRUE) <=> now >= LogCap
  BY <1>3, <1>4 DEF LogInv
<1>15. (fl2 = TRUE) <=> more >= LogCap
  <2>1. CASE more < LogCap
    <3>1. more \in 0 .. LogCap - 1
      BY <1>1, <2>1
    <3>2. (more % LogCap) = more
      BY <1>1, <3>1, ModSmall
    <3>3. next # 0
      BY <1>4, <1>60, <1>7, <3>2
    <3> QED
      BY <1>1, <1>4, <1>8, <1>14, <1>60, <2>1, <3>3
  <2>2. CASE more = LogCap
    <3>1. (LogCap % LogCap) = 0
      <4>1. LogCap = LogCap * 1 + 0 /\ 0 \in 0 .. LogCap - 1 /\ LogCap \in Int
        BY <1>1
      <4> QED
        BY <1>1, <4>1, ModUnique
    <3>2. next = 0
      BY <1>7, <2>2, <3>1
    <3> QED
      BY <1>8, <2>2, <3>2
  <2>3. CASE more > LogCap
    BY <1>1, <1>4, <1>8, <1>14, <1>60, <2>3
  <2>4. more < LogCap \/ more = LogCap \/ more > LogCap
    BY <1>1
  <2> QED
    BY <2>1, <2>2, <2>3, <2>4, Zenon
<1>16. \A k \in 1 .. more : k > more - LogCap => ring'.entries[((k - 1) % LogCap)] = k
  <2> SUFFICES ASSUME NEW k \in 1 .. more, k > more - LogCap
               PROVE  ring'.entries[((k - 1) % LogCap)] = k
    OBVIOUS
  <2>0. PICK p \in Int : p = k - 1
    BY <1>4
  <2>1. PICK m \in 0 .. LogCap - 1 : m = (p % LogCap)
    BY <1>1, ModBasics
  <2>2. CASE k = more
    <3>1. p = now /\ m = at0
      BY <1>4, <1>5, <1>60, <2>0, <2>1, <2>2
    <3> QED
      BY <1>13, <1>60, <2>0, <2>1, <2>2, <3>1
  <2>3. CASE k # more
    <3>1. p < now /\ now < p + LogCap /\ k \in 1 .. now /\ k > now - LogCap
      BY <1>1, <1>4, <1>60, <2>0, <2>3
    <3>2. (p % LogCap) # (now % LogCap)
      <4>1. now \in Int /\ p < now /\ now < p + LogCap
        BY <1>4, <3>1
      <4> QED
        BY <1>1, <4>1, ModNear
    <3>3. m # at0
      BY <1>5, <2>1, <3>2
    <3>4. es[m] = k
      BY <1>3, <1>4, <2>0, <2>1, <3>1 DEF LogInv
    <3> QED
      BY <1>13, <2>0, <2>1, <3>3, <3>4
  <2> QED
    BY <2>2, <2>3
<1>17. logged' = more /\ more \in 0 .. MaxLogs
  BY <1>4, <1>60
<1>19. ring'.idx = (more % LogCap) /\ ring' \in RingType /\ ((ring'.full = TRUE) <=> more >= LogCap)
  BY <1>7, <1>13, <1>15
<1> QED
  BY <1>16, <1>17, <1>19 DEF LogInv

LEMMA LogInvShows == LogInv => ring \in RingType /\ logged \in 0 .. MaxLogs /\ RecentIsNewest
<1> SUFFICES ASSUME LogInv PROVE RecentIsNewest
  BY DEF LogInv
<1>1. LogCap \in Nat \ {0} /\ MaxLogs \in Nat
  BY RpcAssumption
<1>2. PICK es \in [0 .. LogCap - 1 -> 0 .. MaxLogs], at0 \in 0 .. LogCap - 1, fl \in BOOLEAN :
        ring = [entries |-> es, idx |-> at0, full |-> fl]
  BY DEF LogInv, RingType
<1>3. ring.entries = es /\ ring.idx = at0 /\ ring.full = fl
  BY <1>2
<1>4. PICK now \in 0 .. MaxLogs : now = logged /\ now \in Nat
  BY <1>1 DEF LogInv
<1>5. at0 = (now % LogCap) /\ ((fl = TRUE) <=> now >= LogCap)
  BY <1>3, <1>4 DEF LogInv
<1>6. \A k \in 1 .. now : k > now - LogCap => es[((k - 1) % LogCap)] = k
  BY <1>3, <1>4 DEF LogInv
<1> SUFFICES ASSUME NEW count \in 0 .. LogCap + 1
             PROVE  /\ \A i \in DOMAIN Recent(ring, count) : Recent(ring, count)[i] = logged - Len(Recent(ring, count)) + i
                    /\ Len(Recent(ring, count)) = 
                         CHOOSE n \in 0..LogCap : /\ n <= count /\ n <= logged
                                                  /\ n + 1 > count \/ n + 1 > logged \/ n = LogCap
  BY DEF RecentIsNewest
<1>7. PICK total \in 0 .. LogCap : total = (IF fl THEN LogCap ELSE at0) /\ total <= now /\ (total = LogCap \/ total = now)
  <2>1. CASE fl = TRUE
    BY <1>1, <1>4, <1>5, <2>1
  <2>2. CASE fl = FALSE
    <3>1. now \in 0 .. LogCap - 1
      BY <1>1, <1>4, <1>5, <2>2
    <3>2. at0 = now
      BY <1>1, <1>5, <3>1, ModSmall
    <3> QED
      BY <1>1, <1>4, <2>2, <3>2
  <2> QED
    BY <2>1, <2>2
<1>8. PICK most \in 0 .. LogCap : most = (IF count > total THEN total ELSE count)
  BY <1>1, <1>7
<1>9. Recent(ring, count) = [i \in 1 .. most |-> es[((at0 + LogCap - most + i - 1) % LogCap)]]
  BY <1>3, <1>7, <1>8 DEF Recent
<1>10. DOMAIN Recent(ring, count) = 1 .. most /\ Len(Recent(ring, count)) = most
  <2>1. DOMAIN Recent(ring, count) = 1 .. most
    BY <1>9
  <2>2. Recent(ring, count) \in Seq(0 .. MaxLogs)
    <3>1. ASSUME NEW i \in 1 .. most PROVE es[((at0 + LogCap - most + i - 1) % LogCap)] \in 0 .. MaxLogs
      <4>1. PICK u \in Int : u = at0 + LogCap - most + i - 1
        BY <1>1
      <4>2. (u % LogCap) \in 0 .. LogCap - 1
        BY <1>1, ModBasics
      <4> QED
        BY <4>1, <4>2
    <3>2. most \in Nat
      BY <1>1
    <3> QED
      BY <1>9, <3>1, <3>2
  <2> QED
    BY <1>1, <2>1, <2>2
<1>11. ASSUME NEW i \in 1 .. most PROVE Recent(ring, count)[i] = now - most + i
  <2>1. PICK u \in Int, v \in Int, k \in Int : u = at0 + LogCap - most + i - 1 /\ v = at0 - most + i - 1 /\ k = now - most + i
    BY <1>1, <1>4
  <2>2. (at0 % LogCap) = at0
    BY <1>1, ModSmall
  <2>3. (at0 % LogCap) = (now % LogCap)
    BY <1>5, <2>2
  <2>4. PICK d \in Int : d = i - most - 1
    BY <1>1
  <2>50. at0 \in Int /\ now \in Int
    BY <1>1
  <2>5. ((at0 + d) % LogCap) = ((now + d) % LogCap)
    BY <1>1, <2>3, <2>50, ModPlus
  <2>6. v = at0 + d /\ k - 1 = now + d /\ u = v + LogCap
    BY <1>1, <1>4, <2>1, <2>4
  <2>7. (v % LogCap) = ((k - 1) % LogCap)
    BY <2>5, <2>6, Zenon
  <2>8. ((v + LogCap) % LogCap) = (v % LogCap)
    BY <1>1, ModPlus
  <2>9. (u % LogCap) = ((k - 1) % LogCap)
    BY <2>6, <2>7, <2>8, Zenon
  <2>10. k \in 1 .. now /\ k > now - LogCap
    BY <1>1, <1>4, <1>7, <1>8, <2>1
  <2>11. es[((k - 1) % LogCap)] = k
    BY <1>6, <2>10
  <2>12. Recent(ring, count)[i] = es[(u % LogCap)]
    BY <1>9, <2>1
  <2> QED
    BY <2>1, <2>9, <2>11, <2>12
<1>12. most = CHOOSE n \in 0..LogCap : /\ n <= count /\ n <= logged
                                       /\ n + 1 > count \/ n + 1 > logged \/ n = LogCap
  <2>1. /\ most \in 0 .. LogCap /\ most <= count /\ most <= logged
        /\ most + 1 > count \/ most + 1 > logged \/ most = LogCap
    BY <1>1, <1>4, <1>7, <1>8
  <2>2. ASSUME NEW n \in 0 .. LogCap, n <= count, n <= logged, n + 1 > count \/ n + 1 > logged \/ n = LogCap
        PROVE  n = most
    BY <1>1, <1>4, <1>7, <1>8, <2>2
  <2> QED
    BY <2>1, <2>2
<1> QED
  BY <1>4, <1>10, <1>11, <1>12

(***************************************************************************)
(* The local socket.                                                       *)
(***************************************************************************)
(* The requests of a connection move in the order of their numbers from    *)
(* those sent (ins) through the one the reader handles (bs), or the        *)
(* streams that run (ss), to the lines written (ls).                       *)
InTurn(ins, bs, ss, upto) ==
  /\ ins \in Seq(RpcRequest) /\ bs \subseteq RpcRequest /\ ss \subseteq RpcRequest
  /\ \A i, j \in DOMAIN ins : i < j => ins[i].n < ins[j].n
  /\ \A i \in DOMAIN ins : ins[i].n <= upto
  /\ \A r \in bs \cup ss : r.n <= upto /\ \A i \in DOMAIN ins : r.n < ins[i].n
  /\ \A r, s \in bs \cup ss : r.n = s.n => r = s
  /\ \A r, s \in bs : r = s
  /\ (\A r \in bs : r.method # "stream") /\ \A r \in ss : r.method = "stream"
Answered(ins, bs, ss, ls, upto) ==
  /\ ls \in Seq(Line)
  /\ \A k \in DOMAIN ls : ls[k].n <= upto /\ \A i \in DOMAIN ins : ls[k].n < ins[i].n
  /\ \A k \in DOMAIN ls : ls[k].last = TRUE => \A r \in bs \cup ss : r.n # ls[k].n
  /\ \A k \in DOMAIN ls : ls[k].stream = FALSE => \A r \in bs : ls[k].n < r.n
  /\ \A i, j \in DOMAIN ls : i < j /\ ls[i].last = TRUE => ls[j].n # ls[i].n
  /\ \A i, j \in DOMAIN ls : i < j /\ ls[i].stream = FALSE /\ ls[j].stream = FALSE => ls[i].n < ls[j].n
Orderly(ins, bs, ss, ls, upto) == InTurn(ins, bs, ss, upto) /\ Answered(ins, bs, ss, ls, upto)

LEMMA RequestFields == \A r \in RpcRequest : r.n \in 1 .. MaxRpcRequests /\ r.n \in Nat /\ r.id \in BOOLEAN
                                             /\ r.method \in {"call", "stream", "garbled"}
BY RpcAssumption DEF RpcRequest

LEMMA LineFields == \A l \in Line : l.n \in 1 .. MaxRpcRequests /\ l.n \in Nat /\ l.stream \in BOOLEAN /\ l.last \in BOOLEAN
BY RpcAssumption DEF Line

LEMMA LineMade ==
  ASSUME NEW r \in RpcRequest, NEW s \in BOOLEAN, NEW last \in BOOLEAN
  PROVE  /\ [n |-> r.n, stream |-> s, last |-> last] \in Line
         /\ [n |-> r.n, stream |-> s, last |-> last].n = r.n
         /\ [n |-> r.n, stream |-> s, last |-> last].stream = s
         /\ [n |-> r.n, stream |-> s, last |-> last].last = last
BY RequestFields DEF Line

LEMMA TailFacts ==
  ASSUME NEW S, NEW q \in Seq(S), q # <<>>
  PROVE  /\ Head(q) \in S /\ Tail(q) \in Seq(S) /\ 1 \in DOMAIN q /\ Head(q) = q[1]
         /\ \A i \in DOMAIN Tail(q) : i \in Nat /\ i + 1 \in DOMAIN q /\ Tail(q)[i] = q[i + 1] /\ 1 < i + 1
OBVIOUS

LEMMA AppendFacts ==
  ASSUME NEW S, NEW q \in Seq(S), NEW e \in S
  PROVE  /\ Append(q, e) \in Seq(S) /\ Len(Append(q, e)) = Len(q) + 1 /\ Len(q) \in Nat
         /\ \A i \in DOMAIN Append(q, e) : i \in Nat /\ \/ i \in DOMAIN q /\ i <= Len(q) /\ Append(q, e)[i] = q[i]
                                                        \/ i = Len(q) + 1 /\ Append(q, e)[i] = e
OBVIOUS

LEMMA OrderlySend ==
  ASSUME NEW ins, NEW bs, NEW ss, NEW ls, NEW m \in Nat, NEW req \in RpcRequest,
         Orderly(ins, bs, ss, ls, m), req.n = m + 1
  PROVE  Orderly(Append(ins, req), bs, ss, ls, m + 1)
<1>1. ins \in Seq(RpcRequest) /\ ls \in Seq(Line) /\ bs \subseteq RpcRequest /\ ss \subseteq RpcRequest
  BY DEF Orderly, InTurn, Answered
<1>2. /\ Append(ins, req) \in Seq(RpcRequest)
      /\ \A i \in DOMAIN Append(ins, req) : i \in Nat /\ \/ i \in DOMAIN ins /\ i <= Len(ins) /\ Append(ins, req)[i] = ins[i]
                                                         \/ i = Len(ins) + 1 /\ Append(ins, req)[i] = req
      /\ Len(ins) \in Nat
  BY <1>1, AppendFacts
<1>3. PICK more : more = Append(ins, req)
  OBVIOUS
<1>4. /\ more \in Seq(RpcRequest) /\ Len(ins) \in Nat
      /\ \A i \in DOMAIN more : i \in Nat /\ (\/ i \in DOMAIN ins /\ i <= Len(ins) /\ more[i] = ins[i]
                                              \/ i = Len(ins) + 1 /\ more[i] = req)
  BY <1>2, <1>3
<1>5. \A i \in DOMAIN ins : ins[i].n \in Nat /\ ins[i].n <= m
  BY <1>1, RequestFields DEF Orderly, InTurn
<1>6. \A r \in bs \cup ss : r.n \in Nat /\ r.n <= m
  BY <1>1, RequestFields DEF Orderly, InTurn
<1>7. \A k \in DOMAIN ls : ls[k].n \in Nat /\ ls[k].n <= m
  BY <1>1, LineFields DEF Orderly, Answered
<1>8. \A i, j \in DOMAIN more : i < j => more[i].n < more[j].n
  BY <1>4, <1>5 DEF Orderly, InTurn
<1>9. \A i \in DOMAIN more : more[i].n <= m + 1
  BY <1>4, <1>5
<1>10. \A r \in bs \cup ss : r.n <= m + 1 /\ \A i \in DOMAIN more : r.n < more[i].n
  BY <1>4, <1>6 DEF Orderly, InTurn
<1>11. \A k \in DOMAIN ls : ls[k].n <= m + 1 /\ \A i \in DOMAIN more : ls[k].n < more[i].n
  BY <1>4, <1>7 DEF Orderly, Answered
<1>12. InTurn(more, bs, ss, m + 1)
  BY <1>4, <1>8, <1>9, <1>10 DEF Orderly, InTurn
<1>13. Answered(more, bs, ss, ls, m + 1)
  BY <1>11 DEF Orderly, Answered
<1> QED
  BY <1>3, <1>12, <1>13 DEF Orderly

LEMMA OrderlyMore ==
  ASSUME NEW ins, NEW bs, NEW ss, NEW ls, NEW m \in Nat, Orderly(ins, bs, ss, ls, m)
  PROVE  Orderly(ins, bs, ss, ls, m + 1)
<1>1. ins \in Seq(RpcRequest) /\ ls \in Seq(Line) /\ bs \subseteq RpcRequest /\ ss \subseteq RpcRequest
  BY DEF Orderly, InTurn, Answered
<1>5. \A i \in DOMAIN ins : ins[i].n \in Nat
  BY <1>1, RequestFields
<1>6. \A r \in bs \cup ss : r.n \in Nat
  BY <1>1, RequestFields
<1>7. \A k \in DOMAIN ls : ls[k].n \in Nat
  BY <1>1, LineFields
<1> QED
  BY <1>5, <1>6, <1>7 DEF Orderly, InTurn, Answered

\* The next request is scanned.
LEMMA OrderlyScan ==
  ASSUME NEW ins, NEW ss, NEW ls, NEW m \in Nat, Orderly(ins, {}, ss, ls, m), ins # <<>>
  PROVE  /\ Head(ins) \in RpcRequest
         /\ Head(ins) \notin ss
         /\ Head(ins).method # "stream" => Orderly(Tail(ins), {Head(ins)}, ss, ls, m)
         /\ Head(ins).method = "stream" => Orderly(Tail(ins), {}, ss \cup {Head(ins)}, ls, m)
<1>1. ins \in Seq(RpcRequest) /\ ls \in Seq(Line) /\ ss \subseteq RpcRequest
  BY DEF Orderly, InTurn, Answered
<1>2. PICK h, rest : h = Head(ins) /\ rest = Tail(ins)
  OBVIOUS
<1>3. /\ h \in RpcRequest /\ rest \in Seq(RpcRequest) /\ 1 \in DOMAIN ins /\ h = ins[1]
      /\ \A i \in DOMAIN rest : i \in Nat /\ i + 1 \in DOMAIN ins /\ rest[i] = ins[i + 1] /\ 1 < i + 1
  BY <1>1, <1>2, TailFacts
<1>4. h.n \in Nat /\ h.n <= m
  BY <1>3, RequestFields DEF Orderly, InTurn
<1>5. \A r \in ss : r.n \in Nat /\ r.n <= m /\ r.n < h.n /\ \A i \in DOMAIN rest : r.n < rest[i].n
  BY <1>1, <1>3, RequestFields DEF Orderly, InTurn
<1>6. \A i \in DOMAIN rest : rest[i].n \in Nat /\ h.n < rest[i].n /\ rest[i].n <= m
  BY <1>1, <1>3, RequestFields DEF Orderly, InTurn
<1>7. \A i, j \in DOMAIN rest : i < j => rest[i].n < rest[j].n
  BY <1>3 DEF Orderly, InTurn
<1>8. \A k \in DOMAIN ls : ls[k].n \in Nat /\ ls[k].n <= m /\ ls[k].n < h.n /\ \A i \in DOMAIN rest : ls[k].n < rest[i].n
  BY <1>1, <1>3, LineFields DEF Orderly, Answered
<1>9. h \notin ss
  BY <1>4, <1>5
<1>10. ASSUME h.method # "stream" PROVE Orderly(rest, {h}, ss, ls, m)
  <2>1. InTurn(rest, {h}, ss, m)
    <3>1. \A r, s \in {h} \cup ss : r.n = s.n => r = s
      BY <1>4, <1>5 DEF Orderly, InTurn
    <3>2. \A r \in {h} \cup ss : r.n <= m /\ \A i \in DOMAIN rest : r.n < rest[i].n
      BY <1>4, <1>5, <1>6
    <3> QED
      BY <1>1, <1>3, <1>6, <1>7, <1>10, <3>1, <3>2 DEF Orderly, InTurn
  <2>2. Answered(rest, {h}, ss, ls, m)
    <3>1. \A k \in DOMAIN ls : ls[k].last = TRUE => \A r \in {h} \cup ss : r.n # ls[k].n
      BY <1>4, <1>8 DEF Orderly, Answered
    <3> QED
      BY <1>8, <3>1 DEF Orderly, Answered
  <2> QED
    BY <2>1, <2>2 DEF Orderly
<1>11. ASSUME h.method = "stream" PROVE Orderly(rest, {}, ss \cup {h}, ls, m)
  <2>1. InTurn(rest, {}, ss \cup {h}, m)
    <3>1. \A r, s \in {} \cup (ss \cup {h}) : r.n = s.n => r = s
      BY <1>4, <1>5 DEF Orderly, InTurn
    <3>2. \A r \in {} \cup (ss \cup {h}) : r.n <= m /\ \A i \in DOMAIN rest : r.n < rest[i].n
      BY <1>4, <1>5, <1>6
    <3> QED
      BY <1>1, <1>3, <1>6, <1>7, <1>11, <3>1, <3>2 DEF Orderly, InTurn
  <2>2. Answered(rest, {}, ss \cup {h}, ls, m)
    <3>1. \A k \in DOMAIN ls : ls[k].last = TRUE => \A r \in {} \cup (ss \cup {h}) : r.n # ls[k].n
      BY <1>4, <1>8 DEF Orderly, Answered
    <3> QED
      BY <1>8, <3>1 DEF Orderly, Answered
  <2> QED
    BY <2>1, <2>2 DEF Orderly
<1> QED
  BY <1>2, <1>3, <1>9, <1>10, <1>11

\* A line is written for a request; after the last one the request is done with.
LEMMA OrderlyLine ==
  ASSUME NEW ins, NEW bs, NEW ss, NEW ls, NEW m \in Nat, NEW req \in bs \cup ss, NEW l \in Line,
         Orderly(ins, bs, ss, ls, m), l.n = req.n, l.stream = TRUE <=> req.method = "stream"
  PROVE  /\ l.last = TRUE => Orderly(ins, bs \ {req}, ss \ {req}, Append(ls, l), m)
         /\ l.last = FALSE /\ l.stream = TRUE => Orderly(ins, bs, ss, Append(ls, l), m)
<1>1. ins \in Seq(RpcRequest) /\ ls \in Seq(Line) /\ bs \subseteq RpcRequest /\ ss \subseteq RpcRequest
  BY DEF Orderly, InTurn, Answered
<1>2. PICK more : more = Append(ls, l)
  OBVIOUS
<1>3. /\ more \in Seq(Line) /\ Len(ls) \in Nat
      /\ \A i \in DOMAIN more : i \in Nat /\ (\/ i \in DOMAIN ls /\ i <= Len(ls) /\ more[i] = ls[i]
                                              \/ i = Len(ls) + 1 /\ more[i] = l)
  BY <1>1, <1>2, AppendFacts
<1>4. /\ req \in RpcRequest /\ req.n \in Nat /\ req.n <= m /\ \A i \in DOMAIN ins : req.n < ins[i].n
      /\ \A k \in DOMAIN ls : ls[k].last = TRUE => req.n # ls[k].n
      /\ \A r \in bs \cup ss : r.n = req.n => r = req
  BY <1>1, RequestFields DEF Orderly, InTurn, Answered
<1>5. l.stream = FALSE => /\ req \in bs /\ \A r \in bs : r = req
                          /\ \A k \in DOMAIN ls : ls[k].stream = FALSE => ls[k].n < req.n
  BY <1>1, LineFields DEF Orderly, InTurn, Answered
<1>6. \A k \in DOMAIN more : more[k].n <= m /\ \A i \in DOMAIN ins : more[k].n < ins[i].n
  BY <1>3, <1>4 DEF Orderly, Answered
<1>7. \A i, j \in DOMAIN more : i < j /\ more[i].last = TRUE => more[j].n # more[i].n
  BY <1>3, <1>4 DEF Orderly, Answered
<1>8. \A i, j \in DOMAIN more : i < j /\ more[i].stream = FALSE /\ more[j].stream = FALSE => more[i].n < more[j].n
  BY <1>3, <1>4, <1>5 DEF Orderly, Answered
<1>9. ASSUME l.last = TRUE PROVE Orderly(ins, bs \ {req}, ss \ {req}, more, m)
  <2>1. InTurn(ins, bs \ {req}, ss \ {req}, m)
    BY DEF Orderly, InTurn
  <2>2. \A k \in DOMAIN more : more[k].last = TRUE => \A r \in (bs \ {req}) \cup (ss \ {req}) : r.n # more[k].n
    BY <1>3, <1>4 DEF Orderly, Answered
  <2>3. \A k \in DOMAIN more : more[k].stream = FALSE => \A r \in bs \ {req} : more[k].n < r.n
    BY <1>3, <1>5 DEF Orderly, Answered
  <2> QED
    BY <1>3, <1>6, <1>7, <1>8, <2>1, <2>2, <2>3 DEF Orderly, Answered
<1>10. ASSUME l.last = FALSE, l.stream = TRUE PROVE Orderly(ins, bs, ss, more, m)
  <2>1. InTurn(ins, bs, ss, m)
    BY DEF Orderly
  <2>2. \A k \in DOMAIN more : more[k].last = TRUE => \A r \in bs \cup ss : r.n # more[k].n
    BY <1>3, <1>10 DEF Orderly, Answered
  <2>3. \A k \in DOMAIN more : more[k].stream = FALSE => \A r \in bs : more[k].n < r.n
    BY <1>3, <1>10 DEF Orderly, Answered
  <2> QED
    BY <1>3, <1>6, <1>7, <1>8, <2>1, <2>2, <2>3 DEF Orderly, Answered
<1> QED
  BY <1>2, <1>9, <1>10

LEMMA OrderlyDrop ==
  ASSUME NEW ins, NEW bs, NEW ss, NEW ls, NEW m \in Nat, NEW req, Orderly(ins, bs, ss, ls, m)
  PROVE  Orderly(ins, bs \ {req}, ss \ {req}, ls, m)
BY DEF Orderly, InTurn, Answered

\* What is counted: the connections served and the streams that run.
ServedSet == {c \in RpcConns : Served(c)}
StreamPairs == {p \in RpcConns \X RpcRequest : p[2] \in streams[p[1]]}

RpcWords ==
  /\ serve \in {"starting", "bound", "accepting", "holding", "backoff", "ended"}
  /\ lnOpen \in BOOLEAN /\ closer \in {"open", "took", "tookNone", "shut", "shutNone", "waiting", "closed"}
  /\ link \in [RpcConns -> {"none", "backlog", "held", "served", "leaving", "ended"}]
  /\ sock \in [RpcConns -> {"open", "peer", "closed"}]
  /\ requestsSent \in 0 .. MaxRpcRequests /\ rpcFaults \in 0 .. MaxRpcFaults
RpcHolds ==
  /\ inbox \in [RpcConns -> Seq(RpcRequest)] /\ busy \in [RpcConns -> SUBSET RpcRequest]
  /\ streams \in [RpcConns -> SUBSET RpcRequest] /\ lines \in [RpcConns -> Seq(Line)]
  /\ linesRead \in [RpcConns -> Nat]
Flowing ==
  \A c \in RpcConns : /\ Orderly(inbox[c], busy[c], streams[c], lines[c], requestsSent)
                      /\ linesRead[c] \in 0 .. Len(lines[c])
Counted ==
  /\ IsFiniteSet(ServedSet) /\ IsFiniteSet(StreamPairs)
  /\ waits = Cardinality(ServedSet) + Cardinality(StreamPairs)
  /\ closer = "closed" => ServedSet = {} /\ StreamPairs = {}
Reading == \A c \in RpcConns : busy[c] # {} => link[c] = "served"
RpcInv == RpcWords /\ RpcHolds /\ Flowing /\ Counted /\ Reading

LEMMA RpcInvInit == RpcInit => RpcInv
<1> SUFFICES ASSUME RpcInit PROVE RpcInv
  OBVIOUS
<1>8. /\ link \in [RpcConns -> {"none", "backlog", "held", "served", "leaving", "ended"}]
      /\ sock \in [RpcConns -> {"open", "peer", "closed"}]
  BY DEF RpcInit
<1>1. RpcWords /\ Reading
  <2>3. serve = "starting" /\ lnOpen = FALSE /\ closer = "open" /\ rpcFaults = 0 /\ requestsSent = 0
    BY DEF RpcInit
  <2>4. lnOpen \in BOOLEAN
    BY <2>3, Zenon
  <2>5. requestsSent \in 0 .. MaxRpcRequests /\ rpcFaults \in 0 .. MaxRpcFaults
    BY <2>3, RpcAssumption
  <2>1. RpcWords
    BY <1>8, <2>3, <2>4, <2>5, Zenon DEF RpcWords
  <2>2. Reading
    BY DEF RpcInit, Reading
  <2> QED
    BY <2>1, <2>2
<1>6. <<>> \in Seq(RpcRequest) /\ <<>> \in Seq(Line)
  OBVIOUS
<1>7. RpcHolds
  BY <1>6 DEF RpcInit, RpcHolds
<1>2. Orderly(<<>>, {}, {}, <<>>, 0)
  BY DEF Orderly, InTurn, Answered
<1>3. Flowing
  BY <1>2 DEF RpcInit, Flowing
<1>4. ServedSet = {} /\ StreamPairs = {}
  BY DEF RpcInit, ServedSet, StreamPairs, Served
<1>5. Counted
  BY <1>4, FS_EmptySet DEF RpcInit, Counted
<1> QED
  BY <1>1, <1>3, <1>5, <1>7 DEF RpcInv

\* What is counted stays so.
LEMMA CountKept ==
  ASSUME Counted, ServedSet' = ServedSet, StreamPairs' = StreamPairs, waits' = waits,
         closer' = "closed" => closer = "closed" \/ waits = 0
  PROVE  Counted'
<1>1. Cardinality(ServedSet) \in Nat /\ Cardinality(StreamPairs) \in Nat
  BY FS_CardinalityType DEF Counted
<1>2. waits = 0 => ServedSet = {} /\ StreamPairs = {}
  BY <1>1, FS_EmptySet DEF Counted
<1> QED
  BY <1>2 DEF Counted

LEMMA CountMore ==
  ASSUME Counted, waits' = waits + 1, closer # "closed", closer' = closer,
         \/ /\ StreamPairs' = StreamPairs /\ \E c : c \notin ServedSet /\ ServedSet' = ServedSet \cup {c}
         \/ /\ ServedSet' = ServedSet /\ \E p : p \notin StreamPairs /\ StreamPairs' = StreamPairs \cup {p}
  PROVE  Counted'
<1>1. Cardinality(ServedSet) \in Nat /\ Cardinality(StreamPairs) \in Nat
  BY FS_CardinalityType DEF Counted
<1>2. CASE StreamPairs' = StreamPairs /\ \E c : c \notin ServedSet /\ ServedSet' = ServedSet \cup {c}
  <2>1. PICK c : c \notin ServedSet /\ ServedSet' = ServedSet \cup {c}
    BY <1>2
  <2>2. IsFiniteSet(ServedSet \cup {c}) /\ Cardinality(ServedSet \cup {c}) = Cardinality(ServedSet) + 1
    BY <2>1, FS_AddElement DEF Counted
  <2> QED
    BY <1>1, <1>2, <2>1, <2>2 DEF Counted
<1>3. CASE ServedSet' = ServedSet /\ \E p : p \notin StreamPairs /\ StreamPairs' = StreamPairs \cup {p}
  <2>1. PICK p : p \notin StreamPairs /\ StreamPairs' = StreamPairs \cup {p}
    BY <1>3
  <2>2. IsFiniteSet(StreamPairs \cup {p}) /\ Cardinality(StreamPairs \cup {p}) = Cardinality(StreamPairs) + 1
    BY <2>1, FS_AddElement DEF Counted
  <2> QED
    BY <1>1, <1>3, <2>1, <2>2 DEF Counted
<1> QED
  BY <1>2, <1>3

LEMMA CountLess ==
  ASSUME Counted, waits' = waits - 1, closer' = closer,
         \/ /\ StreamPairs' = StreamPairs /\ \E c \in ServedSet : ServedSet' = ServedSet \ {c}
         \/ /\ ServedSet' = ServedSet /\ \E p \in StreamPairs : StreamPairs' = StreamPairs \ {p}
  PROVE  Counted'
<1>1. Cardinality(ServedSet) \in Nat /\ Cardinality(StreamPairs) \in Nat
  BY FS_CardinalityType DEF Counted
<1>4. closer # "closed" /\ waits = Cardinality(ServedSet) + Cardinality(StreamPairs)
  BY DEF Counted
<1>2. CASE StreamPairs' = StreamPairs /\ \E c \in ServedSet : ServedSet' = ServedSet \ {c}
  <2>1. PICK c \in ServedSet : ServedSet' = ServedSet \ {c}
    BY <1>2
  <2>2. IsFiniteSet(ServedSet \ {c}) /\ Cardinality(ServedSet \ {c}) = Cardinality(ServedSet) - 1
    BY <2>1, FS_RemoveElement DEF Counted
  <2>3. waits' = (Cardinality(ServedSet) - 1) + Cardinality(StreamPairs)
    BY <1>1, <1>4
  <2> QED
    BY <1>2, <1>4, <2>1, <2>2, <2>3 DEF Counted
<1>3. CASE ServedSet' = ServedSet /\ \E p \in StreamPairs : StreamPairs' = StreamPairs \ {p}
  <2>1. PICK p \in StreamPairs : StreamPairs' = StreamPairs \ {p}
    BY <1>3
  <2>2. IsFiniteSet(StreamPairs \ {p}) /\ Cardinality(StreamPairs \ {p}) = Cardinality(StreamPairs) - 1
    BY <2>1, FS_RemoveElement DEF Counted
  <2>3. waits' = Cardinality(ServedSet) + (Cardinality(StreamPairs) - 1)
    BY <1>1, <1>4
  <2> QED
    BY <1>3, <1>4, <2>1, <2>2, <2>3 DEF Counted
<1> QED
  BY <1>2, <1>3

\* The listener and Close.
LEMMA RpcServeStep == RpcInv /\ (ListenLocal \/ KeepListener \/ AcceptFails \/ BackoffEnds \/ TakeListener \/ ShutDown \/ WaitReturns) => RpcInv'
<1> SUFFICES ASSUME RpcInv, ListenLocal \/ KeepListener \/ AcceptFails \/ BackoffEnds \/ TakeListener \/ ShutDown \/ WaitReturns PROVE RpcInv'
  OBVIOUS
<1>1. /\ UNCHANGED <<link, inbox, busy, streams, lines, linesRead, waits, requestsSent>>
      /\ closer' = "closed" => closer = "closed" \/ waits = 0
  BY DEF ListenLocal, KeepListener, AcceptFails, BackoffEnds, TakeListener, ShutDown, WaitReturns, connVars, lnVars
<1>2. sock' \in [RpcConns -> {"open", "peer", "closed"}]
  BY DEF RpcInv, RpcWords, ListenLocal, KeepListener, AcceptFails, BackoffEnds, TakeListener, ShutDown, WaitReturns, connVars, lnVars
<1>8. rpcFaults' \in 0 .. MaxRpcFaults
  BY RpcAssumption DEF RpcInv, RpcWords, RpcFault, ListenLocal, KeepListener, AcceptFails, BackoffEnds, TakeListener, ShutDown, WaitReturns, lnVars
<1>9. /\ serve' \in {"starting", "bound", "accepting", "holding", "backoff", "ended"} /\ lnOpen' \in BOOLEAN
      /\ closer' \in {"open", "took", "tookNone", "shut", "shutNone", "waiting", "closed"}
  BY DEF RpcInv, RpcWords, RpcFault, ListenLocal, KeepListener, AcceptFails, BackoffEnds, TakeListener, ShutDown, WaitReturns, lnVars
<1>3. RpcWords'
  BY <1>1, <1>2, <1>8, <1>9 DEF RpcInv, RpcWords
<1>4. RpcHolds' /\ Flowing' /\ Reading'
  BY <1>1 DEF RpcInv, RpcHolds, Flowing, Reading
<1>5. ServedSet' = ServedSet /\ StreamPairs' = StreamPairs
  BY <1>1 DEF ServedSet, Served, StreamPairs
<1>6. Counted'
  BY <1>1, <1>5, CountKept DEF RpcInv
<1> QED
  BY <1>3, <1>4, <1>6 DEF RpcInv

\* A connection is made, accepted, dropped, or left by its reader.
LEMMA RpcLinkStep ==
  ASSUME RpcInv, CloseListener \/ \E c \in RpcConns : Accept(c) \/ Admit(c) \/ Dial(c) \/ Leave(c) \/ Gone(c) \/ HangUp(c)
  PROVE  RpcInv'
<1>1. UNCHANGED <<inbox, busy, streams, lines, linesRead, requestsSent>>
  BY DEF CloseListener, Accept, Admit, Dial, Leave, Gone, HangUp, connVars, lnVars
<1>2. RpcHolds' /\ Flowing' /\ StreamPairs' = StreamPairs
  BY <1>1 DEF RpcInv, RpcHolds, Flowing, StreamPairs
<1>3. ASSUME CloseListener PROVE RpcInv'
  <2>1. /\ link' \in [RpcConns -> {"none", "backlog", "held", "served", "leaving", "ended"}]
        /\ sock' \in [RpcConns -> {"open", "peer", "closed"}]
        /\ \A c \in RpcConns : link[c] # "backlog" => link'[c] = link[c]
        /\ \A c \in RpcConns : Served(c)' <=> Served(c)
    BY <1>3 DEF CloseListener, RpcInv, RpcWords, Served
  <2>2. RpcWords' /\ waits' = waits /\ closer' # "closed"
    BY <1>1, <1>3, <2>1 DEF CloseListener, RpcInv, RpcWords
  <2>3. ServedSet' = ServedSet
    BY <2>1 DEF ServedSet
  <2>4. Reading'
    BY <1>1, <2>1 DEF RpcInv, Reading
  <2>5. Counted'
    BY <1>2, <2>2, <2>3, CountKept DEF RpcInv
  <2> QED
    BY <1>2, <2>2, <2>4, <2>5 DEF RpcInv
<1>4. ASSUME NEW c \in RpcConns, Accept(c) \/ Dial(c) \/ HangUp(c) \/ Leave(c) PROVE RpcInv'
  <2>1. /\ link' \in [RpcConns -> {"none", "backlog", "held", "served", "leaving", "ended"}]
        /\ sock' \in [RpcConns -> {"open", "peer", "closed"}]
        /\ \A d \in RpcConns : d # c => link'[d] = link[d]
        /\ Served(c)' <=> Served(c)
        /\ link'[c] # link[c] => busy[c] = {}
    BY <1>4 DEF Accept, Dial, HangUp, Leave, ReaderFree, RpcInv, RpcWords, Reading, Served
  <2>2. RpcWords' /\ waits' = waits /\ closer' = closer
    BY <1>1, <1>4, <2>1, RpcAssumption DEF Accept, Dial, HangUp, Leave, RpcFault, lnVars, RpcInv, RpcWords
  <2>3. ServedSet' = ServedSet
    BY <2>1 DEF ServedSet, Served
  <2>4. Reading'
    BY <1>1, <2>1 DEF RpcInv, Reading
  <2>5. Counted'
    BY <1>2, <2>2, <2>3, CountKept DEF RpcInv
  <2> QED
    BY <1>2, <2>2, <2>4, <2>5 DEF RpcInv
<1>5. ASSUME NEW c \in RpcConns, Admit(c), Done PROVE RpcInv'
  <2>1. /\ link' \in [RpcConns -> {"none", "backlog", "held", "served", "leaving", "ended"}]
        /\ sock' \in [RpcConns -> {"open", "peer", "closed"}]
        /\ \A d \in RpcConns : d # c => link'[d] = link[d]
        /\ Served(c)' <=> Served(c)
        /\ busy[c] = {}
    BY <1>5 DEF Admit, RpcInv, RpcWords, Reading, Served
  <2>2. RpcWords' /\ waits' = waits /\ closer' = closer
    BY <1>1, <1>5, <2>1 DEF Admit, RpcInv, RpcWords
  <2>3. ServedSet' = ServedSet
    BY <2>1 DEF ServedSet, Served
  <2>4. Reading'
    BY <1>1, <2>1 DEF RpcInv, Reading
  <2>5. Counted'
    BY <1>2, <2>2, <2>3, CountKept DEF RpcInv
  <2> QED
    BY <1>2, <2>2, <2>4, <2>5 DEF RpcInv
<1>6. ASSUME NEW c \in RpcConns, Admit(c), ~Done PROVE RpcInv'
  <2>1. /\ link' \in [RpcConns -> {"none", "backlog", "held", "served", "leaving", "ended"}]
        /\ sock' = sock
        /\ \A d \in RpcConns : d # c => link'[d] = link[d]
        /\ ~Served(c) /\ Served(c)'
        /\ busy[c] = {}
    BY <1>6 DEF Admit, RpcInv, RpcWords, Reading, Served
  <2>2. RpcWords' /\ waits' = waits + 1 /\ closer' = closer /\ closer # "closed"
    BY <1>1, <1>6, <2>1 DEF Admit, Done, RpcInv, RpcWords
  <2>3. c \notin ServedSet /\ ServedSet' = ServedSet \cup {c}
    BY <2>1 DEF ServedSet, Served
  <2>4. Reading'
    BY <1>1, <2>1 DEF RpcInv, Reading
  <2>5. Counted'
    BY <1>2, <2>2, <2>3, CountMore DEF RpcInv
  <2> QED
    BY <1>2, <2>2, <2>4, <2>5 DEF RpcInv
<1>7. ASSUME NEW c \in RpcConns, Gone(c) PROVE RpcInv'
  <2>1. /\ link' \in [RpcConns -> {"none", "backlog", "held", "served", "leaving", "ended"}]
        /\ sock' \in [RpcConns -> {"open", "peer", "closed"}]
        /\ \A d \in RpcConns : d # c => link'[d] = link[d]
        /\ Served(c) /\ ~Served(c)'
        /\ busy[c] = {}
    BY <1>7 DEF Gone, RpcInv, RpcWords, Reading, Served
  <2>2. RpcWords' /\ waits' = waits - 1 /\ closer' = closer
    BY <1>1, <1>7, <2>1 DEF Gone, lnVars, RpcInv, RpcWords
  <2>3. c \in ServedSet /\ ServedSet' = ServedSet \ {c}
    BY <2>1 DEF ServedSet, Served
  <2>4. Reading'
    BY <1>1, <2>1 DEF RpcInv, Reading
  <2>5. Counted'
    BY <1>2, <2>2, <2>3, CountLess DEF RpcInv
  <2> QED
    BY <1>2, <2>2, <2>4, <2>5 DEF RpcInv
<1> QED
  BY <1>3, <1>4, <1>5, <1>6, <1>7

\* What a request does, seen at its connection; nothing else moves.
LEMMA FlowAfter ==
  ASSUME RpcInv, NEW c \in RpcConns, UNCHANGED <<serve, lnOpen, closer, link, sock, linesRead>>,
         rpcFaults' \in 0 .. MaxRpcFaults, requestsSent' \in 0 .. MaxRpcRequests,
         requestsSent' = requestsSent \/ requestsSent' = requestsSent + 1,
         NEW ins \in Seq(RpcRequest), NEW bs \in SUBSET RpcRequest, NEW ss \in SUBSET RpcRequest, NEW ls \in Seq(Line),
         inbox' = [inbox EXCEPT ![c] = ins], busy' = [busy EXCEPT ![c] = bs],
         streams' = [streams EXCEPT ![c] = ss], lines' = [lines EXCEPT ![c] = ls],
         Orderly(ins, bs, ss, ls, requestsSent'), Len(lines[c]) <= Len(ls), bs # {} => link[c] = "served"
  PROVE  RpcWords' /\ RpcHolds' /\ Flowing' /\ Reading' /\ ServedSet' = ServedSet
<1>1. /\ inbox \in [RpcConns -> Seq(RpcRequest)] /\ busy \in [RpcConns -> SUBSET RpcRequest]
      /\ streams \in [RpcConns -> SUBSET RpcRequest] /\ lines \in [RpcConns -> Seq(Line)]
      /\ linesRead \in [RpcConns -> Nat] /\ requestsSent \in Nat
  BY RpcAssumption DEF RpcInv, RpcHolds, RpcWords
<1>2. /\ inbox' \in [RpcConns -> Seq(RpcRequest)] /\ busy' \in [RpcConns -> SUBSET RpcRequest]
      /\ streams' \in [RpcConns -> SUBSET RpcRequest] /\ lines' \in [RpcConns -> Seq(Line)]
      /\ inbox'[c] = ins /\ busy'[c] = bs /\ streams'[c] = ss /\ lines'[c] = ls
  BY <1>1
<1>3. \A d \in RpcConns : d # c => /\ inbox'[d] = inbox[d] /\ busy'[d] = busy[d]
                                   /\ streams'[d] = streams[d] /\ lines'[d] = lines[d]
  BY <1>1
<1>4. RpcWords'
  BY DEF RpcInv, RpcWords
<1>5. RpcHolds'
  BY <1>1, <1>2 DEF RpcHolds
<1>6. \A d \in RpcConns : Orderly(inbox[d], busy[d], streams[d], lines[d], requestsSent) /\ linesRead[d] \in 0 .. Len(lines[d])
  BY DEF RpcInv, Flowing
<1>7. \A d \in RpcConns : Orderly(inbox[d], busy[d], streams[d], lines[d], requestsSent')
  <2> TAKE d \in RpcConns
  <2>1. Orderly(inbox[d], busy[d], streams[d], lines[d], requestsSent)
    BY <1>6
  <2>2. Orderly(inbox[d], busy[d], streams[d], lines[d], requestsSent + 1)
    BY <1>1, <2>1, OrderlyMore
  <2> QED
    BY <2>1, <2>2
<1>8. Flowing'
  <2> SUFFICES ASSUME NEW d \in RpcConns
               PROVE  /\ Orderly(inbox'[d], busy'[d], streams'[d], lines'[d], requestsSent')
                      /\ linesRead'[d] \in 0 .. Len(lines'[d])
    BY DEF Flowing
  <2>1. CASE d = c
    <3>1. Len(lines[c]) \in Nat /\ Len(ls) \in Nat
      BY <1>1
    <3> QED
      BY <1>1, <1>2, <1>6, <2>1, <3>1
  <2>2. CASE d # c
    BY <1>3, <1>6, <1>7, <2>2
  <2> QED
    BY <2>1, <2>2
<1>9. Reading'
  BY <1>2, <1>3 DEF RpcInv, Reading
<1>10. ServedSet' = ServedSet
  BY DEF ServedSet, Served
<1> QED
  BY <1>4, <1>5, <1>8, <1>9, <1>10

\* What is unchanged is written with its own value.
LEMMA SameAt == \A S, T, c : \A f \in [S -> T] : [f EXCEPT ![c] = f[c]] = f
OBVIOUS

LEMMA RpcSendStep ==
  ASSUME RpcInv, NEW c \in RpcConns, Send(c)
  PROVE  RpcInv'
<1>1. PICK req \in RpcRequest : req.n = requestsSent + 1 /\ inbox' = [inbox EXCEPT ![c] = Append(@, req)]
  BY DEF Send
<1>2. /\ UNCHANGED <<serve, lnOpen, rpcFaults, closer, link, sock, busy, streams, lines, linesRead, waits>>
      /\ requestsSent' = requestsSent + 1 /\ requestsSent < MaxRpcRequests
  BY DEF Send, lnVars
<1>3. /\ inbox \in [RpcConns -> Seq(RpcRequest)] /\ busy \in [RpcConns -> SUBSET RpcRequest]
      /\ streams \in [RpcConns -> SUBSET RpcRequest] /\ lines \in [RpcConns -> Seq(Line)]
      /\ requestsSent \in Nat /\ rpcFaults \in 0 .. MaxRpcFaults /\ requestsSent' \in 0 .. MaxRpcRequests
  BY <1>2, RpcAssumption DEF RpcInv, RpcHolds, RpcWords
<1>4. PICK ins : ins = Append(inbox[c], req)
  OBVIOUS
<1>5. ins \in Seq(RpcRequest) /\ inbox' = [inbox EXCEPT ![c] = ins]
  BY <1>1, <1>3, <1>4
<1>6. Orderly(ins, busy[c], streams[c], lines[c], requestsSent')
  BY <1>1, <1>2, <1>3, <1>4, OrderlySend DEF RpcInv, Flowing
<1>7. /\ busy' = [busy EXCEPT ![c] = busy[c]] /\ streams' = [streams EXCEPT ![c] = streams[c]]
      /\ lines' = [lines EXCEPT ![c] = lines[c]]
  BY <1>2, <1>3, SameAt
<1>8. /\ busy[c] \in SUBSET RpcRequest /\ streams[c] \in SUBSET RpcRequest /\ lines[c] \in Seq(Line)
      /\ Len(lines[c]) <= Len(lines[c]) /\ (busy[c] # {} => link[c] = "served")
  BY <1>3 DEF RpcInv, Reading
<1>9. RpcWords' /\ RpcHolds' /\ Flowing' /\ Reading' /\ ServedSet' = ServedSet
  BY <1>2, <1>3, <1>5, <1>6, <1>7, <1>8, FlowAfter
<1>10. StreamPairs' = StreamPairs
  BY <1>2 DEF StreamPairs
<1>11. Counted'
  BY <1>2, <1>9, <1>10, CountKept DEF RpcInv
<1> QED
  BY <1>9, <1>11 DEF RpcInv

LEMMA RpcReadStep ==
  ASSUME RpcInv, NEW c \in RpcConns, ClientReads(c)
  PROVE  RpcInv'
<1>1. /\ UNCHANGED <<serve, lnOpen, rpcFaults, closer, link, sock, inbox, busy, streams, lines, waits, requestsSent>>
      /\ linesRead' = [linesRead EXCEPT ![c] = @ + 1] /\ linesRead[c] < Len(lines[c])
  BY DEF ClientReads, lnVars
<1>2. linesRead' \in [RpcConns -> Nat] /\ \A d \in RpcConns : linesRead'[d] = IF d = c THEN linesRead[c] + 1 ELSE linesRead[d]
  BY <1>1 DEF RpcInv, RpcHolds
<1>3. RpcWords' /\ RpcHolds' /\ Reading'
  BY <1>1, <1>2 DEF RpcInv, RpcWords, RpcHolds, Reading
<1>4. \A d \in RpcConns : Len(lines[d]) \in Nat
  BY DEF RpcInv, RpcHolds
<1>5. Flowing'
  BY <1>1, <1>2, <1>4 DEF RpcInv, Flowing, RpcHolds
<1>6. ServedSet' = ServedSet /\ StreamPairs' = StreamPairs
  BY <1>1 DEF ServedSet, Served, StreamPairs
<1>7. Counted'
  BY <1>1, <1>6, CountKept DEF RpcInv
<1> QED
  BY <1>3, <1>5, <1>7 DEF RpcInv

LEMMA RpcScanStep ==
  ASSUME RpcInv, NEW c \in RpcConns, Scan(c)
  PROVE  RpcInv'
<1>1. /\ UNCHANGED <<serve, lnOpen, rpcFaults, closer, link, sock, lines, linesRead, requestsSent>>
      /\ link[c] = "served" /\ inbox[c] # <<>> /\ busy[c] = {} /\ inbox' = [inbox EXCEPT ![c] = Tail(@)]
  BY DEF Scan, lnVars, ReaderFree
<1>2. PICK h, ins : h = Head(inbox[c]) /\ ins = Tail(inbox[c])
  OBVIOUS
<1>3. /\ inbox \in [RpcConns -> Seq(RpcRequest)] /\ busy \in [RpcConns -> SUBSET RpcRequest]
      /\ streams \in [RpcConns -> SUBSET RpcRequest] /\ lines \in [RpcConns -> Seq(Line)]
      /\ requestsSent \in Nat /\ rpcFaults \in 0 .. MaxRpcFaults /\ requestsSent \in 0 .. MaxRpcRequests
  BY RpcAssumption DEF RpcInv, RpcHolds, RpcWords
<1>4. /\ h \in RpcRequest /\ h \notin streams[c]
      /\ h.method # "stream" => Orderly(ins, {h}, streams[c], lines[c], requestsSent)
      /\ h.method = "stream" => Orderly(ins, {}, streams[c] \cup {h}, lines[c], requestsSent)
  <2>1. Orderly(inbox[c], {}, streams[c], lines[c], requestsSent)
    BY <1>1 DEF RpcInv, Flowing
  <2>2. PICK q, ss, ls : q = inbox[c] /\ ss = streams[c] /\ ls = lines[c]
    OBVIOUS
  <2>3. Orderly(q, {}, ss, ls, requestsSent) /\ q # <<>> /\ requestsSent \in Nat
    BY <1>1, <1>3, <2>1, <2>2
  <2>4. /\ Head(q) \in RpcRequest /\ Head(q) \notin ss
        /\ Head(q).method # "stream" => Orderly(Tail(q), {Head(q)}, ss, ls, requestsSent)
        /\ Head(q).method = "stream" => Orderly(Tail(q), {}, ss \cup {Head(q)}, ls, requestsSent)
    BY <2>3, OrderlyScan
  <2> QED
    BY <1>2, <2>2, <2>4
<1>5. ins \in Seq(RpcRequest) /\ inbox' = [inbox EXCEPT ![c] = ins]
  BY <1>1, <1>2, <1>3
<1>6. lines' = [lines EXCEPT ![c] = lines[c]] /\ lines[c] \in Seq(Line) /\ Len(lines[c]) <= Len(lines[c])
  BY <1>1, <1>3, SameAt
<1>7. CASE h.method # "stream"
  <2>1. busy' = [busy EXCEPT ![c] = @ \cup {h}] /\ UNCHANGED <<streams, waits>>
    BY <1>2, <1>7 DEF Scan, Inline
  <2>2. busy' = [busy EXCEPT ![c] = {h}]
    BY <1>1, <1>3, <2>1
  <2>3. streams' = [streams EXCEPT ![c] = streams[c]] /\ streams[c] \in SUBSET RpcRequest /\ {h} \in SUBSET RpcRequest
    BY <1>3, <1>4, <2>1, SameAt
  <2>4. Orderly(ins, {h}, streams[c], lines[c], requestsSent')
    BY <1>1, <1>4, <1>7
  <2>5. RpcWords' /\ RpcHolds' /\ Flowing' /\ Reading' /\ ServedSet' = ServedSet
    BY <1>1, <1>3, <1>5, <1>6, <2>2, <2>3, <2>4, FlowAfter
  <2>6. StreamPairs' = StreamPairs
    BY <2>1 DEF StreamPairs
  <2>7. Counted'
    BY <1>1, <2>1, <2>5, <2>6, CountKept DEF RpcInv
  <2> QED
    BY <2>5, <2>7 DEF RpcInv
<1>8. CASE h.method = "stream"
  <2>1. streams' = [streams EXCEPT ![c] = @ \cup {h}] /\ busy' = busy /\ waits' = waits + 1
    BY <1>2, <1>8 DEF Scan, Inline
  <2>2. PICK ss : ss = streams[c] \cup {h}
    OBVIOUS
  <2>3. /\ streams' = [streams EXCEPT ![c] = ss] /\ ss \in SUBSET RpcRequest
        /\ busy' = [busy EXCEPT ![c] = {}] /\ {} \in SUBSET RpcRequest
    BY <1>1, <1>3, <1>4, <2>1, <2>2, SameAt
  <2>4. Orderly(ins, {}, ss, lines[c], requestsSent')
    BY <1>1, <1>4, <1>8, <2>2
  <2>5. RpcWords' /\ RpcHolds' /\ Flowing' /\ Reading' /\ ServedSet' = ServedSet
    BY <1>1, <1>3, <1>5, <1>6, <2>3, <2>4, FlowAfter
  <2>6. <<c, h>> \notin StreamPairs /\ StreamPairs' = StreamPairs \cup {<<c, h>>}
    BY <1>3, <1>4, <2>1 DEF StreamPairs
  <2>7. c \in ServedSet
    BY <1>1 DEF ServedSet, Served
  <2>8. closer # "closed" /\ closer' = closer
    BY <1>1, <2>7 DEF RpcInv, Counted
  <2>9. Counted'
    BY <2>1, <2>5, <2>6, <2>8, CountMore DEF RpcInv
  <2> QED
    BY <2>5, <2>9 DEF RpcInv
<1> QED
  BY <1>7, <1>8

\* A request's number is its own: it is handled or it streams, not both.
LEMMA EitherWay ==
  ASSUME NEW ins, NEW bs, NEW ss, NEW m, InTurn(ins, bs, ss, m), NEW req
  PROVE  /\ req \in bs => req.method # "stream" /\ ss \ {req} = ss /\ req \in RpcRequest
         /\ req \in ss => req.method = "stream" /\ bs \ {req} = bs /\ req \in RpcRequest
BY DEF InTurn

\* What is written is a line of the request, or nothing.
LEMMA WriteLine ==
  ASSUME RpcInv, NEW c \in RpcConns, NEW req \in RpcRequest, NEW last \in BOOLEAN, Write(c, req, last)
  PROVE  \/ lines' = lines
         \/ \E l \in Line : /\ l.n = req.n /\ l.last = last /\ (l.stream = TRUE <=> req.method = "stream")
                            /\ lines' = [lines EXCEPT ![c] = Append(lines[c], l)]
<1>1. CASE sock[c] # "open"
  BY <1>1 DEF Write
<1>2. CASE sock[c] = "open"
  <2>1. PICK b \in BOOLEAN : b = (req.method = "stream")
    BY Zenon
  <2>2. PICK l : l = [n |-> req.n, stream |-> b, last |-> last]
    OBVIOUS
  <2>3. l \in Line /\ l.n = req.n /\ l.last = last /\ l.stream = b
    BY <2>2, LineMade
  <2>4. lines' = [lines EXCEPT ![c] = Append(@, [n |-> req.n, stream |-> req.method = "stream", last |-> last])]
    BY <1>2 DEF Write
  <2>5. lines' = [lines EXCEPT ![c] = Append(lines[c], l)]
    BY <2>1, <2>2, <2>4, Zenon
  <2>6. l.stream = TRUE <=> req.method = "stream"
    BY <2>1, <2>3, Zenon
  <2> QED
    BY <2>3, <2>5, <2>6, Zenon
<1> QED
  BY <1>1, <1>2

\* A request is done with, answered or not; a stream may go on.
LEMMA RpcEndOrderly ==
  ASSUME RpcInv, NEW c \in RpcConns, NEW req \in busy[c] \cup streams[c],
         (req.id /\ Write(c, req, TRUE)) \/ lines' = lines
  PROVE  \E ls \in Seq(Line) : /\ lines' = [lines EXCEPT ![c] = ls] /\ Len(lines[c]) <= Len(ls)
                               /\ Orderly(inbox[c], busy[c] \ {req}, streams[c] \ {req}, ls, requestsSent)
<1>1. /\ Orderly(inbox[c], busy[c], streams[c], lines[c], requestsSent) /\ lines \in [RpcConns -> Seq(Line)]
      /\ lines[c] \in Seq(Line) /\ requestsSent \in Nat
  BY RpcAssumption DEF RpcInv, Flowing, RpcHolds, RpcWords
<1>2. PICK ins, bs, ss, ls : ins = inbox[c] /\ bs = busy[c] /\ ss = streams[c] /\ ls = lines[c]
  OBVIOUS
<1>3. Orderly(ins, bs, ss, ls, requestsSent) /\ ls \in Seq(Line) /\ req \in bs \cup ss
  BY <1>1, <1>2
<1>4. req \in RpcRequest
  BY <1>3 DEF Orderly, InTurn
<1>5. lines' = lines \/ \E l \in Line : /\ l.n = req.n /\ l.last = TRUE /\ (l.stream = TRUE <=> req.method = "stream")
                                        /\ lines' = [lines EXCEPT ![c] = Append(lines[c], l)]
  <2>1. CASE lines' = lines
    BY <2>1
  <2>2. CASE Write(c, req, TRUE)
    BY <2>2, <1>4, WriteLine
  <2> QED
    BY <2>1, <2>2
<1>6. CASE lines' = lines
  <2>1. Orderly(ins, bs \ {req}, ss \ {req}, ls, requestsSent)
    BY <1>1, <1>3, OrderlyDrop
  <2>2. lines' = [lines EXCEPT ![c] = ls] /\ Len(lines[c]) <= Len(ls)
    BY <1>1, <1>2, <1>6, SameAt
  <2> QED
    BY <1>2, <1>3, <2>1, <2>2
<1>7. CASE \E l \in Line : /\ l.n = req.n /\ l.last = TRUE /\ (l.stream = TRUE <=> req.method = "stream")
                           /\ lines' = [lines EXCEPT ![c] = Append(lines[c], l)]
  <2>1. PICK l \in Line : /\ l.n = req.n /\ l.last = TRUE /\ (l.stream = TRUE <=> req.method = "stream")
                          /\ lines' = [lines EXCEPT ![c] = Append(lines[c], l)]
    BY <1>7
  <2>2. Orderly(ins, bs \ {req}, ss \ {req}, Append(ls, l), requestsSent)
    BY <1>1, <1>3, <2>1, OrderlyLine
  <2>3. Append(ls, l) \in Seq(Line) /\ Len(Append(ls, l)) = Len(ls) + 1 /\ Len(ls) \in Nat
    BY <1>3, AppendFacts
  <2>4. PICK more : more = Append(ls, l)
    OBVIOUS
  <2>5. more \in Seq(Line) /\ Len(lines[c]) <= Len(more) /\ lines' = [lines EXCEPT ![c] = more]
    BY <1>2, <2>1, <2>3, <2>4
  <2>6. Orderly(inbox[c], busy[c] \ {req}, streams[c] \ {req}, more, requestsSent)
    BY <1>2, <2>2, <2>4, Zenon
  <2> QED
    BY <2>5, <2>6
<1> QED
  BY <1>5, <1>6, <1>7

LEMMA RpcCallEndsStep ==
  ASSUME RpcInv, NEW c \in RpcConns, NEW req \in busy[c], CallEnds(c, req)
  PROVE  RpcInv'
<1>1. /\ UNCHANGED <<serve, lnOpen, rpcFaults, closer, link, sock, inbox, streams, linesRead, waits, requestsSent>>
      /\ busy' = [busy EXCEPT ![c] = @ \ {req}]
      /\ (req.id /\ Write(c, req, TRUE)) \/ lines' = lines
  BY DEF CallEnds, lnVars
<1>2. /\ inbox \in [RpcConns -> Seq(RpcRequest)] /\ busy \in [RpcConns -> SUBSET RpcRequest]
      /\ streams \in [RpcConns -> SUBSET RpcRequest] /\ lines \in [RpcConns -> Seq(Line)]
      /\ requestsSent \in Nat /\ rpcFaults \in 0 .. MaxRpcFaults /\ requestsSent \in 0 .. MaxRpcRequests
  BY RpcAssumption DEF RpcInv, RpcHolds, RpcWords
<1>3. PICK ls \in Seq(Line) : /\ lines' = [lines EXCEPT ![c] = ls] /\ Len(lines[c]) <= Len(ls)
                              /\ Orderly(inbox[c], busy[c] \ {req}, streams[c] \ {req}, ls, requestsSent)
  BY <1>1, RpcEndOrderly
<1>4. InTurn(inbox[c], busy[c], streams[c], requestsSent)
  BY DEF RpcInv, Flowing, Orderly
<1>5. streams[c] \ {req} = streams[c] /\ req \in RpcRequest
  BY <1>4, EitherWay
<1>6. PICK bs : bs = busy[c] \ {req}
  OBVIOUS
<1>7. /\ busy' = [busy EXCEPT ![c] = bs] /\ bs \in SUBSET RpcRequest
      /\ inbox' = [inbox EXCEPT ![c] = inbox[c]] /\ streams' = [streams EXCEPT ![c] = streams[c]]
      /\ inbox[c] \in Seq(RpcRequest) /\ streams[c] \in SUBSET RpcRequest
  BY <1>1, <1>2, <1>6, SameAt
<1>8. Orderly(inbox[c], bs, streams[c], ls, requestsSent')
  BY <1>1, <1>3, <1>5, <1>6
<1>9. bs # {} => link[c] = "served"
  BY <1>6 DEF RpcInv, Reading
<1>10. RpcWords' /\ RpcHolds' /\ Flowing' /\ Reading' /\ ServedSet' = ServedSet
  BY <1>1, <1>2, <1>3, <1>7, <1>8, <1>9, FlowAfter
<1>11. StreamPairs' = StreamPairs
  BY <1>1 DEF StreamPairs
<1>12. Counted'
  BY <1>1, <1>10, <1>11, CountKept DEF RpcInv
<1> QED
  BY <1>10, <1>12 DEF RpcInv

LEMMA RpcStreamSendsStep ==
  ASSUME RpcInv, NEW c \in RpcConns, NEW req \in streams[c], StreamSends(c, req)
  PROVE  RpcInv'
<1>1. /\ UNCHANGED <<serve, lnOpen, rpcFaults, closer, link, sock, inbox, busy, streams, linesRead, waits, requestsSent>>
      /\ Write(c, req, FALSE)
  BY DEF StreamSends, lnVars
<1>2. /\ inbox \in [RpcConns -> Seq(RpcRequest)] /\ busy \in [RpcConns -> SUBSET RpcRequest]
      /\ streams \in [RpcConns -> SUBSET RpcRequest] /\ lines \in [RpcConns -> Seq(Line)]
      /\ requestsSent \in Nat /\ rpcFaults \in 0 .. MaxRpcFaults /\ requestsSent \in 0 .. MaxRpcRequests
  BY RpcAssumption DEF RpcInv, RpcHolds, RpcWords
<1>4. Orderly(inbox[c], busy[c], streams[c], lines[c], requestsSent)
  BY DEF RpcInv, Flowing
<1>5. req.method = "stream" /\ req \in RpcRequest
  BY <1>4, EitherWay DEF Orderly
<1>6. PICK ls \in Seq(Line) : /\ lines' = [lines EXCEPT ![c] = ls] /\ Len(lines[c]) <= Len(ls)
                              /\ Orderly(inbox[c], busy[c], streams[c], ls, requestsSent)
  <2>1. CASE lines' = lines
    BY <1>2, <1>4, <2>1, SameAt
  <2>2. CASE \E l \in Line : /\ l.n = req.n /\ l.last = FALSE /\ (l.stream = TRUE <=> req.method = "stream")
                             /\ lines' = [lines EXCEPT ![c] = Append(lines[c], l)]
    <3>1. PICK l \in Line : /\ l.n = req.n /\ l.last = FALSE /\ (l.stream = TRUE <=> req.method = "stream")
                            /\ lines' = [lines EXCEPT ![c] = Append(lines[c], l)]
      BY <2>2
    <3>2. PICK ins, bs, ss, old : ins = inbox[c] /\ bs = busy[c] /\ ss = streams[c] /\ old = lines[c]
      OBVIOUS
    <3>3. Orderly(ins, bs, ss, old, requestsSent) /\ old \in Seq(Line) /\ req \in bs \cup ss
      BY <1>2, <1>4, <3>2
    <3>4. Orderly(ins, bs, ss, Append(old, l), requestsSent)
      BY <1>2, <1>5, <3>1, <3>3, OrderlyLine
    <3>5. Append(old, l) \in Seq(Line) /\ Len(Append(old, l)) = Len(old) + 1 /\ Len(old) \in Nat
      BY <3>3, AppendFacts
    <3>6. PICK more : more = Append(old, l)
      OBVIOUS
    <3>7. more \in Seq(Line) /\ Len(lines[c]) <= Len(more) /\ lines' = [lines EXCEPT ![c] = more]
      BY <3>1, <3>2, <3>5, <3>6
    <3>8. Orderly(inbox[c], busy[c], streams[c], more, requestsSent)
      BY <3>2, <3>4, <3>6, Zenon
    <3> QED
      BY <3>7, <3>8
  <2> QED
    BY <1>1, <1>5, <2>1, <2>2, WriteLine
<1>7. /\ busy' = [busy EXCEPT ![c] = busy[c]] /\ busy[c] \in SUBSET RpcRequest
      /\ inbox' = [inbox EXCEPT ![c] = inbox[c]] /\ streams' = [streams EXCEPT ![c] = streams[c]]
      /\ inbox[c] \in Seq(RpcRequest) /\ streams[c] \in SUBSET RpcRequest
  BY <1>1, <1>2, SameAt
<1>8. Orderly(inbox[c], busy[c], streams[c], ls, requestsSent')
  BY <1>1, <1>6
<1>9. busy[c] # {} => link[c] = "served"
  BY DEF RpcInv, Reading
<1>10. RpcWords' /\ RpcHolds' /\ Flowing' /\ Reading' /\ ServedSet' = ServedSet
  BY <1>1, <1>2, <1>6, <1>7, <1>8, <1>9, FlowAfter
<1>11. StreamPairs' = StreamPairs
  BY <1>1 DEF StreamPairs
<1>12. Counted'
  BY <1>1, <1>10, <1>11, CountKept DEF RpcInv
<1> QED
  BY <1>10, <1>12 DEF RpcInv

LEMMA RpcStreamEndsStep ==
  ASSUME RpcInv, NEW c \in RpcConns, NEW req \in streams[c], StreamEnds(c, req)
  PROVE  RpcInv'
<1>1. /\ UNCHANGED <<serve, lnOpen, rpcFaults, closer, link, sock, inbox, busy, linesRead, requestsSent>>
      /\ streams' = [streams EXCEPT ![c] = @ \ {req}] /\ waits' = waits - 1
      /\ (req.id /\ Write(c, req, TRUE)) \/ lines' = lines
  BY DEF StreamEnds, lnVars
<1>2. /\ inbox \in [RpcConns -> Seq(RpcRequest)] /\ busy \in [RpcConns -> SUBSET RpcRequest]
      /\ streams \in [RpcConns -> SUBSET RpcRequest] /\ lines \in [RpcConns -> Seq(Line)]
      /\ requestsSent \in Nat /\ rpcFaults \in 0 .. MaxRpcFaults /\ requestsSent \in 0 .. MaxRpcRequests
  BY RpcAssumption DEF RpcInv, RpcHolds, RpcWords
<1>3. PICK ls \in Seq(Line) : /\ lines' = [lines EXCEPT ![c] = ls] /\ Len(lines[c]) <= Len(ls)
                              /\ Orderly(inbox[c], busy[c] \ {req}, streams[c] \ {req}, ls, requestsSent)
  BY <1>1, RpcEndOrderly
<1>4. InTurn(inbox[c], busy[c], streams[c], requestsSent)
  BY DEF RpcInv, Flowing, Orderly
<1>5. busy[c] \ {req} = busy[c] /\ req \in RpcRequest
  BY <1>4, EitherWay
<1>6. PICK ss : ss = streams[c] \ {req}
  OBVIOUS
<1>7. /\ streams' = [streams EXCEPT ![c] = ss] /\ ss \in SUBSET RpcRequest
      /\ inbox' = [inbox EXCEPT ![c] = inbox[c]] /\ busy' = [busy EXCEPT ![c] = busy[c]]
      /\ inbox[c] \in Seq(RpcRequest) /\ busy[c] \in SUBSET RpcRequest
  BY <1>1, <1>2, <1>6, SameAt
<1>8. Orderly(inbox[c], busy[c], ss, ls, requestsSent')
  BY <1>1, <1>3, <1>5, <1>6
<1>9. busy[c] # {} => link[c] = "served"
  BY DEF RpcInv, Reading
<1>10. RpcWords' /\ RpcHolds' /\ Flowing' /\ Reading' /\ ServedSet' = ServedSet
  BY <1>1, <1>2, <1>3, <1>7, <1>8, <1>9, FlowAfter
<1>11. <<c, req>> \in StreamPairs /\ StreamPairs' = StreamPairs \ {<<c, req>>}
  BY <1>1, <1>2, <1>5 DEF StreamPairs
<1>12. Counted'
  BY <1>1, <1>10, <1>11, CountLess DEF RpcInv
<1> QED
  BY <1>10, <1>12 DEF RpcInv

LEMMA RpcInvKept == ASSUME RpcInv, UNCHANGED <<lnVars, closer, connVars>> PROVE RpcInv'
<1>1. UNCHANGED <<serve, lnOpen, rpcFaults, closer, link, sock, inbox, busy, streams, lines, linesRead, waits, requestsSent>>
  BY DEF lnVars, connVars
<1>2. RpcWords' /\ RpcHolds' /\ Flowing' /\ Reading'
  BY <1>1 DEF RpcInv, RpcWords, RpcHolds, Flowing, Reading
<1>3. ServedSet' = ServedSet /\ StreamPairs' = StreamPairs
  BY <1>1 DEF ServedSet, Served, StreamPairs
<1>4. Counted'
  BY <1>1, <1>3, CountKept DEF RpcInv
<1> QED
  BY <1>2, <1>4 DEF RpcInv

LEMMA RpcInvStep == RpcInv /\ [RpcNext]_rpcVars => RpcInv'
<1>1. ASSUME RpcInv, RpcNext PROVE RpcInv'
  <2>1. CASE ServeStep
    <3>1. \/ ListenLocal \/ KeepListener \/ AcceptFails \/ BackoffEnds
          \/ \E c \in RpcConns : Accept(c) \/ Admit(c)
      BY <2>1 DEF ServeStep
    <3> QED
      BY <1>1, <3>1, RpcServeStep, RpcLinkStep
  <2>2. CASE TakeListener
    BY <1>1, <2>2, RpcServeStep
  <2>3. CASE CloserStep
    BY <1>1, <2>3, RpcServeStep, RpcLinkStep DEF CloserStep
  <2>4. CASE \E c \in RpcConns : ConnStep(c)
    <3>1. PICK c \in RpcConns : ConnStep(c)
      BY <2>4
    <3>2. CASE Dial(c) \/ HangUp(c) \/ Leave(c) \/ Gone(c)
      BY <1>1, <3>2, RpcLinkStep
    <3>3. CASE Send(c) \/ ClientReads(c) \/ Scan(c)
      BY <1>1, <3>3, RpcSendStep, RpcReadStep, RpcScanStep
    <3>4. CASE \E req \in busy[c] : CallEnds(c, req)
      BY <1>1, <3>4, RpcCallEndsStep
    <3>5. CASE \E req \in streams[c] : StreamSends(c, req) \/ StreamEnds(c, req)
      BY <1>1, <3>5, RpcStreamSendsStep, RpcStreamEndsStep
    <3> QED
      BY <3>1, <3>2, <3>3, <3>4, <3>5 DEF ConnStep
  <2> QED
    BY <1>1, <2>1, <2>2, <2>3, <2>4 DEF RpcNext
<1>2. ASSUME RpcInv, UNCHANGED rpcVars PROVE RpcInv'
  BY <1>2, RpcInvKept DEF rpcVars
<1> QED
  BY <1>1, <1>2

\* (The ring is the other half of RpcTypeOK: LogInvShows.)
LEMMA RpcInvShows ==
  RpcInv => /\ CloseCoversAll /\ LinesPairUp
            /\ ring \in RingType /\ logged \in 0 .. MaxLogs => RpcTypeOK
<1> SUFFICES ASSUME RpcInv PROVE /\ CloseCoversAll /\ LinesPairUp
                                 /\ ring \in RingType /\ logged \in 0 .. MaxLogs => RpcTypeOK
  OBVIOUS
<1>1. CloseCoversAll
  <2> SUFFICES ASSUME closer = "closed", NEW c \in RpcConns PROVE ~Served(c) /\ busy[c] = {} /\ streams[c] = {}
    BY DEF CloseCoversAll
  <2>1. ServedSet = {} /\ StreamPairs = {} /\ streams \in [RpcConns -> SUBSET RpcRequest]
    BY DEF RpcInv, Counted, RpcHolds
  <2>2. ~Served(c)
    BY <2>1 DEF ServedSet
  <2>3. busy[c] = {}
    BY <2>2 DEF RpcInv, Reading, Served
  <2>4. ASSUME NEW r \in streams[c] PROVE FALSE
    <3>1. <<c, r>> \in StreamPairs
      BY <2>1 DEF StreamPairs
    <3> QED
      BY <2>1, <3>1
  <2> QED
    BY <2>2, <2>3, <2>4
<1>2. LinesPairUp
  <2> SUFFICES ASSUME NEW c \in RpcConns, NEW i \in DOMAIN lines[c], NEW j \in DOMAIN lines[c], i < j
               PROVE  /\ lines[c][i].last => lines[c][j].n # lines[c][i].n
                      /\ ~lines[c][i].stream /\ ~lines[c][j].stream => lines[c][i].n < lines[c][j].n
    BY DEF LinesPairUp
  <2>1. PICK ls : ls = lines[c]
    OBVIOUS
  <2>2. /\ ls \in Seq(Line)
        /\ \A k, m \in DOMAIN ls : k < m /\ ls[k].last = TRUE => ls[m].n # ls[k].n
        /\ \A k, m \in DOMAIN ls : k < m /\ ls[k].stream = FALSE /\ ls[m].stream = FALSE => ls[k].n < ls[m].n
    BY <2>1 DEF RpcInv, Flowing, Orderly, Answered
  <2>3. ls[i] \in Line /\ ls[j] \in Line
    BY <2>1, <2>2
  <2>4. ls[i].last \in BOOLEAN /\ ls[i].stream \in BOOLEAN /\ ls[j].stream \in BOOLEAN
    BY <2>3, LineFields
  <2>5. ls[i].last = TRUE => ls[j].n # ls[i].n
    BY <2>1, <2>2
  <2>6. ls[i].stream = FALSE /\ ls[j].stream = FALSE => ls[i].n < ls[j].n
    BY <2>1, <2>2
  <2>7. /\ ls[i].last => ls[j].n # ls[i].n
        /\ ~ls[i].stream /\ ~ls[j].stream => ls[i].n < ls[j].n
    BY <2>4, <2>5, <2>6, Zenon
  <2> QED
    BY <2>1, <2>7, Zenon
<1>3. ASSUME ring \in RingType, logged \in 0 .. MaxLogs PROVE RpcTypeOK
  <2>1. waits \in Nat
    <3>1. Cardinality(ServedSet) \in Nat /\ Cardinality(StreamPairs) \in Nat
      BY FS_CardinalityType DEF RpcInv, Counted
    <3> QED
      BY <3>1 DEF RpcInv, Counted
  <2>2. \A c \in RpcConns : linesRead[c] \in 0 .. Len(lines[c])
    BY DEF RpcInv, Flowing
  <2>3. ring \in [entries : [0..LogCap - 1 -> 0..MaxLogs], idx : 0..LogCap - 1, full : BOOLEAN]
    BY <1>3, Zenon DEF RingType
  <2> QED
    BY <1>3, <2>1, <2>2, <2>3, Zenon DEF RpcTypeOK, RpcInv, RpcWords, RpcHolds
<1> QED
  BY <1>1, <1>2, <1>3

\* Only Log touches the ring.
LEMMA LogInvKept == LogInv /\ UNCHANGED logVars => LogInv'
BY DEF LogInv, logVars

LEMMA RpcLeavesLog == RpcNext => UNCHANGED logVars
BY DEF RpcNext, ServeStep, CloserStep, ConnStep, ShutDown, CloseListener, WaitReturns, ListenLocal, KeepListener, AcceptFails, BackoffEnds, Accept, Admit,
       TakeListener, Dial, HangUp, Leave, Gone, Send, ClientReads, Scan, CallEnds, StreamSends, StreamEnds, logVars
(***************************************************************************)
(* The identity.                                                           *)
(***************************************************************************)
(* The metadata is the last file of an enrollment, so that where it is the *)
(* others are of the same one; until then the files before the one being   *)
(* written are those of this start.                                        *)
MetaLast == Has("meta") => \A f \in IdentityFiles : disk[f] = disk["meta"]

Written == CASE progress = "key" -> {"cert"}
             [] progress = "ca" -> {"cert", "key"}
             [] progress = "meta" -> {"cert", "key", "ca"}
             [] OTHER -> {}

Enrolling == progress \in {"newPriv", "newPub", "keyed", "request", "answered"} \union IdentityFiles

Saving ==
  /\ Enrolling => ~Has("meta")
  /\ \A f \in Written : disk[f] = boot
  /\ progress # "down" => boot # Nothing

(* A public key is that of the private one, which is made only where there *)
(* is none; and what was sent is what is there.                            *)
KeyPair ==
  /\ Has("pub") => disk["pub"] = disk["priv"]
  /\ progress = "newPriv" => ~Has("priv")
  /\ progress = "newPub" => Has("priv")

SentKey(wg) == wg # Nothing => disk["priv"] = wg /\ disk["pub"] = wg
Told == SentKey(sent) /\ \A e \in enrolled : SentKey(e.wg)

IdentityInv == IdentityTypeOK /\ MetaLast /\ Saving /\ KeyPair /\ Told

LEMMA IdentityInvInit == IdentityInit => IdentityInv
  BY IdentityAssumption DEF IdentityInit, IdentityInv, IdentityTypeOK, MetaLast, Saving, KeyPair, Told,
     SentKey, Written, Enrolling, Has, Boot, Nothing, Files, IdentityFiles

LEMMA IdentityInvStep == IdentityInv /\ [IdentityNext]_identityVars => IdentityInv'
<1> SUFFICES ASSUME IdentityInv, [IdentityNext]_identityVars PROVE IdentityInv'
  OBVIOUS
<1> USE IdentityAssumption DEF IdentityInv, IdentityTypeOK, MetaLast, Saving, KeyPair, Told, SentKey,
       Written, Enrolling, Has, Boot, Nothing, Files, IdentityFiles
<1>1. CASE Boots
  BY <1>1 DEF Boots
<1>2. CASE Start
  BY <1>2 DEF Start, HasIdentity
<1>3. CASE EnsureWGKey
  BY <1>3 DEF EnsureWGKey
<1>4. CASE WGPublicKey
  BY <1>4 DEF WGPublicKey, IdFault
<1>5. CASE RequestIdentity
  BY <1>5 DEF RequestIdentity
<1>6. CASE RequestRefused
  BY <1>6 DEF RequestRefused, IdFault
<1>7. CASE CheckAnswer
  BY <1>7 DEF CheckAnswer
<1>8. CASE SaveIdentity
  BY <1>8 DEF SaveIdentity, After
<1>9. CASE LoadIdentity
  BY <1>9 DEF LoadIdentity, HasIdentity
<1>10. CASE buildMTLSFromIdentity
  BY <1>10 DEF buildMTLSFromIdentity
<1>11. CASE Ends
  BY <1>11 DEF Ends, IdFault
<1>12. CASE UNCHANGED identityVars
  BY <1>12 DEF identityVars
<1> QED
  BY <1>1, <1>2, <1>3, <1>4, <1>5, <1>6, <1>7, <1>8, <1>9, <1>10, <1>11, <1>12 DEF IdentityNext, IdentityStep

\* However many starts are cut short and wherever, an identity the program finds is of one
\* enrollment, and the WireGuard key the controller was told is the one on the disk.
THEOREM IdentityIsWhole == IdentitySpec => []IdentityWhole
<1>1. IdentityInv => IdentityWhole
  BY DEF IdentityInv, IdentityWhole, HasIdentity, MetaLast, Told, SentKey, IdentityFiles
<1> QED
  BY <1>1, IdentityInvInit, IdentityInvStep, PTL DEF IdentitySpec
(***************************************************************************)
(* The direct flows.                                                       *)
(***************************************************************************)
(* The WaitGroup counts the goroutines, the semaphore the echo requests    *)
(* that have a place; only a goroutine that copies has copies; and what    *)
(* runs once the stack is closed was counted after Close had begun.        *)
Relays == {"none", "made", "checked", "dial", "copy", "await", "ended"}
Runs == {f \in DirectFlowIds : relay[f] \in {"dial", "copy", "await"}}
Placed == {f \in DirectIcmp : relay[f] \in {"checked", "dial", "await"}}

DirectInv ==
  /\ relay \in [DirectFlowIds -> Relays]
  /\ copies \in [DirectFlowIds -> SUBSET {"up", "down"}]
  /\ ends \in [DirectFlowIds -> SUBSET {"app", "remote"}]
  /\ stack \in {"open", "marked", "shut", "closed"}
  /\ late \subseteq DirectFlowIds
  /\ counted = Cardinality(Runs) /\ slots = Cardinality(Placed) /\ slots <= IcmpSlots
  /\ \A f \in DirectIcmp : relay[f] # "copy"
  /\ \A f \in DirectFlowIds : copies[f] # {} => relay[f] = "copy"
  /\ stack = "closed" => Runs \subseteq late

LEMMA DirectFinite ==
  ASSUME relay \in [DirectFlowIds -> Relays]
  PROVE  /\ IsFiniteSet(Runs) /\ Cardinality(Runs) \in 0 .. Cardinality(DirectFlowIds)
         /\ IsFiniteSet(Placed) /\ Cardinality(Placed) \in Nat
<1>1. Runs \subseteq DirectFlowIds /\ Placed \subseteq DirectFlowIds
  BY DEF Runs, Placed, DirectFlowIds
<1>2. /\ IsFiniteSet(Runs) /\ Cardinality(Runs) <= Cardinality(DirectFlowIds)
      /\ IsFiniteSet(Placed)
  BY <1>1, DirectAssumption, FS_Subset
<1>3. Cardinality(Runs) \in Nat /\ Cardinality(Placed) \in Nat /\ Cardinality(DirectFlowIds) \in Nat
  BY <1>2, DirectAssumption, FS_CardinalityType
<1> QED
  BY <1>2, <1>3

LEMMA DirectInvShows == DirectInv => DirectTypeOK /\ CloseCoversCounted
<1> SUFFICES ASSUME DirectInv PROVE DirectTypeOK /\ CloseCoversCounted
  OBVIOUS
<1>1. counted \in 0 .. Cardinality(DirectFlowIds) /\ slots \in 0 .. IcmpSlots
  BY DirectFinite, DirectAssumption DEF DirectInv
<1> QED
  BY <1>1 DEF DirectInv, DirectTypeOK, CloseCoversCounted, Relays, Running, Runs

LEMMA DirectInvInit == DirectInit => DirectInv
<1> SUFFICES ASSUME DirectInit PROVE DirectInv
  OBVIOUS
<1>1. Runs = {} /\ Placed = {}
  BY DEF DirectInit, Runs, Placed, DirectFlowIds
<1>2. Cardinality({}) = 0
  BY FS_EmptySet
<1> QED
  BY <1>1, <1>2, DirectAssumption DEF DirectInit, DirectInv, Relays, DirectFlowIds

(* A flow that goes on is counted, or has a place, by where it goes. *)
LEMMA RunsAfter ==
  ASSUME relay \in [DirectFlowIds -> Relays], NEW f \in DirectFlowIds, NEW l \in Relays, Goes(f, l)
  PROVE  /\ relay' \in [DirectFlowIds -> Relays] /\ relay'[f] = l
         /\ \A g \in DirectFlowIds : g # f => relay'[g] = relay[g]
         /\ f \in Runs /\ l \notin {"dial", "copy", "await"} =>
              Runs' = Runs \ {f} /\ Cardinality(Runs') = Cardinality(Runs) - 1
         /\ f \notin Runs /\ l \in {"dial", "copy", "await"} =>
              Runs' = Runs \cup {f} /\ Cardinality(Runs') = Cardinality(Runs) + 1
         /\ (f \in Runs <=> l \in {"dial", "copy", "await"}) => Runs' = Runs
         /\ f \in Placed /\ l \notin {"checked", "dial", "await"} =>
              Cardinality(Placed') = Cardinality(Placed) - 1
         /\ f \notin Placed /\ f \in DirectIcmp /\ l \in {"checked", "dial", "await"} =>
              Cardinality(Placed') = Cardinality(Placed) + 1
         /\ f \notin DirectIcmp \/ (f \in Placed <=> l \in {"checked", "dial", "await"}) => Placed' = Placed
<1>1. /\ relay' \in [DirectFlowIds -> Relays] /\ relay'[f] = l
      /\ \A g \in DirectFlowIds : g # f => relay'[g] = relay[g]
  BY DEF Goes
<1>2. DirectIcmp \subseteq DirectFlowIds
  BY DEF DirectFlowIds
<1>3. f \in Runs /\ l \notin {"dial", "copy", "await"} => Runs' = Runs \ {f}
  BY <1>1 DEF Runs
<1>4. f \notin Runs /\ l \in {"dial", "copy", "await"} => Runs' = Runs \cup {f}
  BY <1>1 DEF Runs
<1>5. (f \in Runs <=> l \in {"dial", "copy", "await"}) => Runs' = Runs
  BY <1>1 DEF Runs
<1>6. f \in Placed /\ l \notin {"checked", "dial", "await"} => Placed' = Placed \ {f}
  BY <1>1, <1>2 DEF Placed
<1>7. f \notin Placed /\ f \in DirectIcmp /\ l \in {"checked", "dial", "await"} => Placed' = Placed \cup {f}
  BY <1>1, <1>2 DEF Placed
<1>8. f \notin DirectIcmp \/ (f \in Placed <=> l \in {"checked", "dial", "await"}) => Placed' = Placed
  BY <1>1, <1>2 DEF Placed
<1>9. IsFiniteSet(Runs) /\ IsFiniteSet(Placed)
  BY DirectFinite
<1>10. /\ f \in Runs => Cardinality(Runs \ {f}) = Cardinality(Runs) - 1
       /\ f \notin Runs => Cardinality(Runs \cup {f}) = Cardinality(Runs) + 1
       /\ f \in Placed => Cardinality(Placed \ {f}) = Cardinality(Placed) - 1
       /\ f \notin Placed => Cardinality(Placed \cup {f}) = Cardinality(Placed) + 1
  BY <1>9, FS_RemoveElement, FS_AddElement
<1> QED
  BY <1>1, <1>3, <1>4, <1>5, <1>6, <1>7, <1>8, <1>10

LEMMA DirectInvStep == DirectInv /\ [DirectNext]_directVars => DirectInv'
<1> SUFFICES ASSUME DirectInv, [DirectNext]_directVars PROVE DirectInv'
  OBVIOUS
<1>0. /\ relay \in [DirectFlowIds -> Relays]
      /\ copies \in [DirectFlowIds -> SUBSET {"up", "down"}]
      /\ ends \in [DirectFlowIds -> SUBSET {"app", "remote"}]
      /\ stack \in {"open", "marked", "shut", "closed"}
      /\ late \subseteq DirectFlowIds
      /\ counted = Cardinality(Runs) /\ slots = Cardinality(Placed) /\ slots <= IcmpSlots
      /\ \A f \in DirectIcmp : relay[f] # "copy"
      /\ \A f \in DirectFlowIds : copies[f] # {} => relay[f] = "copy"
      /\ stack = "closed" => Runs \subseteq late
  BY DEF DirectInv
<1>00. /\ IsFiniteSet(Runs) /\ Cardinality(Runs) \in Nat /\ Cardinality(Placed) \in Nat /\ IcmpSlots \in Nat
       /\ DirectIcmp \subseteq DirectFlowIds /\ Runs \subseteq DirectFlowIds
  BY <1>0, DirectFinite, DirectAssumption DEF DirectFlowIds, Runs
<1>1. ASSUME NEW f \in DirectFlowIds, Arrives(f) PROVE DirectInv'
  <2>1. PICK l \in {"made", "ended"} : Goes(f, l)
    BY <1>1 DEF Arrives
  <2>2. f \notin Runs /\ f \notin Placed /\ relay[f] # "copy"
    BY <1>1 DEF Arrives, Runs, Placed
  <2>3. /\ relay' \in [DirectFlowIds -> Relays] /\ relay'[f] = l
        /\ \A g \in DirectFlowIds : g # f => relay'[g] = relay[g]
        /\ Runs' = Runs /\ Placed' = Placed
    BY <1>0, <2>1, <2>2, RunsAfter DEF Relays
  <2>4. UNCHANGED <<copies, ends, stack, counted, slots, late>>
    BY <1>1 DEF Arrives
  <2> QED
    BY <1>0, <1>00, <2>2, <2>3, <2>4 DEF DirectInv
<1>2. ASSUME NEW f \in DirectFlowIds, Asked(f) PROVE DirectInv'
  <2>1. f \notin Runs /\ f \notin Placed /\ relay[f] # "copy"
    BY <1>2 DEF Asked, Runs, Placed
  <2>2. UNCHANGED <<copies, ends, stack, counted, late>>
    BY <1>2 DEF Asked
  <2>3. CASE Goes(f, "ended") /\ UNCHANGED slots
    <3>1. /\ relay' \in [DirectFlowIds -> Relays] /\ relay'[f] = "ended"
          /\ \A g \in DirectFlowIds : g # f => relay'[g] = relay[g]
          /\ Runs' = Runs /\ Placed' = Placed
      BY <1>0, <2>1, <2>3, RunsAfter DEF Relays
    <3> QED
      BY <1>0, <1>00, <2>1, <2>2, <2>3, <3>1 DEF DirectInv
  <2>4. CASE Goes(f, "checked") /\ ~(stack # "open" \/ (f \in DirectIcmp /\ slots = IcmpSlots))
    <3>1. slots' = IF f \in DirectIcmp THEN slots + 1 ELSE slots
      BY <1>2, <2>4 DEF Asked
    <3>2. /\ relay' \in [DirectFlowIds -> Relays] /\ relay'[f] = "checked"
          /\ \A g \in DirectFlowIds : g # f => relay'[g] = relay[g]
          /\ Runs' = Runs
          /\ f \in DirectIcmp => Cardinality(Placed') = Cardinality(Placed) + 1
          /\ f \notin DirectIcmp => Placed' = Placed
      BY <1>0, <2>1, <2>4, RunsAfter DEF Relays
    <3>3. slots' = Cardinality(Placed') /\ slots' <= IcmpSlots
      BY <1>0, <1>00, <2>4, <3>1, <3>2
    <3> QED
      BY <1>0, <1>00, <2>1, <2>2, <3>2, <3>3 DEF DirectInv
  <2> QED
    BY <1>2, <2>3, <2>4 DEF Asked
<1>3. ASSUME NEW f \in DirectFlowIds, GoroutineStarts(f) PROVE DirectInv'
  <2>1. f \notin Runs /\ relay[f] # "copy" /\ (f \in DirectIcmp => f \in Placed)
    BY <1>3 DEF GoroutineStarts, Runs, Placed
  <2>2. /\ relay' \in [DirectFlowIds -> Relays] /\ relay'[f] = "dial"
        /\ \A g \in DirectFlowIds : g # f => relay'[g] = relay[g]
        /\ Runs' = Runs \cup {f} /\ Cardinality(Runs') = Cardinality(Runs) + 1
        /\ Placed' = Placed
    BY <1>0, <1>3, <2>1, RunsAfter DEF Relays, GoroutineStarts
  <2>3. UNCHANGED <<copies, ends, stack, slots>> /\ counted' = counted + 1
    BY <1>3 DEF GoroutineStarts
  <2>4. late' \subseteq DirectFlowIds /\ (stack = "closed" => late' = late \cup {f})
    BY <1>0, <1>3 DEF GoroutineStarts
  <2> QED
    BY <1>0, <1>00, <2>1, <2>2, <2>3, <2>4 DEF DirectInv
\* A goroutine returns.
<1>4. ASSUME NEW f \in DirectFlowIds, Goes(f, "ended"), Returns(f), UNCHANGED <<copies, ends, stack, late>>,
             f \in Runs, copies[f] = {}
      PROVE  DirectInv'
  <2>1. /\ relay' \in [DirectFlowIds -> Relays] /\ relay'[f] = "ended"
        /\ \A g \in DirectFlowIds : g # f => relay'[g] = relay[g]
        /\ Runs' = Runs \ {f} /\ Cardinality(Runs') = Cardinality(Runs) - 1
        /\ f \in Placed => Cardinality(Placed') = Cardinality(Placed) - 1
        /\ f \notin DirectIcmp => Placed' = Placed
    BY <1>0, <1>4, RunsAfter DEF Relays
  <2>2. f \in DirectIcmp => f \in Placed
    BY <1>0, <1>4 DEF Runs, Placed
  <2>3. counted' = Cardinality(Runs') /\ slots' = Cardinality(Placed') /\ slots' <= IcmpSlots
    BY <1>0, <1>00, <1>4, <2>1, <2>2 DEF Returns
  <2> QED
    BY <1>0, <1>00, <1>4, <2>1, <2>3 DEF DirectInv
<1>5. ASSUME NEW f \in DirectFlowIds, Dials(f) PROVE DirectInv'
  <2>1. f \in Runs /\ copies[f] = {} /\ relay[f] # "copy" /\ (f \in DirectIcmp => f \in Placed)
    BY <1>0, <1>5 DEF Dials, Runs, Placed
  <2>2. UNCHANGED <<ends, stack, late>>
    BY <1>5 DEF Dials
  <2>3. CASE f \notin DirectIcmp /\ Goes(f, "copy") /\ copies' = [copies EXCEPT ![f] = {"up", "down"}] /\ UNCHANGED <<counted, slots>>
    <3>1. /\ relay' \in [DirectFlowIds -> Relays] /\ relay'[f] = "copy"
          /\ \A g \in DirectFlowIds : g # f => relay'[g] = relay[g]
          /\ Runs' = Runs /\ Placed' = Placed
      BY <1>0, <2>1, <2>3, RunsAfter DEF Relays
    <3>2. copies' \in [DirectFlowIds -> SUBSET {"up", "down"}] /\ \A g \in DirectFlowIds : g # f => copies'[g] = copies[g]
      BY <1>0, <2>3
    <3> QED
      BY <1>0, <1>00, <2>1, <2>2, <2>3, <3>1, <3>2 DEF DirectInv
  <2>4. CASE f \in DirectIcmp /\ Goes(f, "await") /\ UNCHANGED <<copies, counted, slots>>
    <3>1. /\ relay' \in [DirectFlowIds -> Relays] /\ relay'[f] = "await"
          /\ \A g \in DirectFlowIds : g # f => relay'[g] = relay[g]
          /\ Runs' = Runs /\ Placed' = Placed
      BY <1>0, <2>1, <2>4, RunsAfter DEF Relays
    <3> QED
      BY <1>0, <1>00, <2>1, <2>2, <2>4, <3>1 DEF DirectInv
  <2> QED
    BY <1>4, <1>5, <2>1, <2>2, <2>3, <2>4 DEF Dials
<1>6. ASSUME NEW f \in DirectFlowIds, EchoEnds(f) PROVE DirectInv'
  BY <1>0, <1>4, <1>6 DEF EchoEnds, Runs
<1>7. ASSUME NEW f \in DirectFlowIds, FlowReturns(f) PROVE DirectInv'
  BY <1>0, <1>4, <1>7 DEF FlowReturns, CopiesDone, Runs
\* What is copied or finished, and Close, change nothing of who is counted.
<1>8. ASSUME UNCHANGED <<relay, counted, slots, late>>,
             copies' \in [DirectFlowIds -> SUBSET {"up", "down"}],
             \A g \in DirectFlowIds : copies'[g] \subseteq copies[g],
             ends' \in [DirectFlowIds -> SUBSET {"app", "remote"}],
             stack' \in {"open", "marked", "shut", "closed"},
             stack' = "closed" => stack = "closed" \/ Runs = {}
      PROVE  DirectInv'
  <2>1. Runs' = Runs /\ Placed' = Placed
    BY <1>8 DEF Runs, Placed
  <2> QED
    BY <1>0, <1>8, <2>1 DEF DirectInv
<1>9. ASSUME NEW f \in DirectFlowIds, NEW dir \in {"up", "down"}, CopyEnds(f, dir) PROVE DirectInv'
  BY <1>0, <1>8, <1>9 DEF CopyEnds
<1>10. ASSUME NEW f \in DirectFlowIds, Finishes(f) PROVE DirectInv'
  <2>1. PICK end \in {"app", "remote"} : ends' = [ends EXCEPT ![f] = @ \union {end}]
    BY <1>10 DEF Finishes
  <2>2. ends' \in [DirectFlowIds -> SUBSET {"app", "remote"}]
    BY <1>0, <2>1
  <2> QED
    BY <1>0, <1>8, <1>10, <2>2 DEF Finishes
<1>11. CASE Mark \/ StackShut
  BY <1>0, <1>8, <1>11 DEF Mark, StackShut
<1>12. CASE StackClosed
  <2>1. Runs = {}
    BY <1>0, <1>00, <1>12, FS_EmptySet DEF StackClosed
  <2> QED
    BY <1>0, <1>8, <1>12, <2>1 DEF StackClosed
<1>13. CASE UNCHANGED directVars
  BY <1>0, <1>8, <1>13 DEF directVars
<1> QED
  BY <1>1, <1>2, <1>3, <1>5, <1>6, <1>7, <1>9, <1>10, <1>11, <1>12, <1>13 DEF DirectNext, FlowStep

(***************************************************************************)
(* The parts together.                                                     *)
(***************************************************************************)
HostInv ==
  /\ NpInv /\ StInv /\ DnsInv /\ FwInv /\ IngressInv /\ LocInv /\ GwInv
  /\ RpcInv /\ LogInv /\ IdentityInv /\ DirectInv

LEMMA HostInvInit == HostInit => HostInv
<1> SUFFICES ASSUME HostInit PROVE HostInv
  OBVIOUS
<1>1. /\ NpInit /\ StInit /\ DnsInit /\ FwInit /\ IngressInit /\ LocInit /\ GatewayInit
      /\ RpcInit /\ IdentityInit /\ DirectInit
  BY DEF HostInit
<1> QED
  BY <1>1, NpInvInit, StInvInit, DnsInvInit, FwInvInit, IngressInvInit, LocInvInit, GwInvInit,
     RpcInvInit, LogInvInit, IdentityInvInit, DirectInvInit DEF HostInv

\* A step is one of a part, and leaves the others alone.
LEMMA HostSteps ==
    [HostNext]_hostVars =>
        /\ [NpNext]_npVars /\ [StNext]_stVars /\ [DnsNext]_dnsVars /\ [FwNext]_fwVars
        /\ [IngressNext]_ingressVars /\ [LocNext]_locVars /\ [GatewayNext]_gatewayVars
        /\ [RpcNext \/ Log]_rpcVars /\ [IdentityNext]_identityVars /\ [DirectNext]_directVars
BY DEF HostNext, hostVars

LEMMA HostInvStep == HostInv /\ [HostNext]_hostVars => HostInv'
<1> SUFFICES ASSUME HostInv, [HostNext]_hostVars PROVE HostInv'
  OBVIOUS
<1>1. /\ NpInv /\ StInv /\ DnsInv /\ FwInv /\ IngressInv /\ LocInv /\ GwInv
      /\ RpcInv /\ LogInv /\ IdentityInv /\ DirectInv
  BY DEF HostInv
<1>2. NpInv'
  BY <1>1, HostSteps, NpInvStep
<1>3. StInv'
  BY <1>1, HostSteps, StInvStep
<1>4. DnsInv'
  BY <1>1, HostSteps, DnsInvStep
<1>5. FwInv'
  BY <1>1, HostSteps, FwInvStep
<1>6. IngressInv'
  BY <1>1, HostSteps, IngressInvStep
<1>7. LocInv'
  BY <1>1, HostSteps, LocInvStep
<1>8. GwInv'
  BY <1>1, HostSteps, GwInvStep
<1>9. RpcInv' /\ LogInv'
  <2>1. [RpcNext \/ Log]_rpcVars
    BY HostSteps
  <2>2. CASE RpcNext
    BY <1>1, <2>2, RpcInvStep, RpcLeavesLog, LogInvKept
  <2>3. CASE Log
    <3>1. UNCHANGED <<lnVars, closer, connVars>>
      BY <2>3 DEF Log
    <3> QED
      BY <1>1, <2>3, <3>1, RpcInvKept, LogInvStep
  <2>4. CASE UNCHANGED rpcVars
    <3>1. UNCHANGED <<lnVars, closer, connVars>> /\ UNCHANGED logVars
      BY <2>4 DEF rpcVars
    <3> QED
      BY <1>1, <3>1, RpcInvKept, LogInvKept
  <2> QED
    BY <2>1, <2>2, <2>3, <2>4
<1>10. IdentityInv'
  BY <1>1, HostSteps, IdentityInvStep
<1>11. DirectInv'
  BY <1>1, HostSteps, DirectInvStep
<1> QED
  BY <1>2, <1>3, <1>4, <1>5, <1>6, <1>7, <1>8, <1>9, <1>10, <1>11 DEF HostInv

\* Every reachable state satisfies the invariants of all the parts (the conjuncts above:
\* program, split tunnel, DNS relay, firewall, addresses, position, gateway, local socket
\* and log, identity, direct flows).
THEOREM HostInvariant == HostSpec => []HostInv
BY HostInvInit, HostInvStep, PTL DEF HostSpec

\* The types of everything by which a node lives on its host, for any configurations,
\* servers, connections, flows and bounds.
THEOREM HostTypes == HostSpec => []HostTypeOK
<1>1. HostInv => HostTypeOK
  <2> SUFFICES ASSUME HostInv PROVE HostTypeOK
    OBVIOUS
  <2>1. NpTypeOK /\ StTypeOK /\ DnsTypeOK /\ FwTypeOK /\ IngressTypeOK /\ LocTypeOK /\ GatewayTypeOK /\ DirectTypeOK
    BY NpInvShows, StInvShows, DnsInvShows, FwInvShows, IngressInvShows, LocInvShows, GwInvShows, DirectInvShows DEF HostInv
  <2>2. RpcTypeOK
    BY RpcInvShows, LogInvShows DEF HostInv
  <2>3. IdentityTypeOK
    BY DEF HostInv, IdentityInv
  <2> QED
    BY <2>1, <2>2, <2>3 DEF HostTypeOK
<1> QED
  BY <1>1, HostInvariant, PTL

\* What is replaced is given back, whichever step fails and however often: one current data
\* plane, the system's own resolver configuration unless the writing of a backup was once
\* cut short, the rules of the present configuration alone, a query that is led away
\* answered, and once (SwitchRole; OverrideResolv, RestoreResolv; Manager, ApplyConfig;
\* HandleResponse).
THEOREM HostReplacesCleanly == HostSpec => []ReplacedCleanly
<1>1. HostInv => ReplacedCleanly
  BY NpInvShows, StInvShows, FwInvShows, DnsInvShows DEF HostInv, ReplacedCleanly
<1> QED
  BY <1>1, HostInvariant, PTL

\* What a node tells of itself is so, for any servers, NATs of any kind, interfaces and
\* failures of theirs, declared addresses, places and gateways: a stable mapping was seen by
\* two servers asked, an address an interface listed can be dialled, an exact position is
\* true, a port that is held is in the gateway's table and no port is tried twice in a round
\* (StunProbe, Merge; resolve; Refresh, igdMap).
THEOREM HostReportsTrue == HostSpec => []ReportsTrue
<1>1. HostInv => ReportsTrue
  BY IngressInvShows, LocInvShows, GwInvShows DEF HostInv, ReportsTrue
<1> QED
  BY <1>1, HostInvariant, PTL

\* Nothing is left running when Close has returned, a terminal's answers are those to its
\* calls, and the log it shows is the newest, for any connections, requests, flows and any
\* capacity of the log (Server.Close, handleConn, LogBuffer; GVisorStack.Close).
THEOREM HostServicesOrderly == HostSpec => []LocalServicesOrderly
<1>1. HostInv => LocalServicesOrderly
  BY RpcInvShows, LogInvShows, DirectInvShows DEF HostInv, LocalServicesOrderly
<1> QED
  BY <1>1, HostInvariant, PTL

\* A port is taken for the node's only when the gateway granted it to the node for a time:
\* in the exchange under way, however late, doubled or foreign the answers are, where the
\* protocol is UPnP or PCP (pcpSendMap's nonce); at some time, where it is NAT-PMP, whose
\* answers do not tell what they answer (natpmpSendMap).
THEOREM HostHoldsWhatWasGranted == HostSpec => HeldWasGranted
<1>1. HostInv /\ [HostNext]_hostVars =>
        [mapped' # mapped /\ mapped'.ext # 0 =>
           \E g \in grants' : g.ext = mapped'.ext /\ (speaks # "natpmp" => g.x = xchg)]_gatewayVars
  BY HostSteps, GwInvStep DEF HostInv, GwGain, GrantedAs
<1> QED
  BY <1>1, HostInvariant, PTL DEF HostSpec, HeldWasGranted
=============================================================================
