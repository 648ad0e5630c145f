---------------------------- MODULE HostFirewall ----------------------------
(***************************************************************************)
(* What a node puts into the system's packet filter, and the DNS proxy the *)
(* filter leads queries to                                                 *)
(*   internal/nodecore/firewall/manager.go, rules.go   chains, rules       *)
(*   internal/nodecore/dnsproxy/proxy.go               the proxy           *)
(*   cmd/corelink-node/main.go                         ApplyConfig, Close  *)
(* One goroutine applies configurations, command by command; a command may *)
(* fail, and the process may crash between two of them: the chains stay,   *)
(* the proxy goes.  UDP and TCP rules come in pairs and are one here; the  *)
(* exemption of the proxy's own port is left out.                          *)
(***************************************************************************)
EXTENDS Integers, Sequences, SequencesExt

CONSTANTS DnsConfigs,    \* [enabled, mode, port, upstream, records], NoDns for none
          EgressLists,   \* sequences of [kind, vip, target, snat]
          Names,         \* internal names
          FwAddresses,   \* of upstreams, and the prefixes of egress rules
          MaxConfigs, MaxFwFaults  \* bounds

VARIABLES jumps,     \* chain -> jumps to it in its parent chain
          filled,    \* chain -> its rules
          todo,      \* commands the goroutine has still to run
          doing,        \* what it is doing: "down", "idle", "dns", "egress", "stop"
          ready,     \* chainsReady
          proxy,     \* the DNS proxy, NoProxy for none
          dns,       \* the configuration's DNS part; what ApplyDNS last took
          egress,    \* what ApplyEgress last took
          later,     \* the configuration's egress list, while the DNS part is applied
          failed,    \* of "dns", "egress", "stop": the last one had a command that failed
          configs, fwFaults  \* of MaxConfigs, MaxFwFaults

fwVars == <<jumps, filled, todo, doing, ready, proxy, dns, egress, later, failed, configs, fwFaults>>

DnsChains == <<"DNS", "DNS-OUT">>
EgressChains == <<"NAT", "NAT-POST", "FWD">>
Chains == DnsChains \o EgressChains
NoProxy == [port |-> 0, upstream |-> "none", records |-> {}]
NoDns == [enabled |-> FALSE, mode |-> "none", port |-> 0, upstream |-> "none", records |-> {}]

(* What the controller sends: a DNS part says how it redirects, an egress  *)
(* rule what it maps; the proxy's mark and the system's resolver are       *)
(* nobody's upstream.                                                      *)
ASSUME FirewallAssumption ==
    /\ "proxy" \notin FwAddresses /\ "resolver" \notin FwAddresses
    /\ DnsConfigs \subseteq [enabled : BOOLEAN, mode : {"local", "lan"}, port : Nat,
                             upstream : FwAddresses, records : SUBSET Names]
    /\ <<>> \in EgressLists
    /\ EgressLists \subseteq Seq([kind : {"direct", "static_mapping", "discovered_mapping"},
                                  vip : FwAddresses, target : FwAddresses, snat : BOOLEAN])
    /\ MaxConfigs \in Nat /\ MaxFwFaults \in Nat

-----------------------------------------------------------------------------
(* Rules and commands.                                                     *)

Cmd(verb, chain) == [verb |-> verb, chain |-> chain, rule |-> "none", arg |-> "none"]
Add(chain, rule, arg) == [verb |-> "A", chain |-> chain, rule |-> rule, arg |-> arg]

RedirectFirst(c) == <<Add("DNS-OUT", "REDIRECT", "proxy"), Add("DNS-OUT", "RETURN", c.upstream)>>
GenerateDNSRedirect(c) ==
    IF ~c.enabled THEN <<>>
    ELSE CASE c.mode = "local" -> <<Add("DNS", "REDIRECT", "proxy"), Add("DNS-OUT", "RETURN", c.upstream), Add("DNS-OUT", "REDIRECT", "proxy")>>
           [] c.mode = "lan"   -> <<Add("DNS", "DNAT", "proxy")>>

EgressOf(r) ==
    LET to == IF r.kind = "direct" THEN r.vip ELSE r.target
    IN  (IF r.kind = "direct" THEN <<>> ELSE <<Add("NAT", "DNAT", r.vip)>>)
        \o <<Add("FWD", "ACCEPT", to)>>
        \o (IF r.kind = "direct" THEN <<>> ELSE <<Add("NAT-POST", "MASQUERADE-to", to)>>)
        \o (IF r.snat THEN <<Add("NAT-POST", "MASQUERADE-from", to)>> ELSE <<>>)
EgressUpTo(rs) == LET cmds[i \in 0 .. Len(rs)] == IF i = 0 THEN <<>> ELSE cmds[i - 1] \o EgressOf(rs[i])
                  IN  cmds
GenerateEgressRules(rs) == EgressUpTo(rs)[Len(rs)]

Each(verb, cs) == [i \in DOMAIN cs |-> Cmd(verb, cs[i])]
(* -N and -C; -I where -C finds no jump.                                   *)
ensureChains == IF ready THEN <<>> ELSE Each("hook", Chains) \o <<Cmd("ready", "DNS")>>
FlushHalf(cs) == <<Cmd("F", cs[1])>>
Flush(cs) == Each("F", cs)
ApplyDNS(c) == ensureChains \o Flush(DnsChains) \o GenerateDNSRedirect(c)
ApplyEgress(rs) == Flush(EgressChains) \o GenerateEgressRules(rs)
GenerateCleanup == Flush(Chains) \o Each("D", Chains) \o Each("X", Chains)

Rule(c) == [rule |-> c.rule, arg |-> c.arg]
FwRule == [rule : {"REDIRECT", "RETURN", "DNAT", "ACCEPT", "MASQUERADE-to", "MASQUERADE-from", "none"},
           arg : FwAddresses \cup {"proxy", "none"}]
(* What an empty chain holds after the first commands of a list: their     *)
(* rules for it, in their order.                                           *)
FilledBy(cmds, chain) ==
    LET rules[i \in 0 .. Len(cmds)] ==
          IF i = 0 THEN <<>>
          ELSE IF cmds[i].verb = "A" /\ cmds[i].chain = chain THEN Append(rules[i - 1], Rule(cmds[i]))
          ELSE rules[i - 1]
    IN  rules
Expected(cmds, chain) == FilledBy(cmds, chain)[Len(cmds)]

FwTypeOK ==
    /\ \A c \in Range(Chains) : jumps[c] \in 0 .. 1 + MaxFwFaults /\ filled[c] \in Seq(FwRule)
    /\ doing \in {"down", "idle", "dns", "egress", "stop"} /\ ready \in BOOLEAN /\ failed \subseteq {"dns", "egress", "stop"}
    /\ proxy.records \subseteq Names /\ dns \in DnsConfigs \cup {NoDns} /\ egress \in EgressLists /\ later \in EgressLists
    /\ configs \in 0 .. MaxConfigs /\ fwFaults \in 0 .. MaxFwFaults

FwInit ==
    /\ jumps = [c \in Range(Chains) |-> 0] /\ filled = [c \in Range(Chains) |-> <<>>]
    /\ todo = <<>> /\ doing = "down" /\ ready = FALSE /\ proxy = NoProxy
    /\ dns = NoDns /\ egress = <<>> /\ later = <<>> /\ failed = {} /\ configs = 0 /\ fwFaults = 0

FwFault == fwFaults < MaxFwFaults /\ fwFaults' = fwFaults + 1

-----------------------------------------------------------------------------
(* The node.                                                               *)

NodeStarts ==
    /\ doing = "down" /\ doing' = "idle"
    /\ UNCHANGED <<jumps, filled, todo, ready, proxy, dns, egress, later, failed, configs, fwFaults>>

(* The proxy is made with the first configuration that enables it; later   *)
(* ones only bring records.  Then the filter, whether the proxy runs or    *)
(* not: DNS where the configuration has a DNS part, egress where it has a  *)
(* rule.                                                                   *)
New(c) == [port |-> c.port, upstream |-> c.upstream, records |-> c.records]
RecordsKept(c) == proxy
UpdateRecords(c) == [proxy EXCEPT !.records = c.records]

ApplyHostConfig(c, rs) ==
    /\ doing = "idle" /\ configs < MaxConfigs /\ configs' = configs + 1
    /\ IF ~c.enabled THEN UNCHANGED <<proxy, fwFaults>>
       ELSE IF proxy # NoProxy THEN proxy' = UpdateRecords(c) /\ UNCHANGED fwFaults
       ELSE \/ proxy' = New(c) /\ UNCHANGED fwFaults
            \/ FwFault /\ UNCHANGED proxy    \* its port is taken
    /\ later' = rs
    /\ failed' = failed \ ((IF c = NoDns THEN {} ELSE {"dns"}) \cup (IF rs = <<>> THEN {} ELSE {"egress"}))
    /\ dns' = IF c = NoDns THEN dns ELSE c
    /\ IF c # NoDns THEN doing' = "dns" /\ todo' = ApplyDNS(c) /\ UNCHANGED egress
       ELSE IF rs # <<>> THEN doing' = "egress" /\ todo' = ensureChains \o ApplyEgress(rs) /\ egress' = rs
       ELSE UNCHANGED <<doing, todo, egress>>
    /\ UNCHANGED <<jumps, filled, ready>>

(* run: what one command does.                                             *)
Hook(c)  == jumps' = [jumps EXCEPT ![c] = IF @ = 0 THEN 1 ELSE @] /\ UNCHANGED <<filled, ready>>
Take(cmd) ==
    LET c == cmd.chain
    IN  CASE cmd.verb = "hook"  -> Hook(c)
          [] cmd.verb = "ready" -> ready' = TRUE /\ UNCHANGED <<jumps, filled>>
          [] cmd.verb = "F"     -> filled' = [filled EXCEPT ![c] = <<>>] /\ UNCHANGED <<jumps, ready>>
          [] cmd.verb = "A"     -> filled' = [filled EXCEPT ![c] = Append(@, Rule(cmd))] /\ UNCHANGED <<jumps, ready>>
          [] cmd.verb = "D"     -> jumps' = [jumps EXCEPT ![c] = IF @ = 0 THEN 0 ELSE @ - 1] /\ UNCHANGED <<filled, ready>>
          [] cmd.verb = "X"     -> UNCHANGED <<jumps, filled, ready>>

Run ==
    /\ todo # <<>> /\ Take(Head(todo))
    /\ todo' = Tail(todo)
    /\ UNCHANGED <<doing, proxy, dns, egress, later, failed, configs, fwFaults>>

(* A check that fails adds a second jump; a jump that cannot be added ends *)
(* the operation; every other failure is passed over.                      *)
RunFails ==
    /\ todo # <<>> /\ Head(todo).verb # "ready" /\ FwFault
    /\ failed' = failed \cup {doing}
    /\ \/ Head(todo).verb = "hook" /\ jumps' = [jumps EXCEPT ![Head(todo).chain] = @ + 1] /\ todo' = Tail(todo)
       \/ Head(todo).verb = "hook" /\ todo' = <<>> /\ UNCHANGED jumps
       \/ Head(todo).verb # "hook" /\ todo' = Tail(todo) /\ UNCHANGED jumps
    /\ UNCHANGED <<filled, doing, ready, proxy, dns, egress, later, configs>>

DnsDone ==
    /\ doing = "dns" /\ todo = <<>>
    /\ IF later # <<>> THEN doing' = "egress" /\ todo' = ensureChains \o ApplyEgress(later) /\ egress' = later
       ELSE doing' = "idle" /\ UNCHANGED <<todo, egress>>
    /\ UNCHANGED <<jumps, filled, ready, proxy, dns, later, failed, configs, fwFaults>>

EgressDone ==
    /\ doing = "egress" /\ todo = <<>> /\ doing' = "idle"
    /\ UNCHANGED <<jumps, filled, todo, ready, proxy, dns, egress, later, failed, configs, fwFaults>>

(* Close: the proxy, then the rules.                                       *)
CloseHost ==
    /\ doing = "idle" /\ doing' = "stop"
    /\ proxy' = NoProxy /\ todo' = GenerateCleanup /\ failed' = failed \ {"stop"}
    /\ UNCHANGED <<jumps, filled, ready, dns, egress, later, configs, fwFaults>>

Stopped ==
    /\ doing = "stop" /\ todo = <<>>
    /\ doing' = "down" /\ ready' = FALSE
    /\ dns' = NoDns /\ egress' = <<>> /\ later' = <<>>
    /\ UNCHANGED <<jumps, filled, todo, proxy, failed, configs, fwFaults>>

NodeDies ==
    /\ doing # "down" /\ FwFault
    /\ doing' = "down" /\ ready' = FALSE /\ todo' = <<>> /\ proxy' = NoProxy
    /\ dns' = NoDns /\ egress' = <<>> /\ later' = <<>> /\ failed' = {"dns", "egress", "stop"}
    /\ UNCHANGED <<jumps, filled, configs>>

FwNext ==
    \/ NodeStarts \/ Run \/ RunFails \/ DnsDone \/ EgressDone \/ CloseHost \/ Stopped \/ NodeDies
    \/ \E c \in DnsConfigs \cup {NoDns}, rs \in EgressLists : ApplyHostConfig(c, rs)

FwSpec == FwInit /\ [][FwNext]_fwVars

-----------------------------------------------------------------------------
(* A query of a program of this host, for a name.                          *)

First(chain, rules, arg) ==
    LET hits == {i \in DOMAIN filled[chain] : filled[chain][i].rule \in rules /\ filled[chain][i].arg \in arg}
    IN  IF jumps[chain] = 0 \/ hits = {} THEN 0 ELSE CHOOSE i \in hits : \A j \in hits : i <= j

Caught(to) == LET i == First("DNS-OUT", {"RETURN", "REDIRECT"}, {to, "proxy"})
              IN  i # 0 /\ filled["DNS-OUT"][i].rule = "REDIRECT"

(* handlePacket: from the records, or from the upstream, asked by the      *)
(* proxy itself, whose query takes the same chain.                         *)
handlePacket(name) ==
    IF name \in proxy.records THEN "record"
    ELSE IF Caught(proxy.upstream) THEN "lost" ELSE "upstream"
Answer(name) ==
    IF ~Caught("resolver") THEN "resolver"
    ELSE IF proxy.port # dns.port THEN "lost" ELSE handlePacket(name)

-----------------------------------------------------------------------------
(* Properties.                                                             *)

\* What was applied without a failure is what the configuration says, in its order and
\* nothing else, whatever an earlier failure or crash left in the chains (ApplyDNS,
\* ApplyEgress); and after an orderly stop no chain catches a packet (Cleanup).
RulesExact ==
    /\ doing = "idle" /\ "dns" \notin failed /\ dns # NoDns =>
         \A c \in Range(DnsChains) : jumps[c] > 0 /\ filled[c] = Expected(GenerateDNSRedirect(dns), c)
    /\ doing = "idle" /\ "egress" \notin failed /\ egress # <<>> =>
         \A c \in Range(EgressChains) : jumps[c] > 0 /\ filled[c] = Expected(GenerateEgressRules(egress), c)
    /\ doing = "down" /\ "stop" \notin failed => \A c \in Range(Chains) : jumps[c] = 0 \/ filled[c] = <<>>

\* While no command has failed, no query is led back to the proxy that asked it or to one
\* that is not there: the upstream is exempt before the redirection is, and internal names
\* are answered from the latest records (GenerateDNSRedirect, UpdateRecords) -- as long as
\* the configuration keeps the proxy's port and upstream, and from when the chain no longer
\* exempts another one.
Exempts(u) == \A i \in DOMAIN filled["DNS-OUT"] :
                filled["DNS-OUT"][i].rule = "RETURN" => filled["DNS-OUT"][i].arg = u
QueriesAnswered ==
    (/\ doing \notin {"down", "stop"} /\ fwFaults = 0 /\ proxy # NoProxy
     /\ proxy.port = dns.port /\ proxy.upstream = dns.upstream /\ Exempts(dns.upstream)) =>
        \A n \in Names : /\ Answer(n) # "lost"
                         /\ doing = "idle" /\ Answer(n) # "resolver" => (Answer(n) = "record") = (n \in dns.records)
=============================================================================
