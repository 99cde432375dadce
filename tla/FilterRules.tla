---------------------------- MODULE FilterRules ----------------------------
(***************************************************************************)
(* NetFilterCore::Start and Stop (netfilter/SocksRedirector.cpp) as far as *)
(* the driver's rule list goes.  nf_init starts the filtering thread, so   *)
(* flows are judged against the list while Start is still adding to it.    *)
(* The driver takes the first rule that matches, and lets a flow pass that *)
(* none matches; a field left at zero ("any") matches everything.          *)
(***************************************************************************)
EXTENDS Integers, Sequences, FiniteSetsExt

CONSTANTS RuleLists,       \* the configurations: lists of FilterRule
          Flows            \* the flows judged

PORTS == 65536             \* a port is an unsigned short

(* A rule of the settings: nothing keeps its two ints to ports.  A process *)
(* name is a sequence of pieces, of which a rule's may be "*".             *)
FilterRule == [portFrom : Int, portTo : Int,
               networkType : {"any", "TCP", "UDP"}, processName : Seq(STRING)]

ASSUME FilterRulesAssumption ==
    /\ RuleLists \subseteq Seq(FilterRule)
    /\ \A f \in Flows : /\ f.protocol \in {"TCP", "UDP"} /\ f.port \in 0 .. PORTS - 1
                        /\ f.process \in Seq(STRING)

VARIABLES rules,           \* PluginOptions::rules, as loaded with the plugin
          table,           \* external: the driver's list, head first
          pc, k            \* Start: which block it is in, how far in it

frVars == <<rules, table, pc, k>>

Private == <<"10/8", "127/8", "172.16/12", "192.168/16", "224/4">>

AnyRule == [ip_family |-> "any", protocol |-> "any", remoteIpAddress |-> "any",
            remotePort |-> 0, valueLow |-> 0, valueHigh |-> 0,
            processName |-> <<>>, filteringFlag |-> "NF_ALLOW"]

-----------------------------------------------------------------------------
(* The driver.                                                             *)

(* A rule's process name is a tail mask (nfdriver.h, NF_RULE_EX): it       *)
(* matches every process whose path ends in it, "*" standing for any       *)
(* pieces or none, and the empty one matches all.  c[i] is how far in the  *)
(* path the first i pieces of the mask reach.                              *)
TailMask(mask, name) ==
    \E c \in [0 .. Len(mask) -> 0 .. Len(name)] :
        /\ c[Len(mask)] = Len(name)
        /\ \A i \in 1 .. Len(mask) :
             \/ mask[i] = "*" /\ c[i - 1] <= c[i]
             \/ mask[i] # "*" /\ c[i] = c[i - 1] + 1 /\ name[c[i]] = mask[i]

Matches(r, f) ==
    /\ r.ip_family \in {"any", f.ip_family}
    /\ r.protocol \in {"any", f.protocol}
    /\ r.remoteIpAddress \in {"any", f.address}
    /\ r.remotePort \in {0, f.port}
    /\ \/ r.valueLow = 0 /\ r.valueHigh = 0
       \/ f.port \in r.valueLow .. r.valueHigh
    /\ TailMask(r.processName, f.process)

Verdict(f) ==
    LET hits == {i \in DOMAIN table : Matches(table[i], f)}
    IN  IF hits = {} THEN "NF_ALLOW" ELSE table[Min(hits)].filteringFlag

nf_addRule(r, toHead) == table' = IF toHead THEN <<r>> \o table ELSE Append(table, r)

-----------------------------------------------------------------------------
(* Mutants of UserRule: the upper end of the range is lost; so is the      *)
(* protocol.                                                               *)
UserRuleLow(rule) ==
    [AnyRule EXCEPT
        !.valueLow    = IF rule.portTo # 0 THEN rule.portFrom % PORTS ELSE 0,
        !.valueHigh   = IF rule.portTo # 0 THEN rule.portFrom % PORTS ELSE 0,
        !.remotePort  = IF rule.portTo = 0 THEN rule.portFrom % PORTS ELSE 0,
        !.protocol    = rule.networkType,
        !.processName = rule.processName]

UserRuleAnyProtocol(rule) ==
    [AnyRule EXCEPT
        !.valueLow    = IF rule.portTo # 0 THEN rule.portFrom % PORTS ELSE 0,
        !.valueHigh   = IF rule.portTo # 0 THEN rule.portTo % PORTS ELSE 0,
        !.remotePort  = IF rule.portTo = 0 THEN rule.portFrom % PORTS ELSE 0,
        !.processName = rule.processName]

(* A configured FilterRule as the NF_RULE_EX that Start adds for it; "any" *)
(* stands for NETWORK_UNSPECIFIED.                                         *)
UserRule(rule) ==
    [AnyRule EXCEPT
        !.valueLow    = IF rule.portTo # 0 THEN rule.portFrom % PORTS ELSE 0,
        !.valueHigh   = IF rule.portTo # 0 THEN rule.portTo % PORTS ELSE 0,
        !.remotePort  = IF rule.portTo = 0 THEN rule.portFrom % PORTS ELSE 0,
        !.protocol    = rule.networkType,
        !.processName = rule.processName]

(* Start: eh->init and nf_init succeed, or it returns with no rule added.  *)
Start ==
    /\ pc = "stopped"
    /\ pc' = "private" /\ k' = 1
    /\ UNCHANGED <<rules, table>>

addPrivate ==
    /\ pc = "private"
    /\ nf_addRule([AnyRule EXCEPT !.ip_family = "AF_INET",
                                  !.remoteIpAddress = Private[k]], FALSE)
    /\ \/ k < Len(Private) /\ k' = k + 1 /\ UNCHANGED pc
       \/ k = Len(Private) /\ pc' = "loopback6" /\ k' = 1
    /\ UNCHANGED rules

(* ::1, then the rule meant for ::ffff:127.0.0.1: inet_pton(AF_INET, ...)  *)
(* does not accept that text, and the address stays zero.                  *)
addLoopback6 ==
    /\ pc = "loopback6"
    /\ nf_addRule([AnyRule EXCEPT !.ip_family = "AF_INET6",
                                  !.remoteIpAddress = IF k = 1 THEN "::1" ELSE "any"], FALSE)
    /\ \/ k = 1 /\ k' = 2 /\ UNCHANGED pc
       \/ k = 2 /\ pc' = "user" /\ k' = 1
    /\ UNCHANGED rules

addUser ==
    /\ pc = "user"
    /\ \/ /\ k <= Len(rules)
          /\ nf_addRule(UserRule(rules[k]), TRUE)
          /\ k' = k + 1
          /\ UNCHANGED pc
       \/ /\ k > Len(rules)
          /\ pc' = "all" /\ k' = 1
          /\ UNCHANGED table
    /\ UNCHANGED rules

addProxyAll ==
    /\ pc = "all"
    /\ nf_addRule(IF k = 1
                  THEN [AnyRule EXCEPT !.protocol = "TCP",
                                       !.filteringFlag = "NF_INDICATE_CONNECT_REQUESTS"]
                  ELSE [AnyRule EXCEPT !.protocol = "UDP",
                                       !.filteringFlag = "NF_FILTER"], FALSE)
    /\ \/ k = 1 /\ k' = 2 /\ UNCHANGED pc
       \/ k = 2 /\ pc' = "running" /\ k' = 1
    /\ UNCHANGED rules

(* Stop: nf_free detaches from the driver, which drops its rules.          *)
Stop ==
    /\ pc = "running"
    /\ table' = <<>>
    /\ pc' = "stopped"
    /\ UNCHANGED <<rules, k>>

(* InitializePlugin loads the rules once; SettingsUpdated does nothing.     *)
frInit ==
    /\ rules \in RuleLists
    /\ table = <<>>
    /\ pc = "stopped" /\ k = 1

frNext == Start \/ addPrivate \/ addLoopback6 \/ addUser \/ addProxyAll \/ Stop

frSpec == frInit /\ [][frNext]_frVars

-----------------------------------------------------------------------------
(* What a configured rule says, in the terms of its settings: the flows it *)
(* names, by protocol and by what its process ends in, and their ports.    *)
Names(rule, f) ==
    /\ rule.networkType \in {"any", f.protocol}
    /\ TailMask(rule.processName, f.process)

Exempts(rule, f) ==
    /\ Names(rule, f)
    /\ \/ rule.portTo # 0 /\ rule.portFrom <= f.port /\ f.port <= rule.portTo
       \/ rule.portTo = 0 /\ rule.portFrom \in {0, f.port}

(* Does the conversion to unsigned short leave the rule's ports alone?     *)
Fits(rule) == rule.portFrom \in 0 .. PORTS - 1 /\ rule.portTo \in 0 .. PORTS - 1

Exempt(f) ==
    \/ \E i \in DOMAIN rules : Fits(rules[i]) /\ Exempts(rules[i], f)
    \/ f.ip_family = "AF_INET" /\ \E i \in DOMAIN Private : f.address = Private[i]

(* The flows no rule is about, not even one that does not fit.             *)
Rest == {f \in Flows : /\ ~Exempt(f)
                       /\ \A i \in DOMAIN rules : Names(rules[i], f) => Fits(rules[i])}

(* A flow that is exempt, as private or by a configured rule whose numbers  *)
(* are ports, is redirected at no time, whatever other rules there are and  *)
(* not even between two of them being added: the proxy's own connections    *)
(* are never sent back to it.                                               *)
ExemptNeverRedirected == \A f \in Flows : Exempt(f) => Verdict(f) = "NF_ALLOW"

(* Once Start has returned every IPv4 flow that is not exempt is            *)
(* redirected, TCP by its connect request and UDP packet by packet.  A rule *)
(* whose numbers are no ports is cut to another rule, unseen; what that one *)
(* lets through is still of the processes and the protocol it names, and no *)
(* other flow escapes.                                                      *)
RedirectsTheRest ==
    pc = "running" => \A f \in Rest : f.ip_family = "AF_INET" =>
        Verdict(f) = IF f.protocol = "TCP" THEN "NF_INDICATE_CONNECT_REQUESTS"
                                           ELSE "NF_FILTER"

(* What the comment "Proxy All" says of the same rules, for IPv6 too.       *)
ProxyAll ==
    pc = "running" => \A f \in Rest : f.address # "::1" => Verdict(f) # "NF_ALLOW"
=============================================================================
