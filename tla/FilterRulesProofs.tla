------------------------- MODULE FilterRulesProofs -------------------------
(***************************************************************************)
(* Proofs about FilterRules, for every list of configured rules and every  *)
(* flow.                                                                   *)
(***************************************************************************)
EXTENDS FilterRules, WellFoundedInduction, SequenceTheorems, TLAPS

(* The rules Start adds besides the configured ones.                       *)
PrivateRule(i)  == [AnyRule EXCEPT !.ip_family = "AF_INET", !.remoteIpAddress = Private[i]]
LoopbackRule(i) == [AnyRule EXCEPT !.ip_family = "AF_INET6",
                                   !.remoteIpAddress = IF i = 1 THEN "::1" ELSE "any"]
TcpRule == [AnyRule EXCEPT !.protocol = "TCP", !.filteringFlag = "NF_INDICATE_CONNECT_REQUESTS"]
UdpRule == [AnyRule EXCEPT !.protocol = "UDP", !.filteringFlag = "NF_FILTER"]

Exemptions == {PrivateRule(i) : i \in DOMAIN Private} \cup {LoopbackRule(i) : i \in {1, 2}}
                \cup {UserRule(rules[i]) : i \in DOMAIN rules}
Redirections == {TcpRule, UdpRule}

Listed(r) == \E i \in DOMAIN table : table[i] = r

(* How far Start has come.                                                 *)
ProgressInv ==
    /\ rules \in RuleLists /\ k \in Nat \ {0}
    /\ pc \in {"stopped", "private", "loopback6", "user", "all", "running"}
    /\ pc = "private" => k <= Len(Private)
    /\ pc \in {"loopback6", "all"} => k <= 2

(* The list holds rules of Start only, and no redirection before Start has *)
(* come to these.                                                          *)
TableInv ==
    /\ table \in Seq(Exemptions \cup Redirections)
    /\ pc \notin {"all", "running"} => \A i \in DOMAIN table : table[i] \in Exemptions

(* The rules that have been passed are in it,                              *)
ListedInv ==
    /\ pc \in {"loopback6", "user", "all", "running"} =>
         \A i \in DOMAIN Private : Listed(PrivateRule(i))
    /\ pc = "private" => \A i \in 1 .. k - 1 : Listed(PrivateRule(i))
    /\ pc \in {"all", "running"} => \A i \in DOMAIN rules : Listed(UserRule(rules[i]))
    /\ pc = "user" => \A i \in DOMAIN rules : i < k => Listed(UserRule(rules[i]))
    /\ pc = "running" => Listed(TcpRule) /\ Listed(UdpRule)
    /\ pc = "all" /\ k = 2 => Listed(TcpRule)

(* and the redirections come last.                                         *)
OrderInv ==
    \A i, j \in DOMAIN table :
        table[i] \in Exemptions /\ table[j] \in Redirections => i < j

(* The inductive invariant.                                                *)
frInv == ProgressInv /\ TableInv /\ ListedInv /\ OrderInv
-----------------------------------------------------------------------------
(* The least element of a set of numbers.                                  *)
LEMMA MinIs ==
    ASSUME NEW S, S \subseteq Nat, S # {}
    PROVE  Min(S) \in S /\ \A y \in S : Min(S) <= y
  <1> DEFINE R == OpToRel(<, Nat)
  <1>1. IsWellFoundedOn(R, Nat)
    BY NatLessThanWellFounded
  <1>2. \A x, y \in Nat : y < x => <<y, x>> \in R
    BY DEF OpToRel
  <1> HIDE DEF R
  <1>3. PICK x \in S : \A y \in S : ~(<<y, x>> \in R)
    BY <1>1, WFMin
  <1>4. ASSUME NEW y \in S PROVE x <= y
    <2>1. x \in Nat /\ y \in Nat /\ ~(y < x)
      BY <1>2, <1>3
    <2> QED
      BY <2>1
  <1> QED
    BY <1>4 DEF Min

(* There are ports.                                                        *)
LEMMA SomePorts == PORTS \in Nat \ {0}
  BY DEF PORTS

(* A port survives its conversion to unsigned short.                       *)
LEMMA PortFits ==
    ASSUME NEW p \in 0 .. PORTS - 1
    PROVE  p % PORTS = p
  <1>1. PORTS \in Nat \ {0}
    BY SomePorts
  <1>2. p \in Int /\ 0 <= p /\ p < PORTS
    BY <1>1
  <1> QED
    BY <1>1, <1>2

(* What a rule does to a flow it matches.                                  *)
LEMMA Flags ==
    /\ \A r \in Exemptions : r.filteringFlag = "NF_ALLOW"
    /\ TcpRule.filteringFlag = "NF_INDICATE_CONNECT_REQUESTS" /\ UdpRule.filteringFlag = "NF_FILTER"
    /\ TcpRule \notin Exemptions /\ UdpRule \notin Exemptions
  <1>1. \A i : PrivateRule(i).filteringFlag = "NF_ALLOW" /\ LoopbackRule(i).filteringFlag = "NF_ALLOW"
    BY DEF PrivateRule, LoopbackRule, AnyRule
  <1>2. \A rule : UserRule(rule).filteringFlag = "NF_ALLOW"
    BY DEF UserRule, AnyRule
  <1>3. \A r \in Exemptions : r.filteringFlag = "NF_ALLOW"
    BY <1>1, <1>2 DEF Exemptions
  <1>4. TcpRule.filteringFlag = "NF_INDICATE_CONNECT_REQUESTS" /\ UdpRule.filteringFlag = "NF_FILTER"
    BY DEF TcpRule, UdpRule, AnyRule
  <1> QED
    BY <1>3, <1>4

(* The mask of a rule for all processes matches every process.             *)
LEMMA NoMask ==
    ASSUME NEW name, name \in Seq(STRING)
    PROVE  TailMask(<<>>, name)
  <1>1. Len(name) \in Nat /\ Len(<<>>) = 0
    OBVIOUS
  <1> DEFINE c == [i \in 0 .. 0 |-> Len(name)]
  <1>2. c \in [0 .. Len(<<>>) -> 0 .. Len(name)] /\ c[Len(<<>>)] = Len(name)
    BY <1>1
  <1>3. 1 .. Len(<<>>) = {}
    BY <1>1
  <1> QED
    BY <1>2, <1>3 DEF TailMask

(* The flows the rules for private addresses, for loopback over IPv6 and   *)
(* for all the rest match.                                                 *)
LEMMA BuiltinMatches ==
    ASSUME NEW f, f.process \in Seq(STRING)
    PROVE  /\ \A i \in DOMAIN Private :
                Matches(PrivateRule(i), f) <=> f.ip_family = "AF_INET" /\ f.address = Private[i]
           /\ \A i : Matches(LoopbackRule(i), f) => f.ip_family = "AF_INET6"
           /\ Matches(TcpRule, f) <=> f.protocol = "TCP"
           /\ Matches(UdpRule, f) <=> f.protocol = "UDP"
  <1>0. TailMask(<<>>, f.process)
    BY NoMask
  <1>1. ASSUME NEW i \in DOMAIN Private
        PROVE  Matches(PrivateRule(i), f) <=> f.ip_family = "AF_INET" /\ f.address = Private[i]
    <2>1. Private[i] # "any"
      BY DEF Private
    <2> QED
      BY <1>0, <2>1 DEF Matches, PrivateRule, AnyRule
  <1>2. \A i : Matches(LoopbackRule(i), f) => f.ip_family = "AF_INET6"
    BY DEF Matches, LoopbackRule, AnyRule
  <1>3. /\ Matches(TcpRule, f) <=> f.protocol = "TCP"
        /\ Matches(UdpRule, f) <=> f.protocol = "UDP"
    BY <1>0 DEF Matches, TcpRule, UdpRule, AnyRule
  <1> QED
    BY <1>1, <1>2, <1>3

(* Whatever its ports, a configured rule matches flows it names only.      *)
LEMMA UserNames ==
    ASSUME NEW rule, NEW f, Matches(UserRule(rule), f)
    PROVE  Names(rule, f)
  <1>1. UserRule(rule).protocol = rule.networkType /\ UserRule(rule).processName = rule.processName
    BY DEF UserRule, AnyRule
  <1> QED
    BY <1>1 DEF Matches, Names

(* If these are ports, it matches the flows it says.                       *)
LEMMA UserMatches ==
    ASSUME NEW rule, Fits(rule), NEW f, f.port \in 0 .. PORTS - 1
    PROVE  Matches(UserRule(rule), f) <=> Exempts(rule, f)
  <1> DEFINE r == UserRule(rule)
  <1>0. PORTS \in Nat
    BY SomePorts
  <1>1. rule.portFrom \in Nat /\ rule.portTo \in Nat /\ f.port \in Nat
    BY <1>0 DEF Fits
  <1>2. rule.portFrom % PORTS = rule.portFrom /\ rule.portTo % PORTS = rule.portTo
    BY PortFits DEF Fits
  <1>3. /\ r.ip_family = "any" /\ r.remoteIpAddress = "any"
        /\ r.protocol = rule.networkType /\ r.processName = rule.processName
        /\ r.valueLow = IF rule.portTo # 0 THEN rule.portFrom ELSE 0
        /\ r.valueHigh = IF rule.portTo # 0 THEN rule.portTo ELSE 0
        /\ r.remotePort = IF rule.portTo = 0 THEN rule.portFrom ELSE 0
    BY <1>2 DEF UserRule, AnyRule
  <1> HIDE DEF r
  <1>4. Matches(r, f) <=> /\ Names(rule, f)
                          /\ r.remotePort \in {0, f.port}
                          /\ \/ r.valueLow = 0 /\ r.valueHigh = 0
                             \/ f.port \in r.valueLow .. r.valueHigh
    BY <1>3 DEF Matches, Names
  <1>5. ASSUME rule.portTo # 0 PROVE Matches(r, f) <=> Exempts(rule, f)
    <2>1. r.valueLow = rule.portFrom /\ r.valueHigh = rule.portTo /\ r.remotePort = 0
      BY <1>3, <1>5
    <2>2. f.port \in rule.portFrom .. rule.portTo <=> rule.portFrom <= f.port /\ f.port <= rule.portTo
      BY <1>1
    <2> QED
      BY <1>4, <1>5, <2>1, <2>2 DEF Exempts
  <1>6. ASSUME rule.portTo = 0 PROVE Matches(r, f) <=> Exempts(rule, f)
    <2>1. r.valueLow = 0 /\ r.valueHigh = 0 /\ r.remotePort = rule.portFrom
      BY <1>3, <1>6
    <2> QED
      BY <1>4, <1>6, <2>1 DEF Exempts
  <1> QED
    BY <1>5, <1>6 DEF r
-----------------------------------------------------------------------------
(* What nf_addRule does to the list.                                       *)
LEMMA TailAdded ==
    ASSUME NEW T, table \in Seq(T), NEW r \in T, nf_addRule(r, FALSE)
    PROVE  /\ table' \in Seq(T) /\ DOMAIN table = 1 .. Len(table) /\ Len(table) \in Nat
           /\ DOMAIN table' = 1 .. Len(table) + 1
           /\ \A i \in DOMAIN table : table'[i] = table[i]
           /\ table'[Len(table) + 1] = r
  <1>1. table' = Append(table, r)
    BY DEF nf_addRule
  <1>2. table' \in Seq(T) /\ Len(table') = Len(table) + 1
    BY <1>1, AppendProperties
  <1>3. /\ \A i \in 1 .. Len(table) : table'[i] = table[i]
        /\ table'[Len(table) + 1] = r
    BY <1>1, AppendProperties
  <1> QED
    BY <1>2, <1>3

(* At the head, the rules that were there move on by one.                  *)
LEMMA HeadAdded ==
    ASSUME NEW T, table \in Seq(T), NEW r \in T, nf_addRule(r, TRUE)
    PROVE  /\ table' \in Seq(T) /\ DOMAIN table = 1 .. Len(table) /\ Len(table) \in Nat
           /\ DOMAIN table' = 1 .. Len(table) + 1
           /\ \A i \in DOMAIN table : table'[i + 1] = table[i]
           /\ table'[1] = r
  <1>1. table' = <<r>> \o table /\ <<r>> \in Seq(T) /\ Len(<<r>>) = 1
    BY DEF nf_addRule
  <1>2. /\ table' \in Seq(T) /\ Len(table') = 1 + Len(table)
        /\ \A i \in 1 .. 1 + Len(table) : table'[i] = IF i <= 1 THEN <<r>>[i] ELSE table[i - 1]
    BY <1>1, ConcatProperties
  <1>3. Len(table) \in Nat /\ DOMAIN table = 1 .. Len(table) /\ DOMAIN table' = 1 .. Len(table) + 1
    BY <1>2
  <1>4. \A i \in 1 .. Len(table) : i + 1 \in 1 .. 1 + Len(table) /\ ~(i + 1 <= 1) /\ (i + 1) - 1 = i
    BY <1>3
  <1>5. \A i \in 1 .. Len(table) : table'[i + 1] = table[i]
    BY <1>2, <1>4
  <1>6. table'[1] = r
    BY <1>2, <1>3
  <1> QED
    BY <1>2, <1>3, <1>5, <1>6

(* Either way the rule is listed, and nothing else changes in what is.     *)
LEMMA Added ==
    ASSUME NEW T, table \in Seq(T), NEW r \in T, NEW toHead \in BOOLEAN, nf_addRule(r, toHead)
    PROVE  /\ table' \in Seq(T)
           /\ Listed(r)'
           /\ \A q : Listed(q) => Listed(q)'
           /\ \A i \in DOMAIN table' : table'[i] = r \/ Listed(table'[i])
  <1>1. CASE toHead = FALSE
    <2>1. /\ table' \in Seq(T) /\ DOMAIN table = 1 .. Len(table) /\ Len(table) \in Nat
          /\ DOMAIN table' = 1 .. Len(table) + 1
          /\ \A i \in DOMAIN table : table'[i] = table[i]
          /\ table'[Len(table) + 1] = r
      BY <1>1, TailAdded
    <2>2. \A i \in DOMAIN table' : i \in DOMAIN table \/ i = Len(table) + 1
      BY <2>1
    <2> QED
      BY <2>1, <2>2 DEF Listed
  <1>2. CASE toHead = TRUE
    <2>1. /\ table' \in Seq(T) /\ DOMAIN table = 1 .. Len(table) /\ Len(table) \in Nat
          /\ DOMAIN table' = 1 .. Len(table) + 1
          /\ \A i \in DOMAIN table : table'[i + 1] = table[i]
          /\ table'[1] = r
      BY <1>2, HeadAdded
    <2>2. \A i \in DOMAIN table : i + 1 \in DOMAIN table'
      BY <2>1
    <2>3. \A i \in DOMAIN table' : i = 1 \/ (i - 1 \in DOMAIN table /\ (i - 1) + 1 = i)
      BY <2>1
    <2>4. \A i \in DOMAIN table' : table'[i] = r \/ Listed(table'[i])
      BY <2>1, <2>3 DEF Listed
    <2>5. Listed(r)' /\ \A q : Listed(q) => Listed(q)'
      BY <2>1, <2>2 DEF Listed
    <2> QED
      BY <2>1, <2>4, <2>5
  <1> QED
    BY <1>1, <1>2

(* The list while Start is adding exemptions.                              *)
LEMMA ExemptionAdded ==
    ASSUME frInv, pc \notin {"all", "running"}, UNCHANGED rules,
           NEW r \in Exemptions, NEW toHead \in BOOLEAN, nf_addRule(r, toHead)
    PROVE  TableInv' /\ OrderInv' /\ Listed(r)' /\ \A q : Listed(q) => Listed(q)'
  <1>0. Exemptions' = Exemptions /\ Redirections' = Redirections
    BY DEF Exemptions, Redirections
  <1>1. table \in Seq(Exemptions \cup Redirections) /\ r \in Exemptions \cup Redirections
    BY DEF frInv, TableInv
  <1>2. /\ table' \in Seq(Exemptions \cup Redirections)
        /\ Listed(r)' /\ (\A q : Listed(q) => Listed(q)')
        /\ \A i \in DOMAIN table' : table'[i] = r \/ Listed(table'[i])
    BY <1>1, Added
  <1>3. \A i \in DOMAIN table' : table'[i] \in Exemptions
    BY <1>2 DEF frInv, TableInv, Listed
  <1>4. TableInv'
    BY <1>0, <1>2, <1>3 DEF TableInv
  <1>5. OrderInv'
    BY <1>0, <1>3, Flags DEF OrderInv, Redirections
  <1> QED
    BY <1>2, <1>4, <1>5

(* And the redirections.                                                   *)
LEMMA RedirectionAdded ==
    ASSUME frInv, UNCHANGED rules, pc' \in {"all", "running"},
           NEW r \in Redirections, nf_addRule(r, FALSE)
    PROVE  TableInv' /\ OrderInv' /\ Listed(r)' /\ \A q : Listed(q) => Listed(q)'
  <1>0. Exemptions' = Exemptions /\ Redirections' = Redirections
    BY DEF Exemptions, Redirections
  <1>1. table \in Seq(Exemptions \cup Redirections) /\ r \in Exemptions \cup Redirections
    BY DEF frInv, TableInv
  <1>2. /\ table' \in Seq(Exemptions \cup Redirections)
        /\ Listed(r)' /\ (\A q : Listed(q) => Listed(q)')
    BY <1>1, Added
  <1>3. TableInv'
    BY <1>0, <1>2 DEF TableInv
  <1>4. OrderInv'
    <2>1. /\ DOMAIN table = 1 .. Len(table) /\ Len(table) \in Nat
          /\ DOMAIN table' = 1 .. Len(table) + 1
          /\ \A i \in DOMAIN table : table'[i] = table[i]
          /\ table'[Len(table) + 1] = r
      BY <1>1, TailAdded
    <2>2. r \notin Exemptions
      BY Flags DEF Redirections
    <2>3. ASSUME NEW i \in DOMAIN table', NEW j \in DOMAIN table',
                 table'[i] \in Exemptions, table'[j] \in Redirections
          PROVE  i < j
      <3>1. i \in DOMAIN table /\ i <= Len(table)
        BY <2>1, <2>2, <2>3
      <3>2. CASE j = Len(table) + 1
        BY <2>1, <3>1, <3>2
      <3>3. CASE j \in DOMAIN table
        BY <2>1, <2>3, <3>1, <3>3 DEF frInv, OrderInv
      <3> QED
        BY <2>1, <3>2, <3>3
    <2> QED
      BY <1>0, <2>3 DEF OrderInv
  <1> QED
    BY <1>2, <1>3, <1>4
(* The rules that stay listed, for the blocks of Start that come later.    *)
LEMMA StillListed ==
    ASSUME UNCHANGED rules, \A q : Listed(q) => Listed(q)'
    PROVE  /\ \A i : Listed(PrivateRule(i)) => Listed(PrivateRule(i))'
           /\ \A i : Listed(UserRule(rules[i])) => Listed(UserRule(rules[i]))'
           /\ Listed(TcpRule) => Listed(TcpRule)'
           /\ Listed(UdpRule) => Listed(UdpRule)'
  <1>1. \A i : UserRule(rules[i])' = UserRule(rules[i])
    BY DEF UserRule
  <1>2. \A i : PrivateRule(i)' = PrivateRule(i)
    OBVIOUS
  <1>3. TcpRule' = TcpRule /\ UdpRule' = UdpRule
    OBVIOUS
  <1> QED
    BY <1>1, <1>2, <1>3 DEF Listed

(* Before Start the list is empty.                                         *)
LEMMA InitRules == frInit => frInv
  <1> SUFFICES ASSUME frInit PROVE frInv
    OBVIOUS
  <1>1. rules \in RuleLists /\ table = <<>> /\ pc = "stopped" /\ k = 1
    BY DEF frInit
  <1>2. DOMAIN table = {} /\ table \in Seq(Exemptions \cup Redirections)
    BY <1>1
  <1> QED
    BY <1>1, <1>2 DEF frInv, ProgressInv, TableInv, ListedInv, OrderInv

(* Start: no rule has been added.                                          *)
LEMMA StartKeeps ==
    ASSUME frInv, Start
    PROVE  frInv'
  <1>1. pc = "stopped" /\ pc' = "private" /\ k' = 1 /\ UNCHANGED <<rules, table>>
    BY DEF Start
  <1>2. Exemptions' = Exemptions /\ Redirections' = Redirections
    BY <1>1 DEF Exemptions, Redirections
  <1>3. ProgressInv'
    BY <1>1 DEF frInv, ProgressInv, Private
  <1>4. TableInv' /\ OrderInv'
    BY <1>1, <1>2 DEF frInv, TableInv, OrderInv
  <1>5. ListedInv'
    BY <1>1 DEF ListedInv
  <1> QED
    BY <1>3, <1>4, <1>5 DEF frInv
(* The private networks, one after the other.                              *)
LEMMA PrivateKeeps ==
    ASSUME frInv, addPrivate
    PROVE  frInv'
  <1>0. PICK n : n = k
    OBVIOUS
  <1>1. /\ pc = "private" /\ UNCHANGED rules /\ nf_addRule(PrivateRule(n), FALSE)
        /\ \/ n < Len(Private) /\ k' = n + 1 /\ pc' = "private"
           \/ n = Len(Private) /\ k' = 1 /\ pc' = "loopback6"
    BY <1>0 DEF addPrivate, PrivateRule
  <1>2. Len(Private) = 5 /\ DOMAIN Private = 1 .. 5
    BY DEF Private
  <1>3. n \in Nat \ {0} /\ n <= 5 /\ rules \in RuleLists
    BY <1>0, <1>1, <1>2 DEF frInv, ProgressInv
  <1>4. PrivateRule(n) \in Exemptions
    BY <1>2, <1>3 DEF Exemptions
  <1>5. TableInv' /\ OrderInv' /\ Listed(PrivateRule(n))' /\ \A q : Listed(q) => Listed(q)'
    BY <1>1, <1>4, ExemptionAdded
  <1>6. ProgressInv'
    BY <1>1, <1>2, <1>3 DEF ProgressInv
  <1>7. \A i \in 1 .. n - 1 : Listed(PrivateRule(i))
    BY <1>0, <1>1 DEF frInv, ListedInv
  <1>8. \A i \in 1 .. n : Listed(PrivateRule(i))'
    BY <1>1, <1>3, <1>5, <1>7, StillListed
  <1>9. ListedInv'
    <2>1. CASE n < Len(Private) /\ k' = n + 1 /\ pc' = "private"
      <3>1. (n + 1) - 1 = n
        BY <1>3
      <3> QED
        BY <1>8, <2>1, <3>1 DEF ListedInv
    <2>2. CASE n = Len(Private) /\ k' = 1 /\ pc' = "loopback6"
      BY <1>2, <1>8, <2>2 DEF ListedInv
    <2> QED
      BY <1>1, <2>1, <2>2
  <1> QED
    BY <1>5, <1>6, <1>9 DEF frInv

(* The two rules for loopback over IPv6.                                   *)
LEMMA LoopbackKeeps ==
    ASSUME frInv, addLoopback6
    PROVE  frInv'
  <1>0. PICK n : n = k
    OBVIOUS
  <1>1. /\ pc = "loopback6" /\ UNCHANGED rules /\ nf_addRule(LoopbackRule(n), FALSE)
        /\ \/ n = 1 /\ k' = 2 /\ pc' = "loopback6"
           \/ n = 2 /\ k' = 1 /\ pc' = "user"
    BY <1>0 DEF addLoopback6, LoopbackRule
  <1>2. LoopbackRule(n) \in Exemptions
    BY <1>1 DEF Exemptions
  <1>3. TableInv' /\ OrderInv' /\ \A q : Listed(q) => Listed(q)'
    BY <1>1, <1>2, ExemptionAdded
  <1>4. ProgressInv'
    BY <1>1 DEF frInv, ProgressInv
  <1>5. \A i \in DOMAIN Private : Listed(PrivateRule(i))'
    BY <1>1, <1>3, StillListed DEF frInv, ListedInv
  <1>6. rules' \in Seq(FilterRule)
    BY <1>4, FilterRulesAssumption DEF ProgressInv
  <1>7. DOMAIN rules' = 1 .. Len(rules')
    BY <1>6
  <1>8. ListedInv'
    BY <1>1, <1>5, <1>7 DEF ListedInv
  <1> QED
    BY <1>3, <1>4, <1>8 DEF frInv

(* The configured rules, each put before all the others.                   *)
LEMMA UserKeeps ==
    ASSUME frInv, addUser
    PROVE  frInv'
  <1>0. PICK n : n = k
    OBVIOUS
  <1>1. pc = "user" /\ UNCHANGED rules
    BY DEF addUser
  <1>2. rules \in RuleLists /\ n \in Nat \ {0}
    BY <1>0 DEF frInv, ProgressInv
  <1>3. rules \in Seq(FilterRule)
    BY <1>2, FilterRulesAssumption
  <1>4. DOMAIN rules = 1 .. Len(rules) /\ Len(rules) \in Nat
    BY <1>3
  <1>5. /\ \A i \in DOMAIN Private : Listed(PrivateRule(i))
        /\ \A i \in DOMAIN rules : i < n => Listed(UserRule(rules[i]))
    BY <1>0, <1>1 DEF frInv, ListedInv
  <1>6. \/ n <= Len(rules) /\ nf_addRule(UserRule(rules[n]), TRUE) /\ k' = n + 1 /\ pc' = pc
        \/ n > Len(rules) /\ pc' = "all" /\ k' = 1 /\ UNCHANGED table
    BY <1>0 DEF addUser
  <1>7. CASE n <= Len(rules) /\ nf_addRule(UserRule(rules[n]), TRUE) /\ k' = n + 1 /\ pc' = pc
    <2>1. nf_addRule(UserRule(rules[n]), TRUE) /\ k' = n + 1 /\ pc' = "user"
      BY <1>1, <1>7
    <2>2. n \in DOMAIN rules
      BY <1>2, <1>4, <1>7
    <2>3. UserRule(rules[n]) \in Exemptions
      BY <2>2 DEF Exemptions
    <2>4. PICK r : r = UserRule(rules[n])
      OBVIOUS
    <2>5. r \in Exemptions /\ nf_addRule(r, TRUE)
      BY <2>1, <2>3, <2>4
    <2>6. TableInv' /\ OrderInv' /\ Listed(r)' /\ \A q : Listed(q) => Listed(q)'
      BY <1>1, <2>5, ExemptionAdded
    <2>7. \A i \in DOMAIN rules : i < n => Listed(UserRule(rules[i]))'
      BY <1>1, <1>5, <2>6, StillListed
    <2>8. r = UserRule(rules'[n])
      BY <1>1, <2>4
    <2>9. Listed(UserRule(rules[n]))'
      BY <2>6, <2>8 DEF Listed
    <2>10. \A i \in DOMAIN rules : i < n + 1 => i < n \/ i = n
      BY <1>2, <1>4
    <2>11. \A i \in DOMAIN rules' : i < k' => Listed(UserRule(rules[i]))'
      BY <1>1, <2>1, <2>7, <2>9, <2>10
    <2>12. \A i \in DOMAIN Private : Listed(PrivateRule(i))'
      BY <1>1, <1>5, <2>6, StillListed
    <2>13. ListedInv'
      BY <2>1, <2>11, <2>12 DEF ListedInv
    <2>14. ProgressInv'
      BY <1>1, <1>2, <2>1 DEF ProgressInv
    <2> QED
      BY <2>6, <2>13, <2>14 DEF frInv
  <1>8. CASE n > Len(rules) /\ pc' = "all" /\ k' = 1 /\ UNCHANGED table
    <2>1. pc' = "all" /\ k' = 1 /\ UNCHANGED table
      BY <1>8
    <2>2. Exemptions' = Exemptions /\ Redirections' = Redirections
      BY <1>1 DEF Exemptions, Redirections
    <2>3. TableInv' /\ OrderInv'
      BY <2>1, <2>2 DEF frInv, TableInv, OrderInv
    <2>4. ProgressInv'
      BY <1>1, <1>2, <2>1 DEF ProgressInv
    <2>5. \A i \in DOMAIN rules : i < n
      BY <1>2, <1>4, <1>8
    <2>6. \A q : Listed(q) => Listed(q)'
      BY <2>1 DEF Listed
    <2>7. /\ \A i \in DOMAIN Private : Listed(PrivateRule(i))'
          /\ \A i \in DOMAIN rules : Listed(UserRule(rules[i]))'
      BY <1>1, <1>5, <2>5, <2>6, StillListed
    <2>8. ListedInv'
      BY <1>1, <2>1, <2>7 DEF ListedInv
    <2> QED
      BY <2>3, <2>4, <2>8 DEF frInv
  <1> QED
    BY <1>7, <1>8, <1>6
(* The two rules that redirect the rest.                                   *)
LEMMA AllKeeps ==
    ASSUME frInv, addProxyAll
    PROVE  frInv'
  <1>0. pc = "all" /\ UNCHANGED rules
    BY DEF addProxyAll
  <1>1. rules \in RuleLists
    BY DEF frInv, ProgressInv
  <1>2. /\ \A i \in DOMAIN Private : Listed(PrivateRule(i))
        /\ \A i \in DOMAIN rules : Listed(UserRule(rules[i]))
    BY <1>0 DEF frInv, ListedInv
  <1>3. CASE k = 1
    <2>1. nf_addRule(TcpRule, FALSE)
      BY <1>3 DEF addProxyAll, TcpRule
    <2>2. k' = 2 /\ pc' = "all"
      BY <1>0, <1>3 DEF addProxyAll
    <2>3. TableInv' /\ OrderInv' /\ Listed(TcpRule)' /\ \A q : Listed(q) => Listed(q)'
      <3>1. TcpRule \in Redirections
        BY DEF Redirections
      <3> QED
        BY <1>0, <2>1, <2>2, <3>1, RedirectionAdded
    <2>4. /\ \A i \in DOMAIN Private : Listed(PrivateRule(i))'
          /\ \A i \in DOMAIN rules : Listed(UserRule(rules[i]))'
      BY <1>0, <1>2, <2>3, StillListed
    <2>5. ListedInv'
      BY <1>0, <2>2, <2>3, <2>4 DEF ListedInv
    <2>6. ProgressInv'
      BY <1>0, <1>1, <2>2 DEF ProgressInv
    <2> QED
      BY <2>3, <2>5, <2>6 DEF frInv
  <1>4. CASE k = 2
    <2>1. nf_addRule(UdpRule, FALSE)
      <3>1. k # 1
        BY <1>4
      <3> QED
        BY <3>1 DEF addProxyAll, UdpRule
    <2>2. k' = 1 /\ pc' = "running"
      BY <1>0, <1>4 DEF addProxyAll
    <2>3. TableInv' /\ OrderInv' /\ Listed(UdpRule)' /\ \A q : Listed(q) => Listed(q)'
      <3>1. UdpRule \in Redirections
        BY DEF Redirections
      <3> QED
        BY <1>0, <2>1, <2>2, <3>1, RedirectionAdded
    <2>4. Listed(TcpRule)
      BY <1>0, <1>4 DEF frInv, ListedInv
    <2>5. /\ \A i \in DOMAIN Private : Listed(PrivateRule(i))'
          /\ \A i \in DOMAIN rules : Listed(UserRule(rules[i]))'
          /\ Listed(TcpRule)'
      BY <1>0, <1>2, <2>3, <2>4, StillListed
    <2>6. ListedInv'
      BY <1>0, <2>2, <2>3, <2>5 DEF ListedInv
    <2>7. ProgressInv'
      BY <1>0, <1>1, <2>2 DEF ProgressInv
    <2> QED
      BY <2>3, <2>6, <2>7 DEF frInv
  <1> QED
    BY <1>3, <1>4 DEF addProxyAll

(* Stop: the list is empty again.                                          *)
LEMMA StopKeeps ==
    ASSUME frInv, Stop
    PROVE  frInv'
  <1>1. table' = <<>> /\ pc' = "stopped" /\ UNCHANGED <<rules, k>>
    BY DEF Stop
  <1>2. DOMAIN table' = {} /\ table' \in Seq((Exemptions \cup Redirections)')
    BY <1>1
  <1>3. TableInv' /\ OrderInv'
    BY <1>1, <1>2 DEF TableInv, OrderInv
  <1>4. ProgressInv'
    BY <1>1 DEF frInv, ProgressInv
  <1>5. ListedInv'
    BY <1>1 DEF ListedInv
  <1> QED
    BY <1>3, <1>4, <1>5 DEF frInv

(* Every step keeps the invariant.                                         *)
LEMMA NextRules == frInv /\ [frNext]_frVars => frInv'
  <1> SUFFICES ASSUME frInv, [frNext]_frVars PROVE frInv'
    OBVIOUS
  <1>1. CASE UNCHANGED frVars
    <2>1. UNCHANGED <<rules, table, pc, k>>
      BY <1>1 DEF frVars
    <2>2. Exemptions' = Exemptions /\ Redirections' = Redirections
      BY <2>1 DEF Exemptions, Redirections
    <2>3. TableInv' /\ OrderInv' /\ ProgressInv'
      BY <2>1, <2>2 DEF frInv, TableInv, OrderInv, ProgressInv
    <2>4. ListedInv'
      BY <2>1 DEF frInv, ListedInv, Listed
    <2> QED
      BY <2>3, <2>4 DEF frInv
  <1> QED
    BY <1>1, StartKeeps, PrivateKeeps, LoopbackKeeps, UserKeeps, AllKeeps, StopKeeps DEF frNext
-----------------------------------------------------------------------------
(* The verdict on a flow that only exemptions match, or an exemption       *)
(* before any other rule: it is let pass.                                  *)
LEMMA LetsPass ==
    ASSUME frInv, NEW f,
           \/ \A i \in DOMAIN table : table[i] \in Exemptions
           \/ \E r \in Exemptions : Listed(r) /\ Matches(r, f)
    PROVE  Verdict(f) = "NF_ALLOW"
  <1> DEFINE hits == {i \in DOMAIN table : Matches(table[i], f)}
  <1>1. table \in Seq(Exemptions \cup Redirections)
    BY DEF frInv, TableInv
  <1>2. DOMAIN table = 1 .. Len(table) /\ Len(table) \in Nat /\ DOMAIN table \subseteq Nat
    BY <1>1
  <1>3. hits \subseteq DOMAIN table /\ hits \subseteq Nat
    BY <1>2
  <1>4. \A i \in DOMAIN table : table[i] \in Exemptions \cup Redirections
    BY <1>1, <1>2
  <1>5. CASE hits = {}
    BY <1>5 DEF Verdict
  <1>6. CASE hits # {}
    <2> DEFINE m == Min(hits)
    <2>1. Verdict(f) = table[m].filteringFlag
      BY <1>6 DEF Verdict
    <2>2. m \in hits /\ \A y \in hits : m <= y
      BY <1>3, <1>6, MinIs
    <2>3. m \in DOMAIN table /\ m \in Nat
      BY <1>3, <2>2
    <2> HIDE DEF m
    <2>4. table[m] \in Exemptions
      <3>1. CASE \A i \in DOMAIN table : table[i] \in Exemptions
        BY <2>3, <3>1
      <3>2. CASE \E r \in Exemptions : Listed(r) /\ Matches(r, f)
        <4>1. PICK j \in DOMAIN table : table[j] \in Exemptions /\ Matches(table[j], f)
          BY <3>2 DEF Listed
        <4>2. m <= j /\ j \in Nat
          BY <1>2, <2>2, <4>1
        <4>3. ~(j < m)
          BY <2>3, <4>2
        <4>4. table[m] \notin Redirections
          BY <2>3, <4>1, <4>3 DEF frInv, OrderInv
        <4> QED
          BY <1>4, <2>3, <4>4
      <3> QED
        BY <3>1, <3>2
    <2> QED
      BY <2>1, <2>4, Flags
  <1> QED
    BY <1>5, <1>6

(* The invariant makes the rules do what they say.                         *)
LEMMA ExemptHeld == frInv => ExemptNeverRedirected
  <1> SUFFICES ASSUME frInv, NEW f \in Flows, Exempt(f)
               PROVE  Verdict(f) = "NF_ALLOW"
    BY DEF ExemptNeverRedirected
  <1>1. CASE pc \notin {"all", "running"}
    BY <1>1, LetsPass DEF frInv, TableInv
  <1>2. CASE pc \in {"all", "running"}
    <2>1. f.port \in 0 .. PORTS - 1 /\ f.process \in Seq(STRING)
      BY FilterRulesAssumption DEF frInv, ProgressInv
    <2>2. CASE \E i \in DOMAIN rules : Fits(rules[i]) /\ Exempts(rules[i], f)
      <3>1. PICK i \in DOMAIN rules : Fits(rules[i]) /\ Exempts(rules[i], f)
        BY <2>2
      <3>2. Matches(UserRule(rules[i]), f)
        BY <2>1, <3>1, UserMatches
      <3>3. UserRule(rules[i]) \in Exemptions /\ Listed(UserRule(rules[i]))
        BY <1>2 DEF frInv, ListedInv, Exemptions
      <3> QED
        BY <3>2, <3>3, LetsPass
    <2>3. CASE f.ip_family = "AF_INET" /\ \E i \in DOMAIN Private : f.address = Private[i]
      <3>1. PICK i \in DOMAIN Private : f.address = Private[i]
        BY <2>3
      <3>2. Matches(PrivateRule(i), f)
        BY <2>1, <2>3, <3>1, BuiltinMatches
      <3>3. PrivateRule(i) \in Exemptions /\ Listed(PrivateRule(i))
        BY <1>2 DEF frInv, ListedInv, Exemptions
      <3> QED
        BY <3>2, <3>3, LetsPass
    <2> QED
      BY <2>2, <2>3 DEF Exempt
  <1> QED
    BY <1>1, <1>2

(* No exemption matches a flow that is not exempt, and one of the two      *)
(* redirections does.                                                      *)
LEMMA RestHeld == frInv => RedirectsTheRest
  <1> SUFFICES ASSUME frInv, pc = "running", NEW f \in Rest, f.ip_family = "AF_INET"
               PROVE  Verdict(f) = IF f.protocol = "TCP" THEN "NF_INDICATE_CONNECT_REQUESTS"
                                                         ELSE "NF_FILTER"
    BY DEF RedirectsTheRest
  <1> DEFINE hits == {i \in DOMAIN table : Matches(table[i], f)}
  <1>0. /\ f \in Flows /\ ~Exempt(f)
        /\ \A i \in DOMAIN rules : Names(rules[i], f) => Fits(rules[i])
    BY DEF Rest
  <1>1. /\ f.port \in 0 .. PORTS - 1 /\ f.protocol \in {"TCP", "UDP"}
        /\ f.process \in Seq(STRING)
    BY <1>0, FilterRulesAssumption
  <1>2. table \in Seq(Exemptions \cup Redirections)
    BY DEF frInv, TableInv
  <1>3. DOMAIN table = 1 .. Len(table) /\ DOMAIN table \subseteq Nat
    BY <1>2
  <1>4. \A i \in DOMAIN table : table[i] \in Exemptions \cup Redirections
    BY <1>2, <1>3
  <1>5. \A r \in Exemptions : ~Matches(r, f)
    <2>1. \A i \in DOMAIN Private : ~Matches(PrivateRule(i), f)
      BY <1>0, <1>1, BuiltinMatches DEF Exempt
    <2>2. \A i \in {1, 2} : ~Matches(LoopbackRule(i), f)
      BY <1>1, BuiltinMatches
    <2>3. ASSUME NEW i \in DOMAIN rules PROVE ~Matches(UserRule(rules[i]), f)
      <3>1. CASE ~Fits(rules[i])
        BY <1>0, <3>1, UserNames
      <3>2. CASE Fits(rules[i])
        BY <1>0, <1>1, <3>2, UserMatches DEF Exempt
      <3> QED
        BY <3>1, <3>2
    <2> QED
      BY <2>1, <2>2, <2>3 DEF Exemptions
  <1>6. Listed(TcpRule) /\ Listed(UdpRule)
    BY DEF frInv, ListedInv
  <1>7. /\ Matches(TcpRule, f) <=> f.protocol = "TCP"
        /\ Matches(UdpRule, f) <=> f.protocol = "UDP"
    BY <1>1, BuiltinMatches
  <1>8. hits # {}
    BY <1>1, <1>6, <1>7 DEF Listed
  <1>9. Min(hits) \in hits
    BY <1>3, <1>8, MinIs
  <1>10. PICK m \in DOMAIN table : Matches(table[m], f) /\ Verdict(f) = table[m].filteringFlag
    BY <1>8, <1>9 DEF Verdict
  <1>11. table[m] = TcpRule \/ table[m] = UdpRule
    BY <1>4, <1>5, <1>10 DEF Redirections
  <1> QED
    BY <1>1, <1>7, <1>10, <1>11, Flags

(* A flow that is private, or that a configured rule with proper ports     *)
(* exempts, is redirected at no time, whatever the rules and their order:  *)
(* Start puts the configured ones at the head of the list and the          *)
(* redirections at its end, after all others.                              *)
THEOREM ExemptSafe == frSpec => []ExemptNeverRedirected
  <1>1. frInv => ExemptNeverRedirected
    BY ExemptHeld
  <1> QED
    BY <1>1, InitRules, NextRules, PTL DEF frSpec

(* And once Start has returned every other flow over IPv4 is redirected,   *)
(* but for flows of the processes and the protocol that a rule names whose *)
(* ports the conversion to unsigned short changes.                         *)
THEOREM RestSafe == frSpec => []RedirectsTheRest
  <1>1. frInv => RedirectsTheRest
    BY RestHeld
  <1> QED
    BY <1>1, InitRules, NextRules, PTL DEF frSpec
=============================================================================
