--------------------------- MODULE MCFilterRules ---------------------------
(* FilterRules with the default rules and with short lists of others, some *)
(* with numbers that are no ports.                                         *)
EXTENDS FilterRules

Rule(f, t, n, p) == [portFrom |-> f, portTo |-> t, networkType |-> n, processName |-> p]

DefaultRules == <<Rule(0, 0, "any", <<"q", "v2ray.exe">>), Rule(0, 0, "any", <<"v2ray.exe">>),
                  Rule(67, 0, "UDP", <<>>), Rule(123, 0, "UDP", <<>>)>>

Masks == {<<>>, <<"v2ray.exe">>, <<"app", "*", ".exe">>}

MCRules == {Rule(f, t, n, p) : f \in {-1, 0, 67, 65536}, t \in {0, 123, 65535, 65536},
                               n \in {"any", "UDP"}, p \in Masks}

PairedRules == {Rule(f, t, n, p) : f \in {0, 67, 65536}, t \in {0, 123},
                                   n \in {"any", "UDP"}, p \in {<<>>, <<"v2ray.exe">>}}

MCRuleLists == {<<>>, DefaultRules} \cup {<<r>> : r \in MCRules}
                  \cup {<<r, s>> : r, s \in PairedRules}

Processes == {<<"dir", "v2ray.exe">>, <<"dir", "q", "v2ray.exe">>, <<"dir", "app", ".exe">>,
              <<"app", "dir", "64", ".exe">>, <<"dir", "app">>}

MCFlows == [ip_family : {"AF_INET"}, protocol : {"TCP", "UDP"},
            address : {"10/8", "public"},
            port : {1, 67, 100, 123, 65535}, process : Processes]
           \cup [ip_family : {"AF_INET"}, protocol : {"TCP", "UDP"},
                 address : {"127/8", "224/4"}, port : {67}, process : {<<"dir", "app">>}]
           \cup [ip_family : {"AF_INET6"}, protocol : {"TCP", "UDP"},
                 address : {"::1", "public"}, port : {67, 443}, process : {<<"dir", "app">>}]
=============================================================================
