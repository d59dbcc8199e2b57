---------------------------- MODULE MCRuleRouting ----------------------------
(* Instance of RuleRouting: one host and one address of each kind that some  *)
(* rule tells apart.                                                         *)
EXTENDS RuleRouting

MCHosts == {"plain", "google", "google.cn", "qq", "cn", "us", "apple"}
MCKeyHosts == {"google", "google.cn"}
MCChatHosts == {"qq"}
MCCodeIn ==
    [h \in MCHosts |-> IF h \in {"cn", "google.cn"} THEN {"CN"}
                       ELSE IF h = "us" THEN {"US"} ELSE {}]
MCAddrs == {"home", "abroad", "lan", "listed", "blocked", "server"}
MCCountryOf ==
    [a \in MCAddrs |-> CASE a = "home" -> "CN" [] a = "lan" -> "--" [] OTHER -> "US"]
MCDirectList == {<<"s", ",", "apple">>}
MCProxyList == {<<"k", ",", "google">>}
=============================================================================
