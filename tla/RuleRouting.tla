------------------------------ MODULE RuleRouting ------------------------------
(***************************************************************************)
(* Which adapter a connection inside the extension gets: the rule list     *)
(* that startTunnel builds (PacketTunnelProvider.swift), the first-match   *)
(* evaluation of RuleManager and its rule classes, and the resolution that *)
(* Tunnel.didReceive does first.                                           *)
(*                                                                         *)
(* startTunnel runs once per process and again after each change of        *)
(* network; the keyword lists are fields that it appends to, so a restart  *)
(* finds what the starts before it left.  A connection that was received   *)
(* under one rule list may be matched under the next.                      *)
(***************************************************************************)
EXTENDS Naturals, Sequences

CONSTANTS
    Conns,         \* connections (Tunnel objects) open at a time
    Hosts,         \* domain names, each standing for the names it is like
    Literal,       \* stands for a host that is an IP address
    Addrs,         \* IPv4 addresses
    NoAddr,        \* ipAddress = "": the name could not be resolved
    Countries,     \* values of local_country
    KeyHosts,      \* hosts that contain one of the words of domainKeyWords
    ChatHosts,     \* hosts that contain "weixin" or "qq"
    CodeIn,        \* per host, the countries whose lower-case code it contains
    CountryOf,     \* per address, session.country ("--" if unknown)
    DirectList, ProxyList,    \* NEKitRule.conf: entries <<type, ",", host>>
    DirectRange, ProxyRange,  \* NEKitRule.conf: addresses in the two iplists
    ServerAddrs,   \* the addresses listed in startTunnel
    MaxStarts      \* bound: calls of startTunnel in one process

Names == Hosts \cup {Literal}
Sessions == Names \X (Addrs \cup {NoAddr})   \* ConnectSession: host, ipAddress

ASSUME RoutingAssumption ==
    /\ Literal \notin Hosts /\ NoAddr \notin Addrs
    /\ KeyHosts \subseteq Hosts /\ ChatHosts \subseteq Hosts
    /\ CodeIn \in [Hosts -> SUBSET Countries]
    /\ DirectRange \subseteq Addrs /\ ProxyRange \subseteq Addrs
    /\ ServerAddrs \subseteq Addrs
    /\ MaxStarts \in Nat

Modes == [local : Countries, global : BOOLEAN]   \* the part of the conf read here

VARIABLES
    conf,      \* providerConfiguration as the app last saved it
    starts,    \* calls of startTunnel in this process, 0 if there is none
    built,     \* the configuration of the last start
    codes,     \* the country codes in domainNotKeyWords
    rules,     \* RuleManager.currentManager's rules
    conn       \* per connection: its state and, once open, its adapter

vars == <<conf, starts, built, codes, rules, conn>>

Adapters == {"ss", "direct", "nil"}

-----------------------------------------------------------------------------
(* The rule list.  A rule is the sessions it matches and the adapter it gives. *)

ByHost(hosts) == {s \in Sessions : s[1] \in hosts}
ByAddr(addrs) == {s \in Sessions : s[2] \in addrs}
ByCountry(c) == {s \in Sessions : s[2] \in Addrs /\ CountryOf[s[2]] = c}

\* raw_dom[...index], with index one past the start: the type letter and the
\* comma after it.
TypeStr(entry) == SubSeq(entry, 1, 2)

\* The criteria a domainlist of the configuration yields.
Criteria(list) ==
    {entry[3] : entry \in {e \in list : TypeStr(e) \in {<<"s">>, <<"k">>, <<"p">>}}}

\* Mutant: the rules of the configuration are direct in every mode.
ListedRulesDirect(direct) ==
    << [hit |-> ByHost(Criteria(DirectList)), to |-> "direct"],
       [hit |-> ByHost(Criteria(ProxyList)),  to |-> "ss"],
       [hit |-> ByAddr(DirectRange),          to |-> "direct"],
       [hit |-> ByAddr(ProxyRange),           to |-> "ss"] >>

\* The rules of NEKitRule.conf.
ListedRules(direct) ==
    << [hit |-> ByHost(Criteria(DirectList)), to |-> direct],
       [hit |-> ByHost(Criteria(ProxyList)),  to |-> "ss"],
       [hit |-> ByAddr(DirectRange),          to |-> direct],
       [hit |-> ByAddr(ProxyRange),           to |-> "ss"] >>

\* Mutant: the closing AllRule is left out.
BuiltInWithoutAll(direct, local, ks) ==
    << [hit |-> ByHost(KeyHosts),      to |-> "ss"],
       [hit |-> ByHost(ChatHosts \cup {h \in Hosts : CodeIn[h] \cap ks # {}}), to |-> direct],
       [hit |-> ByAddr(ServerAddrs),   to |-> direct],
       [hit |-> ByCountry(local),      to |-> direct],
       [hit |-> ByCountry("--"),       to |-> "ss"],
       [hit |-> ByAddr({NoAddr}),      to |-> "ss"] >>

\* Mutant: the codes of earlier starts go to the keywords that are tunnelled.
BuiltInCodesTunnelled(direct, local, ks) ==
    << [hit |-> ByHost(KeyHosts \cup {h \in Hosts : CodeIn[h] \cap (ks \ {local}) # {}}),
                                       to |-> "ss"],
       [hit |-> ByHost(ChatHosts \cup {h \in Hosts : local \in CodeIn[h]}), to |-> direct],
       [hit |-> ByAddr(ServerAddrs),   to |-> direct],
       [hit |-> ByCountry(local),      to |-> direct],
       [hit |-> Sessions,              to |-> "ss"] >>

\* The rules that follow: domainKeyWords, domainNotKeyWords with the codes ks
\* in it, the listed addresses, the two country rules, DNSFailRule, AllRule.
BuiltInRules(direct, local, ks) ==
    << [hit |-> ByHost(KeyHosts),      to |-> "ss"],
       [hit |-> ByHost(ChatHosts \cup {h \in Hosts : CodeIn[h] \cap ks # {}}), to |-> direct],
       [hit |-> ByAddr(ServerAddrs),   to |-> direct],
       [hit |-> ByCountry(local),      to |-> direct],
       [hit |-> ByCountry("--"),       to |-> "ss"],
       [hit |-> ByAddr({NoAddr}),      to |-> "ss"],
       [hit |-> Sessions,              to |-> "ss"] >>

\* directAdapterFactory.
DirectFactory(c) == IF c.global THEN "ss" ELSE "direct"

\* startTunnel's UserRules, with the codes ks in domainNotKeyWords.
RuleList(c, ks) ==
    ListedRules(DirectFactory(c)) \o BuiltInRules(DirectFactory(c), c.local, ks)

Hits(list, s) == {i \in DOMAIN list : s \in list[i].hit}

\* RuleManager.match: the first rule that matches.
Match(list, s) ==
    IF Hits(list, s) = {} THEN "nil"
    ELSE list[CHOOSE i \in Hits(list, s) : \A j \in Hits(list, s) : i <= j].to

-----------------------------------------------------------------------------
Idle == [st |-> "idle"]
Resolving(h) == [st |-> "resolving", host |-> h]
Open(s) == [st |-> "open", session |-> s, to |-> Match(rules, s), global |-> built.global]

Init ==
    /\ conf \in Modes /\ built = conf
    /\ starts = 0 /\ codes = {} /\ rules = << >>
    /\ conn = [c \in Conns |-> Idle]

\* The app saves another configuration: the user changes the mode, or the
\* location service reports another country.
PublishConf(m) ==
    /\ m # conf
    /\ conf' = m
    /\ UNCHANGED <<starts, built, codes, rules, conn>>

\* Mutant: the local code is appended to domainKeyWords instead, which the
\* next start puts in the rule before.
StartTunnelWrongList ==
    /\ starts < MaxStarts
    /\ starts' = starts + 1
    /\ built' = conf
    /\ rules' = << [hit |-> ByHost({h \in Hosts : CodeIn[h] \cap codes # {}}), to |-> "ss"] >>
                \o RuleList(conf, {})
    /\ codes' = codes \cup {conf.local}
    /\ UNCHANGED <<conf, conn>>

\* startTunnel, by the system (starts = 0) or by a delayed restart.
StartTunnel ==
    /\ starts < MaxStarts
    /\ starts' = starts + 1
    /\ built' = conf
    /\ codes' = codes \cup {conf.local}
    /\ rules' = RuleList(conf, codes')
    /\ UNCHANGED <<conf, conn>>

\* The process ends, with the lists and the connections.
EndProcess ==
    /\ starts > 0
    /\ starts' = 0 /\ codes' = {} /\ rules' = << >>
    /\ conn' = [c \in Conns |-> Idle]
    /\ built' = conf
    /\ UNCHANGED conf

\* Tunnel.didReceive: an address is opened at once, a name is resolved.
ReceiveLiteral(c, a) ==
    /\ starts > 0 /\ conn[c] = Idle
    /\ conn' = [conn EXCEPT ![c] = Open(<<Literal, a>>)]
    /\ UNCHANGED <<conf, starts, built, codes, rules>>

ReceiveName(c, h) ==
    /\ starts > 0 /\ conn[c] = Idle
    /\ conn' = [conn EXCEPT ![c] = Resolving(h)]
    /\ UNCHANGED <<conf, starts, built, codes, rules>>

\* The resolver answers, with an address or (error, timeout) without one, and
\* openAdapter asks the manager that is current now.
Resolved(c, a) ==
    /\ conn[c].st = "resolving"
    /\ conn' = [conn EXCEPT ![c] = Open(<<conn[c].host, a>>)]
    /\ UNCHANGED <<conf, starts, built, codes, rules>>

\* ... or an answer without an IPv4 address, whose forced unwrap ends the process.
ResolvedEmpty(c) == conn[c].st = "resolving" /\ EndProcess

\* The connection is closed; a later answer of the resolver is ignored.
Close(c) ==
    /\ conn[c] # Idle
    /\ conn' = [conn EXCEPT ![c] = Idle]
    /\ UNCHANGED <<conf, starts, built, codes, rules>>

Next ==
    \/ \E m \in Modes : PublishConf(m)
    \/ StartTunnel \/ EndProcess
    \/ \E c \in Conns :
          \/ \E a \in Addrs : ReceiveLiteral(c, a)
          \/ \E h \in Hosts : ReceiveName(c, h)
          \/ \E a \in Addrs \cup {NoAddr} : Resolved(c, a)
          \/ ResolvedEmpty(c) \/ Close(c)

Spec == Init /\ [][Next]_vars

-----------------------------------------------------------------------------
(* Properties *)

ConnStates ==
    {Idle} \cup {Resolving(h) : h \in Hosts}
        \cup [st : {"open"}, session : Sessions, to : Adapters, global : BOOLEAN]

TypeOK ==
    /\ conf \in Modes /\ built \in Modes
    /\ starts \in 0..MaxStarts
    /\ codes \subseteq Countries
    /\ conn \in [Conns -> ConnStates]

IsOpen(c) == conn[c].st = "open"

\* RuleManager.match always finds a rule ("this should never happens" is the
\* comment on its nil, which openAdapter would unwrap): no connection is
\* opened before the rules are there, and the list closes with an AllRule.
AlwaysMatched == \A c \in Conns : IsOpen(c) => conn[c].to # "nil"

\* In global mode every connection goes through the tunnel, whichever rule it
\* matches; the mode is that of the start whose rules were asked, also for a
\* connection received before a restart and resolved after it.
GlobalTunnelsAll == \A c \in Conns : (IsOpen(c) /\ conn[c].global) => conn[c].to = "ss"

\* A restart with the configuration of the start before (a change of network
\* and nothing else) routes every session as before, although the keyword
\* lists have grown.
RestartKeepsRoutes ==
    [][(starts > 0 /\ starts' > starts /\ conf = built)
            => \A s \in Sessions : Match(rules', s) = Match(rules, s)]_vars

\* What earlier starts left behind shows only in sessions whose host contains
\* the code of an earlier local country, and only by sending them direct:
\* everything else is routed as a fresh process would.
LeftoversBounded ==
    starts > 0 =>
        \A s \in Sessions :
            \/ Match(rules, s) = Match(RuleList(built, {built.local}), s)
            \/ /\ Match(rules, s) = "direct"
               /\ s[1] \in Hosts /\ CodeIn[s[1]] \cap (codes \ {built.local}) # {}

\* NEKitRule.conf lists domains under "adapter: direct"; outside global mode a
\* connection to one of them is made directly.
ListedDomainDirect ==
    \A c \in Conns :
        (/\ IsOpen(c) /\ ~conn[c].global
         /\ \E e \in DirectList : e[3] = conn[c].session[1])
            => conn[c].to = "direct"
=============================================================================
