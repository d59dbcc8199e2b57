--------------------------- MODULE RuleRoutingProofs ---------------------------
(***************************************************************************)
(* Proofs about RuleRouting for every set of hosts, addresses, countries   *)
(* and connections, every configuration and any number of starts.          *)
(***************************************************************************)
EXTENDS RuleRouting, TLAPS, WellFoundedInduction, SequenceTheorems

\* The rules a rule list may hold, and what an element of either part is.
Rule == [hit : SUBSET Sessions, to : {"ss", "direct"}]

-----------------------------------------------------------------------------
(* First match *)

\* A set of indices that is not empty has a least one.
LEMMA LeastIndex ==
    ASSUME NEW S, S \subseteq Nat, S # {}
    PROVE  \E i \in S : \A j \in S : i <= j
<1>1. PICK i \in S : \A j \in S : ~(<<j, i>> \in OpToRel(<, Nat))
    BY NatLessThanWellFounded, WFMin
<1>2. ASSUME NEW j \in S PROVE i <= j
    <2>1. ~(j < i)
        BY <1>1 DEF OpToRel
    <2> QED BY <2>1
<1> QED BY <1>2

\* The first match is the adapter of the least index that hits.
LEMMA MatchLeast ==
    ASSUME NEW list, DOMAIN list \subseteq Nat, NEW s, Hits(list, s) # {}
    PROVE  \E i \in Hits(list, s) :
              /\ \A j \in Hits(list, s) : i <= j
              /\ Match(list, s) = list[i].to
<1> DEFINE H == Hits(list, s)
<1>1. \E i \in H : \A j \in H : i <= j
    BY LeastIndex DEF Hits
<1>2. (CHOOSE i \in H : \A j \in H : i <= j) \in H
      /\ \A j \in H : (CHOOSE i \in H : \A k \in H : i <= k) <= j
    BY <1>1
<1> QED BY <1>2 DEF Match

\* A list of eleven rules: the four of A, then the seven of B.
Joined(list, A, B) ==
    /\ DOMAIN list = 1..11
    /\ \A i \in 1..4 : list[i] = A[i]
    /\ \A i \in 5..11 : list[i] = B[i - 4]

LEMMA FourAndSeven ==
    ASSUME NEW A \in Seq(Rule), NEW B \in Seq(Rule), Len(A) = 4, Len(B) = 7
    PROVE  Joined(A \o B, A, B)
<1> SUFFICES ASSUME NEW list, list = A \o B PROVE Joined(list, A, B)
    BY Zenon
<1>1. /\ list \in Seq(Rule)
      /\ Len(list) = 11
      /\ \A i \in 1..11 : list[i] = IF i <= 4 THEN A[i] ELSE B[i - 4]
    <2>1. /\ list \in Seq(Rule)
          /\ Len(list) = Len(A) + Len(B)
          /\ \A i \in 1..Len(A) + Len(B) : list[i] = IF i <= Len(A) THEN A[i] ELSE B[i - Len(A)]
        BY ConcatProperties, Zenon
    <2>2. Len(A) + Len(B) = 11
        OBVIOUS
    <2> QED BY <2>1, <2>2, Zenon
<1>2. DOMAIN list = 1..11
    BY <1>1, LenProperties, Zenon
<1>3. ASSUME NEW i \in 1..4 PROVE list[i] = A[i]
    <2>1. i \in 1..11 /\ i <= 4
        OBVIOUS
    <2> QED BY <1>1, <2>1, Zenon
<1>4. ASSUME NEW i \in 5..11 PROVE list[i] = B[i - 4]
    <2>1. i \in 1..11 /\ ~(i <= 4)
        OBVIOUS
    <2> QED BY <1>1, <2>1, Zenon
<1> QED BY <1>2, <1>3, <1>4, Zenon DEF Joined

\* The shape of the list startTunnel builds.
LEMMA RuleListShape ==
    ASSUME NEW c \in Modes, NEW ks
    PROVE  Joined(RuleList(c, ks), ListedRules(DirectFactory(c)),
                  BuiltInRules(DirectFactory(c), c.local, ks))
<1> DEFINE A == ListedRules(DirectFactory(c))
           B == BuiltInRules(DirectFactory(c), c.local, ks)
<1>1. DirectFactory(c) \in {"ss", "direct"}
    BY DEF DirectFactory
<1>2. A \in Seq(Rule) /\ Len(A) = 4
    BY <1>1 DEF ListedRules, Rule, ByHost, ByAddr
<1>3. B \in Seq(Rule) /\ Len(B) = 7
    BY <1>1 DEF BuiltInRules, Rule, ByHost, ByAddr, ByCountry
<1>4. Joined(A \o B, A, B)
    BY <1>2, <1>3, FourAndSeven, Zenon
<1> QED BY <1>4, Zenon DEF RuleList

\* Every rule gives one of the two adapters, in global mode the tunnel's.
LEMMA RuleAdapters ==
    ASSUME NEW c \in Modes, NEW ks, NEW i \in 1..11
    PROVE  /\ RuleList(c, ks)[i].to \in {"ss", "direct"}
           /\ c.global => RuleList(c, ks)[i].to = "ss"
<1> DEFINE d == DirectFactory(c)
<1>1. d \in {"ss", "direct"} /\ (c.global => d = "ss")
    BY DEF DirectFactory
<1>2. CASE i \in 1..4
    <2>1. RuleList(c, ks)[i] = ListedRules(d)[i]
        BY <1>2, RuleListShape, Zenon DEF Joined
    <2>2. ListedRules(d)[i].to \in {"ss", d}
        BY <1>2 DEF ListedRules
    <2> QED BY <1>1, <2>1, <2>2
<1>3. CASE i \in 5..11
    <2>1. RuleList(c, ks)[i] = BuiltInRules(d, c.local, ks)[i - 4]
        BY <1>3, RuleListShape, Zenon DEF Joined
    <2>2. BuiltInRules(d, c.local, ks)[i - 4].to \in {"ss", d}
        <3> DEFINE k == i - 4
        <3>1. k \in 1..7
            BY <1>3
        <3> HIDE DEF k
        <3>2. BuiltInRules(d, c.local, ks)[k].to \in {"ss", d}
            BY <3>1 DEF BuiltInRules
        <3> QED BY <3>2 DEF k
    <2> QED BY <1>1, <2>1, <2>2
<1> QED BY <1>2, <1>3

\* The AllRule at the end hits every session, so every session has an adapter.
LEMMA MatchSound ==
    ASSUME NEW c \in Modes, NEW ks, NEW s \in Sessions
    PROVE  /\ Match(RuleList(c, ks), s) \in {"ss", "direct"}
           /\ c.global => Match(RuleList(c, ks), s) = "ss"
<1> DEFINE L == RuleList(c, ks)
<1>1. DOMAIN L = 1..11
    BY RuleListShape, Zenon DEF Joined
<1>2. L[11].hit = Sessions
    <2>1. 11 \in 5..11 /\ 11 - 4 = 7
        OBVIOUS
    <2>2. L[11] = BuiltInRules(DirectFactory(c), c.local, ks)[11 - 4]
        BY <2>1, RuleListShape, ZenonT(30) DEF Joined
    <2>3. L[11] = BuiltInRules(DirectFactory(c), c.local, ks)[7]
        BY <2>1, <2>2, Zenon
    <2> QED BY <2>3 DEF BuiltInRules
<1>3. 11 \in Hits(L, s)
    BY <1>1, <1>2 DEF Hits
<1>4. PICK i \in Hits(L, s) : Match(L, s) = L[i].to
    <2> HIDE DEF L
    <2> QED BY <1>1, <1>3, MatchLeast
<1>5. i \in 1..11
    BY <1>1, <1>4 DEF Hits
<1> QED BY <1>4, <1>5, RuleAdapters

-----------------------------------------------------------------------------
(* The invariant *)

\* While the extension runs its rules are the list built for the last start,
\* from codes that hold that start's country; before, no connection is open.
RulesBuilt ==
    /\ starts > 0 => rules = RuleList(built, codes) /\ built.local \in codes
    /\ starts = 0 => \A c \in Conns : conn[c] = Idle

RoutingInv == TypeOK /\ RulesBuilt /\ AlwaysMatched /\ GlobalTunnelsAll

\* A connection that is opened now gets an adapter, the tunnel's in global mode.
LEMMA OpenSound ==
    ASSUME RoutingInv, starts > 0, NEW s \in Sessions
    PROVE  /\ Open(s) \in ConnStates
           /\ Open(s).to # "nil"
           /\ Open(s).global => Open(s).to = "ss"
<1>1. rules = RuleList(built, codes) /\ built \in Modes
    BY DEF RoutingInv, RulesBuilt, TypeOK
<1>2. Match(rules, s) \in {"ss", "direct"} /\ (built.global => Match(rules, s) = "ss")
    BY <1>1, MatchSound
<1>3. built.global \in BOOLEAN
    BY <1>1 DEF Modes
<1> QED BY <1>2, <1>3 DEF Open, ConnStates, Adapters

\* A step that sets one connection to a state that is sound keeps the invariant.
LEMMA ConnStep ==
    ASSUME RoutingInv, starts > 0, NEW c \in Conns, NEW v \in ConnStates,
           v.st = "open" => v.to # "nil" /\ (v.global => v.to = "ss"),
           conn' = [conn EXCEPT ![c] = v], UNCHANGED <<conf, starts, built, codes, rules>>
    PROVE  RoutingInv'
<1>1. TypeOK'
    BY DEF RoutingInv, TypeOK
<1>2. RulesBuilt'
    BY DEF RoutingInv, RulesBuilt, TypeOK
<1>3. AlwaysMatched' /\ GlobalTunnelsAll'
    BY DEF RoutingInv, TypeOK, AlwaysMatched, GlobalTunnelsAll, IsOpen
<1> QED BY <1>1, <1>2, <1>3 DEF RoutingInv

LEMMA RoutingInit == Init => RoutingInv
BY RoutingAssumption DEF RoutingAssumption, Init, RoutingInv, TypeOK, RulesBuilt,
   AlwaysMatched, GlobalTunnelsAll, IsOpen, ConnStates, Idle

LEMMA RoutingStep == RoutingInv /\ [Next]_vars => RoutingInv'
<1> SUFFICES ASSUME RoutingInv, [Next]_vars PROVE RoutingInv'
    OBVIOUS
<1>1. ASSUME NEW m \in Modes, PublishConf(m) PROVE RoutingInv'
    BY <1>1 DEF PublishConf, RoutingInv, TypeOK, RulesBuilt, AlwaysMatched,
       GlobalTunnelsAll, IsOpen
<1>2. CASE StartTunnel
    <2>1. TypeOK'
        BY <1>2, RoutingAssumption DEF RoutingAssumption, StartTunnel, RoutingInv, TypeOK, Modes
    <2>2. RulesBuilt'
        BY <1>2 DEF StartTunnel, RoutingInv, TypeOK, RulesBuilt
    <2>3. AlwaysMatched' /\ GlobalTunnelsAll'
        BY <1>2 DEF StartTunnel, RoutingInv, AlwaysMatched, GlobalTunnelsAll, IsOpen
    <2> QED BY <2>1, <2>2, <2>3 DEF RoutingInv
<1>3. CASE EndProcess
    <2>1. conn' = [c \in Conns |-> Idle] /\ starts' = 0
        BY <1>3 DEF EndProcess
    <2>2. TypeOK'
        BY <1>3, RoutingAssumption
        DEF RoutingAssumption, EndProcess, RoutingInv, TypeOK, ConnStates
    <2>3. RulesBuilt' /\ AlwaysMatched' /\ GlobalTunnelsAll'
        BY <2>1 DEF RulesBuilt, AlwaysMatched, GlobalTunnelsAll, IsOpen, Idle
    <2> QED BY <2>2, <2>3 DEF RoutingInv
<1>4. ASSUME NEW c \in Conns, NEW a \in Addrs, ReceiveLiteral(c, a) PROVE RoutingInv'
    <2>1. <<Literal, a>> \in Sessions
        BY DEF Sessions, Names
    <2> QED BY <1>4, <2>1, OpenSound, ConnStep DEF ReceiveLiteral
<1>5. ASSUME NEW c \in Conns, NEW h \in Hosts, ReceiveName(c, h) PROVE RoutingInv'
    <2>1. Resolving(h) \in ConnStates /\ Resolving(h).st # "open"
        BY DEF Resolving, ConnStates
    <2> QED BY <1>5, <2>1, ConnStep DEF ReceiveName
<1>6. ASSUME NEW c \in Conns, NEW a \in Addrs \cup {NoAddr}, Resolved(c, a)
      PROVE  RoutingInv'
    <2>1. starts > 0
        BY <1>6 DEF Resolved, RoutingInv, RulesBuilt, TypeOK, Idle
    <2>2. conn[c].host \in Hosts
        BY <1>6 DEF Resolved, RoutingInv, TypeOK, ConnStates, Idle, Resolving
    <2>3. <<conn[c].host, a>> \in Sessions
        BY <2>2 DEF Sessions, Names
    <2> QED BY <1>6, <2>1, <2>3, OpenSound, ConnStep DEF Resolved
<1>7. ASSUME NEW c \in Conns, Close(c) PROVE RoutingInv'
    <2>1. starts > 0
        BY <1>7 DEF Close, RoutingInv, RulesBuilt, TypeOK
    <2>2. Idle \in ConnStates /\ Idle.st # "open"
        BY DEF Idle, ConnStates
    <2> QED BY <1>7, <2>1, <2>2, ConnStep DEF Close
<1>8. CASE UNCHANGED vars
    BY <1>8 DEF vars, RoutingInv, TypeOK, RulesBuilt, AlwaysMatched, GlobalTunnelsAll, IsOpen
<1> QED BY <1>1, <1>2, <1>3, <1>4, <1>5, <1>6, <1>7, <1>8 DEF Next, ResolvedEmpty

THEOREM RoutingInvariant == Spec => []RoutingInv
BY RoutingInit, RoutingStep, PTL DEF Spec

\* The states stay well-typed: conf and rules, and the connections with their
\* sessions and adapters.
THEOREM RoutingTypeOK == Spec => []TypeOK
BY RoutingInvariant, PTL DEF RoutingInv

\* RuleManager.match never returns the nil that openAdapter would unwrap.
THEOREM RoutingAlwaysMatched == Spec => []AlwaysMatched
BY RoutingInvariant, PTL DEF RoutingInv

\* In global mode no connection leaves the tunnel.
THEOREM RoutingGlobal == Spec => []GlobalTunnelsAll
BY RoutingInvariant, PTL DEF RoutingInv

\* A restart with the same configuration rebuilds the same list: the only code
\* it appends is already there.
THEOREM RoutingRestart == Spec => RestartKeepsRoutes
<1>1. ASSUME RoutingInv, [Next]_vars
      PROVE  [(starts > 0 /\ starts' > starts /\ conf = built)
                => \A s \in Sessions : Match(rules', s) = Match(rules, s)]_vars
    <2> SUFFICES ASSUME starts > 0, starts' > starts, conf = built, Next
                 PROVE  \A s \in Sessions : Match(rules', s) = Match(rules, s)
        BY <1>1 DEF vars, RoutingInv, TypeOK
    <2>1. StartTunnel
        <3>1. starts' # starts /\ starts' # 0
            BY <1>1 DEF RoutingInv, TypeOK
        <3> QED BY <3>1, Zenon DEF Next, PublishConf, EndProcess, ReceiveLiteral,
               ReceiveName, Resolved, ResolvedEmpty, Close
    <2>2. codes' = codes /\ rules' = RuleList(conf, codes')
        BY <1>1, <2>1 DEF StartTunnel, RoutingInv, RulesBuilt
    <2>3. rules' = rules
        BY <1>1, <2>2 DEF RoutingInv, RulesBuilt
    <2> QED BY <2>3
<1> QED BY <1>1, RoutingInvariant, PTL DEF Spec, RestartKeepsRoutes

-----------------------------------------------------------------------------
(* What the starts before leave behind *)

\* Two lists for the same configuration differ only in the sixth rule.
LEMMA SameButSixth ==
    ASSUME NEW c \in Modes, NEW ks, NEW ls, NEW i \in 1..11, i # 6
    PROVE  RuleList(c, ks)[i] = RuleList(c, ls)[i]
<1> DEFINE d == DirectFactory(c)
<1>1. CASE i \in 1..4
    <2>1. RuleList(c, ks)[i] = ListedRules(d)[i]
        BY <1>1, RuleListShape, Zenon DEF Joined
    <2>2. RuleList(c, ls)[i] = ListedRules(d)[i]
        BY <1>1, RuleListShape, Zenon DEF Joined
    <2> QED BY <2>1, <2>2, Zenon
<1>2. CASE i \in 5..11
    <2> DEFINE k == i - 4
    <2>1. k \in 1..7 /\ k # 2
        BY <1>2
    <2>2. /\ RuleList(c, ks)[i] = BuiltInRules(d, c.local, ks)[k]
          /\ RuleList(c, ls)[i] = BuiltInRules(d, c.local, ls)[k]
        BY <1>2, RuleListShape, ZenonT(30) DEF Joined
    <2> HIDE DEF k
    <2>3. BuiltInRules(d, c.local, ks)[k] = BuiltInRules(d, c.local, ls)[k]
        BY <2>1 DEF BuiltInRules
    <2> QED BY <2>2, <2>3
<1> QED BY <1>1, <1>2

\* The sixth rule: domainNotKeyWords.
LEMMA SixthRule ==
    ASSUME NEW c \in Modes, NEW ks
    PROVE  RuleList(c, ks)[6] =
             [hit |-> ByHost(ChatHosts \cup {h \in Hosts : CodeIn[h] \cap ks # {}}),
              to |-> DirectFactory(c)]
<1>1. 6 \in 5..11 /\ 6 - 4 = 2
    OBVIOUS
<1>2. RuleList(c, ks)[6] = BuiltInRules(DirectFactory(c), c.local, ks)[6 - 4]
    BY <1>1, RuleListShape, Zenon DEF Joined
<1>3. RuleList(c, ks)[6] = BuiltInRules(DirectFactory(c), c.local, ks)[2]
    BY <1>1, <1>2, Zenon
<1> QED BY <1>3 DEF BuiltInRules

\* In one state: a session is routed as by a fresh process, or it is sent
\* direct because its host holds the code of an earlier local country.
LEMMA Leftovers ==
    ASSUME NEW c \in Modes, NEW ks, c.local \in ks, NEW s \in Sessions
    PROVE  \/ Match(RuleList(c, ks), s) = Match(RuleList(c, {c.local}), s)
           \/ /\ Match(RuleList(c, ks), s) = "direct"
              /\ s[1] \in Hosts /\ CodeIn[s[1]] \cap (ks \ {c.local}) # {}
<1> DEFINE L == RuleList(c, ks)
           F == RuleList(c, {c.local})
           extra == s[1] \in Hosts /\ CodeIn[s[1]] \cap (ks \ {c.local}) # {}
<1>1. DOMAIN L = 1..11 /\ DOMAIN F = 1..11
    BY RuleListShape, Zenon DEF Joined
<1>2. ASSUME NEW i \in 1..11, i # 6 PROVE L[i] = F[i]
    BY <1>2, SameButSixth
<1>3. /\ L[6].to = F[6].to /\ L[6].to = DirectFactory(c)
      /\ L[6].hit = ByHost(ChatHosts \cup {h \in Hosts : CodeIn[h] \cap ks # {}})
      /\ F[6].hit = ByHost(ChatHosts \cup {h \in Hosts : CodeIn[h] \cap {c.local} # {}})
    <2>1. L[6] = [hit |-> ByHost(ChatHosts \cup {h \in Hosts : CodeIn[h] \cap ks # {}}),
                  to |-> DirectFactory(c)]
        BY SixthRule, Zenon
    <2>2. F[6] = [hit |-> ByHost(ChatHosts \cup {h \in Hosts : CodeIn[h] \cap {c.local} # {}}),
                  to |-> DirectFactory(c)]
        BY SixthRule, Zenon
    <2> HIDE DEF L, F
    <2> QED BY <2>1, <2>2
<1>4. s \in F[6].hit => s \in L[6].hit
    <2> HIDE DEF L, F
    <2> QED BY <1>3 DEF ByHost
<1>5. s \in L[6].hit => s \in F[6].hit \/ extra
    <2> HIDE DEF L, F
    <2> QED BY <1>3 DEF ByHost
<1>6. Match(F, s) \in {"ss", "direct"} /\ (c.global => Match(F, s) = "ss")
    BY MatchSound
<1>7. Hits(L, s) # {} /\ Hits(F, s) # {}
    <2>1. 11 \in Hits(F, s)
        <3>1. 11 \in 5..11 /\ 11 - 4 = 7
            OBVIOUS
        <3>2. F[11] = BuiltInRules(DirectFactory(c), c.local, {c.local})[11 - 4]
            BY <3>1, RuleListShape, ZenonT(30) DEF Joined
        <3>3. F[11] = BuiltInRules(DirectFactory(c), c.local, {c.local})[7]
            BY <3>1, <3>2, Zenon
        <3> QED BY <1>1, <3>3 DEF Hits, BuiltInRules
    <2> QED BY <1>1, <1>2, <2>1 DEF Hits
<1> HIDE DEF L, F, extra
<1>8. PICK i \in Hits(L, s) : (\A j \in Hits(L, s) : i <= j) /\ Match(L, s) = L[i].to
    BY <1>1, <1>7, MatchLeast
<1>9. PICK j \in Hits(F, s) : (\A k \in Hits(F, s) : j <= k) /\ Match(F, s) = F[j].to
    BY <1>1, <1>7, MatchLeast
<1>10. i \in 1..11 /\ j \in 1..11 /\ s \in L[i].hit /\ s \in F[j].hit
    BY <1>1, <1>8, <1>9 DEF Hits
<1>11. i <= j
    <2>1. s \in L[j].hit
        BY <1>2, <1>4, <1>10
    <2> QED BY <1>1, <1>8, <1>10, <2>1 DEF Hits
<1>12. CASE s \in F[i].hit
    <2>1. j <= i
        BY <1>1, <1>9, <1>10, <1>12 DEF Hits
    <2>2. i = j
        BY <1>10, <1>11, <2>1
    <2>3. Match(L, s) = Match(F, s)
        BY <1>2, <1>3, <1>8, <1>9, <1>10, <2>2
    <2> QED BY <2>3 DEF L, F
<1>13. CASE s \notin F[i].hit
    <2>1. i = 6
        BY <1>2, <1>10, <1>13
    <2>2. extra
        BY <1>5, <1>10, <1>13, <2>1
    <2>3. Match(L, s) = DirectFactory(c)
        BY <1>3, <1>8, <2>1
    <2>4. Match(L, s) = "direct" \/ Match(L, s) = Match(F, s)
        BY <1>6, <2>3 DEF DirectFactory
    <2> QED BY <2>2, <2>4 DEF L, F, extra
<1> QED BY <1>12, <1>13

\* What a process keeps from its earlier starts never sends a connection into
\* the tunnel that a fresh process would send direct, and sends direct only
\* hosts that hold the code of an earlier local country.
THEOREM RoutingLeftovers == Spec => []LeftoversBounded
<1>1. RoutingInv => LeftoversBounded
    <2> SUFFICES ASSUME RoutingInv, starts > 0, NEW s \in Sessions
                 PROVE  \/ Match(rules, s) = Match(RuleList(built, {built.local}), s)
                        \/ /\ Match(rules, s) = "direct"
                           /\ s[1] \in Hosts /\ CodeIn[s[1]] \cap (codes \ {built.local}) # {}
        BY DEF LeftoversBounded
    <2>1. rules = RuleList(built, codes) /\ built.local \in codes /\ built \in Modes
        BY DEF RoutingInv, RulesBuilt, TypeOK
    <2> QED BY <2>1, Leftovers, Zenon
<1> QED BY <1>1, RoutingInvariant, PTL
=============================================================================
