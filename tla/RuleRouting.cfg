CONSTANTS
    c1 = c1
    Conns = {c1}
    Hosts <- MCHosts
    Literal = Literal
    Addrs <- MCAddrs
    NoAddr = NoAddr
    Countries = {"CN", "US"}
    KeyHosts <- MCKeyHosts
    ChatHosts <- MCChatHosts
    CodeIn <- MCCodeIn
    CountryOf <- MCCountryOf
    DirectList <- MCDirectList
    ProxyList <- MCProxyList
    DirectRange = {"listed"}
    ProxyRange = {"blocked"}
    ServerAddrs = {"server"}
    MaxStarts = 3
SPECIFICATION Spec
INVARIANTS AlwaysMatched GlobalTunnelsAll LeftoversBounded
PROPERTIES RestartKeepsRoutes
