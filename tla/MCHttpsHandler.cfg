CONSTANTS
    discord = discord
    relay = relay
    other = other
    Hosts = {discord, relay, other}
    DiscordHosts = {discord}
    RelayHosts = {relay}
    PortedHosts = {}
    MaxConnectDepth = 1
    MaxRequests = 3
    Hooked = TRUE
    Logged = TRUE
    Cuts = {"length", "chunked"}
    Bodies <- SafeBodies
    Interims = FALSE
    Verdicts = {"same", "new"}
    NoHost = NoHost
SPECIFICATION FairSpec
CHECK_DEADLOCK FALSE
INVARIANTS TypeOK RightUpstream SentInOrder RepliesPaired NoUpstreamLeak NothingLeftBehind WholeStaysWhole
PROPERTIES EveryRequestAnswered ImplementsSession
