CONSTANTS
    discord = discord
    relay = relay
    other = other
    Hosts = {discord}
    DiscordHosts = {discord}
    RelayHosts = {}
    PortedHosts = {}
    MaxConnectDepth = 0
    MaxRequests = 2
    Hooked = FALSE
    Logged = TRUE
    Cuts = {}
    Bodies <- JsonBody
    Interims = TRUE
    Verdicts = {"same"}
    NoHost = NoHost
SPECIFICATION FairSpec
CHECK_DEADLOCK FALSE
PROPERTY EveryRequestAnswered
