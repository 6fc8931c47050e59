CONSTANTS
    discord = discord
    relay = relay
    other = other
    Hosts = {discord}
    DiscordHosts = {discord}
    RelayHosts = {}
    PortedHosts = {}
    MaxConnectDepth = 1
    MaxRequests = 2
    Hooked = FALSE
    Logged = TRUE
    Cuts = {"length", "chunked"}
    Bodies <- JsonBody
    Interims = FALSE
    Verdicts = {"same"}
    NoHost = NoHost
SPECIFICATION Spec
CHECK_DEADLOCK FALSE
INVARIANT RequestsUnmodified
