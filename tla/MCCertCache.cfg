CONSTANTS
    g1 = g1
    g2 = g2
    g3 = g3
    discord = discord
    discordPort = discordPort
    Callers = {g1, g2, g3}
    Hosts = {discordPort}
    Names = {discord}
    ServerName <- MCServerName
    Validity = 4
    RenewBefore = 3
    MaxCall = 1
    Horizon = 4
    NoCert = NoCert
    BuildError = BuildError
    NoCaller = NoCaller
SPECIFICATION FairSpec
INVARIANTS TypeOK SingleBuild WaitersHaveLeader NeverHandsOutExpired
PROPERTIES NeverReplaceFresh ImplementsStore EveryCallReturns
