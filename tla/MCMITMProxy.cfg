CONSTANTS
    c1 = c1
    c2 = c2
    Clients = {c1, c2}
    Scripts <- AllScripts
    MaxErrors = 1
    Setups <- AllSetups
SPECIFICATION ProxySpec
CHECK_DEADLOCK FALSE
INVARIANTS ProxyTypeOK HandshakeSeesHello HealthyIsServing
PROPERTIES SessionsOutliveServe NobodyLeftPending CancelStopsServe GoneIsClosed StartsOrExits HealthyStays
