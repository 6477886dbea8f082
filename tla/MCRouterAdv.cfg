CONSTANTS
    Iface = {"e0", "e1"}
    ListenInterfaces = {"e0"}
    Prefix <- MCPrefix
    Server = {"ns"}
    NewPrefixes <- MCBodies
    DefaultLifetime = 3
    MaxQueue = 2
    MaxApiCalls = 3
    MaxFaults = 2
SPECIFICATION FairSpec
INVARIANTS TypeOK NoLostWakeup
PROPERTIES SolicitationAnswered ChangesAdvertised
CHECK_DEADLOCK FALSE
