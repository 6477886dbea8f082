CONSTANTS
    Width = 3
    Mac <- MCMac
    MacText <- MCMacText
    Lower <- MCLower
    Iface <- OneIface
    ListenInterfaces <- OneIface
    IfaceIps <- MCIfaceIps
    DefaultLeaseTime = 2
    InitialTables <- OnePoolReserved
    Packets <- AllPackets
    ApiOps = {}
    NewSubnets <- NoRows
    NewRanges <- NoRows
    NewStatics <- NoRows
    LateReleases = FALSE
    MaxInFlight = 1
    MaxApiCalls = 0
    MaxFaults = 0
    MaxLeaseRows = 3
    MaxTime = 3
    MaxCrashes = 0
SPECIFICATION Spec
INVARIANTS StaticReserved
