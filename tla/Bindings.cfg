CONSTANTS
    Width = 3
    Mac <- MCMac
    MacText <- MCMacText
    Lower <- MCLower
    Iface <- OneIface
    ListenInterfaces <- OneIface
    IfaceIps <- MCIfaceIps
    DefaultLeaseTime = 2
    InitialTables <- OnePool
    Packets <- AllPackets
    ApiOps = {"create_subnet", "update_subnet", "create_range"}
    NewSubnets <- MCNewSubnets
    NewRanges <- MCNewRanges
    NewStatics <- NoRows
    LateReleases = FALSE
    MaxInFlight = 1
    MaxApiCalls = 1
    MaxFaults = 0
    MaxLeaseRows = 3
    MaxTime = 3
    MaxCrashes = 0
SPECIFICATION Spec
INVARIANTS AckBacked NoDoubleAck
PROPERTIES OfferNotLeased OfferHonoured
