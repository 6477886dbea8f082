CONSTANTS
    Width = 3
    Mac <- MCMac
    MacText <- MCMacText
    Lower <- MCLower
    Iface <- TwoIfaces
    ListenInterfaces <- TwoIfaces
    IfaceIps <- MCIfaceIps
    DefaultLeaseTime = 1
    InitialTables <- TwoPoolsReserved
    Packets <- FewPackets
    ApiOps = {"create_subnet", "update_subnet", "delete_subnet", "create_range", "delete_range",
              "create_static_ip", "delete_static_ip"}
    NewSubnets <- MCNewSubnets
    NewRanges <- MCNewRanges
    NewStatics <- MCNewStatics
    LateReleases = TRUE
    MaxInFlight = 1
    MaxApiCalls = 1
    MaxFaults = 1
    MaxLeaseRows = 2
    MaxTime = 2
    MaxCrashes = 1
SPECIFICATION FairSpec
INVARIANTS TypeOK ReferentialIntegrity LeaseExclusive
PROPERTIES LeaseRemovedByOwner ImplementsRegistry ExpiredPurged
