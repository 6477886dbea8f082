CONSTANTS
    Width = 3
    Mac <- MCMac
    MacText <- MCMacText
    Lower <- MCLower
    MaxFaults = 1
    ApiOps = {"create_subnet", "update_subnet", "delete_subnet", "create_range", "delete_range",
              "create_static_ip", "delete_static_ip"}
    NewSubnets <- AllSubnets
    NewRanges <- MCRanges
    NewStatics <- MCStatics
    MaxInFlight = 1
    MaxApiCalls = 3
SPECIFICATION AdminSpec
INVARIANTS NoOverlap OverlapIsSharedAddress
CHECK_DEADLOCK FALSE
