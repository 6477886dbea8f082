CONSTANTS
    Width = 3
    Mac <- MCMac
    MacText <- MCMacText
    Lower <- MCLower
    MaxFaults = 1
    ApiOps = {"create_subnet", "update_subnet", "delete_subnet", "create_range", "delete_range",
              "create_static_ip", "delete_static_ip"}
    NewSubnets <- MCSubnets
    NewRanges <- MCRanges
    NewStatics <- MCStatics
    MaxInFlight = 2
    MaxApiCalls = 4
SPECIFICATION AdminSpec
INVARIANT OneStaticPerClient
CHECK_DEADLOCK FALSE
