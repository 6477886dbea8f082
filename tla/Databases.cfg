CONSTANTS
    Width = 3
    Mac <- MCMac
    MacText <- MCMacText
    Lower <- MCLower
    MaxFaults = 0
    Hostname = {"h1", "h2"}
    NewSubnets <- MCNewSubnets
    Body = {"b1"}
    Interface = {"e0"}
    TokenName = {"t1"}
    LeaseIps = {2, 3}
    LeaseTimes = {0, 1, 2}
    Ids = {1, 2}
    MaxCalls = 5
    MaxTime = 1
SPECIFICATION Spec
INVARIANTS OrphansApart LookupsAgree
