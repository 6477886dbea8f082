CONSTANTS
    r1 = r1
    r2 = r2
    Req <- MCReq
    Name = {"ops", "ci"}
    RequireAuth = TRUE
    MaxTokens = 2
    MaxFaults = 1
SPECIFICATION Spec
SYMMETRY Symmetry
INVARIANTS TypeOK AuthorisedInWindow
PROPERTIES ToggleHitsItsToken
