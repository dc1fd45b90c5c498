SPECIFICATION GuardSpec
CONSTANTS
    Checks = {k1}
    Requests <- MCRequests
    GrantRows <- MCGrantRows
    PolicyRows <- MCPolicyRows
    Routes <- MCRoutes
    Principals <- MCPrincipals
    MaxTime = 1
    MaxEdits = 2
    FreshFor = 0
    AnyResolver = TRUE
    Unset = Unset
    NoRequest = NoRequest
    NoRoute = NoRoute
INVARIANTS GuardTypeOK AccessWasGranted TenantsIsolated DenialsHold GateHolds HandlersGuarded
