SPECIFICATION GuardSpec
CONSTANTS
    Checks = {k1}
    Requests <- MCRequests
    GrantRows <- MCGrantRows
    PolicyRows <- AgencyRows
    Routes <- MCRoutes
    Principals <- MCPrincipals
    MaxTime = 1
    MaxEdits = 2
    FreshFor = 0
    AnyResolver = FALSE
    Unset = Unset
    NoRequest = NoRequest
    NoRoute = NoRoute
INVARIANT NoPhantomAllow
