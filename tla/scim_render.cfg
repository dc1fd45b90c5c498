SPECIFICATION MCSpec
CONSTANTS
    Lowered <- MCLowered
    DefaultPageSize = 1
    MaxPageSize = 2
    Calls = {c1, c2}
    Json <- MCJson
    UserBodies <- MCUserBodies
    UserPatches <- MCUserPatches
    GroupBodies <- MCGroupBodies
    GroupPatches <- MCGroupPatches
    Searches <- MCSearches
    MaxUsers = 2
    MaxGroups = 1
    NoInput = NoInput
    NoGroup = NoGroup
    NoWalk = NoWalk
SYMMETRY Symmetry
CONSTRAINT Apart
INVARIANT RenderedConforms
