SPECIFICATION Spec
CONSTANTS
    Lowered <- MCLowered
    Numerals <- MCNumerals
    Accepts <- MCAccepts
    NoUnit = NoUnit
    People <- MCPeople
    GroupSets <- MCGroupSets
    RuleSets <- MCRuleSets
    Allowances <- MCAllowances
    MaxEntries = 2
    NoRow = NoRow
    NoPerson = NoPerson
INVARIANTS SameWhateverSource RolesDeserved MinimisedAddsNothing
PROPERTY PullSettles
