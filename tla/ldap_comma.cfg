SPECIFICATION Spec
CONSTANTS
    Lowered <- MCLowered
    Numerals <- MCNumerals
    Accepts <- MCAccepts
    NoUnit = NoUnit
    People <- CommaPeople
    GroupSets <- MCGroupSets
    RuleSets <- MCRuleSets
    Allowances <- MCAllowances
    MaxEntries = 2
    NoRow = NoRow
    NoPerson = NoPerson
INVARIANT SameWhateverSource
