CONSTANTS
    DayGrant = 3
    Rewards <- MCRewards
    MaxEarned = 3
    MaxDay = 2
SPECIFICATION LiveSpec
INVARIANTS TypeOK GrantsDoNotPileUp
PROPERTIES FreeSessionsEnd OutOfTimeUnlinks
