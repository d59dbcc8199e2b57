CONSTANTS
    DayGrant = 3
    Rewards <- MCRewards
    MaxEarned = 3
    MaxDay = 2
SPECIFICATION Spec
PROPERTIES VipNotCutOff
