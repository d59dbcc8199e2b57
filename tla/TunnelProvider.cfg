CONSTANTS
    wifi = wifi
    cell = cell
    Paths = {wifi, cell}
    Down = Down
    Nil = Nil
    MaxConf = 2
    MaxStarts = 3
    MaxRestarts = 2
SPECIFICATION FairSpec
INVARIANTS ServedWhileStarted OnlyRememberedUnserved
PROPERTIES TrapOnlyBeforeStarted ImplementsSession RefreshConverges NewNetworkServed ProviderSettles
