CONSTANTS
    Procs <- TwoProcs
    Latest = 3
    Paths <- Ring
    MaxWants = 3
    MaxLosses = 1
    MaxFails = 1
    FaultSets = {{}, {"slow"}, {"overlap"}}
SPECIFICATION LiveSpec
INVARIANTS OneUpgrade BootsWhole UpgradedIsWhole NotAgain
PROPERTIES FollowsPaths ComesToEnd
