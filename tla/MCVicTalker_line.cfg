\* Programs and the firmware loader share the line, while frames are lost,
\* answers are late and the talker is told to end or killed.
CONSTANTS
    Clients = {mon, ldr}
    Loader = ldr
    Fds <- MCFds
    MaxSent <- MCMaxSent
    MaxDeaths = 1
    FaultSets = {{"lost", "noapp"}, {"lost", "term"}, {"late", "term"},
                 {"late", "noapp", "term", "killed", "early"}}
    None = None
    mon = mon
    ldr = ldr
SPECIFICATION LiveSpec
INVARIANTS OneAtATime
PROPERTIES AnsweredOwn QueueDrains ListensAgain
CHECK_DEADLOCK FALSE
