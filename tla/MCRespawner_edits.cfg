CONSTANTS
    c1 = c1
    c2 = c2
    Nobody = Nobody
    Cmds <- MCCmds
    Conditionals <- NoneOrOne
    Blanks <- NoneOrFirst
    Worlds <- AloneEach
    MaxEdits = 3
SPECIFICATION LiveSpec
INVARIANTS OneProcess Survives
PROPERTIES RespawnedLater
CHECK_DEADLOCK FALSE
