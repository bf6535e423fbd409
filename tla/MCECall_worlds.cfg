\* Crashes and what comes with them: a user who hangs up, keys pressed at odd
\* times, signals, a slow talker, lines read together, a second crash, a port
\* that does not open, a modem that goes away, a clock that is set.
CONSTANTS
    MaxTries = 2
    MaxCallbacks = 2
    MaxLines = 2
    Worlds = {
        {"hup", "hours"},
        {"keys", "together"},
        {"term", "slow"},
        {"second"},
        {"second", "noport"},
        {"eof"}}
SPECIFICATION LiveSpec
INVARIANTS OutcomeLogged LineKept
PROPERTIES GivesBack
CHECK_DEADLOCK FALSE
