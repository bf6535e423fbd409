CONSTANTS
    Worlds = {
        {"ign", "users", "event"},
        {"shut", "battery", "event"},
        {"shut", "event", "signal"},
        {"lte", "ign", "users", "shut", "signal"},
        {"shut", "users", "drop", "term"},
        {"sms"},
        {"ign", "users", "unitdies"},
        {"shut", "users", "late", "unitdies"},
        {"lte", "shut", "users", "kept"},
        {"ign", "users", "drop", "close", "late", "crash"},
        {"ign", "users", "drop", "deadlink", "term"}}
SPECIFICATION LiveSpec
INVARIANTS HungUp StopIsAnswered
PROPERTIES ShutsDown ServedAgain
CHECK_DEADLOCK FALSE
