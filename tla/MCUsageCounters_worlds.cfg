CONSTANTS
    Wrap = 3
    LastMonth = 2
    MaxTraffic = 4
    MaxEnds = 2
    Worlds = {
        {"month", "off", "term", "feature"},
        {"month", "off", "crash", "loss", "inside"},
        {"month", "term", "inside"},
        {"clock", "term", "crash"},
        {"reset", "feature", "early"}}
SPECIFICATION Spec
INVARIANTS NothingForgotten NotOverCounted
PROPERTIES NeverLess
CHECK_DEADLOCK FALSE
