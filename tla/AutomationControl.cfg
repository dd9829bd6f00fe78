SPECIFICATION CrewSpec
CONSTANTS
    Strategies = {s1, s2}
    Handlers = {h1, h2}
    Workers = {w1, w2}
    GateOn = {w1, w2}
    Nobody = Nobody
SYMMETRY Alike
INVARIANTS OneScheduler OrdersArePermitted
PROPERTIES ModeNeverStarts SavesKeepOthers
