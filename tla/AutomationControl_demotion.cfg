SPECIFICATION Spec
CONSTANTS
    Strategies = {s1, s2}
    Handlers = {h1, h2}
    Workers = {w1}
    GateOn = {w1}
    Nobody = Nobody
PROPERTIES DemotionsStand
