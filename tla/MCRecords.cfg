\* Audit trail, kill switch and gate, runtime configuration, order planning.
SPECIFICATION RecordsSpec
CONSTANTS
    Used <- MCUsed
    Operators = {"o1", "o2"}
    Components = {"c1"}
    MaxChanges = 3
    Symbols = {"s1"}
    Clients = {"u1", "u2"}
    Reviewed <- MCReviewed
    MaxRevision = 3
    MaxLots = 3
    MaxOrder = 2
    MaxSequence = 2
INVARIANTS
    SchemaStands TrailIsSound SwitchHolds GateErrsToSafety ConfigHolds ReplanningIsSafe
PROPERTIES ExplanationsStand PromotedParamsHold
CHECK_DEADLOCK FALSE
