SPECIFICATION Spec
CONSTANTS
    Due <- MCDue
    OrderCutoff = 3
    LastMinute = 4
    Faults = {"crash"}
INVARIANTS DecisionIsReused
