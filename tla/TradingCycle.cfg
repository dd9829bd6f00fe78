SPECIFICATION Spec
CONSTANTS
    Due <- MCDue
    OrderCutoff = 3
    LastMinute = 4
    Faults = {"crash", "data", "broker", "risk", "stop", "drift"}
INVARIANTS OrdersNeedEveryStep StopsAreObeyed CompletedMeansReconciled
PROPERTIES OutcomesAreFinal
