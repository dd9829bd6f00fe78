SPECIFICATION FairSpec
CONSTANTS
    Orders = {o1, o2}
    Procs = {p1}
    Qty = 2
    Prior = {}
    LateArrivals = FALSE
    NoOrder = NoOrder
PROPERTIES EveryIntentIsResolved ImplementsLedger
