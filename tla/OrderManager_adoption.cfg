\* A partially filled order is held by the broker (pending_cancel, ...).
SPECIFICATION Spec
CONSTANTS
    Orders = {o1}
    Procs = {p1}
    Qty = 2
    Prior = {}
    LateArrivals = FALSE
    NoOrder = NoOrder
INVARIANTS AdoptionIsLegal
