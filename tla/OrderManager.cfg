\* One process; requests and answers are lost or late, the process dies, and
\* the broker may have an order the restored database does not know.
SPECIFICATION Spec
CONSTANTS
    Orders = {o1, o2}
    Procs = {p1}
    Qty = 2
    Prior = {o1}
    LateArrivals = FALSE
    NoOrder = NoOrder
INVARIANTS NeverRetransmitted NeverUnderReports NoPhantomFills ClosedIsSettled StopTakesHold
