------------------------- MODULE OrderImplementation -------------------------
(***************************************************************************)
(* The order manager, run by one process on a database that knows every    *)
(* order it sent, implements the order ledger: the intent's state gives    *)
(* the phase, the broker's fills and the recorded executions the two       *)
(* counts.                                                                 *)
(***************************************************************************)
EXTENDS OrderManager

PhaseOf(state) ==
    CASE state = "none"               -> "none"
      [] state \in NotTransmitted     -> "intended"
      [] state \in TerminalStates     -> "closed"
      [] OTHER                        -> "exposed"

Ledger == INSTANCE OrderLedger WITH
    phase   <- [o \in Orders |-> PhaseOf(intent[o])],
    filled  <- bfilled,
    counted <- recorded

\* Fills only while exposed, counts never ahead of fills, one closing and only
\* when all is counted: the steps of the manager are steps of the ledger.
ImplementsLedger == Ledger!Spec
==============================================================================
