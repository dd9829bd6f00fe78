----------------------------- MODULE OrderStates -----------------------------
(***************************************************************************)
(* The order lifecycle of trading/orders/state_machine.py: the states an   *)
(* order intent can be in, the moves the guard accepts, and the three      *)
(* groups of states the order manager treats alike.                        *)
(***************************************************************************)
OrderState ==
    {"created", "validated", "submitted", "acknowledged",
     "partially_filled", "filled", "cancelled", "rejected", "unknown"}

\* What a broker can report of an order it has (_BROKER_OUTCOMES).
BrokerOutcomes ==
    {"acknowledged", "partially_filled", "filled", "cancelled", "rejected"}

Transitions ==
    [ created          |-> {"validated", "rejected"},
      validated        |-> {"submitted", "cancelled"},
      submitted        |-> BrokerOutcomes \cup {"unknown"},
      acknowledged     |-> (BrokerOutcomes \ {"acknowledged"}) \cup {"unknown"},
      partially_filled |-> {"filled", "cancelled", "unknown"},
      unknown          |-> BrokerOutcomes,
      filled           |-> {},
      cancelled        |-> {},
      rejected         |-> {} ]

\* Repeating the current state is always allowed.
CanTransition(current, target) ==
    current = target \/ target \in Transitions[current]

\* States nothing leads out of (computed from the table, as the code does).
TerminalStates == {s \in OrderState : Transitions[s] = {}}

\* States in which nothing has been handed to the broker yet.
NotTransmitted == {"created", "validated"}

\* States in which the order may still change our exposure.
Working == {"submitted", "acknowledged", "partially_filled", "unknown"}
==============================================================================
