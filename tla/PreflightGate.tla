---------------------------- MODULE PreflightGate ----------------------------
(***************************************************************************)
(* The pre-trade gate of a cycle (trading/safety/preflight.py and the      *)
(* checks beside it): its checks run one after another, the first of them  *)
(* on the kill switch that people and components move meanwhile.  What the *)
(* other checks look at is a world chosen at the start.                    *)
(***************************************************************************)
EXTENDS KillSwitch, FiniteSets

CONSTANT Symbols          \* symbols of the universe and of the signals

VARIABLES
    world,                \* what the checks look at
    allowReducing,        \* trading.kill_switch.allow_risk_reducing_orders
    results,              \* results so far, in the order of the checks
    seenReleased          \* history: released at some moment of this evaluation

gateVars == << world, allowReducing, results, seenReleased >>

Pass == "pass"
Blocks == {"all", "increase"}   \* scope of a failed check

Worlds ==
    [ database : {"head", "behind", "down"},
      account  : {"fine", "blocked", "live", "no_equity", "down"},
      positions : {"fine", "down"}, openOrders : {"fine", "down"},
      bars     : [Symbols -> {"fresh", "stale", "invalid", "missing", "broken"}],
      risk     : {"fine", "blocked", "daily_loss", "none"},
      reconciliation : {"passed", "never", "failed", "down"} ]

Good == [ database |-> "head", account |-> "fine", positions |-> "fine", openOrders |-> "fine",
          bars |-> [s \in Symbols |-> "fresh"], risk |-> "fine", reconciliation |-> "passed" ]

\* Bound: besides risk and reconciliation at most one thing is wrong at once.
BoundedWorlds ==
    { w \in Worlds :
        \/ Cardinality({f \in DOMAIN Good : w[f] # Good[f]}) <= 1
        \/ w = [Good EXCEPT !.risk = w.risk, !.reconciliation = w.reconciliation] }

GateInit ==
    /\ world \in BoundedWorlds /\ allowReducing \in BOOLEAN
    /\ results = << >> /\ seenReleased = FALSE

-----------------------------------------------------------------------------
(* The checks. *)

KillSwitchCheck == IF ~Engaged THEN Pass ELSE IF allowReducing THEN "increase" ELSE "all"

DatabaseCheck == IF world.database = "head" THEN Pass ELSE "all"

\* Account, then positions, then open orders: any failure is a failure.
BrokerStateCheck ==
    IF world.account = "fine" /\ world.positions = "fine" /\ world.openOrders = "fine"
    THEN Pass ELSE "all"

\* No symbols is a failure; a loader that breaks takes the check with it, which
\* the gate counts as a failure.
MarketDataCheck ==
    IF Symbols # {} /\ \A s \in Symbols : world.bars[s] = "fresh" THEN Pass ELSE "all"

\* Mutant: without a stored decision there is no loss.
StoredRiskCheck_optimistic == IF world.risk \in {"fine", "none"} THEN Pass ELSE "increase"

\* The stored decision; without one the daily loss is not a number.
StoredRiskCheck ==
    CASE world.risk = "fine" -> Pass
      [] world.risk = "none" -> "all"
      [] OTHER               -> "increase"

ReconciliationCheck ==
    CASE world.reconciliation \in {"passed", "never"} -> Pass
      [] world.reconciliation = "failed"              -> "increase"
      [] OTHER                                        -> "all"

Checks ==
    << KillSwitchCheck, DatabaseCheck, BrokerStateCheck, MarketDataCheck, StoredRiskCheck,
       ReconciliationCheck >>

RunCheck ==
    /\ Len(results) < Len(Checks)
    /\ results' = Append(results, Checks[Len(results) + 1])
    /\ seenReleased' = (seenReleased \/ ~Engaged)
    /\ UNCHANGED << world, allowReducing >>

Evaluated == Len(results) = Len(Checks)

\* The next evaluation; all of a behaviour see one world, the switch moves on.
NextCycle ==
    /\ Evaluated /\ results' = << >> /\ seenReleased' = FALSE
    /\ UNCHANGED << world, allowReducing >>

Failures         == {results[i] : i \in DOMAIN results} \ {Pass}
MayIncreaseRisk  == Failures = {}
MayReduceRisk    == Failures \subseteq {"increase"}

GateNext ==
    \/ SwitchNext /\ UNCHANGED gateVars
    \/ (RunCheck \/ NextCycle) /\ UNCHANGED switchVars

GateSpec == SwitchInit /\ GateInit /\ [][GateNext]_<< switchVars, gateVars >>

-----------------------------------------------------------------------------
(* Properties *)

\* Every failure to know is a refusal: risk is increased only if the switch was
\* read as released and nothing is wrong, reduced only on an account, positions,
\* open orders, prices and an audit trail that are known to be good.
GateFailsClosed ==
    Evaluated =>
        /\ MayIncreaseRisk => seenReleased /\ world = [Good EXCEPT !.reconciliation = world.reconciliation]
                                           /\ world.reconciliation \in {"passed", "never"}
        /\ MayReduceRisk => /\ world.database = "head" /\ world.account = "fine"
                            /\ world.positions = "fine" /\ world.openOrders = "fine"
                            /\ world.bars = Good.bars /\ world.risk # "none"

\* An emergency leaves the way out: an engaged or unreadable switch, a drawdown,
\* a daily loss or a failed reconciliation alone never stops risk-reducing orders.
ExitStaysOpen ==
    Evaluated /\ allowReducing
        /\ world \in {[Good EXCEPT !.risk = k, !.reconciliation = r] :
                         k \in {"fine", "blocked", "daily_loss"}, r \in {"passed", "never", "failed"}}
      => MayReduceRisk

\* The gate errs on one side only: what it cannot know refuses, and what only
\* speaks against more risk leaves the way out of a position open.
GateErrsToSafety == GateFailsClosed /\ ExitStaysOpen
=============================================================================
