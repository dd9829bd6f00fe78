--------------------------- MODULE MCTradingCycle ---------------------------
(***************************************************************************)
(* Values for checking TradingCycle: the schedule of config/base.yaml with *)
(* its gaps shrunk to the few instants that tell steps apart.              *)
(***************************************************************************)
EXTENDS TradingCycle

MCDue ==
    [s \in Steps |->
        CASE s \in {"health_check", "market_data_update", "indicators", "strategies"} -> 1
          [] s = "risk"             -> 1
          [] s = "portfolio_target" -> 2
          [] s = "order_submission" -> 2
          [] s = "fill_monitoring"  -> 3
          [] OTHER                  -> 4]
==============================================================================
