\* Risk engine and policy, ensemble, data store, data quality, backtest, research.
SPECIFICATION LabSpec
CONSTANTS
    Instruments <- MCInstruments
    Leverage <- MCLeverage
    Unit = 4
    Eps = 0
    Par = 5
    Limits <- MCLimits
    Exposures <- MCExposures
    Books <- MCBooks
    Vols = {1, 2}
    Regimes = {"normal", "extreme"}
    Count = 4
    One = 5040
    Dust = 20
    Inputs <- MCInputs
    Writers = {"w1", "w2"}
    Answers <- MCAnswers
    Uploads = {1, 2}
    Broken = {3}
    MaxSnapshots = 2
    MaxSeconds = 2
    Sessions <- MCSessions
    DayLength = 5
    Stamps = {8, 9, 13, 18, 24}
    Closes = {2, 5}
    MaxBars = 3
    Step = 2
    Tolerance = 2
    MaxAge = 1
    ActionLists <- MCActions
    Symbols = {"q", "t"}
    Prices <- MCPrices
    Targets <- MCTargets
    Whole = 4
    Timings <- MCTimings
    Delays = {0, 1}
    Caps <- MCCaps
    Spread = 1
    Fee = 3
    Rate = 20
    Threshold = 1
    Capital = 301
    Horizon = 3
    Runs = {"r1", "r2"}
    Grids <- MCGrids
    Invalid = {"x"}
    DataSets = {"d1", "d2"}
    Evidences <- MCEvidences
    MaxEntries = 2
    Samples <- MCSamples
    Levels = {1, 2, 3}
    Setups <- MCSetups
    MaxDays = 6
INVARIANTS
    RulesWorkTogether WeightsAreShared StoreIsSound BarsAreJudged AccountsAddUp NothingIsForeseen
    EvidenceCounts SamplesAreSound StrategiesAgree
PROPERTIES BandsHold NothingIsLost
CHECK_DEADLOCK FALSE
