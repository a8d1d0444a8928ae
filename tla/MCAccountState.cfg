SPECIFICATION Spec
CONSTANTS
    Symbols = {btc}
    QuantityTolerance = 1
    CriticalThreshold = 3
    Streams = {c1, c2}
    Exchanges = {"BINANCE", "BYBIT", "OKX"}
    Quantities <- MCQuantities
    Figures <- MCFigures
    None = None
    MaxEvents = 2
    PreferenceChoices <- Muted
    MaxDrifts = 1
SYMMETRY Symmetry
INVARIANTS
    TypeOK
    BalanceAddsUp
    PositionsCatchUp
    SteadyReportIsRight
    RepairReachesTarget
    
