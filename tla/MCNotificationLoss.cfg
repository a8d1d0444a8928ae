SPECIFICATION Spec
CONSTANTS
    Symbols = {btc}
    QuantityTolerance = 1
    CriticalThreshold = 3
    Streams = {c1}
    Exchanges = {"BYBIT"}
    Quantities <- MCQuantities
    Figures <- MCFigures
    None = None
    MaxEvents = 2
    PreferenceChoices <- Muted
    MaxDrifts = 1
INVARIANT
    PreferencesAreKept
