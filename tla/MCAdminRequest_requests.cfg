SPECIFICATION AllSpec
CONSTANTS
    RowKind = "PluginConfig"
    MaxAttempts = 3
    Life = 4
    Margin = 1
    Scope = {1}
    NoToken = NoToken
    MaxTime = 0
    MaxClockSets = 0
    MaxVersion = 5
INVARIANTS
    AtMostOnce
    ReportsAreTrue
    ListingIsComplete
PROPERTIES
    TokensAreCurrent
