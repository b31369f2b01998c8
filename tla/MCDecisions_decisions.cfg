CONSTANTS
    Namespace = {"n1", "n2"}
    Consumers = {"n1"}
    Run = {"r1"}
    Options <- AllOptions
    MaxVersions = 2
    MaxKeys = 2
    MaxChanges = 2
    NoFile = NoFile
    NoEntry = NoEntry
    NotRead = NotRead
SPECIFICATION AllSpec
INVARIANTS
    CommandsAgree
    ExitCodesAreEarned
PROPERTIES
    AlarmsAreKept
