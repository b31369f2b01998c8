CONSTANTS
    Importer = {"p"}
    Namespace = {"m", "n"}
    Char = {"_", "%", "2", "5", "F", "a", "s"}
    Source <- Rows
    NoField = "none"
    Order <- KeyOrder
    Size <- Sizes
    Limit = 5
    MaxShards = 2
    MaxRows = 3
    MaxChanges = 1
    MaxStarts = 2
SPECIFICATION AllSpec
INVARIANTS
    ImportIsWhole
    IssuedToItsOwner
    DesiredIsDetermined
    OverrideIsEarned
PROPERTIES
    OthersSurvive
