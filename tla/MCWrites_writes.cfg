CONSTANTS
    Namespace = {"one", "two"}
    Key = {"own", "api", "decl", "hand"}
    NsOf <- InNs
    Order <- Both
    Declared = {"own", "decl"}
    ApiSpec = {"doc"}
    SpecNs <- DocNs
    OwnerOf <- DocOwner
    NoSpec = NoSpec
    NoRow = NoRow
    Rows <- AllRows
    MaxChanges = 2
    MaxRuns = 1
SPECIFICATION AllSpec
PROPERTIES
    NoLostUpdate
    RestoreIsWhole
    CreatesAreProven
    AssociationsAreKept
