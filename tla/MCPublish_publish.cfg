CONSTANTS
    Run = {"r", "s"}
    Namespace = {"a", "b"}
    NoNs = "all"
    EnvFilter = "all"
    GatewayPath = "g"
    MeshPath = {"m", "l"}
    FileOf <- Paths
    Regular = TRUE
    Nobody = "nobody"
    NoPath = "nowhere"
    MaxStarts = 3
    MaxEdits = 1
    MaxFaults = 1
SPECIFICATION AllSpec
INVARIANTS
    VerificationIsHonest
    CompletedRunConverges
    DocumentsAreWhole
PROPERTIES
    FilesAreOurs
