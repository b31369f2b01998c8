CONSTANTS
    alice = alice  bob = bob  nobody = nobody  Foreign = Foreign  NoSlot = NoSlot
    ka = ka  kb = kb  kc = kc  n1 = n1  n2 = n2  a = a  b = b  old = old
    Namespace = {n1}
    Key = {ka, kb}
    NsOf <- OneNs
    Content = {a, b, old}
    Undeclared = Undeclared
    NoRow = NoRow
    SpecId = {}
    Unowned = Unowned
    Carried <- MCCarried
    Mode = "shared"
    PruneSpecOwned = FALSE
    Threshold = 25
    KindOf <- ProxyAndConsumer
    References = {}
    Norm <- MCNorm
    Owned = {}
    Filters <- NoFilter
    Documents <- TwoDocs
    InitialViews <- LegacyViews
    Written = {a, b}
    AllowLargePrune = {TRUE}
    MaxChanges = 1
    MaxFaults = 1
    NoOp = NoOp
    NoNamespace = NoNamespace
SPECIFICATION AllSpec
PROPERTIES
    Heals
    Recovers
    EveryRunEnds
