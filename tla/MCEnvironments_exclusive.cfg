CONSTANTS
    s1 = s1  ka = ka  kb = kb  kc = kc  n1 = n1  n2 = n2  a = a  b = b  old = old
    Namespace = {n1}
    Key = {ka, kb}
    NsOf <- OneNs
    Content = {a, b, old}
    Undeclared = Undeclared
    NoRow = NoRow
    SpecId = {s1, s2}
    Unowned = Unowned
    Carried <- MCCarried
    Mode = "exclusive"
    PruneSpecOwned = TRUE
    Threshold = 50
    KindOf <- ProxyAndPlugin
    References <- ProxyUsesPlugin
    Norm <- MCNorm
    Owned = {n1}
    Filters <- NoFilter
    Documents <- AllDocs
    InitialViews <- FullViews
    Written = {a, b}
    AllowLargePrune = {FALSE}
    MaxChanges = 2
    MaxFaults = 2
    NoOp = NoOp
    NoNamespace = NoNamespace
SPECIFICATION AllSpec
INVARIANTS
    PruneIsBounded
PROPERTIES
    RunsConverge
    SpecRowsAreSafe
    DeletesComeLast
