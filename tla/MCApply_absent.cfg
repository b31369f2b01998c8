CONSTANTS
    ka = ka  kb = kb  kc = kc  n1 = n1  n2 = n2  a = a  b = b  old = old
    Namespace = {n1}
    Key = {ka, kb}
    NsOf <- OneNs
    Content = {a, b, old}
    Undeclared = Undeclared
    NoRow = NoRow
    SpecId = {s1}
    Unowned = Unowned
    Carried <- MCCarried
    Mode = "shared"
    PruneSpecOwned = FALSE
    Threshold = 25
    KindOf <- ProxyAndConsumer
    References = {}
    Norm <- MCNorm
    Owned = {}
    Filters <- NoFilter
    Documents <- AllDocs
    InitialViews <- EmptyView
    Written = {a, b}
    AllowLargePrune = {TRUE}
    MaxChanges = 0
    MaxFaults = 1
    NoOp = NoOp
    NoNamespace = NoNamespace
SPECIFICATION Spec
INVARIANTS
    AbsentProvesNotCommitted
