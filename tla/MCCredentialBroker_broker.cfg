SPECIFICATION AllSpec
CONSTANTS
    a = a
    b = b
    alice = alice
    bob = bob
    nobody = nobody
    Slot = {a, b}
    MaxShards = 2
    Capacity = 1
    Hash <- SameHash
    MaxValue = 3
    Author = {alice, nobody}
    Nobody = nobody
    Modes = {"strict", "remap"}
    Blockable = {b}
    OnlyRefused = FALSE
    MaxRevision = 2
    MaxRotations = 0
    MaxFaults = 1
    NoRow = NoRow
    Foreign = Foreign
    NoSlot = NoSlot
CHECK_DEADLOCK FALSE
INVARIANTS
    OneShardPerSlot
    SecretsFit
    ServedValuesAreHeld
    ValuesAreAccounted
PROPERTIES
    PutsAreSafe
