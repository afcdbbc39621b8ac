SPECIFICATION Spec
CONSTANTS
    user = user
    ctor = ctor
    Address = {c1, user}
    Key = {k1}
    Zero = v0
    Value = {v0, v1}
    Absent = absent
    Empty = empty
    Bytes = {empty, ctor}
    Remote = FALSE
    U64Max = 20
    U32Max = 7
    U256Max = 70
    Schedule <- MCSchedule
    BlockCosts = {1, 2, 3}
    GasArgs = {0, 2, 20}
    GrowArgs = {1, 4}
    CallValues = {0, 1, 2}
    Loadable = {ctor}
    MaxMemory = 3
    NoMaximum = none
    Memories <- MCMemories
    Contracts <- MCContracts
    Genesis <- MCGenesis
    GasInputs = {0, 1, 4, 7, 8, 9}
    ArgLengths = {0, 2}
INVARIANTS
    GasBounded
    MemoryBounded
    MemoryPaid
PROPERTIES
    RefundFair
    StepsAreMetered
    Termination
