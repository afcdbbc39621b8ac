SPECIFICATION Spec
CONSTANTS
    user = user
    ctor = ctor
    Address = {c1, user}
    Key = {k1}
    Zero = v0
    Value = {v0, v1}
    Absent = absent
    Empty = empty
    Bytes = {empty, ctor}
    Remote = FALSE
    U64Max = 20
    U32Max = 7
    U256Max = 70
    Schedule <- MCSchedule
    BlockCosts = {1}
    GasArgs = {0}
    GrowArgs = {}
    CallValues = {1}
    Loadable = {ctor}
    MaxMemory = 3
    NoMaximum = none
    Memories <- MCNoMemory
    Contracts <- MCContracts
    Genesis <- MCGenesis
    GasInputs = {5}
    ArgLengths = {0}
PROPERTIES
    TrapMeansError
