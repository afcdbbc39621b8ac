SPECIFICATION Spec
CONSTANTS
    naga = naga
    alice = alice
    contract1 = contract1
    contract2 = contract2
    wasm = wasm
    User = {"naga", "alice"}
    UserAddress <- MCUserAddress
    Address = {naga, alice, contract1, contract2}
    Key = {k1}
    Zero = v0
    Value = {v0, v1}
    Absent = absent
    Empty = empty
    Bytes = {empty, wasm, token}
    Naga = "naga"
    Args = {x, y}
    Contracts <- MCContracts
    MaxBlocks = 7
INVARIANTS ReceiptNamesItsBlock
