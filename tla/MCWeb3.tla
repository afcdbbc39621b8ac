-------------------------------- MODULE MCWeb3 --------------------------------
(* Two users, each of whom can deploy the same code to an address of its own. *)
EXTENDS Web3

CONSTANTS naga, alice, contract1, contract2, wasm

MCUserAddress == [u \in {"naga", "alice"} |-> IF u = "naga" THEN naga ELSE alice]

MCContracts ==
    [pair \in {naga, alice} \X {wasm} |->
        IF pair[1] = naga THEN contract1 ELSE contract2]
=============================================================================
