------------------------------ MODULE MCExecute ------------------------------
(* Values of the constants of Execute for TLC. *)
EXTENDS ExecuteLedger

CONSTANTS user, ctor

\* Memories by their initial and maximum size.
Declared(initial, maximum) == [initial |-> initial, maximum |-> maximum]

MCNoMemory == {Declared(0, 0)}

\* None, one that fits, one that may grow, one past the limit of three pages, and
\* one without a maximum.
MCMemories == {Declared(0, 0), Declared(2, 2), Declared(0, 2), Declared(1, 4),
               Declared(0, NoMaximum)}

\* Every address but the user's is a contract's, derived from the same code.
MCContracts == [a \in Address \ {user} |-> ctor]

\* The sample chain's genesis: a user has a balance and no code.
MCGenesis == [a \in Address |-> IF a = user THEN NewAccount(1, 0, Empty)
                                            ELSE NoAccount]

\* Costs scaled down to a limit of a few units, all of them positive.  Growing costs
\* two, so that with 32 bits of eight values four pages cost nothing.
MCSchedule == [cost \in CostNames |->
                 IF cost \in {"sstore_set_gas", "grow_mem"} THEN 2 ELSE 1]
=============================================================================
