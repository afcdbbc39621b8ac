-------------------------------- MODULE Ledger --------------------------------
(***************************************************************************)
(* What a blockchain expects of durian, without overlay, gas or host       *)
(* functions: a transaction is accepted, and its answer either changes     *)
(* nothing or, at once, updates one contract.                              *)
(***************************************************************************)
CONSTANTS Address, Key, Value, Absent, Bytes, Empty, Genesis

VARIABLES
    ledger,   \* [Address -> [exist, code, storage]]
    reply     \* "none" before the first answer and while one is worked out

vars == <<ledger, reply>>

Writes == [Key -> Value \cup {Absent}]

NoStorage == [k \in Key |-> Absent]

Overwrite(storage, writes) ==
    [k \in Key |-> IF writes[k] = Absent THEN storage[k] ELSE writes[k]]

Init == ledger = Genesis /\ reply = "none"

Accept == reply' = "none" /\ UNCHANGED ledger

\* A transaction refused at once, or that fails.
Fail == reply' = "err" /\ UNCHANGED ledger

\* An accepted transaction succeeds, once: it has nothing to store, or updates a
\* contract, or creates one.
SucceedUnchanged ==
    /\ reply = "none" /\ reply' = "ok"
    /\ UNCHANGED ledger

\* What a transaction does to a contract that is there, which keeps its code, ...
Update(a, writes) ==
    /\ ledger[a].exist
    /\ ledger' = [ledger EXCEPT ![a].storage = Overwrite(@, writes)]

\* ... and where none is: the contract has its code and what its constructor wrote.
Create(a, code, writes) ==
    /\ ~ledger[a].exist
    /\ code # Empty
    /\ ledger' = [ledger EXCEPT ![a] =
                    [exist |-> TRUE, code |-> code,
                     storage |-> Overwrite(NoStorage, writes)]]

UpdateContract(a, writes) ==
    reply = "none" /\ reply' = "ok" /\ Update(a, writes)

CreateContract(a, code, writes) ==
    reply = "none" /\ reply' = "ok" /\ Create(a, code, writes)

Next ==
    \/ Accept
    \/ Fail
    \/ SucceedUnchanged
    \/ \E a \in Address, writes \in Writes :
          \/ UpdateContract(a, writes)
          \/ \E code \in Bytes : CreateContract(a, code, writes)

Spec == Init /\ [][Next]_vars
=============================================================================
