---------------------------- MODULE ExecuteLedger ----------------------------
(***************************************************************************)
(* With a provider in the same process, Execute implements Ledger: the     *)
(* calls of update_state, one per account and slot, amount to one step.    *)
(***************************************************************************)
EXTENDS Execute

Recorded(account) ==
    [exist |-> account.exist, code |-> account.code,
     storage |-> account.storage]

Abstract(prov) == [a \in Address |-> Recorded(prov[a])]

\* The chain before the update counts until the update is answered.
LedgerOf == Abstract(IF pc = "flush" THEN base ELSE provider)

\* A transaction lost to a panic has failed.
ReplyOf == IF outcome.status = "panic" THEN "err" ELSE outcome.status

L == INSTANCE Ledger WITH ledger  <- LedgerOf,
                          reply   <- ReplyOf,
                          Genesis <- Abstract(Genesis)

\* Every behaviour of execute is one of the ledger: each transaction takes effect
\* as a whole when it is answered, or not at all, on one contract.
AtomicExecution == L!Spec
=============================================================================
