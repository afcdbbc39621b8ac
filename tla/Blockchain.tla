------------------------------ MODULE Blockchain ------------------------------
(***************************************************************************)
(* The sample blockchain (examples/blockchain): blocks, accounts under     *)
(* aliases, and the table of transactions with their results.  Each method *)
(* is an operator on a chain; a method that unwraps a lookup is defined    *)
(* only where the lookup succeeds, and panics elsewhere.                   *)
(*                                                                         *)
(* Contracts are inserted under the aliases contract_1, contract_2, ...,   *)
(* `counter` being the last of them: they are kept as a sequence.  A block *)
(* is reduced to its number and the hash of the one before; in one chain a *)
(* number determines a block, and <<number>> stands for its hash.          *)
(***************************************************************************)
EXTENDS Naturals, Sequences

CONSTANTS
    User,         \* aliases of the accounts in the genesis
    UserAddress,  \* their addresses
    Address, Key, Value, Zero, Absent, Bytes, Empty   \* as in Provider

ASSUME BlockchainAssumption ==
    /\ UserAddress \in [User -> Address]
    /\ \A u, v \in User : UserAddress[u] = UserAddress[v] => u = v
    /\ Empty \in Bytes
    /\ Zero \in Value
    /\ Absent \notin Value

Account == [address : Address,
            nonce   : Nat,
            balance : Nat,
            code    : Bytes,
            storage : [Key -> Value \cup {Absent}]]

\* Account::new
NewAccount(address, balance, nonce, code) ==
    [address |-> address, nonce |-> nonce, balance |-> balance, code |-> code,
     storage |-> [k \in Key |-> Absent]]

Block == [num : Nat, prev : Seq(Nat)]

Hash(block) == <<block.num>>

\* H256::zero(), before the first block.
NoHash == <<>>

\* Blockchain::new.  Every user has one and the same balance.
NewChain ==
    [blocks       |-> <<[num |-> 0, prev |-> NoHash]>>,
     users        |-> [u \in User |-> NewAccount(UserAddress[u], 1, 0, Empty)],
     contracts    |-> <<>>,
     transactions |-> <<>>]

-----------------------------------------------------------------------------
(* Accounts.                                                               *)

ContractsAt(chain, a) ==
    {n \in DOMAIN chain.contracts : chain.contracts[n].address = a}

UsersAt(chain, a) == {u \in User : chain.users[u].address = a}

\* The accounts a scan of the map may come to first.
AccountsAt(chain, a) ==
    {chain.contracts[n] : n \in ContractsAt(chain, a)}
    \cup {chain.users[u] : u \in UsersAt(chain, a)}

Exist(chain, a) == AccountsAt(chain, a) # {}

\* What `account` may answer, and no answer is an error.
Details(chain, a) ==
    {[balance |-> acc.balance, nonce |-> acc.nonce, code |-> acc.code] :
        acc \in AccountsAt(chain, a)}

\* What `storage_at` may answer: a key without an entry is an error as well.
StorageAt(chain, a, k) ==
    {acc.storage[k] : acc \in AccountsAt(chain, a)} \ {Absent}

\* Mutant: the new account is endowed.
CreateContract_Endowed(chain, a, code) ==
    [chain EXCEPT !.contracts = Append(@, NewAccount(a, 1, 0, code))]

\* create_contract does not look whether the address is taken.
CreateContract(chain, a, code) ==
    [chain EXCEPT !.contracts = Append(@, NewAccount(a, 0, 0, code))]

\* account_mut: whatever is changed is changed in the first account found; with
\* one account to an address, that is all of them.
Change(chain, a, Op(_)) ==
    [chain EXCEPT
        !.contracts = [n \in DOMAIN @ |->
                          IF @[n].address = a THEN Op(@[n]) ELSE @[n]],
        !.users     = [u \in User |->
                          IF @[u].address = a THEN Op(@[u]) ELSE @[u]]]

UpdateAccount(chain, a, balance, nonce) ==
    Change(chain, a, LAMBDA account :
        [account EXCEPT !.balance = balance, !.nonce = nonce])

\* Mutant: only the value first stored under a key counts (or_insert alone).
Overwritten_First(former, v) == IF former = Absent THEN v ELSE former

\* What a key holds after a write, or none.
Overwritten(former, v) == IF v = Absent THEN former ELSE v

\* set_storage, of every key in turn that is written.
Store(chain, a, writes) ==
    Change(chain, a, LAMBDA account :
        [account EXCEPT !.storage =
            [k \in Key |-> Overwritten(@[k], writes[k])]])

SetStorage(chain, a, k, v) ==
    Store(chain, a, [j \in Key |-> IF j = k THEN v ELSE Absent])

IncNonce(chain, alias) == [chain EXCEPT !.users[alias].nonce = @ + 1]

-----------------------------------------------------------------------------
(* Blocks and transactions.                                                *)

Latest(chain) == chain.blocks[Len(chain.blocks)]

\* commit: a block with nothing but its place in it.
Commit(chain) ==
    [chain EXCEPT !.blocks =
        Append(@, [num |-> Len(@), prev |-> Hash(Latest(chain))])]

\* Mutant: the sender is left out of the hash.
TransactionHash_NoSender(tx) == [tx EXCEPT !.sender = "none"]

\* The hash covers every field of a transaction and nothing else (no nonce): two
\* equal transactions have one hash, and the transaction stands for it.
TransactionHash(tx) == tx

\* add_transactions: the record of an equal transaction is replaced.
AddTransaction(chain, tx, result) ==
    LET hash == TransactionHash(tx)
    IN  [chain EXCEPT !.transactions =
            [h \in DOMAIN @ \cup {hash} |->
                IF h = hash THEN [tx |-> tx, result |-> result] ELSE @[h]]]

Recorded(chain) == DOMAIN chain.transactions
=============================================================================
