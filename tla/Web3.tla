--------------------------------- MODULE Web3 ---------------------------------
(***************************************************************************)
(* The Ethereum requests of examples/web3 on one sample blockchain behind  *)
(* a mutex.  A handler holds the mutex from its first line to its last, so *)
(* a request is one step.  A handler that panics poisons the mutex, and    *)
(* every handler begins with lock().unwrap().                              *)
(*                                                                         *)
(* Of `execute`, only what it can do to a chain in its own process is kept *)
(* (what AtomicExecution of ExecuteLedger says): a failure leaves it as it *)
(* was, an empty result as well, another one updates one contract.         *)
(***************************************************************************)
EXTENDS Blockchain, FiniteSets

CONSTANTS
    Naga,        \* the alias whose nonce counts, and who sends eth_call
    Args,        \* arguments of transactions
    Contracts,   \* contract_address: [Address \X Bytes -> Address], partial
    MaxBlocks    \* bound: no transaction is sent with more blocks

\* An address is a hash: no contract's is a user's.
ASSUME Web3Assumption ==
    /\ Naga \in User
    /\ \A pair \in DOMAIN Contracts :
          Contracts[pair] \in Address \ {UserAddress[u] : u \in User}
    /\ MaxBlocks \in Nat

VARIABLES
    chain,      \* the blockchain in the mutex
    lock,       \* "free" or "poisoned"
    response,   \* what the last request was answered
    mined,      \* history: the block committed behind each recorded transaction
    first       \* history: the first result of a deployment at each address that
                \* has one which is not empty

vars == <<chain, lock, response, mined, first>>

Transaction == [sender : Address, code : Bytes, args : Args]

Deployments == {tx \in Transaction : <<tx.sender, tx.code>> \in DOMAIN Contracts}

ContractAddress(tx) == Contracts[<<tx.sender, tx.code>>]

NoResponse == [status |-> "none"]

Ok == [status |-> "ok"]

Panic == [status |-> "panic"]

LockedOut == [status |-> "locked_out"]

-----------------------------------------------------------------------------
(* What execute does to the chain.                                         *)

Writes == [Key -> Value \cup {Absent}]

\* Mutant: update_state does not ask whether the account exists.
UpdateState_Create(ch, a, code, writes) ==
    {Store(CreateContract(ch, a, code), a, writes)}

\* update_state for a deployed contract.  The overlay took the balance of an
\* account that was there for its nonce, and the nonce for its balance.
UpdateState(ch, a, code, writes) ==
    IF Exist(ch, a)
    THEN {Store(UpdateAccount(ch, a, account.nonce, account.balance),
                 a, writes) : account \in AccountsAt(ch, a)}
    ELSE {Store(CreateContract(ch, a, code), a, writes)}

\* Mutant: the contract is created though its constructor returned no code.
Deployed_Empty(ch, a) ==
    UNION {{[data |-> data, chain |-> c] :
               c \in UpdateState(ch, a, data, writes)} :
                  data \in Bytes, writes \in Writes}

\* Successful deployments and calls, as pairs of a result and a chain.
Deployed(ch, a) ==
    {[data |-> Empty, chain |-> ch]}
    \cup UNION {{[data |-> data, chain |-> c] :
                    c \in UpdateState(ch, a, data, writes)} :
                       data \in Bytes \ {Empty}, writes \in Writes}

Called(ch, a) ==
    {[data |-> Empty, chain |-> ch]}
    \cup {[data |-> data, chain |-> Store(ch, a, writes)] :
             data \in Bytes \ {Empty}, writes \in Writes}

-----------------------------------------------------------------------------
(* Requests.                                                               *)

\* Mutant: the chain of a poisoned mutex is used all the same.
Locked_Recover == TRUE

Locked == lock = "free"

\* A handler that panics with the mutex in its hands.
Poison ==
    /\ lock' = "poisoned"
    /\ response' = Panic
    /\ UNCHANGED <<mined, first>>

\* eth_gasPrice takes no lock.
GasPrice ==
    /\ response' = Ok
    /\ UNCHANGED <<chain, lock, mined, first>>

\* eth_sendTransaction without from, data or gas, which are unwrapped.
SendIncomplete == Locked /\ Poison /\ UNCHANGED chain

\* A block is committed before the code runs, which may fail.
SendFailing ==
    /\ Locked
    /\ Len(chain.blocks) < MaxBlocks
    /\ chain' = Commit(chain)
    /\ Poison

\* ... and another when it has run.  The nonce counted is the alias's, whoever
\* sent the transaction.
SendTransaction(tx) ==
    /\ Locked
    /\ Len(chain.blocks) < MaxBlocks
    /\ \E run \in Deployed(Commit(chain), ContractAddress(tx)) :
          LET result   == [data |-> run.data, contract |-> ContractAddress(tx)]
              recorded == AddTransaction(run.chain, tx, result)
          IN  /\ chain' = Commit(IncNonce(recorded, Naga))
              /\ mined' = [h \in DOMAIN mined \cup {TransactionHash(tx)} |->
                              IF h = TransactionHash(tx)
                              THEN Latest(chain').num ELSE mined[h]]
              /\ first' = [first EXCEPT ![result.contract] =
                              IF @ = Empty THEN run.data ELSE @]
    /\ response' = Ok
    /\ UNCHANGED lock

\* The receipt of a recorded transaction names the latest block.
TransactionReceipt(hash) ==
    /\ Locked
    /\ hash \in Recorded(chain)
    /\ response' = [status       |-> "receipt",
                    hash         |-> hash,
                    from         |-> chain.transactions[hash].tx.sender,
                    contract     |-> chain.transactions[hash].result.contract,
                    block_number |-> Latest(chain).num]
    /\ UNCHANGED <<chain, lock, mined, first>>

\* get_transaction_details unwraps its lookup.
ReceiptUnknown == Locked /\ Poison /\ UNCHANGED chain

\* eth_getCode
CodeAt(a) ==
    /\ Locked
    /\ Exist(chain, a)
    /\ response' = Ok
    /\ UNCHANGED <<chain, lock, mined, first>>

CodeAtUnknown ==
    /\ Locked
    /\ \E a \in Address : ~Exist(chain, a)
    /\ Poison
    /\ UNCHANGED chain

\* eth_call runs on the chain itself, writes included.  A user has no code to run.
Call(a) ==
    /\ Locked
    /\ \E account \in AccountsAt(chain, a) : account.code # Empty
    /\ \E run \in Called(chain, a) : chain' = run.chain
    /\ response' = Ok
    /\ UNCHANGED <<lock, mined, first>>

\* No address, no account, no code that loads, or a failure of the contract.
CallFailing == Locked /\ Poison /\ UNCHANGED chain

\* Any request that takes the lock once it is poisoned.
RequestLockedOut ==
    /\ ~Locked
    /\ response' = LockedOut
    /\ UNCHANGED <<chain, lock, mined, first>>

-----------------------------------------------------------------------------
Init ==
    /\ chain = NewChain
    /\ lock = "free"
    /\ response = NoResponse
    /\ mined = <<>>
    /\ first = [a \in Address |-> Empty]

Next ==
    \/ GasPrice
    \/ SendIncomplete
    \/ SendFailing
    \/ \E tx \in Deployments : SendTransaction(tx)
    \/ \E hash \in Transaction : TransactionReceipt(hash)
    \/ ReceiptUnknown
    \/ \E a \in Address : CodeAt(a)
    \/ CodeAtUnknown
    \/ \E a \in Address : Call(a)
    \/ CallFailing
    \/ RequestLockedOut

Spec == Init /\ [][Next]_vars

-----------------------------------------------------------------------------
(* Properties.                                                             *)

Record == [tx : Transaction, result : [data : Bytes, contract : Address]]

\* The types of the chain, the mutex, the answers and the history.
TypeOK ==
    /\ chain = [blocks |-> chain.blocks, users |-> chain.users,
                contracts |-> chain.contracts,
                transactions |-> chain.transactions]
    /\ chain.blocks \in Seq(Block)
    /\ chain.users \in [User -> Account]
    /\ chain.contracts \in Seq(Account)
    /\ Recorded(chain) \subseteq Transaction
    /\ \A h \in Recorded(chain) : chain.transactions[h] \in Record
    /\ lock \in {"free", "poisoned"}
    /\ \/ response \in {NoResponse, Ok, Panic, LockedOut}
       \/ response \in [status : {"receipt"}, hash : Transaction, from : Address,
                        contract : Address, block_number : Nat]
    /\ DOMAIN mined = Recorded(chain)
    /\ \A h \in DOMAIN mined : mined[h] \in Nat
    /\ first \in [Address -> Bytes]

\* create_contract trusts its caller to have asked `exist`: however often equal
\* codes are deployed, no two accounts share an address.
OneAccountPerAddress ==
    \A a \in Address : Cardinality(ContractsAt(chain, a))
                         + Cardinality(UsersAt(chain, a)) <= 1

P == INSTANCE Provider WITH Remote <- FALSE

\* The chain as module Provider sees it.
View(ch) ==
    [a \in Address |->
        IF ~Exist(ch, a) THEN P!NoAccount
        ELSE LET account == CHOOSE acc \in AccountsAt(ch, a) : TRUE
             IN  [exist |-> TRUE, nonce |-> account.nonce,
                  balance |-> account.balance, code |-> account.code,
                  storage |-> account.storage]]

\* On any chain that requests can build, each method that reads or writes accounts
\* does what Provider says of it; methods that unwrap, where there is an account.
ImplementsProvider ==
    \A a \in Address :
      /\ P!Exist(View(chain), a) = {Exist(chain, a)}
      /\ Details(chain, a) = IF P!AccountOk(View(chain), a)
                             THEN {[balance |-> View(chain)[a].balance,
                                    nonce   |-> View(chain)[a].nonce,
                                    code    |-> View(chain)[a].code]}
                             ELSE {}
      /\ \A k \in Key :
           StorageAt(chain, a, k) = IF P!StorageOk(View(chain), a, k)
                                    THEN {View(chain)[a].storage[k]} ELSE {}
      /\ \A code \in Bytes :
           ~Exist(chain, a) =>
             [ok |-> TRUE, prov |-> View(CreateContract(chain, a, code))]
               \in P!CreateContract(View(chain), a, code)
      /\ Exist(chain, a) =>
           /\ [ok |-> TRUE, prov |-> View(UpdateAccount(chain, a, 2, 3))]
                 \in P!UpdateAccount(View(chain), a, 2, 3)
           /\ \A k \in Key, v \in Value :
                [ok |-> TRUE, prov |-> View(SetStorage(chain, a, k, v))]
                  \in P!WriteStorage(View(chain), a, k, v)

\* The chain as module Ledger sees it.
Ledgered(ch) ==
    [a \in Address |->
        LET account == View(ch)[a]
        IN  [exist |-> account.exist, code |-> account.code,
             storage |-> account.storage]]

L == INSTANCE Ledger WITH ledger  <- Ledgered(chain),
                          reply   <- response.status,
                          Genesis <- Ledgered(NewChain)

\* A recorded transaction names a contract.  It exists if any deployment at that
\* address had a result, even if the record of that one was replaced by a later one's,
\* and not if all were empty; and its code is, for good, the first that was not.
RecordedContractsExist ==
    \A h \in Recorded(chain) :
      LET result == chain.transactions[h].result
          c      == result.contract
      IN  /\ result.data # Empty => Exist(chain, c)
          /\ Exist(chain, c) <=> first[c] # Empty
          /\ \A account \in AccountsAt(chain, c) : account.code = first[c]

\* The sender counted by the chain has sent what the blocks hold: two blocks for
\* each transaction recorded or replaced, and one too many only when the handler
\* panicked between them, which is the last thing that happens to the chain.
BlocksMatchNonce ==
    LET extra == Len(chain.blocks) - 1 - 2 * chain.users[Naga].nonce
    IN  \/ extra = 0
        \/ extra = 1 /\ lock = "poisoned"

\* Accounts are kept under aliases and updated call by call; yet a request, blocks
\* and records included, does to the contracts at their addresses what Ledger says
\* of a transaction: nothing, or one creation or update of one contract.
RequestsAreTransactions ==
    [][\/ UNCHANGED Ledgered(chain)
       \/ \E a \in Address, writes \in Writes :
             \/ L!Update(a, writes)
             \/ \E code \in Bytes : L!Create(a, code, writes)]_vars

\* Deploying a code again writes the account's balance and nonce, each in the
\* other's place, over the account: contracts have neither, and keep it so.
RedeployKeepsAccounts ==
    [][\A n \in DOMAIN chain.contracts :
          [chain'.contracts[n] EXCEPT !.storage = chain.contracts[n].storage]
            = chain.contracts[n]]_vars

-----------------------------------------------------------------------------
(* What comments and assertions say and the code does not do.              *)

\* "Block number" and "Block hash" of a transaction's receipt
\* (web3/src/types/transaction_recepits.rs:12,18): the block committed behind it.
ReceiptNamesItsBlock ==
    response.status = "receipt" => response.block_number = mined[response.hash]

\* self.bc.lock().unwrap() (web3/src/impls/transaction.rs:40,47,54,61) asserts that
\* no handler before it has panicked.
LockUsable == response.status # "locked_out"
=============================================================================
