# Durian: models, checks and proofs

TLA+ specifications of [durian](../src), a WebAssembly smart contract engine
that a blockchain calls, in process or over Cap'n Proto RPC. Paths below are
relative to `src/`; `durian/src/` is left out of the engine's own files
(`execute.rs`, `runtime.rs`, `state.rs`, ...).

## 1. Inventory

| Component | State | Operations | Hard behaviour |
|---|---|---|---|
| `execute` (`execute.rs`) | none across calls; parameters, adjusted gas limit | load code, refuse, charge memory, run start and `call`, classify the end, `init_code`, `update_state`, answer | which ends count as failures; what a failure leaves behind; two gas roundings |
| `Runtime` (`runtime.rs`) | `gas_counter`, `gas_limit`, `result`, `logs`, borrowed overlay | 24 host functions a contract calls in any order | overflow of charges; error paths after partial effects; stubs; imports without a dispatch arm |
| `State` (`state.rs`) | `accounts`: address to (account, dirty), slots to (value, dirty) | `account`, `storage_at`, `set_storage`, `init_code`, `update_state` | one cache for read and written slots; errors taken for absence; write-back in several provider calls, in hash order |
| `Provider` (`provider.rs`) | the blockchain's | `exist`, `account`, `storage_at`, `create_contract`, `update_account`, `set_storage`, block queries | any call may fail when it is remote |
| sample `Blockchain` (`examples/blockchain`) | accounts by alias, blocks, transactions, counter | the provider methods, `commit`, `inc_nonce`, `add_transactions` | two accounts at one address; equal transactions; block index |
| `ProviderAdaptor` (`durian-server/src/provider_adaptor.rs`) | RPC client | forwards provider calls, blocking | lost replies; `exist` hides errors; blocks the thread |
| `ExecutorImpl`, `main` (`durian-server/src`) | per request a task and a oneshot channel; RPC system | `execute` spawns a task and polls the channel | task panics; hang-up; starved driver; concurrent requests on one chain |
| `durian-client` (`examples/durian-client`) | chain under a mutex | sends transactions one by one, serves provider calls | what it serves while it waits; no `update_account` |
| `ImportResolver` (`env.rs`) | the imported memory | link functions, allocate the memory | names without a dispatch arm; memories without a maximum |
| parser, schedule | none | validate and meter the code, costs | metering is what bounds a run; a price worked out in 32 bits |
| `web3` (`examples/web3`) | chain under a mutex | Ethereum JSON-RPC requests | a panic poisons the mutex; blocks committed for what fails; receipts; equal transactions |
| panic payload, errors, types, utils, schema, `cli` | none | decoding, conversions, hashing, a script | - |

How they interact. A transaction comes to `execute` with a `&mut dyn Provider`.
`execute` builds a `State` on the provider and a `Runtime` on the state, and the
interpreter calls the runtime back for each import of the contract. Reads go
through the overlay to the provider, writes stay in the overlay. When the
contract returned a non-empty result, `update_state` writes the overlay to the
provider, call by call. In `durian-server` the provider is the client that made
the request: each provider call is an RPC back to it, made by a task that blocks
its thread until the main thread has received the reply. In `web3` the provider is
the sample chain itself, under the mutex that a request holds while it is handled.

What makes each correct: the answer and the chain agree (`execute`); gas is never
over-spent nor over-refunded (`Runtime`); reads see the latest writes and
write-back is exact (`State`); failures lose nothing but the transaction (all);
every request is answered and concurrent ones do not disturb each other
(`durian-server`); accounts, blocks and records stay in step however requests follow
one another (`web3`). `PROJECT.json` lists the hazards line by line.

## 2. Modules

| Module | Models | Notes |
|---|---|---|
| `Provider` | the Provider trait over the sample chain, in process (`Remote = FALSE`) or over RPC (`TRUE`) | operators: what each method may answer |
| `State` | `state.rs` | operators on an overlay; the set of results where the provider is asked |
| `Env` | `env.rs`: functions linked and dispatched, the memory limit; wasmi's `grow` | operators |
| `Runtime` | `runtime.rs`, metering of `parser.rs` | one action per host function, `grow_memory`, and per end of a run |
| `Execute` | `execute.rs`; extends the four above | the specification, its invariants and action properties |
| `Ledger` | abstract: one step per transaction | what the README of the repository promises a blockchain |
| `ExecuteLedger` | the refinement mapping | `AtomicExecution == L!Spec` |
| `DurianServer` | server, tasks, one client | independent of `Execute`: a transaction is its provider calls, made one by one |
| `Serial` | abstract: one request at a time, in one step | what a client that awaits each answer expects of a server; `S` in `DurianServer` is the mapping |
| `Blockchain` | the sample chain in full | one operator per method; an account at an address is one of a set |
| `Web3` | the Ethereum requests; extends `Blockchain` | one action per request and way to end |
| `MCExecute`, `MCDurianServer`, `MCWeb3` | instances for TLC | |
| `ExecuteProofs`, `MeteringProofs`, `UpdateProofs`, `LedgerProofs`, `ServerProofs`, `SerialProofs`, `Web3Proofs`, `ViewProofs` | theorems (section 4) | TLAPS |

How they compose. `Execute` runs on `Provider`, an abstraction of the chain with at
most one account to an address. `Web3` holds a `Blockchain` and keeps of `Execute`
what `AtomicExecution` says of it: a transaction changes nothing, or one contract at
once. `ImplementsProvider` closes the circle: on every chain that requests can
build, the methods of `Blockchain` that `execute` calls do what `Provider` says. And
`RequestsAreTransactions` says of the chain in `Web3` what `AtomicExecution` says of
the provider in `Execute`: seen by address, contracts change as in `Ledger`.

Correspondence of the state in `Execute`:

| Variable | Code |
|---|---|
| `provider` | the sample chain's accounts: existence, nonce, balance, code, storage |
| `accounts` | `State.accounts`; status `none`, `clean`, `dirty` is entry absent, flag down, flag up, for accounts and slots alike |
| `params` | `ActionParams`: action, address, code, gas, length of arguments |
| `memory` | `ImportResolver.memory`: initial, current and maximum pages |
| `gas_counter`, `gas_limit`, `result`, `logs` | the fields of `Runtime` (logs counted) |
| `block` | instructions the contract may still execute in the block it has paid for |
| `pc`, `exit` | the place in `execute`, and how the run stopped |
| `outcome` | what `execute` answered (`panic`: the thread panicked instead) |
| `todo`, `pending` | what the two loops of `update_state` have left |
| `written`, `base` | history: last write per key, and the chain at the start of the transaction |

The contract is any code: between two charges of the injected metering it may
call any host function with any arguments, trap, or return. A host function that
touches memory may always fail with a memory access error, so `Trap` is always
possible there. The contents of memory, topics, log data and debug text are left out.
The order of the loops over hash maps is free. `gasleft` and `create2` are resolved
only with flags that `WasmCosts::default` clears, and so never called.

In `DurianServer`, `stage` is a request's way from the client to a finished task,
`task` the provider call its task is at, with the slot that is about and the slots
left after it, `call` and `reply` the RPC it blocks on, `read` what it has read,
`channel` the oneshot channel, `answer` what the promise resolved to, `link` the
connection; `copies` counts the accounts at the contract's address, and `slots` keeps
in each slot the marks of the requests whose writes it holds; `overlapped` is history:
the client once had two requests outstanding.

A request's provider calls are those of `execute`, one RPC each. A deployment asks
`exist`, then creates the account, or updates it, which the sample client does not
implement and which therefore fails; then `update_state` writes the slots its
constructor has left dirty (`Dirty`). A call looks the account up, reads its slots and
writes them back with its mark, one by one in any order (`Following`). The client may
hang up between any two of them. Left out are the calls whose error is ignored and
whose answer is not written back: the account `fetch_account` asks for, and reads of
slots that stay clean.

`Serial` knows nothing of those calls: a request changes the chain in one step,
`Apply`, or is refused. `Phase` is how far a request has come to its eyes, and `Half`
the requests that have made some of their changes and not all: what they have written
is not shown to `Serial` before the last write, which nobody can tell as long as
nobody else has a request out. When the client hangs up in the middle, the rest never
comes, and what is there is shown: `Lose`, the only step of `Serial` that leaves part
of a request. `Driven` is the
assumption about tokio 0.2.20 (`Cargo.lock`): only a worker with nothing to run
parks on the I/O and time driver. The main thread is one of its own, as in the
multi-threaded runtime a build of the whole workspace has (`web3` asks for tokio's
`full`). `durian-server` alone asks for `rt-core` only, and then a single thread is
main, worker and driver: what `doc_wait` shows for all threads taken happens there
with the first request.

In `Web3`, `chain` is the `Blockchain` in the mutex (`blocks`, `users` and
`contracts` for the account map by kind of alias, `transactions`; the sequence of
contracts is the aliases `contract_1`, ..., and its length `counter`), `lock` the
mutex, `response` the last answer, and `mined` and `first` history: the block
committed behind each recorded transaction, and the first result of a deployment at
each address that was not empty. A transaction stands for its hash, which covers all of it.
A handler is one step, because it holds the mutex from its first line to its last. An
address is a Keccak hash: `Web3Assumption` takes contracts' addresses to differ from
users'.

## 3. Runs

| Run | Question | Instance | States |
|---|---|---|---|
| `ledger` | `TypeOK`, `OverlayCoherent`, `ReadsSeeOwnWrites`, `FlushExact`, `FailureAtomic`, `AtomicExecution` | two contracts, two keys, two values, in process | 972,216 |
| `gas` | `GasBounded`, `MemoryBounded`, `MemoryPaid`, `RefundFair`, `StepsAreMetered`, `Termination` | blocks of 1 to 3 instructions, five memories of up to 3 pages, u32 of 7, u64 of 20, U256 of 70, gas 0, 1, 4, 7, 8, 9 | 187,816 |
| `remote` | `ReadsSeeOwnWrites`, `NoForeignValues`, `OkLosesNoWrite` | RPC provider, every call may fail, before or after its effect | 265,586 |
| `server` | `TypeOK`, `SingleAccount`, `NoLostUpdate`, `AwaitedIsSerial`, `NothingIsRepeated`, `RequestsAnswered`, `TasksEnd` | two deployments, two calls, two slots, three threads, one or two requests at a time | 323,959 |
| `web3` | `TypeOK`, `OneAccountPerAddress`, `ImplementsProvider`, `RecordedContractsExist`, `BlocksMatchNonce`, `RequestsAreTransactions`, `RedeployKeepsAccounts` | two users, one code, two arguments, up to three transactions and any number of other requests | 55,784 |

Each `doc_*` run checks one statement of the documentation, or of the code's own
messages and assertions, that the code does not keep:

| Run | Property | What TLC finds |
|---|---|---|
| `doc_updated` | `OkMeansUpdated` | writes of a contract that returns nothing are dropped, answer Ok |
| `doc_trap` | `TrapMeansError` | a wasm trap, or no `call` export, is answered Ok |
| `doc_failure` | `FailureAtomic`, remote | an answered error after a partial update |
| `doc_balance` | `BalanceHonest` | `ccall` compares with the nonce, or with 1 |
| `doc_wait` | `RequestsAnswered` | two requests on two threads: both block, nobody receives |
| `doc_receipt` | `ReceiptNamesItsBlock` | a receipt names the latest block, not the transaction's |
| `doc_locked` | `LockUsable` | one request that panics locks out all later ones |

The README's "return the output logs" is not kept either: both Ok answers carry an
empty list (`execute.rs:149`, `:163`). No run is needed to see it.

Why the bounds are enough. Gas bounds the length of a run: in `ledger` a limit of 13
(gas 5) pays for several blocks, reads and writes, so a slot is read, written,
overwritten and cleared, and both keys are touched in one transaction. Transactions
repeat without bound on the chain the earlier ones left, so deployments meet empty
and occupied addresses. Costs are scaled down (2 for setting a slot and for a page, 1
for all others) so that limits of a few units are exhausted at every point of a run;
the 8/3 scale is the code's. `U64Max = 20` and `U256Max = 70` put gas 8 (adjusted 21)
and gas 9 (product 72) just past them, and `GasArgs` up to 20 makes charges overflow.
`U32Max = 7` makes the price of four pages wrap to nothing, where `MaxMemory = 3` is
the limit: as in the code, where 2^19 pages cost nothing and 16 is the limit.
A second contract address only matters to what one transaction does to another's
contract, in `ledger`. Four requests are the least with two racing deployments and
two racing calls. One deployment writes no slot and one a slot, one call a slot and
one two: so an update ends after the account, after one slot and after two, is cut in
half before and between slots, and the two calls meet in one slot and not in the
other. Three threads leave one idle with two requests outstanding; with
`Concurrency = 2` both kinds of clients occur, and `overlapped` tells them apart.
`AwaitedIsSerial` holds up to the step by which a client has two requests
outstanding: after it the server is not `Serial`.
In `remote` a read may find zero where a call has failed, and only there;
`NoForeignValues` looks at every step of a transaction, the one that answers included,
so that a write that took effect and was reported failed is compared as well.
`FailureAtomic` is about transactions that have started: a refused one (`Refuse`) has
asked nothing but `account` and written nothing. It is checked in process, and refuted
over RPC by `doc_failure`.
`MaxBlocks = 7` leaves room for three transactions, enough for a deployment, its
repetition and another user's, in any order with calls, receipts and panics.
Symmetry is not used. `MCDurianServer_*.cfg` switch the deadlock check off: a client
need not send more; that nothing hangs is what the liveness properties say.

Fairness. `Execute` assumes `WF_vars(Run \/ Finish)`: once a transaction is accepted,
the thread that runs it keeps running. Nothing else is assumed; in particular which
host function a contract calls is free, and no action is fair by itself.
Transactions need never come. `DurianServer` assumes weak fairness of the client
serving its calls, of each request's steps on the main thread (which polls every
promise in turn), of queued tasks being picked up by a free thread, of each
task's progress and of the notice of a hang-up. None of these is enabled without a
thread to do it: starvation of the driver is not assumed away, `doc_wait` finds it.
`Web3` has no fairness: requests come when they do, and each is a step.

Every property of a passing run has a mutant in `PROJECT.json` that breaks it.
The mutated definitions stand beside the originals, marked `Mutant:`.

## 4. Proofs

TLAPS proves these for all values of the constants under the assumptions named in the
modules: `ProviderAssumption`, `EnvAssumption`, `RuntimeAssumption` and
`ExecuteAssumption` for `Execute`; `ServerAssumption`; `BlockchainAssumption` and
`Web3Assumption`. The one that is more than a type: growing the largest allowed memory
costs no more than 32 bits hold (`MaxMemory * grow_mem <= U32Max`; 16 * 8192 in the
code).

| Module | Theorem | Statement |
|---|---|---|
| `ExecuteProofs` | `TypeCorrect` | `Spec => []TypeOK` |
| | `GasIsBounded` | `Spec => []GasBounded` |
| | `RefundIsFair` | `Spec => RefundFair` |
| | `OverlayIsCoherent` | `Spec => []OverlayCoherent` |
| | `ReadsAreRight` | `Spec => []ReadsSeeOwnWrites` |
| | `FailuresAreAtomic` | `~Remote => (Spec => FailureAtomic)` |
| `MeteringProofs` | `MemoryIsBounded` | `Spec => []MemoryBounded` |
| | `MemoryIsPaid` | `Spec => []MemoryPaid` |
| | `StepsAreBounded` | `Spec => StepsAreMetered` |
| `UpdateProofs` | `NoForeignValue` | `Spec => NoForeignValues`, local or remote |
| | `FlushIsExact` | `~Remote => (Spec => FlushExact)` |
| | `NoWriteIsLost` | `Spec => OkLosesNoWrite`, local or remote |
| `LedgerProofs` | `ExecuteImplementsLedger` | `~Remote => (Spec => AtomicExecution)` |
| `ServerProofs` | `ServerTypeCorrect` | `Spec => []TypeOK` |
| | `AccountIsSingle` | `Spec => []SingleAccount` |
| | `UpdatesAreKept` | `Spec => []NoLostUpdate` |
| | `NothingRepeats` | `Spec => NothingIsRepeated` |
| `SerialProofs` | `AwaitedServerIsSerial` | `Spec => AwaitedIsSerial` |
| | `SampleImplementsSerial` | `Concurrency = 1 => (Spec => S!Spec)` |
| `Web3Proofs` | `Web3TypeCorrect` | `Spec => []TypeOK` |
| | `AccountsAreDistinct` | `Spec => []OneAccountPerAddress` |
| | `RecordedContractsStay` | `Spec => []RecordedContractsExist` |
| | `BlocksAreCounted` | `Spec => []BlocksMatchNonce` |
| | `RedeploymentIsSafe` | `Spec => RedeployKeepsAccounts` |
| `ViewProofs` | `ChainIsProvider` | `Spec => []ImplementsProvider` |
| | `RequestsTransact` | `Spec => RequestsAreTransactions` |

The arguments.

- Types, gas. `Sound == TypeOK /\ GasBounded` is inductive: types alone are not, since
  a successful answer's gas is a natural number only because the counter is within the
  limit. `RunFrame` summarises all actions of `Runtime` in one frame, `RunStep`: the
  provider, the parameters and the limit stay, gas is charged within the limit, and
  the overlay either stays, is fetched into, or takes one write recorded in `written`.
  The later inductions look at that frame instead of 24 actions. `RefundFair` follows
  from `GasBounded` and the lemma `TwoRoundings`.
- Overlay. `OverlayCoherent` is not inductive: it needs `Coherent`, which adds that a
  slot of an account not cached is empty, and that the chain is still `base` until
  `update_state` begins (`OverlayInv`). `ReadsSeeOwnWrites` follows from it, read by
  read. `FailureAtomic` needs `ControlInv`: a result comes only with a return, so
  `update_state` is reached only from a run that returned, and there a provider in the
  same process fails no write (`LocalReplies`).
- Memory. `MemoryInv` says that a memory has a maximum within the limit and no more
  pages than it, and that the counter covers its price. A growth of more pages than
  the maximum has no effect, so the price that wraps is never one that buys pages;
  within the maximum it does not wrap, by the assumption above.
- Steps. `Fuel` is what a contract has left: twice the gas, for a block of n
  instructions costs n and its instructions take a step each, plus what remains of the
  block it has paid for. Every action of `Runtime` takes some of it or ends the run
  (`FuelStep`, from the same frame as the gas); then `update_state` takes accounts out
  of `todo` and slots out of `pending`. The measure needs no fairness. With the
  fairness above it is why `Termination` holds, which is left to TLC.
- Updates. `LoadInv` (the overlay's record is dirty only for a new contract in its
  update) and `LeftInv` (what `todo` and `pending` may still hold) say what a step may write
  (`ForeignStep`), whichever call fails and with or without effect; `NoForeignValues`
  follows with `ForeignInv`, which says the same of the chain between steps.
  `ExactInv` follows the update: before the record is written the chain is `base`,
  after it every slot not pending has its latest value. With nothing left that is
  `FlushExact`. `NoWriteIsLost` follows the writes alone, so that it holds whatever
  reads failed before: a dirty slot has the value last written, and a write that is
  neither pending nor to do is on the chain, under an account that exists.
- Refinement. `AnswerInv` (no answer is out while a run is on, an update has a result)
  with the above maps every step of `Execute` to a step of `Ledger` or to a stutter;
  `UpdateIsOneStep` shows that the answer to a finished update is one
  `CreateContract` or `UpdateContract`.
- Server. `TaskInv` ties tasks to threads and to the calls they can have come to
  (`Shape`; `Follows` says which call comes after which). While `overlapped` is false,
  `SoloInv` says that at most one request is unfinished: a channel is filled or closed
  by the end of a task only, and the promise waits for that. `DataInv` then follows
  what the one task knows of the chain (`Current`): after `exist` said no there is no
  account, a slot it has read is still the same until it writes it, the slots it has
  written have its mark. Once the connection is closed no call reaches the client.
- Progress. `Work` counts the steps a request can still take: three for each provider
  call its task has left, at most two calls for each slot and two more (`CallsLeft`),
  two for its answer; 14 and 6 for each slot when it is new. `CloserStep` shows that
  each step but those of the connection takes one request down and leaves the others.
  This is the provable part of `RequestsAnswered` and `TasksEnd`: nothing goes round
  in circles, so only a step that is never taken (fairness), or cannot be
  (`doc_wait`), keeps a request.
- One at a time. A request that does not overlap with another is sent when all others
  have their answer (`ToldInv`: one that follows from the channel), which is where
  module `Serial` begins one. From the first change its task makes to the last the
  request is in `Half`, and `Serial` does not see it (`HalfSolo`: no other is then).
  The last write is the step of `Serial` (`ServeApplies`): by `DataInv` all of
  `Dirty` is then on the chain as the last request left it, and by `FoundInv` there
  was a contract to write to, or none to create over. A hang-up shows what a half done
  request has written, always less than `Dirty` (`HangUpLoses`). `FoundInv` also
  says that `update_account` never succeeds, so that a task that ends well has written
  all of its slots (`EndIsOutcome`). All else (hand-overs, reads, the first writes,
  polls) is a stutter, also after the connection is lost, where no task ends well any
  more. `AwaitInv` then derives from `Concurrency = 1` that no two requests overlap.
- Requests. `Sane` describes the chains that requests build: users where they were,
  each contract at an address of its own with code and neither nonce nor balance, so
  that exchanging the two is no change (`RedeployIsNothing`). Executions, commits,
  counts and records keep it, lemma by lemma; `Grown` and `StepKeeps` say what else
  they keep. `FirstInv` follows the codes of the contracts at an address (`Codes`): a
  deployment adds its result when there is none yet and it is not empty, and nothing
  changes them afterwards, whatever is recorded (`RecordedContractsStay`).
- Views. `View` is the sample chain by address, as module `Provider` has it. On a
  `Sane` chain the scan for an address finds its one account or none, so a method on
  an alias, lookups (`LookupsView`) and changes alike, is one on an address
  (`ChainIsProvider`). Blocks, records and nonces change
  nothing that `View` shows of contracts; what an execution does is one `Update` or
  `Create` of `Ledger` (`RequestsTransact`).

Model-checked only: liveness (`Termination`, `RequestsAnswered`, `TasksEnd`), which is
out of the prover's reach. Every other property of a passing run is a theorem. The
properties of the `doc_*` runs are refuted by TLC; what `doc_failure` refutes over RPC
is a theorem for a provider in the same process. No module uses a recursive operator.

## 5. Not modelled

- The data race on the RPC client: its `Rc`s and `RefCell`s are declared `Send`
  (`executor_impl.rs:51`) and used from a task while the main thread uses the
  connection. Its outcomes are unbounded; `DurianServer` holds for executions in
  which the accesses do not collide.
- `exist` failing on a connection that stays up, in `DurianServer` (it is in
  `Execute` with `Remote = TRUE`); several connections to one server; a task's
  panic while the client's mutex is held.
- In `Provider`, two accounts at one address: `CreateContract` on an occupied address
  yields either of the two, once and for all, as the hash map's order does until it is
  resized. `Blockchain` has both, and `OneAccountPerAddress` says that there never are
  two in process.
- In `Web3`: gas and value of transactions, the time in blocks, and the fields of a
  receipt that are constant or wrong by their type (`gas_used` is the gas left,
  `status` is always `"0x01"`): no state depends on them. The JSON-RPC and HTTP
  plumbing and request types, which only serialise; the example's `main` starts none
  of it.
- Decoding and encoding of transactions, hashing (`Contracts` gives the address
  derived from a code), validation of wasm (`Loadable`), the interpreter itself.
- Panic payloads (decoded to be logged), errors' wording, `cli` (a script of four
  transactions), schema and build scripts.

## 6. Plan

Left, in order of use: `DurianServer` with several connections sharing the threads,
and with `exist` failing on a live one; the runs of `Web3` as runs of `Execute` on one
`Blockchain`, now that `ChainIsProvider` allows it; the panic payload decoder against a
reference over short inputs.
