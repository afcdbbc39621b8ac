------------------------------- MODULE Execute -------------------------------
(***************************************************************************)
(* `execute` (execute.rs): one transaction after another is loaded, run on *)
(* the host interface and answered.  Its overlay reaches the blockchain    *)
(* only in `update_state`, which is several calls on the provider.         *)
(***************************************************************************)
EXTENDS Runtime

CONSTANTS
    U256Max,      \* largest U256 (transaction gas)
    Loadable,     \* codes that parse, validate and link
    Contracts,    \* contract_address: address derived -> the code it is derived from
    Genesis,      \* the blockchain at the start
    GasInputs, ArgLengths   \* gas and argument lengths of a transaction

ASSUME ExecuteAssumption ==
    /\ U256Max \in Nat
    /\ Loadable \subseteq Bytes \ {Empty}
    /\ Address # {}
    /\ DOMAIN Contracts \subseteq Address
    /\ \A a \in DOMAIN Contracts : Contracts[a] \in Bytes
    /\ Genesis \in Chain
    /\ GasInputs \subseteq 0 .. U256Max
    /\ ArgLengths \subseteq Nat

VARIABLES
    outcome,      \* what execute last answered
    base,         \* history: the blockchain when the transaction came in
    todo,         \* accounts update_state has not come to
    pending       \* dirty slots of the current account not written yet

vars == <<runtimeVars, outcome, base, todo, pending>>

\* Transactions; for a call, `code` is the code found on the chain.
Transaction == [action   : {"create", "call"},
                address  : Address,
                code     : Bytes,
                gas      : GasInputs,
                args_len : ArgLengths]

NoTransaction == [action |-> "none", address |-> CHOOSE a \in Address : TRUE,
                  code |-> Empty, gas |-> 0, args_len |-> 0]

NoWrites == [k \in Key |-> Absent]

NoOutcome == [status |-> "none", gas_left |-> 0, data |-> Empty, logs |-> 0]

Failure(status) == [NoOutcome EXCEPT !.status = status]

-----------------------------------------------------------------------------
(* Loading.                                                                *)

AdjustedGas(g) == (g * opcodes_div) \div opcodes_mul

\* The transactions that get as far as looking at their code: the account called
\* must be there.
Found(tx) ==
    \/ /\ tx.action = "create"
       /\ tx.address \in DOMAIN Contracts
       /\ tx.code = Contracts[tx.address]
    \/ /\ tx.action = "call"
       /\ AccountOk(provider, tx.address)
       /\ tx.code = provider[tx.address].code

\* An answer given before the contract starts.
Refuse(status) ==
    /\ outcome' = Failure(status)
    /\ UNCHANGED <<runtimeVars, base, todo, pending>>

\* Some call finds no account.
RefuseUnknown ==
    /\ pc = "idle"
    /\ \E a \in Address : AccountErr(provider, a)
    /\ Refuse("err")

RefuseCode(tx) ==
    /\ pc = "idle"
    /\ Found(tx)
    /\ tx.code \notin Loadable
    /\ Refuse("err")

\* The U256 product panics when it overflows; a limit past u64 is an error.
RefuseGas(tx) ==
    /\ pc = "idle"
    /\ Found(tx)
    /\ tx.code \in Loadable
    /\ \/ tx.gas * opcodes_div > U256Max /\ Refuse("panic")
       \/ /\ tx.gas * opcodes_div <= U256Max
          /\ AdjustedGas(tx.gas) > U64Max
          /\ Refuse("err")

\* The module imports a memory that may grow too far.
RefuseMemory(tx, d) ==
    /\ pc = "idle"
    /\ Found(tx)
    /\ tx.code \in Loadable
    /\ ~ResolvesMemory(d)
    /\ Refuse("err")

\* The module's initial memory is charged, or is too dear.
Start(tx, d) ==
    /\ pc = "idle"
    /\ Found(tx)
    /\ tx.code \in Loadable
    /\ ResolvesMemory(d)
    /\ tx.gas * opcodes_div <= U256Max
    /\ AdjustedGas(tx.gas) <= U64Max
    /\ LET charge == d.initial * Schedule["initial_mem"]
           limit  == AdjustedGas(tx.gas)
       IN  \/ charge > limit /\ Refuse("err")
           \/ /\ charge <= limit
              /\ params' = tx
              /\ memory' = Memory(d)
              /\ gas_limit' = limit
              /\ gas_counter' = charge
              /\ accounts' = NewState
              /\ result' = Empty
              /\ logs' = 0
              /\ block' = 0
              /\ pc' = "start"
              /\ exit' = "none"
              /\ written' = NoWrites
              /\ outcome' = NoOutcome
              /\ base' = provider
              /\ UNCHANGED <<provider, todo, pending>>

-----------------------------------------------------------------------------
(* Answering.                                                              *)

\* Only these errors fail the transaction; any other trap, and a missing "call",
\* falls through to the answer of a contract that ended well.
FailedExits == {"start", "host"}

AbortedExits == {"no_dispatch", "no_block"}

\* Mutant: the gas left is not scaled back.
GasLeft_Unscaled == gas_limit - gas_counter

GasLeft == ((gas_limit - gas_counter) * opcodes_mul) \div opcodes_div

Success(data) == [status |-> "ok", gas_left |-> GasLeft, data |-> data,
                  logs |-> 0]

\* The answer is out; parameters, overlay, counters and result go with the call.
Answer(reply) ==
    /\ outcome' = reply
    /\ pc' = "idle"
    /\ exit' = "none"
    /\ params' = NoTransaction
    /\ memory' = NoMemory
    /\ accounts' = NewState
    /\ gas_counter' = 0
    /\ gas_limit' = 0
    /\ result' = Empty
    /\ logs' = 0
    /\ written' = NoWrites
    /\ base' = provider'
    /\ todo' = {}
    /\ pending' = {}
    /\ UNCHANGED block

AnswerFailure ==
    /\ pc = "exited"
    /\ UNCHANGED provider
    /\ \/ exit \in FailedExits /\ Answer(Failure("err"))
       \/ exit \in AbortedExits /\ Answer(Failure("panic"))

Completed == pc = "exited" /\ exit \notin FailedExits \cup AbortedExits

\* An empty result skips init_code and update_state.
AnswerEmpty ==
    /\ Completed
    /\ result = Empty
    /\ UNCHANGED provider
    /\ Answer(Success(Empty))

\* init_code for a new contract; update_state then iterates over the overlay.
BeginUpdate ==
    /\ Completed
    /\ result # Empty
    /\ accounts' \in IF params.action = "create"
                     THEN InitCode(provider, accounts, Self, result)
                     ELSE {accounts}
    /\ todo' = Cached(accounts')
    /\ pending' = {}
    /\ pc' = "flush"
    /\ UNCHANGED <<provider, params, memory, gas_counter, gas_limit, result,
                   logs, block, exit, written, outcome, base>>

-----------------------------------------------------------------------------
(* update_state: for each account of the overlay, in any order, its record  *)
(* and then its dirty slots, in any order.  The first error is the answer.  *)

UpdateVars == <<accounts, params, memory, gas_counter, gas_limit, result, logs,
                block, pc, exit, written, outcome, base>>

FlushAccount(a) ==
    /\ pc = "flush" /\ pending = {} /\ a \in todo
    /\ \E reply \in WriteAccount(provider, accounts, a) :
          /\ provider' = reply.prov
          /\ \/ /\ reply.ok
                /\ todo' = todo \ {a}
                /\ pending' = {<<a, k>> : k \in DirtySlots(accounts, a)}
                /\ UNCHANGED UpdateVars
             \/ ~reply.ok /\ Answer(Failure("err"))

FlushSlot(a, k) ==
    /\ pc = "flush" /\ <<a, k>> \in pending
    /\ \E reply \in WriteSlot(provider, accounts, a, k) :
          /\ provider' = reply.prov
          /\ \/ /\ reply.ok
                /\ pending' = pending \ {<<a, k>>}
                /\ UNCHANGED <<UpdateVars, todo>>
             \/ ~reply.ok /\ Answer(Failure("err"))

AnswerUpdated ==
    /\ pc = "flush" /\ todo = {} /\ pending = {}
    /\ UNCHANGED provider
    /\ Answer(Success(result))

-----------------------------------------------------------------------------
Init ==
    /\ provider = Genesis
    /\ accounts = NewState
    /\ params = NoTransaction
    /\ memory = NoMemory
    /\ gas_counter = 0
    /\ gas_limit = 0
    /\ result = Empty
    /\ logs = 0
    /\ block = 0
    /\ pc = "idle"
    /\ exit = "none"
    /\ written = NoWrites
    /\ outcome = NoOutcome
    /\ base = provider
    /\ todo = {}
    /\ pending = {}

Submit ==
    \/ RefuseUnknown
    \/ \E tx \in Transaction : RefuseCode(tx)
    \/ \E tx \in Transaction : RefuseGas(tx)
    \/ \E tx \in Transaction, d \in Memories : RefuseMemory(tx, d)
    \/ \E tx \in Transaction, d \in Memories : Start(tx, d)

Run == RuntimeNext /\ UNCHANGED <<outcome, base, todo, pending>>

Finish ==
    \/ AnswerFailure
    \/ AnswerEmpty
    \/ BeginUpdate
    \/ \E a \in Address : FlushAccount(a)
    \/ \E a \in Address, k \in Key : FlushSlot(a, k)
    \/ AnswerUpdated

Next == Submit \/ Run \/ Finish

\* Transactions arrive when they do.  Once one is accepted, the thread that runs
\* execute keeps running: neither the interpreter nor execute waits for anybody
\* but the provider, which answers or fails.
Fairness == WF_vars(Run \/ Finish)

Spec == Init /\ [][Next]_vars /\ Fairness

-----------------------------------------------------------------------------
(* Properties.                                                             *)

ExitKinds == {"none", "start", "host", "wasm", "return", "end", "no_export"}
             \cup AbortedExits

\* The types of the state of provider, overlay, runtime and execute.
TypeOK ==
    /\ provider \in Chain
    /\ accounts \in Overlay
    /\ params \in Transaction \cup {NoTransaction}
    /\ memory \in MemoryState
    /\ gas_counter \in Nat
    /\ gas_limit \in Nat
    /\ result \in Bytes
    /\ logs \in Nat
    /\ block \in Nat
    /\ pc \in {"idle", "start", "call", "exited", "flush"}
    /\ exit \in ExitKinds
    /\ written \in [Key -> Value \cup {Absent}]
    /\ outcome \in [status : {"none", "ok", "err", "panic"}, gas_left : Nat,
                    data : Bytes, logs : Nat]
    /\ base \in Chain
    /\ todo \subseteq Address
    /\ pending \subseteq Address \X Key

Busy == pc # "idle"

Answers(status) == Busy /\ pc' = "idle" /\ outcome'.status = status

\* No sequence of charges, overflowing amounts included, takes the counter past
\* the limit, nor the limit past u64: gas_left(), which execute expects never to
\* fail (execute.rs:135), does not.
GasBounded ==
    /\ gas_counter <= gas_limit
    /\ gas_limit <= U64Max
    /\ Busy => gas_limit = AdjustedGas(params.gas)

\* A contract's memory stays within the pages the resolver allows, whatever it
\* declares and however often it grows: nothing else limits it (env.rs:209).
MemoryBounded == memory.size <= MaxMemory

\* Every page a contract has is paid for, although the price of growing is worked
\* out modulo 2^32: a number of pages for which it wraps is more than it can get.
MemoryPaid ==
    Busy =>
      gas_counter >= memory.initial * Schedule["initial_mem"]
                     + (memory.size - memory.initial) * Schedule["grow_mem"]

\* The gas a successful answer keeps is what the run charged, scaled back, up to
\* the two roundings: never less, and less than 10/8 of a unit more.
RefundFair ==
    [][Answers("ok") =>
          LET used    == (params.gas - outcome'.gas_left) * opcodes_div
              charged == gas_counter * opcodes_mul
          IN  charged <= used /\ used < charged + 10]_vars

\* Steps a contract can still take, at most: a block of n instructions costs n.
Fuel == 2 * (gas_limit - gas_counter) + block
          + (IF pc = "start" THEN 1 ELSE 0)

\* Gas bounds the steps of a contract, not only its price: no step is free, host
\* calls that charge nothing included, and update_state comes to no account or slot
\* twice.  What is left of a transaction shrinks until it is answered.
StepsAreMetered ==
    [][Busy =>
         \/ pc' = "idle"
         \/ Running /\ Running' /\ Fuel' \in Nat /\ Fuel' < Fuel
         \/ Running /\ pc' = "exited"
         \/ pc = "exited" /\ pc' = "flush"
         \/ /\ pc = "flush" /\ pc' = "flush"
            /\ \/ todo' \subseteq todo /\ todo' # todo
               \/ todo' = todo /\ pending' \subseteq pending /\ pending' # pending]_vars

\* What the chain held under a key when the transaction came in.
Former(k) == IF base[Self].exist THEN base[Self].storage[k] ELSE Absent

\* What a contract should find under a key, or leave on the chain.
Latest(k) == IF written[k] # Absent THEN written[k] ELSE Former(k)

\* The overlay caches the contract's account only; its dirty slots are the keys
\* written, with the last value written, and a clean slot is the chain's.
OverlayCoherent ==
    Busy =>
      /\ Cached(accounts) \subseteq {Self}
      /\ \A k \in Key :
           LET slot == accounts[Self].storage[k]
           IN  /\ slot.status = "dirty" <=> written[k] # Absent
               /\ slot.status = "dirty" => slot.val = written[k]
               /\ slot.status = "clean" => slot.val = Former(k)

\* The next storage_read of any key, whatever was read and written before it,
\* finds the contract's last write, else the chain's value, else zero; only a
\* failed RPC makes an unwritten key read as zero.
ReadsSeeOwnWrites ==
    Running =>
      \A k \in Key :
        \A fetched \in FetchStorage(provider, accounts, Self, k) :
          LET read == SlotValue(fetched, Self, k)
          IN  \/ read = IF Latest(k) = Absent THEN Zero ELSE Latest(k)
              \/ Remote /\ written[k] = Absent /\ read = Zero

\* An update answered Ok has left on the chain each key's latest value, and the
\* result as the code of a contract that was not there before.
FlushExact ==
    [][Answers("ok") /\ result # Empty =>
          /\ \A k \in Key : provider'[Self].storage[k] = Latest(k)
          /\ provider'[Self].exist
          /\ provider'[Self].code =
                IF base[Self].exist THEN base[Self].code ELSE result]_vars

\* Over RPC, calls are lost and written calls reported lost; yet an update answered
\* Ok has lost no write: the contract is there, with every value it wrote.
OkLosesNoWrite ==
    [][Answers("ok") /\ result # Empty =>
          /\ provider'[Self].exist
          /\ \A k \in Key : written[k] # Absent =>
                provider'[Self].storage[k] = written[k]]_vars

\* A transaction answered with an error (README.md:45), lost to a panic, or whose
\* contract trapped, whatever the answer then is, leaves the chain as it was.
FailureAtomic ==
    [][\/ Answers("err") \/ Answers("panic")
       \/ Answers("ok") /\ exit \in {"wasm", "no_export"}
       => provider' = base]_vars

\* A chain with no value of the contract's that is neither the old nor the new one,
\* and no trace of the transaction elsewhere; a call leaves the account's own record.
OnlyItsValues(prov) ==
    /\ \A a \in Address \ {Self} : prov[a] = base[a]
    /\ \A k \in Key :
         \/ prov[Self].storage[k] \in {base[Self].storage[k], Latest(k)}
         \/ params.action = "create" /\ prov[Self].storage[k] = Absent
    /\ params.action = "call" =>
         [prov[Self] EXCEPT !.storage = NoStorage]
           = [base[Self] EXCEPT !.storage = NoStorage]

\* Whatever provider call of an update fails, and whether it took effect or not, what
\* every step up to the answer and that of the answer leave on the chain is old or
\* new and the contract's own; a transaction that is refused leaves everything.
NoForeignValues ==
    [][IF Busy THEN OnlyItsValues(provider') ELSE UNCHANGED provider]_vars

\* Every accepted transaction is answered: metering ends any contract, and
\* update_state has a finite overlay to write.
Termination == Busy ~> ~Busy

-----------------------------------------------------------------------------
(* What the documentation says and the code does not do.                   *)

\* "If the execution is successful, Durian uses the Provider interface to
\* update the blockchain" (README.md:45): an Ok answer comes with every write.
OkMeansUpdated ==
    [][Answers("ok") =>
          \A k \in Key : written[k] # Absent =>
             provider'[Self].storage[k] = written[k]]_vars

\* "Otherwise, it immediately responds with a failure error" (README.md:45): a
\* contract that traps, or has no "call", did not succeed.
TrapMeansError ==
    [][Answers("ok") => exit \notin {"wasm", "no_export"}]_vars

\* ccall's "balance check" (runtime.rs:305) compares with the balance that the
\* contract's account has on the chain, nothing for an account not there.
BalanceHonest ==
    Running =>
      \A fetched \in FetchAccount(provider, accounts, Self) :
        fetched[Self].balance = provider[Self].balance
=============================================================================
