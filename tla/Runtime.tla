------------------------------- MODULE Runtime -------------------------------
(***************************************************************************)
(* One contract running on durian's host interface (runtime.rs): the gas   *)
(* counter, the overlay, the result and the log list, with one action per  *)
(* host function a contract can import and one per way a contract stops.   *)
(*                                                                         *)
(* The contract itself is any code: at each point it calls any function    *)
(* with any arguments, traps, or ends.  What bounds it is the metering     *)
(* that parser::payload injects: a straight-line block of at most n        *)
(* instructions starts by charging at least n units of gas.                *)
(*                                                                         *)
(* A host function whose memory argument is out of bounds fails with a     *)
(* host error wherever it reads or writes it.  Failing ends the run, and   *)
(* execute then drops the overlay and the counter, so the model leaves     *)
(* them as they were (Trap).                                               *)
(***************************************************************************)
EXTENDS State, Env, Integers

CONSTANTS
    U64Max,       \* largest u64 (gas counters)
    U32Max,       \* largest u32 (wasm's i32)
    Schedule,     \* gas costs of schedule.rs and wasm_cost.rs, by name
    BlockCosts,   \* gas charged at the start of a metered block
    GasArgs,      \* gas amounts a contract names in `gas` and `ccall`
    CallValues,   \* values a contract passes to `ccall`
    GrowArgs      \* pages it asks grow_memory for

\* WasmCosts: one unit of transaction gas is opcodes_div/opcodes_mul units.
opcodes_mul == 3
opcodes_div == 8

CostNames == {"sload_gas", "sstore_set_gas", "sstore_reset_gas", "call_gas",
              "blockhash_gas", "log_gas", "log_data_gas", "log_topic_gas",
              "static_u256", "static_address", "memcpy", "initial_mem",
              "grow_mem"}

ASSUME RuntimeAssumption ==
    /\ U64Max \in Nat
    /\ Schedule \in [CostNames -> Nat]
    /\ BlockCosts \subseteq Nat \ {0}
    /\ GasArgs \subseteq Nat
    /\ CallValues \subseteq Nat
    /\ GrowArgs \subseteq Nat
    /\ U32Max \in Nat
    /\ MaxMemory * Schedule["grow_mem"] <= U32Max

VARIABLES
    provider,     \* the blockchain, see Provider
    accounts,     \* State.accounts, the overlay
    params,       \* ActionParams of the running contract
    memory,       \* the contract's memory, see Env
    gas_counter,  \* gas charged so far
    gas_limit,    \* gas that may be charged
    result,       \* bytes set by `ret`
    logs,         \* number of entries pushed by `elog`
    block,        \* instructions left in the metered block
    pc,           \* "idle", "start", "call", "exited" or "flush"
    exit,         \* how the contract stopped
    written       \* history: the last value storage_write stored under a key

runtimeVars == <<provider, accounts, params, memory, gas_counter, gas_limit,
                 result, logs, block, pc, exit, written>>

Self == params.address

-----------------------------------------------------------------------------
(* Gas.                                                                    *)

\* Mutant: only the overflow is checked.
CanCharge_NoLimit(n) == gas_counter + n <= U64Max

\* charge_gas: neither past u64 nor past the limit.
CanCharge(n) ==
    /\ gas_counter + n <= U64Max
    /\ gas_counter + n <= gas_limit

Charge(n) == gas_counter' = gas_counter + n

\* adjusted_charge: schedule costs are in units of transaction gas.
Adjusted(n) == (n * opcodes_div) \div opcodes_mul

-----------------------------------------------------------------------------
(* Control.                                                                *)

Running == pc \in {"start", "call"}

\* The run stops, and leaves everything else as it was.
Exit(kind) ==
    /\ pc' = "exited"
    /\ exit' = kind
    /\ block' = 0
    /\ UNCHANGED <<provider, accounts, params, memory, gas_counter, gas_limit,
                   logs, written>>

\* Any error in the module's start function is remembered as just that: execute
\* returns it before it looks at its kind.
ErrorKind(kind) == IF pc = "start" THEN "start" ELSE kind

Trap(kind) == Exit(ErrorKind(kind)) /\ UNCHANGED result

\* The thread itself panics.
Abort(kind) == Exit(kind) /\ UNCHANGED result

\* One call instruction of the current block.
HostCall == Running /\ block > 0

Continue ==
    /\ block' = block - 1
    /\ UNCHANGED <<provider, params, memory, gas_limit, result, pc, exit>>

\* Mutant: blocks are not charged.
EnterBlock_Free(n) ==
    /\ Running
    /\ block' = n
    /\ UNCHANGED <<provider, accounts, params, memory, gas_counter, gas_limit,
                   result, logs, pc, exit, written>>

\* The metering call in front of a block.
EnterBlock(n) ==
    /\ Running
    /\ \/ /\ CanCharge(n)
          /\ Charge(n)
          /\ block' = n
          /\ UNCHANGED <<provider, accounts, params, memory, gas_limit, result,
                         logs, pc, exit, written>>
       \/ ~CanCharge(n) /\ Trap("host")

-----------------------------------------------------------------------------
(* Memory.                                                                 *)

\* Mutant: growing is not metered.
GrowCost_Free(n) == 0

\* The metering in front of grow_memory multiplies in 32 bits.
GrowCost(n) == (n * Schedule["grow_mem"]) % (U32Max + 1)

\* A contract that asks for n more pages pays for them, got or not.
GrowMemory(n) ==
    /\ HostCall
    /\ \/ /\ CanCharge(GrowCost(n))
          /\ Charge(GrowCost(n))
          /\ memory' = Grow(memory, n)
          /\ block' = block - 1
          /\ UNCHANGED <<provider, accounts, params, gas_limit, result, logs,
                         pc, exit, written>>
       \/ ~CanCharge(GrowCost(n)) /\ Trap("host")

-----------------------------------------------------------------------------
(* Storage.                                                                *)

storage_read(k) ==
    /\ HostCall
    /\ LET cost == Adjusted(Schedule["sload_gas"])
       IN  \/ /\ CanCharge(cost)
              /\ Charge(cost)
              /\ accounts' \in FetchStorage(provider, accounts, Self, k)
              /\ UNCHANGED <<logs, written>>
              /\ Continue
           \/ Trap("host")

\* Turning a zero into a non-zero costs more.
StoreCost(former, v) ==
    Adjusted(Schedule[IF former = Zero /\ v # Zero THEN "sstore_set_gas"
                                                   ELSE "sstore_reset_gas"])

\* Mutant: the write goes through to the blockchain.
storage_write_Through(k, v) ==
    /\ HostCall
    /\ \E fetched \in FetchStorage(provider, accounts, Self, k) :
          /\ accounts' = SetStorage(fetched, Self, k, v)
          /\ provider' = [provider EXCEPT ![Self].storage[k] = v]
          /\ written' = [written EXCEPT ![k] = v]
          /\ block' = block - 1
          /\ UNCHANGED <<params, memory, gas_counter, gas_limit, result, logs,
                         pc, exit>>

storage_write(k, v) ==
    /\ HostCall
    /\ \/ \E fetched \in FetchStorage(provider, accounts, Self, k) :
             LET cost == StoreCost(SlotValue(fetched, Self, k), v)
             IN  /\ CanCharge(cost)
                 /\ Charge(cost)
                 /\ accounts' = SetStorage(fetched, Self, k, v)
                 /\ written' = [written EXCEPT ![k] = v]
                 /\ UNCHANGED logs
                 /\ Continue
       \/ Trap("host")

-----------------------------------------------------------------------------
(* Results and logs.                                                       *)

ret(data) ==
    /\ HostCall
    /\ \/ /\ Exit(ErrorKind("return"))
          /\ result' = data
       \/ Trap("host")

\* The price counts topics but not the bytes of data; more than four topics, or
\* a price past u64, is an error.
LogPrice(topics) ==
    Schedule["log_data_gas"] * Schedule["log_data_gas"]
      + Schedule["log_gas"] + Schedule["log_topic_gas"] * topics

elog(topics) ==
    /\ HostCall
    /\ \/ /\ topics <= 4
          /\ LogPrice(topics) * opcodes_div <= U64Max
          /\ CanCharge(Adjusted(LogPrice(topics)))
          /\ Charge(Adjusted(LogPrice(topics)))
          /\ logs' = logs + 1
          /\ UNCHANGED <<accounts, written>>
          /\ Continue
       \/ Trap("host")

\* The arguments are read only when tracing is on, and may then be bad UTF-8.
debug ==
    /\ HostCall
    /\ \/ UNCHANGED <<accounts, gas_counter, logs, written>> /\ Continue
       \/ Trap("host")

panic == HostCall /\ Trap("host")

-----------------------------------------------------------------------------
(* Gas and calls to other contracts.                                       *)

gas(n) ==
    /\ HostCall
    /\ \/ /\ CanCharge(n)
          /\ Charge(n)
          /\ UNCHANGED <<accounts, logs, written>>
          /\ Continue
       \/ ~CanCharge(n) /\ Trap("host")

\* do_call gives up with -1 when the balance is short, before any charge, or
\* when the callee's gas leaves u64, after call_gas; past that it is unfinished
\* and always errs.
ccall(g, v) ==
    /\ HostCall
    /\ \/ \E fetched \in FetchAccount(provider, accounts, Self) :
             LET call_gas == Adjusted(Schedule["call_gas"])
             IN  /\ \/ fetched[Self].balance < v /\ UNCHANGED gas_counter
                    \/ /\ fetched[Self].balance >= v
                       /\ CanCharge(call_gas)
                       /\ g * opcodes_div > U64Max
                       /\ Charge(call_gas)
                 /\ accounts' = fetched
                 /\ UNCHANGED <<logs, written>>
                 /\ Continue
       \/ Trap("host")

\* create and suicide are stubs that err.
create == HostCall /\ Trap("host")

suicide == HostCall /\ Trap("host")

\* Imports that resolve (dcall, scall) and no arm of invoke_index takes: the
\* interpreter's thread panics.
Undispatched ==
    /\ HostCall
    /\ Resolved \ Dispatched # {}
    /\ Abort("no_dispatch")

-----------------------------------------------------------------------------
(* Queries.                                                                *)

\* A query that charges `cost` and stores an answer in memory.
Query(cost) ==
    /\ HostCall
    /\ \/ /\ CanCharge(cost)
          /\ Charge(cost)
          /\ UNCHANGED <<accounts, logs, written>>
          /\ Continue
       \/ Trap("host")

return_address_ptr == Query(Schedule["static_address"])

return_u256_ptr == Query(Schedule["static_u256"])

fetch_input == Query(params.args_len * Schedule["memcpy"])

\* address, sender, origin
PartyQuery == return_address_ptr

\* value, gaslimit
AmountQuery == return_u256_ptr

\* input_length, blocknumber and timestamp answer a number at no charge.
FreeQuery ==
    /\ HostCall
    /\ UNCHANGED <<accounts, gas_counter, logs, written>>
    /\ Continue

\* The sample chain indexes its blocks without a check; the RPC adaptor answers
\* zero for any block.
block_hash ==
    \/ Query(Adjusted(Schedule["blockhash_gas"]))
    \/ /\ HostCall
       /\ ~Remote
       /\ CanCharge(Adjusted(Schedule["blockhash_gas"]))
       /\ Abort("no_block")

\* Only the sample chain has an author; neither provider has a difficulty.
block_author ==
    IF Remote THEN HostCall /\ Trap("host") ELSE return_address_ptr

difficulty == HostCall /\ Trap("host")

-----------------------------------------------------------------------------
(* The ends of a run that are not host calls.                              *)

\* Unreachable code, division by zero, stack overflow, ...
WasmTrap == Running /\ Trap("wasm")

\* The start function, if any, is done, and "call" is invoked if the module
\* exports it.
StartReturns ==
    /\ pc = "start"
    /\ pc' = "call"
    /\ block' = 0
    /\ UNCHANGED <<provider, accounts, params, memory, gas_counter, gas_limit,
                   result, logs, exit, written>>

NoExport == pc = "start" /\ Exit("no_export") /\ UNCHANGED result

\* "call" returns by itself.
CallReturns == pc = "call" /\ Exit("end") /\ UNCHANGED result

RuntimeNext ==
    \/ \E n \in BlockCosts : EnterBlock(n)
    \/ \E n \in GrowArgs : GrowMemory(n)
    \/ \E k \in Key : storage_read(k)
    \/ \E k \in Key, v \in Value : storage_write(k, v)
    \/ \E data \in Bytes : ret(data)
    \/ \E topics \in 0 .. 5 : elog(topics)
    \/ debug
    \/ panic
    \/ \E n \in GasArgs : gas(n)
    \/ \E g \in GasArgs, v \in CallValues : ccall(g, v)
    \/ create
    \/ suicide
    \/ Undispatched
    \/ fetch_input
    \/ PartyQuery
    \/ AmountQuery
    \/ FreeQuery
    \/ block_hash
    \/ block_author
    \/ difficulty
    \/ WasmTrap
    \/ StartReturns
    \/ CallReturns
    \/ NoExport
=============================================================================
