---------------------------- MODULE ExecuteProofs ----------------------------
(***************************************************************************)
(* Theorems about Execute, for every value of its constants.               *)
(***************************************************************************)
EXTENDS Execute, TLAPS

-----------------------------------------------------------------------------
(* Types of the operators of Provider and State.                           *)

\* A new account is an account.
LEMMA NewAccountType ==
    ASSUME NEW balance \in Nat, NEW nonce \in Nat, NEW code \in Bytes
    PROVE  NewAccount(balance, nonce, code) \in Account
BY DEF NewAccount, NoStorage, Account

\* Every update method of the provider leaves a chain.
LEMMA UpdateTypes ==
    ASSUME NEW prov \in Chain, NEW a \in Address
    PROVE  /\ \A code \in Bytes : CreateContract(prov, a, code)
                \subseteq [ok : BOOLEAN, prov : Chain]
           /\ \A balance, nonce \in Nat : UpdateAccount(prov, a, balance, nonce)
                \subseteq [ok : BOOLEAN, prov : Chain]
           /\ \A k \in Key, v \in Value : WriteStorage(prov, a, k, v)
                \subseteq [ok : BOOLEAN, prov : Chain]
<1> DEFINE Replies == [ok : BOOLEAN, prov : Chain]
<1>1. ASSUME NEW p \in Chain, NEW q \in Chain
      PROVE  Reply(p, q) \subseteq Replies
  <2>1. /\ [ok |-> TRUE, prov |-> q] \in Replies
        /\ [ok |-> FALSE, prov |-> p] \in Replies
        /\ [ok |-> FALSE, prov |-> q] \in Replies
    OBVIOUS
  <2> QED
    BY <2>1 DEF Reply
<1>2. ASSUME NEW code \in Bytes
      PROVE  CreateContract(prov, a, code) \subseteq Replies
  <2>1. NewAccount(0, 0, code) \in Account
    BY NewAccountType
  <2>2. [prov EXCEPT ![a] = NewAccount(0, 0, code)] \in Chain
    BY <2>1 DEF Chain
  <2> QED
    BY <1>1, <2>2 DEF CreateContract
<1>3. ASSUME NEW balance \in Nat, NEW nonce \in Nat
      PROVE  UpdateAccount(prov, a, balance, nonce) \subseteq Replies
  <2>1. [prov EXCEPT ![a].balance = balance, ![a].nonce = nonce] \in Chain
    BY DEF Chain, Account
  <2> QED
    BY <1>1, <2>1 DEF UpdateAccount
<1>4. ASSUME NEW k \in Key, NEW v \in Value
      PROVE  WriteStorage(prov, a, k, v) \subseteq Replies
  <2>1. [prov EXCEPT ![a].storage[k] = v] \in Chain
    BY DEF Chain, Account
  <2> QED
    BY <1>1, <2>1 DEF WriteStorage
<1> QED
  BY <1>2, <1>3, <1>4

\* AccountInfo::new (state.rs:16) makes an entry of the overlay.
LEMMA NewInfoType ==
    ASSUME NEW nonce \in Nat, NEW balance \in Nat, NEW code \in Bytes
    PROVE  NewInfo(nonce, balance, code) \in AccountInfo
BY ProviderAssumption DEF NewInfo, NoSlot, Slot, Status, AccountInfo

\* State::new (state.rs:33) is an overlay without entries.
LEMMA NewStateType == NewState \in Overlay
<1>1. NewInfo(0, 0, Empty) \in AccountInfo
  BY NewInfoType, ProviderAssumption
<1>2. NotCached \in AccountInfo
  BY <1>1 DEF NotCached, AccountInfo, Status
<1> QED
  BY <1>2 DEF NewState, Overlay

\* fetch_account (state.rs:140) leaves an overlay, whatever the provider answers.
LEMMA FetchAccountType ==
    ASSUME NEW prov \in Chain, NEW accts \in Overlay, NEW a \in Address
    PROVE  FetchAccount(prov, accts, a) \subseteq Overlay
<1>1. FetchedInfo(prov, a) \subseteq AccountInfo
  <2>1. NewInfo(0, 1, Empty) \in AccountInfo
    BY NewInfoType, ProviderAssumption
  <2>2. NewInfo(prov[a].balance, prov[a].nonce, prov[a].code) \in AccountInfo
    BY NewInfoType DEF Chain, Account
  <2> QED
    BY <2>1, <2>2 DEF FetchedInfo
<1> QED
  BY <1>1 DEF FetchAccount, Overlay

\* fetch_storage (state.rs:156) leaves an overlay, whatever the provider answers.
LEMMA FetchStorageType ==
    ASSUME NEW prov \in Chain, NEW accts \in Overlay, NEW a \in Address,
           NEW k \in Key
    PROVE  FetchStorage(prov, accts, a, k) \subseteq Overlay
<1>1. FetchedSlot(prov, a, k) \subseteq Slot
  BY ProviderAssumption
  DEF FetchedSlot, StorageOk, NoSlot, Slot, Status, Chain, Account
<1>2. ASSUME NEW fetched \in Overlay
      PROVE  FetchSlot(prov, fetched, a, k) \subseteq Overlay
  <2>1. ASSUME NEW slot \in Slot
        PROVE  [fetched EXCEPT ![a].storage[k] = slot] \in Overlay
    BY DEF Overlay, AccountInfo
  <2> QED
    BY <1>1, <2>1 DEF FetchSlot
<1>3. FetchAccount(prov, accts, a) \subseteq Overlay
  BY FetchAccountType
<1> QED
  BY <1>2, <1>3 DEF FetchStorage

\* set_storage (state.rs:96) of a value leaves an overlay.
LEMMA SetStorageType ==
    ASSUME NEW accts \in Overlay, NEW a \in Address, NEW k \in Key,
           NEW v \in Value
    PROVE  SetStorage(accts, a, k, v) \in Overlay
BY DEF SetStorage, Overlay, AccountInfo, Slot, Status

\* init_code (state.rs:113) leaves an overlay.
LEMMA InitCodeType ==
    ASSUME NEW prov \in Chain, NEW accts \in Overlay, NEW a \in Address,
           NEW code \in Bytes
    PROVE  InitCode(prov, accts, a, code) \subseteq Overlay
<1>1. FetchAccount(prov, accts, a) \subseteq Overlay
  BY FetchAccountType
<1>2. ASSUME NEW fetched \in Overlay
      PROVE  [fetched EXCEPT ![a].code = code, ![a].status = "dirty"] \in Overlay
  BY DEF Overlay, AccountInfo, Status
<1> QED
  BY <1>1, <1>2 DEF InitCode

\* A memory that a module imports (env.rs:203) is one of the memory's states.
LEMMA MemoryType ==
    \A d \in Memories : /\ Memory(d) \in MemoryState
                        /\ d.initial \in Nat
                        /\ d.maximum \in Nat \cup {NoMaximum}
BY EnvAssumption DEF Memory, MemoryState, Descriptor

\* Without an imported memory (env.rs:143) there is still one, of no pages.
LEMMA NoMemoryType == NoMemory \in MemoryState
BY DEF NoMemory, Memory, MemoryState

\* Growing, wherever it stops, leaves a memory.
LEMMA GrowType ==
    ASSUME NEW m \in MemoryState, NEW n \in Nat
    PROVE  Grow(m, n) \in MemoryState
BY DEF Grow, MemoryState

-----------------------------------------------------------------------------
(* Type correctness.                                                       *)

\* A cost scaled to units of the counter is a natural number.
LEMMA AdjustedType == \A n \in Nat : Adjusted(n) \in Nat
BY DEF Adjusted, opcodes_mul, opcodes_div

\* Every cost of the schedule, scaled or not, is a natural number.
LEMMA CostType ==
    \A c \in CostNames : Schedule[c] \in Nat /\ Adjusted(Schedule[c]) \in Nat
BY RuntimeAssumption, AdjustedType

\* The parameters of a transaction being run, or between two.
LEMMA ParamsType ==
    TypeOK => Self \in Address /\ params.gas \in Nat /\ params.args_len \in Nat
<1> SUFFICES ASSUME TypeOK
    PROVE  Self \in Address /\ params.gas \in Nat /\ params.args_len \in Nat
  OBVIOUS
<1>1. CASE params \in Transaction
  <2>1. GasInputs \subseteq Nat /\ ArgLengths \subseteq Nat
    BY ExecuteAssumption
  <2> QED
    BY <1>1, <2>1 DEF Transaction, Self
<1>2. CASE params = NoTransaction
  <2>1. NoTransaction.gas = 0 /\ NoTransaction.args_len = 0
    BY DEF NoTransaction
  <2>2. NoTransaction.address \in Address
    BY ExecuteAssumption DEF NoTransaction
  <2> QED
    BY <1>2, <2>1, <2>2 DEF Self
<1> QED
  BY <1>1, <1>2 DEF TypeOK

\* What the metering charges for growing, wrapped or not, is a natural number.
LEMMA GrowCostType == \A n \in Nat : GrowCost(n) \in Nat
BY RuntimeAssumption, CostType DEF GrowCost, CostNames

\* A run that stops keeps the types.
LEMMA ExitType ==
    ASSUME TypeOK, NEW kind \in ExitKinds, Exit(kind), result' \in Bytes,
           UNCHANGED <<outcome, base, todo, pending>>
    PROVE  TypeOK'
BY DEF TypeOK, Exit

\* A trap, an error of a host function included (runtime.rs:705), keeps the types.
LEMMA TrapType ==
    ASSUME TypeOK, NEW kind \in ExitKinds, Trap(kind),
           UNCHANGED <<outcome, base, todo, pending>>
    PROVE  TypeOK'
<1>1. ErrorKind(kind) \in ExitKinds
  BY DEF ErrorKind, ExitKinds
<1>2. result' \in Bytes
  BY DEF Trap, TypeOK
<1> QED
  BY <1>1, <1>2, ExitType DEF Trap

\* A host call that returns keeps the types if what it charged and
\* stored has them.
LEMMA ContinueType ==
    ASSUME TypeOK, HostCall, Continue, accounts' \in Overlay,
           gas_counter' \in Nat, logs' \in Nat,
           written' \in [Key -> Value \cup {Absent}],
           UNCHANGED <<outcome, base, todo, pending>>
    PROVE  TypeOK'
BY DEF TypeOK, HostCall, Continue

\* The runtime's steps keep the types.
LEMMA RunType == TypeOK /\ Run => TypeOK'
<1> SUFFICES ASSUME TypeOK, Run PROVE TypeOK'
  OBVIOUS
<1> USE DEF TypeOK
<1>u. UNCHANGED <<outcome, base, todo, pending>>
  BY DEF Run
<1>s. Self \in Address
  BY ParamsType
<1>k. {"host", "wasm", "return", "end", "no_export", "no_dispatch", "no_block"}
        \subseteq ExitKinds
  BY DEF ExitKinds, AbortedExits
<1>h. Trap("host") => TypeOK'
  BY <1>u, <1>k, TrapType
<1>q. ASSUME NEW cost \in Nat, Query(cost) PROVE TypeOK'
  <2>1. CASE Trap("host")
    BY <1>h, <2>1
  <2>2. CASE Charge(cost) /\ UNCHANGED <<accounts, logs, written>> /\ Continue
    BY <2>2, <1>q, <1>u, ContinueType DEF Query, Charge
  <2> QED
    BY <1>q, <2>1, <2>2 DEF Query
<1>1. ASSUME NEW n \in BlockCosts, EnterBlock(n) PROVE TypeOK'
  BY <1>1, <1>u, <1>h, RuntimeAssumption DEF EnterBlock, Charge
<1>0. ASSUME NEW n \in GrowArgs, GrowMemory(n) PROVE TypeOK'
  <2>1. n \in Nat /\ GrowCost(n) \in Nat
    BY RuntimeAssumption, GrowCostType
  <2>2. Grow(memory, n) \in MemoryState
    BY <2>1, GrowType
  <2> QED
    BY <1>0, <2>1, <2>2, <1>u, <1>h DEF GrowMemory, HostCall, Charge
<1>2. ASSUME NEW k \in Key, storage_read(k) PROVE TypeOK'
  <2>1. Adjusted(Schedule["sload_gas"]) \in Nat
    BY CostType DEF CostNames
  <2>2. FetchStorage(provider, accounts, Self, k) \subseteq Overlay
    BY <1>s, FetchStorageType
  <2> QED
    BY <1>2, <2>1, <2>2, <1>u, <1>h, ContinueType DEF storage_read, Charge
<1>3. ASSUME NEW k \in Key, NEW v \in Value, storage_write(k, v) PROVE TypeOK'
  <2>1. CASE Trap("host")
    BY <1>h, <2>1
  <2>2. ASSUME NEW fetched \in FetchStorage(provider, accounts, Self, k),
               Charge(StoreCost(SlotValue(fetched, Self, k), v)),
               accounts' = SetStorage(fetched, Self, k, v),
               written' = [written EXCEPT ![k] = v],
               UNCHANGED logs, Continue
        PROVE  TypeOK'
    <3>1. StoreCost(SlotValue(fetched, Self, k), v) \in Nat
      BY CostType DEF StoreCost, CostNames
    <3>2. fetched \in Overlay
      BY <1>s, FetchStorageType
    <3>3. accounts' \in Overlay
      BY <2>2, <3>2, <1>s, SetStorageType
    <3> QED
      BY <1>3, <2>2, <3>1, <3>3, <1>u, ContinueType
      DEF storage_write, Charge
  <2> QED
    BY <1>3, <2>1, <2>2 DEF storage_write
<1>4. ASSUME NEW data \in Bytes, ret(data) PROVE TypeOK'
  <2>1. CASE Exit(ErrorKind("return")) /\ result' = data
    <3>1. ErrorKind("return") \in ExitKinds
      BY DEF ErrorKind, ExitKinds
    <3> QED
      BY <2>1, <3>1, <1>u, ExitType
  <2> QED
    BY <1>4, <2>1, <1>h DEF ret
<1>5. ASSUME NEW topics \in 0 .. 5, elog(topics) PROVE TypeOK'
  <2>1. CASE Trap("host")
    BY <1>h, <2>1
  <2>2. CASE /\ Charge(Adjusted(LogPrice(topics)))
             /\ logs' = logs + 1
             /\ UNCHANGED <<accounts, written>>
             /\ Continue
    <3>1. LogPrice(topics) \in Nat
      BY CostType DEF LogPrice, CostNames
    <3>2. Adjusted(LogPrice(topics)) \in Nat
      BY <3>1, AdjustedType
    <3> QED
      BY <1>5, <2>2, <3>2, <1>u, ContinueType DEF elog, Charge
  <2> QED
    BY <1>5, <2>1, <2>2 DEF elog
<1>6. CASE debug
  BY <1>6, <1>u, <1>h, ContinueType DEF debug
<1>7. CASE panic \/ create \/ suicide \/ difficulty
  BY <1>7, <1>h DEF panic, create, suicide, difficulty
<1>8. ASSUME NEW n \in GasArgs, gas(n) PROVE TypeOK'
  BY <1>8, <1>u, <1>h, ContinueType, RuntimeAssumption DEF gas, Charge
<1>9. ASSUME NEW g \in GasArgs, NEW v \in CallValues, ccall(g, v) PROVE TypeOK'
  <2>1. Adjusted(Schedule["call_gas"]) \in Nat
    BY CostType DEF CostNames
  <2>2. FetchAccount(provider, accounts, Self) \subseteq Overlay
    BY <1>s, FetchAccountType
  <2> QED
    BY <1>9, <2>1, <2>2, <1>u, <1>h, ContinueType DEF ccall, Charge
<1>10. CASE Undispatched
  BY <1>10, <1>k, <1>u, ExitType DEF Undispatched, Abort
<1>11. CASE fetch_input
  <2>1. params.args_len \in Nat
    BY ParamsType
  <2>2. params.args_len * Schedule["memcpy"] \in Nat
    BY <2>1, CostType DEF CostNames
  <2> QED
    BY <1>11, <2>2, <1>q DEF fetch_input
<1>12. CASE PartyQuery
  BY <1>12, <1>q, CostType DEF PartyQuery, return_address_ptr, CostNames
<1>13. CASE AmountQuery
  BY <1>13, <1>q, CostType DEF AmountQuery, return_u256_ptr, CostNames
<1>14. CASE FreeQuery
  BY <1>14, <1>u, ContinueType DEF FreeQuery
<1>15. CASE block_hash
  <2>1. CASE Query(Adjusted(Schedule["blockhash_gas"]))
    BY <2>1, <1>q, CostType DEF CostNames
  <2>2. CASE Abort("no_block")
    BY <2>2, <1>k, <1>u, ExitType DEF Abort
  <2> QED
    BY <1>15, <2>1, <2>2 DEF block_hash
<1>16. CASE block_author
  <2>1. CASE HostCall /\ Trap("host")
    BY <2>1, <1>h
  <2>2. CASE return_address_ptr
    BY <2>2, <1>q, CostType DEF return_address_ptr, CostNames
  <2> QED
    BY <1>16, <2>1, <2>2 DEF block_author
<1>17. CASE WasmTrap
  BY <1>17, <1>k, <1>u, TrapType DEF WasmTrap
<1>18. CASE StartReturns
  BY <1>18, <1>u DEF StartReturns
<1>19. CASE CallReturns \/ NoExport
  BY <1>19, <1>k, <1>u, ExitType DEF CallReturns, NoExport
<1> QED
  BY <1>0, <1>1, <1>2, <1>3, <1>4, <1>5, <1>6, <1>7, <1>8, <1>9, <1>10,
     <1>11, <1>12, <1>13, <1>14, <1>15, <1>16, <1>17, <1>18, <1>19
  DEF Run, RuntimeNext

\* Accepting or refusing a transaction keeps the types.
LEMMA SubmitType == TypeOK /\ Submit => TypeOK'
<1> SUFFICES ASSUME TypeOK, Submit PROVE TypeOK'
  OBVIOUS
<1> USE DEF TypeOK
<1>r. ASSUME NEW status \in {"err", "panic"}, Refuse(status) PROVE TypeOK'
  <2>1. Failure(status) \in [status : {"none", "ok", "err", "panic"},
                             gas_left : Nat, data : Bytes, logs : Nat]
    BY ProviderAssumption DEF Failure, NoOutcome
  <2> QED
    BY <1>r, <2>1 DEF Refuse, runtimeVars
<1>1. CASE RefuseUnknown
  BY <1>1, <1>r DEF RefuseUnknown
<1>2. ASSUME NEW tx \in Transaction, RefuseCode(tx) PROVE TypeOK'
  BY <1>2, <1>r DEF RefuseCode
<1>3. ASSUME NEW tx \in Transaction, RefuseGas(tx) PROVE TypeOK'
  BY <1>3, <1>r DEF RefuseGas
<1>4. ASSUME NEW tx \in Transaction, NEW d \in Memories, Start(tx, d)
      PROVE  TypeOK'
  <2> DEFINE charge == d.initial * Schedule["initial_mem"]
             limit  == AdjustedGas(tx.gas)
  <2>1. CASE charge > limit /\ Refuse("err")
    BY <2>1, <1>r
  <2>2. CASE ~(charge > limit /\ Refuse("err"))
    <3>1. gas_limit' = limit /\ gas_counter' = charge
      BY <1>4, <2>2 DEF Start
    <3>2. charge \in Nat
      BY CostType, MemoryType DEF CostNames
    <3>3. limit \in Nat
      <4>1. GasInputs \subseteq Nat
        BY ExecuteAssumption
      <4>2. tx.gas \in Nat
        BY <4>1 DEF Transaction
      <4> QED
        BY <4>2 DEF AdjustedGas, opcodes_div, opcodes_mul
    <3>4. NoOutcome \in [status : {"none", "ok", "err", "panic"},
                         gas_left : Nat, data : Bytes, logs : Nat]
      BY ProviderAssumption DEF NoOutcome
    <3>5. NoWrites \in [Key -> Value \cup {Absent}]
      BY DEF NoWrites
    <3>6. "none" \in ExitKinds
      BY DEF ExitKinds
    <3>7. /\ params' = tx
          /\ memory' = Memory(d)
          /\ accounts' = NewState
          /\ result' = Empty
          /\ logs' = 0
          /\ block' = 0
          /\ pc' = "start"
          /\ exit' = "none"
          /\ written' = NoWrites
          /\ outcome' = NoOutcome
          /\ base' = provider
          /\ UNCHANGED <<provider, todo, pending>>
      BY <1>4, <2>2 DEF Start
    <3> HIDE DEF charge, limit
    <3> QED
      BY <3>1, <3>2, <3>3, <3>4, <3>5, <3>6, <3>7, NewStateType, MemoryType,
         ProviderAssumption
  <2> QED
    BY <2>1, <2>2
<1>5. ASSUME NEW tx \in Transaction, NEW d \in Memories, RefuseMemory(tx, d)
      PROVE  TypeOK'
  BY <1>5, <1>r DEF RefuseMemory
<1> QED
  BY <1>1, <1>2, <1>3, <1>4, <1>5 DEF Submit

\* An answer keeps the types, whatever the chain it leaves.
LEMMA AnswerType ==
    ASSUME TypeOK, NEW reply, Answer(reply), provider' \in Chain,
           reply \in [status : {"none", "ok", "err", "panic"},
                      gas_left : Nat, data : Bytes, logs : Nat]
    PROVE  TypeOK'
<1>1. NoWrites \in [Key -> Value \cup {Absent}]
  BY DEF NoWrites
<1>2. "none" \in ExitKinds
  BY DEF ExitKinds
<1>3. Empty \in Bytes
  BY ProviderAssumption
<1> QED
  BY <1>1, <1>2, <1>3, NewStateType, NoMemoryType DEF TypeOK, Answer

\* The gas handed back is a natural number because the counter is within bounds.
LEMMA SuccessType ==
    ASSUME TypeOK, GasBounded, NEW data \in Bytes
    PROVE  Success(data) \in [status : {"none", "ok", "err", "panic"},
                              gas_left : Nat, data : Bytes, logs : Nat]
<1>1. GasLeft \in Nat
  BY DEF GasLeft, TypeOK, GasBounded, opcodes_mul, opcodes_div
<1> QED
  BY <1>1 DEF Success

\* The answer of a transaction that failed (execute.rs:79) is an outcome.
LEMMA FailureType ==
    \A status \in {"err", "panic"} :
       Failure(status) \in [status : {"none", "ok", "err", "panic"},
                            gas_left : Nat, data : Bytes, logs : Nat]
BY ProviderAssumption DEF Failure, NoOutcome

\* The end of a transaction keeps the types.
LEMMA FinishType == TypeOK /\ GasBounded /\ Finish => TypeOK'
<1> SUFFICES ASSUME TypeOK, GasBounded, Finish PROVE TypeOK'
  OBVIOUS
<1>p. /\ provider \in Chain
      /\ accounts \in Overlay
      /\ result \in Bytes
  BY DEF TypeOK
<1>s. Self \in Address
  BY ParamsType
<1>1. CASE AnswerFailure
  BY <1>1, <1>p, AnswerType, FailureType DEF AnswerFailure
<1>2. CASE AnswerEmpty
  BY <1>2, <1>p, AnswerType, SuccessType, ProviderAssumption DEF AnswerEmpty
<1>3. CASE BeginUpdate
  <2>1. accounts' \in Overlay
    BY <1>3, <1>p, <1>s, InitCodeType DEF BeginUpdate
  <2>2. todo' \subseteq Address
    BY <1>3 DEF BeginUpdate, Cached
  <2> QED
    BY <1>3, <2>1, <2>2 DEF BeginUpdate, TypeOK
<1>4. ASSUME NEW a \in Address, FlushAccount(a) PROVE TypeOK'
  <2>1. WriteAccount(provider, accounts, a) \subseteq [ok : BOOLEAN, prov : Chain]
    <3>1. /\ accounts[a].balance \in Nat
          /\ accounts[a].nonce \in Nat
          /\ accounts[a].code \in Bytes
      BY <1>p DEF Overlay, AccountInfo
    <3>2. CASE accounts[a].status # "dirty"
      BY <3>2, <1>p DEF WriteAccount
    <3>3. CASE accounts[a].status = "dirty"
      BY <3>1, <3>3, <1>p, UpdateTypes DEF WriteAccount
    <3> QED
      BY <3>2, <3>3
  <2>2. PICK reply \in WriteAccount(provider, accounts, a) :
          /\ provider' = reply.prov
          /\ \/ /\ reply.ok
                /\ todo' = todo \ {a}
                /\ pending' = {<<a, k>> : k \in DirtySlots(accounts, a)}
                /\ UNCHANGED UpdateVars
             \/ ~reply.ok /\ Answer(Failure("err"))
    BY <1>4 DEF FlushAccount
  <2>3. provider' \in Chain
    BY <2>1, <2>2
  <2>4. CASE Answer(Failure("err"))
    BY <2>3, <2>4, AnswerType, FailureType
  <2>5. CASE /\ todo' = todo \ {a}
             /\ pending' = {<<a, k>> : k \in DirtySlots(accounts, a)}
             /\ UNCHANGED UpdateVars
    <3>1. pending' \subseteq Address \X Key
      BY <2>5 DEF DirtySlots
    <3> QED
      BY <2>3, <2>5, <3>1 DEF TypeOK, UpdateVars
  <2> QED
    BY <2>2, <2>4, <2>5
<1>5. ASSUME NEW a \in Address, NEW k \in Key, FlushSlot(a, k) PROVE TypeOK'
  <2>1. WriteSlot(provider, accounts, a, k) \subseteq [ok : BOOLEAN, prov : Chain]
    <3>1. accounts[a].storage[k].val \in Value
      BY <1>p DEF Overlay, AccountInfo, Slot
    <3> QED
      BY <3>1, <1>p, UpdateTypes DEF WriteSlot
  <2>2. PICK reply \in WriteSlot(provider, accounts, a, k) :
          /\ provider' = reply.prov
          /\ \/ /\ reply.ok
                /\ pending' = pending \ {<<a, k>>}
                /\ UNCHANGED <<UpdateVars, todo>>
             \/ ~reply.ok /\ Answer(Failure("err"))
    BY <1>5 DEF FlushSlot
  <2>3. provider' \in Chain
    BY <2>1, <2>2
  <2>4. CASE Answer(Failure("err"))
    BY <2>3, <2>4, AnswerType, FailureType
  <2>5. CASE pending' = pending \ {<<a, k>>} /\ UNCHANGED <<UpdateVars, todo>>
    BY <2>3, <2>5 DEF TypeOK, UpdateVars
  <2> QED
    BY <2>2, <2>4, <2>5
<1>6. CASE AnswerUpdated
  BY <1>6, <1>p, AnswerType, SuccessType DEF AnswerUpdated
<1> QED
  BY <1>1, <1>2, <1>3, <1>4, <1>5, <1>6 DEF Finish

-----------------------------------------------------------------------------
(* What a step of the running contract may do.                             *)

\* How the overlay, and the history of writes with it, may change.
OverlayStep ==
    \/ UNCHANGED <<accounts, written>>
    \/ accounts' \in FetchAccount(provider, accounts, Self) /\ UNCHANGED written
    \/ \E k \in Key :
          /\ accounts' \in FetchStorage(provider, accounts, Self, k)
          /\ UNCHANGED written
    \/ \E k \in Key, v \in Value :
          \E fetched \in FetchStorage(provider, accounts, Self, k) :
             /\ accounts' = SetStorage(fetched, Self, k, v)
             /\ written' = [written EXCEPT ![k] = v]

\* How the counter may change: by a charge that the limit allows.
GasStep == gas_counter' = gas_counter \/ gas_counter' <= gas_limit

\* How control and result may change: a result comes with a return.
ControlStep ==
    /\ pc' \in {"start", "call", "exited"}
    /\ \/ result' = result
       \/ pc' = "exited" /\ exit' \in {"start", "return"}
    /\ pc' # "exited" => exit' = exit

RunStep ==
    /\ Running
    /\ UNCHANGED <<provider, params, gas_limit, outcome, base, todo, pending>>
    /\ OverlayStep /\ GasStep /\ ControlStep

\* Every host function, trap and return of a contract is such a step.
LEMMA RunFrame == Run => RunStep
<1> SUFFICES ASSUME Run PROVE RunStep
  OBVIOUS
<1>u. UNCHANGED <<outcome, base, todo, pending>>
  BY DEF Run
<1>x. ASSUME NEW kind, Running, Exit(kind),
             result' = result \/ kind \in {"start", "return"}
      PROVE  RunStep
  BY <1>x, <1>u DEF Exit, RunStep, OverlayStep, GasStep, ControlStep
<1>t. ASSUME NEW kind, Running, Trap(kind) PROVE RunStep
  BY <1>t, <1>x DEF Trap
<1>a. ASSUME NEW kind, Running, Abort(kind) PROVE RunStep
  BY <1>a, <1>x DEF Abort
<1>c. ASSUME HostCall, Continue, OverlayStep, GasStep PROVE RunStep
  BY <1>c, <1>u DEF HostCall, Continue, RunStep, ControlStep, Running
<1>q. ASSUME NEW cost, Query(cost) PROVE RunStep
  BY <1>q, <1>t, <1>c DEF Query, HostCall, CanCharge, Charge, GasStep, OverlayStep
<1>1. ASSUME NEW n \in BlockCosts, EnterBlock(n) PROVE RunStep
  <2>1. CASE Trap("host")
    BY <1>1, <2>1, <1>t DEF EnterBlock
  <2>2. CASE ~Trap("host")
    BY <1>1, <2>2, <1>u
    DEF EnterBlock, Running, CanCharge, Charge, RunStep, OverlayStep, GasStep,
        ControlStep
  <2> QED
    BY <2>1, <2>2
<1>0. ASSUME NEW n \in GrowArgs, GrowMemory(n) PROVE RunStep
  <2>1. CASE Trap("host")
    BY <1>0, <2>1, <1>t DEF GrowMemory, HostCall
  <2>2. CASE ~Trap("host")
    BY <1>0, <2>2, <1>u
    DEF GrowMemory, HostCall, Running, CanCharge, Charge, RunStep, OverlayStep,
        GasStep, ControlStep
  <2> QED
    BY <2>1, <2>2
<1>2. ASSUME NEW k \in Key, storage_read(k) PROVE RunStep
  BY <1>2, <1>t, <1>c
  DEF storage_read, HostCall, CanCharge, Charge, GasStep, OverlayStep
<1>3. ASSUME NEW k \in Key, NEW v \in Value, storage_write(k, v) PROVE RunStep
  BY <1>3, <1>t, <1>c
  DEF storage_write, HostCall, CanCharge, Charge, GasStep, OverlayStep
<1>4. ASSUME NEW data \in Bytes, ret(data) PROVE RunStep
  <2>1. ErrorKind("return") \in {"start", "return"}
    BY DEF ErrorKind
  <2> QED
    BY <1>4, <2>1, <1>t, <1>x DEF ret, HostCall
<1>5. ASSUME NEW topics \in 0 .. 5, elog(topics) PROVE RunStep
  BY <1>5, <1>t, <1>c
  DEF elog, HostCall, CanCharge, Charge, GasStep, OverlayStep
<1>6. CASE debug
  BY <1>6, <1>t, <1>c DEF debug, HostCall, GasStep, OverlayStep
<1>7. CASE panic \/ create \/ suicide \/ difficulty
  BY <1>7, <1>t DEF panic, create, suicide, difficulty, HostCall
<1>8. ASSUME NEW n \in GasArgs, gas(n) PROVE RunStep
  BY <1>8, <1>t, <1>c DEF gas, HostCall, CanCharge, Charge, GasStep, OverlayStep
<1>9. ASSUME NEW g \in GasArgs, NEW v \in CallValues, ccall(g, v) PROVE RunStep
  BY <1>9, <1>t, <1>c
  DEF ccall, HostCall, CanCharge, Charge, GasStep, OverlayStep
<1>10. CASE Undispatched
  BY <1>10, <1>a DEF Undispatched, HostCall
<1>11. CASE fetch_input \/ PartyQuery \/ AmountQuery
  BY <1>11, <1>q
  DEF fetch_input, PartyQuery, AmountQuery, return_address_ptr, return_u256_ptr
<1>12. CASE FreeQuery
  BY <1>12, <1>c DEF FreeQuery, GasStep, OverlayStep
<1>13. CASE block_hash
  BY <1>13, <1>q, <1>a DEF block_hash, HostCall
<1>14. CASE block_author
  BY <1>14, <1>q, <1>t DEF block_author, return_address_ptr, HostCall
<1>15. CASE WasmTrap
  BY <1>15, <1>t DEF WasmTrap
<1>16. CASE StartReturns
  BY <1>16, <1>u
  DEF StartReturns, RunStep, Running, OverlayStep, GasStep, ControlStep
<1>17. CASE CallReturns \/ NoExport
  BY <1>17, <1>x DEF CallReturns, NoExport, Running
<1> QED
  BY <1>0, <1>1, <1>2, <1>3, <1>4, <1>5, <1>6, <1>7, <1>8, <1>9, <1>10,
     <1>11, <1>12, <1>13, <1>14, <1>15, <1>16, <1>17
  DEF Run, RuntimeNext

-----------------------------------------------------------------------------
(* Types and gas bounds, invariant together.                               *)

Sound == TypeOK /\ GasBounded

\* The program starts with both.
LEMMA SoundInit == Init => Sound
<1> SUFFICES ASSUME Init PROVE Sound
  OBVIOUS
<1>1. "none" \in ExitKinds
  BY DEF ExitKinds
<1>2. NoOutcome \in [status : {"none", "ok", "err", "panic"},
                     gas_left : Nat, data : Bytes, logs : Nat]
  BY ProviderAssumption DEF NoOutcome
<1>3. NoWrites \in [Key -> Value \cup {Absent}]
  BY DEF NoWrites
<1>4. Genesis \in Chain /\ Empty \in Bytes
  BY ExecuteAssumption, ProviderAssumption
<1>5. TypeOK
  BY <1>1, <1>2, <1>3, <1>4, NewStateType, NoMemoryType DEF Init, TypeOK
<1>6. GasBounded
  BY RuntimeAssumption DEF Init, GasBounded, Busy
<1> QED
  BY <1>5, <1>6 DEF Sound

\* And every step keeps them: a run charges within the limit, an answer clears
\* the counters, and what update_state does leaves them alone.
LEMMA SoundStep == Sound /\ [Next]_vars => Sound'
<1> SUFFICES ASSUME Sound, [Next]_vars PROVE Sound'
  OBVIOUS
<1> USE DEF Sound
<1>1. CASE Submit
  <2>1. TypeOK'
    BY <1>1, SubmitType
  <2>r. ASSUME NEW status, Refuse(status) PROVE GasBounded'
    BY <2>r DEF Refuse, runtimeVars, GasBounded, Busy
  <2>2. GasBounded'
    <3>1. ASSUME NEW tx \in Transaction, NEW d \in Memories, Start(tx, d)
          PROVE  GasBounded'
      <4>1. CASE Refuse("err")
        BY <4>1, <2>r
      <4>2. CASE ~Refuse("err")
        BY <3>1, <4>2 DEF Start, GasBounded
      <4> QED
        BY <4>1, <4>2
    <3> QED
      BY <1>1, <2>r, <3>1
      DEF Submit, RefuseUnknown, RefuseCode, RefuseGas, RefuseMemory
  <2> QED
    BY <2>1, <2>2
<1>2. CASE Run
  <2>1. TypeOK'
    BY <1>2, RunType
  <2>2. GasBounded'
    BY <1>2, RunFrame DEF RunStep, GasStep, GasBounded, Busy, Running
  <2> QED
    BY <2>1, <2>2
<1>3. CASE Finish
  <2>1. TypeOK'
    BY <1>3, FinishType
  <2>2. ASSUME NEW reply, Answer(reply) PROVE GasBounded'
    BY <2>2, RuntimeAssumption DEF Answer, GasBounded, Busy
  <2>3. GasBounded'
    BY <1>3, <2>2
    DEF Finish, AnswerFailure, AnswerEmpty, BeginUpdate, FlushAccount,
        FlushSlot, AnswerUpdated, UpdateVars, GasBounded, Busy, Completed
  <2> QED
    BY <2>1, <2>3
<1>4. CASE UNCHANGED vars
  BY <1>4 DEF vars, runtimeVars, TypeOK, GasBounded, Busy, Self
<1> QED
  BY <1>1, <1>2, <1>3, <1>4 DEF Next

\* In every reachable state, for any code, schedule and transactions, the state of
\* provider, overlay, runtime and execute is well typed.
THEOREM TypeCorrect == Spec => []TypeOK
BY SoundInit, SoundStep, PTL DEF Spec, Sound

\* The gas counter never passes the limit, nor the limit u64.
THEOREM GasIsBounded == Spec => []GasBounded
BY SoundInit, SoundStep, PTL DEF Spec, Sound

-----------------------------------------------------------------------------
(* The gas handed back.                                                    *)

\* Scaling a gas amount up, charging, and scaling the rest back rounds twice.
LEMMA TwoRoundings ==
    ASSUME NEW g \in Nat, NEW c \in Nat, c <= AdjustedGas(g)
    PROVE  LET left == ((AdjustedGas(g) - c) * opcodes_mul) \div opcodes_div
               used == (g - left) * opcodes_div
           IN  c * opcodes_mul <= used /\ used < c * opcodes_mul + 10
BY DEF AdjustedGas, opcodes_mul, opcodes_div

\* An answer is given by AnswerFailure, AnswerEmpty, AnswerUpdated or a failed
\* call on the provider; only the second and third are successes.
LEMMA OkAnswers ==
    ASSUME Next, Answers("ok")
    PROVE  /\ AnswerEmpty \/ AnswerUpdated
           /\ outcome' = Success(result)
           /\ UNCHANGED provider
<1>1. ~Submit
  BY DEF Answers, Busy, Submit, RefuseUnknown, RefuseCode, RefuseGas,
         RefuseMemory, Start
<1>2. ~Run
  BY RunFrame DEF RunStep, ControlStep, Answers
<1>3. \A status \in {"err", "panic"} : ~Answer(Failure(status))
  BY DEF Answer, Answers, Failure, NoOutcome
<1>4. ~AnswerFailure /\ ~BeginUpdate
  BY <1>3 DEF AnswerFailure, BeginUpdate, Answers
<1>5. \A a \in Address : ~FlushAccount(a)
  BY <1>3 DEF FlushAccount, UpdateVars, Answers, Busy
<1>6. \A a \in Address, k \in Key : ~FlushSlot(a, k)
  BY <1>3 DEF FlushSlot, UpdateVars, Answers, Busy
<1> QED
  BY <1>1, <1>2, <1>4, <1>5, <1>6
  DEF Next, Finish, AnswerEmpty, AnswerUpdated, Answer

\* A successful transaction pays for what it was charged, up to the roundings.
THEOREM RefundIsFair == Spec => RefundFair
<1> DEFINE Fair == Answers("ok") =>
             LET used    == (params.gas - outcome'.gas_left) * opcodes_div
                 charged == gas_counter * opcodes_mul
             IN  charged <= used /\ used < charged + 10
<1>1. Sound /\ [Next]_vars => [Fair]_vars
  <2> SUFFICES ASSUME Sound, Next, Answers("ok") PROVE Fair
    OBVIOUS
  <2>1. params.gas \in Nat /\ gas_counter \in Nat
    BY ParamsType DEF Sound, TypeOK
  <2>2. gas_limit = AdjustedGas(params.gas) /\ gas_counter <= gas_limit
    BY DEF Sound, GasBounded, Answers
  <2>3. outcome'.gas_left
          = ((AdjustedGas(params.gas) - gas_counter) * opcodes_mul)
              \div opcodes_div
    BY <2>2, OkAnswers DEF Success, GasLeft
  <2> QED
    BY <2>1, <2>2, <2>3, TwoRoundings
<1> QED
  BY <1>1, SoundInit, SoundStep, PTL DEF Spec, RefundFair

-----------------------------------------------------------------------------
(* The overlay.                                                            *)

\* OverlayCoherent for an overlay and a history, and the fact that an account
\* not cached has no slots, which it needs to survive fetch_account.
Coherent(accts, writes) ==
    /\ Cached(accts) \subseteq {Self}
    /\ \A k \in Key :
         LET slot == accts[Self].storage[k]
         IN  /\ Self \notin Cached(accts) => slot.status = "none"
             /\ slot.status = "dirty" <=> writes[k] # Absent
             /\ slot.status = "dirty" => slot.val = writes[k]
             /\ slot.status = "clean" => slot.val = Former(k)

\* Until update_state begins, the chain is the one the transaction found.
OverlayInv ==
    Busy => /\ Coherent(accounts, written)
            /\ pc # "flush" => provider = base

\* Fetching keeps an overlay coherent.
LEMMA FetchAccountCoherent ==
    ASSUME Self \in Address, NEW accts \in Overlay, NEW writes,
           Coherent(accts, writes),
           NEW fetched \in FetchAccount(provider, accts, Self)
    PROVE  Coherent(fetched, writes) /\ Self \in Cached(fetched)
<1>1. CASE Self \in Cached(accts)
  BY <1>1 DEF FetchAccount
<1>2. CASE Self \notin Cached(accts)
  <2>1. PICK info \in FetchedInfo(provider, Self) :
          fetched = [accts EXCEPT ![Self] = info]
    BY <1>2 DEF FetchAccount
  <2>2. info.status = "clean" /\ \A k \in Key : info.storage[k] = NoSlot
    BY <2>1 DEF FetchedInfo, NewInfo
  <2>3. fetched[Self] = info
    BY <2>1 DEF Overlay
  <2>4. Cached(fetched) = {Self}
    BY <1>2, <2>1, <2>2, <2>3 DEF Cached, Coherent, Overlay
  <2> QED
    BY <1>2, <2>2, <2>3, <2>4 DEF Coherent, NoSlot
<1> QED
  BY <1>1, <1>2

\* fetch_storage (state.rs:156) fills a slot only with what the chain holds under
\* its key, so a coherent overlay stays coherent.
LEMMA FetchStorageCoherent ==
    ASSUME Self \in Address, provider = base, provider \in Chain,
           NEW accts \in Overlay, NEW writes, Coherent(accts, writes),
           NEW key \in Key,
           NEW fetched \in FetchStorage(provider, accts, Self, key)
    PROVE  Coherent(fetched, writes) /\ Self \in Cached(fetched)
<1>1. PICK accts1 \in FetchAccount(provider, accts, Self) :
        fetched \in FetchSlot(provider, accts1, Self, key)
  BY DEF FetchStorage
<1>2. Coherent(accts1, writes) /\ Self \in Cached(accts1)
  BY <1>1, FetchAccountCoherent
<1>3. accts1 \in Overlay
  BY FetchAccountType
<1>4. CASE accts1[Self].storage[key].status # "none"
  BY <1>1, <1>2, <1>4 DEF FetchSlot
<1>5. CASE accts1[Self].storage[key].status = "none"
  <2>1. PICK slot \in FetchedSlot(provider, Self, key) :
          fetched = [accts1 EXCEPT ![Self].storage[key] = slot]
    BY <1>1, <1>5 DEF FetchSlot
  <2>2. slot.status # "dirty" /\ (slot.status = "clean" => slot.val = Former(key))
    BY <2>1 DEF FetchedSlot, StorageOk, Former, NoSlot
  <2>3. /\ Cached(fetched) = Cached(accts1)
        /\ fetched[Self].storage[key] = slot
        /\ \A k \in Key \ {key} :
              fetched[Self].storage[k] = accts1[Self].storage[k]
    BY <2>1, <1>3 DEF Cached, Overlay, AccountInfo
  <2> QED
    BY <1>2, <1>5, <2>2, <2>3 DEF Coherent
<1> QED
  BY <1>4, <1>5

\* Writing keeps it coherent with the history that has the write.
LEMMA SetStorageCoherent ==
    ASSUME Self \in Address, NEW accts \in Overlay,
           NEW writes \in [Key -> Value \cup {Absent}],
           Coherent(accts, writes), Self \in Cached(accts),
           NEW key \in Key, NEW v \in Value
    PROVE  Coherent(SetStorage(accts, Self, key, v), [writes EXCEPT ![key] = v])
<1> DEFINE after == SetStorage(accts, Self, key, v)
<1>1. /\ Cached(after) = Cached(accts)
      /\ after[Self].storage[key] = [val |-> v, status |-> "dirty"]
      /\ \A k \in Key \ {key} : after[Self].storage[k] = accts[Self].storage[k]
  BY DEF SetStorage, Cached, Overlay, AccountInfo
<1>2. v # Absent
  BY ProviderAssumption
<1> HIDE DEF after
<1>3. Coherent(after, [writes EXCEPT ![key] = v])
  BY <1>1, <1>2 DEF Coherent
<1> QED
  BY <1>3 DEF after

\* The history, the base and the parameters decide coherence.
LEMMA CoherentFrame ==
    ASSUME UNCHANGED <<params, base>>, Coherent(accounts', written')
    PROVE  Coherent(accounts, written)'
BY DEF Coherent, Former, Self

\* No step of execute, host function or write of update_state makes the overlay
\* incoherent.
LEMMA OverlayStepInv ==
    ASSUME Sound, OverlayInv, [Next]_vars
    PROVE  OverlayInv'
<1>t. /\ Self \in Address
      /\ provider \in Chain
      /\ accounts \in Overlay
      /\ written \in [Key -> Value \cup {Absent}]
  BY ParamsType DEF Sound, TypeOK
<1>1. CASE Submit
  <2>r. ASSUME NEW status, Refuse(status), pc = "idle" PROVE OverlayInv'
    BY <2>r DEF Refuse, runtimeVars, OverlayInv, Busy
  <2>1. ASSUME NEW tx \in Transaction, NEW d \in Memories, Start(tx, d)
        PROVE  OverlayInv'
    <3>1. CASE Refuse("err")
      BY <2>1, <3>1, <2>r DEF Start
    <3>2. CASE ~Refuse("err")
      <4>1. /\ accounts' = NewState /\ written' = NoWrites
            /\ provider' = provider /\ base' = provider
        BY <2>1, <3>2 DEF Start
      <4>2. (Self \in Address)'
        BY <1>1, SubmitType, ParamsType, PTL DEF Sound
      <4>3. Coherent(accounts, written)'
        BY <4>1, <4>2
        DEF Coherent, NewState, NotCached, NewInfo, NoSlot, Cached, NoWrites
      <4> QED
        BY <4>1, <4>3 DEF OverlayInv
    <3> QED
      BY <3>1, <3>2
  <2> QED
    BY <1>1, <2>1, <2>r
    DEF Submit, RefuseUnknown, RefuseCode, RefuseGas, RefuseMemory
<1>2. CASE Run
  <2>1. RunStep
    BY <1>2, RunFrame
  <2>2. /\ provider = base /\ UNCHANGED <<provider, base, params>>
        /\ Coherent(accounts, written)
    BY <2>1 DEF RunStep, OverlayInv, Busy, Running
  <2>3. CASE UNCHANGED <<accounts, written>>
    BY <2>2, <2>3, CoherentFrame DEF OverlayInv
  <2>4. CASE /\ accounts' \in FetchAccount(provider, accounts, Self)
             /\ UNCHANGED written
    BY <1>t, <2>2, <2>4, FetchAccountCoherent, CoherentFrame DEF OverlayInv
  <2>5. ASSUME NEW k \in Key,
               accounts' \in FetchStorage(provider, accounts, Self, k),
               UNCHANGED written
        PROVE  OverlayInv'
    BY <1>t, <2>2, <2>5, FetchStorageCoherent, CoherentFrame DEF OverlayInv
  <2>6. ASSUME NEW k \in Key, NEW v \in Value,
               NEW fetched \in FetchStorage(provider, accounts, Self, k),
               accounts' = SetStorage(fetched, Self, k, v),
               written' = [written EXCEPT ![k] = v]
        PROVE  OverlayInv'
    <3>1. fetched \in Overlay
      BY <1>t, FetchStorageType
    <3>2. Coherent(fetched, written) /\ Self \in Cached(fetched)
      BY <1>t, <2>2, FetchStorageCoherent
    <3>3. Coherent(accounts', written')
      BY <1>t, <2>6, <3>1, <3>2, SetStorageCoherent
    <3> QED
      BY <2>2, <3>3, CoherentFrame DEF OverlayInv
  <2> QED
    BY <2>1, <2>3, <2>4, <2>5, <2>6 DEF RunStep, OverlayStep
<1>3. CASE Finish
  <2>1. ASSUME NEW reply, Answer(reply) PROVE OverlayInv'
    BY <2>1 DEF Answer, OverlayInv, Busy
  <2>2. CASE BeginUpdate
    <3>1. UNCHANGED <<params, base, written>> /\ pc' = "flush"
      BY <2>2 DEF BeginUpdate
    <3>2. Coherent(accounts, written)
      BY <2>2 DEF OverlayInv, Busy, BeginUpdate, Completed
    <3>3. Coherent(accounts', written)
      <4>1. CASE accounts' = accounts
        BY <3>2, <4>1
      <4>2. ASSUME NEW fetched \in FetchAccount(provider, accounts, Self),
                   accounts' = [fetched EXCEPT ![Self].code = result,
                                               ![Self].status = "dirty"]
            PROVE  Coherent(accounts', written)
        <5>1. Coherent(fetched, written) /\ Self \in Cached(fetched)
          BY <1>t, <3>2, FetchAccountCoherent
        <5>2. fetched \in Overlay
          BY <1>t, FetchAccountType
        <5>3. /\ Cached(accounts') = Cached(fetched)
              /\ accounts'[Self].storage = fetched[Self].storage
          BY <1>t, <4>2, <5>1, <5>2 DEF Cached, Overlay, AccountInfo
        <5> QED
          BY <5>1, <5>3 DEF Coherent
      <4> QED
        BY <2>2, <4>1, <4>2 DEF BeginUpdate, InitCode
    <3> QED
      BY <3>1, <3>3, CoherentFrame DEF OverlayInv
  <2>3. ASSUME UNCHANGED UpdateVars, pc = "flush" PROVE OverlayInv'
    BY <2>3, CoherentFrame DEF UpdateVars, OverlayInv, Busy
  <2> QED
    BY <1>3, <2>1, <2>2, <2>3
    DEF Finish, AnswerFailure, AnswerEmpty, FlushAccount, FlushSlot,
        AnswerUpdated
<1>4. CASE UNCHANGED vars
  BY <1>4, CoherentFrame DEF vars, runtimeVars, OverlayInv, Busy
<1> QED
  BY <1>1, <1>2, <1>3, <1>4 DEF Next

\* The overlay invariant holds throughout execute (execute.rs:24-166).
LEMMA OverlayInvariant == Spec => [](Sound /\ OverlayInv)
<1>1. Init => OverlayInv
  BY DEF Init, OverlayInv, Busy
<1> QED
  BY <1>1, SoundInit, SoundStep, OverlayStepInv, PTL DEF Spec

\* The overlay holds exactly what the contract wrote, and nothing the chain does
\* not hold, at every point of every execution.
THEOREM OverlayIsCoherent == Spec => []OverlayCoherent
<1>1. OverlayInv => OverlayCoherent
  BY DEF OverlayInv, Coherent, OverlayCoherent
<1> QED
  BY <1>1, OverlayInvariant, PTL

\* Whatever was read and written before, a read finds the last write, else the
\* chain's value, else zero; over RPC a key not written may also read as zero.
THEOREM ReadsAreRight == Spec => []ReadsSeeOwnWrites
<1>1. Sound /\ OverlayInv => ReadsSeeOwnWrites
  <2> SUFFICES ASSUME Sound, OverlayInv, Running, NEW k \in Key,
                      NEW fetched \in FetchStorage(provider, accounts, Self, k)
      PROVE  LET read == SlotValue(fetched, Self, k)
             IN  \/ read = IF Latest(k) = Absent THEN Zero ELSE Latest(k)
                 \/ Remote /\ written[k] = Absent /\ read = Zero
    BY DEF ReadsSeeOwnWrites
  <2>1. /\ Self \in Address
        /\ provider \in Chain
        /\ accounts \in Overlay
        /\ written \in [Key -> Value \cup {Absent}]
    BY ParamsType DEF Sound, TypeOK
  <2>2. provider = base /\ Coherent(accounts, written)
    BY DEF OverlayInv, Busy, Running
  <2>3. Coherent(fetched, written)
    BY <2>1, <2>2, FetchStorageCoherent
  <2>4. fetched \in Overlay
    BY <2>1, FetchStorageType
  <2>5. fetched[Self].storage[k].status \in Status
    BY <2>1, <2>4 DEF Overlay, AccountInfo, Slot
  <2>6. CASE fetched[Self].storage[k].status = "dirty"
    BY <2>3, <2>6 DEF Coherent, SlotValue, Latest
  <2>7. CASE fetched[Self].storage[k].status = "clean"
    <3>1. written[k] = Absent
      BY <2>3, <2>7 DEF Coherent
    <3>2. SlotValue(fetched, Self, k) = Former(k)
      BY <2>3, <2>7 DEF Coherent, SlotValue
    <3>3. SlotValue(fetched, Self, k) \in Value
      BY <2>1, <2>4, <2>7 DEF SlotValue, Overlay, AccountInfo, Slot
    <3> QED
      BY <3>1, <3>2, <3>3, ProviderAssumption DEF Latest
  <2>8. CASE fetched[Self].storage[k].status = "none"
    <3>1. written[k] = Absent /\ SlotValue(fetched, Self, k) = Zero
      BY <2>3, <2>8 DEF Coherent, SlotValue
    <3>2. StorageErr(provider, Self, k)
      <4>1. PICK accts1 \in FetchAccount(provider, accounts, Self) :
              fetched \in FetchSlot(provider, accts1, Self, k)
        BY DEF FetchStorage
      <4>2. accts1 \in Overlay
        BY <2>1, <4>1, FetchAccountType
      <4>3. accts1[Self].storage[k].status = "none"
        BY <4>1, <2>8 DEF FetchSlot
      <4>4. PICK slot \in FetchedSlot(provider, Self, k) :
              fetched = [accts1 EXCEPT ![Self].storage[k] = slot]
        BY <4>1, <4>3 DEF FetchSlot
      <4>5. slot.status = "none"
        BY <2>1, <2>8, <4>2, <4>4 DEF Overlay, AccountInfo
      <4> QED
        BY <4>4, <4>5 DEF FetchedSlot
    <3>3. Remote \/ Former(k) = Absent
      BY <2>2, <3>2 DEF StorageErr, StorageOk, Former
    <3> QED
      BY <3>1, <3>3 DEF Latest
  <2> QED
    BY <2>5, <2>6, <2>7, <2>8 DEF Status
<1> QED
  BY <1>1, OverlayInvariant, PTL

-----------------------------------------------------------------------------
(* Failed transactions.                                                    *)

\* A result comes only with a return, so neither a trap nor a failure is ever
\* followed by an update.
ControlInv ==
    /\ Running => result = Empty
    /\ pc = "exited" /\ result # Empty => exit \in {"start", "return"}
    /\ pc = "flush" => exit = "return"

\* No step of execute makes it reach update_state (execute.rs:156) by another way
\* than a run that ended with a result.
LEMMA ControlStepInv ==
    ASSUME Sound, ControlInv, [Next]_vars
    PROVE  ControlInv'
<1>1. CASE Submit
  BY <1>1
  DEF Submit, RefuseUnknown, RefuseCode, RefuseGas, RefuseMemory, Start,
      Refuse, runtimeVars, ControlInv, Running
<1>2. CASE Run
  BY <1>2, RunFrame DEF RunStep, ControlStep, ControlInv, Running
<1>3. CASE Finish
  <2>1. ASSUME NEW reply, Answer(reply) PROVE ControlInv'
    BY <2>1 DEF Answer, ControlInv, Running
  <2>2. CASE BeginUpdate
    BY <2>2
    DEF BeginUpdate, Completed, FailedExits, AbortedExits, ControlInv, Running
  <2>3. ASSUME UNCHANGED UpdateVars PROVE ControlInv'
    BY <2>3 DEF UpdateVars, ControlInv, Running
  <2> QED
    BY <1>3, <2>1, <2>2, <2>3
    DEF Finish, AnswerFailure, AnswerEmpty, FlushAccount, FlushSlot,
        AnswerUpdated
<1>4. CASE UNCHANGED vars
  BY <1>4 DEF vars, runtimeVars, ControlInv, Running
<1> QED
  BY <1>1, <1>2, <1>3, <1>4 DEF Next

\* A provider in the same process (provider.rs) never fails a write.
LEMMA LocalReplies ==
    ASSUME ~Remote, NEW accts, NEW a
    PROVE  /\ \A r \in WriteAccount(provider, accts, a) : r.ok
           /\ \A k : \A r \in WriteSlot(provider, accts, a, k) : r.ok
<1>1. \A p, q : \A r \in Reply(p, q) : r.ok
  BY DEF Reply
<1> QED
  BY <1>1
  DEF WriteAccount, WriteSlot, CreateContract, UpdateAccount, WriteStorage

\* With a provider in the same process, a transaction that fails, panics or traps
\* leaves the chain as it found it.
THEOREM FailuresAreAtomic == ASSUME ~Remote PROVE Spec => FailureAtomic
<1> DEFINE Atomic == \/ Answers("err") \/ Answers("panic")
                     \/ Answers("ok") /\ exit \in {"wasm", "no_export"}
                     => provider' = base
<1>1. Init => ControlInv
  BY DEF Init, ControlInv, Running
<1>2. Sound /\ OverlayInv /\ ControlInv /\ [Next]_vars => [Atomic]_vars
  <2> SUFFICES ASSUME Sound, OverlayInv, ControlInv, Next,
                      \/ Answers("err") \/ Answers("panic")
                      \/ Answers("ok") /\ exit \in {"wasm", "no_export"}
      PROVE  provider' = base
    OBVIOUS
  <2>1. Busy /\ pc' = "idle"
    BY DEF Answers
  <2>2. CASE pc # "flush"
    <3>1. provider = base
      BY <2>1, <2>2 DEF OverlayInv
    <3>2. AnswerFailure \/ AnswerEmpty
      <4>1. ~Submit
        BY <2>1
        DEF Busy, Submit, RefuseUnknown, RefuseCode, RefuseGas, RefuseMemory,
            Start
      <4>2. ~Run
        BY <2>1, RunFrame DEF RunStep, ControlStep
      <4> QED
        BY <2>1, <2>2, <4>1, <4>2
        DEF Next, Finish, BeginUpdate, FlushAccount, FlushSlot, AnswerUpdated
    <3> QED
      BY <3>1, <3>2 DEF AnswerFailure, AnswerEmpty
  <2>3. CASE pc = "flush"
    <3>1. exit = "return"
      BY <2>3 DEF ControlInv
    <3>2. ~Answers("ok")
      BY <3>1 DEF Answers
    <3>3. ~AnswerUpdated
      BY <3>2, <2>1 DEF AnswerUpdated, Answer, Success, Answers
    <3>4. \A a \in Address : ~FlushAccount(a)
      BY <2>1, LocalReplies DEF FlushAccount, UpdateVars, Busy
    <3>5. \A a \in Address, k \in Key : ~FlushSlot(a, k)
      BY <2>1, LocalReplies DEF FlushSlot, UpdateVars, Busy
    <3>6. ~Submit /\ ~Run
      BY <2>3, RunFrame
      DEF Submit, RefuseUnknown, RefuseCode, RefuseGas, RefuseMemory, Start,
          RunStep, Running
    <3> QED
      BY <2>3, <3>3, <3>4, <3>5, <3>6
      DEF Next, Finish, AnswerFailure, AnswerEmpty, BeginUpdate, Completed
  <2> QED
    BY <2>2, <2>3
<1> QED
  BY <1>1, <1>2, OverlayInvariant, ControlStepInv, PTL DEF Spec, FailureAtomic
=============================================================================
