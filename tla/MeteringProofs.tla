---------------------------- MODULE MeteringProofs ----------------------------
(***************************************************************************)
(* Theorems about what gas bounds: the memory of a contract and its steps. *)
(***************************************************************************)
EXTENDS ExecuteProofs

-----------------------------------------------------------------------------
(* What a step may do to memory and gas.                                   *)

\* Nothing but growth changes the memory, and no step hands gas back.
MemoryStep ==
    \/ UNCHANGED memory /\ gas_counter' >= gas_counter
    \/ \E n \in GrowArgs : /\ memory' = Grow(memory, n)
                           /\ gas_counter' = gas_counter + GrowCost(n)

\* Every host function, trap and return of a contract is such a step.
LEMMA MemoryFrame == TypeOK /\ Run => MemoryStep
<1> SUFFICES ASSUME TypeOK, Run PROVE MemoryStep
  OBVIOUS
<1>g. gas_counter \in Nat
  BY DEF TypeOK
<1>c. ASSUME NEW n \in Nat, Charge(n), UNCHANGED memory PROVE MemoryStep
  BY <1>c, <1>g DEF Charge, MemoryStep
<1>s. ASSUME UNCHANGED <<memory, gas_counter>> PROVE MemoryStep
  BY <1>s, <1>g DEF MemoryStep
<1>x. ASSUME NEW kind, Exit(kind) PROVE MemoryStep
  BY <1>x, <1>s DEF Exit
<1>t. ASSUME NEW kind, Trap(kind) \/ Abort(kind) PROVE MemoryStep
  BY <1>t, <1>x DEF Trap, Abort
<1>q. ASSUME NEW n \in Nat, Query(n) PROVE MemoryStep
  BY <1>q, <1>t, <1>c DEF Query, Continue
<1>1. ASSUME NEW n \in BlockCosts, EnterBlock(n) PROVE MemoryStep
  BY <1>1, <1>t, <1>c, RuntimeAssumption DEF EnterBlock
<1>2. ASSUME NEW n \in GrowArgs, GrowMemory(n) PROVE MemoryStep
  BY <1>2, <1>t DEF GrowMemory, Charge, MemoryStep
<1>3. ASSUME NEW k \in Key, storage_read(k) PROVE MemoryStep
  BY <1>3, <1>t, <1>c, CostType DEF storage_read, Continue, CostNames
<1>4. ASSUME NEW k \in Key, NEW v \in Value, storage_write(k, v)
      PROVE  MemoryStep
  <2>1. ASSUME NEW former PROVE StoreCost(former, v) \in Nat
    BY CostType DEF StoreCost, CostNames
  <2> QED
    BY <1>4, <2>1, <1>t, <1>c DEF storage_write, Continue
<1>5. ASSUME NEW data \in Bytes, ret(data) PROVE MemoryStep
  BY <1>5, <1>t, <1>x DEF ret
<1>6. ASSUME NEW topics \in 0 .. 5, elog(topics) PROVE MemoryStep
  <2>1. Adjusted(LogPrice(topics)) \in Nat
    BY CostType, AdjustedType DEF LogPrice, CostNames
  <2> QED
    BY <1>6, <2>1, <1>t, <1>c DEF elog, Continue
<1>7. CASE debug \/ panic \/ create \/ suicide \/ difficulty
  BY <1>7, <1>t, <1>s DEF debug, panic, create, suicide, difficulty, Continue
<1>8. ASSUME NEW n \in GasArgs, gas(n) PROVE MemoryStep
  BY <1>8, <1>t, <1>c, RuntimeAssumption DEF gas, Continue
<1>9. ASSUME NEW g \in GasArgs, NEW v \in CallValues, ccall(g, v)
      PROVE  MemoryStep
  BY <1>9, <1>t, <1>c, <1>s, CostType DEF ccall, Continue, CostNames
<1>10. CASE Undispatched
  BY <1>10, <1>t DEF Undispatched
<1>11. CASE fetch_input
  <2>1. params.args_len \in Nat /\ Schedule["memcpy"] \in Nat
    BY ParamsType, CostType DEF CostNames
  <2>2. params.args_len * Schedule["memcpy"] \in Nat
    BY <2>1
  <2> QED
    BY <1>11, <2>2, <1>q DEF fetch_input
<1>12. CASE PartyQuery \/ AmountQuery
  BY <1>12, <1>q, CostType
  DEF PartyQuery, AmountQuery, return_address_ptr, return_u256_ptr, CostNames
<1>13. CASE FreeQuery
  BY <1>13, <1>s DEF FreeQuery, Continue
<1>14. CASE block_hash \/ block_author
  BY <1>14, <1>q, <1>t, CostType
  DEF block_hash, block_author, return_address_ptr, CostNames
<1>15. CASE WasmTrap
  BY <1>15, <1>t DEF WasmTrap
<1>16. CASE StartReturns
  BY <1>16, <1>s DEF StartReturns
<1>17. CASE CallReturns \/ NoExport
  BY <1>17, <1>x DEF CallReturns, NoExport
<1> QED
  BY <1>1, <1>2, <1>3, <1>4, <1>5, <1>6, <1>7, <1>8, <1>9, <1>10, <1>11,
     <1>12, <1>13, <1>14, <1>15, <1>16, <1>17
  DEF Run, RuntimeNext

-----------------------------------------------------------------------------
(* The price of memory.                                                    *)

\* Products of natural numbers keep their order.
LEMMA TimesMonotone ==
    \A a, b, c \in Nat : a <= b => a * c <= b * c /\ a * c \in Nat
OBVIOUS

\* And distribute over sums.
LEMMA TimesPlus == \A a, b, c \in Nat : (a + b) * c = a * c + b * c
OBVIOUS

\* A number of 32 bits is what it is modulo 2^32.
LEMMA ModuloWidth == \A x, u \in Nat : x <= u => x % (u + 1) = x
OBVIOUS

\* Growth that a memory within the limit can have is charged in full: its price
\* is below 2^32.
LEMMA GrowCostExact ==
    ASSUME NEW n \in Nat, n <= MaxMemory
    PROVE  GrowCost(n) = n * Schedule["grow_mem"]
<1> DEFINE price == Schedule["grow_mem"]
<1>1. price \in Nat /\ MaxMemory \in Nat /\ U32Max \in Nat
  BY CostType, EnvAssumption, RuntimeAssumption DEF CostNames
<1>2. n * price <= MaxMemory * price /\ n * price \in Nat
  BY <1>1, TimesMonotone
<1>3. MaxMemory * price <= U32Max
  BY RuntimeAssumption
<1>4. MaxMemory * price \in Nat
  BY <1>1, TimesMonotone
<1>5. n * price <= U32Max
  BY <1>1, <1>2, <1>3, <1>4
<1> QED
  BY <1>1, <1>2, <1>5, ModuloWidth DEF GrowCost

\* A memory with a maximum within the limit, grown no further than that.
Bounded(m) ==
    /\ m.maximum \in Nat
    /\ m.initial <= m.size
    /\ m.size <= m.maximum
    /\ m.maximum <= MaxMemory

\* What its pages cost.
Price(m) == m.initial * Schedule["initial_mem"]
            + (m.size - m.initial) * Schedule["grow_mem"]

MemoryInv ==
    /\ Bounded(memory)
    /\ Busy => gas_counter >= Price(memory)

\* The memory a module may import (resolve_memory, env.rs:203) is bounded, and so
\* is the empty one.
LEMMA ResolvedBounded ==
    /\ Bounded(NoMemory)
    /\ \A d \in Memories : ResolvesMemory(d) =>
         Bounded(Memory(d)) /\ Price(Memory(d)) = d.initial * Schedule["initial_mem"]
<1>1. MaxMemory \in Nat
  BY EnvAssumption
<1>2. Bounded(NoMemory)
  BY <1>1 DEF Bounded, NoMemory, Memory
<1>3. ASSUME NEW d \in Memories, ResolvesMemory(d)
      PROVE  /\ Bounded(Memory(d))
             /\ Price(Memory(d)) = d.initial * Schedule["initial_mem"]
  <2>1. d.initial \in Nat /\ d.maximum \in Nat /\ d.maximum <= MaxMemory
    BY <1>1, <1>3, MemoryType DEF ResolvesMemory, EffectiveMax
  <2>2. d.initial <= d.maximum
    BY <2>1, EnvAssumption
  <2>3. Bounded(Memory(d))
    BY <2>1, <2>2 DEF Bounded, Memory
  <2>4. /\ Schedule["initial_mem"] \in Nat /\ Schedule["grow_mem"] \in Nat
        /\ d.initial * Schedule["initial_mem"] \in Nat
    BY <2>1, CostType, TimesMonotone DEF CostNames
  <2>5. Price(Memory(d)) = d.initial * Schedule["initial_mem"]
    BY <2>1, <2>4 DEF Price, Memory
  <2> QED
    BY <2>3, <2>5
<1> QED
  BY <1>2, <1>3

\* Growing a bounded memory leaves a bounded one, which costs at most the charge
\* more.
LEMMA GrowBounded ==
    ASSUME NEW m \in MemoryState, Bounded(m), NEW n \in Nat
    PROVE  /\ Bounded(Grow(m, n))
           /\ Price(Grow(m, n)) <= Price(m) + GrowCost(n)
<1> DEFINE price == Schedule["grow_mem"]
<1>1. /\ m.initial \in Nat /\ m.size \in Nat /\ m.maximum \in Nat
      /\ MaxMemory \in Nat
      /\ price \in Nat /\ Schedule["initial_mem"] \in Nat
      /\ GrowCost(n) \in Nat
  BY EnvAssumption, CostType, GrowCostType DEF MemoryState, Bounded, CostNames
<1>2. Price(m) \in Nat
  <2>1. m.size - m.initial \in Nat
    BY <1>1 DEF Bounded
  <2>2. /\ m.initial * Schedule["initial_mem"] \in Nat
        /\ (m.size - m.initial) * price \in Nat
    BY <1>1, <2>1, TimesMonotone
  <2> QED
    BY <2>2 DEF Price
<1>3. CASE m.size + n <= m.maximum
  <2>1. /\ Grow(m, n).initial = m.initial
        /\ Grow(m, n).maximum = m.maximum
        /\ Grow(m, n).size = m.size + n
    BY <1>3 DEF Grow, MemoryState
  <2>2. n <= MaxMemory
    BY <1>1, <1>3 DEF Bounded
  <2>3. GrowCost(n) = n * price
    BY <2>2, GrowCostExact
  <2>4. m.size - m.initial \in Nat
    BY <1>1 DEF Bounded
  <2>5. (m.size + n) - m.initial = (m.size - m.initial) + n
    BY <1>1
  <2>6. ((m.size + n) - m.initial) * price
          = (m.size - m.initial) * price + n * price
    BY <1>1, <2>4, <2>5, TimesPlus
  <2>7. /\ m.initial * Schedule["initial_mem"] \in Nat
        /\ (m.size - m.initial) * price \in Nat
        /\ n * price \in Nat
    BY <1>1, <2>4, TimesMonotone
  <2>8. Price(Grow(m, n)) = Price(m) + GrowCost(n)
    BY <2>1, <2>3, <2>6, <2>7 DEF Price
  <2>9. Bounded(Grow(m, n))
    BY <1>1, <1>3, <2>1 DEF Bounded
  <2> QED
    BY <1>1, <1>2, <2>8, <2>9
<1>4. CASE ~(m.size + n <= m.maximum)
  <2>1. m.maximum # NoMaximum
    BY <1>1, EnvAssumption
  <2>2. Grow(m, n) = m
    BY <1>4, <2>1 DEF Grow
  <2> QED
    BY <1>1, <1>2, <2>2
<1> QED
  BY <1>3, <1>4

-----------------------------------------------------------------------------
(* The memory of every execution.                                          *)

\* Loading, running and answering keep the memory bounded and paid for.
LEMMA MemoryStepInv ==
    ASSUME Sound, MemoryInv, [Next]_vars
    PROVE  MemoryInv'
<1>t. memory \in MemoryState /\ gas_counter \in Nat
  BY DEF Sound, TypeOK
<1>1. CASE Submit
  <2>r. ASSUME NEW status, Refuse(status) PROVE MemoryInv'
    BY <2>r DEF Refuse, runtimeVars, MemoryInv, Bounded, Price, Busy
  <2>1. ASSUME NEW tx \in Transaction, NEW d \in Memories, Start(tx, d)
        PROVE  MemoryInv'
    <3>1. CASE Refuse("err")
      BY <3>1, <2>r
    <3>2. CASE ~Refuse("err")
      <4>1. /\ memory' = Memory(d)
            /\ gas_counter' = d.initial * Schedule["initial_mem"]
        BY <2>1, <3>2 DEF Start
      <4>2. /\ Bounded(Memory(d))
            /\ Price(Memory(d)) = d.initial * Schedule["initial_mem"]
        BY <2>1, ResolvedBounded DEF Start
      <4>3. d.initial * Schedule["initial_mem"] \in Nat
        BY MemoryType, CostType, TimesMonotone DEF CostNames
      <4>4. Bounded(memory')
        BY <4>1, <4>2
      <4>5. gas_counter' >= Price(memory')
        BY <4>1, <4>2, <4>3
      <4> QED
        BY <4>4, <4>5 DEF MemoryInv, Bounded, Price
    <3> QED
      BY <3>1, <3>2
  <2> QED
    BY <1>1, <2>1, <2>r
    DEF Submit, RefuseUnknown, RefuseCode, RefuseGas, RefuseMemory
<1>2. CASE Run
  <2>1. Busy /\ MemoryStep
    BY <1>2, RunFrame, MemoryFrame DEF RunStep, Running, Busy, Sound
  <2>2. Bounded(memory) /\ gas_counter >= Price(memory)
    BY <2>1 DEF MemoryInv
  <2>3. Price(memory) \in Int
    BY <1>t, <2>2, CostType, TimesMonotone
    DEF Price, Bounded, MemoryState, CostNames
  <2>4. CASE UNCHANGED memory /\ gas_counter' >= gas_counter
    <3>1. Sound'
      BY <1>2, SoundStep DEF Next
    <3>2. gas_counter' \in Nat
      BY <3>1 DEF Sound, TypeOK
    <3>3. gas_counter' >= Price(memory)
      BY <1>t, <2>2, <2>3, <2>4, <3>2
    <3> QED
      BY <2>2, <2>4, <3>3 DEF MemoryInv, Bounded, Price
  <2>5. ASSUME NEW n \in GrowArgs,
               memory' = Grow(memory, n),
               gas_counter' = gas_counter + GrowCost(n)
        PROVE  MemoryInv'
    <3>1. n \in Nat /\ GrowCost(n) \in Nat
      BY RuntimeAssumption, GrowCostType
    <3>2. /\ Bounded(memory')
          /\ Price(memory') <= Price(memory) + GrowCost(n)
      BY <1>t, <2>2, <2>5, <3>1, GrowBounded
    <3>3. memory' \in MemoryState
      BY <1>t, <2>5, <3>1, GrowType
    <3>4. Price(memory') \in Int
      BY <3>2, <3>3, CostType, TimesMonotone
      DEF Price, Bounded, MemoryState, CostNames
    <3>5. gas_counter' >= Price(memory')
      BY <1>t, <2>2, <2>3, <2>5, <3>1, <3>2, <3>4
    <3> QED
      BY <3>2, <3>5 DEF MemoryInv, Bounded, Price
  <2> QED
    BY <2>1, <2>4, <2>5 DEF MemoryStep
<1>3. CASE Finish
  <2>1. ASSUME NEW reply, Answer(reply) PROVE MemoryInv'
    BY <2>1, ResolvedBounded DEF Answer, MemoryInv, Bounded, Price, Busy
  <2>2. ASSUME UNCHANGED <<memory, gas_counter>>, Busy PROVE MemoryInv'
    BY <2>2 DEF MemoryInv, Bounded, Price, Busy
  <2> QED
    BY <1>3, <2>1, <2>2
    DEF Finish, AnswerFailure, AnswerEmpty, BeginUpdate, FlushAccount,
        FlushSlot, AnswerUpdated, UpdateVars, Completed, Busy
<1>4. CASE UNCHANGED vars
  BY <1>4 DEF vars, runtimeVars, MemoryInv, Bounded, Price, Busy
<1> QED
  BY <1>1, <1>2, <1>3, <1>4 DEF Next

\* The memory invariant holds throughout execute (execute.rs:24-166).
LEMMA MemoryInvariant == Spec => [](Sound /\ MemoryInv)
<1>1. Init => MemoryInv
  BY ResolvedBounded DEF Init, MemoryInv, Busy
<1> QED
  BY <1>1, SoundInit, SoundStep, MemoryStepInv, PTL DEF Spec

\* Whatever memories modules declare and however contracts grow them, none is
\* larger than the resolver's limit.
THEOREM MemoryIsBounded == Spec => []MemoryBounded
<1>1. Sound /\ MemoryInv => MemoryBounded
  BY EnvAssumption
  DEF Sound, TypeOK, MemoryState, MemoryInv, Bounded, MemoryBounded
<1> QED
  BY <1>1, MemoryInvariant, PTL

\* And every page of it has been charged, because growing at a price that wraps
\* past 2^32 is growing past the limit.
THEOREM MemoryIsPaid == Spec => []MemoryPaid
<1>1. MemoryInv => MemoryPaid
  BY DEF MemoryInv, Price, MemoryPaid
<1> QED
  BY <1>1, MemoryInvariant, PTL

-----------------------------------------------------------------------------
(* The steps of every execution.                                           *)

\* Ways for a contract to go on: a call instruction of a block, another block, or
\* the return of the start function.
CallStep ==
    /\ UNCHANGED pc
    /\ block > 0 /\ block' = block - 1
    /\ \E n \in Nat : gas_counter' = gas_counter + n

BlockStep ==
    /\ UNCHANGED pc
    /\ \E n \in Nat \ {0} : block' = n /\ gas_counter' = gas_counter + n

StartStep ==
    /\ pc = "start" /\ pc' = "call"
    /\ block' = 0 /\ UNCHANGED gas_counter

FuelStep ==
    \/ pc' = "exited"
    \/ Running' /\ UNCHANGED gas_limit /\ (CallStep \/ BlockStep \/ StartStep)

\* Every host function, trap and return of a contract is such a step.
LEMMA FuelFrame == TypeOK /\ Run => FuelStep
<1> SUFFICES ASSUME TypeOK, Run PROVE FuelStep
  OBVIOUS
<1>g. gas_counter \in Nat
  BY DEF TypeOK
<1>x. ASSUME NEW kind, Exit(kind) PROVE FuelStep
  BY <1>x DEF Exit, FuelStep
<1>t. ASSUME NEW kind, Trap(kind) \/ Abort(kind) PROVE FuelStep
  BY <1>t, <1>x DEF Trap, Abort
<1>c. ASSUME NEW n \in Nat, HostCall, Continue, Charge(n) PROVE FuelStep
  BY <1>c DEF HostCall, Continue, Charge, FuelStep, CallStep, Running
<1>f. ASSUME HostCall, Continue, UNCHANGED gas_counter PROVE FuelStep
  <2>1. gas_counter' = gas_counter + 0
    BY <1>f, <1>g
  <2> QED
    BY <1>f, <2>1 DEF HostCall, Continue, FuelStep, CallStep, Running
<1>q. ASSUME NEW n \in Nat, Query(n) PROVE FuelStep
  BY <1>q, <1>t, <1>c DEF Query
<1>1. ASSUME NEW n \in BlockCosts, EnterBlock(n) PROVE FuelStep
  BY <1>1, <1>t, RuntimeAssumption
  DEF EnterBlock, Charge, FuelStep, BlockStep, Running
<1>2. ASSUME NEW n \in GrowArgs, GrowMemory(n) PROVE FuelStep
  BY <1>2, <1>t, GrowCostType, RuntimeAssumption
  DEF GrowMemory, HostCall, Charge, FuelStep, CallStep, Running
<1>3. ASSUME NEW k \in Key, storage_read(k) PROVE FuelStep
  BY <1>3, <1>t, <1>c, CostType DEF storage_read, CostNames
<1>4. ASSUME NEW k \in Key, NEW v \in Value, storage_write(k, v) PROVE FuelStep
  <2>1. ASSUME NEW former PROVE StoreCost(former, v) \in Nat
    BY CostType DEF StoreCost, CostNames
  <2> QED
    BY <1>4, <2>1, <1>t, <1>c DEF storage_write
<1>5. ASSUME NEW data \in Bytes, ret(data) PROVE FuelStep
  BY <1>5, <1>t, <1>x DEF ret
<1>6. ASSUME NEW topics \in 0 .. 5, elog(topics) PROVE FuelStep
  <2>1. Adjusted(LogPrice(topics)) \in Nat
    BY CostType, AdjustedType DEF LogPrice, CostNames
  <2> QED
    BY <1>6, <2>1, <1>t, <1>c DEF elog
<1>7. CASE debug \/ panic \/ create \/ suicide \/ difficulty
  BY <1>7, <1>t, <1>f DEF debug, panic, create, suicide, difficulty
<1>8. ASSUME NEW n \in GasArgs, gas(n) PROVE FuelStep
  BY <1>8, <1>t, <1>c, RuntimeAssumption DEF gas
<1>9. ASSUME NEW g \in GasArgs, NEW v \in CallValues, ccall(g, v)
      PROVE  FuelStep
  BY <1>9, <1>t, <1>c, <1>f, CostType DEF ccall, CostNames
<1>10. CASE Undispatched
  BY <1>10, <1>t DEF Undispatched
<1>11. CASE fetch_input
  <2>1. params.args_len \in Nat /\ Schedule["memcpy"] \in Nat
    BY ParamsType, CostType DEF CostNames
  <2>2. params.args_len * Schedule["memcpy"] \in Nat
    BY <2>1
  <2> QED
    BY <1>11, <2>2, <1>q DEF fetch_input
<1>12. CASE PartyQuery \/ AmountQuery
  BY <1>12, <1>q, CostType
  DEF PartyQuery, AmountQuery, return_address_ptr, return_u256_ptr, CostNames
<1>13. CASE FreeQuery
  BY <1>13, <1>f DEF FreeQuery
<1>14. CASE block_hash \/ block_author
  BY <1>14, <1>q, <1>t, CostType
  DEF block_hash, block_author, return_address_ptr, CostNames
<1>15. CASE WasmTrap
  BY <1>15, <1>t DEF WasmTrap
<1>16. CASE StartReturns
  BY <1>16 DEF StartReturns, FuelStep, StartStep, Running
<1>17. CASE CallReturns \/ NoExport
  BY <1>17, <1>x DEF CallReturns, NoExport
<1> QED
  BY <1>1, <1>2, <1>3, <1>4, <1>5, <1>6, <1>7, <1>8, <1>9, <1>10, <1>11,
     <1>12, <1>13, <1>14, <1>15, <1>16, <1>17
  DEF Run, RuntimeNext

\* Fuel is a natural number when the counter is within the limit.
LEMMA FuelType ==
    \A limit, counter, left, more \in Nat :
       counter <= limit => 2 * (limit - counter) + left + more \in Nat
OBVIOUS

\* A step that a contract goes on after has used up fuel: a block of n
\* instructions has cost twice what it brings.
LEMMA FuelSpent ==
    ASSUME Sound, Sound', Running, FuelStep, pc' # "exited"
    PROVE  Running' /\ Fuel' \in Nat /\ Fuel' < Fuel
<1>t. /\ gas_counter \in Nat /\ gas_limit \in Nat /\ block \in Nat
      /\ gas_counter' \in Nat /\ gas_limit' \in Nat /\ block' \in Nat
      /\ gas_counter <= gas_limit /\ gas_counter' <= gas_limit'
  BY DEF Sound, TypeOK, GasBounded
<1>1. Running' /\ gas_limit' = gas_limit
  BY DEF FuelStep
<1> DEFINE more == IF pc = "start" THEN 1 ELSE 0
<1>2. more \in Nat /\ more' \in Nat
  OBVIOUS
<1>3. Fuel' \in Nat
  BY <1>t, <1>2, FuelType DEF Fuel
<1>4. CASE CallStep
  <2>1. PICK n \in Nat : gas_counter' = gas_counter + n
    BY <1>4 DEF CallStep
  <2>2. block' = block - 1 /\ more' = more
    BY <1>4 DEF CallStep
  <2> QED
    BY <1>t, <1>1, <1>2, <1>3, <2>1, <2>2 DEF Fuel
<1>5. CASE BlockStep
  <2>1. PICK n \in Nat \ {0} : block' = n /\ gas_counter' = gas_counter + n
    BY <1>5 DEF BlockStep
  <2>2. more' = more
    BY <1>5 DEF BlockStep
  <2> QED
    BY <1>t, <1>1, <1>2, <1>3, <2>1, <2>2 DEF Fuel
<1>6. CASE StartStep
  BY <1>t, <1>1, <1>3, <1>6 DEF StartStep, Fuel
<1> QED
  BY <1>4, <1>5, <1>6 DEF FuelStep

\* Whatever a contract does, and whatever its blocks, calls and the provider cost
\* it, what is left of a transaction shrinks with every step: it cannot run
\* without end on a finite limit, nor update_state on a finite overlay.
THEOREM StepsAreBounded == Spec => StepsAreMetered
<1> DEFINE Metered == Busy =>
             \/ pc' = "idle"
             \/ Running /\ Running' /\ Fuel' \in Nat /\ Fuel' < Fuel
             \/ Running /\ pc' = "exited"
             \/ pc = "exited" /\ pc' = "flush"
             \/ /\ pc = "flush" /\ pc' = "flush"
                /\ \/ todo' \subseteq todo /\ todo' # todo
                   \/ todo' = todo /\ pending' \subseteq pending
                      /\ pending' # pending
<1>1. Sound /\ Sound' /\ [Next]_vars => [Metered]_vars
  <2> SUFFICES ASSUME Sound, Sound', Next, Busy PROVE Metered
    OBVIOUS
  <2>1. ~Submit
    BY DEF Busy, Submit, RefuseUnknown, RefuseCode, RefuseGas, RefuseMemory,
           Start
  <2>2. CASE Run
    <3>1. Running /\ FuelStep
      BY <2>2, RunFrame, FuelFrame DEF RunStep, Sound
    <3> QED
      BY <3>1, FuelSpent
  <2>3. CASE Finish
    <3>1. ASSUME NEW reply, Answer(reply) PROVE Metered
      BY <3>1 DEF Answer
    <3>2. CASE BeginUpdate
      BY <3>2 DEF BeginUpdate, Completed
    <3>3. ASSUME NEW a \in Address, FlushAccount(a) PROVE Metered
      <4>1. CASE \E reply : Answer(reply)
        BY <3>1, <4>1
      <4>2. CASE todo' = todo \ {a} /\ UNCHANGED UpdateVars
        <5>1. pc = "flush" /\ pc' = "flush" /\ a \in todo
          BY <3>3, <4>2 DEF FlushAccount, UpdateVars
        <5>2. todo' \subseteq todo /\ todo' # todo
          BY <4>2, <5>1
        <5> QED
          BY <5>1, <5>2
      <4> QED
        BY <3>3, <4>1, <4>2 DEF FlushAccount
    <3>4. ASSUME NEW a \in Address, NEW k \in Key, FlushSlot(a, k)
          PROVE  Metered
      <4>1. CASE \E reply : Answer(reply)
        BY <3>1, <4>1
      <4>2. CASE /\ pending' = pending \ {<<a, k>>}
                 /\ UNCHANGED <<UpdateVars, todo>>
        <5>1. pc = "flush" /\ pc' = "flush" /\ <<a, k>> \in pending
          BY <3>4, <4>2 DEF FlushSlot, UpdateVars
        <5>2. /\ todo' = todo
              /\ pending' \subseteq pending /\ pending' # pending
          BY <4>2, <5>1
        <5> QED
          BY <5>1, <5>2
      <4> QED
        BY <3>4, <4>1, <4>2 DEF FlushSlot
    <3> QED
      BY <2>3, <3>1, <3>2, <3>3, <3>4
      DEF Finish, AnswerFailure, AnswerEmpty, AnswerUpdated
  <2> QED
    BY <2>1, <2>2, <2>3 DEF Next
<1> QED
  BY <1>1, SoundInit, SoundStep, PTL DEF Spec, StepsAreMetered
=============================================================================
