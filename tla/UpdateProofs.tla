----------------------------- MODULE UpdateProofs -----------------------------
(***************************************************************************)
(* Theorems about update_state: what Execute writes back to the chain.     *)
(***************************************************************************)
EXTENDS ExecuteProofs

-----------------------------------------------------------------------------
(* Before the update.                                                      *)

\* An account is marked dirty only by init_code, and so only when a contract is
\* created; the account that a call names was there when it came in.
LoadInv ==
    /\ ~Busy => provider = base
    /\ Busy /\ accounts[Self].status = "dirty" =>
         pc = "flush" /\ params.action = "create"
    /\ Busy /\ params.action # "create" => base[Self].exist

\* Fetching an account does not mark it.
LEMMA FetchAccountClean ==
    ASSUME NEW accts \in Overlay, NEW a \in Address,
           accts[a].status # "dirty",
           NEW fetched \in FetchAccount(provider, accts, a)
    PROVE  fetched[a].status # "dirty"
<1>1. CASE fetched = accts
  BY <1>1
<1>2. CASE fetched # accts
  <2>1. PICK info \in FetchedInfo(provider, a) :
          fetched = [accts EXCEPT ![a] = info]
    BY <1>2 DEF FetchAccount
  <2>2. info.status = "clean"
    BY <2>1 DEF FetchedInfo, NewInfo
  <2>3. fetched[a] = info
    BY <2>1 DEF Overlay
  <2> QED
    BY <2>2, <2>3
<1> QED
  BY <1>1, <1>2

\* Nor does fetching a slot,
LEMMA FetchStorageClean ==
    ASSUME provider \in Chain, NEW accts \in Overlay, NEW a \in Address,
           NEW k \in Key, accts[a].status # "dirty",
           NEW fetched \in FetchStorage(provider, accts, a, k)
    PROVE  fetched[a].status # "dirty"
<1>1. PICK accts1 \in FetchAccount(provider, accts, a) :
        fetched \in FetchSlot(provider, accts1, a, k)
  BY DEF FetchStorage
<1>2. accts1 \in Overlay /\ accts1[a].status # "dirty"
  BY <1>1, FetchAccountType, FetchAccountClean
<1>3. CASE fetched = accts1
  BY <1>2, <1>3
<1>4. CASE fetched # accts1
  <2>1. PICK slot \in FetchedSlot(provider, a, k) :
          fetched = [accts1 EXCEPT ![a].storage[k] = slot]
    BY <1>1, <1>4 DEF FetchSlot
  <2>2. fetched[a].status = accts1[a].status
    BY <1>2, <2>1 DEF Overlay, AccountInfo
  <2> QED
    BY <1>2, <2>2
<1> QED
  BY <1>3, <1>4

\* or writing one.
LEMMA SetStorageClean ==
    ASSUME NEW accts \in Overlay, NEW a \in Address, NEW k \in Key, NEW v,
           accts[a].status # "dirty"
    PROVE  SetStorage(accts, a, k, v)[a].status # "dirty"
BY DEF SetStorage, Overlay, AccountInfo

\* Loading, running and answering keep what execute knows before the update.
LEMMA LoadStepInv ==
    ASSUME Sound, OverlayInv, LoadInv, [Next]_vars
    PROVE  LoadInv'
<1>t. Self \in Address /\ provider \in Chain /\ accounts \in Overlay
  BY ParamsType DEF Sound, TypeOK
<1>1. CASE Submit
  <2>r. ASSUME NEW status, Refuse(status), pc = "idle" PROVE LoadInv'
    BY <2>r DEF Refuse, runtimeVars, LoadInv, Busy
  <2>1. ASSUME NEW tx \in Transaction, NEW d \in Memories, Start(tx, d)
        PROVE  LoadInv'
    <3>1. CASE Refuse("err")
      BY <2>1, <3>1, <2>r DEF Start
    <3>2. CASE ~Refuse("err")
      <4>1. /\ params' = tx /\ accounts' = NewState
            /\ base' = provider /\ provider' = provider
            /\ pc' = "start"
        BY <2>1, <3>2 DEF Start
      <4>2. tx.address \in Address
        BY DEF Transaction
      <4>3. accounts'[tx.address].status = "none"
        BY <4>1, <4>2 DEF NewState, NotCached, NewInfo
      <4>4. tx.action # "create" => provider[tx.address].exist
        BY <2>1 DEF Start, Found, AccountOk
      <4> QED
        BY <4>1, <4>3, <4>4 DEF LoadInv, Self, Busy
    <3> QED
      BY <3>1, <3>2
  <2> QED
    BY <1>1, <2>1, <2>r
    DEF Submit, RefuseUnknown, RefuseCode, RefuseGas, RefuseMemory
<1>2. CASE Run
  <2>1. RunStep
    BY <1>2, RunFrame
  <2>2. /\ Busy /\ pc # "flush" /\ UNCHANGED <<params, base, provider>>
        /\ Busy'
    BY <2>1 DEF RunStep, ControlStep, Running, Busy
  <2>3. accounts[Self].status # "dirty"
    BY <2>2 DEF LoadInv
  <2>4. accounts'[Self].status # "dirty"
    <3>1. ASSUME NEW k \in Key, NEW v \in Value,
                 NEW fetched \in FetchStorage(provider, accounts, Self, k),
                 accounts' = SetStorage(fetched, Self, k, v)
          PROVE  accounts'[Self].status # "dirty"
      <4>1. fetched \in Overlay /\ fetched[Self].status # "dirty"
        BY <1>t, <2>3, FetchStorageType, FetchStorageClean
      <4> QED
        BY <1>t, <3>1, <4>1, SetStorageClean
    <3> QED
      BY <1>t, <2>1, <2>3, <3>1, FetchAccountClean, FetchStorageClean
      DEF RunStep, OverlayStep
  <2> QED
    BY <2>2, <2>4 DEF LoadInv, Self
<1>3. CASE Finish
  <2>1. ASSUME NEW reply, Answer(reply) PROVE LoadInv'
    BY <2>1 DEF Answer, LoadInv, Busy
  <2>2. CASE BeginUpdate
    <3>1. /\ UNCHANGED <<params, base, provider>> /\ pc' = "flush"
          /\ Busy /\ pc # "flush"
      BY <2>2 DEF BeginUpdate, Completed, Busy
    <3>2. params.action # "create" => accounts' = accounts
      BY <2>2 DEF BeginUpdate
    <3> QED
      BY <3>1, <3>2 DEF LoadInv, Self, Busy
  <2>3. ASSUME UNCHANGED UpdateVars, pc = "flush" PROVE LoadInv'
    BY <2>3 DEF UpdateVars, LoadInv, Busy, Self
  <2> QED
    BY <1>3, <2>1, <2>2, <2>3
    DEF Finish, AnswerFailure, AnswerEmpty, FlushAccount, FlushSlot,
        AnswerUpdated
<1>4. CASE UNCHANGED vars
  BY <1>4 DEF vars, runtimeVars, LoadInv, Busy, Self
<1> QED
  BY <1>1, <1>2, <1>3, <1>4 DEF Next

-----------------------------------------------------------------------------
(* The update.                                                             *)

\* What is left to write is the contract's, and of the slots those written.
LeftInv ==
    pc = "flush" =>
      /\ todo \subseteq {Self}
      /\ \A p \in pending :
            \E k \in Key : p = <<Self, k>> /\ written[k] # Absent

\* Nothing but the contract's account and dirty slots is ever left to write.
LEMMA LeftStepInv ==
    ASSUME Sound, OverlayInv, LeftInv, [Next]_vars
    PROVE  LeftInv'
<1>1. CASE Submit
  BY <1>1
  DEF Submit, RefuseUnknown, RefuseCode, RefuseGas, RefuseMemory, Start,
      Refuse, runtimeVars, LeftInv
<1>2. CASE Run
  BY <1>2, RunFrame DEF RunStep, ControlStep, LeftInv
<1>3. CASE Finish
  <2>1. ASSUME NEW reply, Answer(reply) PROVE LeftInv'
    BY <2>1 DEF Answer, LeftInv
  <2>2. CASE BeginUpdate
    <3>1. OverlayInv'
      BY <2>2, OverlayStepInv DEF Next, Finish
    <3>2. Cached(accounts') \subseteq {Self}'
      BY <2>2, <3>1 DEF BeginUpdate, OverlayInv, Busy, Coherent
    <3> QED
      BY <2>2, <3>2 DEF BeginUpdate, LeftInv
  <2>3. ASSUME NEW a \in Address, FlushAccount(a) PROVE LeftInv'
    <3>1. CASE \E reply : Answer(reply)
      BY <2>1, <3>1
    <3>2. CASE /\ todo' = todo \ {a}
               /\ pending' = {<<a, k>> : k \in DirtySlots(accounts, a)}
               /\ UNCHANGED UpdateVars
      <4>1. pc = "flush" /\ a = Self
        BY <2>3 DEF FlushAccount, LeftInv
      <4>2. \A k \in DirtySlots(accounts, Self) :
              k \in Key /\ written[k] # Absent
        BY <4>1 DEF OverlayInv, Busy, Coherent, DirtySlots
      <4> QED
        BY <3>2, <4>1, <4>2 DEF LeftInv, UpdateVars, Self
    <3> QED
      BY <2>3, <3>1, <3>2 DEF FlushAccount
  <2>4. ASSUME NEW a \in Address, NEW k \in Key, FlushSlot(a, k) PROVE LeftInv'
    BY <2>1, <2>4 DEF FlushSlot, LeftInv, UpdateVars, Self
  <2> QED
    BY <1>3, <2>1, <2>2, <2>3, <2>4
    DEF Finish, AnswerFailure, AnswerEmpty, AnswerUpdated
<1>4. CASE UNCHANGED vars
  BY <1>4 DEF vars, runtimeVars, LeftInv, Self
<1> QED
  BY <1>1, <1>2, <1>3, <1>4 DEF Next

UpdateInv == Sound /\ OverlayInv /\ LoadInv /\ LeftInv

\* These invariants hold together throughout execute (execute.rs:24-166).
LEMMA UpdateInvariant == Spec => []UpdateInv
<1>1. Init => LoadInv /\ LeftInv
  BY DEF Init, LoadInv, LeftInv, Busy
<1>2. Sound /\ LoadInv /\ LeftInv /\ OverlayInv /\ [Next]_vars
        => LoadInv' /\ LeftInv'
  BY LoadStepInv, LeftStepInv
<1> QED
  BY <1>1, <1>2, OverlayInvariant, PTL DEF Spec, UpdateInv

\* What a pending write stores is the last value the contract wrote.
LEMMA PendingValue ==
    ASSUME Sound, OverlayInv, LeftInv, pc = "flush",
           NEW a \in Address, NEW k \in Key, <<a, k>> \in pending
    PROVE  a = Self /\ accounts[a].storage[k].val = Latest(k)
<1>1. a = Self /\ written[k] # Absent
  BY DEF LeftInv
<1>2. Coherent(accounts, written)
  BY DEF OverlayInv, Busy
<1> QED
  BY <1>1, <1>2 DEF Coherent, Latest

-----------------------------------------------------------------------------
(* No foreign values.                                                      *)

ForeignInv == OnlyItsValues(provider)

\* Whatever calls of the update fail, or are carried out and reported failed, a step
\* puts no value on the chain that is neither the old nor the new one, and a call
\* changes nothing but the contract's storage.
LEMMA ForeignStep ==
    ASSUME UpdateInv, ForeignInv, Next
    PROVE  IF Busy THEN OnlyItsValues(provider') ELSE UNCHANGED provider
<1> USE DEF UpdateInv, ForeignInv
<1>t. /\ Self \in Address
      /\ provider \in Chain /\ base \in Chain
      /\ accounts \in Overlay
  BY ParamsType DEF Sound, TypeOK
<1>1. CASE Submit
  BY <1>1
  DEF Submit, RefuseUnknown, RefuseCode, RefuseGas, RefuseMemory, Start,
      Refuse, runtimeVars, Busy
<1>2. CASE Run
  BY <1>2, RunFrame DEF RunStep, ControlStep, Busy
<1>3. CASE Finish
  <2>1. ASSUME AnswerFailure \/ AnswerEmpty \/ AnswerUpdated \/ BeginUpdate
        PROVE  UNCHANGED provider
    BY <2>1 DEF AnswerFailure, AnswerEmpty, AnswerUpdated, BeginUpdate
  <2>3. ASSUME NEW a \in Address, FlushAccount(a), provider' # provider
        PROVE  Busy /\ OnlyItsValues(provider')
    <3>1. a = Self /\ pc = "flush"
      BY <2>3 DEF FlushAccount, LeftInv
    <3>2. accounts[Self].status = "dirty"
      BY <2>3, <3>1 DEF FlushAccount, WriteAccount
    <3>3. params.action = "create"
      BY <3>1, <3>2 DEF LoadInv, Busy
    <3>4. \/ provider' = [provider EXCEPT ![Self] =
                            NewAccount(0, 0, accounts[Self].code)]
          \/ provider' = [provider EXCEPT
                            ![Self].balance = accounts[Self].balance,
                            ![Self].nonce = accounts[Self].nonce]
      <4>1. PICK rep \in WriteAccount(provider, accounts, Self) :
              provider' = rep.prov
        BY <2>3, <3>1 DEF FlushAccount
      <4>2. \/ rep \in UpdateAccount(provider, Self, accounts[Self].balance,
                                    accounts[Self].nonce)
            \/ rep \in CreateContract(provider, Self, accounts[Self].code)
        BY <3>2, <4>1 DEF WriteAccount
      <4>3. \A after : rep \in Reply(provider, after) =>
              rep.prov = provider \/ rep.prov = after
        BY DEF Reply
      <4>4. rep \in Reply(provider, provider) => rep.prov = provider
        BY <4>3
      <4> QED
        BY <2>3, <4>1, <4>2, <4>3, <4>4 DEF UpdateAccount, CreateContract
    <3>5. \A b \in Address \ {Self} : provider'[b] = provider[b]
      BY <1>t, <3>4 DEF Chain
    <3>6. \A k \in Key :
            \/ provider'[Self].storage[k] = Absent
            \/ provider'[Self].storage[k] = provider[Self].storage[k]
      BY <1>t, <3>4 DEF Chain, Account, NewAccount, NoStorage
    <3> QED
      BY <3>1, <3>3, <3>5, <3>6 DEF OnlyItsValues, Busy
  <2>4. ASSUME NEW a \in Address, NEW k \in Key, FlushSlot(a, k),
               provider' # provider
        PROVE  Busy /\ OnlyItsValues(provider')
    <3>1. a = Self /\ accounts[a].storage[k].val = Latest(k) /\ pc = "flush"
      BY <2>4, PendingValue DEF FlushSlot
    <3>2. provider' = [provider EXCEPT ![Self].storage[k] = Latest(k)]
      BY <2>4, <3>1 DEF FlushSlot, WriteSlot, WriteStorage, Reply
    <3>3. \A b \in Address \ {Self} : provider'[b] = provider[b]
      BY <1>t, <3>2 DEF Chain
    <3>4. /\ provider'[Self].storage[k] = Latest(k)
          /\ \A j \in Key \ {k} :
               provider'[Self].storage[j] = provider[Self].storage[j]
      BY <1>t, <3>2 DEF Chain, Account
    <3>5. [provider'[Self] EXCEPT !.storage = NoStorage]
            = [provider[Self] EXCEPT !.storage = NoStorage]
      <4>1. provider'[Self]
              = [provider[Self] EXCEPT !.storage[k] = Latest(k)]
        BY <1>t, <3>2 DEF Chain
      <4> QED
        BY <1>t, <4>1 DEF Chain, Account
    <3> QED
      BY <3>1, <3>3, <3>4, <3>5 DEF OnlyItsValues, Busy
  <2>5. provider' # provider => Busy /\ OnlyItsValues(provider')
    BY <1>3, <2>1, <2>3, <2>4 DEF Finish
  <2> QED
    BY <2>5
<1> QED
  BY <1>1, <1>2, <1>3 DEF Next

\* Between two steps the same holds of the chain: with an answer the chain as it then
\* is becomes that before the next transaction.
LEMMA ForeignStepInv ==
    ASSUME UpdateInv, ForeignInv, [Next]_vars
    PROVE  ForeignInv'
<1>e. ASSUME provider' = base' PROVE ForeignInv'
  BY <1>e DEF ForeignInv, OnlyItsValues
<1>1. CASE Submit
  <2>1. provider' = base'
    BY <1>1
    DEF Submit, RefuseUnknown, RefuseCode, RefuseGas, RefuseMemory, Start,
        Refuse, runtimeVars, UpdateInv, LoadInv, Busy
  <2> QED
    BY <1>e, <2>1
<1>2. CASE Run
  <2>1. provider' = base'
    BY <1>2, RunFrame DEF RunStep, UpdateInv, OverlayInv, Busy, Running
  <2> QED
    BY <1>e, <2>1
<1>3. CASE Finish
  <2>1. ASSUME NEW reply, Answer(reply) PROVE ForeignInv'
    BY <2>1, <1>e DEF Answer
  <2>2. CASE BeginUpdate
    BY <2>2, <1>e DEF BeginUpdate, Completed, UpdateInv, OverlayInv, Busy
  <2>3. ASSUME UNCHANGED UpdateVars, pc = "flush" PROVE ForeignInv'
    <3>1. OnlyItsValues(provider')
      BY <1>3, <2>3, ForeignStep DEF Next, Busy
    <3>2. UNCHANGED <<params, base, written>>
      BY <2>3 DEF UpdateVars
    <3> QED
      BY <3>1, <3>2 DEF ForeignInv, OnlyItsValues, Latest, Former, Self
  <2> QED
    BY <1>3, <2>1, <2>2, <2>3
    DEF Finish, AnswerFailure, AnswerEmpty, AnswerUpdated, FlushAccount,
        FlushSlot
<1>4. CASE UNCHANGED vars
  BY <1>4 DEF vars, runtimeVars, ForeignInv, OnlyItsValues, Latest, Former, Self
<1> QED
  BY <1>1, <1>2, <1>3, <1>4 DEF Next

\* At every moment the chain holds only old and new values of the contract's.
LEMMA ForeignInvariant == Spec => []ForeignInv
<1>1. Init => ForeignInv
  BY DEF Init, ForeignInv, OnlyItsValues
<1> QED
  BY <1>1, ForeignStepInv, UpdateInvariant, PTL DEF Spec

\* An update cut short at any call leaves no value that is neither the old nor
\* the new one, and no trace outside the contract, local or over RPC.
THEOREM NoForeignValue == Spec => NoForeignValues
<1>1. UpdateInv /\ ForeignInv /\ [Next]_vars
        => [IF Busy THEN OnlyItsValues(provider') ELSE UNCHANGED provider]_vars
  BY ForeignStep
<1> QED
  BY <1>1, ForeignInvariant, UpdateInvariant, PTL DEF Spec, NoForeignValues

-----------------------------------------------------------------------------
(* Exactly what was written.                                               *)

\* What the chain owes the contract when its own record is done.
RecordDone ==
    /\ provider[Self].exist
    /\ provider[Self].code =
          IF base[Self].exist THEN base[Self].code ELSE result

\* Before the contract's record is written, the chain is as it was found; after
\* that, every slot not left to write holds its latest value.
ExactInv ==
    pc = "flush" =>
      /\ Self \in todo =>
           /\ provider = base /\ pending = {}
           /\ params.action = "create" =>
                accounts[Self].status = "dirty" /\ accounts[Self].code = result
      /\ Self \notin todo =>
           /\ RecordDone
           /\ \A k \in Key :
                <<Self, k>> \notin pending =>
                  provider[Self].storage[k] = Latest(k)

\* A write on a provider in the same process is carried out.
LEMMA LocalWrites ==
    ASSUME ~Remote
    PROVE  \A before, after : \A r \in Reply(before, after) : r.prov = after
BY DEF Reply

\* Writing the contract's record, and not its slots yet, makes good what the
\* chain owes it but for the slots.
LEMMA RecordWritten ==
    ASSUME ~Remote, UpdateInv, provider = base, pc = "flush",
           params.action = "create" =>
             accounts[Self].status = "dirty" /\ accounts[Self].code = result,
           NEW rep \in WriteAccount(provider, accounts, Self)
    PROVE  /\ rep.prov[Self].exist
           /\ rep.prov[Self].code =
                IF base[Self].exist THEN base[Self].code ELSE result
           /\ \A k \in Key : rep.prov[Self].storage[k] = Former(k)
<1>t. Self \in Address /\ provider \in Chain
  BY ParamsType DEF UpdateInv, Sound, TypeOK
<1>1. CASE accounts[Self].status # "dirty"
  <2>1. rep.prov = provider
    BY <1>1 DEF WriteAccount
  <2>2. base[Self].exist
    BY <1>1 DEF UpdateInv, LoadInv, Busy
  <2> QED
    BY <2>1, <2>2 DEF Former
<1>2. CASE accounts[Self].status = "dirty"
  <2>1. accounts[Self].code = result
    BY <1>2 DEF UpdateInv, LoadInv, Busy
  <2>2. CASE base[Self].exist
    <3>1. rep \in UpdateAccount(provider, Self, accounts[Self].balance,
                                accounts[Self].nonce)
      BY <1>2, <2>2 DEF WriteAccount, Exist
    <3>2. rep.prov = [provider EXCEPT ![Self].balance = accounts[Self].balance,
                                      ![Self].nonce = accounts[Self].nonce]
      BY <3>1, LocalWrites DEF UpdateAccount
    <3> QED
      BY <1>t, <2>2, <3>2 DEF Chain, Account, Former
  <2>3. CASE ~base[Self].exist
    <3>1. rep \in CreateContract(provider, Self, accounts[Self].code)
      <4>1. Exist(provider, Self) = {FALSE}
        BY <1>t, <2>3 DEF Exist, Chain, Account
      <4> QED
        BY <1>2, <4>1 DEF WriteAccount
    <3>2. rep.prov = [provider EXCEPT ![Self] = NewAccount(0, 0, result)]
      BY <2>1, <2>3, <3>1, LocalWrites DEF CreateContract
    <3>3. rep.prov[Self] = NewAccount(0, 0, result)
      BY <1>t, <3>2 DEF Chain
    <3> QED
      BY <2>3, <3>3 DEF NewAccount, NoStorage, Former
  <2> QED
    BY <2>2, <2>3
<1> QED
  BY <1>1, <1>2

\* The record first, then the slots one by one: no step of the update forgets a
\* write or undoes one.
LEMMA ExactStepInv ==
    ASSUME ~Remote, UpdateInv, ExactInv, [Next]_vars
    PROVE  ExactInv'
<1> USE DEF UpdateInv
<1>t. Self \in Address /\ provider \in Chain /\ accounts \in Overlay
  BY ParamsType DEF Sound, TypeOK
<1>1. CASE Submit
  BY <1>1
  DEF Submit, RefuseUnknown, RefuseCode, RefuseGas, RefuseMemory, Start,
      Refuse, runtimeVars, ExactInv
<1>2. CASE Run
  BY <1>2, RunFrame DEF RunStep, ControlStep, ExactInv
<1>3. CASE Finish
  <2>1. ASSUME NEW reply, Answer(reply) PROVE ExactInv'
    BY <2>1 DEF Answer, ExactInv
  <2>2. CASE BeginUpdate
    <3>1. /\ UNCHANGED <<provider, params, base, written, result>>
          /\ provider = base /\ Busy /\ pc # "flush"
          /\ todo' = Cached(accounts') /\ pending' = {}
      BY <2>2 DEF BeginUpdate, Completed, OverlayInv, Busy
    <3>2. CASE params.action = "create"
      <4>1. PICK fetched \in FetchAccount(provider, accounts, Self) :
              accounts' = [fetched EXCEPT ![Self].code = result,
                                          ![Self].status = "dirty"]
        BY <2>2, <3>2 DEF BeginUpdate, InitCode
      <4>2. fetched \in Overlay
        BY <1>t, FetchAccountType
      <4>3. accounts'[Self].status = "dirty" /\ accounts'[Self].code = result
        BY <1>t, <4>1, <4>2 DEF Overlay, AccountInfo
      <4>4. Self \in todo'
        BY <1>t, <3>1, <4>3 DEF Cached
      <4> QED
        BY <3>1, <4>3, <4>4 DEF ExactInv, Self
    <3>3. CASE params.action # "create"
      <4>1. accounts' = accounts /\ base[Self].exist
        BY <2>2, <3>1, <3>3 DEF BeginUpdate, LoadInv
      <4>2. Self \notin Cached(accounts) =>
              \A k \in Key : base[Self].storage[k] = Latest(k)
        BY <3>1, <4>1 DEF OverlayInv, Coherent, Latest, Former
      <4> QED
        BY <3>1, <3>3, <4>1, <4>2 DEF ExactInv, RecordDone, Latest, Former, Self
    <3> QED
      BY <3>2, <3>3
  <2>3. ASSUME NEW a \in Address, FlushAccount(a) PROVE ExactInv'
    <3>1. CASE \E reply : Answer(reply)
      BY <2>1, <3>1
    <3>2. CASE /\ todo' = todo \ {a}
               /\ pending' = {<<a, k>> : k \in DirtySlots(accounts, a)}
               /\ UNCHANGED UpdateVars
      <4>1. a = Self /\ pc = "flush" /\ Self \in todo
        BY <2>3 DEF FlushAccount, LeftInv
      <4>2. UNCHANGED <<accounts, params, base, written, result, pc>>
        BY <3>2 DEF UpdateVars
      <4>3. PICK rep \in WriteAccount(provider, accounts, Self) :
              provider' = rep.prov
        BY <2>3, <4>1 DEF FlushAccount
      <4>4. /\ provider'[Self].exist
            /\ provider'[Self].code =
                 IF base[Self].exist THEN base[Self].code ELSE result
            /\ \A k \in Key : provider'[Self].storage[k] = Former(k)
        BY <4>1, <4>3, RecordWritten DEF ExactInv
      <4>5. \A k \in Key : <<Self, k>> \notin pending' => Former(k) = Latest(k)
        BY <3>2, <4>1 DEF DirtySlots, OverlayInv, Busy, Coherent, Latest
      <4>6. Self \notin todo'
        BY <3>2, <4>1
      <4> QED
        BY <4>2, <4>4, <4>5, <4>6 DEF ExactInv, RecordDone, Latest, Former, Self
    <3> QED
      BY <2>3, <3>1, <3>2 DEF FlushAccount
  <2>4. ASSUME NEW a \in Address, NEW k \in Key, FlushSlot(a, k)
        PROVE  ExactInv'
    <3>1. CASE \E reply : Answer(reply)
      BY <2>1, <3>1
    <3>2. CASE pending' = pending \ {<<a, k>>} /\ UNCHANGED <<UpdateVars, todo>>
      <4>1. a = Self /\ accounts[a].storage[k].val = Latest(k)
        BY <2>4, PendingValue DEF FlushSlot
      <4>2. pc = "flush" /\ Self \notin todo
        BY <2>4, <4>1 DEF FlushSlot, ExactInv
      <4>3. UNCHANGED <<params, base, written, result, pc, todo>>
        BY <3>2 DEF UpdateVars
      <4>4. provider' = [provider EXCEPT ![Self].storage[k] = Latest(k)]
        BY <2>4, <4>1, LocalWrites DEF FlushSlot, WriteSlot, WriteStorage
      <4>5. /\ provider'[Self].storage[k] = Latest(k)
            /\ \A j \in Key \ {k} :
                 provider'[Self].storage[j] = provider[Self].storage[j]
            /\ provider'[Self].exist = provider[Self].exist
            /\ provider'[Self].code = provider[Self].code
        BY <1>t, <4>4 DEF Chain, Account
      <4>6. \A j \in Key \ {k} :
              <<Self, j>> \notin pending' => <<Self, j>> \notin pending
        BY <3>2, <4>1
      <4> QED
        BY <4>2, <4>3, <4>5, <4>6 DEF ExactInv, RecordDone, Latest, Former, Self
    <3> QED
      BY <2>4, <3>1, <3>2 DEF FlushSlot
  <2> QED
    BY <1>3, <2>1, <2>2, <2>3, <2>4
    DEF Finish, AnswerFailure, AnswerEmpty, AnswerUpdated
<1>4. CASE UNCHANGED vars
  BY <1>4 DEF vars, runtimeVars, ExactInv, RecordDone, Latest, Former, Self
<1> QED
  BY <1>1, <1>2, <1>3, <1>4 DEF Next

\* With a provider in the same process, an update answered Ok has stored every
\* value written and no other, and the contract's code.
THEOREM FlushIsExact == ASSUME ~Remote PROVE Spec => FlushExact
<1> DEFINE Exact == Answers("ok") /\ result # Empty =>
              /\ \A k \in Key : provider'[Self].storage[k] = Latest(k)
              /\ provider'[Self].exist
              /\ provider'[Self].code =
                    IF base[Self].exist THEN base[Self].code ELSE result
<1>1. Init => ExactInv
  BY DEF Init, ExactInv
<1>2. UpdateInv /\ ExactInv /\ [Next]_vars => [Exact]_vars
  <2> SUFFICES ASSUME UpdateInv, ExactInv, Next, Answers("ok"), result # Empty
      PROVE  /\ \A k \in Key : provider'[Self].storage[k] = Latest(k)
             /\ provider'[Self].exist
             /\ provider'[Self].code =
                   IF base[Self].exist THEN base[Self].code ELSE result
    OBVIOUS
  <2>1. UNCHANGED provider /\ AnswerUpdated
    BY OkAnswers DEF AnswerEmpty
  <2>2. pc = "flush" /\ todo = {} /\ pending = {}
    BY <2>1 DEF AnswerUpdated
  <2> QED
    BY <2>1, <2>2 DEF ExactInv, RecordDone
<1> QED
  BY <1>1, <1>2, ExactStepInv, UpdateInvariant, PTL DEF Spec, FlushExact

-----------------------------------------------------------------------------
(* Nothing written is lost, whatever the provider.                         *)

\* The contract's account is there once its record is written, or from the start
\* when it is called; then every value written is on the chain or left to write.
KeptInv ==
    pc = "flush" =>
      /\ IF params.action = "create"
         THEN Self \in todo => accounts[Self].status = "dirty"
         ELSE provider[Self].exist
      /\ Self \notin todo =>
           /\ provider[Self].exist
           /\ \A k \in Key :
                written[k] # Absent /\ <<Self, k>> \notin pending =>
                  provider[Self].storage[k] = written[k]

\* A reply that all is well comes from a call that was carried out.
LEMMA OkReply ==
    \A before, after : \A r \in Reply(before, after) : r.ok => r.prov = after
BY DEF Reply

\* Over RPC `exist` may deny an account that is there, and a second one is then
\* created; in any case the address has one after a reply that all is well.
LEMMA RecordThere ==
    ASSUME provider \in Chain, NEW a \in Address,
           accounts[a].status = "dirty" \/ provider[a].exist,
           NEW rep \in WriteAccount(provider, accounts, a), rep.ok
    PROVE  rep.prov[a].exist
<1>1. CASE accounts[a].status # "dirty"
  BY <1>1 DEF WriteAccount
<1>2. CASE accounts[a].status = "dirty"
  <2>1. PICK found \in Exist(provider, a) :
          rep \in IF found
                  THEN UpdateAccount(provider, a, accounts[a].balance,
                                     accounts[a].nonce)
                  ELSE CreateContract(provider, a, accounts[a].code)
    BY <1>2 DEF WriteAccount
  <2>2. CASE found
    <3>1. rep.prov = [provider EXCEPT ![a].balance = accounts[a].balance,
                                      ![a].nonce = accounts[a].nonce]
      BY <2>1, <2>2, OkReply DEF UpdateAccount
    <3>2. provider[a].exist
      BY <2>2 DEF Exist
    <3> QED
      BY <3>1, <3>2 DEF Chain, Account
  <2>3. CASE ~found
    <3>1. \/ rep.prov = [provider EXCEPT ![a] =
                           NewAccount(0, 0, accounts[a].code)]
          \/ rep.prov = provider /\ provider[a].exist
      BY <2>1, <2>3, OkReply DEF CreateContract
    <3>2. \/ rep.prov[a] = NewAccount(0, 0, accounts[a].code)
          \/ rep.prov[a].exist
      BY <3>1 DEF Chain
    <3>3. NewAccount(0, 0, accounts[a].code).exist
      BY DEF NewAccount
    <3> QED
      BY <3>2, <3>3
  <2> QED
    BY <2>2, <2>3
<1> QED
  BY <1>1, <1>2

\* No call of the update that is answered well undoes what another has stored.
LEMMA KeptStepInv ==
    ASSUME UpdateInv, KeptInv, [Next]_vars
    PROVE  KeptInv'
<1> USE DEF UpdateInv
<1>t. Self \in Address /\ provider \in Chain /\ accounts \in Overlay
  BY ParamsType DEF Sound, TypeOK
<1>1. CASE Submit
  BY <1>1
  DEF Submit, RefuseUnknown, RefuseCode, RefuseGas, RefuseMemory, Start,
      Refuse, runtimeVars, KeptInv
<1>2. CASE Run
  BY <1>2, RunFrame DEF RunStep, ControlStep, KeptInv
<1>3. CASE Finish
  <2>1. ASSUME NEW reply, Answer(reply) PROVE KeptInv'
    BY <2>1 DEF Answer, KeptInv
  <2>2. CASE BeginUpdate
    <3>1. /\ UNCHANGED <<provider, params, base, written, result>>
          /\ provider = base /\ Busy /\ pc # "flush"
          /\ todo' = Cached(accounts') /\ pending' = {}
      BY <2>2 DEF BeginUpdate, Completed, OverlayInv, Busy
    <3>2. CASE params.action = "create"
      <4>1. PICK fetched \in FetchAccount(provider, accounts, Self) :
              accounts' = [fetched EXCEPT ![Self].code = result,
                                          ![Self].status = "dirty"]
        BY <2>2, <3>2 DEF BeginUpdate, InitCode
      <4>2. fetched \in Overlay
        BY <1>t, FetchAccountType
      <4>3. accounts'[Self].status = "dirty"
        BY <1>t, <4>1, <4>2 DEF Overlay, AccountInfo
      <4>4. Self \in todo'
        BY <1>t, <3>1, <4>3 DEF Cached
      <4> QED
        BY <3>1, <3>2, <4>3, <4>4 DEF KeptInv, Self
    <3>3. CASE params.action # "create"
      <4>1. accounts' = accounts /\ base[Self].exist
        BY <2>2, <3>1, <3>3 DEF BeginUpdate, LoadInv
      <4>2. Self \notin Cached(accounts) => \A k \in Key : written[k] = Absent
        BY <1>t, <3>1, <4>1 DEF OverlayInv, Coherent
      <4> QED
        BY <3>1, <3>3, <4>1, <4>2 DEF KeptInv, Self
    <3> QED
      BY <3>2, <3>3
  <2>3. ASSUME NEW a \in Address, FlushAccount(a) PROVE KeptInv'
    <3>1. CASE \E reply : Answer(reply)
      BY <2>1, <3>1
    <3>2. CASE ~\E reply : Answer(reply)
      <4>1. a = Self /\ pc = "flush" /\ Self \in todo
        BY <2>3 DEF FlushAccount, LeftInv
      <4>2. PICK rep \in WriteAccount(provider, accounts, Self) :
              /\ rep.ok /\ provider' = rep.prov
              /\ pending' = {<<a, k>> : k \in DirtySlots(accounts, a)}
              /\ UNCHANGED UpdateVars
        BY <2>3, <3>2, <4>1 DEF FlushAccount
      <4>3. UNCHANGED <<accounts, params, written, pc>>
        BY <4>2 DEF UpdateVars
      <4>4. accounts[Self].status = "dirty" \/ provider[Self].exist
        BY <4>1 DEF KeptInv
      <4>5. provider'[Self].exist
        BY <1>t, <4>2, <4>4, RecordThere
      <4>6. \A k \in Key : written[k] # Absent => <<Self, k>> \in pending'
        BY <4>1, <4>2 DEF DirtySlots, OverlayInv, Busy, Coherent
      <4>7. Self \notin todo'
        BY <2>3, <3>2, <4>1 DEF FlushAccount
      <4> QED
        BY <4>3, <4>5, <4>6, <4>7 DEF KeptInv, Self
    <3> QED
      BY <3>1, <3>2
  <2>4. ASSUME NEW a \in Address, NEW k \in Key, FlushSlot(a, k)
        PROVE  KeptInv'
    <3>1. CASE \E reply : Answer(reply)
      BY <2>1, <3>1
    <3>2. CASE ~\E reply : Answer(reply)
      <4>1. /\ a = Self /\ written[k] # Absent
            /\ accounts[a].storage[k].val = written[k]
        BY <2>4, PendingValue DEF FlushSlot, LeftInv, Latest
      <4>2. PICK rep \in WriteSlot(provider, accounts, Self, k) :
              /\ rep.ok /\ provider' = rep.prov
              /\ pending' = pending \ {<<a, k>>}
              /\ UNCHANGED <<UpdateVars, todo>>
        BY <2>4, <3>2, <4>1 DEF FlushSlot
      <4>3. UNCHANGED <<accounts, params, written, pc, todo>> /\ pc = "flush"
        BY <2>4, <4>2 DEF UpdateVars, FlushSlot
      <4>4. provider' = [provider EXCEPT ![Self].storage[k] = written[k]]
        BY <4>1, <4>2, OkReply DEF WriteSlot, WriteStorage
      <4>5. /\ provider'[Self].storage[k] = written[k]
            /\ \A j \in Key \ {k} :
                 provider'[Self].storage[j] = provider[Self].storage[j]
            /\ provider'[Self].exist = provider[Self].exist
        BY <1>t, <4>4 DEF Chain, Account
      <4>6. \A j \in Key \ {k} :
              <<Self, j>> \notin pending' => <<Self, j>> \notin pending
        BY <4>1, <4>2
      <4> QED
        BY <4>3, <4>5, <4>6 DEF KeptInv, Self
    <3> QED
      BY <3>1, <3>2
  <2> QED
    BY <1>3, <2>1, <2>2, <2>3, <2>4
    DEF Finish, AnswerFailure, AnswerEmpty, AnswerUpdated
<1>4. CASE UNCHANGED vars
  BY <1>4 DEF vars, runtimeVars, KeptInv, Self
<1> QED
  BY <1>1, <1>2, <1>3, <1>4 DEF Next

\* An update answered Ok has lost no write, in the same process or over RPC,
\* whatever calls before the update failed.
THEOREM NoWriteIsLost == Spec => OkLosesNoWrite
<1> DEFINE Written == Answers("ok") /\ result # Empty =>
              /\ provider'[Self].exist
              /\ \A k \in Key : written[k] # Absent =>
                    provider'[Self].storage[k] = written[k]
<1>1. Init => KeptInv
  BY DEF Init, KeptInv
<1>2. UpdateInv /\ KeptInv /\ [Next]_vars => [Written]_vars
  <2> SUFFICES ASSUME UpdateInv, KeptInv, Next, Answers("ok"), result # Empty
      PROVE  /\ provider'[Self].exist
             /\ \A k \in Key : written[k] # Absent =>
                   provider'[Self].storage[k] = written[k]
    OBVIOUS
  <2>1. UNCHANGED provider /\ AnswerUpdated
    BY OkAnswers DEF AnswerEmpty
  <2>2. pc = "flush" /\ todo = {} /\ pending = {}
    BY <2>1 DEF AnswerUpdated
  <2> QED
    BY <2>1, <2>2 DEF KeptInv
<1> QED
  BY <1>1, <1>2, KeptStepInv, UpdateInvariant, PTL DEF Spec, OkLosesNoWrite
=============================================================================
