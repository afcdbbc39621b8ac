----------------------------- MODULE LedgerProofs -----------------------------
(***************************************************************************)
(* With a provider in the same process, Execute implements Ledger.         *)
(***************************************************************************)
EXTENDS ExecuteLedger, UpdateProofs

\* While a transaction is executed nothing has been answered, and an update has
\* something to store.
AnswerInv ==
    /\ Busy => outcome.status = "none"
    /\ pc = "flush" => result # Empty

\* Accepting a transaction clears the answer, and only an answer sets it.
LEMMA AnswerStepInv ==
    ASSUME AnswerInv, [Next]_vars
    PROVE  AnswerInv'
<1>1. CASE Submit
  BY <1>1
  DEF Submit, RefuseUnknown, RefuseCode, RefuseGas, RefuseMemory, Start,
      Refuse, runtimeVars, AnswerInv, Busy, NoOutcome
<1>2. CASE Run
  BY <1>2, RunFrame DEF RunStep, ControlStep, Running, AnswerInv, Busy
<1>3. CASE Finish
  <2>1. ASSUME NEW reply, Answer(reply) PROVE AnswerInv'
    BY <2>1 DEF Answer, AnswerInv, Busy
  <2>2. CASE BeginUpdate
    BY <2>2 DEF BeginUpdate, Completed, AnswerInv, Busy
  <2>3. ASSUME UNCHANGED UpdateVars PROVE AnswerInv'
    BY <2>3 DEF UpdateVars, AnswerInv, Busy
  <2> QED
    BY <1>3, <2>1, <2>2, <2>3
    DEF Finish, AnswerFailure, AnswerEmpty, FlushAccount, FlushSlot,
        AnswerUpdated
<1>4. CASE UNCHANGED vars
  BY <1>4 DEF vars, runtimeVars, AnswerInv, Busy
<1> QED
  BY <1>1, <1>2, <1>3, <1>4 DEF Next

-----------------------------------------------------------------------------
(* The steps.                                                              *)

\* The last call of an update is the step of the ledger: the contract, and no
\* other account, goes from what it was to what was written.
LEMMA UpdateIsOneStep ==
    ASSUME UpdateInv, ExactInv, ForeignInv, AnswerInv, AnswerUpdated
    PROVE  L!Next
<1>t. /\ Self \in Address
      /\ provider \in Chain /\ base \in Chain
      /\ result \in Bytes
      /\ written \in L!Writes
  BY ParamsType DEF UpdateInv, Sound, TypeOK, L!Writes
<1>1. /\ pc = "flush" /\ pc' = "idle" /\ todo = {} /\ pending = {}
      /\ provider' = provider
      /\ outcome.status = "none" /\ outcome'.status = "ok"
      /\ result # Empty
  BY DEF AnswerUpdated, Answer, Success, AnswerInv, Busy
<1>2. LedgerOf = Abstract(base) /\ LedgerOf' = Abstract(provider)
  BY <1>1 DEF LedgerOf, Abstract, Recorded
<1>3. ReplyOf = "none" /\ ReplyOf' = "ok"
  BY <1>1 DEF ReplyOf
<1>4. /\ provider[Self].exist
      /\ provider[Self].code =
           IF base[Self].exist THEN base[Self].code ELSE result
      /\ \A k \in Key : provider[Self].storage[k] = Latest(k)
  BY <1>1 DEF ExactInv, RecordDone
<1>5. \A a \in Address \ {Self} : provider[a] = base[a]
  BY DEF ForeignInv, OnlyItsValues
<1>6. provider[Self].storage = [k \in Key |-> provider[Self].storage[k]]
  BY <1>t DEF Chain, Account
<1>7. CASE base[Self].exist
  <2>1. provider[Self].storage = L!Overwrite(base[Self].storage, written)
    BY <1>4, <1>6, <1>7 DEF L!Overwrite, Latest, Former
  <2>2. Recorded(provider[Self])
          = [Recorded(base[Self]) EXCEPT
               !.storage = L!Overwrite(base[Self].storage, written)]
    <3>1. \A new : [Recorded(base[Self]) EXCEPT !.storage = new]
                     = [exist |-> base[Self].exist, code |-> base[Self].code,
                        storage |-> new]
      BY DEF Recorded
    <3>2. Recorded(provider[Self])
            = [exist |-> base[Self].exist, code |-> base[Self].code,
               storage |-> provider[Self].storage]
      <4>1. provider[Self].exist = base[Self].exist
        BY <1>t, <1>4, <1>7 DEF Chain, Account
      <4> QED
        BY <1>4, <1>7, <4>1 DEF Recorded
    <3> QED
      BY <2>1, <3>1, <3>2
  <2>3. Abstract(provider)
          = [Abstract(base) EXCEPT
               ![Self].storage = L!Overwrite(@, written)]
    BY <1>t, <1>5, <2>2 DEF Abstract, Recorded
  <2>4. L!UpdateContract(Self, written)
    BY <1>t, <1>2, <1>3, <1>7, <2>3 DEF L!UpdateContract, L!Update, Abstract, Recorded
  <2> QED
    BY <1>t, <2>4 DEF L!Next
<1>8. CASE ~base[Self].exist
  <2>1. provider[Self].storage = L!Overwrite(L!NoStorage, written)
    BY <1>4, <1>6, <1>8 DEF L!Overwrite, L!NoStorage, Latest, Former
  <2>2. Recorded(provider[Self])
          = [exist |-> TRUE, code |-> result,
             storage |-> L!Overwrite(L!NoStorage, written)]
    BY <1>t, <1>4, <1>8, <2>1 DEF Recorded, Chain, Account
  <2>3. Abstract(provider)
          = [Abstract(base) EXCEPT ![Self] = Recorded(provider[Self])]
    BY <1>t, <1>5 DEF Abstract
  <2>4. L!CreateContract(Self, result, written)
    BY <1>t, <1>1, <1>2, <1>3, <1>8, <2>2, <2>3
    DEF L!CreateContract, L!Create, Abstract, Recorded
  <2> QED
    BY <1>t, <2>4 DEF L!Next
<1> QED
  BY <1>7, <1>8

\* Every other step answers without touching the chain, or is none of the
\* ledger's business.
LEMMA StepIsLedgerStep ==
    ASSUME ~Remote, UpdateInv, ExactInv, ForeignInv, AnswerInv,
           [Next]_vars
    PROVE  [L!Next]_(L!vars)
<1> USE DEF L!vars
<1>f. ASSUME LedgerOf' = LedgerOf, outcome'.status \in {"err", "panic"}
      PROVE  L!Next
  BY <1>f DEF L!Next, L!Fail, ReplyOf
<1>u. ASSUME LedgerOf' = LedgerOf, UNCHANGED outcome
      PROVE  UNCHANGED L!vars
  BY <1>u DEF ReplyOf
<1>1. CASE Submit
  <2>r. ASSUME NEW status \in {"err", "panic"}, Refuse(status) PROVE L!Next
    <3>1. LedgerOf' = LedgerOf
      BY <2>r DEF Refuse, runtimeVars, LedgerOf, Abstract, Recorded
    <3> QED
      BY <1>f, <2>r, <3>1 DEF Refuse, Failure, NoOutcome
  <2>1. ASSUME NEW tx \in Transaction, NEW d \in Memories, Start(tx, d)
        PROVE  L!Next
    <3>1. CASE Refuse("err")
      BY <3>1, <2>r
    <3>2. CASE ~Refuse("err")
      <4>1. /\ pc = "idle" /\ pc' = "start" /\ provider' = provider
            /\ outcome' = NoOutcome
        BY <2>1, <3>2 DEF Start
      <4>2. LedgerOf' = LedgerOf
        BY <4>1 DEF LedgerOf, Abstract, Recorded
      <4> QED
        BY <4>1, <4>2 DEF L!Next, L!Accept, ReplyOf, NoOutcome
    <3> QED
      BY <3>1, <3>2
  <2> QED
    BY <1>1, <2>1, <2>r
    DEF Submit, RefuseUnknown, RefuseCode, RefuseGas, RefuseMemory
<1>2. CASE Run
  <2>1. /\ pc # "flush" /\ pc' # "flush"
        /\ UNCHANGED <<provider, outcome>>
    BY <1>2, RunFrame DEF RunStep, ControlStep, Running
  <2>2. LedgerOf' = LedgerOf
    BY <2>1 DEF LedgerOf, Abstract, Recorded
  <2> QED
    BY <1>u, <2>1, <2>2
<1>3. CASE Finish
  <2>1. CASE AnswerFailure
    <3>1. LedgerOf' = LedgerOf
      BY <2>1 DEF AnswerFailure, Answer, LedgerOf, Abstract, Recorded
    <3> QED
      BY <1>f, <2>1, <3>1 DEF AnswerFailure, Answer, Failure, NoOutcome
  <2>2. CASE AnswerEmpty
    <3>1. LedgerOf' = LedgerOf
      BY <2>2 DEF AnswerEmpty, Completed, Answer, LedgerOf, Abstract, Recorded
    <3>2. outcome.status = "none" /\ outcome'.status = "ok"
      BY <2>2
      DEF AnswerEmpty, Completed, Answer, Success, AnswerInv, Busy
    <3> QED
      BY <3>1, <3>2 DEF L!Next, L!SucceedUnchanged, ReplyOf
  <2>3. CASE BeginUpdate
    <3>1. /\ pc # "flush" /\ pc' = "flush"
          /\ provider = base /\ UNCHANGED <<provider, base, outcome>>
      BY <2>3 DEF BeginUpdate, Completed, UpdateInv, OverlayInv, Busy
    <3>2. LedgerOf' = LedgerOf
      BY <3>1 DEF LedgerOf, Abstract, Recorded
    <3> QED
      BY <1>u, <3>1, <3>2
  <2>4. ASSUME UNCHANGED UpdateVars, pc = "flush" PROVE UNCHANGED L!vars
    <3>1. LedgerOf' = LedgerOf
      BY <2>4 DEF UpdateVars, LedgerOf, Abstract, Recorded
    <3> QED
      BY <1>u, <2>4, <3>1 DEF UpdateVars
  <2>5. ASSUME NEW a \in Address, FlushAccount(a) PROVE UNCHANGED L!vars
    BY <2>4, <2>5, LocalReplies DEF FlushAccount
  <2>6. ASSUME NEW a \in Address, NEW k \in Key, FlushSlot(a, k)
        PROVE  UNCHANGED L!vars
    BY <2>4, <2>6, LocalReplies DEF FlushSlot
  <2>7. CASE AnswerUpdated
    BY <2>7, UpdateIsOneStep
  <2> QED
    BY <1>3, <2>1, <2>2, <2>3, <2>5, <2>6, <2>7 DEF Finish
<1>4. CASE UNCHANGED vars
  <2>1. LedgerOf' = LedgerOf
    BY <1>4 DEF vars, runtimeVars, LedgerOf, Abstract, Recorded
  <2> QED
    BY <1>4, <1>u, <2>1 DEF vars
<1> QED
  BY <1>1, <1>2, <1>3, <1>4 DEF Next

\* With a provider in the same process, execute is atomic: each transaction
\* takes effect on one contract, as a whole and when it is answered, or not at
\* all.
THEOREM ExecuteImplementsLedger == ASSUME ~Remote PROVE Spec => AtomicExecution
<1>1. Init => L!Init
  BY DEF Init, L!Init, LedgerOf, ReplyOf, Abstract, Recorded, NoOutcome
<1>2. Init => ExactInv /\ AnswerInv
  BY DEF Init, ExactInv, AnswerInv, Busy
<1>3. UpdateInv /\ ExactInv /\ [Next]_vars => ExactInv'
  BY ExactStepInv
<1>4. AnswerInv /\ [Next]_vars => AnswerInv'
  BY AnswerStepInv
<1>5. UpdateInv /\ ExactInv /\ ForeignInv /\ AnswerInv /\ [Next]_vars
        => [L!Next]_(L!vars)
  BY StepIsLedgerStep
<1> QED
  BY <1>1, <1>2, <1>3, <1>4, <1>5, UpdateInvariant, ForeignInvariant, PTL
  DEF Spec, AtomicExecution, L!Spec
=============================================================================
