----------------------------- MODULE SerialProofs -----------------------------
(***************************************************************************)
(* To a client that awaits each answer, DurianServer is module Serial, for *)
(* any number of requests, threads and slots.                              *)
(***************************************************************************)
EXTENDS ServerProofs

-----------------------------------------------------------------------------
(* What the client is told.                                                *)

\* A request is told to have failed when its channel was closed without a result.
ToldInv == \A r \in Request : answer[r] = "failed" => channel[r] = "closed"

\* A channel stays as its task has left it.
LEMMA ToldStepInv ==
    ASSUME TypeOK, TaskInv, AnswerInv, ToldInv, [Next]_vars
    PROVE  ToldInv'
<1>1. CASE UNCHANGED <<channel, answer>>
  BY <1>1 DEF ToldInv
<1>2. ASSUME NEW r \in Request, Poll(r) \/ Respond(r) PROVE ToldInv'
  BY <1>2 DEF Poll, Respond, ToldInv, TypeOK
<1>3. ASSUME NEW w \in Worker, worker[w] # Idle, NEW rep, Continue(w, rep)
      PROVE  ToldInv'
  <2>1. /\ worker[w] \in Request /\ answer[worker[w]] = "none"
        /\ UNCHANGED answer
    BY <1>3 DEF Continue, TypeOK, TaskInv, AnswerInv
  <2>2. UNCHANGED channel \/ \E c : channel' = [channel EXCEPT ![worker[w]] = c]
    BY <1>3 DEF Continue, EndTask
  <2> QED
    BY <2>1, <2>2 DEF ToldInv, TypeOK
<1>4. ASSUME NEW w \in Worker, TaskStep(w) PROVE ToldInv'
  BY <1>1, <1>3, <1>4 DEF TaskStep, Issue, Resume, ResumeLost
<1>5. ASSUME NEW r \in Request, Send(r) \/ Serve(r) \/ Accept(r)
      PROVE  UNCHANGED <<channel, answer>>
  BY <1>5 DEF Send, Issued, Serve, Accept
<1>6. CASE \/ HangUp \/ Notice \/ UNCHANGED vars
          \/ \E w \in Worker, r \in Request : RunTask(w, r)
  <2>1. UNCHANGED <<channel, answer>>
    BY <1>6 DEF HangUp, Notice, vars, RunTask
  <2> QED
    BY <1>1, <2>1
<1> QED
  BY <1>1, <1>2, <1>4, <1>5, <1>6 DEF Next, MainStep

-----------------------------------------------------------------------------
(* What module Serial sees.                                                *)

\* A request whose last call is done well, in terms of that call.
LEMMA WholeIs ==
    /\ \A r \in Request :
          Shape(r, task[r]) /\ task[r] # NoTask =>
            (Whole(r) <=> /\ call[r] = "served" /\ reply[r] # "err"
                          /\ Last(r, task[r]))
    /\ \A r \in Request :
          Shape(r, task'[r]) /\ task'[r] # NoTask =>
            (Whole(r)' <=> /\ call'[r] = "served" /\ reply'[r] # "err"
                           /\ Last(r, task'[r]))
BY LastCall DEF Whole

\* Half of a request is done while a slot is written that is not the last.
LEMMA HalfIs ==
    ASSUME NEW r \in Request
    PROVE  /\ r \in Half <=>
                /\ link = "up" /\ ~Whole(r)
                /\ \/ task[r].op = "create_contract" /\ call[r] = "served"
                   \/ task[r].op = "set_storage"
           /\ r \in Half' <=>
                /\ link' = "up" /\ ~Whole(r)'
                /\ \/ task'[r].op = "create_contract" /\ call'[r] = "served"
                   \/ task'[r].op = "set_storage"
BY DEF Half

\* It is what it was while the task is where it was.
LEMMA HalfKept ==
    ASSUME UNCHANGED <<task, reply, link>>,
           \A r \in Request : call'[r] = "served" <=> call[r] = "served"
    PROVE  Half' = Half
BY DEF Half, Whole

\* Only the task that runs can be half done.
LEMMA HalfSolo ==
    ASSUME NEW r \in Request, \A s \in Request : s # r => task[s] = NoTask
    PROVE  Half \subseteq {r}
<1>1. \A s \in Request : s \in Half => task[s] # NoTask
  BY HalfIs, NoTaskShape
<1> QED
  BY <1>1 DEF Half

LEMMA HalfSoloNext ==
    ASSUME NEW r \in Request, \A s \in Request : s # r => task'[s] = NoTask
    PROVE  Half' \subseteq {r}
<1>1. \A s \in Request : s \in Half' => task'[s] # NoTask
  BY HalfIs, NoTaskShape
<1> QED
  BY <1>1 DEF Half

\* The phase of a request depends on nothing of the others.
LEMMA PhaseKept ==
    ASSUME NEW r, stage'[r] = stage[r], task'[r] = task[r],
           call'[r] = call[r], reply'[r] = reply[r], channel'[r] = channel[r],
           answer'[r] = answer[r]
    PROVE  Phase(r)' = Phase(r)
BY DEF Phase, Whole

\* The phase of a request as its task goes on.
LEMMA PhaseOfTask ==
    ASSUME AnswerInv, NEW r \in Request, stage[r] \notin {"new", "finished"}
    PROVE  Phase(r) = IF Whole(r) THEN "applied" ELSE "waiting"
<1>1. channel[r] = "empty"
  BY DEF AnswerInv
<1> QED
  BY <1>1 DEF Phase

\* Before its task runs a request waits.
LEMMA PhaseBefore ==
    ASSUME NEW r, stage'[r] # "new", channel'[r] = "empty", call'[r] # "served"
    PROVE  Phase(r)' = "waiting"
BY DEF Phase, Whole

\* A step that moves one request is a step of module Serial, if that request's part
\* of it is.
LEMMA Moved ==
    ASSUME NEW r \in Request, NEW p, Phase(r)' = p,
           \A s \in Request \ {r} :
              /\ stage'[s] = stage[s] /\ task'[s] = task[s]
              /\ call'[s] = call[s] /\ reply'[s] = reply[s]
              /\ channel'[s] = channel[s] /\ answer'[s] = answer[s]
    PROVE  S!Become(r, p)
<1>1. \A s \in Request \ {r} : Phase(s)' = Phase(s)
  BY PhaseKept
<1> QED
  BY <1>1 DEF S!Become

\* The chain as module Serial sees it.
SeenCopies == IF Half \cap Deployments # {} THEN 0 ELSE copies
SeenSlots == [k \in Key |-> slots[k] \ Half]

\* One that leaves every phase and the chain as they were is no step of it.
LEMMA NotMoved ==
    ASSUME \A r \in Request : Phase(r)' = Phase(r),
           link' = "up" <=> link = "up",
           SeenCopies' = SeenCopies, SeenSlots' = SeenSlots
    PROVE  UNCHANGED S!vars
BY DEF S!vars, SeenCopies, SeenSlots

\* The chain is seen the same as long as the same is half done.
LEMMA SeenKept ==
    ASSUME UNCHANGED <<copies, slots>>, Half' = Half
    PROVE  SeenCopies' = SeenCopies /\ SeenSlots' = SeenSlots
BY DEF SeenCopies, SeenSlots

\* What is seen when one request at most is half done.
LEMMA Seen ==
    ASSUME NEW r \in Request
    PROVE  /\ Half \subseteq {r} =>
                /\ SeenCopies = IF r \in Half /\ r \in Deployments
                                THEN 0 ELSE copies
                /\ SeenSlots = [k \in Key |-> IF r \in Half THEN slots[k] \ {r}
                                                          ELSE slots[k]]
           /\ Half' \subseteq {r} =>
                /\ SeenCopies' = IF r \in Half' /\ r \in Deployments
                                 THEN 0 ELSE copies'
                /\ SeenSlots' = [k \in Key |-> IF r \in Half' THEN slots'[k] \ {r}
                                                           ELSE slots'[k]]
<1>1. ASSUME Half \subseteq {r}
      PROVE  /\ SeenCopies = IF r \in Half /\ r \in Deployments THEN 0 ELSE copies
             /\ SeenSlots = [k \in Key |-> IF r \in Half THEN slots[k] \ {r}
                                                       ELSE slots[k]]
  <2>1. Half = IF r \in Half THEN {r} ELSE {}
    BY <1>1
  <2>2. Half \cap Deployments # {} <=> r \in Half /\ r \in Deployments
    BY <1>1
  <2>3. \A k \in Key : slots[k] \ Half = IF r \in Half THEN slots[k] \ {r}
                                                       ELSE slots[k] \ {}
    BY <2>1
  <2>4. \A k \in Key : slots[k] \ {} = slots[k]
    OBVIOUS
  <2> QED
    BY <2>2, <2>3, <2>4 DEF SeenCopies, SeenSlots
<1>2. ASSUME Half' \subseteq {r}
      PROVE  /\ SeenCopies' = IF r \in Half' /\ r \in Deployments THEN 0 ELSE copies'
             /\ SeenSlots' = [k \in Key |-> IF r \in Half' THEN slots'[k] \ {r}
                                                        ELSE slots'[k]]
  <2>1. Half' = IF r \in Half' THEN {r} ELSE {}
    BY <1>2
  <2>2. Half' \cap Deployments # {} <=> r \in Half' /\ r \in Deployments
    BY <1>2
  <2>3. \A k \in Key : slots'[k] \ Half' = IF r \in Half' THEN slots'[k] \ {r}
                                                          ELSE slots'[k] \ {}
    BY <2>1
  <2>4. \A k \in Key : slots'[k] \ {} = slots'[k]
    OBVIOUS
  <2> QED
    BY <2>2, <2>3, <2>4 DEF SeenCopies, SeenSlots
<1> QED
  BY <1>1, <1>2

\* The step of module Serial that stores marks, on what it sees.
LEMMA Stores ==
    ASSUME NEW r, NEW keys, SeenCopies' = 1,
           SeenSlots' = [k \in Key |-> IF k \in keys THEN SeenSlots[k] \cup {r}
                                                     ELSE SeenSlots[k]]
    PROVE  S!Store(r, keys)
BY DEF S!Store, SeenCopies, SeenSlots

\* A request is refused for what is seen of the chain.
LEMMA RefusedIs ==
    \A r : S!Refused(r) <=> IF r \in Deployments THEN SeenCopies # 0
                                                 ELSE SeenCopies = 0
BY DEF S!Refused, SeenCopies

\* Of a client that awaits each answer, the chain before a task has written is what
\* module Serial sees.
LEMMA Unmarked ==
    ASSUME DataInv, ~overlapped, NEW r \in Request, stage[r] # "finished",
           Written(r) = {}
    PROVE  \A k \in Key : slots[k] \ {r} = slots[k]
BY DEF DataInv, MarksInv

-----------------------------------------------------------------------------
(* The steps of the server as steps of module Serial.                      *)

SerialInv == ServerInv /\ ToldInv

\* A request is sent when every other has been answered.
LEMMA SendBegins ==
    ASSUME SerialInv, ~overlapped', NEW r \in Request, Send(r)
    PROVE  S!Begin(r)
<1> USE DEF SerialInv, ServerInv
<1>1. Outstanding = {}
  BY DEF Send, Issued
<1>2. /\ stage[r] = "new" /\ stage' = [stage EXCEPT ![r] = "sent"]
      /\ link = "up"
      /\ UNCHANGED <<task, call, reply, channel, answer, link, copies, slots>>
  BY DEF Send, Issued, taskVars
<1>3. channel[r] = "empty" /\ call[r] = "none"
  BY <1>2 DEF AnswerInv, TaskInv, TypeOK
<1>4. Phase(r) = "new"
  BY <1>2, <1>3 DEF Phase
<1>5. ASSUME NEW s \in Request PROVE Phase(s) \in {"new", "ok", "err"}
  <2>1. stage[s] = "new" \/ Answered(s)
    BY <1>1 DEF Outstanding
  <2>2. /\ answer[s] = "ok" => channel[s] = "sent"
        /\ answer[s] = "failed" => channel[s] = "closed"
    BY DEF AnswerInv, ToldInv
  <2>3. stage[s] = "new" => channel[s] = "empty"
    BY DEF AnswerInv
  <2>4. CASE stage[s] = "new"
    BY <2>3, <2>4 DEF Phase
  <2>5. CASE Answered(s)
    <3>1. stage[s] # "new"
      BY <2>2, <2>3, <2>5 DEF Answered
    <3> QED
      BY <2>2, <2>5, <3>1 DEF Phase, Answered
  <2> QED
    BY <2>1, <2>4, <2>5
<1>6. stage'[r] = "sent" /\ channel'[r] = "empty" /\ call'[r] = "none"
  BY <1>2, <1>3 DEF TypeOK
<1>7. Phase(r)' = "waiting"
  BY <1>6, PhaseBefore
<1>8. \A s \in Request \ {r} : stage'[s] = stage[s]
  BY <1>2 DEF TypeOK
<1>9. S!Become(r, "waiting")
  BY <1>2, <1>7, <1>8, Moved
<1>10. SeenCopies' = SeenCopies /\ SeenSlots' = SeenSlots
  BY <1>2, HalfKept, SeenKept
<1> QED
  BY <1>2, <1>4, <1>5, <1>9, <1>10 DEF S!Begin, SeenCopies, SeenSlots

\* The last provider call of a task carries its request out, on the chain as the
\* requests before it have left it; the calls before the last are not seen.
LEMMA ServeApplies ==
    ASSUME SerialInv, ~overlapped, NEW r \in Request, Serve(r)
    PROVE  S!Apply(r) \/ UNCHANGED S!vars
<1> USE DEF SerialInv, ServerInv
<1>1. /\ link = "up" /\ call[r] = "issued" /\ call'[r] = "served"
      /\ stage[r] = "running" /\ task[r] # NoTask /\ Shape(r, task[r])
      /\ task' = task
      /\ UNCHANGED <<stage, channel, answer, link>>
  BY DEF Serve, TypeOK, TaskInv
<1>2. \A s \in Request : s # r => task[s] = NoTask /\ task'[s] = NoTask
  BY <1>1, OthersIdle
<1>3. Half \subseteq {r} /\ Half' \subseteq {r}
  BY <1>2, HalfSolo, HalfSoloNext
<1>4. PICK op : op = task[r].op
  OBVIOUS
<1>5. op \in Ops /\ op # "none"
  BY <1>1, <1>4 DEF Shape, TaskSet, SlotOps, NoTask
<1>6. r \in Half <=> op = "set_storage"
  BY <1>1, <1>4, HalfIs, WholeIs
<1>7. Phase(r) = "waiting"
  BY <1>1, PhaseOfTask, WholeIs
<1>8. Whole(r)' <=> reply'[r] # "err" /\ Last(r, task[r])
  BY <1>1, WholeIs
<1>9. reply'[r] = ServedReply(op)
  BY <1>4 DEF Serve, TypeOK
<1>10. Phase(r)' = IF Whole(r)' THEN "applied" ELSE "waiting"
  BY <1>1 DEF Phase, AnswerInv
<1>11. \A s \in Request \ {r} :
          /\ stage'[s] = stage[s] /\ task'[s] = task[s]
          /\ call'[s] = call[s] /\ reply'[s] = reply[s]
          /\ channel'[s] = channel[s] /\ answer'[s] = answer[s]
  BY <1>1 DEF Serve, TypeOK
<1>12. copies \in Nat /\ copies <= 1
  BY DEF TypeOK, DataInv
<1>13. Dirty[r] \subseteq Key
  BY ServerAssumption
<1>14. CASE Whole(r)'
  <2>1. r \notin Half'
    BY <1>14, HalfIs
  <2>2. S!Become(r, "applied")
    BY <1>10, <1>11, <1>14, Moved
  <2>3. Last(r, task[r]) /\ reply'[r] # "err"
    BY <1>8, <1>14
  <2>4. CASE op = "set_storage"
    <3>1. PICK k \in Key :
            /\ k = task[r].key /\ task[r].left = {}
            /\ slots' = [slots EXCEPT ![k] = @ \cup {r}] /\ copies' = copies
      BY <1>4, <2>3, <2>4, ServeSlots DEF Last
    <3>2. copies = 1
      <4>1. Found(r) /\ task[r].op = "set_storage"
        BY <1>4, <2>4 DEF FoundInv
      <4>2. copies > 0
        BY <4>1 DEF Found
      <4> QED
        BY <1>12, <4>2
    <3>3. ASSUME NEW j \in Key
          PROVE  slots'[j] = IF j \in Dirty[r] THEN (slots[j] \ {r}) \cup {r}
                                              ELSE slots[j] \ {r}
      <4>1. CASE j = k
        <5>1. k \in Dirty[r] /\ slots'[k] = slots[k] \cup {r}
          BY <1>1, <1>4, <2>4, <3>1 DEF Shape, SlotOps, TypeOK
        <5> QED
          BY <4>1, <5>1
      <4>2. CASE j # k /\ j \in Dirty[r]
        <5>1. r \in slots[j]
          BY <1>1, <1>4, <2>4, <3>1, <4>2 DEF DataInv, Current, Rest
        <5> QED
          BY <3>1, <4>2, <5>1 DEF TypeOK
      <4>3. CASE j # k /\ j \notin Dirty[r]
        <5>1. r \notin slots[j]
          BY <1>1, <4>3 DEF DataInv, MarksInv, Written
        <5> QED
          BY <3>1, <4>3, <5>1 DEF TypeOK
      <4> QED
        BY <4>1, <4>2, <4>3
    <3>4. SeenSlots = [j \in Key |-> slots[j] \ {r}]
      BY <1>3, <1>6, <2>4, Seen
    <3>5. SeenSlots' = [j \in Key |-> slots'[j]]
      BY <1>3, <2>1, Seen
    <3>6. \A j \in Key : SeenSlots[j] = slots[j] \ {r}
      BY <3>4
    <3>7. SeenSlots' = [j \in Key |-> IF j \in Dirty[r] THEN SeenSlots[j] \cup {r}
                                                       ELSE SeenSlots[j]]
      BY <3>3, <3>5, <3>6
    <3>8. SeenCopies' = 1
      BY <1>3, <2>1, <3>1, <3>2, Seen
    <3>9. S!Store(r, Dirty[r])
      BY <3>7, <3>8, Stores
    <3>10. SeenCopies = IF r \in Deployments THEN 0 ELSE 1
      BY <1>3, <1>6, <2>4, <3>2, Seen
    <3>11. ~S!Refused(r)
      BY <3>10, RefusedIs
    <3> QED
      BY <1>1, <1>7, <2>2, <3>9, <3>11 DEF S!Apply
  <2>5. CASE op # "set_storage"
    <3>1. r \notin Half /\ Dirty[r] = {}
      BY <1>4, <1>6, <2>3, <2>5 DEF Last
    <3>2. slots' = slots
      BY <1>4, <2>5, ServeSlots
    <3>3. op \in {"account", "create_contract"}
      BY <1>4, <1>9, <2>3, <2>5 DEF Last, ServedReply
    <3>4. /\ op = "account" => r \notin Deployments
          /\ op = "create_contract" => r \in Deployments
      BY <1>1, <1>4 DEF Shape
    <3>5. /\ op = "account" => copies = 1 /\ copies' = 1
          /\ op = "create_contract" => copies = 0 /\ copies' = 1
      <4>1. op = "account" => copies' = copies
        BY <1>4, ServeSlots
      <4>2. op = "account" => copies > 0
        BY <1>9, <2>3, <1>12 DEF ServedReply
      <4>3. op = "create_contract" => copies = 0 /\ copies' = 1
        BY <1>4, ServeSlots
      <4> QED
        BY <1>12, <4>1, <4>2, <4>3
    <3>6. SeenCopies = copies /\ SeenCopies' = copies'
      BY <1>3, <2>1, <3>1, Seen
    <3>7. SeenSlots = [k \in Key |-> slots[k]] /\ SeenSlots' = [k \in Key |-> slots[k]]
      BY <1>3, <2>1, <3>1, <3>2, Seen
    <3>8. SeenSlots' = [k \in Key |-> IF k \in Dirty[r] THEN SeenSlots[k] \cup {r}
                                                       ELSE SeenSlots[k]]
      BY <3>1, <3>7
    <3>9. S!Store(r, Dirty[r])
      BY <3>3, <3>5, <3>6, <3>8, Stores
    <3>10. ~S!Refused(r)
      BY <3>3, <3>4, <3>5, <3>6, RefusedIs
    <3> QED
      BY <1>1, <1>7, <2>2, <3>9, <3>10 DEF S!Apply
  <2> QED
    BY <2>4, <2>5
<1>15. CASE ~Whole(r)'
  <2>1. r \in Half' <=> op \in {"create_contract", "set_storage"}
    BY <1>1, <1>4, <1>15, HalfIs
  <2>2. \A s \in Request : Phase(s)' = Phase(s)
    BY <1>7, <1>10, <1>11, <1>15, PhaseKept
  <2>3. CASE op = "set_storage"
    <3>1. PICK k \in Key : /\ slots' = [slots EXCEPT ![k] = @ \cup {r}]
                           /\ copies' = copies
      BY <1>4, <2>3, ServeSlots
    <3>2. \A j \in Key : slots'[j] \ {r} = slots[j] \ {r}
      BY <3>1 DEF TypeOK
    <3>3. r \in Half /\ r \in Half'
      BY <1>6, <2>1, <2>3
    <3>4. SeenCopies' = SeenCopies
      BY <1>3, <3>1, <3>3, Seen
    <3>5. /\ SeenSlots = [j \in Key |-> slots[j] \ {r}]
          /\ SeenSlots' = [j \in Key |-> slots'[j] \ {r}]
      BY <1>3, <3>3, Seen
    <3> QED
      BY <1>1, <2>2, <3>2, <3>4, <3>5, NotMoved
  <2>4. CASE op = "create_contract"
    <3>1. /\ copies = 0 /\ copies' = 1 /\ slots' = slots
          /\ slots = Fresh /\ r \in Deployments
      BY <1>4, <2>4, ServeSlots
    <3>2. \A k \in Key : slots'[k] \ {r} = slots[k]
      BY <3>1 DEF Fresh
    <3>3. r \notin Half /\ r \in Half'
      BY <1>6, <2>1, <2>4
    <3>4. SeenCopies' = SeenCopies
      BY <1>3, <3>1, <3>3, Seen
    <3>5. /\ SeenSlots = [j \in Key |-> slots[j]]
          /\ SeenSlots' = [j \in Key |-> slots'[j] \ {r}]
      BY <1>3, <3>3, Seen
    <3> QED
      BY <1>1, <2>2, <3>2, <3>4, <3>5, NotMoved
  <2>5. CASE op \notin {"set_storage", "create_contract"}
    <3>1. copies' = copies /\ slots' = slots
      BY <1>4, <2>5, ServeSlots
    <3> QED
      BY <1>1, <1>3, <1>6, <2>1, <2>2, <2>5, <3>1, Seen, NotMoved
  <2> QED
    BY <2>3, <2>4, <2>5
<1> QED
  BY <1>14, <1>15

\* A client that hangs up leaves what the one task that ran has written so far.
LEMMA HangUpLoses ==
    ASSUME SerialInv, ~overlapped, HangUp
    PROVE  S!Lose
<1> USE DEF SerialInv, ServerInv
<1>1. /\ link = "up" /\ link' = "down"
      /\ UNCHANGED <<stage, task, call, reply, channel, answer, copies, slots>>
  BY DEF HangUp, taskVars, clientVars
<1>2. \A r \in Request : Phase(r)' = Phase(r)
  BY <1>1, PhaseKept
<1>3. Half' = {}
  BY <1>1 DEF Half
<1>4. SeenCopies' = copies /\ SeenSlots' = [k \in Key |-> slots[k]]
  <2>1. \A k \in Key : slots[k] \ {} = slots[k]
    OBVIOUS
  <2> QED
    BY <1>1, <1>3, <2>1 DEF SeenCopies, SeenSlots
<1>5. CASE Half = {}
  <2>1. SeenCopies' = SeenCopies /\ SeenSlots' = SeenSlots
    BY <1>1, <1>3, <1>5, SeenKept
  <2> QED
    BY <1>1, <1>2, <2>1 DEF S!Lose, SeenCopies, SeenSlots
<1>6. ASSUME NEW r \in Request, r \in Half PROVE S!Lose
  <2>1. PICK op : op = task[r].op
    OBVIOUS
  <2>2. /\ ~Whole(r)
        /\ \/ op = "create_contract" /\ call[r] = "served"
           \/ op = "set_storage"
    BY <1>6, <2>1, HalfIs
  <2>3. task[r] # NoTask /\ stage[r] = "running" /\ Shape(r, task[r])
    BY <2>1, <2>2, NoTaskShape DEF TypeOK, TaskInv
  <2>4. Half \subseteq {r}
    BY <2>3, OthersIdle, HalfSolo
  <2>5. Found(r) /\ Current(r) /\ copies \in Nat /\ copies <= 1 /\ MarksInv
    BY <1>1 DEF FoundInv, DataInv, TypeOK
  <2>6. copies = 1 /\ (call[r] = "served" => reply[r] # "err")
    BY <2>1, <2>2, <2>5 DEF Found
  <2>7. Written(r) = IF op = "set_storage" THEN Dirty[r] \ Rest(r) ELSE {}
    BY <2>1 DEF Written, Rest
  <2>8. Written(r) \subseteq Dirty[r] /\ Written(r) # Dirty[r]
    <3>1. CASE op = "set_storage"
      <4>1. task[r].key \in Dirty[r] /\ task[r].left \subseteq Dirty[r]
        BY <2>1, <2>3, <3>1 DEF Shape, SlotOps
      <4>2. call[r] = "served" => task[r].left # {}
        BY <2>1, <2>2, <2>3, <2>6, <3>1, WholeIs DEF Last
      <4>3. \E k \in Dirty[r] : k \in Rest(r)
        BY <4>1, <4>2 DEF Rest
      <4> QED
        BY <2>7, <3>1, <4>3
    <3>2. CASE op # "set_storage"
      <4>1. Dirty[r] # {}
        BY <2>1, <2>2, <2>3, <2>6, <3>2, WholeIs DEF Last
      <4> QED
        BY <2>7, <3>2, <4>1
    <3> QED
      BY <3>1, <3>2
  <2>9. Written(r) \in SUBSET Key
    BY <2>8, ServerAssumption
  <2>10. ASSUME NEW k \in Key
         PROVE  slots[k] = IF k \in Written(r) THEN (slots[k] \ {r}) \cup {r}
                                               ELSE slots[k] \ {r}
    <3>1. k \in Written(r) => r \in slots[k]
      BY <2>1, <2>5, <2>7 DEF Current
    <3>2. k \notin Written(r) => r \notin slots[k]
      BY <2>3, <2>5 DEF MarksInv
    <3> QED
      BY <3>1, <3>2
  <2>11. /\ SeenCopies = IF r \in Deployments THEN 0 ELSE 1
         /\ SeenSlots = [k \in Key |-> slots[k] \ {r}]
    BY <1>6, <2>4, <2>6, Seen
  <2>k. PICK keys : keys = Written(r)
    OBVIOUS
  <2>12. SeenSlots' = [k \in Key |-> IF k \in keys THEN SeenSlots[k] \cup {r}
                                                  ELSE SeenSlots[k]]
    BY <1>4, <2>10, <2>11, <2>k
  <2>13. S!Store(r, keys)
    BY <1>4, <2>6, <2>12, Stores
  <2>14. ~S!Refused(r)
    BY <2>11, RefusedIs
  <2>15. Phase(r) = "waiting"
    BY <2>2, <2>3, PhaseOfTask
  <2> QED
    <3>1. keys \in SUBSET Key /\ keys \subseteq Dirty[r] /\ keys # Dirty[r]
      BY <2>8, <2>9, <2>k
    <3> QED
      BY <1>1, <1>2, <2>13, <2>14, <2>15, <3>1 DEF S!Lose
<1> QED
  BY <1>5, <1>6 DEF Half

\* An answer comes from the channel, and says what the task put in it.
LEMMA MainTells ==
    ASSUME SerialInv, NEW r \in Request, MainStep(r)
    PROVE  S!Tell(r) \/ UNCHANGED S!vars
<1> USE DEF SerialInv, ServerInv
<1>1. ASSUME Accept(r) PROVE UNCHANGED S!vars
  <2>1. /\ stage[r] = "sent" /\ stage' = [stage EXCEPT ![r] = "queued"]
        /\ UNCHANGED <<task, call, reply, channel, answer, link, copies, slots>>
    BY <1>1 DEF Accept, taskVars, clientVars
  <2>2. channel[r] = "empty" /\ call[r] = "none"
    BY <2>1 DEF AnswerInv, TaskInv, TypeOK
  <2>3. stage'[r] = "queued" /\ channel'[r] = "empty" /\ call'[r] = "none"
    BY <2>1, <2>2 DEF TypeOK
  <2>4. Phase(r) = "waiting"
    BY <2>1, <2>2, PhaseOfTask DEF Whole
  <2>5. Phase(r)' = "waiting"
    BY <2>3, PhaseBefore
  <2>6. \A s \in Request \ {r} : stage'[s] = stage[s]
    BY <2>1 DEF TypeOK
  <2>7. \A s \in Request \ {r} : Phase(s)' = Phase(s)
    BY <2>1, <2>6, PhaseKept
  <2>8. SeenCopies' = SeenCopies /\ SeenSlots' = SeenSlots
    BY <2>1, HalfKept, SeenKept
  <2> QED
    BY <2>1, <2>4, <2>5, <2>7, <2>8, NotMoved
<1>2. ASSUME Poll(r) \/ Respond(r) PROVE S!Tell(r) \/ UNCHANGED S!vars
  <2>1. /\ \/ /\ answer[r] = "none" /\ channel[r] = "sent"
              /\ answer'[r] = "delayed"
           \/ /\ answer[r] = "none" /\ channel[r] = "closed"
              /\ answer'[r] = "failed"
           \/ /\ answer[r] = "delayed" /\ channel[r] = "sent"
              /\ answer'[r] = "ok"
        /\ \A s \in Request \ {r} : answer'[s] = answer[s]
        /\ UNCHANGED <<stage, task, call, reply, channel, link, copies, slots>>
    BY <1>2 DEF Poll, Respond, AnswerInv, TypeOK, taskVars, clientVars
  <2>2. stage[r] = "finished"
    BY <2>1 DEF AnswerInv
  <2>s. SeenCopies' = SeenCopies /\ SeenSlots' = SeenSlots
    BY <2>1, HalfKept, SeenKept
  <2>3. CASE answer'[r] = "delayed"
    <3>1. Phase(r) = "done" /\ Phase(r)' = "done"
      BY <2>1, <2>2, <2>3 DEF Phase
    <3>2. \A s \in Request \ {r} : Phase(s)' = Phase(s)
      BY <2>1, PhaseKept
    <3> QED
      BY <2>1, <2>s, <3>1, <3>2, NotMoved
  <2>4. CASE answer'[r] = "failed"
    <3>1. Phase(r) = "failed" /\ Phase(r)' = "err"
      BY <2>1, <2>2, <2>4 DEF Phase
    <3>2. S!Become(r, "err")
      BY <2>1, <3>1, Moved
    <3> QED
      BY <2>1, <2>s, <3>1, <3>2 DEF S!Tell, SeenCopies, SeenSlots
  <2>5. CASE answer'[r] = "ok"
    <3>1. Phase(r) = "done" /\ Phase(r)' = "ok"
      BY <2>1, <2>2, <2>5 DEF Phase
    <3>2. S!Become(r, "ok")
      BY <2>1, <3>1, Moved
    <3> QED
      BY <2>1, <2>s, <3>1, <3>2 DEF S!Tell, SeenCopies, SeenSlots
  <2> QED
    BY <2>1, <2>3, <2>4, <2>5
<1> QED
  BY <1>1, <1>2 DEF MainStep

\* The end of a task is the outcome of its request: it was carried out, or refused,
\* or the client has hung up.
LEMMA EndIsOutcome ==
    ASSUME SerialInv, ~overlapped, NEW r \in Request, stage[r] = "running",
           task[r] # NoTask, Shape(r, task[r]), Half \subseteq {r}, Half' \subseteq {r},
           NEW rep, rep = "err" \/ Following(r, task[r], rep) = {},
           link = "closed" \/ (call[r] = "served" /\ rep = reply[r]),
           stage' = [stage EXCEPT ![r] = "finished"],
           channel' = [channel EXCEPT ![r] = IF rep # "err" /\ link # "closed"
                                             THEN "sent" ELSE "closed"],
           task' = [task EXCEPT ![r] = NoTask],
           call' = [call EXCEPT ![r] = "none"],
           reply' = [reply EXCEPT ![r] = "none"],
           UNCHANGED <<answer, link, copies, slots>>
    PROVE  S!Succeed(r) \/ S!Fail(r)
<1> USE DEF SerialInv, ServerInv
<1>1. \A s \in Request \ {r} :
         /\ stage'[s] = stage[s] /\ task'[s] = task[s]
         /\ call'[s] = call[s] /\ reply'[s] = reply[s]
         /\ channel'[s] = channel[s] /\ answer'[s] = answer[s]
  BY DEF TypeOK
<1>2. stage'[r] = "finished" /\ answer'[r] = "none" /\ task'[r] = NoTask
  BY DEF TypeOK, AnswerInv
<1>3. Half' = {}
  <2>1. r \notin Half'
    BY <1>2, NoTaskShape, HalfIs
  <2> QED
    BY <2>1
<1>4. Phase(r) = IF Whole(r) THEN "applied" ELSE "waiting"
  BY PhaseOfTask
<1>5. ASSUME Half = {} PROVE SeenCopies' = SeenCopies /\ SeenSlots' = SeenSlots
  BY <1>3, <1>5, SeenKept
<1>6. CASE link # "closed" /\ rep # "err"
  <2>1. Phase(r)' = "done"
    <3>1. channel'[r] = "sent"
      BY <1>6 DEF TypeOK
    <3> QED
      BY <1>2, <3>1 DEF Phase
  <2>2. S!Become(r, "done")
    BY <1>1, <2>1, Moved
  <2>3. Whole(r)
    BY <1>6 DEF Whole
  <2>4. Half = {}
    BY <2>3, HalfIs
  <2> QED
    BY <1>4, <1>5, <2>2, <2>3, <2>4 DEF S!Succeed, SeenCopies, SeenSlots
<1>7. CASE ~(link # "closed" /\ rep # "err")
  <2>1. Phase(r)' = "failed"
    <3>1. channel'[r] = "closed"
      BY <1>7 DEF TypeOK
    <3> QED
      BY <1>2, <3>1 DEF Phase
  <2>2. S!Become(r, "failed")
    BY <1>1, <2>1, Moved
  <2>3. CASE link = "closed"
    <3>1. Half = {}
      BY <2>3 DEF Half
    <3> QED
      BY <1>4, <1>5, <2>2, <2>3, <3>1 DEF S!Fail, SeenCopies, SeenSlots
  <2>4. CASE link # "closed"
    <3>1. call[r] = "served" /\ reply[r] = "err" /\ Found(r) /\ Current(r)
      BY <1>7, <2>4 DEF FoundInv, DataInv
    <3>2. PICK op : op = task[r].op
      OBVIOUS
    <3>3. op \in {"account", "update_account"}
      BY <3>1, <3>2 DEF Found
    <3>4. Half = {}
      BY <3>2, <3>3, HalfIs
    <3>5. Phase(r) = "waiting"
      BY <1>4, <3>1 DEF Whole
    <3>6. IF r \in Deployments THEN copies > 0 ELSE copies = 0
      <4>1. op = "account" => r \notin Deployments /\ copies = 0
        BY <3>1, <3>2 DEF Shape, Current
      <4>2. op = "update_account" => r \in Deployments /\ copies > 0
        BY <3>1, <3>2 DEF Shape, Found
      <4> QED
        BY <3>3, <4>1, <4>2
    <3>7. SeenCopies = copies /\ copies \in Nat
      BY <3>4 DEF SeenCopies, TypeOK
    <3>8. S!Refused(r)
      BY <3>6, <3>7, RefusedIs
    <3> QED
      BY <1>5, <2>2, <3>4, <3>5, <3>8 DEF S!Fail, SeenCopies, SeenSlots
  <2> QED
    BY <2>3, <2>4
<1> QED
  BY <1>6, <1>7

\* A task that goes on has not carried its request out, and what it has written is
\* not seen.
LEMMA GoingOnIsUnseen ==
    ASSUME SerialInv, ~overlapped, NEW r \in Request, stage[r] = "running",
           task[r] # NoTask, Shape(r, task[r]), Half \subseteq {r}, Half' \subseteq {r},
           NEW rep, rep # "err",
           link = "closed" \/ (call[r] = "served" /\ rep = reply[r]),
           NEW t, Shape(r, t), t # NoTask, NextCall(r, rep, t),
           task' = [task EXCEPT ![r] = t],
           call' = [call EXCEPT ![r] = "none"],
           reply' = [reply EXCEPT ![r] = "none"],
           UNCHANGED <<stage, channel, answer, link, copies, slots>>
    PROVE  UNCHANGED S!vars
<1> USE DEF SerialInv, ServerInv
<1>1. \A s \in Request \ {r} :
         task'[s] = task[s] /\ call'[s] = call[s] /\ reply'[s] = reply[s]
  BY DEF TypeOK
<1>2. task'[r] = t /\ call'[r] = "none" /\ channel'[r] = "empty"
  BY DEF TypeOK, AnswerInv
<1>3. ~Last(r, task[r])
  BY DEF Last, NextCall, SlotOps
<1>4. ~Whole(r) /\ ~Whole(r)'
  BY <1>2, <1>3, WholeIs DEF Whole
<1>5. Phase(r) = "waiting"
  BY <1>4, PhaseOfTask
<1>6. Phase(r)' = "waiting"
  BY <1>2, PhaseBefore
<1>7. \A s \in Request : Phase(s)' = Phase(s)
  BY <1>1, <1>5, <1>6, PhaseKept
<1>8. SeenCopies' = SeenCopies /\ SeenSlots' = SeenSlots
  <2>1. r \in Half <=> /\ link = "up"
                       /\ \/ task[r].op = "create_contract" /\ call[r] = "served"
                          \/ task[r].op = "set_storage"
    BY <1>4, HalfIs
  <2>2. r \in Half' <=> link = "up" /\ t.op = "set_storage"
    BY <1>2, <1>4, HalfIs
  <2>3. CASE link # "up" \/ t.op # "set_storage"
                         \/ task[r].op \in {"create_contract", "set_storage"}
    <3>1. link = "up" /\ t.op # "set_storage" =>
             task[r].op \notin {"create_contract", "set_storage"}
      BY DEF NextCall, SlotOps
    <3>2. link = "up" => call[r] = "served"
      OBVIOUS
    <3>3. r \in Half <=> r \in Half'
      BY <2>1, <2>2, <2>3, <3>1, <3>2
    <3>4. Half' = Half
      BY <3>3
    <3> QED
      BY <3>4, SeenKept
  <2>4. CASE /\ link = "up" /\ t.op = "set_storage"
             /\ task[r].op \notin {"create_contract", "set_storage"}
    <3>1. call[r] = "served" /\ rep = reply[r] /\ Found(r)
      BY <2>4 DEF FoundInv
    <3>2. task[r].op = "storage_at"
      <4>1. task[r].op # "update_account"
        BY <3>1 DEF Found
      <4> QED
        BY <2>4, <4>1 DEF NextCall, SlotOps
    <3>3. r \notin Deployments /\ Written(r) = {}
      BY <3>2 DEF Shape, Written
    <3>4. r \notin Half /\ r \in Half'
      BY <2>1, <2>2, <2>4
    <3>5. SeenCopies' = SeenCopies
      BY <3>3, <3>4, Seen
    <3>6. \A k \in Key : slots[k] \ {r} = slots[k]
      BY <3>3, Unmarked
    <3>7. /\ SeenSlots = [k \in Key |-> slots[k]]
          /\ SeenSlots' = [k \in Key |-> slots[k] \ {r}]
      BY <3>4, Seen
    <3> QED
      BY <3>5, <3>6, <3>7
  <2> QED
    BY <2>3, <2>4
<1> QED
  BY <1>7, <1>8, NotMoved

\* A reply ends a task or takes it on.
LEMMA ContinueEnds ==
    ASSUME SerialInv, ~overlapped, NEW w \in Worker, worker[w] # Idle,
           NEW rep, Continue(w, rep),
           link = "closed" \/ (call[worker[w]] = "served" /\ rep = reply[worker[w]])
    PROVE  (\E r \in Request : S!Succeed(r) \/ S!Fail(r)) \/ UNCHANGED S!vars
<1> USE DEF SerialInv, ServerInv
<1>1. PICK r \in Request :
        /\ r = worker[w] /\ stage[r] = "running" /\ task[r] # NoTask
        /\ call' = [call EXCEPT ![r] = "none"]
        /\ reply' = [reply EXCEPT ![r] = "none"]
        /\ UNCHANGED <<answer, link, copies, slots, overlapped>>
        /\ \/ /\ rep = "err" \/ Following(r, task[r], rep) = {}
              /\ stage' = [stage EXCEPT ![r] = "finished"]
              /\ channel' = [channel EXCEPT ![r] =
                                IF rep # "err" /\ link # "closed"
                                THEN "sent" ELSE "closed"]
              /\ task' = [task EXCEPT ![r] = NoTask]
              /\ read' = [read EXCEPT ![r] = Fresh]
           \/ /\ rep # "err"
              /\ \E t : /\ Shape(r, t) /\ t # NoTask /\ NextCall(r, rep, t)
                        /\ task' = [task EXCEPT ![r] = t]
              /\ UNCHANGED <<stage, channel, read>>
  BY ContinueTask
<1>2. Shape(r, task[r])
  BY DEF TaskInv
<1>3. \A s \in Request : s # r => task[s] = NoTask
  BY <1>1, OthersIdle
<1>4. \A s \in Request : s # r => task'[s] = NoTask
  BY <1>1, <1>3 DEF TypeOK
<1>5. Half \subseteq {r} /\ Half' \subseteq {r}
  BY <1>3, <1>4, HalfSolo, HalfSoloNext
<1>6. link = "closed" \/ (call[r] = "served" /\ rep = reply[r])
  BY <1>1
<1>7. ASSUME rep = "err" \/ Following(r, task[r], rep) = {},
             stage' = [stage EXCEPT ![r] = "finished"],
             channel' = [channel EXCEPT ![r] = IF rep # "err" /\ link # "closed"
                                               THEN "sent" ELSE "closed"],
             task' = [task EXCEPT ![r] = NoTask]
      PROVE  S!Succeed(r) \/ S!Fail(r)
  BY <1>1, <1>2, <1>5, <1>6, <1>7, EndIsOutcome
<1>8. ASSUME rep # "err", UNCHANGED <<stage, channel>>,
             NEW t, Shape(r, t), t # NoTask, NextCall(r, rep, t),
             task' = [task EXCEPT ![r] = t]
      PROVE  UNCHANGED S!vars
  BY <1>1, <1>2, <1>5, <1>6, <1>8, GoingOnIsUnseen
<1> QED
  BY <1>1, <1>7, <1>8

\* What the threads of the runtime do.
LEMMA TasksAreSerial ==
    ASSUME SerialInv, ~overlapped, NEW w \in Worker,
           TaskStep(w) \/ \E r \in Request : RunTask(w, r)
    PROVE  (\E r \in Request : S!Succeed(r) \/ S!Fail(r)) \/ UNCHANGED S!vars
<1> USE DEF SerialInv, ServerInv
<1>k. ASSUME NEW r \in Request, stage[r] \notin {"new", "finished"},
             stage'[r] \notin {"new", "finished"}, channel'[r] = channel[r],
             call[r] # "served", call'[r] # "served",
             \A s \in Request \ {r} :
                /\ stage'[s] = stage[s] /\ task'[s] = task[s]
                /\ call'[s] = call[s] /\ reply'[s] = reply[s]
                /\ channel'[s] = channel[s] /\ answer'[s] = answer[s],
             Half' = Half, UNCHANGED <<link, copies, slots>>
      PROVE  UNCHANGED S!vars
  <2>1. channel[r] = "empty"
    BY <1>k DEF AnswerInv
  <2>2. Phase(r) = "waiting"
    BY <1>k, PhaseOfTask DEF Whole
  <2>3. Phase(r)' = "waiting"
    BY <1>k, <2>1, PhaseBefore
  <2>4. \A s \in Request \ {r} : Phase(s)' = Phase(s)
    BY <1>k, PhaseKept
  <2>5. SeenCopies' = SeenCopies /\ SeenSlots' = SeenSlots
    BY <1>k, SeenKept
  <2> QED
    BY <1>k, <2>2, <2>3, <2>4, <2>5, NotMoved
<1>1. ASSUME NEW r \in Request, RunTask(w, r) PROVE UNCHANGED S!vars
  <2>1. /\ stage[r] = "queued" /\ stage' = [stage EXCEPT ![r] = "running"]
        /\ task' = [task EXCEPT ![r] = First(r)]
        /\ UNCHANGED <<call, reply, channel, answer, link, copies, slots>>
    BY <1>1 DEF RunTask, clientVars
  <2>2. call[r] = "none" /\ task[r] = NoTask
    BY <2>1 DEF TaskInv, TypeOK
  <2>3. \A s \in Request \ {r} : stage'[s] = stage[s] /\ task'[s] = task[s]
    BY <2>1 DEF TypeOK
  <2>4. stage'[r] = "running"
    BY <2>1 DEF TypeOK
  <2>5. task'[r].op \in {"exist", "account"}
    BY <2>1, FirstShape DEF TypeOK
  <2>6. r \notin Half /\ r \notin Half'
    BY <2>2, <2>5, NoTaskShape, HalfIs
  <2>7. \A s \in Request \ {r} : s \in Half' <=> s \in Half
    BY <2>1, <2>3 DEF Half, Whole
  <2>8. Half' = Half
    BY <2>6, <2>7 DEF Half
  <2> QED
    BY <1>k, <2>1, <2>2, <2>3, <2>4, <2>8
<1>2. ASSUME Issue(w) PROVE UNCHANGED S!vars
  <2>r. PICK r \in Request : r = worker[w]
    BY <1>2 DEF Issue, TypeOK
  <2>1. /\ call[r] = "none" /\ call' = [call EXCEPT ![r] = "issued"]
        /\ UNCHANGED <<stage, task, reply, channel, answer, link, copies, slots>>
    BY <1>2, <2>r DEF Issue, clientVars
  <2>2. stage[r] = "running"
    BY <1>2, <2>r DEF Issue, TaskInv
  <2>3. \A s \in Request \ {r} : call'[s] = call[s]
    BY <2>1 DEF TypeOK
  <2>4. call'[r] = "issued"
    BY <2>1 DEF TypeOK
  <2>5. \A s \in Request : call'[s] = "served" <=> call[s] = "served"
    BY <2>1, <2>3, <2>4
  <2>6. Half' = Half
    BY <2>1, <2>5, HalfKept
  <2> QED
    BY <1>k, <2>1, <2>2, <2>3, <2>4, <2>6
<1>3. ASSUME Resume(w)
      PROVE  (\E r \in Request : S!Succeed(r) \/ S!Fail(r)) \/ UNCHANGED S!vars
  <2>1. /\ worker[w] # Idle /\ call[worker[w]] = "served"
        /\ Continue(w, reply[worker[w]])
    BY <1>3 DEF Resume
  <2>2. PICK rep : rep = reply[worker[w]] /\ Continue(w, rep)
    BY <2>1
  <2> QED
    BY <2>1, <2>2, ContinueEnds
<1>4. ASSUME ResumeLost(w)
      PROVE  (\E r \in Request : S!Succeed(r) \/ S!Fail(r)) \/ UNCHANGED S!vars
  <2>1. /\ worker[w] # Idle /\ link = "closed"
        /\ Continue(w, LostReply(task[worker[w]].op))
    BY <1>4 DEF ResumeLost
  <2>2. PICK rep : rep = LostReply(task[worker[w]].op) /\ Continue(w, rep)
    BY <2>1
  <2> QED
    BY <2>1, <2>2, ContinueEnds
<1> QED
  BY <1>1, <1>2, <1>3, <1>4 DEF TaskStep

\* Every step of the server is one of module Serial, or one it does not see.
LEMMA SerialStep ==
    ASSUME SerialInv, ~overlapped', [Next]_vars
    PROVE  S!Next \/ UNCHANGED S!vars
<1>1. ASSUME NEW r \in Request, Send(r) PROVE S!Next
  BY <1>1, SendBegins DEF S!Next
<1>2. ASSUME NEW r \in Request, Serve(r) PROVE S!Next \/ UNCHANGED S!vars
  <2>1. ~overlapped
    BY <1>2 DEF Serve
  <2> QED
    BY <1>2, <2>1, ServeApplies DEF S!Next
<1>3. ASSUME NEW r \in Request, MainStep(r)
      PROVE  S!Next \/ UNCHANGED S!vars
  BY <1>3, MainTells DEF S!Next
<1>4. ASSUME NEW w \in Worker,
             TaskStep(w) \/ \E r \in Request : RunTask(w, r)
      PROVE  S!Next \/ UNCHANGED S!vars
  <2>1. ~overlapped
    BY <1>4 DEF TaskStep, Issue, Resume, ResumeLost, Continue, RunTask, clientVars
  <2> QED
    BY <1>4, <2>1, TasksAreSerial DEF S!Next
<1>5. CASE HangUp
  <2>1. ~overlapped
    BY <1>5 DEF HangUp, clientVars
  <2> QED
    BY <1>5, <2>1, HangUpLoses DEF S!Next
<1>6. CASE Notice \/ UNCHANGED vars
  <2>1. /\ UNCHANGED <<stage, task, call, reply, channel, answer, copies, slots>>
        /\ link' = link \/ (link = "down" /\ link' = "closed")
    BY <1>6 DEF Notice, vars, taskVars, clientVars
  <2>2. \A r \in Request : Phase(r)' = Phase(r)
    BY <2>1, PhaseKept
  <2>3. Half' = Half
    <3>1. CASE link' = link
      BY <2>1, <3>1, HalfKept
    <3>2. CASE link = "down" /\ link' = "closed"
      BY <3>2 DEF Half
    <3> QED
      BY <2>1, <3>1, <3>2
  <2>4. SeenCopies' = SeenCopies /\ SeenSlots' = SeenSlots
    BY <2>1, <2>3, SeenKept
  <2> QED
    BY <2>1, <2>2, <2>4, NotMoved
<1> QED
  BY <1>1, <1>2, <1>3, <1>4, <1>5, <1>6 DEF Next

\* The chain is empty when the first request is made.
LEMMA SerialStart == Init => ToldInv /\ S!Init
<1> SUFFICES ASSUME Init PROVE ToldInv /\ S!Init
  OBVIOUS
<1>1. ToldInv
  BY DEF Init, ToldInv
<1>2. \A r \in Request : Phase(r) = "new"
  BY DEF Init, Phase
<1>3. Half = {}
  <2>1. \A r \in Request : r \notin Half
    BY NoTaskShape, HalfIs DEF Init
  <2> QED
    BY <2>1 DEF Half
<1>4. \A k \in Key : {} \ Half = {}
  OBVIOUS
<1>5. S!Init
  BY <1>2, <1>3, <1>4 DEF Init, S!Init, Fresh
<1> QED
  BY <1>1, <1>5

\* What the mapping rests on holds of every client.
LEMMA SerialInvariant == Spec => []SerialInv
<1>1. Init => ToldInv
  BY SerialStart
<1>2. ServerInv /\ ToldInv /\ [Next]_vars => ToldInv'
  BY ToldStepInv DEF ServerInv
<1> QED
  BY <1>1, <1>2, ServerInvariant, PTL DEF Spec, SerialInv

\* A client that awaits each answer is served one request at a time and told the
\* truth, with as many requests as it makes, as many slots as they write, and as many
\* threads as the runtime of main.rs has; the provider calls of update_state count
\* for nothing until the last one is done, unless the client hangs up between two of
\* them and is left with some; up to the day it has two requests outstanding.
THEOREM AwaitedServerIsSerial == Spec => AwaitedIsSerial
<1>1. Init => S!Init
  BY SerialStart
<1>2. ASSUME SerialInv, [Next]_vars
      PROVE  [~overlapped' => S!Next \/ UNCHANGED S!vars]_vars
  BY <1>2, SerialStep
<1> QED
  BY <1>1, <1>2, SerialInvariant, PTL DEF Spec, AwaitedIsSerial

-----------------------------------------------------------------------------
(* The sample client: Concurrency = 1.                                     *)

\* A client with Concurrency = 1 has one request without an answer at most.
AwaitInv ==
    /\ ~overlapped
    /\ \A r, s \in Outstanding : r = s

\* It sends a request when it has no other to wait for.
LEMMA SendAlone ==
    ASSUME Concurrency = 1, AwaitInv, NEW r \in Request, Send(r)
    PROVE  Outstanding = {}
<1> SUFFICES ASSUME Outstanding # {} PROVE FALSE
  OBVIOUS
<1>1. PICK s : Outstanding = {s}
  BY DEF AwaitInv
<1>2. Cardinality(Outstanding) = 1
  BY <1>1, FS_Singleton
<1> QED
  BY <1>2 DEF Send

\* No step but a Send adds to what the client waits for.
LEMMA AwaitStepInv ==
    ASSUME Concurrency = 1, TypeOK, TaskInv, AnswerInv, AwaitInv, [Next]_vars
    PROVE  AwaitInv'
<1>1. ASSUME NEW r \in Request, Send(r) PROVE AwaitInv'
  <2>1. Outstanding = {}
    BY <1>1, SendAlone
  <2>2. /\ stage' = [stage EXCEPT ![r] = "sent"]
        /\ overlapped' = (overlapped \/ Outstanding # {})
        /\ UNCHANGED <<channel, answer>>
    BY <1>1 DEF Send, Issued
  <2>o. ~overlapped'
    BY <2>1, <2>2 DEF AwaitInv
  <2>3. ASSUME NEW s \in Request, s # r PROVE s \notin Outstanding'
    <3>1. stage'[s] = stage[s] /\ answer'[s] = answer[s]
      BY <2>2, <2>3 DEF TypeOK
    <3> QED
      BY <2>1, <3>1 DEF Outstanding, Answered
  <2>4. \A s, t \in Outstanding' : s = t
    BY <2>3 DEF Outstanding
  <2> QED
    BY <2>2, <2>o, <2>4 DEF AwaitInv, TypeOK
<1>k. ASSUME UNCHANGED overlapped,
             \A s \in Request : stage[s] = "new" => stage'[s] = "new",
             \A s \in Request : Answered(s) => Answered(s)'
      PROVE  AwaitInv'
  <2>1. Outstanding' \subseteq Outstanding
    BY <1>k DEF Outstanding
  <2> QED
    BY <1>k, <2>1 DEF AwaitInv
<1>s. ASSUME NEW r \in Request, stage[r] # "new",
             NEW st, stage' = [stage EXCEPT ![r] = st],
             UNCHANGED <<channel, answer, overlapped>>
      PROVE  AwaitInv'
  BY <1>s, <1>k DEF TypeOK, Answered, AwaitInv
<1>u. ASSUME UNCHANGED <<stage, channel, answer, overlapped>>
      PROVE  AwaitInv'
  BY <1>u, <1>k DEF Answered, AwaitInv
<1>2. ASSUME NEW r \in Request, Serve(r) PROVE AwaitInv'
  BY <1>2, <1>u DEF Serve
<1>3. ASSUME NEW r \in Request, Accept(r) PROVE AwaitInv'
  BY <1>3, <1>s DEF Accept, clientVars
<1>4. ASSUME NEW r \in Request, Poll(r) \/ Respond(r) PROVE AwaitInv'
  <2>1. /\ ~Answered(r)
        /\ \E a : answer' = [answer EXCEPT ![r] = a]
        /\ UNCHANGED <<stage, channel, overlapped>>
    BY <1>4 DEF Poll, Respond, Answered, clientVars, TypeOK
  <2> QED
    BY <2>1, <1>k DEF TypeOK, Answered, AwaitInv
<1>5. ASSUME NEW w \in Worker, NEW r \in Request, RunTask(w, r) PROVE AwaitInv'
  BY <1>5, <1>s DEF RunTask, clientVars
<1>6. ASSUME NEW w \in Worker, Issue(w) PROVE AwaitInv'
  BY <1>6, <1>u DEF Issue, clientVars
<1>7. ASSUME NEW w \in Worker, worker[w] # Idle, NEW rep, Continue(w, rep)
      PROVE  AwaitInv'
  <2>1. worker[w] \in Request /\ stage[worker[w]] = "running"
    BY <1>7 DEF TypeOK, TaskInv
  <2>2. UNCHANGED <<answer, overlapped>>
    BY <1>7 DEF Continue, clientVars
  <2>3. CASE UNCHANGED <<stage, channel>>
    BY <1>u, <2>2, <2>3
  <2>4. ASSUME NEW ok, EndTask(w, ok) PROVE AwaitInv'
    <3>1. /\ stage' = [stage EXCEPT ![worker[w]] = "finished"]
          /\ \E c : channel' = [channel EXCEPT ![worker[w]] = c]
      BY <2>4 DEF EndTask
    <3>2. answer[worker[w]] = "none"
      BY <2>1 DEF AnswerInv
    <3> QED
      BY <1>k, <2>1, <2>2, <3>1, <3>2 DEF TypeOK, Answered, AwaitInv
  <2> QED
    BY <1>7, <2>3, <2>4 DEF Continue
<1>8. ASSUME NEW w \in Worker, Resume(w) \/ ResumeLost(w) PROVE AwaitInv'
  BY <1>7, <1>8 DEF Resume, ResumeLost
<1>9. CASE HangUp \/ Notice
  BY <1>9, <1>u DEF HangUp, Notice, clientVars
<1>10. CASE UNCHANGED vars
  BY <1>10, <1>u DEF vars, clientVars
<1> QED
  BY <1>1, <1>2, <1>3, <1>4, <1>5, <1>6, <1>8, <1>9, <1>10
  DEF Next, MainStep, TaskStep

\* The server, with a client like the sample one (durian-client/src/main.rs), which
\* awaits each promise before it makes the next request, implements module Serial.
THEOREM SampleImplementsSerial ==
    ASSUME Concurrency = 1
    PROVE  Spec => S!Spec
<1>1. Init => AwaitInv /\ S!Init
  BY SerialStart DEF Init, AwaitInv, Outstanding
<1>2. ServerInv /\ AwaitInv /\ [Next]_vars => AwaitInv'
  BY AwaitStepInv DEF ServerInv
<1>3. ASSUME SerialInv, AwaitInv', [Next]_vars
      PROVE  [S!Next]_(S!vars)
  BY <1>3, SerialStep DEF AwaitInv
<1> QED
  BY <1>1, <1>2, <1>3, ServerInvariant, SerialInvariant, PTL DEF Spec, S!Spec
=============================================================================
