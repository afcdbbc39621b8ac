----------------------------- MODULE ServerProofs -----------------------------
(***************************************************************************)
(* Theorems about DurianServer, for any number of requests, threads and    *)
(* slots.                                                                  *)
(***************************************************************************)
EXTENDS DurianServer, FiniteSetTheorems, TLAPS

-----------------------------------------------------------------------------
(* Tasks and threads.                                                      *)

Ops == {"none", "exist", "create_contract", "update_account", "account",
        "storage_at", "set_storage"}

SlotOps == {"storage_at", "set_storage"}

TaskSet == [op : Ops, key : Key \cup {NoKey}, left : SUBSET Key]

\* The calls a task of a request can have come to.
Shape(r, t) ==
    /\ t \in TaskSet
    /\ t.op \in IF r \in Deployments
                THEN {"none", "exist", "create_contract", "update_account",
                      "set_storage"}
                ELSE {"none", "account", "storage_at", "set_storage"}
    /\ t.op \notin SlotOps => t = Plain(t.op)
    /\ t.op \in SlotOps => /\ t.key \in Dirty[r] /\ t.key \notin t.left
                           /\ t.left \subseteq Dirty[r]

TaskInv ==
    /\ \A r \in Request : Shape(r, task[r])
    /\ \A w \in Worker : worker[w] # Idle => stage[worker[w]] = "running"
    /\ \A v, w \in Worker : worker[v] = worker[w] /\ worker[v] # Idle => v = w
    /\ \A r \in Request : call[r] # "none" => stage[r] = "running"

\* Calls without a slot.
LEMMA PlainShape ==
    \A op \in Ops : /\ Plain(op) \in TaskSet /\ Plain(op).op = op
                    /\ Plain(op).left = {}
                    /\ op # "none" => Plain(op) # NoTask
BY DEF Ops, TaskSet, Plain, NoTask

\* A task starts with a call of its kind.
LEMMA FirstShape ==
    \A r \in Request : /\ Shape(r, First(r)) /\ First(r) # NoTask
                       /\ First(r).op = IF r \in Deployments THEN "exist"
                                                             ELSE "account"
<1>1. "exist" \in Ops /\ "account" \in Ops
  BY DEF Ops
<1>2. \A r \in Request :
        First(r) = Plain(IF r \in Deployments THEN "exist" ELSE "account")
  BY DEF First
<1> QED
  BY <1>1, <1>2, PlainShape DEF Shape, SlotOps

\* A task that is over.
LEMMA NoTaskShape ==
    \A r \in Request : Shape(r, NoTask) /\ NoTask.op = "none" /\ NoTask.left = {}
<1>1. "none" \in Ops
  BY DEF Ops
<1> QED
  BY <1>1, PlainShape DEF Shape, SlotOps, NoTask

\* One call of a loop over slots.
LEMMA SlotShape ==
    ASSUME NEW r \in Request, NEW op \in SlotOps,
           op = "storage_at" => r \notin Deployments,
           NEW keys, keys \subseteq Dirty[r], NEW t \in Slots(op, keys)
    PROVE  /\ Shape(r, t) /\ t # NoTask /\ t.op = op
           /\ t.key \in keys /\ t.left = keys \ {t.key}
<1>1. PICK k \in keys : t = [op |-> op, key |-> k, left |-> keys \ {k}]
  BY DEF Slots
<1>2. t.op = op /\ t.key = k /\ t.left = keys \ {k}
  BY <1>1
<1>3. Dirty[r] \subseteq Key
  BY ServerAssumption
<1>4. t \in TaskSet
  BY <1>1, <1>3 DEF TaskSet, Ops, SlotOps
<1>5. t # NoTask
  BY <1>2, NoTaskShape DEF SlotOps
<1>6. Shape(r, t)
  BY <1>2, <1>4 DEF Shape, SlotOps
<1> QED
  BY <1>2, <1>5, <1>6

\* The call that follows another.
NextCall(r, rep, t) ==
    \/ /\ task[r].op = "exist"
       /\ t.op = IF rep = "yes" THEN "update_account" ELSE "create_contract"
    \/ /\ task[r].op = "account" /\ t.op = "storage_at"
       /\ t.key \in Dirty[r] /\ t.left = Dirty[r] \ {t.key}
    \/ /\ task[r].op = t.op /\ t.op \in SlotOps
       /\ t.key \in task[r].left /\ t.left = task[r].left \ {t.key}
    \/ /\ task[r].op \in {"storage_at", "create_contract", "update_account"}
       /\ t.op = "set_storage"
       /\ t.key \in Dirty[r] /\ t.left = Dirty[r] \ {t.key}
       /\ task[r].left = {}

\* What Following is, operation by operation.
LEMMA FollowingCases ==
    ASSUME NEW r \in Request, NEW t, Shape(r, t), t # NoTask, NEW rep
    PROVE  /\ t.op = "exist" =>
                Following(r, t, rep) = {Plain(IF rep = "yes" THEN "update_account"
                                                          ELSE "create_contract")}
           /\ t.op = "account" =>
                Following(r, t, rep) = Slots("storage_at", Dirty[r])
           /\ t.op = "set_storage" =>
                Following(r, t, rep) = Slots("set_storage", t.left)
           /\ t.op = "storage_at" /\ t.left # {} =>
                Following(r, t, rep) = Slots("storage_at", t.left)
           /\ t.op = "storage_at" /\ t.left = {} =>
                Following(r, t, rep) = Slots("set_storage", Dirty[r])
           /\ t.op \in {"create_contract", "update_account"} =>
                /\ t.left = {}
                /\ Following(r, t, rep) = Slots("set_storage", Dirty[r])
<1>1. t.op \in {"create_contract", "update_account"} => t.left = {}
  BY PlainShape DEF Shape, SlotOps, TaskSet
<1> QED
  BY <1>1 DEF Following

\* What follows a call is a call of the same request.
LEMMA Follows ==
    ASSUME NEW r \in Request, Shape(r, task[r]), task[r] # NoTask, NEW rep,
           NEW t \in Following(r, task[r], rep)
    PROVE  Shape(r, t) /\ t # NoTask /\ NextCall(r, rep, t)
<1> USE FollowingCases
<1>1. task[r].op \in Ops /\ task[r].op # "none"
  BY DEF Shape, TaskSet, SlotOps, NoTask
<1>2. CASE task[r].op = "exist"
  <2>1. PICK op \in Ops : /\ t = Plain(op)
                          /\ op = IF rep = "yes" THEN "update_account"
                                                 ELSE "create_contract"
    BY <1>2 DEF Ops
  <2>2. r \in Deployments
    BY <1>2 DEF Shape
  <2>3. op \in {"update_account", "create_contract"}
    BY <2>1
  <2>4. t \in TaskSet /\ t.op = op /\ t # NoTask
    BY <2>1, <2>3, PlainShape
  <2>5. Shape(r, t)
    BY <2>1, <2>2, <2>3, <2>4 DEF Shape, SlotOps
  <2> QED
    BY <1>2, <2>1, <2>4, <2>5 DEF NextCall
<1>3. CASE task[r].op = "account"
  <2>1. r \notin Deployments /\ t \in Slots("storage_at", Dirty[r])
    BY <1>3 DEF Shape
  <2>2. /\ Shape(r, t) /\ t # NoTask /\ t.op = "storage_at"
        /\ t.key \in Dirty[r] /\ t.left = Dirty[r] \ {t.key}
    BY <2>1, SlotShape DEF SlotOps
  <2> QED
    BY <1>3, <2>2 DEF NextCall
<1>4. CASE \/ task[r].op = "set_storage"
           \/ task[r].op = "storage_at" /\ task[r].left # {}
  <2>1. /\ task[r].op \in SlotOps /\ task[r].left \subseteq Dirty[r]
        /\ task[r].op = "storage_at" => r \notin Deployments
    BY <1>4 DEF Shape, SlotOps
  <2>2. t \in Slots(task[r].op, task[r].left)
    BY <1>4
  <2>3. /\ Shape(r, t) /\ t # NoTask /\ t.op = task[r].op
        /\ t.key \in task[r].left /\ t.left = task[r].left \ {t.key}
    BY <2>1, <2>2, SlotShape
  <2> QED
    BY <2>1, <2>3 DEF NextCall
<1>5. CASE \/ task[r].op = "storage_at" /\ task[r].left = {}
           \/ task[r].op \in {"create_contract", "update_account"}
  <2>1. t \in Slots("set_storage", Dirty[r]) /\ task[r].left = {}
    BY <1>5
  <2>2. /\ Shape(r, t) /\ t # NoTask /\ t.op = "set_storage"
        /\ t.key \in Dirty[r] /\ t.left = Dirty[r] \ {t.key}
    BY <2>1, SlotShape DEF SlotOps
  <2> QED
    BY <1>5, <2>1, <2>2 DEF NextCall
<1> QED
  BY <1>1, <1>2, <1>3, <1>4, <1>5 DEF Ops

\* Nothing follows the last slot, nor an account without dirty slots.
Last(r, t) ==
    \/ t.op = "set_storage" /\ t.left = {}
    \/ /\ t.op \in {"account", "create_contract", "update_account"}
       /\ Dirty[r] = {}

LEMMA LastCall ==
    ASSUME NEW r \in Request, NEW t, Shape(r, t), t # NoTask, NEW rep
    PROVE  Following(r, t, rep) = {} <=> Last(r, t)
<1> USE FollowingCases
<1>1. t.op \in Ops /\ t.op # "none"
  BY DEF Shape, TaskSet, SlotOps, NoTask
<1>2. ASSUME NEW op, NEW keys PROVE Slots(op, keys) = {} <=> keys = {}
  <2>1. ASSUME NEW k \in keys PROVE Slots(op, keys) # {}
    <3>1. [op |-> op, key |-> k, left |-> keys \ {k}] \in Slots(op, keys)
      BY <2>1 DEF Slots
    <3> QED
      BY <3>1
  <2>2. keys = {} => Slots(op, keys) = {}
    BY DEF Slots
  <2> QED
    BY <2>1, <2>2
<1>3. t.op = "storage_at" => Dirty[r] # {}
  BY DEF Shape, SlotOps
<1> QED
  BY <1>1, <1>2, <1>3 DEF Ops, Last

\* Starting a task, its calls and its end keep types and threads.
LEMMA ContinueInv ==
    ASSUME TypeOK, TaskInv, NEW w \in Worker, worker[w] # Idle,
           NEW rep, Continue(w, rep)
    PROVE  TypeOK' /\ TaskInv'
<1>r. PICK r \in Request : r = worker[w]
  BY DEF TypeOK
<1>1. stage[r] = "running" /\ task[r] # NoTask /\ Shape(r, task[r])
  BY <1>r DEF TypeOK, TaskInv
<1>4. \A v \in Worker : v # w => worker[v] # r
  BY <1>r DEF TaskInv
<1>5. /\ call' = [call EXCEPT ![r] = "none"]
      /\ reply' = [reply EXCEPT ![r] = "none"]
      /\ UNCHANGED <<answer, link, copies, slots, overlapped>>
  BY <1>r DEF Continue, clientVars
<1>6. CASE EndTask(w, rep # "err")
  <2>1. /\ worker' = [worker EXCEPT ![w] = Idle]
        /\ stage' = [stage EXCEPT ![r] = "finished"]
        /\ \E c \in {"sent", "closed"} : channel' = [channel EXCEPT ![r] = c]
        /\ task' = [task EXCEPT ![r] = NoTask]
        /\ read' = [read EXCEPT ![r] = Fresh]
    BY <1>r, <1>6 DEF EndTask
  <2>2. Shape(r, NoTask) /\ NoTask \in TaskSet /\ Fresh \in [Key -> SUBSET Request]
    BY NoTaskShape DEF Shape, Fresh
  <2>t. task' \in [Request -> TaskSet]
    BY <2>1, <2>2 DEF TypeOK, TaskSet, Ops
  <2>3. TypeOK'
    BY <1>1, <1>5, <2>1, <2>2, <2>t DEF TypeOK, TaskSet, Ops
  <2>4. TaskInv'
    BY <1>1, <1>4, <1>5, <2>1, <2>2, ServerAssumption DEF TypeOK, TaskInv
  <2> QED
    BY <2>3, <2>4
<1>7. CASE /\ \E t \in Following(r, task[r], rep) : task' = [task EXCEPT ![r] = t]
           /\ UNCHANGED <<worker, stage, channel, read>>
  <2>1. PICK t \in Following(r, task[r], rep) : task' = [task EXCEPT ![r] = t]
    BY <1>7
  <2>2. Shape(r, t) /\ t # NoTask
    BY <1>1, <2>1, Follows
  <2>t. task' \in [Request -> TaskSet]
    BY <2>1, <2>2 DEF TypeOK, Shape, TaskSet, Ops
  <2>3. TypeOK'
    BY <1>1, <1>5, <1>7, <2>1, <2>2, <2>t DEF TypeOK, TaskSet, Ops
  <2>4. TaskInv'
    BY <1>1, <1>5, <1>7, <2>1, <2>2 DEF TypeOK, TaskInv
  <2> QED
    BY <2>3, <2>4
<1> QED
  BY <1>r, <1>6, <1>7 DEF Continue

\* What a provider call does to what the client's chain keeps.
LEMMA ServeType ==
    ASSUME TypeOK, TaskInv, NEW r \in Request, Serve(r)
    PROVE  /\ reply' \in [Request -> {"none", "ok", "err", "yes", "no"}]
           /\ read' \in [Request -> [Key -> SUBSET Request]]
           /\ slots' \in [Key -> SUBSET Request]
           /\ copies' \in Nat /\ copies <= copies'
           /\ \A s \in Request : s # r => read'[s] = read[s]
<1>1. ServedReply(task[r].op) \in {"ok", "err", "yes", "no"}
  BY DEF ServedReply
<1>2. reply' = [reply EXCEPT ![r] = ServedReply(task[r].op)]
  BY DEF Serve
<1>3. call[r] = "issued" /\ Shape(r, task[r])
  BY DEF Serve, TaskInv
<1>4. task[r].op \in SlotOps => task[r].key \in Key
  BY <1>3, ServerAssumption DEF Shape
<1>5. /\ read' \in [Request -> [Key -> SUBSET Request]]
      /\ \A s \in Request : s # r => read'[s] = read[s]
  <2>1. CASE task[r].op = "storage_at"
    <3>1. PICK k \in Key : k = task[r].key
      BY <1>4, <2>1 DEF SlotOps
    <3>2. read' = [read EXCEPT ![r][k] = slots[k]]
      BY <2>1, <3>1 DEF Serve
    <3> QED
      BY <3>2 DEF TypeOK
  <2>2. CASE task[r].op # "storage_at"
    BY <2>2 DEF Serve, TypeOK
  <2> QED
    BY <2>1, <2>2
<1>6. slots' \in [Key -> SUBSET Request]
  <2>1. CASE task[r].op = "set_storage"
    <3>1. PICK k \in Key : k = task[r].key
      BY <1>4, <2>1 DEF SlotOps
    <3>2. slots' = [slots EXCEPT ![k] = read[r][k] \cup {r}]
      BY <2>1, <3>1 DEF Serve
    <3>3. read[r][k] \cup {r} \in SUBSET Request
      BY DEF TypeOK
    <3> QED
      BY <3>2, <3>3 DEF TypeOK
  <2>2. CASE task[r].op # "set_storage"
    BY <2>2 DEF Serve, TypeOK, Fresh
  <2> QED
    BY <2>1, <2>2
<1>7. copies' \in Nat /\ copies <= copies'
  BY DEF Serve, TypeOK
<1> QED
  BY <1>1, <1>2, <1>5, <1>6, <1>7 DEF TypeOK

\* A reply ends the task or takes it to the call that follows.
LEMMA ContinueTask ==
    ASSUME TypeOK, TaskInv, NEW w \in Worker, worker[w] # Idle,
           NEW rep, Continue(w, rep)
    PROVE  \E r \in Request :
              /\ r = worker[w] /\ stage[r] = "running" /\ task[r] # NoTask
              /\ call' = [call EXCEPT ![r] = "none"]
              /\ reply' = [reply EXCEPT ![r] = "none"]
              /\ UNCHANGED <<answer, link, copies, slots, overlapped>>
              /\ \/ /\ rep = "err" \/ Following(r, task[r], rep) = {}
                    /\ stage' = [stage EXCEPT ![r] = "finished"]
                    /\ channel' = [channel EXCEPT ![r] =
                                      IF rep # "err" /\ link # "closed"
                                      THEN "sent" ELSE "closed"]
                    /\ task' = [task EXCEPT ![r] = NoTask]
                    /\ read' = [read EXCEPT ![r] = Fresh]
                 \/ /\ rep # "err"
                    /\ \E t : /\ Shape(r, t) /\ t # NoTask /\ NextCall(r, rep, t)
                             /\ task' = [task EXCEPT ![r] = t]
                    /\ UNCHANGED <<stage, channel, read>>
<1>r. PICK r \in Request : r = worker[w]
  BY DEF TypeOK
<1>1. stage[r] = "running" /\ task[r] # NoTask /\ Shape(r, task[r])
  BY <1>r DEF TypeOK, TaskInv
<1>2. /\ call' = [call EXCEPT ![r] = "none"]
      /\ reply' = [reply EXCEPT ![r] = "none"]
      /\ UNCHANGED <<answer, link, copies, slots, overlapped>>
  BY <1>r DEF Continue, clientVars
<1>3. ASSUME rep = "err" \/ Following(r, task[r], rep) = {}
      PROVE  /\ stage' = [stage EXCEPT ![r] = "finished"]
             /\ channel' = [channel EXCEPT ![r] =
                                IF rep # "err" /\ link # "closed"
                                THEN "sent" ELSE "closed"]
             /\ task' = [task EXCEPT ![r] = NoTask]
             /\ read' = [read EXCEPT ![r] = Fresh]
  BY <1>r, <1>3 DEF Continue, EndTask
<1>4. ASSUME ~(rep = "err" \/ Following(r, task[r], rep) = {})
      PROVE  /\ rep # "err"
             /\ \E t : /\ Shape(r, t) /\ t # NoTask /\ NextCall(r, rep, t)
                      /\ task' = [task EXCEPT ![r] = t]
             /\ UNCHANGED <<stage, channel, read>>
  <2>1. /\ \E t \in Following(r, task[r], rep) : task' = [task EXCEPT ![r] = t]
        /\ UNCHANGED <<stage, channel, read>>
    BY <1>r, <1>4 DEF Continue
  <2> QED
    BY <1>1, <1>4, <2>1, Follows
<1> QED
  BY <1>r, <1>1, <1>2, <1>3, <1>4

\* The types and what ties tasks to threads are kept by every step.
LEMMA TaskStepInv ==
    ASSUME TypeOK, TaskInv, [Next]_vars
    PROVE  TypeOK' /\ TaskInv'
<1>1. ASSUME NEW r \in Request, Send(r) PROVE TypeOK' /\ TaskInv'
  BY <1>1 DEF Send, Issued, TypeOK, TaskInv, taskVars
<1>2. ASSUME NEW r \in Request, Serve(r) PROVE TypeOK' /\ TaskInv'
  <2>1. /\ call' = [call EXCEPT ![r] = "served"]
        /\ call[r] = "issued"
        /\ UNCHANGED <<stage, worker, task, channel, answer, link, overlapped>>
    BY <1>2 DEF Serve
  <2>2. TypeOK'
    BY <1>2, <2>1, ServeType DEF TypeOK
  <2>3. TaskInv'
    BY <2>1 DEF TypeOK, TaskInv
  <2> QED
    BY <2>2, <2>3
<1>3. ASSUME NEW r \in Request, MainStep(r) PROVE TypeOK' /\ TaskInv'
  <2>1. CASE Accept(r)
    BY <2>1 DEF Accept, TypeOK, TaskInv, taskVars, clientVars
  <2>2. CASE Poll(r) \/ Respond(r)
    <3>1. \E a \in {"delayed", "ok", "failed"} :
            answer' = [answer EXCEPT ![r] = a]
      BY <2>2 DEF Poll, Respond
    <3>2. UNCHANGED <<stage, worker, task, call, reply, read, channel, link,
                      copies, slots, overlapped>>
      BY <2>2 DEF Poll, Respond, taskVars, clientVars
    <3> QED
      BY <3>1, <3>2 DEF TypeOK, TaskInv
  <2> QED
    BY <1>3, <2>1, <2>2 DEF MainStep
<1>4. ASSUME NEW w \in Worker, NEW r \in Request, RunTask(w, r)
      PROVE  TypeOK' /\ TaskInv'
  <2>1. Shape(r, First(r)) /\ First(r) # NoTask
    BY FirstShape
  <2>2. PICK t : t = First(r)
    OBVIOUS
  <2>3. /\ worker' = [worker EXCEPT ![w] = r]
        /\ stage' = [stage EXCEPT ![r] = "running"]
        /\ task' = [task EXCEPT ![r] = t]
        /\ UNCHANGED <<call, reply, read, channel, answer, link, copies, slots,
                       overlapped>>
        /\ stage[r] = "queued"
    BY <1>4, <2>2 DEF RunTask, clientVars
  <2>t. task' \in [Request -> TaskSet]
    BY <2>1, <2>2, <2>3 DEF TypeOK, Shape, TaskSet, Ops
  <2>4. TypeOK'
    BY <2>1, <2>2, <2>3, <2>t DEF TypeOK, TaskSet, Ops
  <2>5. \A v \in Worker : worker[v] # r
    BY <2>3, ServerAssumption DEF TaskInv
  <2>6. TaskInv'
    BY <2>1, <2>2, <2>3, <2>5, ServerAssumption DEF TypeOK, TaskInv
  <2> QED
    BY <2>4, <2>6
<1>5. ASSUME NEW w \in Worker, Issue(w) PROVE TypeOK' /\ TaskInv'
  BY <1>5 DEF Issue, TypeOK, TaskInv, clientVars
<1>6. ASSUME NEW w \in Worker, Resume(w) \/ ResumeLost(w)
      PROVE  TypeOK' /\ TaskInv'
  BY <1>6, ContinueInv DEF Resume, ResumeLost
<1>7. CASE HangUp \/ Notice
  BY <1>7 DEF HangUp, Notice, TypeOK, TaskInv, taskVars, clientVars
<1>8. CASE UNCHANGED vars
  BY <1>8 DEF vars, TypeOK, TaskInv, taskVars, clientVars
<1> QED
  BY <1>1, <1>2, <1>3, <1>4, <1>5, <1>6, <1>7, <1>8 DEF Next, TaskStep

\* The server starts without tasks.
LEMMA InitTasks == Init => TypeOK /\ TaskInv
<1> SUFFICES ASSUME Init PROVE TypeOK /\ TaskInv
  OBVIOUS
<1>1. TaskInv
  BY NoTaskShape DEF Init, TaskInv
<1>2. task \in [Request -> TaskSet]
  BY NoTaskShape DEF Init, Shape
<1>3. TypeOK
  BY <1>2 DEF Init, TypeOK, TaskSet, Ops, Fresh
<1> QED
  BY <1>1, <1>3

\* The state is well typed at every moment, with as many clients' requests and
\* threads as there may be.
THEOREM ServerTypeCorrect == Spec => []TypeOK
BY InitTasks, TaskStepInv, PTL DEF Spec

-----------------------------------------------------------------------------
(* A client that waits.                                                    *)

\* A result in a channel is the last thing a task does, and an answer comes from
\* the channel.
AnswerInv ==
    \A r \in Request :
      /\ channel[r] # "empty" => stage[r] = "finished"
      /\ answer[r] # "none" => channel[r] # "empty"
      /\ answer[r] \in {"delayed", "ok"} => channel[r] = "sent"

\* Of a client that awaits each answer, one request at most is not finished.
Unfinished(r) == stage[r] \notin {"new", "finished"}

SoloInv ==
    ~overlapped =>
      \A r, s \in Request : Unfinished(r) /\ Unfinished(s) => r = s

\* No step of another request comes between two of a task.
LEMMA SoloStepInv ==
    ASSUME TypeOK, TaskInv, AnswerInv, SoloInv, [Next]_vars
    PROVE  AnswerInv' /\ SoloInv'
<1>1. ASSUME NEW r \in Request, Send(r) PROVE AnswerInv' /\ SoloInv'
  <2>1. /\ stage[r] = "new"
        /\ stage' = [stage EXCEPT ![r] = "sent"]
        /\ overlapped' = (overlapped \/ Outstanding # {})
        /\ UNCHANGED <<channel, answer>>
    BY <1>1 DEF Send, Issued
  <2>2. AnswerInv'
    BY <2>1 DEF AnswerInv, TypeOK
  <2>3. ASSUME ~overlapped' PROVE \A s \in Request : ~Unfinished(s)
    <3>1. \A s \in Request : stage[s] = "new" \/ Answered(s)
      BY <2>1, <2>3 DEF Outstanding
    <3>2. \A s \in Request : Answered(s) => stage[s] = "finished"
      BY DEF Answered, AnswerInv
    <3> QED
      BY <3>1, <3>2 DEF Unfinished
  <2>4. SoloInv'
    BY <2>1, <2>3 DEF SoloInv, Unfinished, TypeOK
  <2> QED
    BY <2>2, <2>4
<1>s. ASSUME NEW r \in Request, stage[r] \notin {"new", "finished"},
             NEW st, stage' = [stage EXCEPT ![r] = st],
             UNCHANGED <<channel, answer, overlapped>>
      PROVE  AnswerInv' /\ SoloInv'
  <2>1. AnswerInv'
    BY <1>s DEF AnswerInv, TypeOK
  <2>2. \A q \in Request : Unfinished(q)' => Unfinished(q)
    BY <1>s DEF Unfinished, TypeOK
  <2>3. SoloInv'
    BY <1>s, <2>2 DEF SoloInv
  <2> QED
    BY <2>1, <2>3
<1>u. ASSUME UNCHANGED <<stage, channel, answer, overlapped>>
      PROVE  AnswerInv' /\ SoloInv'
  BY <1>u DEF AnswerInv, SoloInv, Unfinished
<1>2. ASSUME NEW r \in Request, Serve(r) PROVE AnswerInv' /\ SoloInv'
  BY <1>2, <1>u DEF Serve
<1>3. ASSUME NEW r \in Request, Accept(r) PROVE AnswerInv' /\ SoloInv'
  BY <1>3, <1>s DEF Accept, clientVars
<1>4. ASSUME NEW r \in Request, Poll(r) \/ Respond(r)
      PROVE  AnswerInv' /\ SoloInv'
  <2>1. /\ \E a : /\ answer' = [answer EXCEPT ![r] = a]
                  /\ a \in {"delayed", "ok"} => channel[r] = "sent"
        /\ channel[r] # "empty"
        /\ UNCHANGED <<stage, channel, overlapped>>
    BY <1>4 DEF Poll, Respond, AnswerInv, clientVars
  <2> QED
    BY <2>1 DEF AnswerInv, SoloInv, Unfinished, TypeOK
<1>5. ASSUME NEW w \in Worker, NEW r \in Request, RunTask(w, r)
      PROVE  AnswerInv' /\ SoloInv'
  BY <1>5, <1>s DEF RunTask, clientVars
<1>6. ASSUME NEW w \in Worker, Issue(w) PROVE AnswerInv' /\ SoloInv'
  BY <1>6, <1>u DEF Issue, clientVars
<1>7. ASSUME NEW w \in Worker, worker[w] # Idle, NEW rep, Continue(w, rep)
      PROVE  AnswerInv' /\ SoloInv'
  <2>1. worker[w] \in Request /\ stage[worker[w]] = "running"
    BY <1>7 DEF TypeOK, TaskInv
  <2>2. UNCHANGED <<answer, overlapped>>
    BY <1>7 DEF Continue, clientVars
  <2>3. CASE UNCHANGED <<stage, channel>>
    BY <1>u, <2>2, <2>3
  <2>4. ASSUME NEW ok, EndTask(w, ok) PROVE AnswerInv' /\ SoloInv'
    <3>1. /\ stage' = [stage EXCEPT ![worker[w]] = "finished"]
          /\ \E c : channel' = [channel EXCEPT ![worker[w]] = c]
      BY <2>4 DEF EndTask
    <3>2. channel[worker[w]] = "empty"
      BY <2>1 DEF AnswerInv
    <3>3. AnswerInv'
      BY <2>1, <2>2, <3>1, <3>2 DEF AnswerInv, TypeOK
    <3>4. \A q \in Request : Unfinished(q)' => Unfinished(q)
      BY <2>1, <3>1 DEF Unfinished, TypeOK
    <3> QED
      BY <2>2, <3>3, <3>4 DEF SoloInv
  <2> QED
    BY <1>7, <2>3, <2>4 DEF Continue
<1>8. ASSUME NEW w \in Worker, Resume(w) \/ ResumeLost(w)
      PROVE  AnswerInv' /\ SoloInv'
  BY <1>7, <1>8 DEF Resume, ResumeLost
<1>9. CASE HangUp \/ Notice
  BY <1>9, <1>u DEF HangUp, Notice, clientVars
<1>10. CASE UNCHANGED vars
  BY <1>10, <1>u DEF vars, clientVars
<1> QED
  BY <1>1, <1>2, <1>3, <1>4, <1>5, <1>6, <1>8, <1>9, <1>10
  DEF Next, MainStep, TaskStep

-----------------------------------------------------------------------------
(* What a reply says.                                                      *)

\* What a task has found, for accounts are never removed: it gets past `account`
\* only when there is one, and never past `update_account`; once the contract is
\* created it is there.
Found(r) ==
    LET op     == task[r].op
        served == call[r] = "served"
    IN  /\ op = "account" /\ served /\ reply[r] # "err" => copies > 0
        /\ op = "exist" /\ served /\ reply[r] = "yes" => copies > 0
        /\ op = "create_contract" /\ served => copies > 0 /\ reply[r] # "err"
        /\ op \in {"storage_at", "set_storage", "update_account"} => copies > 0
        /\ op = "update_account" /\ served => reply[r] = "err"
        /\ served /\ reply[r] = "err" => op \in {"account", "update_account"}

FoundInv == \A r \in Request : Found(r)

\* A request keeps what it found.
LEMMA FoundKept ==
    ASSUME TypeOK, TypeOK', copies <= copies', NEW r \in Request, Found(r),
           task'[r] = task[r], call'[r] = call[r], reply'[r] = reply[r]
    PROVE  Found(r)'
<1>1. copies \in Nat /\ copies' \in Nat
  BY DEF TypeOK
<1> QED
  BY <1>1 DEF Found

\* What a task found is still there when it goes on.
LEMMA FoundStepInv ==
    ASSUME TypeOK, TaskInv, FoundInv, [Next]_vars
    PROVE  FoundInv'
<1>t. TypeOK'
  BY TaskStepInv
<1>n. copies \in Nat /\ copies <= copies
  BY DEF TypeOK
<1>u. ASSUME UNCHANGED <<task, call, reply, copies>> PROVE FoundInv'
  BY <1>u, <1>t, <1>n, FoundKept DEF FoundInv
<1>1. ASSUME NEW r \in Request, Send(r) \/ MainStep(r) PROVE FoundInv'
  BY <1>1, <1>u DEF Send, Issued, MainStep, Accept, Poll, Respond, taskVars,
                    clientVars
<1>2. ASSUME NEW r \in Request, Serve(r) PROVE FoundInv'
  <2>1. /\ call' = [call EXCEPT ![r] = "served"]
        /\ reply' = [reply EXCEPT ![r] = ServedReply(task[r].op)]
        /\ copies' = IF task[r].op = "create_contract" THEN copies + 1 ELSE copies
        /\ UNCHANGED task
    BY <1>2 DEF Serve
  <2>2. copies <= copies'
    BY <1>n, <2>1
  <2>3. call'[r] = "served" /\ reply'[r] = ServedReply(task[r].op)
    BY <2>1 DEF TypeOK
  <2>4. Found(r)'
    <3>1. PICK op : op = task[r].op /\ op = task'[r].op
      BY <2>1
    <3>2. /\ op = "exist" => reply'[r] = IF copies > 0 THEN "yes" ELSE "no"
          /\ op = "account" => reply'[r] = IF copies > 0 THEN "ok" ELSE "err"
          /\ op = "update_account" => reply'[r] = "err"
          /\ op \notin {"exist", "account", "update_account"} =>
               reply'[r] = "ok"
      BY <2>3, <3>1 DEF ServedReply
    <3>3. copies' = IF op = "create_contract" THEN copies + 1 ELSE copies
      BY <2>1, <3>1
    <3>4. op \in {"storage_at", "set_storage", "update_account"} => copies > 0
      BY <3>1 DEF FoundInv, Found
    <3> QED
      BY <1>n, <2>3, <3>1, <3>2, <3>3, <3>4 DEF Found
  <2>5. \A s \in Request \ {r} : Found(s)'
    <3>1. \A s \in Request \ {r} :
            call'[s] = call[s] /\ reply'[s] = reply[s] /\ task'[s] = task[s]
      BY <2>1 DEF TypeOK
    <3> QED
      BY <1>t, <2>2, <3>1, FoundKept DEF FoundInv
  <2> QED
    BY <2>4, <2>5 DEF FoundInv
<1>3. ASSUME NEW w \in Worker, NEW r \in Request, RunTask(w, r) PROVE FoundInv'
  <2>1. /\ stage[r] = "queued" /\ task' = [task EXCEPT ![r] = First(r)]
        /\ UNCHANGED <<call, reply, copies>>
    BY <1>3 DEF RunTask, clientVars
  <2>2. call[r] # "served"
    BY <2>1 DEF TaskInv
  <2>3. task'[r].op \in {"exist", "account"}
    BY <2>1, FirstShape DEF TypeOK
  <2>4. Found(r)'
    BY <2>1, <2>2, <2>3 DEF Found
  <2>5. \A s \in Request \ {r} : task'[s] = task[s]
    BY <2>1 DEF TypeOK
  <2> QED
    BY <1>t, <1>n, <2>1, <2>4, <2>5, FoundKept DEF FoundInv
<1>4. ASSUME NEW w \in Worker, Issue(w) PROVE FoundInv'
  <2>1. /\ worker[w] \in Request /\ call[worker[w]] = "none"
        /\ call' = [call EXCEPT ![worker[w]] = "issued"]
        /\ UNCHANGED <<task, reply, copies>>
    BY <1>4 DEF Issue, TypeOK, clientVars
  <2> QED
    BY <2>1 DEF FoundInv, Found, TypeOK
<1>5. ASSUME NEW w \in Worker, worker[w] # Idle, NEW rep, Continue(w, rep),
             NEW op, op = task[worker[w]].op,
             op \in {"account", "create_contract"} /\ rep # "err" => copies > 0,
             op = "exist" /\ rep = "yes" => copies > 0,
             op = "update_account" => rep = "err"
      PROVE  FoundInv'
  <2>1. PICK r \in Request :
              /\ r = worker[w]
              /\ call' = [call EXCEPT ![r] = "none"]
              /\ reply' = [reply EXCEPT ![r] = "none"]
              /\ UNCHANGED copies
              /\ \/ task' = [task EXCEPT ![r] = NoTask]
                 \/ /\ rep # "err"
                    /\ \E t : /\ Shape(r, t) /\ t # NoTask /\ NextCall(r, rep, t)
                              /\ task' = [task EXCEPT ![r] = t]
    BY <1>5, ContinueTask
  <2>2. call'[r] = "none"
    BY <2>1 DEF TypeOK
  <2>3. ASSUME task' = [task EXCEPT ![r] = NoTask] PROVE Found(r)'
    <3>1. task'[r].op = "none"
      BY <2>3, NoTaskShape DEF TypeOK
    <3> QED
      BY <2>2, <3>1 DEF Found
  <2>4. ASSUME rep # "err",
               NEW t, NextCall(r, rep, t), task' = [task EXCEPT ![r] = t]
        PROVE  Found(r)'
    <3>1. task'[r].op = t.op
      BY <2>4 DEF TypeOK
    <3>2. t.op \in {"storage_at", "set_storage", "update_account"} => copies > 0
      BY <1>5, <2>1, <2>4 DEF NextCall, SlotOps, FoundInv, Found
    <3> QED
      BY <2>1, <2>2, <3>1, <3>2 DEF Found
  <2>5. Found(r)'
    BY <2>1, <2>3, <2>4
  <2>6. \A s \in Request \ {r} :
          call'[s] = call[s] /\ reply'[s] = reply[s] /\ task'[s] = task[s]
    BY <2>1 DEF TypeOK
  <2> QED
    BY <1>t, <1>n, <2>1, <2>5, <2>6, FoundKept DEF FoundInv
<1>6. ASSUME NEW w \in Worker, Resume(w) PROVE FoundInv'
  <2>1. /\ worker[w] \in Request /\ worker[w] # Idle
        /\ call[worker[w]] = "served"
        /\ Continue(w, reply[worker[w]])
    BY <1>6 DEF Resume, TypeOK
  <2> QED
    BY <1>5, <2>1 DEF FoundInv, Found
<1>7. ASSUME NEW w \in Worker, ResumeLost(w) PROVE FoundInv'
  <2>1. /\ worker[w] # Idle
        /\ Continue(w, LostReply(task[worker[w]].op))
    BY <1>7 DEF ResumeLost
  <2>2. PICK op : op = task[worker[w]].op
    OBVIOUS
  <2>3. /\ op \in {"account", "create_contract", "update_account"} =>
             LostReply(op) = "err"
        /\ op = "exist" => LostReply(op) = "no"
    BY DEF LostReply
  <2> QED
    BY <1>5, <2>1, <2>2, <2>3
<1>8. CASE HangUp \/ Notice
  BY <1>8, <1>u DEF HangUp, Notice, taskVars, clientVars
<1>9. CASE UNCHANGED vars
  BY <1>9, <1>u DEF vars, taskVars, clientVars
<1> QED
  BY <1>1, <1>2, <1>3, <1>4, <1>6, <1>7, <1>8, <1>9 DEF Next, TaskStep

-----------------------------------------------------------------------------
(* What a task of such a client knows.                                     *)

\* The slots a task still has to read, or to write.
Rest(r) == task[r].left \cup IF call[r] = "served" THEN {} ELSE {task[r].key}

\* What the replies so far still say of the client's chain.
Current(r) ==
    LET op     == task[r].op
        served == call[r] = "served"
    IN  /\ op = "exist" /\ served /\ reply[r] # "yes" => copies = 0
        /\ op = "account" /\ served /\ reply[r] = "err" => copies = 0
        /\ op = "create_contract" /\ ~served => copies = 0
        /\ op = "create_contract" /\ served =>
             \A k \in Key : read[r][k] = slots[k]
        /\ op = "storage_at" =>
             \A k \in Dirty[r] : k \notin Rest(r) => read[r][k] = slots[k]
        /\ op = "set_storage" =>
             \A k \in Dirty[r] : IF k \in Rest(r) THEN read[r][k] = slots[k]
                                                  ELSE r \in slots[k]

\* A mark is that of a request that has got as far as to write it.
MarksInv ==
    \A r \in Request, k \in Key :
       r \in slots[k] => stage[r] = "finished" \/ k \in Written(r)

DataInv ==
    ~overlapped =>
      /\ copies <= 1
      /\ copies = 0 => slots = Fresh
      /\ \A r \in Deployments : read[r] = Fresh
      /\ \A r \in Request :
           channel[r] = "sent" => \A k \in Dirty[r] : r \in slots[k]
      /\ MarksInv
      /\ link # "closed" => \A r \in Request : Current(r)

\* While a task of such a client runs, no other has a call to make.
LEMMA OthersIdle ==
    ASSUME TypeOK, SoloInv, ~overlapped,
           NEW r \in Request, stage[r] = "running"
    PROVE  \A s \in Request : s # r => task[s] = NoTask
BY DEF TypeOK, SoloInv, Unfinished

\* A request without a task knows nothing and has written nothing.
LEMMA IdleCurrent ==
    \A s \in Request :
       /\ task[s] = NoTask => Current(s) /\ Written(s) = {}
       /\ task'[s] = NoTask => Current(s)' /\ Written(s)' = {}
BY NoTaskShape DEF Current, Written

\* What a task knows depends on these alone.
LEMMA CurrentKept ==
    ASSUME NEW r, task'[r] = task[r], call'[r] = call[r], reply'[r] = reply[r],
           read'[r] = read[r], UNCHANGED <<copies, slots>>
    PROVE  Current(r)' = Current(r) /\ Written(r)' = Written(r)
BY DEF Current, Rest, Written

\* A provider call adds at most one mark, and takes none away.
LEMMA ServeSlots ==
    ASSUME TypeOK, TaskInv, FoundInv, DataInv, ~overlapped,
           NEW r \in Request, Serve(r)
    PROVE  /\ task[r].op # "set_storage" => slots' = slots
           /\ task[r].op = "set_storage" =>
                /\ task[r].key \in Key
                /\ slots' = [slots EXCEPT ![task[r].key] = @ \cup {r}]
                /\ read' = read
           /\ task[r].op = "create_contract" =>
                /\ copies = 0 /\ copies' = 1 /\ read' = read /\ slots = Fresh
                /\ r \in Deployments
           /\ task[r].op # "create_contract" => copies' = copies
<1>1. link = "up" /\ call[r] = "issued" /\ Shape(r, task[r]) /\ Current(r)
  BY DEF Serve, TaskInv, DataInv
<1>2. CASE task[r].op = "set_storage"
  <2>1. PICK k : k = task[r].key
    OBVIOUS
  <2>2. k \in Dirty[r] /\ k \in Key
    BY <1>1, <1>2, <2>1, ServerAssumption DEF Shape, SlotOps
  <2>3. read[r][k] = slots[k]
    BY <1>1, <1>2, <2>1, <2>2 DEF Current, Rest
  <2>4. slots' = [slots EXCEPT ![k] = read[r][k] \cup {r}] /\ read' = read
    BY <1>2, <2>1 DEF Serve
  <2>5. slots' = [slots EXCEPT ![k] = slots[k] \cup {r}]
    BY <2>3, <2>4
  <2> QED
    BY <1>2, <2>1, <2>2, <2>4, <2>5 DEF Serve
<1>3. CASE task[r].op = "create_contract"
  <2>1. copies = 0
    BY <1>1, <1>3 DEF Current
  <2>2. slots = Fresh
    BY <2>1 DEF DataInv
  <2>3. r \in Deployments
    BY <1>1, <1>3 DEF Shape
  <2>4. copies' = 1 /\ read' = read /\ slots' \in {slots, Fresh}
    BY <1>3, <2>1 DEF Serve
  <2> QED
    BY <1>3, <2>1, <2>2, <2>3, <2>4
<1>4. CASE task[r].op \notin {"create_contract", "set_storage"}
  BY <1>4 DEF Serve
<1> QED
  BY <1>2, <1>3, <1>4

\* What a task knows once its call is served.
LEMMA ServeCurrent ==
    ASSUME TypeOK, TaskInv, FoundInv, DataInv, ~overlapped,
           NEW r \in Request, Serve(r)
    PROVE  Current(r)'
<1>1. /\ link = "up" /\ call[r] = "issued" /\ Shape(r, task[r]) /\ Current(r)
      /\ call' = [call EXCEPT ![r] = "served"]
      /\ reply' = [reply EXCEPT ![r] = ServedReply(task[r].op)]
      /\ UNCHANGED task
  BY DEF Serve, TaskInv, DataInv
<1>2. call'[r] = "served" /\ reply'[r] = ServedReply(task[r].op)
  BY <1>1 DEF TypeOK
<1>3. PICK op : op = task[r].op
  OBVIOUS
<1>4. op \in Ops /\ task'[r].op = op
  BY <1>1, <1>3 DEF Shape, TaskSet
<1>5. CASE op \in {"exist", "account"}
  <2>1. copies' = copies /\ copies \in Nat
    BY <1>3, <1>5 DEF Serve, TypeOK
  <2>2. /\ op = "exist" => reply'[r] = IF copies > 0 THEN "yes" ELSE "no"
        /\ op = "account" => reply'[r] = IF copies > 0 THEN "ok" ELSE "err"
    BY <1>2, <1>3 DEF ServedReply
  <2> QED
    BY <1>4, <1>5, <2>1, <2>2 DEF Current
<1>6. CASE op = "create_contract"
  <2>1. r \in Deployments /\ slots' = slots /\ slots = Fresh /\ read' = read
    BY <1>3, <1>6, ServeSlots
  <2>2. read[r] = Fresh
    BY <2>1 DEF DataInv
  <2> QED
    BY <1>2, <1>4, <1>6, <2>1, <2>2 DEF Current
<1>7. CASE op = "storage_at"
  <2>1. PICK k \in Key : k = task[r].key
    BY <1>1, <1>3, <1>7, ServerAssumption DEF Shape, SlotOps
  <2>2. read' = [read EXCEPT ![r][k] = slots[k]] /\ slots' = slots
    BY <1>3, <1>7, <2>1 DEF Serve
  <2>3. /\ read'[r][k] = slots[k]
        /\ \A j \in Key : j # k => read'[r][j] = read[r][j]
    BY <2>2 DEF TypeOK
  <2>4. Dirty[r] \subseteq Key
    BY ServerAssumption
  <2>5. \A j \in Dirty[r] : j \notin task[r].left => read'[r][j] = slots[j]
    BY <1>1, <1>3, <1>7, <2>1, <2>3, <2>4 DEF Current, Rest
  <2>6. Rest(r)' = task[r].left
    BY <1>1, <1>2 DEF Rest
  <2> QED
    BY <1>4, <1>7, <2>2, <2>5, <2>6 DEF Current
<1>8. CASE op = "set_storage"
  <2>1. PICK k \in Key :
          /\ k = task[r].key
          /\ slots' = [slots EXCEPT ![k] = @ \cup {r}] /\ read' = read
    BY <1>3, <1>8, ServeSlots
  <2>2. k \notin task[r].left
    BY <1>1, <1>3, <1>8, <2>1 DEF Shape, SlotOps
  <2>3. Dirty[r] \subseteq Key
    BY ServerAssumption
  <2>4. ASSUME NEW j \in Dirty[r]
        PROVE  IF j \in task[r].left THEN read'[r][j] = slots'[j]
                                     ELSE r \in slots'[j]
    <3>1. CASE j = k
      BY <2>1, <2>2, <3>1 DEF TypeOK
    <3>2. CASE j # k
      <4>1. slots'[j] = slots[j] /\ read'[r][j] = read[r][j]
        BY <2>1, <2>3, <3>2 DEF TypeOK
      <4>2. j \in Rest(r) <=> j \in task[r].left
        BY <1>1, <2>1, <3>2 DEF Rest
      <4>3. IF j \in Rest(r) THEN read[r][j] = slots[j] ELSE r \in slots[j]
        BY <1>1, <1>3, <1>8 DEF Current
      <4> QED
        BY <4>1, <4>2, <4>3
    <3> QED
      BY <3>1, <3>2
  <2>5. Rest(r)' = task[r].left
    BY <1>1, <1>2 DEF Rest
  <2> QED
    BY <1>4, <1>8, <2>4, <2>5 DEF Current
<1>9. CASE op \in {"none", "update_account"}
  BY <1>4, <1>9 DEF Current
<1> QED
  BY <1>4, <1>5, <1>6, <1>7, <1>8, <1>9 DEF Ops

\* What a task knows when it goes on after a reply.
LEMMA NextCurrent ==
    ASSUME TypeOK, TaskInv, NEW r \in Request, task[r] # NoTask,
           Current(r), call[r] = "served",
           r \in Deployments => read[r] = Fresh, copies = 0 => slots = Fresh,
           NEW rep, rep = reply[r], task[r].op # "update_account",
           NEW t, Shape(r, t), NextCall(r, rep, t), task' = [task EXCEPT ![r] = t],
           call' = [call EXCEPT ![r] = "none"], UNCHANGED <<read, copies, slots>>
    PROVE  Current(r)'
<1>1. /\ task'[r] = t /\ call'[r] = "none" /\ read'[r] = read[r]
      /\ Dirty[r] \subseteq Key
  BY ServerAssumption DEF TypeOK
<1>2. Rest(r) = task[r].left
  BY DEF Rest
<1>3. Rest(r)' = t.left \cup {t.key}
  BY <1>1 DEF Rest
<1>4. CASE task[r].op = "exist"
  <2>1. t.op \in {"update_account", "create_contract"}
    BY <1>4 DEF NextCall, SlotOps
  <2>2. t.op = "create_contract" => copies = 0
    BY <1>4 DEF NextCall, SlotOps, Current
  <2> QED
    BY <1>1, <2>1, <2>2 DEF Current
<1>5. CASE task[r].op = "account"
  <2>1. t.op = "storage_at" /\ t.left = Dirty[r] \ {t.key}
    BY <1>5 DEF NextCall, SlotOps
  <2>2. \A k \in Dirty[r] : k \in Rest(r)'
    BY <1>3, <2>1
  <2> QED
    BY <1>1, <2>1, <2>2 DEF Current
<1>6. CASE \/ task[r].op = "create_contract"
           \/ task[r].op = "storage_at" /\ t.op = "set_storage"
  <2>1. /\ t.op = "set_storage" /\ t.left = Dirty[r] \ {t.key}
        /\ task[r].left = {}
    BY <1>6 DEF NextCall, SlotOps
  <2>2. \A k \in Dirty[r] : k \in Rest(r)'
    BY <1>3, <2>1
  <2>3. \A k \in Dirty[r] : read[r][k] = slots[k]
    BY <1>1, <1>2, <1>6, <2>1 DEF Current
  <2> QED
    BY <1>1, <2>1, <2>2, <2>3 DEF Current
<1>7. CASE task[r].op = t.op /\ t.op \in SlotOps
  <2>1. t.key \in task[r].left /\ t.left = task[r].left \ {t.key}
    BY <1>7 DEF NextCall, SlotOps
  <2>2. Rest(r)' = Rest(r)
    BY <1>2, <1>3, <2>1
  <2> QED
    BY <1>1, <1>7, <2>2 DEF Current, SlotOps
<1> QED
  BY <1>4, <1>5, <1>6, <1>7 DEF NextCall, SlotOps

\* A task that goes on has written what it had written.
LEMMA NextWritten ==
    ASSUME TypeOK, TaskInv, NEW r \in Request,
           NEW rep, task[r].op = "set_storage" => call[r] = "served",
           NEW t, NextCall(r, rep, t), task' = [task EXCEPT ![r] = t],
           call' = [call EXCEPT ![r] = "none"]
    PROVE  Written(r)' = Written(r)
<1>1. task'[r] = t /\ call'[r] = "none"
  BY DEF TypeOK
<1>2. CASE task[r].op = "set_storage"
  <2>1. /\ t.op = "set_storage" /\ t.key \in task[r].left
        /\ t.left = task[r].left \ {t.key}
    BY <1>2 DEF NextCall, SlotOps
  <2> QED
    BY <1>1, <1>2, <2>1 DEF Written
<1>3. CASE task[r].op # "set_storage"
  <2>1. t.op = "set_storage" => t.left = Dirty[r] \ {t.key}
    BY <1>3 DEF NextCall, SlotOps
  <2> QED
    BY <1>1, <1>3, <2>1 DEF Written
<1> QED
  BY <1>2, <1>3

\* What a task knows of the client's chain stays true until it has acted on it.
LEMMA DataStepInv ==
    ASSUME TypeOK, TaskInv, AnswerInv, SoloInv, FoundInv, DataInv, [Next]_vars
    PROVE  DataInv'
<1>t. TypeOK' /\ TaskInv'
  BY TaskStepInv
<1>u. ASSUME UNCHANGED <<task, call, reply, read, channel, copies, slots>>,
             \A r \in Request : stage[r] = "finished" => stage'[r] = "finished",
             ~overlapped' => ~overlapped, link' # "closed" => link # "closed"
      PROVE  DataInv'
  BY <1>u, CurrentKept DEF DataInv, MarksInv
<1>1. ASSUME NEW r \in Request, Send(r) PROVE DataInv'
  BY <1>1, <1>u DEF Send, Issued, taskVars, TypeOK
<1>2. ASSUME NEW r \in Request, Serve(r) PROVE DataInv'
  <2> SUFFICES ASSUME ~overlapped' PROVE DataInv'
    BY DEF DataInv
  <2>1. /\ link = "up" /\ call[r] = "issued" /\ Shape(r, task[r])
        /\ call' = [call EXCEPT ![r] = "served"]
        /\ UNCHANGED <<stage, task, channel, link, overlapped>>
    BY <1>2 DEF Serve, TaskInv
  <2>2. stage[r] = "running"
    BY <2>1 DEF TaskInv
  <2>3. ~overlapped
    BY <2>1
  <2>4. PICK k : k = task[r].key
    OBVIOUS
  <2>5. \/ slots' = slots
        \/ /\ task[r].op = "set_storage" /\ k \in Key
           /\ slots' = [slots EXCEPT ![k] = @ \cup {r}]
    BY <1>2, <2>3, <2>4, ServeSlots
  <2>6. \A j \in Key : slots[j] \subseteq slots'[j]
    BY <2>5 DEF TypeOK
  <2>7. copies' <= 1
    <3>1. copies' = copies \/ copies' = 1
      BY <1>2, <2>3, ServeSlots
    <3> QED
      BY <2>3, <3>1 DEF DataInv
  <2>8. copies' = 0 => slots' = Fresh
    <3>1. copies' = 0 => copies = 0 /\ task[r].op # "create_contract"
      BY <1>2, <2>3, ServeSlots
    <3>2. task[r].op = "set_storage" => copies > 0
      BY DEF FoundInv, Found
    <3> QED
      BY <2>3, <2>5, <3>1, <3>2 DEF DataInv, TypeOK
  <2>9. \A s \in Deployments : read'[s] = Fresh
    <3>1. \A s \in Deployments : s # r => read'[s] = read[s]
      BY <1>2, ServeType, ServerAssumption
    <3>2. r \in Deployments => read' = read
      BY <1>2, <2>1 DEF Serve, Shape
    <3> QED
      BY <2>3, <3>1, <3>2 DEF DataInv
  <2>10. \A s \in Request :
           channel'[s] = "sent" => \A j \in Dirty[s] : s \in slots'[j]
    BY <2>1, <2>3, <2>6, ServerAssumption DEF DataInv
  <2>11. MarksInv'
    <3>1. \A s \in Request : s # r => task[s] = NoTask /\ task'[s] = NoTask
      BY <2>1, <2>2, <2>3, OthersIdle
    <3>2. ASSUME NEW s \in Request, NEW j \in Key, s \in slots'[j],
                 stage'[s] # "finished"
          PROVE  j \in Written(s)'
      <4>1. CASE s \in slots[j]
        <5>1. j \in Written(s)
          BY <2>1, <2>3, <3>2, <4>1 DEF DataInv, MarksInv
        <5>2. s = r
          BY <3>1, <5>1, IdleCurrent
        <5>3. call'[r] = "served"
          BY <2>1 DEF TypeOK
        <5> QED
          BY <2>1, <5>1, <5>2, <5>3 DEF Written
      <4>2. CASE s \notin slots[j]
        <5>1. /\ task[r].op = "set_storage" /\ k \in Key /\ j = k /\ s = r
          BY <2>5, <3>2, <4>2 DEF TypeOK
        <5>2. k \in Dirty[r] /\ k \notin task[r].left
          BY <2>1, <2>4, <5>1 DEF Shape, SlotOps
        <5>3. call'[r] = "served"
          BY <2>1 DEF TypeOK
        <5> QED
          BY <2>1, <5>1, <5>2, <5>3 DEF Written
      <4> QED
        BY <4>1, <4>2
    <3> QED
      BY <3>2 DEF MarksInv
  <2>12. \A s \in Request : Current(s)'
    <3>1. Current(r)'
      BY <1>2, <2>3, ServeCurrent
    <3>2. \A s \in Request : s # r => task'[s] = NoTask
      BY <2>1, <2>2, <2>3, OthersIdle
    <3> QED
      BY <3>1, <3>2, IdleCurrent
  <2> QED
    BY <2>7, <2>8, <2>9, <2>10, <2>11, <2>12 DEF DataInv
<1>3. ASSUME NEW r \in Request, MainStep(r) PROVE DataInv'
  BY <1>3, <1>u DEF MainStep, Accept, Poll, Respond, taskVars, clientVars, TypeOK
<1>4. ASSUME NEW w \in Worker, NEW r \in Request, RunTask(w, r) PROVE DataInv'
  <2>1. /\ stage[r] = "queued" /\ task' = [task EXCEPT ![r] = First(r)]
        /\ stage' = [stage EXCEPT ![r] = "running"]
        /\ UNCHANGED <<call, reply, read, channel, link, copies, slots,
                       overlapped>>
    BY <1>4 DEF RunTask, clientVars
  <2>2. call[r] # "served" /\ task[r] = NoTask
    BY <2>1 DEF TaskInv, TypeOK
  <2>3. task'[r].op \in {"exist", "account"}
    BY <2>1, FirstShape DEF TypeOK
  <2>4. Current(r)' /\ Written(r)' = {}
    BY <2>1, <2>2, <2>3 DEF Current, Written
  <2>5. \A s \in Request : s # r => task'[s] = task[s] /\ stage'[s] = stage[s]
    BY <2>1 DEF TypeOK
  <2>6. \A s \in Request : s # r => /\ Current(s)' = Current(s)
                                    /\ Written(s)' = Written(s)
    BY <2>1, <2>5, CurrentKept
  <2>7. ~overlapped => MarksInv'
    <3> SUFFICES ASSUME ~overlapped, NEW s \in Request, NEW k \in Key,
                        s \in slots'[k]
                 PROVE  stage'[s] = "finished" \/ k \in Written(s)'
      BY DEF MarksInv
    <3>1. stage[s] = "finished" \/ k \in Written(s)
      BY <2>1 DEF DataInv, MarksInv
    <3>2. s # r
      BY <2>1, <2>2, <3>1, IdleCurrent
    <3> QED
      BY <2>5, <2>6, <3>1, <3>2
  <2> QED
    BY <2>1, <2>4, <2>6, <2>7 DEF DataInv
<1>5. ASSUME NEW w \in Worker, Issue(w) PROVE DataInv'
  <2>1. /\ worker[w] \in Request /\ call[worker[w]] = "none"
        /\ call' = [call EXCEPT ![worker[w]] = "issued"]
        /\ UNCHANGED <<stage, task, reply, read, channel, link, copies, slots,
                       overlapped>>
    BY <1>5 DEF Issue, TypeOK, clientVars
  <2>2. \A s \in Request : call'[s] = "served" <=> call[s] = "served"
    BY <2>1 DEF TypeOK
  <2>3. \A s \in Request : /\ Current(s)' = Current(s)
                           /\ Written(s)' = Written(s)
    BY <2>1, <2>2 DEF Current, Rest, Written
  <2> QED
    BY <2>1, <2>3 DEF DataInv, MarksInv
<1>6. ASSUME NEW w \in Worker, worker[w] # Idle, NEW rep, Continue(w, rep),
             \/ link = "closed" /\ (task[worker[w]].op = "set_storage" => rep = "err")
             \/ call[worker[w]] = "served" /\ rep = reply[worker[w]]
      PROVE  DataInv'
  <2> SUFFICES ASSUME ~overlapped' PROVE DataInv'
    BY DEF DataInv
  <2>1. PICK r \in Request :
          /\ r = worker[w] /\ stage[r] = "running" /\ task[r] # NoTask
          /\ call' = [call EXCEPT ![r] = "none"]
          /\ reply' = [reply EXCEPT ![r] = "none"]
          /\ UNCHANGED <<answer, link, copies, slots, overlapped>>
          /\ \/ /\ rep = "err" \/ Following(r, task[r], rep) = {}
                /\ stage' = [stage EXCEPT ![r] = "finished"]
                /\ channel' = [channel EXCEPT ![r] =
                                  IF rep # "err" /\ link # "closed"
                                  THEN "sent" ELSE "closed"]
                /\ task' = [task EXCEPT ![r] = NoTask]
                /\ read' = [read EXCEPT ![r] = Fresh]
             \/ /\ rep # "err"
                /\ \E t : /\ Shape(r, t) /\ t # NoTask /\ NextCall(r, rep, t)
                          /\ task' = [task EXCEPT ![r] = t]
                /\ UNCHANGED <<stage, channel, read>>
    BY <1>6, ContinueTask
  <2>2. ~overlapped /\ Shape(r, task[r])
    BY <2>1 DEF TaskInv
  <2>3. \A s \in Request : s # r => task[s] = NoTask
    BY <2>1, <2>2, OthersIdle
  <2>4. \A s \in Request : s # r => task'[s] = NoTask
    BY <2>1, <2>3 DEF TypeOK
  <2>5. link' # "closed" =>
          /\ Current(r) /\ call[r] = "served" /\ rep = reply[r]
    BY <1>6, <2>1, <2>2 DEF DataInv
  <2>6. ASSUME rep = "err" \/ Following(r, task[r], rep) = {},
               stage' = [stage EXCEPT ![r] = "finished"],
               channel' = [channel EXCEPT ![r] = IF rep # "err" /\ link # "closed"
                                                 THEN "sent" ELSE "closed"],
               task' = [task EXCEPT ![r] = NoTask],
               read' = [read EXCEPT ![r] = Fresh]
        PROVE  DataInv'
    <3>1. \A s \in Request : task'[s] = NoTask
      BY <2>4, <2>6 DEF TypeOK
    <3>2. \A s \in Request : Current(s)'
      BY <3>1, IdleCurrent
    <3>3. channel'[r] = "sent" => \A k \in Dirty[r] : r \in slots[k]
      <4> SUFFICES ASSUME channel'[r] = "sent", NEW k \in Dirty[r]
                   PROVE  r \in slots[k]
        OBVIOUS
      <4>1. rep # "err" /\ link # "closed"
        BY <2>6 DEF TypeOK
      <4>2. task[r].op = "set_storage" /\ task[r].left = {}
        BY <2>1, <2>2, <2>6, <4>1, LastCall DEF Last
      <4>3. k \notin Rest(r)
        BY <2>1, <2>5, <4>1, <4>2 DEF Rest
      <4> QED
        BY <2>1, <2>5, <4>1, <4>2, <4>3 DEF Current
    <3>4. \A s \in Request :
            channel'[s] = "sent" => \A k \in Dirty[s] : s \in slots'[k]
      BY <2>1, <2>2, <2>6, <3>3 DEF DataInv, TypeOK
    <3>5. \A s \in Deployments : read'[s] = Fresh
      BY <2>2, <2>6, ServerAssumption DEF DataInv, TypeOK
    <3>6. MarksInv'
      <4> SUFFICES ASSUME NEW s \in Request, NEW k \in Key, s \in slots'[k]
                   PROVE  stage'[s] = "finished"
        BY DEF MarksInv
      <4>1. stage[s] = "finished" \/ k \in Written(s)
        BY <2>1, <2>2 DEF DataInv, MarksInv
      <4>2. stage[s] = "finished" \/ s = r
        BY <2>3, <4>1, IdleCurrent
      <4> QED
        BY <2>6, <4>2 DEF TypeOK
    <3> QED
      BY <2>1, <2>2, <3>2, <3>4, <3>5, <3>6 DEF DataInv
  <2>7. ASSUME rep # "err", UNCHANGED <<stage, channel, read>>,
               NEW t, Shape(r, t), NextCall(r, rep, t),
               task' = [task EXCEPT ![r] = t]
        PROVE  DataInv'
    <3>1. link' # "closed" => Current(r)'
      <4> SUFFICES ASSUME link' # "closed" PROVE Current(r)'
        OBVIOUS
      <4>1. task[r].op # "update_account"
        BY <2>5, <2>7 DEF FoundInv, Found
      <4> QED
        BY <2>1, <2>2, <2>5, <2>7, <4>1, NextCurrent DEF DataInv
    <3>2. link' # "closed" => \A s \in Request : Current(s)'
      BY <2>4, <3>1, IdleCurrent
    <3>3. task[r].op = "set_storage" => call[r] = "served"
      BY <1>6, <2>1, <2>7
    <3>4. Written(r)' = Written(r)
      BY <2>1, <2>7, <3>3, NextWritten
    <3>5. \A s \in Request : Written(s)' = Written(s)
      BY <2>3, <2>4, <3>4, IdleCurrent
    <3> QED
      BY <2>1, <2>2, <2>7, <3>2, <3>5 DEF DataInv, MarksInv
  <2> QED
    BY <2>1, <2>6, <2>7
<1>7. ASSUME NEW w \in Worker, Resume(w) \/ ResumeLost(w) PROVE DataInv'
  <2>1. CASE Resume(w)
    BY <1>6, <2>1 DEF Resume
  <2>2. CASE ResumeLost(w)
    <3>1. /\ worker[w] # Idle /\ link = "closed"
          /\ Continue(w, LostReply(task[worker[w]].op))
      BY <2>2 DEF ResumeLost
    <3>2. LostReply("set_storage") = "err"
      BY DEF LostReply
    <3> QED
      BY <1>6, <3>1, <3>2
  <2> QED
    BY <1>7, <2>1, <2>2
<1>8. CASE HangUp \/ Notice
  BY <1>8, <1>u DEF HangUp, Notice, taskVars, clientVars
<1>9. CASE UNCHANGED vars
  BY <1>9, <1>u DEF vars, taskVars, clientVars
<1> QED
  BY <1>1, <1>2, <1>3, <1>4, <1>5, <1>7, <1>8, <1>9
  DEF Next, TaskStep

-----------------------------------------------------------------------------
(* What such a client can rely on.                                         *)

ServerInv ==
    TypeOK /\ TaskInv /\ AnswerInv /\ SoloInv /\ FoundInv /\ DataInv

\* The server starts with an empty chain.
LEMMA ServerStart == Init => ServerInv
<1> SUFFICES ASSUME Init PROVE ServerInv
  OBVIOUS
<1>1. TypeOK /\ TaskInv
  BY InitTasks
<1>2. AnswerInv /\ SoloInv
  BY DEF Init, AnswerInv, SoloInv, Unfinished
<1>3. \A r \in Request : task[r] = NoTask /\ call[r] = "none"
  BY DEF Init
<1>4. FoundInv
  BY <1>3, NoTaskShape DEF FoundInv, Found
<1>5. DataInv
  BY <1>3, IdleCurrent, ServerAssumption DEF Init, DataInv, MarksInv, Fresh
<1> QED
  BY <1>1, <1>2, <1>4, <1>5 DEF ServerInv

\* These invariants hold together, whatever executor_impl.rs does and in
\* whatever order threads, replies and hang-ups come.
LEMMA ServerInvariant == Spec => []ServerInv
<1>1. ServerInv /\ [Next]_vars => ServerInv'
  BY TaskStepInv, SoloStepInv, FoundStepInv, DataStepInv DEF ServerInv
<1> QED
  BY <1>1, ServerStart, PTL DEF Spec

\* A client that awaits each answer never has two accounts at one address.
THEOREM AccountIsSingle == Spec => []SingleAccount
<1>1. ServerInv => SingleAccount
  BY DEF ServerInv, DataInv, SingleAccount
<1> QED
  BY <1>1, ServerInvariant, PTL

\* And nothing of what an answered request has written, slot by slot, is undone by
\* another of its requests, nor by its own.
THEOREM UpdatesAreKept == Spec => []NoLostUpdate
<1>1. ServerInv => NoLostUpdate
  <2> SUFFICES ASSUME ServerInv, ~overlapped,
                      NEW r \in Request, answer[r] = "ok", NEW k \in Dirty[r]
      PROVE  r \in slots[k]
    BY DEF NoLostUpdate
  <2>1. channel[r] = "sent"
    BY DEF ServerInv, AnswerInv
  <2> QED
    BY <2>1 DEF ServerInv, DataInv
<1> QED
  BY <1>1, ServerInvariant, PTL

-----------------------------------------------------------------------------
(* What is left to do.                                                     *)

\* CallsLeft of a request at a given call.
Calls(r, t) ==
    LET n == Cardinality(Dirty[r])
    IN  CASE t.op = "exist"       -> n + 2
          [] t.op = "account"     -> n + n + 1
          [] t.op = "storage_at"  -> Cardinality(t.left) + n + 1
          [] t.op = "set_storage" -> Cardinality(t.left) + 1
          [] OTHER                -> n + 1

LEMMA CallsLeftIs ==
    \A r : CallsLeft(r) = Calls(r, task[r]) /\ CallsLeft(r)' = Calls(r, task'[r])
BY DEF CallsLeft, Calls

\* Finitely many slots are dirty, and one less is left after each.
LEMMA SlotCounts ==
    ASSUME NEW r \in Request, NEW keys, keys \subseteq Dirty[r]
    PROVE  /\ Cardinality(keys) \in Nat
           /\ \A k \in keys : /\ Cardinality(keys) \in Nat \ {0}
                              /\ Cardinality(keys \ {k}) = Cardinality(keys) - 1
<1>1. IsFiniteSet(keys)
  BY ServerAssumption, FS_Subset
<1>2. Cardinality(keys) \in Nat
  BY <1>1, FS_CardinalityType
<1>3. ASSUME NEW k \in keys
      PROVE  /\ Cardinality(keys) \in Nat \ {0}
             /\ Cardinality(keys \ {k}) = Cardinality(keys) - 1
  <2>1. Cardinality(keys \ {k}) = Cardinality(keys) - 1
    BY <1>1, FS_RemoveElement
  <2>2. IsFiniteSet(keys \ {k})
    BY <1>1, FS_Subset
  <2>3. Cardinality(keys \ {k}) \in Nat
    BY <2>2, FS_CardinalityType
  <2> QED
    BY <1>2, <2>1, <2>3
<1> QED
  BY <1>2, <1>3

\* A task has a call to make as long as it runs.
LEMMA CallsType ==
    ASSUME NEW r \in Request, NEW t, Shape(r, t)
    PROVE  Calls(r, t) \in Nat \ {0}
<1>1. Cardinality(Dirty[r]) \in Nat
  BY SlotCounts
<1>2. t.op \in SlotOps => Cardinality(t.left) \in Nat
  BY SlotCounts DEF Shape
<1> QED
  BY <1>1, <1>2 DEF Calls, SlotOps

\* Each call is the last one or leaves one less.
LEMMA CallsFall ==
    ASSUME NEW r \in Request, Shape(r, task[r]), NEW rep, NEW t,
           NextCall(r, rep, t)
    PROVE  Calls(r, t) = Calls(r, task[r]) - 1
<1> DEFINE n == Cardinality(Dirty[r])
<1>1. n \in Nat /\ \A k \in Dirty[r] : Cardinality(Dirty[r] \ {k}) = n - 1
  BY SlotCounts
<1>2. CASE task[r].op = "exist"
  <2>1. t.op \in {"update_account", "create_contract"}
    BY <1>2 DEF NextCall, SlotOps
  <2> QED
    BY <1>1, <1>2, <2>1 DEF Calls
<1>3. CASE task[r].op = "account"
  <2>1. t.op = "storage_at" /\ Cardinality(t.left) = n - 1
    BY <1>1, <1>3 DEF NextCall, SlotOps
  <2> QED
    BY <1>1, <1>3, <2>1 DEF Calls
<1>4. CASE task[r].op = t.op /\ t.op \in SlotOps
  <2>1. /\ task[r].left \subseteq Dirty[r]
        /\ t.key \in task[r].left /\ t.left = task[r].left \ {t.key}
    BY <1>4 DEF NextCall, SlotOps, Shape
  <2>2. /\ Cardinality(task[r].left) \in Nat
        /\ Cardinality(t.left) = Cardinality(task[r].left) - 1
    BY <2>1, SlotCounts
  <2> QED
    BY <1>1, <1>4, <2>2 DEF Calls, SlotOps
<1>5. CASE /\ task[r].op \in {"storage_at", "create_contract", "update_account"}
           /\ t.op = "set_storage"
  <2>1. Cardinality(t.left) = n - 1 /\ task[r].left = {}
    BY <1>1, <1>5 DEF NextCall, SlotOps
  <2>2. Cardinality({}) = 0
    BY FS_EmptySet
  <2> QED
    BY <1>1, <1>5, <2>1, <2>2 DEF Calls
<1> QED
  BY <1>2, <1>3, <1>4, <1>5 DEF NextCall, SlotOps

\* A task starts with as many calls as its slots need.
LEMMA CallsAtStart ==
    \A r \in Request : 3 * Calls(r, First(r)) <= 6 * Cardinality(Dirty[r]) + 6
<1>1. \A r \in Request : Cardinality(Dirty[r]) \in Nat
  BY SlotCounts
<1> QED
  BY <1>1, FirstShape DEF Calls

\* One request is closer to its answer and the others are where they were.
Closer(r) ==
    /\ Work(r)' \in Nat /\ Work(r)' < Work(r)
    /\ \A s \in Request \ {r} : Work(s)' = Work(s)

\* What is left of a request depends on nothing else.
LEMMA WorkKept ==
    ASSUME NEW r, stage'[r] = stage[r], task'[r] = task[r],
           call'[r] = call[r], answer'[r] = answer[r]
    PROVE  Work(r)' = Work(r)
BY DEF Work, CallsLeft, CallLeft, AnswerLeft

\* What is left of a request whose task runs, and of one whose task is over.
LEMMA WorkOfTask ==
    ASSUME TypeOK, TaskInv, NEW r \in Request
    PROVE  /\ stage[r] = "running" =>
                 /\ Work(r) = 3 * Calls(r, task[r]) + CallLeft(r) + 3
                 /\ CallLeft(r) \in 0..2
           /\ Calls(r, task[r]) \in Nat \ {0}
           /\ stage[r] = "finished" =>
                 Work(r) = AnswerLeft(r) /\ AnswerLeft(r) \in 0..2
<1>1. Calls(r, task[r]) \in Nat \ {0}
  BY CallsType DEF TaskInv
<1>2. CallLeft(r) \in 0..2 /\ AnswerLeft(r) \in 0..2
  BY DEF TypeOK, CallLeft, AnswerLeft
<1> QED
  BY <1>1, <1>2, CallsLeftIs DEF Work

\* When execution goes on after a reply, a call is done with.
LEMMA ContinueCloser ==
    ASSUME TypeOK, TaskInv, NEW w \in Worker, worker[w] # Idle,
           call[worker[w]] # "none", NEW rep, Continue(w, rep)
    PROVE  \E r \in Request : Closer(r)
<1>1. PICK r \in Request :
        /\ r = worker[w] /\ stage[r] = "running" /\ task[r] # NoTask
        /\ call' = [call EXCEPT ![r] = "none"]
        /\ reply' = [reply EXCEPT ![r] = "none"]
        /\ UNCHANGED <<answer, link, copies, slots, overlapped>>
        /\ \/ /\ stage' = [stage EXCEPT ![r] = "finished"]
              /\ task' = [task EXCEPT ![r] = NoTask]
           \/ /\ \E t : /\ Shape(r, t) /\ t # NoTask /\ NextCall(r, rep, t)
                        /\ task' = [task EXCEPT ![r] = t]
              /\ UNCHANGED stage
  BY ContinueTask
<1>2. \A s \in Request \ {r} : Work(s)' = Work(s)
  BY <1>1, WorkKept DEF TypeOK
<1>3. PICK m \in Nat \ {0} : m = Calls(r, task[r])
  BY WorkOfTask
<1>4. Work(r) = 3 * m + CallLeft(r) + 3 /\ CallLeft(r) \in 0..2
  BY <1>1, <1>3, WorkOfTask
<1>5. TypeOK' /\ TaskInv'
  BY ContinueInv
<1>6. ASSUME stage' = [stage EXCEPT ![r] = "finished"]
      PROVE  Work(r)' \in Nat /\ Work(r)' < Work(r)
  <2>1. stage'[r] = "finished"
    BY <1>6 DEF TypeOK
  <2>2. Work(r)' = AnswerLeft(r)' /\ AnswerLeft(r)' \in 0..2
    BY <1>5, <2>1 DEF Work, AnswerLeft, TypeOK
  <2> QED
    BY <1>4, <2>2
<1>7. ASSUME UNCHANGED stage, NEW t, NextCall(r, rep, t),
             task' = [task EXCEPT ![r] = t]
      PROVE  Work(r)' \in Nat /\ Work(r)' < Work(r)
  <2>1. task'[r] = t /\ call'[r] = "none" /\ stage'[r] = "running"
    BY <1>1, <1>7 DEF TypeOK
  <2>2. Calls(r, t) = m - 1
    BY <1>3, <1>7, CallsFall DEF TaskInv
  <2>3. CallLeft(r)' = 2 /\ CallsLeft(r)' = m - 1
    BY <2>1, <2>2, CallsLeftIs DEF CallLeft
  <2>4. Work(r)' = 3 * (m - 1) + 2 + 3
    BY <2>1, <2>3 DEF Work
  <2>5. CallLeft(r) \in 0..1
    BY <1>1 DEF CallLeft, TypeOK
  <2> QED
    BY <1>4, <2>4, <2>5
<1> QED
  BY <1>1, <1>2, <1>6, <1>7 DEF Closer

\* What a request has left is kept by a step that changes none of it.
LEMMA AllWorkKept ==
    ASSUME UNCHANGED <<stage, task, call, answer>>
    PROVE  \A r \in Request : Work(r)' = Work(r)
BY WorkKept

\* Every step but those of the connection gets some request closer.
LEMMA CloserStep ==
    ASSUME TypeOK, TaskInv, AnswerInv, Next
    PROVE  \/ (HangUp \/ Notice) /\ \A r \in Request : Work(r)' = Work(r)
           \/ UNCHANGED link /\ \E r \in Request : Closer(r)
<1>k. ASSUME NEW r \in Request, Work(r)' \in Nat, Work(r)' < Work(r),
             \A s \in Request \ {r} :
                /\ stage'[s] = stage[s] /\ task'[s] = task[s]
                /\ call'[s] = call[s] /\ answer'[s] = answer[s]
      PROVE  Closer(r)
  BY <1>k, WorkKept DEF Closer
<1>1. ASSUME NEW r \in Request, Send(r) PROVE UNCHANGED link /\ Closer(r)
  <2>1. /\ stage[r] = "new" /\ stage' = [stage EXCEPT ![r] = "sent"]
        /\ UNCHANGED <<task, call, answer, link>>
    BY <1>1 DEF Send, Issued, taskVars
  <2>2. Work(r)' \in Nat /\ Work(r) = Work(r)' + 1
    BY <2>1, SlotCounts DEF Work, TypeOK
  <2>o. \A s \in Request \ {r} :
           /\ stage'[s] = stage[s] /\ task'[s] = task[s]
           /\ call'[s] = call[s] /\ answer'[s] = answer[s]
    BY <2>1 DEF TypeOK
  <2>w. Work(r)' \in Nat /\ Work(r)' < Work(r)
    BY <2>2
  <2> QED
    BY <2>1, <2>o, <2>w, <1>k
<1>2. ASSUME NEW r \in Request, Serve(r) PROVE UNCHANGED link /\ Closer(r)
  <2>1. /\ call[r] = "issued" /\ call' = [call EXCEPT ![r] = "served"]
        /\ UNCHANGED <<stage, task, answer, link>>
    BY <1>2 DEF Serve
  <2>2. stage[r] = "running" /\ CallLeft(r) = 1
    BY <2>1 DEF TaskInv, CallLeft
  <2>3. PICK m \in Nat : m = Calls(r, task[r]) /\ Work(r) = 3 * m + 1 + 3
    BY <2>2, WorkOfTask
  <2>4. stage'[r] = "running" /\ task'[r] = task[r] /\ call'[r] = "served"
    BY <2>1, <2>2 DEF TypeOK
  <2>5. Work(r)' = 3 * m + 0 + 3
    BY <2>3, <2>4, CallsLeftIs DEF Work, CallLeft
  <2>o. \A s \in Request \ {r} :
           /\ stage'[s] = stage[s] /\ task'[s] = task[s]
           /\ call'[s] = call[s] /\ answer'[s] = answer[s]
    BY <2>1 DEF TypeOK
  <2>w. Work(r)' \in Nat /\ Work(r)' < Work(r)
    BY <2>3, <2>5
  <2> QED
    BY <2>1, <2>o, <2>w, <1>k
<1>3. ASSUME NEW r \in Request, Accept(r) PROVE UNCHANGED link /\ Closer(r)
  <2>1. /\ stage[r] = "sent" /\ stage' = [stage EXCEPT ![r] = "queued"]
        /\ UNCHANGED <<task, call, answer, link>>
    BY <1>3 DEF Accept, taskVars
  <2>2. Work(r)' \in Nat /\ Work(r) = Work(r)' + 1
    BY <2>1, SlotCounts DEF Work, TypeOK
  <2>o. \A s \in Request \ {r} :
           /\ stage'[s] = stage[s] /\ task'[s] = task[s]
           /\ call'[s] = call[s] /\ answer'[s] = answer[s]
    BY <2>1 DEF TypeOK
  <2>w. Work(r)' \in Nat /\ Work(r)' < Work(r)
    BY <2>2
  <2> QED
    BY <2>1, <2>o, <2>w, <1>k
<1>4. ASSUME NEW r \in Request, Poll(r) \/ Respond(r)
      PROVE  UNCHANGED link /\ Closer(r)
  <2>1. /\ \/ answer[r] = "none" /\ answer'[r] \in {"delayed", "failed"}
           \/ answer[r] = "delayed" /\ answer'[r] = "ok"
        /\ \A s \in Request \ {r} : answer'[s] = answer[s]
        /\ channel[r] # "empty"
        /\ UNCHANGED <<stage, task, call, link>>
    BY <1>4 DEF Poll, Respond, AnswerInv, TypeOK, taskVars
  <2>2. stage[r] = "finished" /\ stage'[r] = "finished"
    BY <2>1 DEF AnswerInv
  <2>3. Work(r) = AnswerLeft(r) /\ Work(r)' = AnswerLeft(r)'
    BY <2>2 DEF Work
  <2>4. AnswerLeft(r)' \in Nat /\ AnswerLeft(r)' < AnswerLeft(r)
    BY <2>1 DEF AnswerLeft
  <2>o. \A s \in Request \ {r} :
           /\ stage'[s] = stage[s] /\ task'[s] = task[s]
           /\ call'[s] = call[s] /\ answer'[s] = answer[s]
    BY <2>1 DEF TypeOK
  <2>w. Work(r)' \in Nat /\ Work(r)' < Work(r)
    BY <2>3, <2>4
  <2> QED
    BY <2>1, <2>o, <2>w, <1>k
<1>5. ASSUME NEW w \in Worker, NEW r \in Request, RunTask(w, r)
      PROVE  UNCHANGED link /\ Closer(r)
  <2>1. /\ stage[r] = "queued" /\ stage' = [stage EXCEPT ![r] = "running"]
        /\ task' = [task EXCEPT ![r] = First(r)]
        /\ UNCHANGED <<call, answer, link>>
    BY <1>5 DEF RunTask
  <2>2. stage'[r] = "running" /\ task'[r] = First(r)
    BY <2>1 DEF TypeOK
  <2>c. call'[r] = "none"
    BY <2>1 DEF TypeOK, TaskInv
  <2>m. PICK m \in Nat : /\ m = Calls(r, First(r))
                         /\ 3 * m <= 6 * Cardinality(Dirty[r]) + 6
    BY FirstShape, CallsType, CallsAtStart
  <2>3. Work(r) = 6 * Cardinality(Dirty[r]) + 12
    BY <2>1 DEF Work
  <2>4. Cardinality(Dirty[r]) \in Nat
    BY SlotCounts
  <2>p. Work(r)' = 3 * m + 2 + 3
    BY <2>2, <2>c, <2>m, CallsLeftIs DEF Work, CallLeft
  <2>o. \A s \in Request \ {r} :
           /\ stage'[s] = stage[s] /\ task'[s] = task[s]
           /\ call'[s] = call[s] /\ answer'[s] = answer[s]
    BY <2>1 DEF TypeOK
  <2>w. Work(r)' \in Nat /\ Work(r)' < Work(r)
    BY <2>m, <2>3, <2>p, <2>4
  <2> QED
    BY <2>1, <2>o, <2>w, <1>k
<1>6. ASSUME NEW w \in Worker, Issue(w)
      PROVE  UNCHANGED link /\ \E r \in Request : Closer(r)
  <2>r. PICK r \in Request : r = worker[w]
    BY <1>6 DEF Issue, TypeOK
  <2>1. /\ call[r] = "none" /\ call' = [call EXCEPT ![r] = "issued"]
        /\ UNCHANGED <<stage, task, answer, link>>
    BY <1>6, <2>r DEF Issue
  <2>2. stage[r] = "running" /\ CallLeft(r) = 2
    BY <1>6, <2>r, <2>1 DEF Issue, TaskInv, CallLeft
  <2>3. PICK m \in Nat : m = Calls(r, task[r]) /\ Work(r) = 3 * m + 2 + 3
    BY <2>2, WorkOfTask
  <2>4. stage'[r] = "running" /\ task'[r] = task[r] /\ call'[r] = "issued"
    BY <2>1, <2>2 DEF TypeOK
  <2>5. Work(r)' = 3 * m + 1 + 3
    BY <2>3, <2>4, CallsLeftIs DEF Work, CallLeft
  <2>o. \A s \in Request \ {r} :
           /\ stage'[s] = stage[s] /\ task'[s] = task[s]
           /\ call'[s] = call[s] /\ answer'[s] = answer[s]
    BY <2>1 DEF TypeOK
  <2>w. Work(r)' \in Nat /\ Work(r)' < Work(r)
    BY <2>3, <2>5
  <2> QED
    BY <2>1, <2>o, <2>w, <1>k
<1>7. ASSUME NEW w \in Worker, Resume(w) \/ ResumeLost(w)
      PROVE  UNCHANGED link /\ \E r \in Request : Closer(r)
  <2>1. /\ worker[w] # Idle /\ call[worker[w]] # "none"
        /\ \E rep : Continue(w, rep)
    BY <1>7 DEF Resume, ResumeLost
  <2>2. UNCHANGED link
    BY <2>1 DEF Continue
  <2> QED
    BY <2>1, <2>2, ContinueCloser
<1>8. ASSUME HangUp \/ Notice PROVE \A r \in Request : Work(r)' = Work(r)
  BY <1>8, AllWorkKept DEF HangUp, Notice, taskVars
<1> QED
  BY <1>1, <1>2, <1>3, <1>4, <1>5, <1>6, <1>7, <1>8
  DEF Next, MainStep, TaskStep

\* Nothing is done twice, nor tried again after a hang-up, with as many requests
\* and threads as there may be: the tasks, polls and provider calls of
\* executor_impl.rs and provider_adaptor.rs take 6 * n + 14 steps at most for a
\* request that writes n slots.
THEOREM NothingRepeats == Spec => NothingIsRepeated
<1>1. ASSUME ServerInv, [Next]_vars
      PROVE  [\/ /\ <<link, link'>> \in {<<"up", "down">>, <<"down", "closed">>}
                 /\ \A r \in Request : Work(r)' = Work(r)
              \/ /\ UNCHANGED link
                 /\ \E r \in Request :
                       /\ Work(r)' \in Nat /\ Work(r)' < Work(r)
                       /\ \A s \in Request \ {r} : Work(s)' = Work(s)]_vars
  <2> SUFFICES ASSUME Next
               PROVE  \/ /\ <<link, link'>> \in {<<"up", "down">>,
                                                 <<"down", "closed">>}
                         /\ \A r \in Request : Work(r)' = Work(r)
                      \/ /\ UNCHANGED link
                         /\ \E r \in Request :
                               /\ Work(r)' \in Nat /\ Work(r)' < Work(r)
                               /\ \A s \in Request \ {r} : Work(s)' = Work(s)
    BY <1>1
  <2>1. HangUp \/ Notice =>
          <<link, link'>> \in {<<"up", "down">>, <<"down", "closed">>}
    BY DEF HangUp, Notice
  <2> QED
    BY <1>1, <2>1, CloserStep DEF ServerInv, Closer
<1> QED
  BY <1>1, ServerInvariant, PTL DEF Spec, NothingIsRepeated
=============================================================================
