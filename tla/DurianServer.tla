---------------------------- MODULE DurianServer ----------------------------
(***************************************************************************)
(* durian-server: the requests of a client, the tasks that run `execute`   *)
(* for them, and the provider calls those tasks make back to the client.   *)
(*                                                                         *)
(* The RPC system and the promises of pending requests live on the main    *)
(* thread.  Each request is handed to a task of the tokio runtime, which   *)
(* runs `execute` without ever yielding: ProviderAdaptor blocks its thread *)
(* (futures::executor::block_on) until the client's reply is in.  Sockets  *)
(* and timers are noticed by the runtime's driver, and in tokio 0.2 only a *)
(* worker thread that has nothing to run drives it.                        *)
(*                                                                         *)
(* A transaction is reduced to provider calls that decide what becomes of  *)
(* it.  A deployment asks `exist`, creates the contract or updates its     *)
(* account, and writes the slots its constructor has set; a call looks the *)
(* account up, reads slots and writes them back with its own mark added,   *)
(* as a token transfer does with two balances.                             *)
(***************************************************************************)
EXTENDS Naturals, FiniteSets

CONSTANTS
    Request,       \* requests the client makes
    Deployments,   \* those that deploy the contract
    Worker,        \* threads of the runtime that run tasks
    Concurrency,   \* requests outstanding at a time
    Idle,          \* a worker with nothing to run
    Key,           \* slots of the contract
    NoKey,         \* no slot
    Dirty          \* the slots the execution of each request leaves dirty

ASSUME ServerAssumption ==
    /\ Deployments \subseteq Request
    /\ Idle \notin Request
    /\ Concurrency \in Nat \ {0}
    /\ NoKey \notin Key
    /\ Dirty \in [Request -> SUBSET Key]
    /\ \A r \in Request : IsFiniteSet(Dirty[r])

VARIABLES
    stage,     \* of a request: "new", "sent", "queued", "running", "finished"
    worker,    \* the request whose task a worker runs, or Idle
    task,      \* its provider call, the slot that is about, the slots left after
    call,      \* that call: "none", "issued", "served"
    reply,     \* its reply: "none", "ok", "err", "yes", "no"
    read,      \* what the task has read from each slot
    channel,   \* the oneshot channel of a request: "empty", "sent", "closed"
    answer,    \* "none", "delayed", "ok", "failed"
    link,      \* the connection: "up", "down", "closed" once that is noticed
    copies,    \* accounts the client's chain has at the contract's address
    slots,     \* marks in each slot of the contract
    overlapped \* history: the client once had two requests outstanding

taskVars == <<task, call, reply, read>>
clientVars == <<copies, slots, overlapped>>
vars == <<stage, worker, taskVars, channel, answer, link, clientVars>>

Plain(op) == [op |-> op, key |-> NoKey, left |-> {}]

NoTask == Plain("none")

\* One of these slots first, in whatever order the hash map or the contract has.
Slots(op, keys) == {[op |-> op, key |-> k, left |-> keys \ {k}] : k \in keys}

\* A contract that has just been created.
Fresh == [k \in Key |-> {}]

Answered(r) == answer[r] \in {"ok", "failed"}

Outstanding == {r \in Request : stage[r] # "new" /\ ~Answered(r)}

-----------------------------------------------------------------------------
(* Threads.  The main thread has its own and is never blocked.             *)

\* Some thread of the runtime is parked on the driver.
Driven == \E w \in Worker : worker[w] = Idle

-----------------------------------------------------------------------------
(* The client.                                                             *)

Issued(r) ==
    /\ link = "up" /\ stage[r] = "new"
    /\ stage' = [stage EXCEPT ![r] = "sent"]
    /\ overlapped' = (overlapped \/ Outstanding # {})
    /\ UNCHANGED <<worker, taskVars, channel, answer, link, copies, slots>>

\* The sample client awaits each answer before the next request (Concurrency = 1).
Send(r) == Cardinality(Outstanding) < Concurrency /\ Issued(r)

HangUp ==
    /\ link = "up"
    /\ link' = "down"
    /\ UNCHANGED <<stage, worker, taskVars, channel, answer, clientVars>>

\* What the client's provider answers.  The sample has no update_account.
ServedReply(op) ==
    CASE op = "exist"          -> IF copies > 0 THEN "yes" ELSE "no"
      [] op = "account"        -> IF copies > 0 THEN "ok" ELSE "err"
      [] op = "update_account" -> "err"
      [] OTHER                 -> "ok"

\* One provider call, done under the lock of the client's chain.  Of two accounts at
\* one address a lookup may find either.
Serve(r) ==
    LET t == task[r]
    IN  /\ link = "up" /\ call[r] = "issued"
        /\ call' = [call EXCEPT ![r] = "served"]
        /\ reply' = [reply EXCEPT ![r] = ServedReply(t.op)]
        /\ read' = IF t.op = "storage_at"
                   THEN [read EXCEPT ![r][t.key] = slots[t.key]] ELSE read
        /\ copies' = IF t.op = "create_contract" THEN copies + 1 ELSE copies
        /\ \/ t.op # "create_contract" /\ t.op # "set_storage" /\ UNCHANGED slots
           \/ t.op = "create_contract" /\ slots' \in {slots, Fresh}
           \/ /\ t.op = "set_storage"
              /\ slots' = [slots EXCEPT ![t.key] = read[r][t.key] \cup {r}]
        /\ UNCHANGED <<stage, worker, task, channel, answer, link, overlapped>>

-----------------------------------------------------------------------------
(* The server's main thread.                                               *)

\* ExecutorImpl::execute: a request comes in, and a task is spawned for it.
Accept(r) ==
    /\ link # "closed" /\ stage[r] = "sent" /\ Driven
    /\ stage' = [stage EXCEPT ![r] = "queued"]
    /\ UNCHANGED <<worker, taskVars, channel, answer, link, clientVars>>

\* Mutant: an error of try_recv is taken for "nothing yet".
Poll_NoClosed(r) ==
    /\ link # "closed"
    /\ answer[r] = "none" /\ channel[r] = "sent"
    /\ answer' = [answer EXCEPT ![r] = "delayed"]
    /\ UNCHANGED <<stage, worker, taskVars, channel, link, clientVars>>

\* Mutant: an empty channel is taken for a failure as well.
Poll_Early(r) ==
    /\ link # "closed"
    /\ answer[r] = "none" /\ stage[r] \notin {"new", "sent"}
    /\ answer' = [answer EXCEPT ![r] =
                     IF channel[r] = "sent" THEN "delayed" ELSE "failed"]
    /\ UNCHANGED <<stage, worker, taskVars, channel, link, clientVars>>

\* The promise polls the channel.  A result is held back for a delay of 10 ms; a
\* channel closed by a task that panicked is a failure.
Poll(r) ==
    /\ link # "closed"
    /\ answer[r] = "none" /\ channel[r] # "empty"
    /\ answer' = [answer EXCEPT ![r] =
                     IF channel[r] = "sent" THEN "delayed" ELSE "failed"]
    /\ UNCHANGED <<stage, worker, taskVars, channel, link, clientVars>>

\* The timer fires and the results are filled in.
Respond(r) ==
    /\ link # "closed" /\ Driven
    /\ answer[r] = "delayed"
    /\ answer' = [answer EXCEPT ![r] = "ok"]
    /\ UNCHANGED <<stage, worker, taskVars, channel, link, clientVars>>

\* The RPC system ends, and with it the promises and their receivers.
Notice ==
    /\ link = "down" /\ Driven
    /\ link' = "closed"
    /\ UNCHANGED <<stage, worker, taskVars, channel, answer, clientVars>>

-----------------------------------------------------------------------------
(* The tasks.                                                              *)

\* The first provider call of a transaction.
First(r) == Plain(IF r \in Deployments THEN "exist" ELSE "account")

\* Mutant: the task stays in the queue, for another thread to take.
RunTask_Queued(w, r) ==
    /\ worker[w] = Idle /\ stage[r] = "queued"
    /\ worker' = [worker EXCEPT ![w] = r]
    /\ task' = [task EXCEPT ![r] = First(r)]
    /\ UNCHANGED <<stage, call, reply, read, channel, answer, link, clientVars>>

\* A free thread takes a task from the queue.
RunTask(w, r) ==
    /\ worker[w] = Idle /\ stage[r] = "queued"
    /\ worker' = [worker EXCEPT ![w] = r]
    /\ stage' = [stage EXCEPT ![r] = "running"]
    /\ task' = [task EXCEPT ![r] = First(r)]
    /\ UNCHANGED <<call, reply, read, channel, answer, link, clientVars>>

\* The next provider call; the thread blocks until its reply is in.
Issue(w) ==
    LET r == worker[w]
    IN  /\ r # Idle /\ call[r] = "none"
        /\ call' = [call EXCEPT ![r] = "issued"]
        /\ UNCHANGED <<stage, worker, task, reply, read, channel, answer,
                       link, clientVars>>

\* The task ends and its thread is free: with a result in the channel, or with a
\* panic, at the unwrap of an Err or of a send to a receiver that is gone.
EndTask(w, ok) ==
    LET r == worker[w]
    IN  /\ worker' = [worker EXCEPT ![w] = Idle]
        /\ stage' = [stage EXCEPT ![r] = "finished"]
        /\ channel' = [channel EXCEPT ![r] = IF ok /\ link # "closed"
                                             THEN "sent" ELSE "closed"]
        /\ task' = [task EXCEPT ![r] = NoTask]
        /\ read' = [read EXCEPT ![r] = Fresh]

\* Mutant: the contract is created whatever `exist` says.
Following_Create(r, t, rep) ==
    CASE t.op = "exist"       -> {Plain("create_contract")}
      [] t.op = "account"     -> Slots("storage_at", Dirty[r])
      [] t.op = "set_storage" -> Slots("set_storage", t.left)
      [] OTHER -> IF t.left # {} THEN Slots("storage_at", t.left)
                                 ELSE Slots("set_storage", Dirty[r])

\* Mutant: update_state ends with the first slot it has written.
Following_One(r, t, rep) ==
    CASE t.op = "exist" -> {Plain(IF rep = "yes" THEN "update_account"
                                                 ELSE "create_contract")}
      [] t.op = "account"     -> Slots("storage_at", Dirty[r])
      [] t.op = "set_storage" -> {}
      [] OTHER -> IF t.left # {} THEN Slots("storage_at", t.left)
                                 ELSE Slots("set_storage", Dirty[r])

\* What may come after a call that did not fail: update_state writes the dirty
\* slots one by one after the account.
Following(r, t, rep) ==
    CASE t.op = "exist" -> {Plain(IF rep = "yes" THEN "update_account"
                                                 ELSE "create_contract")}
      [] t.op = "account"     -> Slots("storage_at", Dirty[r])
      [] t.op = "set_storage" -> Slots("set_storage", t.left)
      [] OTHER -> IF t.left # {} THEN Slots("storage_at", t.left)
                                 ELSE Slots("set_storage", Dirty[r])

\* Execution goes on after a reply; an error, and the last reply, end the task.
Continue(w, rep) ==
    LET r == worker[w]
    IN  /\ call' = [call EXCEPT ![r] = "none"]
        /\ reply' = [reply EXCEPT ![r] = "none"]
        /\ IF rep = "err" \/ Following(r, task[r], rep) = {}
           THEN EndTask(w, rep # "err")
           ELSE /\ \E t \in Following(r, task[r], rep) : task' = [task EXCEPT ![r] = t]
                /\ UNCHANGED <<worker, stage, channel, read>>
        /\ UNCHANGED <<answer, link, clientVars>>

\* The main thread receives the reply and wakes the thread that blocks.
Resume(w) ==
    /\ worker[w] # Idle /\ link # "closed" /\ Driven
    /\ call[worker[w]] = "served"
    /\ Continue(w, reply[worker[w]])

\* What a lost connection is to each call: `exist` reports FALSE, State takes an
\* error of `storage_at` for a missing slot, the others fail.
LostReply(op) == CASE op = "exist"      -> "no"
                   [] op = "storage_at" -> "ok"
                   [] OTHER             -> "err"

\* Mutant: a call on a lost connection is tried again.
ResumeLost_Retry(w) ==
    LET r == worker[w]
    IN  /\ r # Idle /\ link = "closed" /\ call[r] # "none"
        /\ call' = [call EXCEPT ![r] = "none"]
        /\ reply' = [reply EXCEPT ![r] = "none"]
        /\ UNCHANGED <<stage, worker, task, read, channel, answer, link,
                       clientVars>>

ResumeLost(w) ==
    /\ worker[w] # Idle /\ link = "closed"
    /\ call[worker[w]] # "none"
    /\ Continue(w, LostReply(task[worker[w]].op))

-----------------------------------------------------------------------------
Init ==
    /\ stage = [r \in Request |-> "new"]
    /\ worker = [w \in Worker |-> Idle]
    /\ task = [r \in Request |-> NoTask]
    /\ call = [r \in Request |-> "none"]
    /\ reply = [r \in Request |-> "none"]
    /\ read = [r \in Request |-> Fresh]
    /\ channel = [r \in Request |-> "empty"]
    /\ answer = [r \in Request |-> "none"]
    /\ link = "up"
    /\ copies = 0
    /\ slots = Fresh
    /\ overlapped = FALSE

MainStep(r) == Accept(r) \/ Poll(r) \/ Respond(r)

TaskStep(w) == Issue(w) \/ Resume(w) \/ ResumeLost(w)

Next ==
    \/ \E r \in Request : Send(r) \/ Serve(r) \/ MainStep(r)
    \/ \E w \in Worker, r \in Request : RunTask(w, r)
    \/ \E w \in Worker : TaskStep(w)
    \/ HangUp
    \/ Notice

\* The client serves the calls it gets, a free thread takes a queued task, and
\* the main thread polls every promise in turn.  Nobody has to send or hang up.
Fairness ==
    /\ \A r \in Request : WF_vars(Serve(r)) /\ WF_vars(MainStep(r))
    /\ \A r \in Request : WF_vars(\E w \in Worker : RunTask(w, r))
    /\ \A w \in Worker : WF_vars(TaskStep(w))
    /\ WF_vars(Notice)

Spec == Init /\ [][Next]_vars /\ Fairness

-----------------------------------------------------------------------------
(* Properties.                                                             *)

\* The types of the state of the client, the tasks and the promises; a task has a
\* provider call to make exactly while it runs.
TypeOK ==
    /\ stage \in [Request -> {"new", "sent", "queued", "running", "finished"}]
    /\ worker \in [Worker -> Request \cup {Idle}]
    /\ task \in [Request -> [op : {"none", "exist", "create_contract",
                                   "update_account", "account", "storage_at",
                                   "set_storage"},
                             key : Key \cup {NoKey}, left : SUBSET Key]]
    /\ \A r \in Request : task[r] # NoTask <=> stage[r] = "running"
    /\ call \in [Request -> {"none", "issued", "served"}]
    /\ reply \in [Request -> {"none", "ok", "err", "yes", "no"}]
    /\ read \in [Request -> [Key -> SUBSET Request]]
    /\ channel \in [Request -> {"empty", "sent", "closed"}]
    /\ answer \in [Request -> {"none", "delayed", "ok", "failed"}]
    /\ link \in {"up", "down", "closed"}
    /\ copies \in Nat
    /\ slots \in [Key -> SUBSET Request]
    /\ overlapped \in BOOLEAN

\* A client that awaits each answer, as the sample client does, never ends with two
\* accounts at one address, however its deployments are repeated or cut short by a
\* hang-up: what `exist` answered still holds when create_contract is done.
SingleAccount == ~overlapped => copies <= 1

\* For such a client, what a request that was answered ok has written stays, in each
\* of its slots: no task writes back a slot it read before that, not even one whose
\* request has failed, and no deployment clears it.
NoLostUpdate ==
    ~overlapped =>
      \A r \in Request : answer[r] = "ok" => \A k \in Dirty[r] : r \in slots[k]

\* The last call of a task is done on the client's chain, and well.
Whole(r) == /\ call[r] = "served" /\ reply[r] # "err"
            /\ Following(r, task[r], reply[r]) = {}

\* The slots update_state has written.
Written(r) ==
    IF task[r].op # "set_storage" THEN {}
    ELSE Dirty[r] \ (task[r].left \cup IF call[r] = "served" THEN {}
                                                          ELSE {task[r].key})

\* Requests half done: update_state has changed the chain, or is about to, and has
\* more to write.
Half == {r \in Request :
           /\ link = "up" /\ ~Whole(r)
           /\ \/ task[r].op = "create_contract" /\ call[r] = "served"
              \/ task[r].op = "set_storage"}

\* How far a request has come, as module Serial tells it.
Phase(r) ==
    CASE stage[r] = "new" -> "new"
      [] channel[r] = "sent" -> IF answer[r] = "ok" THEN "ok" ELSE "done"
      [] channel[r] = "closed" -> IF answer[r] = "failed" THEN "err" ELSE "failed"
      [] OTHER -> IF Whole(r) THEN "applied" ELSE "waiting"

\* Module Serial sees what a half done request has written with its last write, or
\* when the client hangs up and the rest cannot follow.
S == INSTANCE Serial WITH
        up     <- link = "up",
        phase  <- [r \in Request |-> Phase(r)],
        copies <- IF Half \cap Deployments # {} THEN 0 ELSE copies,
        slots  <- [k \in Key |-> slots[k] \ Half]

\* To a client that awaits each answer, as the sample client does, the provider calls
\* of a task are one step on a chain that holds what every request before it has
\* left, and the answer is true: a request fails because of what the chain was, and
\* then nothing of it is there.  Only a hang-up leaves part of a request, of the one
\* that was out, and nothing is written after it.
AwaitedIsSerial ==
    /\ S!Init
    /\ [][~overlapped' => S!Next \/ UNCHANGED S!vars]_vars

\* What is left to do for a request: to send, accept and run it, its provider
\* calls, each issued, served and resumed, and its answer.
CallsLeft(r) ==
    LET t == task[r]
        n == Cardinality(Dirty[r])
    IN  CASE t.op = "exist"       -> n + 2
          [] t.op = "account"     -> n + n + 1
          [] t.op = "storage_at"  -> Cardinality(t.left) + n + 1
          [] t.op = "set_storage" -> Cardinality(t.left) + 1
          [] OTHER                -> n + 1

CallLeft(r) == CASE call[r] = "none"   -> 2
                 [] call[r] = "issued" -> 1
                 [] call[r] = "served" -> 0

AnswerLeft(r) == CASE answer[r] = "none"    -> 2
                   [] answer[r] = "delayed" -> 1
                   [] OTHER                 -> 0

Work(r) ==
    CASE stage[r] = "new"      -> 6 * Cardinality(Dirty[r]) + 14
      [] stage[r] = "sent"     -> 6 * Cardinality(Dirty[r]) + 13
      [] stage[r] = "queued"   -> 6 * Cardinality(Dirty[r]) + 12
      [] stage[r] = "running"  -> 3 * CallsLeft(r) + CallLeft(r) + 3
      [] stage[r] = "finished" -> AnswerLeft(r)

\* However threads, polls and replies interleave, nothing is done twice, nor tried
\* again when the connection is lost: a step gets one request closer to its answer
\* and none further from it, or the connection closer to its end.
NothingIsRepeated ==
    [][\/ /\ <<link, link'>> \in {<<"up", "down">>, <<"down", "closed">>}
         /\ \A r \in Request : Work(r)' = Work(r)
       \/ /\ UNCHANGED link
         /\ \E r \in Request :
               /\ Work(r)' \in Nat /\ Work(r)' < Work(r)
               /\ \A s \in Request \ {r} : Work(s)' = Work(s)]_vars

\* A request is answered, with a result or a failure, unless the client hangs up:
\* a server waits for clients to call or deploy (durian-server/README.md:3).
RequestsAnswered ==
    \A r \in Request : stage[r] # "new" ~> Answered(r) \/ link # "up"

\* A task never holds its thread for ever, even when the client is gone.
TasksEnd == \A w \in Worker : worker[w] # Idle ~> worker[w] = Idle
=============================================================================
