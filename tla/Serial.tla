-------------------------------- MODULE Serial --------------------------------
(***************************************************************************)
(* What a client that awaits each answer expects of a durian server,       *)
(* without threads, tasks or provider calls.  A request is carried out at  *)
(* once or refused, before the next one is made, and its answer says what  *)
(* became of it.  A client that hangs up may find part of the one request  *)
(* it had out, and never more.                                             *)
(***************************************************************************)
CONSTANTS
    Request,       \* requests the client makes
    Deployments,   \* those that deploy the contract; the others call it
    Key,           \* slots of the contract
    Dirty          \* the slots each request writes

VARIABLES
    up,        \* the client has not hung up
    phase,     \* of a request: "new", "waiting", "applied", "done", "failed",
               \* then "ok" or "err", as the client is told
    copies,    \* accounts the chain has at the contract's address: none or one
    slots      \* in each slot, the marks of the requests that wrote it

vars == <<up, phase, copies, slots>>

Init ==
    /\ up = TRUE
    /\ phase = [r \in Request |-> "new"]
    /\ copies = 0
    /\ slots = [k \in Key |-> {}]

Become(r, p) == phase' = [phase EXCEPT ![r] = p]

Begin(r) ==
    /\ up /\ phase[r] = "new"
    /\ \A s \in Request : phase[s] \in {"new", "ok", "err"}
    /\ Become(r, "waiting")
    /\ UNCHANGED <<up, copies, slots>>

\* The contract is there already, or there is none to call.
Refused(r) == IF r \in Deployments THEN copies # 0 ELSE copies = 0

\* The contract is there, and these slots have the mark of the request added to
\* what the requests before it have left.
Store(r, keys) ==
    /\ copies' = 1
    /\ slots' = [k \in Key |-> IF k \in keys THEN slots[k] \cup {r} ELSE slots[k]]

Apply(r) ==
    /\ up /\ phase[r] = "waiting" /\ ~Refused(r)
    /\ Become(r, "applied")
    /\ Store(r, Dirty[r])
    /\ UNCHANGED up

Succeed(r) ==
    /\ phase[r] = "applied" /\ Become(r, "done")
    /\ UNCHANGED <<up, copies, slots>>

\* With the client there, a request fails when it is refused, and nothing else.
Fail(r) ==
    /\ \/ phase[r] = "waiting" /\ (Refused(r) \/ ~up)
       \/ phase[r] = "applied" /\ ~up
    /\ Become(r, "failed")
    /\ UNCHANGED <<up, copies, slots>>

Tell(r) ==
    /\ \/ phase[r] = "done" /\ Become(r, "ok")
       \/ phase[r] = "failed" /\ Become(r, "err")
    /\ UNCHANGED <<up, copies, slots>>

\* The client hangs up.  The request it had out may have got part of the way: a
\* contract without all of its slots, or some of the slots of a call.
Lose ==
    /\ up /\ up' = FALSE
    /\ \/ UNCHANGED <<copies, slots>>
       \/ \E r \in Request, keys \in SUBSET Key :
             /\ phase[r] = "waiting" /\ ~Refused(r)
             /\ keys \subseteq Dirty[r] /\ keys # Dirty[r]
             /\ Store(r, keys)
    /\ UNCHANGED phase

Next ==
    \/ \E r \in Request : Begin(r) \/ Apply(r) \/ Succeed(r) \/ Fail(r) \/ Tell(r)
    \/ Lose

Spec == Init /\ [][Next]_vars
=============================================================================
