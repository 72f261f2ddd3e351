--------------------------- MODULE LocalInference ---------------------------
(***************************************************************************)
(* A question to the local model, from the card in Discord through the     *)
(* bot's queue to the gateway that owns the GPU.                           *)
(*                                                                         *)
(* The bot is one event loop: a request's coroutine runs from one await to *)
(* the next, and its `pc` names the await it is at.  The gateway has a     *)
(* thread per request and one lock; `job[r].pc` names the place of the     *)
(* thread, an action is what it does under the lock or between two looks   *)
(* at state that other threads change.  Cancel travels beside the request  *)
(* and may overtake it.                                                    *)
(*                                                                         *)
(* The CPU runtime is configured (LOCAL_AI_CPU_ENABLED), so the server     *)
(* mode can be switched.  The lease that remembers a cancellation for 60   *)
(* seconds outlives a request that is on its way, and fewer than 256 are   *)
(* remembered.  Finish sooner and the short second pass it causes are left *)
(* out, and so is a card that closes under its question.                   *)
(***************************************************************************)
EXTENDS Naturals, FiniteSets, Sequences, SequencesExt

CONSTANTS
    Requests,    \* the questions asked
    Owner,       \* who asks them
    Nobody,
    Capacity,    \* InferenceQueue(capacity)
    PerUser,     \* InferenceQueue(per_user)
    Impatient,   \* bound: the questions whose askers press Cancel
    MaxFaults    \* bound: calls that fail or lose their answer, mode switches

ASSUME ConstantsAssumption ==
    /\ IsFiniteSet(Requests) /\ DOMAIN Owner = Requests /\ Nobody \notin Requests
    /\ {Capacity, PerUser} \subseteq Nat \ {0} /\ MaxFaults \in Nat
    /\ Impatient \subseteq Requests

VARIABLES
    tickets,    \* InferenceQueue.tickets
    turn,       \* the coroutine of a question and its ticket
    button,     \* Cancel generation
    job,        \* the gateway's thread for a question
    active,     \* ACTIVE
    leases,     \* CANCELLED
    mode,       \* the server mode file
    passes,     \* how often a runtime was given the question
    published,  \* the answers shown
    faults

vars == <<tickets, turn, button, job, active, leases, mode, passes, published,
          faults>>
bot == <<tickets, turn>>
gateway == <<job, active, leases, mode, passes>>

-----------------------------------------------------------------------------
\* The awaits of a question: asked (permissions and search), notice (its position
\* is shown), wait (for a change), authorize, model ("Generating" is shown), sent
\* (POST /v1/chat), busy (it is shown as queued again), retry (two seconds),
\* answered (permissions again), over.
Holding == {"notice", "wait", "authorize", "model", "sent", "busy", "retry"}
Turn == [pc : Holding \union {"asked", "answered", "over"},
         pos : Nat, cancelled : BOOLEAN, changed : BOOLEAN]
Button == [asked : BOOLEAN,                       \* cancel_requested
           cancel : {"no", "ack", "post", "done"}]
Job == [pc : {"none", "out", "routed", "desktop", "forward", "select", "selected",
              "run", "replied"},
        cancelled : BOOLEAN,
        backend : {"server", "desktop"}, execution : {"gpu", "cpu"},
        reply : {"none", "ok", "busy", "error"}]

\* "saved": the file says playback, but the call that wrote it failed
Modes == {"quality", "playback", "saved"}

NoTurn == [pc |-> "asked", pos |-> 0, cancelled |-> FALSE, changed |-> FALSE]
NoButton == [asked |-> FALSE, cancel |-> "no"]
NoJob == [pc |-> "none", cancelled |-> FALSE,
          backend |-> "server", execution |-> "gpu", reply |-> "none"]

Init ==
    /\ tickets = <<>>
    /\ turn = [r \in Requests |-> NoTurn]
    /\ button = [r \in Requests |-> NoButton]
    /\ job = [r \in Requests |-> NoJob]
    /\ active = Nobody
    /\ leases = {}
    /\ mode = "quality"
    /\ passes = [r \in Requests |-> 0]
    /\ published = {}
    /\ faults = 0

Fault == faults < MaxFaults /\ faults' = faults + 1
NoFault == UNCHANGED faults

-----------------------------------------------------------------------------
(***************************************************************************)
(* The queue.                                                              *)
(***************************************************************************)
InQueue(r) == \E i \in 1..Len(tickets) : tickets[i] = r
Position(r) == CHOOSE i \in 1..Len(tickets) : tickets[i] = r
OfUser(u) == {i \in 1..Len(tickets) : Owner[tickets[i]] = u}

\* mutant: one ticket too many fits
AlmostFull(r) == Len(tickets) > Capacity \/ Cardinality(OfUser(Owner[r])) > PerUser

\* the two limits of slot()
Full(r) == Len(tickets) >= Capacity \/ Cardinality(OfUser(Owner[r])) >= PerUser

\* ticket.dispatched: set before the POST, reset by a busy answer
Dispatched(r) == turn[r].pc = "sent"

\* tickets.remove(ticket), if it is still there
Without(r) == IF InQueue(r) THEN RemoveAt(tickets, Position(r)) ELSE tickets

\* mutant: the tickets behind are not told
LeftQuietly(r, t) ==
    /\ tickets' = Without(r)
    /\ turn' = [turn EXCEPT ![r] = t]

\* r's ticket leaves the queue, and notify() wakes every other one
Left(r, t) ==
    /\ tickets' = Without(r)
    /\ turn' = [q \in Requests |->
                    IF q = r THEN t
                    ELSE IF InQueue(q) THEN [turn[q] EXCEPT !.changed = TRUE]
                    ELSE turn[q]]

\* the finally of slot(): the ticket goes however its coroutine ends
Leave(r, pc) == Left(r, [NoTurn EXCEPT !.pc = pc])

\* One turn of slot()'s loop, as far as the next await.  At position 1 the loop
\* ends and the permissions are read afresh.
Looped(t, p) ==
    IF p = 1 THEN [t EXCEPT !.pc = "authorize"]
    ELSE IF t.pos = p THEN [t EXCEPT !.pc = "wait", !.changed = FALSE]
    ELSE [t EXCEPT !.pc = "notice", !.pos = p]

At(r, t) == turn' = [turn EXCEPT ![r] = t] /\ UNCHANGED tickets

\* The same where the card refuses to show a position to a user who cancelled.
Loop(r, t) ==
    LET next == Looped(t, Position(r)) IN
    IF next.pc = "notice" /\ button[r].asked THEN Leave(r, "over") ELSE At(r, next)

-----------------------------------------------------------------------------
(***************************************************************************)
(* A question.  A ticket that was cancelled raises at the next check().    *)
(***************************************************************************)

\* cancelled before inference, refused by a limit, or queued
Enter(r) ==
    /\ turn[r].pc = "asked"
    /\ \/ /\ button[r].asked \/ Full(r)
          /\ At(r, [turn[r] EXCEPT !.pc = "over"])
       \/ /\ ~button[r].asked /\ ~Full(r)
          /\ tickets' = Append(tickets, r)
          /\ turn' = [turn EXCEPT ![r] = Looped(@, Len(tickets) + 1)]
    /\ UNCHANGED <<button, gateway, published, faults>>

\* mutant: the queue is not looked at again after the position was shown
ShownBlindly(r) == At(r, [turn[r] EXCEPT !.pc = "wait", !.changed = FALSE])

\* the position is shown: look again before waiting
Shown(r) ==
    IF Position(r) = turn[r].pos
    THEN At(r, [turn[r] EXCEPT !.pc = "wait", !.changed = FALSE])
    ELSE Loop(r, [turn[r] EXCEPT !.changed = FALSE])

Noticed(r) ==
    /\ turn[r].pc = "notice"
    /\ IF turn[r].cancelled THEN Leave(r, "over") ELSE Shown(r)
    /\ UNCHANGED <<button, gateway, published, faults>>

Wake(r) ==
    /\ turn[r].pc = "wait" /\ turn[r].changed
    /\ IF turn[r].cancelled THEN Leave(r, "over") ELSE Loop(r, turn[r])
    /\ UNCHANGED <<button, gateway, published, faults>>

\* an hour has passed in the queue
Expire(r) ==
    /\ turn[r].pc = "wait"
    /\ Leave(r, "over")
    /\ UNCHANGED <<button, gateway, published, faults>>

\* the permissions are read, or lost; then the card is edited
Authorize(r) ==
    /\ turn[r].pc = "authorize"
    /\ \/ Leave(r, "over")
       \/ /\ ~turn[r].cancelled /\ ~button[r].asked
          /\ At(r, [turn[r] EXCEPT !.pc = "model"])
    /\ UNCHANGED <<button, gateway, published, faults>>

\* mutant: no check after the card was edited
Unchecked(r) == FALSE

\* check() right before the request goes out
Withdrawn(r) == turn[r].cancelled

Dispatch(r) ==
    /\ turn[r].pc = "model"
    /\ IF Withdrawn(r)
       THEN Leave(r, "over") /\ UNCHANGED job
       ELSE /\ At(r, [turn[r] EXCEPT !.pc = "sent"])
            /\ job' = [job EXCEPT ![r] = [NoJob EXCEPT !.pc = "out"]]
    /\ UNCHANGED <<button, active, leases, mode, passes, published, faults>>

\* mutant: an error is tried again as well
RetriedAlways(reply) == reply \in {"busy", "error"}

\* _NotAdmitted: the one answer that says no inference started
Retried(reply) == reply = "busy"

\* The answer.  After a busy one the card says so, unless the user cancelled or
\* the hour has passed.
Receive(r) ==
    LET reply == job[r].reply IN
    /\ turn[r].pc = "sent" /\ reply # "none"
    /\ job' = [job EXCEPT ![r].reply = "none"]
    /\ \/ reply = "ok" /\ Leave(r, "answered")
       \/ Retried(reply) /\ ~button[r].asked /\ At(r, [turn[r] EXCEPT !.pc = "busy"])
       \/ reply # "ok" /\ Leave(r, "over")
    /\ UNCHANGED <<button, active, leases, mode, passes, published, faults>>

\* The connection breaks or the client's own limit passes: the thread goes on.
Lose(r) ==
    /\ turn[r].pc = "sent"
    /\ Fault
    /\ Leave(r, "over")
    /\ UNCHANGED <<button, gateway, published>>

Busied(r) ==
    /\ turn[r].pc = "busy"
    /\ IF turn[r].cancelled THEN Leave(r, "over")
       ELSE At(r, [turn[r] EXCEPT !.pc = "retry", !.changed = FALSE])
    /\ UNCHANGED <<button, gateway, published, faults>>

\* a change, or two seconds
Retry(r) ==
    /\ turn[r].pc = "retry"
    /\ IF turn[r].cancelled THEN Leave(r, "over")
       ELSE At(r, [turn[r] EXCEPT !.pc = "authorize"])
    /\ UNCHANGED <<button, gateway, published, faults>>

\* The answer is shown, or discarded after a cancellation or a lost permission.
Publish(r) ==
    /\ turn[r].pc = "answered"
    /\ published' \in {published} \union (IF button[r].asked THEN {}
                                          ELSE {published \union {r}})
    /\ At(r, [turn[r] EXCEPT !.pc = "over"])
    /\ UNCHANGED <<button, gateway, faults>>

-----------------------------------------------------------------------------
(***************************************************************************)
(* Cancel generation.                                                      *)
(***************************************************************************)
Pressed(r, b) == button' = [button EXCEPT ![r] = b]

PressCancel(r) ==
    /\ turn[r].pc # "over"
    /\ button[r].cancel = "no"
    /\ Pressed(r, [button[r] EXCEPT !.asked = TRUE, !.cancel = "ack"])
    /\ UNCHANGED <<bot, gateway, published, faults>>

\* Discord has the acknowledgement: cancel_waiting, unless no ticket was taken
\* yet or the question is over.  What it cannot take out of the queue is
\* cancelled at the gateway.
CancelAcked(r) ==
    /\ button[r].cancel = "ack"
    /\ \/ /\ turn[r].pc = "asked"
          /\ Pressed(r, [button[r] EXCEPT !.cancel = "done"])
          /\ UNCHANGED bot /\ NoFault
       \/ /\ turn[r].pc = "over"
          /\ Pressed(r, [button[r] EXCEPT !.cancel = "no"])
          /\ UNCHANGED bot /\ NoFault
       \/ /\ InQueue(r) /\ ~Dispatched(r)
          /\ Left(r, [turn[r] EXCEPT !.cancelled = TRUE, !.changed = TRUE])
          /\ Pressed(r, [button[r] EXCEPT !.cancel = "done"])
          /\ NoFault
       \/ /\ turn[r].pc \notin {"asked", "over"}
          /\ ~InQueue(r) \/ Dispatched(r)
          /\ At(r, IF InQueue(r) THEN [turn[r] EXCEPT !.cancelled = TRUE] ELSE turn[r])
          /\ Pressed(r, [button[r] EXCEPT !.cancel = "post"])
          /\ NoFault
       \/ /\ Fault
          /\ Pressed(r, [button[r] EXCEPT !.cancel = "no"])
          /\ UNCHANGED bot
    /\ UNCHANGED <<gateway, published>>

\* mutant: the lease names the active job
CancelledActive(r) ==
    /\ leases' = leases \union {active}
    /\ job' = IF active = r THEN [job EXCEPT ![r].cancelled = TRUE] ELSE job

\* POST /v1/cancel under the lock: the lease, and the active job if it is r's
Cancelled(r) ==
    /\ leases' = leases \union {r}
    /\ job' = IF active = r THEN [job EXCEPT ![r].cancelled = TRUE] ELSE job

GatewayCancel(r) ==
    /\ button[r].cancel = "post"
    /\ \/ NoFault /\ Cancelled(r) /\ Pressed(r, [button[r] EXCEPT !.cancel = "done"])
       \/ /\ Fault
          /\ Pressed(r, [button[r] EXCEPT !.cancel = "no"])
          /\ Cancelled(r) \/ UNCHANGED <<leases, job>>
    /\ UNCHANGED <<bot, active, mode, passes, published>>

-----------------------------------------------------------------------------
(***************************************************************************)
(* The gateway's thread.                                                   *)
(***************************************************************************)
Thread(r, j) == job' = [job EXCEPT ![r] = j]

\* mutant: a cancellation that came first is forgotten
NeverRefused(r) == FALSE

\* cancelled_before_admission
Refused(r) == r \in leases

\* Under the lock: refused, busy, or admitted as the one active job.
Admit(r) ==
    /\ job[r].pc = "out"
    /\ \/ /\ Refused(r)
          /\ Thread(r, [NoJob EXCEPT !.reply = "error"])
          /\ UNCHANGED active
       \/ /\ ~Refused(r) /\ active # Nobody
          /\ Thread(r, [NoJob EXCEPT !.reply = "busy"])
          /\ UNCHANGED active
       \/ /\ ~Refused(r) /\ active = Nobody
          /\ Thread(r, [NoJob EXCEPT !.pc = "routed"])
          /\ active' = r
    /\ UNCHANGED <<bot, button, leases, mode, passes, published, faults>>

\* the thread's answer, given before the slot is free
Answer(r, reply) == Thread(r, [job[r] EXCEPT !.pc = "replied", !.reply = reply])

\* route_chat: the desktop if it is allowed and ready, else the server if allowed
Route(r) ==
    /\ job[r].pc = "routed"
    /\ IF job[r].cancelled THEN Answer(r, "error")
       ELSE \/ \E pc \in {"desktop", "select"} : Thread(r, [job[r] EXCEPT !.pc = pc])
            \/ Answer(r, "error")
    /\ UNCHANGED <<bot, button, active, leases, mode, passes, published, faults>>

Started(r) == passes' = [passes EXCEPT ![r] = @ + 1]

\* The desktop's status was ready: it owns the job from here.
Forward(r) ==
    /\ job[r].pc = "desktop"
    /\ IF job[r].cancelled THEN Answer(r, "error") /\ UNCHANGED passes
       ELSE Thread(r, [job[r] EXCEPT !.pc = "forward", !.backend = "desktop"]) /\ Started(r)
    /\ UNCHANGED <<bot, button, active, leases, mode, published, faults>>

\* mutant: what the desktop did not finish goes to the server
ForwardedOrServed(r) ==
    \/ \E reply \in {"ok", "error"} : Answer(r, reply)
    \/ Thread(r, [job[r] EXCEPT !.pc = "select"])

\* a disconnect is never retried on the server
Forwarded(r) == \E reply \in {"ok", "error"} : Answer(r, reply)

EndForward(r) ==
    /\ job[r].pc = "forward"
    /\ IF job[r].cancelled THEN Answer(r, "error") ELSE Forwarded(r)
    /\ UNCHANGED <<bot, button, active, leases, mode, passes, published, faults>>

\* select_server: the GPU in quality mode, while the monitor says it is free
Execution == IF mode = "quality" THEN {"gpu", "cpu"} ELSE {"cpu"}

Select(r) ==
    /\ job[r].pc = "select"
    /\ \/ \E execution \in Execution :
             Thread(r, [job[r] EXCEPT !.pc = "selected", !.execution = execution])
       \/ Answer(r, "error")
    /\ UNCHANGED <<bot, button, active, leases, mode, passes, published, faults>>

\* chat_pass: the last look before the runtime is asked
StartPass(r) ==
    /\ job[r].pc = "selected"
    /\ IF job[r].cancelled THEN Answer(r, "error") /\ UNCHANGED passes
       ELSE Thread(r, [job[r] EXCEPT !.pc = "run"]) /\ Started(r)
    /\ UNCHANGED <<bot, button, active, leases, mode, published, faults>>

\* The monitor of a pass cancels it when the GPU or the memory is needed, or the
\* time is up.
Guard(r) ==
    /\ job[r].pc = "run" /\ ~job[r].cancelled
    /\ Thread(r, [job[r] EXCEPT !.cancelled = TRUE])
    /\ UNCHANGED <<bot, button, active, leases, mode, passes, published, faults>>

\* The stream ends: cancelled, an answer or an error.  The model is unloaded
\* before the thread goes on.
EndPass(r) ==
    /\ job[r].pc = "run"
    /\ \E reply \in (IF job[r].cancelled THEN {"error"} ELSE {"ok", "error"}) :
          Answer(r, reply)
    /\ UNCHANGED <<bot, button, active, leases, mode, passes, published, faults>>

Free(r) ==
    /\ job[r].pc = "replied"
    /\ Thread(r, [NoJob EXCEPT !.reply = job[r].reply])
    /\ active' = Nobody
    /\ UNCHANGED <<bot, button, leases, mode, passes, published, faults>>

-----------------------------------------------------------------------------
\* mutant: only a pass that runs is cancelled
InterruptedRunning == IF active # Nobody /\ job[active].pc = "run" THEN {active} ELSE {}

\* the job that a switch to playback mode cancels
Interrupted ==
    IF active # Nobody /\ job[active].backend = "server" /\ job[active].execution = "gpu"
    THEN {active} ELSE {}

\* POST /v1/server-mode, under the lock.  The directory may fail to sync after
\* the file is in place: then the call fails and no job is cancelled.
SetQuality(enabled) ==
    /\ Fault
    /\ \/ /\ mode' = IF enabled THEN "quality" ELSE "playback"
          /\ job' = [r \in Requests |-> IF ~enabled /\ r \in Interrupted
                                        THEN [job[r] EXCEPT !.cancelled = TRUE]
                                        ELSE job[r]]
       \/ /\ mode' = IF enabled THEN "quality" ELSE "saved"
          /\ UNCHANGED job
    /\ UNCHANGED <<bot, button, active, leases, passes, published>>

Coroutine(r) == \/ Enter(r) \/ Noticed(r) \/ Wake(r) \/ Authorize(r) \/ Dispatch(r)
                \/ Receive(r) \/ Busied(r) \/ Retry(r) \/ Publish(r)
Controls(r) == CancelAcked(r) \/ GatewayCancel(r)
GatewayThread(r) == \/ Admit(r) \/ Route(r) \/ Forward(r) \/ EndForward(r)
                    \/ Select(r) \/ StartPass(r) \/ Guard(r) \/ EndPass(r)
                    \/ Free(r)
User(r) == r \in Impatient /\ PressCancel(r)

Next ==
    \/ \E r \in Requests : \/ User(r) \/ Coroutine(r) \/ Controls(r) \/ GatewayThread(r)
                          \/ Expire(r) \/ Lose(r)
    \/ \E enabled \in BOOLEAN : SetQuality(enabled)

Spec == Init /\ [][Next]_vars

\* The event loop runs every coroutine that is ready; a thread of the gateway
\* ends, since every call it makes has a timeout.
FairSpec == Spec /\ \A r \in Requests : WF_vars(Coroutine(r)) /\ WF_vars(GatewayThread(r))

-----------------------------------------------------------------------------
(***************************************************************************)
(* Properties.                                                             *)
(***************************************************************************)
TypeOK ==
    /\ tickets \in Seq(Requests)
    /\ turn \in [Requests -> Turn]
    /\ button \in [Requests -> Button]
    /\ job \in [Requests -> Job]
    /\ active \in Requests \union {Nobody}
    /\ leases \in SUBSET Requests
    /\ mode \in Modes
    /\ passes \in [Requests -> Nat]
    /\ published \in SUBSET Requests
    /\ faults \in Nat

\* The queue keeps its limits, and no place in it is leaked: a ticket is there
\* exactly as long as its coroutine is at an await of the queue or of the model,
\* unless Cancel took it out.
NoPlaceLeaked ==
    /\ Len(tickets) <= Capacity
    /\ \A r \in Requests : Cardinality(OfUser(Owner[r])) <= PerUser
    /\ \A r \in Requests :
          InQueue(r) <=> turn[r].pc \in Holding /\ (turn[r].cancelled => Dispatched(r))

\* The shared model is asked for one question at a time, in the order of the
\* queue, whoever cancels while a permission is read or a card is edited.
OneAtATime ==
    /\ \A r \in Requests : Dispatched(r) => tickets # <<>> /\ tickets[1] = r
    /\ \A r \in Requests : job[r].pc \notin {"none", "out"} <=> active = r

\* A cancellation that was accepted is final: what it caught before the gateway
\* admitted it is never admitted, and no answer of it is shown.
CancelWins ==
    [][\A r \in Requests : button[r].cancel = "done" =>
          /\ active' = r => active = r
          /\ r \in published' => r \in published]_vars

\* A question is given to one runtime once: only a busy answer is retried, a
\* desktop that fails is not replaced by the server.
NeverReplayed ==
    \A r \in Requests : passes[r] <= 1

\* Once a switch to playback mode has its receipt, no pass on the GPU goes on, nor
\* does one start whose thread had chosen the GPU before: it is cancelled.
PlaybackKeepsGpu ==
    mode = "playback" => \A r \in Requests : job[r].pc = "run" /\ job[r].execution = "gpu" =>
                                        job[r].cancelled

\* Every question ends, also the last in the queue, whichever of those before it
\* leave, are cancelled, or are abandoned to the gateway.
Drains == \A r \in Requests : turn[r].pc = "asked" ~> turn[r].pc = "over"

\* The invariant of the queue and of the gateway, from its parts.
InferenceInv ==
    TypeOK /\ NoPlaceLeaked /\ OneAtATime /\ NeverReplayed /\ PlaybackKeepsGpu

=============================================================================
