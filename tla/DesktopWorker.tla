--------------------------- MODULE DesktopWorker ---------------------------
(***************************************************************************)
(* The optional worker on the Windows desktop: a thread per request, one   *)
(* monitor thread, one timer thread per admitted request, and the runtime  *)
(* process they share.                                                     *)
(*                                                                         *)
(* `asked[r].pc` names the place of the thread that answers request r.  An *)
(* action is what a thread does under Worker.lock, under runtime_lock, or  *)
(* between two looks at an event another thread may set.  runtime_lock is  *)
(* held only within one action, so it needs no variable; Worker.lock is    *)
(* held by Cancel and by the timer until stop_runtime has returned, which  *)
(* makes each of them one action.                                          *)
(*                                                                         *)
(* A lease is kept for 600 seconds and a request ends within 120, so the   *)
(* leases of a run of this model do not expire.                            *)
(***************************************************************************)
EXTENDS Naturals, FiniteSets

CONSTANTS
    Asks,              \* the request ids the clients use
    NoAsk,             \* active is None
    MaxLevels,         \* bound: how often GPU or RAM change their level
    MaxRuntimeFaults   \* bound: launches and runtimes that fail, cancels

ASSUME WorkerAssumption ==
    /\ IsFiniteSet(Asks) /\ NoAsk \notin Asks
    /\ MaxLevels \in Nat /\ MaxRuntimeFaults \in Nat

VARIABLES
    asked,      \* the thread of a request
    owner,      \* Worker.active
    tombs,      \* Worker.leases: ids admitted or cancelled
    timer,      \* the timer thread of a request
    signals,    \* the events stop and cancel
    process,    \* Worker.runtime, its residency, and whether it lives
    monitor,    \* the monitor thread and its last sample
    level,      \* what the sensors would say now
    server,     \* main()
    luck        \* the bounds spent

workerVars == <<asked, owner, tombs, timer, signals, process, monitor, level,
                server, luck>>

-----------------------------------------------------------------------------
\* idle: cold start fits; tight: a loaded model may go on; bad: nothing may run
Levels == {"idle", "tight", "bad"}
Running == {"ensure", "starting", "open", "posting", "reading", "failed",
            "ending", "release"}
AskThread == [pc : Running \union {"none", "over"},
           answer : {"none", "ok", "refused"},
           cut : BOOLEAN,                       \* cancelled before it had its answer
           passes : Nat]                        \* times the model was given it
NoThread == [pc |-> "none", answer |-> "none", cut |-> FALSE, passes |-> 0]

Worker == <<asked, owner, tombs, timer>>

WorkerInit ==
    /\ asked = [r \in Asks |-> NoThread]
    /\ owner = NoAsk
    /\ tombs = {}
    /\ timer = [r \in Asks |-> "off"]
    /\ signals = [stop |-> FALSE, cancel |-> FALSE]
    /\ process = [on |-> FALSE, alive |-> FALSE, loaded |-> FALSE]
    /\ monitor = [pc |-> "sample", sample |-> "none", same |-> FALSE, claim |-> FALSE]
    /\ level \in Levels
    /\ server = "serving"
    /\ luck = [levels |-> 0, faults |-> 0]

\* stop_runtime, under runtime_lock
Stopped == [on |-> FALSE, alive |-> FALSE, loaded |-> FALSE]

\* A status result of a runtime that is gone is not believed.
StopRuntime ==
    /\ process' = Stopped
    /\ monitor' = [monitor EXCEPT !.same = FALSE]

AskInterrupted == signals.stop \/ signals.cancel

\* resource_error with admission=True
Admissible == monitor.sample = "idle" \/ (monitor.sample = "tight" /\ process.loaded)

Goto(r, pc) == asked' = [asked EXCEPT ![r].pc = pc]

Misfortune == luck.faults < MaxRuntimeFaults /\ luck' = [luck EXCEPT !.faults = @ + 1]

-----------------------------------------------------------------------------
\* mutant: only the request at work is refused
NotActive(r) == owner # r

Unseen(r) == r \notin tombs

\* mutant: no id is remembered
NeverLeased(r) == tombs

Leased(r) == tombs \union {r}

\* Worker.chat: admission, under Worker.lock.  A refusal changes nothing.
AdmitAsk(r) ==
    /\ asked[r].pc \in {"none", "over"} /\ Unseen(r)
    /\ owner = NoAsk /\ ~signals.stop /\ Admissible
    /\ owner' = r
    /\ tombs' = Leased(r)
    /\ signals' = [signals EXCEPT !.cancel = FALSE]
    /\ timer' = [timer EXCEPT ![r] = "armed"]
    /\ Goto(r, "ensure")
    /\ UNCHANGED <<process, monitor, level, server, luck>>

\* ensure_runtime, under runtime_lock: a living runtime is used, else one is
\* launched unless the port is taken or the launch fails.
EnsureRuntime(r) ==
    /\ asked[r].pc = "ensure"
    /\ \/ process.alive /\ Goto(r, "open") /\ UNCHANGED <<process, monitor, luck>>
       \/ /\ ~process.alive /\ Goto(r, "starting")
          /\ process' = [process EXCEPT !.on = TRUE, !.alive = TRUE]
          /\ monitor' = [monitor EXCEPT !.same = FALSE]
          /\ UNCHANGED luck
       \/ ~process.alive /\ Misfortune /\ Goto(r, "failed") /\ UNCHANGED <<process, monitor>>
    /\ UNCHANGED <<owner, tombs, timer, signals, level, server>>

\* The fifty looks of ensure_runtime at a runtime that starts.
AwaitRuntime(r) ==
    /\ asked[r].pc = "starting"
    /\ \/ AskInterrupted /\ Goto(r, "failed") /\ UNCHANGED luck
       \/ ~AskInterrupted /\ process.alive /\ Goto(r, "open") /\ UNCHANGED luck
       \/ ~AskInterrupted /\ ~process.alive /\ Goto(r, "failed") /\ UNCHANGED luck
       \/ ~AskInterrupted /\ Misfortune /\ Goto(r, "failed")
    /\ UNCHANGED <<owner, tombs, timer, signals, process, monitor, level, server>>

\* The last look at the events before the model is asked.
LastLook(r) ==
    /\ asked[r].pc = "open"
    /\ Goto(r, IF AskInterrupted THEN "failed" ELSE "posting")
    /\ UNCHANGED <<owner, tombs, timer, signals, process, monitor, level, server, luck>>

PostToRuntime(r) ==
    /\ asked[r].pc = "posting"
    /\ asked' = IF process.alive
                  THEN [asked EXCEPT ![r].pc = "reading", ![r].passes = @ + 1]
                  ELSE [asked EXCEPT ![r].pc = "failed"]
    /\ UNCHANGED <<owner, tombs, timer, signals, process, monitor, level, server, luck>>

\* Each line of the answer is followed by a look at the cancel event.
ReadAnswer(r) ==
    /\ asked[r].pc = "reading" /\ process.alive /\ ~signals.cancel
    /\ asked' = [asked EXCEPT ![r].pc = "ending", ![r].answer = "ok"]
    /\ UNCHANGED <<owner, tombs, timer, signals, process, monitor, level, server, luck>>

ReadBreaks(r) ==
    /\ asked[r].pc = "reading"
    /\ \/ (signals.cancel \/ ~process.alive) /\ UNCHANGED luck
       \/ Misfortune
    /\ Goto(r, "failed")
    /\ UNCHANGED <<owner, tombs, timer, signals, process, monitor, level, server>>

\* mutant: the place is given up with the runtime
AbandonAskEarly(r) ==
    /\ asked[r].pc = "failed"
    /\ asked' = [asked EXCEPT ![r].pc = "ending", ![r].answer = "refused"]
    /\ owner' = NoAsk
    /\ StopRuntime
    /\ UNCHANGED <<tombs, timer, signals, level, server, luck>>

\* except Refusal, except Exception: the runtime goes before the place is given up.
AbandonAsk(r) ==
    /\ asked[r].pc = "failed"
    /\ asked' = [asked EXCEPT ![r].pc = "ending", ![r].answer = "refused"]
    /\ StopRuntime
    /\ UNCHANGED <<owner, tombs, timer, signals, level, server, luck>>

\* finally: deadline.set(), then active = None under the lock
SetDeadline(r) ==
    /\ asked[r].pc = "ending"
    /\ Goto(r, "release")
    /\ UNCHANGED <<owner, tombs, timer, signals, process, monitor, level, server, luck>>

ReleaseWorker(r) ==
    /\ asked[r].pc = "release"
    /\ Goto(r, "over")
    /\ owner' = NoAsk
    /\ UNCHANGED <<tombs, timer, signals, process, monitor, level, server, luck>>

-----------------------------------------------------------------------------
\* timeout(): deadline.wait(120) runs out, or sees the deadline set.
TimerWakes(r) ==
    /\ timer[r] = "armed"
    /\ timer' = [timer EXCEPT ![r] = IF asked[r].pc \in {"release", "over"} THEN "off" ELSE "fired"]
    /\ UNCHANGED <<asked, owner, tombs, signals, process, monitor, level, server, luck>>

\* mutants: the timer does not look whose turn it is; it spares a model at work
OwnsAnyway(r) == TRUE
StillStarting(r) == owner = r /\ asked[r].pc \in {"ensure", "starting"}

StillOwns(r) == owner = r /\ asked[r].pc \notin {"release", "over"}

TimeoutKills(r) ==
    /\ timer[r] = "fired"
    /\ timer' = [timer EXCEPT ![r] = "off"]
    /\ \/ ~StillOwns(r) /\ UNCHANGED <<signals, process, monitor>>
       \/ StillOwns(r) /\ signals' = [signals EXCEPT !.cancel = TRUE] /\ StopRuntime
    /\ UNCHANGED <<asked, owner, tombs, level, server, luck>>

\* request_cancel: a tombstone for what has not come yet, an end for what runs.
CancelAsk(r) ==
    /\ Misfortune /\ server = "serving"
    /\ tombs' = Leased(r)
    /\ \/ owner # r /\ UNCHANGED <<asked, signals, process, monitor>>
       \/ /\ owner = r
          /\ asked' = [asked EXCEPT ![r].cut = asked[r].pc \notin {"ending", "release"}]
          /\ signals' = [signals EXCEPT !.cancel = TRUE]
          /\ StopRuntime
    /\ UNCHANGED <<owner, timer, level, server>>

-----------------------------------------------------------------------------
\* monitor(): once a second.  resources() may fail: the sample is bad then.
Sample ==
    /\ monitor.pc = "sample" /\ ~signals.stop
    /\ monitor' = [monitor EXCEPT !.sample = level, !.pc = "check"]
    /\ UNCHANGED <<Worker, signals, process, level, server, luck>>

\* stop.request has been written: it is looked for after every sample.
SeeStopRequest ==
    /\ monitor.pc = "check"
    /\ signals' = [stop |-> TRUE, cancel |-> TRUE]
    /\ monitor' = [monitor EXCEPT !.pc = "stopping"]
    /\ UNCHANGED <<Worker, process, level, server, luck>>

\* mutant: an idle runtime is left alone
BusyAndBad == monitor.sample = "bad" /\ process.on /\ owner # NoAsk

MustKill == monitor.sample = "bad" /\ process.on

CheckResources ==
    /\ monitor.pc = "check"
    /\ \/ /\ MustKill
          /\ signals' = [signals EXCEPT !.cancel = TRUE]
          /\ monitor' = [monitor EXCEPT !.pc = "killing"] /\ UNCHANGED process
       \/ /\ monitor.sample = "bad" /\ ~MustKill
          /\ monitor' = [monitor EXCEPT !.pc = "sample"] /\ UNCHANGED <<signals, process>>
       \/ /\ monitor.sample # "bad" /\ process.alive
          /\ monitor' = [monitor EXCEPT !.pc = "status", !.same = TRUE]
          /\ UNCHANGED <<signals, process>>
       \/ /\ monitor.sample # "bad" /\ ~process.alive
          /\ process' = [process EXCEPT !.loaded = FALSE]
          /\ monitor' = [monitor EXCEPT !.pc = "sample"] /\ UNCHANGED signals
    /\ UNCHANGED <<Worker, level, server, luck>>

MonitorKills ==
    /\ monitor.pc \in {"killing", "stopping"}
    /\ process' = Stopped
    /\ monitor' = [monitor EXCEPT !.same = FALSE,
                                  !.pc = IF @ = "killing" THEN "sample" ELSE "gone"]
    /\ UNCHANGED <<Worker, signals, level, server, luck>>

\* /api/ps answered or failed.  The answer counts if the runtime it came from is
\* still the current one; the flag is written without a lock.
Believed == monitor.same /\ process.alive

AskResidency ==
    /\ monitor.pc = "status"
    /\ \E resident \in BOOLEAN :
         monitor' = [monitor EXCEPT !.pc = "store", !.claim = resident /\ Believed]
    /\ UNCHANGED <<Worker, signals, process, level, server, luck>>

StoreResidency ==
    /\ monitor.pc = "store"
    /\ process' = [process EXCEPT !.loaded = monitor.claim]
    /\ monitor' = [monitor EXCEPT !.pc = "sample", !.same = FALSE, !.claim = FALSE]
    /\ UNCHANGED <<Worker, signals, level, server, luck>>

-----------------------------------------------------------------------------
\* main(): leaves its loop, stops the runtime, and server_close() joins the threads
\* of the requests.
ServerStops ==
    /\ server = "serving" /\ signals.stop
    /\ server' = "joining"
    /\ StopRuntime
    /\ UNCHANGED <<Worker, signals, level, luck>>

\* mutant: the process does not wait for the threads of its requests
Unjoined == TRUE

Joined == \A r \in Asks : asked[r].pc \notin Running

ServerExits ==
    /\ server = "joining" /\ Joined
    /\ server' = "gone"
    /\ UNCHANGED <<Worker, signals, process, monitor, level, luck>>

\* The world: other programs use the desktop, the runtime's process ends.
LevelChanges ==
    /\ luck.levels < MaxLevels /\ luck' = [luck EXCEPT !.levels = @ + 1]
    /\ level' \in Levels \ {level}
    /\ UNCHANGED <<Worker, signals, process, monitor, server>>

RuntimeDies ==
    /\ process.alive /\ Misfortune
    /\ process' = [process EXCEPT !.alive = FALSE]
    /\ UNCHANGED <<Worker, signals, monitor, level, server>>

-----------------------------------------------------------------------------
Answering(r) ==
    \/ EnsureRuntime(r) \/ AwaitRuntime(r) \/ LastLook(r) \/ PostToRuntime(r)
    \/ ReadBreaks(r) \/ AbandonAsk(r) \/ SetDeadline(r) \/ ReleaseWorker(r)

Monitoring ==
    Sample \/ CheckResources \/ MonitorKills \/ AskResidency \/ StoreResidency

WorkerNext ==
    \/ \E r \in Asks :
         \/ AdmitAsk(r) \/ EnsureRuntime(r) \/ AwaitRuntime(r) \/ LastLook(r)
         \/ PostToRuntime(r) \/ ReadAnswer(r) \/ ReadBreaks(r) \/ AbandonAsk(r)
         \/ SetDeadline(r) \/ ReleaseWorker(r)
         \/ TimerWakes(r) \/ TimeoutKills(r) \/ CancelAsk(r)
    \/ Sample \/ SeeStopRequest \/ CheckResources \/ MonitorKills
    \/ AskResidency \/ StoreResidency
    \/ ServerStops \/ ServerExits \/ LevelChanges \/ RuntimeDies

\* A thread that can go on does: the timer runs out, the monitor comes round each
\* second.  The model need not answer, nobody need ask or cancel.
WorkerFairness ==
    /\ \A r \in Asks :
         WF_workerVars(Answering(r)) /\ WF_workerVars(TimerWakes(r)) /\ WF_workerVars(TimeoutKills(r))
    /\ WF_workerVars(Monitoring)
    /\ WF_workerVars(ServerStops) /\ WF_workerVars(ServerExits)

WorkerSpec == WorkerInit /\ [][WorkerNext]_workerVars /\ WorkerFairness

-----------------------------------------------------------------------------
\* The worker's fields have their types, and only the owner's thread is at work.
WorkerTypeOK ==
    /\ asked \in [Asks -> AskThread]
    /\ owner \in Asks \union {NoAsk}
    /\ tombs \subseteq Asks
    /\ \A r \in Asks : timer[r] \in {"off", "armed", "fired"}
    /\ signals \in [stop : BOOLEAN, cancel : BOOLEAN]
    /\ process \in [on : BOOLEAN, alive : BOOLEAN, loaded : BOOLEAN]
    /\ \A r \in Asks : asked[r].pc \in Running => owner = r

\* A runtime that is taken from a request at work is taken for a reason of that
\* request's own or of the machine's: it failed, was cancelled or ran out of time,
\* the last sample is bad, or the worker is being stopped.  A cancel or a timer of
\* an earlier request never ends its successor.
NoSuccessorKilled ==
    [][process.on /\ ~process'.on /\ owner # NoAsk
         => \/ monitor.sample = "bad" \/ signals.stop
            \/ asked[owner].pc = "failed" \/ asked'[owner].cut \/ timer[owner] = "fired"
            \/ asked[owner].pc \in {"ending", "release"}]_workerVars

\* A request cancelled before its answer was read is not answered, and one that was
\* cancelled before it came is never admitted; no request is given to the model twice.
CancelStands ==
    \A r \in Asks :
      /\ asked[r].cut => asked[r].answer # "ok"
      /\ asked[r].passes <= 1

\* A request that comes after its cancellation, or a second time, is refused.
TombsStand ==
    [][\A r \in tombs : asked[r].pc \notin Running => asked'[r].pc \notin Running]_workerVars

\* main() ends with no runtime left behind.
NothingLeftBehind == server = "gone" => ~process.on /\ owner = NoAsk

\* Every admitted request ends, whatever the model does.
EveryAskEnds == \A r \in Asks : asked[r].pc \in Running ~> asked[r].pc = "over"

\* When GPU or RAM stay exhausted the desktop gets its memory back.
MemoryGivenBack == <>[](level = "bad") => <>[](~process.alive)

\* The desktop lets go in the end: of every request, and of memory that runs short.
DesktopLetsGo == EveryAskEnds /\ MemoryGivenBack

\* The invariant of the worker, from its parts.
WorkerInv == WorkerTypeOK /\ CancelStands /\ NothingLeftBehind

\* No step ends the wrong request, and none admits one that was cancelled or came twice.
RightRequestEnds == NoSuccessorKilled /\ TombsStand

=============================================================================
