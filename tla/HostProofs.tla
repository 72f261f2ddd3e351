----------------------------- MODULE HostProofs -----------------------------
(***************************************************************************)
(* Proofs about the two processes that hand a GPU to the model and take it *)
(* back: the worker of the desktop (DesktopWorker) and the watcher of the  *)
(* server (GpuWatch), for every value of their constants.                  *)
(***************************************************************************)
EXTENDS DesktopWorker, GpuWatch, TLAPS

-----------------------------------------------------------------------------
(***************************************************************************)
(* The worker of the desktop.                                              *)
(***************************************************************************)
MonitorPlaces == {"sample", "check", "killing", "stopping", "status", "store", "gone"}

\* The fields WorkerTypeOK leaves open, and what the monitor knows at its place.
MonitorShape ==
    /\ timer \in [Asks -> {"off", "armed", "fired"}]
    /\ monitor \in [pc : MonitorPlaces, sample : Levels \union {"none"},
                    same : BOOLEAN, claim : BOOLEAN]
    /\ level \in Levels
    /\ server \in {"serving", "joining", "gone"}
    /\ monitor.pc = "killing" => monitor.sample = "bad"
    /\ monitor.pc = "stopping" => signals.stop

\* The owner is at work; an id that came is leased; the model is given a request at
\* "posting" only; a request cut off before its answer is told by the cancel event.
AskShape ==
    /\ owner # NoAsk => asked[owner].pc \in Running
    /\ \A r \in Asks :
          /\ asked[r].pc # "none" => r \in tombs
          /\ asked[r].pc \in {"none", "ensure", "starting", "open", "posting"}
                => asked[r].passes = 0
          /\ asked[r].pc \in Running \ {"ending", "release"}
                => asked[r].answer = "none" /\ (asked[r].cut => signals.cancel)
          /\ asked[r].pc = "none" => asked[r].answer = "none" /\ ~asked[r].cut

\* Once the server has stopped, a runtime is up only for a thread that will stop it.
StopShape ==
    /\ process.alive => process.on
    /\ signals.stop => signals.cancel
    /\ server # "serving" => signals.stop
    /\ server = "joining" /\ process.on =>
          /\ owner # NoAsk
          /\ asked[owner].pc \in {"starting", "open", "posting", "reading", "failed"}

\* The inductive invariant of the worker.
WorkerIInv == WorkerInv /\ MonitorShape /\ AskShape /\ StopShape

StopSignals == [stop |-> TRUE, cancel |-> TRUE]

\* The events a stop sets, and a runtime that is gone, as records.
LEMMA RecordForms ==
    /\ Stopped \in [on : BOOLEAN, alive : BOOLEAN, loaded : BOOLEAN]
    /\ ~Stopped.on /\ ~Stopped.alive
    /\ StopSignals \in [stop : BOOLEAN, cancel : BOOLEAN]
    /\ StopSignals.stop /\ StopSignals.cancel
BY Zenon DEF Stopped, StopSignals

\* The worker starts well.
LEMMA WorkerStart == WorkerInit => WorkerIInv
BY WorkerAssumption
   DEF WorkerInit, WorkerIInv, WorkerInv, WorkerTypeOK, CancelStands, NothingLeftBehind,
       MonitorShape, AskShape, StopShape, AskThread, NoThread, Running, MonitorPlaces

\* What is said of the requests holds as long as they, the owner, the leases and the
\* events are left alone.
LEMMA AskShapeKept == AskShape /\ UNCHANGED <<Worker, signals>> => AskShape'
BY DEF AskShape, Worker

\* A monitor that sees the stop request sets both events.
LEMMA StopSeen == SeeStopRequest => signals' = StopSignals
BY DEF SeeStopRequest, StopSignals

\* Every step of the worker preserves its inductive invariant.
LEMMA WorkerStep == WorkerIInv /\ WorkerNext => WorkerIInv'
<1> SUFFICES ASSUME WorkerIInv, WorkerNext PROVE WorkerIInv'
  OBVIOUS
<1> USE WorkerAssumption
    DEF WorkerIInv, WorkerInv, WorkerTypeOK, CancelStands, NothingLeftBehind,
        MonitorShape, StopShape, AskThread, Running, Worker, Goto
<1>1. ASSUME NEW r \in Asks, AdmitAsk(r) PROVE WorkerIInv'
  <2> USE <1>1 DEF AdmitAsk, Unseen, Leased, AskShape
  <2>1. WorkerTypeOK'
    <3>1. asked' \in [Asks -> AskThread] /\ owner' \in Asks \union {NoAsk} /\ tombs' \subseteq Asks
      OBVIOUS
    <3>2. \A q \in Asks : timer'[q] \in {"off", "armed", "fired"}
      OBVIOUS
    <3>3. /\ signals' \in [stop : BOOLEAN, cancel : BOOLEAN]
          /\ process' \in [on : BOOLEAN, alive : BOOLEAN, loaded : BOOLEAN]
      OBVIOUS
    <3>4. \A q \in Asks : asked'[q].pc \in Running => owner' = q
      OBVIOUS
    <3>5. QED BY <3>1, <3>2, <3>3, <3>4
  <2>2. (CancelStands /\ NothingLeftBehind)'
    OBVIOUS
  <2>3. (MonitorShape /\ StopShape)'
    OBVIOUS
  <2>4. owner' # NoAsk => asked'[owner'].pc \in Running
    OBVIOUS
  <2>5. ASSUME NEW q \in Asks
        PROVE  /\ asked'[q].pc # "none" => q \in tombs'
               /\ asked'[q].pc \in {"none", "ensure", "starting", "open", "posting"}
                     => asked'[q].passes = 0
    BY <2>5
  <2>6. ASSUME NEW q \in Asks
        PROVE  /\ asked'[q].pc \in Running \ {"ending", "release"}
                     => asked'[q].answer = "none" /\ (asked'[q].cut => signals'.cancel)
               /\ asked'[q].pc = "none" => asked'[q].answer = "none" /\ ~asked'[q].cut
    BY <2>6
  <2>7. AskShape'
    BY <2>4, <2>5, <2>6
  <2>8. QED BY <2>1, <2>2, <2>3, <2>7
<1>2. ASSUME NEW r \in Asks, EnsureRuntime(r) PROVE WorkerIInv'
  <2> USE <1>2 DEF EnsureRuntime, Misfortune
  <2>1. asked' \in [Asks -> AskThread]
    OBVIOUS
  <2>2. process' \in [on : BOOLEAN, alive : BOOLEAN, loaded : BOOLEAN]
    OBVIOUS
  <2>3. \A q \in Asks : asked'[q].pc \in Running => owner' = q
    OBVIOUS
  <2>4. (CancelStands /\ NothingLeftBehind)'
    OBVIOUS
  <2>5. MonitorShape'
    OBVIOUS
  <2>6. AskShape'
    BY DEF AskShape
  <2>7. process'.alive => process'.on
    OBVIOUS
  <2>8. owner = r /\ asked'[r].pc \in {"open", "starting", "failed"}
    OBVIOUS
  <2>9. StopShape'
    BY <2>7, <2>8
  <2>10. QED BY <2>1, <2>2, <2>3, <2>4, <2>5, <2>6, <2>9
<1>3. ASSUME NEW r \in Asks, AwaitRuntime(r) \/ LastLook(r) PROVE WorkerIInv'
  BY <1>3 DEF AwaitRuntime, LastLook, AskInterrupted, AskShape
<1>4. ASSUME NEW r \in Asks, PostToRuntime(r) PROVE WorkerIInv'
  BY <1>4 DEF PostToRuntime, AskShape
<1>5. ASSUME NEW r \in Asks, ReadAnswer(r) \/ ReadBreaks(r) PROVE WorkerIInv'
  <2> USE <1>5 DEF ReadAnswer, ReadBreaks
  <2>1. (WorkerTypeOK /\ CancelStands /\ NothingLeftBehind)'
    BY DEF AskShape
  <2>2. (MonitorShape /\ StopShape)'
    OBVIOUS
  <2>3. AskShape'
    BY DEF AskShape
  <2>4. QED BY <2>1, <2>2, <2>3
<1>6. ASSUME NEW r \in Asks, AbandonAsk(r) PROVE WorkerIInv'
  BY <1>6, RecordForms DEF AbandonAsk, StopRuntime, AskShape
<1>7. ASSUME NEW r \in Asks, SetDeadline(r) \/ ReleaseWorker(r) PROVE WorkerIInv'
  BY <1>7 DEF SetDeadline, ReleaseWorker, AskShape
<1>8. ASSUME NEW r \in Asks, TimerWakes(r) PROVE WorkerIInv'
  BY <1>8 DEF TimerWakes, AskShape
<1>9. ASSUME NEW r \in Asks, TimeoutKills(r) PROVE WorkerIInv'
  <2> USE <1>9, RecordForms DEF TimeoutKills, StillOwns, StopRuntime
  <2>1. (WorkerTypeOK /\ CancelStands /\ NothingLeftBehind)'
    OBVIOUS
  <2>2. (MonitorShape /\ StopShape)'
    OBVIOUS
  <2>3. AskShape'
    BY DEF AskShape
  <2>4. QED BY <2>1, <2>2, <2>3
<1>10. ASSUME NEW r \in Asks, CancelAsk(r) PROVE WorkerIInv'
  <2> USE <1>10, RecordForms DEF CancelAsk, Leased, StopRuntime
  <2>1. (WorkerTypeOK /\ CancelStands /\ NothingLeftBehind)'
    <3> DEFINE cut == asked[r].pc \notin {"ending", "release"}
    <3>1. cut \in BOOLEAN
      OBVIOUS
    <3>2. asked' \in {asked, [asked EXCEPT ![r].cut = cut]}
      OBVIOUS
    <3>3. CASE asked' = asked
      BY <3>3
    <3>4. CASE asked' = [asked EXCEPT ![r].cut = cut] /\ owner = r
      <4>1. asked' \in [Asks -> AskThread]
        <5> HIDE DEF cut
        <5>1. QED BY <3>1, <3>4
      <4>2. CancelStands'
        BY <3>4, <4>1 DEF AskShape
      <4>3. /\ signals' \in [stop : BOOLEAN, cancel : BOOLEAN]
            /\ process' \in [on : BOOLEAN, alive : BOOLEAN, loaded : BOOLEAN]
        BY <3>4
      <4>4. \A q \in Asks : asked'[q].pc = asked[q].pc
        BY <3>4
      <4>5. WorkerTypeOK'
        <5> HIDE DEF cut
        <5>1. QED BY <4>1, <4>3, <4>4
      <4>6. QED BY <4>2, <4>5
    <3>5. QED BY <3>3, <3>4
  <2>2. (MonitorShape /\ StopShape)'
    OBVIOUS
  <2>3. AskShape'
    BY DEF AskShape
  <2>4. QED BY <2>1, <2>2, <2>3
<1>11. ASSUME Sample PROVE WorkerIInv'
  <2>1. AskShape'
    BY <1>11, AskShapeKept DEF Sample
  <2>2. QED BY <1>11, <2>1 DEF Sample, MonitorPlaces, Levels
<1>12. ASSUME SeeStopRequest PROVE WorkerIInv'
  <2> USE <1>12, StopSeen, RecordForms DEF SeeStopRequest, MonitorPlaces
  <2>1. (WorkerTypeOK /\ CancelStands /\ NothingLeftBehind)'
    OBVIOUS
  <2>2. (MonitorShape /\ StopShape)'
    OBVIOUS
  <2>3. AskShape'
    BY DEF AskShape
  <2>4. QED BY <2>1, <2>2, <2>3
<1>13. ASSUME CheckResources PROVE WorkerIInv'
  <2> USE <1>13 DEF CheckResources, MustKill, MonitorPlaces
  <2>1. (WorkerTypeOK /\ CancelStands /\ NothingLeftBehind)'
    OBVIOUS
  <2>2. (MonitorShape /\ StopShape)'
    OBVIOUS
  <2>3. AskShape'
    BY DEF AskShape
  <2>4. QED BY <2>1, <2>2, <2>3
<1>14. ASSUME MonitorKills PROVE WorkerIInv'
  <2>1. AskShape'
    BY <1>14, AskShapeKept DEF MonitorKills
  <2>2. QED BY <1>14, <2>1, RecordForms DEF MonitorKills, MonitorPlaces
<1>15. ASSUME AskResidency \/ StoreResidency PROVE WorkerIInv'
  <2> USE <1>15 DEF AskResidency, StoreResidency, Believed, MonitorPlaces
  <2>1. (WorkerTypeOK /\ CancelStands /\ NothingLeftBehind)'
    OBVIOUS
  <2>2. (MonitorShape /\ StopShape)'
    OBVIOUS
  <2>3. AskShape'
    BY AskShapeKept
  <2>4. QED BY <2>1, <2>2, <2>3
<1>16. ASSUME ServerStops \/ ServerExits PROVE WorkerIInv'
  <2> USE <1>16, RecordForms DEF ServerStops, ServerExits, Joined, StopRuntime
  <2>1. (WorkerTypeOK /\ CancelStands)' /\ (MonitorShape /\ StopShape)'
    OBVIOUS
  <2>2. NothingLeftBehind'
    BY DEF AskShape
  <2>3. AskShape'
    BY AskShapeKept
  <2>4. QED BY <2>1, <2>2, <2>3
<1>17. ASSUME LevelChanges \/ RuntimeDies PROVE WorkerIInv'
  <2>1. AskShape'
    BY <1>17, AskShapeKept DEF LevelChanges, RuntimeDies
  <2>2. QED BY <1>17, <2>1 DEF LevelChanges, RuntimeDies, Misfortune
<1>18. QED
  BY <1>1, <1>2, <1>3, <1>4, <1>5, <1>6, <1>7, <1>8, <1>9, <1>10, <1>11, <1>12, <1>13,
     <1>14, <1>15, <1>16, <1>17 DEF WorkerNext

\* Every reachable state of the worker satisfies its inductive invariant.
LEMMA WorkerInvariance == WorkerSpec => []WorkerIInv
<1>1. WorkerIInv /\ UNCHANGED workerVars => WorkerIInv'
  BY DEF WorkerIInv, WorkerInv, WorkerTypeOK, CancelStands, NothingLeftBehind,
         MonitorShape, AskShape, StopShape, workerVars
<1>2. QED BY WorkerStart, WorkerStep, <1>1, PTL DEF WorkerSpec

\* The worker is well typed and only the owner of its slot is at work; what was
\* cancelled is not answered, nothing is given to the model twice, and no runtime is
\* left behind by main().
THEOREM WorkerHolds == WorkerSpec => []WorkerInv
BY WorkerInvariance, PTL DEF WorkerIInv

\* A step that takes the runtime from a request at work has a reason of that
\* request's or of the machine's, and no step sets a leased id to work again.
THEOREM RightRequestIsEnded == WorkerSpec => RightRequestEnds
<1> DEFINE
      Reason == process.on /\ ~process'.on /\ owner # NoAsk
                  => \/ monitor.sample = "bad" \/ signals.stop
                     \/ asked[owner].pc = "failed" \/ asked'[owner].cut \/ timer[owner] = "fired"
                     \/ asked[owner].pc \in {"ending", "release"}
      Stay == \A r \in tombs : asked[r].pc \notin Running => asked'[r].pc \notin Running
<1>1. WorkerIInv /\ WorkerNext => Reason
  <2> SUFFICES ASSUME WorkerIInv, WorkerNext, process.on, ~process'.on, owner # NoAsk
               PROVE  Reason
    OBVIOUS
  <2> USE DEF WorkerIInv, WorkerInv, WorkerTypeOK, MonitorShape
  <2>1. ASSUME NEW r \in Asks,
               \/ AdmitAsk(r) \/ EnsureRuntime(r) \/ AwaitRuntime(r) \/ LastLook(r)
               \/ PostToRuntime(r) \/ ReadAnswer(r) \/ ReadBreaks(r)
               \/ SetDeadline(r) \/ ReleaseWorker(r) \/ TimerWakes(r)
        PROVE  Reason
    BY <2>1 DEF AdmitAsk, EnsureRuntime, AwaitRuntime, LastLook, PostToRuntime, ReadAnswer,
                ReadBreaks, SetDeadline, ReleaseWorker, TimerWakes
  <2>2. ASSUME NEW r \in Asks, AbandonAsk(r) PROVE Reason
    BY <2>2 DEF AbandonAsk, Running
  <2>3. ASSUME NEW r \in Asks, TimeoutKills(r) PROVE Reason
    BY <2>3 DEF TimeoutKills, StillOwns
  <2>4. ASSUME NEW r \in Asks, CancelAsk(r) PROVE Reason
    BY <2>4 DEF CancelAsk, AskThread
  <2>5. ASSUME MonitorKills \/ ServerStops PROVE Reason
    BY <2>5 DEF MonitorKills, ServerStops
  <2>6. ASSUME \/ Sample \/ SeeStopRequest \/ CheckResources \/ AskResidency
               \/ StoreResidency \/ ServerExits \/ LevelChanges \/ RuntimeDies
        PROVE  Reason
    BY <2>6 DEF Sample, SeeStopRequest, CheckResources, AskResidency, StoreResidency,
                ServerExits, LevelChanges, RuntimeDies
  <2>7. QED BY <2>1, <2>2, <2>3, <2>4, <2>5, <2>6 DEF WorkerNext
<1>2. WorkerIInv /\ WorkerNext => Stay
  <2> SUFFICES ASSUME WorkerIInv, WorkerNext, NEW q \in tombs, asked[q].pc \notin Running
               PROVE  asked'[q].pc \notin Running
    OBVIOUS
  <2> USE DEF WorkerIInv, WorkerInv, WorkerTypeOK, AskThread, Running, Goto, Worker
  <2>1. ASSUME NEW r \in Asks,
               \/ AdmitAsk(r) \/ EnsureRuntime(r) \/ AwaitRuntime(r) \/ LastLook(r)
               \/ PostToRuntime(r) \/ ReadAnswer(r) \/ ReadBreaks(r) \/ AbandonAsk(r)
               \/ SetDeadline(r) \/ ReleaseWorker(r)
        PROVE  asked'[q].pc \notin Running
    BY <2>1 DEF AdmitAsk, Unseen, EnsureRuntime, AwaitRuntime, LastLook, PostToRuntime,
                ReadAnswer, ReadBreaks, AbandonAsk, SetDeadline, ReleaseWorker
  <2>2. ASSUME NEW r \in Asks, CancelAsk(r) PROVE asked'[q].pc \notin Running
    BY <2>2 DEF CancelAsk
  <2>3. ASSUME NEW r \in Asks, TimerWakes(r) \/ TimeoutKills(r)
        PROVE  asked'[q].pc \notin Running
    BY <2>3 DEF TimerWakes, TimeoutKills
  <2>4. ASSUME \/ Sample \/ SeeStopRequest \/ CheckResources \/ MonitorKills
               \/ AskResidency \/ StoreResidency
               \/ ServerStops \/ ServerExits \/ LevelChanges \/ RuntimeDies
        PROVE  asked'[q].pc \notin Running
    BY <2>4 DEF Sample, SeeStopRequest, CheckResources, MonitorKills, AskResidency,
                StoreResidency, ServerStops, ServerExits, LevelChanges, RuntimeDies
  <2>5. QED BY <2>1, <2>2, <2>3, <2>4 DEF WorkerNext
<1>3. UNCHANGED workerVars => Reason /\ Stay
  BY DEF workerVars
<1>4. WorkerIInv /\ [WorkerNext]_workerVars => Reason /\ Stay
  BY <1>1, <1>2, <1>3
<1>5. QED
  BY WorkerInvariance, <1>4, PTL DEF WorkerSpec, RightRequestEnds, NoSuccessorKilled, TombsStand

-----------------------------------------------------------------------------
(***************************************************************************)
(* The watcher of the server.                                              *)
(***************************************************************************)
Saw == [running : BOOLEAN, id : Nat, healthy : BOOLEAN, idle : BOOLEAN, admit : BOOLEAN]

\* The fields WatchTypeOK leaves open; an id the watcher saw or wrote down is one the
\* operator has given.
WatchShape ==
    /\ box \in [running : BOOLEAN, id : Nat, by : Hands]
    /\ watch \in [pc : Places, saw : Saw, idleFor : Nat]
    /\ owned \in Nat
    /\ spent \in [faults : Nat, operator : Nat]
    /\ 1 <= box.id /\ box.id <= spent.operator + 1 /\ spent.operator <= MaxOperator
    /\ watch.saw.id <= box.id

\* Before the watcher stops the container it has withdrawn its word; a cycle that will
\* say "admit" has seen the container run since anyone but the operator stopped it.
WordShape ==
    /\ watch.pc \in {"mark", "stop", "inspect2", "mark2", "stop2"} => ~status
    /\ watch.pc \in {"withdraw", "mark", "stop"} => ~watch.saw.healthy
    /\ watch.pc \in {"inspect2", "mark2", "stop2"} => ~watch.saw.admit
    /\ watch.saw.admit /\ watch.pc \in {"decide", "start", "clear", "write"} =>
          box.running \/ box.by \in {"operator", "raced"}

\* A container the operator stopped is not the one the marker names, and no cycle that
\* goes on has seen it run or would start it.
OperatorShape ==
    box.by = "operator" =>
      /\ ~box.running /\ owned # box.id
      /\ watch.pc \notin {"mark", "stop", "start", "clear", "mark2", "stop2"}
      /\ watch.pc \in {"sense", "decide", "withdraw"} =>
            ~watch.saw.running /\ watch.saw.id = box.id

\* The inductive invariant of the watcher.
WatchIInv == WatchInv /\ WatchShape /\ WordShape /\ OperatorShape

\* The record a cycle starts with.
LEMMA BlankForm ==
    Blank \in Saw /\ ~Blank.running /\ Blank.id = 0 /\ ~Blank.healthy /\ ~Blank.idle /\ ~Blank.admit
BY Zenon DEF Blank, Saw

\* The bounds are numbers.
LEMMA WatchBounds ==
    IdleCycles \in Nat /\ IdleCycles > 0 /\ MaxWatchFaults \in Nat /\ MaxOperator \in Nat
BY WatchAssumption

\* What docker stop and docker start leave of the container.
LEMMA BoxForms ==
    ASSUME box \in [running : BOOLEAN, id : Nat, by : Hands]
    PROVE  /\ TakenDown \in [running : BOOLEAN, id : Nat, by : Hands]
           /\ TakenDown.id = box.id /\ ~TakenDown.running
           /\ ~box.running => TakenDown = box
           /\ box.running => TakenDown.by \in {"watcher", "raced"}
           /\ PutUp \in [running : BOOLEAN, id : Nat, by : Hands]
           /\ PutUp.id = box.id /\ PutUp.running
           /\ PutUp.by = IF box.running THEN box.by ELSE "restart"
BY DEF TakenDown, PutUp, Hands

\* The watcher starts well.
LEMMA WatchStart == WatchInit => WatchIInv
<1> SUFFICES ASSUME WatchInit PROVE WatchIInv
  OBVIOUS
<1>1. box \in [running : BOOLEAN, id : Nat, by : Hands] /\ box.running /\ box.id = 1
  BY DEF WatchInit, Hands
<1>2. /\ watch \in [pc : Places, saw : Saw, idleFor : Nat]
      /\ watch.pc = "inspect" /\ watch.saw = Blank /\ watch.idleFor = 0
  BY BlankForm DEF WatchInit, Places
<1>3. spent \in [faults : Nat, operator : Nat] /\ spent.operator = 0
  BY DEF WatchInit
<1>4. WatchTypeOK
  <2>1. box.running \in BOOLEAN /\ box.id \in 1..(MaxOperator + 1) /\ box.by \in Hands
    BY <1>1, WatchBounds
  <2>2. owned \in 0..box.id
    BY <1>1 DEF WatchInit
  <2>3. status \in BOOLEAN
    BY DEF WatchInit
  <2>4. watch.pc \in Places /\ watch.idleFor \in 0..IdleCycles
    BY <1>2, WatchBounds
  <2>5. watch.saw.admit \/ watch.saw.idle => watch.saw.healthy
    BY <1>2, BlankForm
  <2>6. QED BY <2>1, <2>2, <2>3, <2>4, <2>5 DEF WatchTypeOK
<1>5. WatchShape
  BY <1>1, <1>2, <1>3, BlankForm, WatchBounds DEF WatchInit, WatchShape
<1>6. AdmitMeansRunning /\ WordShape /\ OperatorShape
  BY <1>1, <1>2, BlankForm DEF WatchInit, AdmitMeansRunning, WordShape, OperatorShape, Hands
<1>7. QED BY <1>4, <1>5, <1>6 DEF WatchIInv, WatchInv

\* Every step of the watcher, of its process and of the operator preserves the
\* inductive invariant.
LEMMA WatchStep == WatchIInv /\ WatchNext => WatchIInv'
<1> SUFFICES ASSUME WatchIInv, WatchNext PROVE WatchIInv'
  OBVIOUS
<1> USE WatchBounds
    DEF WatchIInv, WatchInv, WatchTypeOK, AdmitMeansRunning, WatchShape, WordShape,
        OperatorShape, Fails, WatchFault, Place
<1> DEFINE
      Typed == watch' \in [pc : Places, saw : Saw, idleFor : Nat]
      Goes(pc, saw, n) == watch'.pc = pc /\ watch'.saw = saw /\ watch'.idleFor = n
      Failed(pc) == Goes(pc, watch.saw, watch.idleFor)
      Counts == spent' \in [faults : Nat, operator : Nat] /\ spent'.operator = spent.operator
<1>1. ASSUME Inspect PROVE WatchIInv'
  <2> DEFINE seen == [Blank EXCEPT !.running = box.running, !.id = box.id]
  <2>1. /\ seen \in Saw /\ seen.running = box.running /\ seen.id = box.id
        /\ ~seen.healthy /\ ~seen.admit /\ ~seen.idle
    BY BlankForm DEF Saw
  <2>2. \/ watch' = [watch EXCEPT !.pc = "sense", !.saw = seen] /\ UNCHANGED spent
        \/ watch' = [watch EXCEPT !.pc = "failed"] /\ spent' = [spent EXCEPT !.faults = @ + 1]
    BY <1>1 DEF Inspect
  <2> HIDE DEF seen
  <2>3. Typed /\ (Goes("sense", seen, watch.idleFor) \/ Failed("failed")) /\ Counts
    <3>1. Typed
      BY <2>1, <2>2 DEF Places
    <3>2. (Goes("sense", seen, watch.idleFor) \/ Failed("failed"))
      BY <2>2
    <3>3. Counts
      BY <2>2
    <3>4. QED BY <3>1, <3>2, <3>3
  <2>4. (WatchTypeOK /\ WatchShape)'
    BY <1>1, <2>1, <2>3 DEF Inspect
  <2>5. (AdmitMeansRunning /\ WordShape /\ OperatorShape)'
    BY <1>1, <2>1, <2>3 DEF Inspect
  <2>6. QED BY <2>4, <2>5
<1>2. ASSUME Sense PROVE WatchIInv'
  <2>1. CASE Fails("failed")
    <3>1. Typed /\ Failed("failed") /\ Counts
      BY <2>1 DEF Places
    <3>2. (WatchTypeOK /\ WatchShape)'
      BY <1>2, <3>1 DEF Sense
    <3>3. QED BY <1>2, <3>1, <3>2 DEF Sense
  <2>2. CASE ~Fails("failed")
    <3> DEFINE accessible == watch.saw.running /\ box.running
               healthy == pressure # "foul" /\ (watch.saw.running => accessible)
               seen(ready) == [watch.saw EXCEPT !.healthy = healthy, !.idle = Idle(healthy),
                                   !.admit = Idle(healthy) /\ ready /\ accessible]
    <3>1. PICK ready \in BOOLEAN : watch' = [watch EXCEPT !.pc = "decide", !.saw = seen(ready)]
      BY <1>2, <2>2 DEF Sense
    <3> DEFINE saw == seen(ready)
    <3>2. /\ saw \in Saw /\ saw.running = watch.saw.running /\ saw.id = watch.saw.id
          /\ saw.admit \/ saw.idle => saw.healthy
          /\ saw.admit => box.running
      BY DEF Saw, Idle
    <3> HIDE DEF saw
    <3>3. watch' = [watch EXCEPT !.pc = "decide", !.saw = saw] /\ UNCHANGED spent
      BY <1>2, <2>2, <3>1 DEF Sense, saw
    <3>4. Typed /\ Goes("decide", saw, watch.idleFor)
      BY <3>2, <3>3 DEF Places
    <3>5. (WatchTypeOK /\ WatchShape)'
      BY <1>2, <3>2, <3>3, <3>4 DEF Sense
    <3>6. QED BY <1>2, <3>2, <3>4, <3>5 DEF Sense
  <2>3. QED BY <2>1, <2>2
<1>3. ASSUME Decide PROVE WatchIInv'
  <2>1. /\ watch'.saw = watch.saw /\ Typed /\ watch'.idleFor \in 0..IdleCycles
        /\ watch'.pc \in {"withdraw", "start", "clear", "write"}
        /\ watch'.pc = "withdraw" => ~watch.saw.healthy
        /\ watch'.pc = "start" => OwnsStop
        /\ watch'.pc = "clear" => OwnsStop /\ watch.saw.running
    <3>1. CASE ~watch.saw.healthy
      <4>1. watch' = [watch EXCEPT !.pc = "withdraw", !.idleFor = 0]
        BY <1>3, <3>1 DEF Decide
      <4>2. Typed
        BY <4>1 DEF Places
      <4>3. QED BY <3>1, <4>1, <4>2
    <3>2. CASE watch.saw.healthy /\ OwnsStop /\ ~watch.saw.running /\ watch.saw.idle
      <4> DEFINE n == IF watch.idleFor = IdleCycles THEN watch.idleFor ELSE watch.idleFor + 1
                 next == IF watch.idleFor = IdleCycles THEN "start" ELSE "write"
      <4>1. watch' = [watch EXCEPT !.pc = next, !.idleFor = n]
        BY <1>3, <3>2 DEF Decide
      <4>2. n \in 0..IdleCycles /\ n \in Nat /\ next \in {"start", "write"}
        OBVIOUS
      <4> HIDE DEF n, next
      <4>3. Typed
        BY <4>1, <4>2 DEF Places
      <4>4. QED BY <3>2, <4>1, <4>2, <4>3
    <3>3. CASE watch.saw.healthy /\ ~(OwnsStop /\ ~watch.saw.running /\ watch.saw.idle)
      <4> DEFINE next == IF OwnsStop /\ watch.saw.running THEN "clear" ELSE "write"
      <4>1. watch' = [watch EXCEPT !.idleFor = 0, !.pc = next]
        BY <1>3, <3>3 DEF Decide
      <4>2. next \in {"clear", "write"} /\ (next = "clear" => OwnsStop /\ watch.saw.running)
        OBVIOUS
      <4> HIDE DEF next
      <4>3. Typed
        BY <4>1, <4>2 DEF Places
      <4>4. QED BY <3>3, <4>1, <4>2, <4>3
    <3>4. QED BY <3>1, <3>2, <3>3
  <2>2. (WatchTypeOK /\ WatchShape)'
    BY <1>3, <2>1 DEF Decide
  <2>3. QED BY <1>3, <2>1, <2>2 DEF Decide, OwnsStop
<1>4. ASSUME Withdraw PROVE WatchIInv'
  BY <1>4 DEF Withdraw, Places, Saw
<1>5. ASSUME MarkOwnedStop PROVE WatchIInv'
  BY <1>5 DEF MarkOwnedStop, Marked, Places, Saw
<1>6. ASSUME DockerStop PROVE WatchIInv'
  <2> DEFINE stopped == [watch.saw EXCEPT !.running = FALSE]
  <2>1. /\ stopped \in Saw /\ ~stopped.running /\ stopped.id = watch.saw.id
        /\ stopped.healthy = watch.saw.healthy /\ stopped.idle = watch.saw.idle
        /\ stopped.admit = watch.saw.admit
    BY DEF Saw
  <2>2. \/ /\ watch' = [watch EXCEPT !.pc = "write", !.saw = stopped]
           /\ UNCHANGED spent
        \/ \E pc \in {"failed", "write"} :
              watch' = [watch EXCEPT !.pc = pc] /\ spent' = [spent EXCEPT !.faults = @ + 1]
    BY <1>6 DEF DockerStop
  <2> HIDE DEF stopped
  <2>3. Typed /\ (Goes("write", stopped, watch.idleFor) \/ Failed("failed") \/ Failed("write")) /\ Counts
    <3>1. Typed
      BY <2>1, <2>2 DEF Places
    <3>2. (Goes("write", stopped, watch.idleFor) \/ Failed("failed") \/ Failed("write"))
      BY <2>2
    <3>3. Counts
      BY <2>2
    <3>4. QED BY <3>1, <3>2, <3>3
  <2>4. box' \in {box, TakenDown} /\ UNCHANGED <<owned, status>> /\ watch.pc \in {"stop", "stop2"}
    BY <1>6 DEF DockerStop
  <2>5. (WatchTypeOK /\ WatchShape)'
    BY <2>1, <2>3, <2>4, BoxForms
  <2>6. ~watch.saw.admit /\ ~status /\ box.by # "operator"
    BY <2>4
  <2>7. box'.by # "operator"
    BY <2>4, <2>6, BoxForms
  <2>8. QED BY <2>1, <2>3, <2>4, <2>5, <2>6, <2>7
<1>7. ASSUME DockerStart PROVE WatchIInv'
  BY <1>7, BoxForms DEF DockerStart, Places, Saw, Hands
<1>8. ASSUME ClearOwnedStop PROVE WatchIInv'
  <2> DEFINE runs == [watch.saw EXCEPT !.running = TRUE]
  <2>1. /\ runs \in Saw /\ runs.running /\ runs.id = watch.saw.id
        /\ runs.healthy = watch.saw.healthy /\ runs.idle = watch.saw.idle
        /\ runs.admit = watch.saw.admit
    BY DEF Saw
  <2>2. \/ /\ watch' = [watch EXCEPT !.pc = "write", !.saw = runs, !.idleFor = 0]
           /\ UNCHANGED spent
        \/ watch' = [watch EXCEPT !.pc = "failed"] /\ spent' = [spent EXCEPT !.faults = @ + 1]
    BY <1>8 DEF ClearOwnedStop
  <2> HIDE DEF runs
  <2>3. Typed /\ (Goes("write", runs, 0) \/ Failed("failed")) /\ Counts
    <3>1. Typed
      <4>1. CASE watch' = [watch EXCEPT !.pc = "write", !.saw = runs, !.idleFor = 0]
        BY <2>1, <4>1 DEF Places
      <4>2. CASE watch' = [watch EXCEPT !.pc = "failed"]
        BY <4>2 DEF Places
      <4>3. QED BY <2>2, <4>1, <4>2
    <3>2. (Goes("write", runs, 0) \/ Failed("failed"))
      BY <2>2
    <3>3. Counts
      BY <2>2
    <3>4. QED BY <3>1, <3>2, <3>3
  <2>4. /\ watch.pc = "clear" /\ owned' \in {0, owned} /\ UNCHANGED <<box, status>>
    BY <1>8 DEF ClearOwnedStop
  <2>5. (WatchTypeOK /\ WatchShape)'
    BY <2>1, <2>3, <2>4
  <2>6. QED BY <2>1, <2>3, <2>4, <2>5
<1>9. ASSUME WriteState PROVE WatchIInv'
  BY <1>9 DEF WriteState, Places, Saw
<1>10. ASSUME MonitorFailed PROVE WatchIInv'
  <2>1. Typed /\ Goes("inspect2", Blank, 0)
    BY <1>10, BlankForm DEF MonitorFailed, Places
  <2>2. UNCHANGED <<box, owned, spent>> /\ status' = FALSE
    BY <1>10 DEF MonitorFailed
  <2>3. (WatchTypeOK /\ WatchShape)'
    <3>1. WatchTypeOK'
      <4>1. box' = box /\ owned' = owned /\ status' \in BOOLEAN
        BY <2>2
      <4>2. watch'.pc \in Places /\ watch'.idleFor \in 0..IdleCycles
        BY <2>1
      <4>3. watch'.saw.admit \/ watch'.saw.idle => watch'.saw.healthy
        BY <2>1, BlankForm
      <4>4. QED BY <4>1, <4>2, <4>3
    <3>2. WatchShape'
      BY <2>1, <2>2, BlankForm
    <3>3. QED BY <3>1, <3>2
  <2>4. QED BY <2>1, <2>2, <2>3, BlankForm
<1>11. ASSUME InspectAgain PROVE WatchIInv'
  <2> DEFINE seen == [watch.saw EXCEPT !.id = box.id]
             next == IF box.running THEN "mark2" ELSE "write"
  <2>1. /\ seen \in Saw /\ seen.running = watch.saw.running /\ seen.id = box.id
        /\ seen.healthy = watch.saw.healthy /\ seen.idle = watch.saw.idle
        /\ seen.admit = watch.saw.admit
    BY DEF Saw
  <2>2. \/ watch' = [watch EXCEPT !.pc = next, !.saw = seen] /\ UNCHANGED spent
        \/ watch' = [watch EXCEPT !.pc = "write"] /\ spent' = [spent EXCEPT !.faults = @ + 1]
    BY <1>11 DEF InspectAgain
  <2>9. next \in {"mark2", "write"} /\ (next = "mark2" => box.running)
    OBVIOUS
  <2> HIDE DEF seen, next
  <2>3. Typed /\ (Goes(next, seen, watch.idleFor) \/ Failed("write")) /\ Counts
    <3>1. Typed
      BY <2>1, <2>2, <2>9 DEF Places
    <3>2. (Goes(next, seen, watch.idleFor) \/ Failed("write"))
      BY <2>2
    <3>3. Counts
      BY <2>2
    <3>4. QED BY <3>1, <3>2, <3>3
  <2>4. watch.pc = "inspect2" /\ UNCHANGED <<box, owned, status>>
    BY <1>11 DEF InspectAgain
  <2>5. (WatchTypeOK /\ WatchShape)'
    BY <2>1, <2>3, <2>4, <2>9
  <2>6. QED BY <2>1, <2>3, <2>4, <2>5, <2>9
<1>12. ASSUME Kill PROVE WatchIInv'
  BY <1>12, BoxForms DEF Kill, Underway, Places
<1>13. ASSUME Terminate PROVE WatchIInv'
  <2>1. Typed /\ Failed("down") /\ Counts
    BY <1>13 DEF Terminate, Places
  <2>2. \/ box' = box
        \/ box' = TakenDown /\ watch.pc \in {"stop", "stop2"}
        \/ box' = PutUp /\ watch.pc = "start"
    BY <1>13 DEF Terminate, Underway
  <2>3. (WatchTypeOK /\ WatchShape)'
    BY <1>13, <2>1, <2>2, BoxForms DEF Terminate
  <2>4. QED BY <1>13, <2>1, <2>2, <2>3, BoxForms DEF Terminate
<1>14. ASSUME StartWatcher PROVE WatchIInv'
  BY <1>14, BlankForm DEF StartWatcher, Places
<1>15. ASSUME Operates PROVE WatchIInv'
  <2> DEFINE hand == IF Undisturbed THEN "operator" ELSE "raced"
  <2>1. /\ spent' \in [faults : Nat, operator : Nat] /\ spent'.operator = spent.operator + 1
        /\ spent.operator < MaxOperator /\ UNCHANGED <<owned, status, watch>>
    BY <1>15 DEF Operates
  <2>2. hand \in Hands \ {"nobody"} /\ (hand = "operator" => Undisturbed)
    BY DEF Hands
  <2>3. CASE box.running /\ box' = [box EXCEPT !.running = FALSE, !.by = hand]
    <3> HIDE DEF hand
    <3>1. /\ box' \in [running : BOOLEAN, id : Nat, by : Hands]
          /\ ~box'.running /\ box'.by = hand /\ box'.id = box.id
      BY <2>2, <2>3
    <3>2. hand \in {"operator", "raced"}
      BY DEF hand
    <3>3. (WatchTypeOK /\ WatchShape)'
      BY <2>1, <3>1
    <3>4. QED BY <2>1, <2>2, <3>1, <3>2, <3>3 DEF Undisturbed
  <2>4. CASE /\ box' \in [running : BOOLEAN, id : Nat, by : Hands]
             /\ box'.running /\ box'.by = "nobody" /\ box'.id \in {box.id, box.id + 1}
    <3>1. WatchTypeOK'
      <4>1. box'.running \in BOOLEAN /\ box'.by \in Hands /\ box'.id \in Nat
        BY <2>4
      <4>2. box'.id \in 1..(MaxOperator + 1) /\ owned' \in 0..box'.id
        <5>1. box.id \in 1..MaxOperator /\ owned \in 0..box.id /\ owned' = owned
          BY <2>1
        <5>2. box'.id = box.id \/ box'.id = box.id + 1
          BY <2>4
        <5>3. QED BY <5>1, <5>2
      <4>3. QED BY <2>1, <4>1, <4>2
    <3>2. WatchShape'
      <4>1. /\ watch' = watch /\ owned' \in Nat
            /\ spent' \in [faults : Nat, operator : Nat] /\ spent'.operator <= MaxOperator
        BY <2>1
      <4>2. /\ 1 <= box'.id /\ box'.id <= spent'.operator + 1 /\ watch.saw.id <= box'.id
        <5>1. /\ spent'.operator = spent.operator + 1 /\ spent.operator \in Nat
              /\ box.id \in Nat /\ watch.saw.id \in Nat
          BY <2>1 DEF Saw
        <5>2. box'.id = box.id \/ box'.id = box.id + 1
          BY <2>4
        <5>3. QED BY <5>1, <5>2
      <4>3. QED BY <2>4, <4>1, <4>2
    <3>3. QED BY <2>1, <2>4, <3>1, <3>2
  <2>5. CASE ~box.running /\ box' = [box EXCEPT !.running = TRUE, !.by = "nobody"]
    BY <2>4, <2>5 DEF Hands
  <2>6. CASE box' = [running |-> TRUE, id |-> box.id + 1, by |-> "nobody"]
    BY <2>4, <2>6 DEF Hands
  <2>7. QED BY <1>15, <2>3, <2>5, <2>6 DEF Operates
<1>16. ASSUME PressureChanges PROVE WatchIInv'
  BY <1>16 DEF PressureChanges
<1>17. QED
  BY <1>1, <1>2, <1>3, <1>4, <1>5, <1>6, <1>7, <1>8, <1>9, <1>10, <1>11, <1>12, <1>13,
     <1>14, <1>15, <1>16 DEF WatchNext

\* Every reachable state of the watcher satisfies its inductive invariant.
LEMMA WatchInvariance == WatchSpec => []WatchIInv
<1>1. WatchIInv /\ UNCHANGED watchVars => WatchIInv'
  BY DEF WatchIInv, WatchInv, WatchTypeOK, AdmitMeansRunning, WatchShape, WordShape,
         OperatorShape, watchVars
<1>2. QED BY WatchStart, WatchStep, <1>1, PTL DEF WatchSpec

\* The watcher is well typed, and the gateway is told to admit only while the container
\* runs, unless the operator stopped it since.
THEOREM WatchHolds == WatchSpec => []WatchInv
BY WatchInvariance, PTL DEF WatchIInv

\* No step of the watcher, and no docker command it leaves behind when it is killed,
\* restarts a container the operator stopped.
THEOREM OperatorIsRespected == WatchSpec => OperatorStopRespected
<1> DEFINE Respects == box.by = "operator" => box'.by # "restart"
<1>1. WatchIInv /\ WatchNext => Respects
  <2> SUFFICES ASSUME WatchIInv, WatchNext, box.by = "operator" PROVE box'.by # "restart"
    OBVIOUS
  <2> USE DEF WatchIInv, WatchShape, OperatorShape
  <2>1. watch.pc \notin {"start", "stop", "stop2"}
    OBVIOUS
  <2>2. ASSUME Operates PROVE box'.by # "restart"
    <3>1. CASE ~box.running /\ box' = [box EXCEPT !.running = TRUE, !.by = "nobody"]
      BY <3>1
    <3>2. CASE box' = [running |-> TRUE, id |-> box.id + 1, by |-> "nobody"]
      BY <3>2
    <3>3. QED BY <2>2, <3>1, <3>2 DEF Operates
  <2>3. ASSUME Kill \/ Terminate PROVE box'.by # "restart"
    BY <2>1, <2>3 DEF Kill, Terminate, Underway
  <2>4. ASSUME ~Operates, ~Kill, ~Terminate PROVE box' = box
    BY <2>1, <2>4 DEF WatchNext, Inspect, Sense, Decide, Withdraw, MarkOwnedStop, DockerStop,
       DockerStart, ClearOwnedStop, WriteState, MonitorFailed, InspectAgain, StartWatcher,
       PressureChanges
  <2>5. QED BY <2>2, <2>3, <2>4
<1>2. UNCHANGED watchVars => Respects
  BY DEF watchVars
<1>3. WatchIInv /\ [WatchNext]_watchVars => Respects
  BY <1>1, <1>2
<1>4. QED BY WatchInvariance, <1>3, PTL DEF WatchSpec, OperatorStopRespected

=============================================================================
