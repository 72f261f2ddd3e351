------------------------------ MODULE GpuWatch ------------------------------
(***************************************************************************)
(* The GPU watcher of the server: it stops the model's container when      *)
(* another workload needs the GPU and starts it again when the GPU has     *)
(* been idle, but only a container it stopped itself.                      *)
(*                                                                         *)
(* What it owns is a marker file with the container's id, written before   *)
(* docker stop and removed after docker start, so every step between two   *)
(* of its commands is an action: the process may be killed there, or told  *)
(* to end, and the operator may use docker there.  A command may fail      *)
(* before or after it took effect.                                         *)
(*                                                                         *)
(* The ten seconds of idleness are IdleCycles of the half-second loop.     *)
(* How old the status file is belongs to the gateway and is left out.      *)
(***************************************************************************)
EXTENDS Naturals

CONSTANTS
    IdleCycles,        \* safe_since: cycles of idleness before a start
    MaxWatchFaults,    \* bound: commands that fail, kills and terminations
    MaxOperator        \* bound: what the operator does with docker

ASSUME WatchAssumption ==
    {IdleCycles, MaxWatchFaults, MaxOperator} \subseteq Nat /\ IdleCycles > 0

VARIABLES
    box,        \* the container local-ai-ollama; by: who took it down, or put it up
    owned,      \* owned-stop.json: the id it names, 0 if there is no such file
    status,     \* the admit field of status.json
    pressure,   \* what the GPU and the host's memory would say now
    watch,      \* the process: its place and the state of this cycle
    spent       \* the bounds spent

watchVars == <<box, owned, status, pressure, watch, spent>>

-----------------------------------------------------------------------------
\* idle: classify() admits; warm: healthy only; foul: not healthy
Pressures == {"idle", "warm", "foul"}
Places == {"inspect", "sense", "decide", "withdraw", "mark", "stop", "start", "clear",
           "write", "failed", "inspect2", "mark2", "stop2", "killed", "down"}
\* "operator": while the watcher was between two cycles and owned nothing;
\* "raced": while it was at work or owned the container
Hands == {"nobody", "operator", "raced", "watcher", "restart"}

Blank == [running |-> FALSE, id |-> 0, healthy |-> FALSE, idle |-> FALSE, admit |-> FALSE]

WatchInit ==
    /\ box = [running |-> TRUE, id |-> 1, by |-> "nobody"]
    /\ owned = 0
    /\ status = FALSE
    /\ pressure \in Pressures
    /\ watch = [pc |-> "inspect", saw |-> Blank, idleFor |-> 0]
    /\ spent = [faults |-> 0, operator |-> 0]

WatchFault == spent.faults < MaxWatchFaults /\ spent' = [spent EXCEPT !.faults = @ + 1]

\* An exception anywhere in the cycle.
Fails(pc) == WatchFault /\ watch' = [watch EXCEPT !.pc = pc]

Place(pc) == watch' = [watch EXCEPT !.pc = pc] /\ UNCHANGED spent

-----------------------------------------------------------------------------
\* collect(): docker inspect, then the GPU, the memory and a look into the container
Inspect ==
    /\ watch.pc = "inspect"
    /\ \/ /\ watch' = [watch EXCEPT !.pc = "sense",
                         !.saw = [Blank EXCEPT !.running = box.running, !.id = box.id]]
          /\ UNCHANGED spent
       \/ Fails("failed")
    /\ UNCHANGED <<box, owned, status, pressure>>

\* mutant: a GPU is idle whether or not the container can reach it
IdleUnchecked(healthy) == pressure = "idle"

Idle(healthy) == pressure = "idle" /\ healthy

\* ready: docker's health check passes; a container that has just started may not
Sense ==
    /\ watch.pc = "sense"
    /\ \/ \E ready \in BOOLEAN :
            LET accessible == watch.saw.running /\ box.running
                healthy == pressure # "foul" /\ (watch.saw.running => accessible)
            IN  watch' = [watch EXCEPT !.pc = "decide",
                            !.saw = [@ EXCEPT !.healthy = healthy, !.idle = Idle(healthy),
                                              !.admit = Idle(healthy) /\ ready /\ accessible]]
          /\ UNCHANGED spent
       \/ Fails("failed")
    /\ UNCHANGED <<box, owned, status, pressure>>

\* mutant: any marker will do
OwnsAnything == owned # 0

OwnsStop == owned = watch.saw.id

\* The three branches of main(); safe_since starts to count, or starts over.
Decide ==
    /\ watch.pc = "decide"
    /\ \/ /\ ~watch.saw.healthy
          /\ watch' = [watch EXCEPT !.pc = "withdraw", !.idleFor = 0]
       \/ /\ watch.saw.healthy /\ OwnsStop /\ ~watch.saw.running /\ watch.saw.idle
          /\ watch' = [watch EXCEPT
                !.pc = IF watch.idleFor = IdleCycles THEN "start" ELSE "write",
                !.idleFor = IF @ = IdleCycles THEN @ ELSE @ + 1]
       \/ /\ watch.saw.healthy /\ ~(OwnsStop /\ ~watch.saw.running /\ watch.saw.idle)
          /\ watch' = [watch EXCEPT !.idleFor = 0,
                !.pc = IF OwnsStop /\ watch.saw.running THEN "clear" ELSE "write"]
    /\ UNCHANGED <<box, owned, status, pressure, spent>>

\* mutant: the state is written after the stop only
WithdrawLate ==
    /\ watch.pc = "withdraw"
    /\ Place(IF watch.saw.running THEN "mark" ELSE "write")
    /\ UNCHANGED <<box, owned, status, pressure>>

\* mutant: a container that is ours already is not stopped again
WithdrawOnce ==
    /\ watch.pc = "withdraw"
    /\ status' = FALSE
    /\ Place(IF watch.saw.running /\ ~OwnsStop THEN "mark" ELSE "write")
    /\ UNCHANGED <<box, owned, pressure>>

\* An unhealthy state is written before anything is stopped.
Withdraw ==
    /\ watch.pc = "withdraw"
    /\ status' = FALSE
    /\ Place(IF watch.saw.running THEN "mark" ELSE "write")
    /\ UNCHANGED <<box, owned, pressure>>

\* mutant: an old marker is not replaced
MarkedOnce == IF owned = 0 THEN watch.saw.id ELSE owned

Marked == watch.saw.id

MarkOwnedStop ==
    /\ watch.pc \in {"mark", "mark2"}
    /\ \/ owned' = Marked /\ Place(IF watch.pc = "mark" THEN "stop" ELSE "stop2")
       \/ Fails(IF watch.pc = "mark" THEN "failed" ELSE "write") /\ UNCHANGED owned
    /\ UNCHANGED <<box, status, pressure>>

\* docker stop names the container, whatever its id is by now.
TakenDown ==
    IF box.running
      THEN [box EXCEPT !.running = FALSE,
                       !.by = IF watch.saw.id = box.id THEN "watcher" ELSE "raced"]
      ELSE box

DockerStop ==
    /\ watch.pc \in {"stop", "stop2"}
    /\ \/ /\ box' = TakenDown
          /\ watch' = [watch EXCEPT !.pc = "write", !.saw.running = FALSE]
          /\ UNCHANGED spent
       \/ /\ box' \in {box, TakenDown}
          /\ Fails(IF watch.pc = "stop" THEN "failed" ELSE "write")
    /\ UNCHANGED <<owned, status, pressure>>

PutUp == [box EXCEPT !.running = TRUE, !.by = IF box.running THEN @ ELSE "restart"]

DockerStart ==
    /\ watch.pc = "start"
    /\ \/ box' = PutUp /\ Place("clear")
       \/ box' \in {box, PutUp} /\ Fails("failed")
    /\ UNCHANGED <<owned, status, pressure>>

\* clear_owned_stop; after a start safe_since is unset
ClearOwnedStop ==
    /\ watch.pc = "clear"
    /\ \/ /\ owned' = IF OwnsStop THEN 0 ELSE owned
          /\ watch' = [watch EXCEPT !.pc = "write", !.saw.running = TRUE, !.idleFor = 0]
          /\ UNCHANGED spent
       \/ Fails("failed") /\ UNCHANGED owned
    /\ UNCHANGED <<box, status, pressure>>

\* The state of this cycle, never admitting what does not run; then half a second.
WriteState ==
    /\ watch.pc = "write"
    /\ status' = (watch.saw.admit /\ watch.saw.running)
    /\ Place("inspect")
    /\ UNCHANGED <<box, owned, pressure>>

\* except Exception: nothing is admitted, and what runs is stopped as ours.
MonitorFailed ==
    /\ watch.pc = "failed"
    /\ status' = FALSE
    /\ watch' = [watch EXCEPT !.pc = "inspect2", !.saw = Blank, !.idleFor = 0]
    /\ UNCHANGED <<box, owned, pressure, spent>>

InspectAgain ==
    /\ watch.pc = "inspect2"
    /\ \/ /\ watch' = [watch EXCEPT !.pc = IF box.running THEN "mark2" ELSE "write",
                                    !.saw.id = box.id]
          /\ UNCHANGED spent
       \/ Fails("write")
    /\ UNCHANGED <<box, owned, status, pressure>>

-----------------------------------------------------------------------------
\* The process: killed, or told to end, at any place (a docker command it had begun
\* may still be carried out); systemd restarts it after a kill.
Alive == watch.pc \notin {"killed", "down"}

Underway ==
    CASE watch.pc \in {"stop", "stop2"} -> {box, TakenDown}
      [] watch.pc = "start" -> {box, PutUp}
      [] OTHER -> {box}

Kill ==
    /\ Alive /\ WatchFault
    /\ box' \in Underway
    /\ watch' = [watch EXCEPT !.pc = "killed"]
    /\ UNCHANGED <<owned, status, pressure>>

\* stop_signal and the finally clause of main()
Terminate ==
    /\ Alive /\ WatchFault
    /\ box' \in Underway
    /\ status' = FALSE
    /\ watch' = [watch EXCEPT !.pc = "down"]
    /\ UNCHANGED <<owned, pressure>>

StartWatcher ==
    /\ ~Alive
    /\ watch' = [pc |-> "inspect", saw |-> Blank, idleFor |-> 0]
    /\ UNCHANGED <<box, owned, status, pressure, spent>>

\* The operator stops, starts or recreates the container.
Undisturbed == watch.pc \in {"inspect", "killed", "down"} /\ owned # box.id

Operates ==
    /\ spent.operator < MaxOperator /\ spent' = [spent EXCEPT !.operator = @ + 1]
    /\ \/ /\ box.running
          /\ box' = [box EXCEPT !.running = FALSE,
                                !.by = IF Undisturbed THEN "operator" ELSE "raced"]
       \/ ~box.running /\ box' = [box EXCEPT !.running = TRUE, !.by = "nobody"]
       \/ box' = [running |-> TRUE, id |-> box.id + 1, by |-> "nobody"]
    /\ UNCHANGED <<owned, status, pressure, watch>>

PressureChanges ==
    /\ pressure' \in Pressures \ {pressure}
    /\ UNCHANGED <<box, owned, status, watch, spent>>

-----------------------------------------------------------------------------
WatchCycle ==
    \/ Inspect \/ Sense \/ Decide \/ Withdraw \/ MarkOwnedStop \/ DockerStop
    \/ DockerStart \/ ClearOwnedStop \/ WriteState \/ MonitorFailed \/ InspectAgain

WatchNext ==
    \/ Inspect \/ Sense \/ Decide \/ Withdraw \/ MarkOwnedStop \/ DockerStop
    \/ DockerStart \/ ClearOwnedStop \/ WriteState \/ MonitorFailed \/ InspectAgain
    \/ Kill \/ Terminate \/ StartWatcher \/ Operates \/ PressureChanges

\* The loop goes on, and systemd restarts a killed process (Restart=on-failure); one
\* that was told to end starts again only when the operator says so.
WatchFairness ==
    /\ WF_watchVars(WatchCycle)
    /\ WF_watchVars(watch.pc = "killed" /\ StartWatcher)

WatchSpec == WatchInit /\ [][WatchNext]_watchVars /\ WatchFairness

-----------------------------------------------------------------------------
\* The watcher's fields have their types, and a marker names a container that was.
WatchTypeOK ==
    /\ box.running \in BOOLEAN /\ box.id \in 1..(MaxOperator + 1) /\ box.by \in Hands
    /\ owned \in 0..box.id
    /\ status \in BOOLEAN
    /\ watch.pc \in Places /\ watch.idleFor \in 0..IdleCycles
    /\ watch.saw.admit \/ watch.saw.idle => watch.saw.healthy

\* A container the operator stopped, while the watcher was between two cycles and had
\* no claim to it, stays stopped until the operator starts it.
OperatorStopRespected ==
    [][box.by = "operator" => box'.by # "restart"]_watchVars

\* The gateway is told to admit only while the container runs, unless the operator
\* stopped it since: the watcher withdraws its word before it stops anything.
AdmitMeansRunning ==
    status => box.running \/ box.by \in {"operator", "raced"}

\* A container the watcher stopped comes back when the GPU stays idle and the watcher
\* is not switched off, whatever was killed or failed in between.
OwnedStopRecovers ==
    (<>[](pressure = "idle") /\ <>[](watch.pc # "down"))
      => (box.by = "watcher" /\ ~box.running ~> box.by # "watcher" \/ box.running)

\* When the GPU stays contended the model gives it up.
ContentionEvicts ==
    (<>[](pressure = "foul") /\ <>[](watch.pc # "down")) => <>[](~box.running)

\* The invariant of the watcher, from its parts.
WatchInv == WatchTypeOK /\ AdmitMeansRunning

\* The model follows the GPU both ways, through kills and failed calls.
FollowsPressure == OwnedStopRecovers /\ ContentionEvicts

=============================================================================
