----------------------------- MODULE MCGpuHosts -----------------------------
(***************************************************************************)
(* Instances for TLC of the two processes that hand a GPU to the model and *)
(* take it back: the worker of the desktop (DesktopWorker) and the watcher *)
(* of the server (GpuWatch).  They share no variable.  `focus` says which  *)
(* one a behaviour is about; the other rests in one initial state and no   *)
(* fairness is asked of it.                                                *)
(***************************************************************************)
EXTENDS DesktopWorker, GpuWatch

VARIABLE focus

hostVars == <<workerVars, watchVars, focus>>

HostsInit ==
    /\ focus \in {"desktop", "server"}
    /\ WorkerInit /\ (focus # "desktop" => level = "idle")
    /\ WatchInit /\ (focus # "server" => pressure = "idle")

HostsNext ==
    /\ UNCHANGED focus
    /\ \/ focus = "desktop" /\ WorkerNext /\ UNCHANGED watchVars
       \/ focus = "server" /\ WatchNext /\ UNCHANGED workerVars

\* WorkerFairness and WatchFairness, each of the process in focus
HostsFairness ==
    /\ \A r \in Asks :
          /\ WF_workerVars(focus = "desktop" /\ Answering(r))
          /\ WF_workerVars(focus = "desktop" /\ TimerWakes(r))
          /\ WF_workerVars(focus = "desktop" /\ TimeoutKills(r))
    /\ WF_workerVars(focus = "desktop" /\ Monitoring)
    /\ WF_workerVars(focus = "desktop" /\ ServerStops)
    /\ WF_workerVars(focus = "desktop" /\ ServerExits)
    /\ WF_watchVars(focus = "server" /\ WatchCycle)
    /\ WF_watchVars(focus = "server" /\ watch.pc = "killed" /\ StartWatcher)

HostsSpec == HostsInit /\ [][HostsNext]_hostVars /\ HostsFairness

=============================================================================
