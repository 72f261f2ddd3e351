--------------------------- MODULE MCEventWorker ---------------------------
(***************************************************************************)
(* Two instances of EventWorker for TLC: a day, an hour and the start,     *)
(* scaled.                                                                 *)
(*   "slots"      schedules of one and two slots, in a server whose        *)
(*                reminder role the bot may not mention                    *)
(*   "reminders"  schedules of one slot, with every reminder               *)
(***************************************************************************)
EXTENDS EventWorker

ScaledLeads == <<2, 1, 0>>

Reminded == INSTANCE EventWorker WITH SlotCounts <- {1}, RoleUsable <- TRUE

-----------------------------------------------------------------------------
VARIABLE focus

LiveInit == Init /\ focus \in {"slots", "reminders"}

LiveNext ==
    /\ UNCHANGED focus
    /\ \/ focus = "slots" /\ Next
       \/ focus = "reminders" /\ Reminded!Next

\* the fairness of FairSpec, of the instance in focus
LiveSpec ==
    /\ LiveInit /\ [][LiveNext]_<<vars, focus>>
    /\ WF_vars(focus = "slots" /\ Work)
    /\ WF_vars(focus = "reminders" /\ Reminded!Work)

=============================================================================
