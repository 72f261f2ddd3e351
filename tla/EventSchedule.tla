--------------------------- MODULE EventSchedule ---------------------------
(***************************************************************************)
(* The rows of an event and of its frozen schedule, and the transactions   *)
(* that change them.  The ballot that leads to a schedule, and the workers *)
(* and pages that use it, are modules of their own.                        *)
(*                                                                         *)
(* A slot stands for its time: its title stays with it when an event is    *)
(* rescheduled.  Slot ids are handed out in order and never used again.    *)
(***************************************************************************)
EXTENDS Integers, FiniteSets

CONSTANTS
    Events,
    NoEvent,
    Grace,        \* EVENT_COMPLETION_GRACE_HOURS
    MaxSlots,     \* bound: slot rows ever made
    MaxRemotes,   \* bound: Discord events ever made
    MaxRevision,  \* bound: no administrator's command after this many changes
    MaxTime       \* bound: the clock stops here

ASSUME ScheduleAssumption ==
    /\ NoEvent \notin Events
    /\ {Grace, MaxSlots, MaxRemotes, MaxRevision, MaxTime} \subseteq Nat

VARIABLES
    event,   \* events: status, revision, archived_at
    slot,    \* event_slots, with the rows of event_reminder_state as stages
    made,    \* the last slot id that was handed out
    now

schedule == <<event, slot, made>>

-----------------------------------------------------------------------------
SlotIds == 1..MaxSlots
Remotes == 1..MaxRemotes
NoRemote == 0

\* ReminderStage: DAY, HOUR and START
Stages == 1..3

Statuses == {"none", "open", "scheduled", "completed", "cancelled"}
EventRow == [status : Statuses, revision : Nat, archived : BOOLEAN]
SlotRow == [event : Events \union {NoEvent}, at : Nat,
            status : {"planned", "completed", "cancelled"},
            native : Remotes \union {NoRemote}, stages : SUBSET Stages]

NoSlot == [event |-> NoEvent, at |-> 0, status |-> "planned",
           native |-> NoRemote, stages |-> {}]

ScheduleInit ==
    /\ event = [e \in Events |-> [status |-> "none", revision |-> 0, archived |-> FALSE]]
    /\ slot = [s \in SlotIds |-> NoSlot]
    /\ made = 0
    /\ now = 0

SlotsOf(e) == {s \in SlotIds : slot[s].event = e}
Scheduled == {e \in Events : event[e].status = "scheduled"}
Open == {e \in Events : event[e].status = "open"}

\* a slot that the members can still look forward to, or sit in
Active(s) == slot[s].event \in Scheduled /\ slot[s].status = "planned"

\* fully elapsed at time t, the grace period included
Elapsed(e, t) == SlotsOf(e) # {} /\ \A s \in SlotsOf(e) : slot[s].at + Grace <= t

Distinct(f) == \A i, j \in DOMAIN f : f[i] = f[j] => i = j
FutureTimes == (now + 1)..MaxTime

Changed(e, status) == [event[e] EXCEPT !.status = status, !.revision = @ + 1]
CanChange(e) == event[e].revision < MaxRevision

-----------------------------------------------------------------------------
(***************************************************************************)
(* Transactions.                                                           *)
(***************************************************************************)

\* create_event: one open event per guild
CreateEvent(e) ==
    /\ event[e].status = "none"
    /\ Open = {}
    /\ event' = [event EXCEPT ![e].status = "open"]
    /\ UNCHANGED <<slot, made>>

\* freeze_schedule with n slots at the times at[1], ..., at[n], in the future
FreezeSchedule(e, n, at) ==
    LET new == (made + 1)..(made + n) IN
    /\ e \in Open
    /\ CanChange(e)
    /\ new \subseteq SlotIds
    /\ at \in [1..n -> FutureTimes] /\ Distinct(at)
    /\ event' = [event EXCEPT ![e] = Changed(e, "scheduled")]
    /\ slot' = [s \in SlotIds |->
                   IF s \in new THEN [NoSlot EXCEPT !.event = e, !.at = at[s - made]]
                                ELSE slot[s]]
    /\ made' = made + n

\* a slot keeps its reminders and its Discord event when its time stays
Moved(row, t) == [row EXCEPT !.at = t, !.status = "planned",
                             !.stages = IF t = row.at THEN @ ELSE {}]

\* reschedule_event: every slot of the event is given a future time
RescheduleEvent(e, at) ==
    /\ e \in Scheduled
    /\ CanChange(e)
    /\ at \in [SlotsOf(e) -> FutureTimes] /\ Distinct(at)
    /\ event' = [event EXCEPT ![e] = Changed(e, "scheduled")]
    /\ slot' = [s \in SlotIds |-> IF s \in SlotsOf(e) THEN Moved(slot[s], at[s])
                                                      ELSE slot[s]]
    /\ UNCHANGED made

\* reopen_event: back to the ballot, and the frozen slots are deleted
ReopenEvent(e) ==
    /\ e \in Scheduled
    /\ Open = {}
    /\ CanChange(e)
    /\ event' = [event EXCEPT ![e] = Changed(e, "open")]
    /\ slot' = [s \in SlotIds |-> IF s \in SlotsOf(e) THEN NoSlot ELSE slot[s]]
    /\ UNCHANGED made

Closed(E, status) ==
    [s \in SlotIds |-> IF slot[s].event \in E /\ slot[s].status = "planned"
                       THEN [slot[s] EXCEPT !.status = status] ELSE slot[s]]

\* _transition_event: complete a scheduled event, cancel an open or scheduled one
TransitionEvent(e, target) ==
    /\ event[e].status \in (IF target = "completed" THEN {"scheduled"}
                                                    ELSE {"open", "scheduled"})
    /\ event' = [event EXCEPT ![e] = Changed(e, target)]
    /\ slot' = Closed({e}, target)
    /\ UNCHANGED made

\* archive_event
ArchiveEvent(e) ==
    /\ event[e].status \in {"completed", "cancelled"}
    /\ ~event[e].archived
    /\ event' = [event EXCEPT ![e] = [Changed(e, @.status) EXCEPT !.archived = TRUE]]
    /\ UNCHANGED <<slot, made>>

\* what clear_old_events completes, at a reference Grace ago, and what it archives
Stale == {e \in Scheduled : SlotsOf(e) # {} /\ \A s \in SlotsOf(e) : slot[s].at + Grace < now}
Clearable == {e \in Events : /\ e \in Stale \/ event[e].status \in {"completed", "cancelled"}
                             /\ ~event[e].archived}

\* clear_old_events: a revision for the completion and one for the archive
ClearOldEvents ==
    /\ event' = [e \in Events |->
                    CASE e \in Stale -> [status |-> "completed", archived |-> TRUE,
                                         revision |-> event[e].revision + 2]
                      [] e \in Clearable \ Stale ->
                           [Changed(e, event[e].status) EXCEPT !.archived = TRUE]
                      [] OTHER -> event[e]]
    /\ slot' = Closed(Stale, "completed")
    /\ UNCHANGED made

=============================================================================
