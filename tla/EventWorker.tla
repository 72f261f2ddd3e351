---------------------------- MODULE EventWorker ----------------------------
(***************************************************************************)
(* Administrators' commands and the event worker: it mirrors the schedule  *)
(* to Discord's own events, sends the reminders and completes what is      *)
(* over.                                                                   *)
(*                                                                         *)
(* A cycle of the worker copies the scheduled events, lists Discord's      *)
(* events, and then awaits one Discord call after the other, while         *)
(* administrators change the schedule under it.  A call may fail, or take  *)
(* effect and lose its answer; a create may take effect late; the process  *)
(* may stop at any step.  Members may remove, edit or start a Discord      *)
(* event themselves.                                                       *)
(***************************************************************************)
EXTENDS EventSchedule

CONSTANTS
    Leads,          \* how long before its slot a stage is due
    StartGrace,     \* EVENT_REMINDER_START_GRACE
    BatchLimit,     \* native events synchronised per event and cycle
    SlotCounts,     \* bound: slots of one schedule
    GuildKnown,     \* is the guild in the bot's cache?
    RoleUsable,     \* may the bot mention the reminder role?
    MaxFaults       \* bound: calls that fail, edits by members, process restarts

ASSUME WorkerAssumption ==
    /\ Leads \in [Stages -> Nat] /\ Leads[1] > Leads[2] /\ Leads[2] > Leads[3]
    /\ Leads[3] = 0
    /\ SlotCounts \subseteq Nat \ {0}
    /\ {StartGrace, BatchLimit, MaxFaults} \subseteq Nat
    /\ {GuildKnown, RoleUsable} \subseteq BOOLEAN

VARIABLES
    remote,    \* Discord's scheduled events: the marker, the time shown, the status
    issued,    \* the last id Discord gave to one
    late,      \* creates whose answer was given up and that may still happen
    removals,  \* remove_native_events, on behalf of commands
    worker,    \* the running cycle
    pings,     \* how often a slot was given a time, and what was delivered for the last
    faults     \* failed calls, edits by members and restarts so far

vars == <<event, slot, made, now, remote, issued, late, removals, worker, pings,
          faults>>
discord == <<remote, issued, late>>

-----------------------------------------------------------------------------
Native == [event : Events \union {NoEvent}, slot : SlotIds \union {0}, at : Nat,
           live : {"scheduled", "started"}]
NoNative == [event |-> NoEvent, slot |-> 0, at |-> 0, live |-> "scheduled"]

Copy == [row : SlotRow, revision : Nat]
Reminder == [slot : SlotIds, event : Events, at : Nat, stage : Stages, round : Nat]
Pings == [round : Nat, sent : [Stages -> Nat]]
NoReminder == [slot |-> 0, event |-> NoEvent, at |-> 0, stage |-> 1, round |-> 0]
NoPings == [g \in Stages |-> 0]
Removal == [pc : {"list", "delete"}, event : Events, slots : SUBSET SlotIds,
            ids : SUBSET Remotes]
Cycle == [pc : {"idle", "list", "prune", "events", "remove", "sync", "replace",
                "create", "edit", "answer", "discard", "reminders", "send"},
          now : Nat, copy : [SlotIds -> Copy], todo : SUBSET Events,
          listed : BOOLEAN, known : [Remotes -> Native], retire : SUBSET Remotes,
          event : Events \union {NoEvent}, batch : SUBSET SlotIds,
          cur : SlotIds \union {0}, target : Remotes \union {NoRemote},
          due : SUBSET Reminder, ping : Reminder \union {NoReminder}]

Idle == [pc |-> "idle", now |-> 0,
         copy |-> [s \in SlotIds |-> [row |-> NoSlot, revision |-> 0]], todo |-> {},
         listed |-> FALSE, known |-> [r \in Remotes |-> NoNative], retire |-> {},
         event |-> NoEvent, batch |-> {}, cur |-> 0, target |-> NoRemote,
         due |-> {}, ping |-> NoReminder]

Init ==
    /\ ScheduleInit
    /\ remote = [r \in Remotes |-> NoNative]
    /\ issued = 0 /\ late = {}
    /\ removals = {}
    /\ worker = Idle
    /\ pings = [s \in SlotIds |-> [round |-> 0, sent |-> NoPings]]
    /\ faults = 0

Listed(n) == {r \in Remotes : n[r] # NoNative}

Fault == faults < MaxFaults /\ faults' = faults + 1
NoFault == UNCHANGED faults

\* A deletion of r that takes effect, and one that fails with or without effect.
Gone(r) == remote' = [remote EXCEPT ![r] = NoNative]
Deleted(r) == Gone(r) /\ NoFault
NotDeleted(r) == Fault /\ (Gone(r) \/ UNCHANGED remote)

-----------------------------------------------------------------------------
(***************************************************************************)
(* Administrators' commands: no await comes between the check and the      *)
(* transaction, and the retired Discord events are removed after it.       *)
(***************************************************************************)

NativesOf(S) == {slot[s].native : s \in S} \ {NoRemote}

RemoveLater(e, S, ids) ==
    removals' = IF GuildKnown
                THEN removals \union {[pc |-> "list", event |-> e, slots |-> S, ids |-> ids]}
                ELSE removals

Create(e) ==
    /\ CreateEvent(e)
    /\ UNCHANGED <<now, discord, removals, worker, pings, faults>>

Schedule(e) ==
    /\ \E n \in SlotCounts : \E at \in [1..n -> FutureTimes] : FreezeSchedule(e, n, at)
    /\ UNCHANGED <<now, discord, removals, worker, pings, faults>>

Reschedule(e) ==
    /\ \E at \in [SlotsOf(e) -> FutureTimes] :
          /\ RescheduleEvent(e, at)
          /\ pings' = [s \in SlotIds |->
                          IF s \in SlotsOf(e) /\ at[s] # slot[s].at
                          THEN [round |-> pings[s].round + 1, sent |-> NoPings]
                          ELSE pings[s]]
    /\ UNCHANGED <<now, discord, removals, worker, faults>>

\* mutant: whatever carries the event's marker
EverySlot(e) == SlotIds

\* event_reopen: only what was made for the retired slots
RetiredSlots(e) == SlotsOf(e)

Reopen(e) ==
    /\ ReopenEvent(e)
    /\ RemoveLater(e, RetiredSlots(e), NativesOf(SlotsOf(e)))
    /\ UNCHANGED <<now, discord, worker, pings, faults>>

\* event_complete, event_cancel
Transition(e, target) ==
    /\ CanChange(e)
    /\ TransitionEvent(e, target)
    /\ RemoveLater(e, SlotIds, NativesOf(SlotsOf(e)))
    /\ UNCHANGED <<now, discord, worker, pings, faults>>

Archive(e) ==
    /\ CanChange(e)
    /\ ArchiveEvent(e)
    /\ UNCHANGED <<now, discord, removals, worker, pings, faults>>

\* event_clear: the removals follow one another in the code
Clear ==
    /\ Clearable # {}
    /\ ClearOldEvents
    /\ removals' = removals \union
          IF GuildKnown
          THEN {[pc |-> "list", event |-> e, slots |-> SlotIds, ids |-> NativesOf(SlotsOf(e))] :
                   e \in Clearable}
          ELSE {}
    /\ UNCHANGED <<now, discord, worker, pings, faults>>

\* remove_native_events: list, then delete what is stored or marked
ListRetired(m) ==
    LET found == {r \in Listed(remote) :
                     \/ r \in m.ids
                     \/ remote[r].event = m.event /\ remote[r].slot \in m.slots}
        rest == removals \ {m}
    IN
    /\ m.pc = "list"
    /\ \/ /\ removals' = IF found = {} THEN rest
                         ELSE rest \union {[m EXCEPT !.pc = "delete", !.ids = found]}
          /\ NoFault
       \/ removals' = rest /\ Fault
    /\ UNCHANGED <<event, slot, made, now, discord, worker, pings>>

DeleteRetired(m, r) ==
    /\ m.pc = "delete" /\ r \in m.ids
    /\ removals' = (removals \ {m}) \union
                   (IF m.ids = {r} THEN {} ELSE {[m EXCEPT !.ids = @ \ {r}]})
    /\ Deleted(r) \/ NotDeleted(r)
    /\ UNCHANGED <<event, slot, made, now, issued, late, worker, pings>>

-----------------------------------------------------------------------------
(***************************************************************************)
(* The worker: the listing and the orphans.                                *)
(***************************************************************************)

\* mutant: only events with a slot to come
Upcoming == {e \in Scheduled : \E s \in SlotsOf(e) : slot[s].at > now}

\* list_events with the status scheduled
Watched == Scheduled

\* the scheduled events and their slots, copied before anything is awaited; the
\* listing is asked for when the guild has ever had an event
Begin ==
    LET listing == GuildKnown /\ \E e \in Events : event[e].status # "none" IN
    /\ worker.pc = "idle"
    /\ worker' = [Idle EXCEPT
          !.pc = IF listing THEN "list" ELSE "events",
          !.now = now,
          !.todo = Watched,
          !.copy = [s \in SlotIds |->
                       IF slot[s].event \in Scheduled
                       THEN [row |-> slot[s], revision |-> event[slot[s].event].revision]
                       ELSE [row |-> NoSlot, revision |-> 0]]]
    /\ UNCHANGED <<schedule, now, discord, removals, pings, faults>>

Copied(s) == worker.copy[s].row
CopiedSlots(e) == {s \in SlotIds : Copied(s).event = e}
MirrorsOf(n, s) == {r \in Listed(n) : n[r].slot = s}

\* mutant: the oldest is kept
KeepOldest(S, s) == CHOOSE r \in S : \A q \in S : r <= q

\* of several Discord events for one slot, the stored one or else the oldest
Kept(S, s) == IF Copied(s).native \in S THEN Copied(s).native
              ELSE CHOOSE r \in S : \A q \in S : r <= q

\* mutant: duplicates are left alone
UnknownMarkers(n) == {r \in Listed(n) : Copied(n[r].slot).event = NoEvent}

\* prune_native_event_orphans: no active slot, or not the one to keep
Orphans(n) == {r \in Listed(n) :
                  \/ Copied(n[r].slot).event = NoEvent
                  \/ r # Kept(MirrorsOf(n, n[r].slot), n[r].slot)}

List ==
    /\ worker.pc = "list"
    /\ \/ /\ worker' = [worker EXCEPT !.listed = TRUE, !.known = remote,
                           !.retire = Orphans(remote),
                           !.pc = IF Orphans(remote) = {} THEN "events" ELSE "prune"]
          /\ NoFault
       \/ worker' = [worker EXCEPT !.pc = "events"] /\ Fault
    /\ UNCHANGED <<schedule, now, discord, removals, pings>>

\* a Discord event that was deleted, or is found gone, is no longer known
Prune(r) ==
    LET next == [worker EXCEPT !.retire = @ \ {r},
                               !.pc = IF worker.retire = {r} THEN "events" ELSE "prune"]
    IN
    /\ worker.pc = "prune" /\ r \in worker.retire
    /\ \/ Deleted(r) /\ worker' = [next EXCEPT !.known[r] = NoNative]
       \/ NotDeleted(r) /\ worker' = next
    /\ UNCHANGED <<schedule, now, issued, late, removals, pings>>

-----------------------------------------------------------------------------
(***************************************************************************)
(* The worker: one scheduled event after the other.                        *)
(***************************************************************************)

DoneEvent(w, e) == [w EXCEPT !.pc = "events", !.todo = @ \ {e}, !.event = NoEvent,
                         !.batch = {}, !.cur = 0, !.target = NoRemote, !.retire = {}]

Over(e) == CopiedSlots(e) # {} /\ \A s \in CopiedSlots(e) : Copied(s).at + Grace <= worker.now

\* mutant: no expected_revision
StillScheduled(e) == e \in Scheduled

\* the revision that the worker copied is still the event's
SameRevision(e) == /\ e \in Scheduled
                   /\ \A s \in CopiedSlots(e) : worker.copy[s].revision = event[e].revision

\* Complete an event that is over, unless it changed since it was copied, and
\* retire its Discord events among those listed; an error on the way leaves them
\* to the next cycle.
RollOver(e) ==
    LET found == {r \in Listed(worker.known) :
                     r \in NativesOf(SlotsOf(e)) \/ worker.known[r].event = e}
    IN
    /\ worker.pc = "events" /\ e \in worker.todo /\ Over(e)
    /\ \/ /\ SameRevision(e)
          /\ TransitionEvent(e, "completed")
          /\ \/ /\ worker' = IF found = {} THEN DoneEvent(worker, e)
                             ELSE [worker EXCEPT !.pc = "remove", !.event = e,
                                                 !.retire = found]
                /\ NoFault
             \/ Fault /\ worker' = DoneEvent(worker, e)
       \/ /\ ~SameRevision(e)
          /\ worker' = DoneEvent(worker, e)
          /\ UNCHANGED schedule /\ NoFault
    /\ UNCHANGED <<now, discord, removals, pings>>

RemoveMirror(r) ==
    /\ worker.pc = "remove" /\ r \in worker.retire
    /\ worker' = IF worker.retire = {r} THEN DoneEvent(worker, worker.event)
                 ELSE [worker EXCEPT !.retire = @ \ {r}]
    /\ Deleted(r) \/ NotDeleted(r)
    /\ UNCHANGED <<schedule, now, issued, late, removals, pings>>

\* the slots that are still to come
Future(e) == {s \in CopiedSlots(e) : Copied(s).at > worker.now}
Missing(e) == {s \in Future(e) : /\ Copied(s).native \notin Listed(worker.known)
                                 /\ MirrorsOf(worker.known, s) = {}}

\* native_event_reconciliation_batch: the missing ones first; the rest take turns,
\* by the clock
IsBatch(e, S) ==
    /\ S \subseteq Future(e)
    /\ S \subseteq Missing(e) \/ Missing(e) \subseteq S
    /\ Cardinality(S) <= BatchLimit
    /\ Cardinality(S) < BatchLimit => S = Future(e)

StartEvent(e) ==
    /\ worker.pc = "events" /\ e \in worker.todo /\ ~Over(e)
    /\ IF worker.listed
       THEN \E S \in SUBSET SlotIds :
               /\ IsBatch(e, S)
               /\ worker' = IF S = {} THEN DoneEvent(worker, e)
                            ELSE [worker EXCEPT !.pc = "sync", !.event = e, !.batch = S]
       ELSE worker' = DoneEvent(worker, e)
    /\ UNCHANGED <<schedule, now, discord, removals, pings, faults>>

-----------------------------------------------------------------------------
(***************************************************************************)
(* The worker: sync_native_event_slot.  The code keeps its list of Discord *)
(* events up to date on the way, but a cycle looks at a slot only once.    *)
(***************************************************************************)

\* current_native_event_slot: nothing of the slot or its event changed
Current(s) == /\ Active(s)
              /\ event[slot[s].event].revision = worker.copy[s].revision
              /\ slot[s].at = Copied(s).at
              /\ slot[s].native = Copied(s).native

\* mutant: the next slot begins where the last one ended
DoneSlotThere(w) ==
    IF w.batch \ {w.cur} = {} THEN DoneEvent(w, w.event)
    ELSE [w EXCEPT !.batch = @ \ {w.cur}]

\* the next slot of the batch, or the next event
DoneSlot(w) ==
    IF w.batch \ {w.cur} = {} THEN DoneEvent(w, w.event)
    ELSE [w EXCEPT !.pc = "sync", !.batch = @ \ {w.cur}, !.cur = 0, !.target = NoRemote]

\* mutant: any Discord event of the same schedule
MatchesEvent(s) == {r \in Listed(worker.known) : worker.known[r].event = Copied(s).event}

\* by the stored id, or else by the marker
Matches(s) == IF Copied(s).native \in Listed(worker.known) THEN {Copied(s).native}
              ELSE MirrorsOf(worker.known, s)

Shows(r, s) == worker.known[r].at = Copied(s).at /\ worker.known[r].slot = s

StoreNative(s, r) == slot' = [slot EXCEPT ![s].native = r]

\* what has started or changed is left alone, and so is all without permission
Skip(s) ==
    /\ worker.pc = "sync" /\ s \in worker.batch
    /\ IF Copied(s).at > now /\ Current(s) THEN Fault ELSE NoFault
    /\ worker' = DoneSlot([worker EXCEPT !.cur = s])
    /\ UNCHANGED <<schedule, now, discord, removals, pings>>

\* Replace a Discord event that has been started, edit one that shows something
\* else, create one where there is none.
Sync(s) ==
    LET at(pc, r) == [worker EXCEPT !.cur = s, !.pc = pc, !.target = r] IN
    /\ worker.pc = "sync" /\ s \in worker.batch
    /\ Copied(s).at > now /\ Current(s)
    /\ \/ /\ Matches(s) = {}
          /\ worker' = at("create", NoRemote)
          /\ UNCHANGED slot
       \/ \E r \in Matches(s) :
             IF worker.known[r].live = "started"
             THEN worker' = at("replace", r) /\ UNCHANGED slot
             ELSE IF ~Shows(r, s) THEN worker' = at("edit", r) /\ UNCHANGED slot
             ELSE worker' = DoneSlot(at("sync", r)) /\ StoreNative(s, r)
    /\ UNCHANGED <<event, made, now, discord, removals, pings, faults>>

\* an error, also that it is gone already, leaves the slot to the next cycle
ReplaceStarted ==
    LET r == worker.target IN
    /\ worker.pc = "replace"
    /\ \/ /\ remote[r] # NoNative
          /\ Deleted(r)
          /\ worker' = IF Current(worker.cur)
                       THEN [worker EXCEPT !.pc = "create", !.target = NoRemote]
                       ELSE DoneSlot(worker)
       \/ NotDeleted(r) /\ worker' = DoneSlot(worker)
       \/ remote[r] = NoNative /\ worker' = DoneSlot(worker) /\ UNCHANGED remote /\ NoFault
    /\ UNCHANGED <<schedule, now, issued, late, removals, pings>>

NativeFor(s) == [event |-> Copied(s).event, slot |-> s, at |-> Copied(s).at,
                 live |-> "scheduled"]

Make(n) ==
    /\ issued < MaxRemotes
    /\ issued' = issued + 1
    /\ remote' = [remote EXCEPT ![issued + 1] = n]

\* create_scheduled_event: done, or given up, and then it may still happen
CreateNative ==
    LET n == NativeFor(worker.cur) IN
    /\ worker.pc = "create"
    /\ \/ /\ Make(n)
          /\ worker' = [worker EXCEPT !.pc = "answer", !.target = issued + 1]
          /\ UNCHANGED late /\ NoFault
       \/ /\ Fault
          /\ late' \in {late, late \union {n}}
          /\ worker' = DoneSlot(worker)
          /\ UNCHANGED <<remote, issued>>
    /\ UNCHANGED <<schedule, now, removals, pings>>

EditNative ==
    LET r == worker.target IN
    /\ worker.pc = "edit"
    /\ \/ /\ remote[r] # NoNative
          /\ remote' = [remote EXCEPT ![r] = NativeFor(worker.cur)]
          /\ worker' = [worker EXCEPT !.pc = "answer"]
          /\ NoFault
       \/ /\ IF remote[r] = NoNative THEN NoFault ELSE Fault
          /\ worker' = DoneSlot(worker)
          /\ UNCHANGED remote
    /\ UNCHANGED <<schedule, now, issued, late, removals, pings>>

\* The answer: store the id, unless the schedule changed meanwhile; or no answer.
Answer ==
    LET s == worker.cur IN
    /\ worker.pc = "answer"
    /\ \/ /\ Current(s)
          /\ StoreNative(s, worker.target)
          /\ worker' = DoneSlot(worker)
          /\ NoFault
       \/ /\ ~Current(s)
          /\ worker' = [worker EXCEPT !.pc = "discard"]
          /\ UNCHANGED slot /\ NoFault
       \/ worker' = DoneSlot(worker) /\ UNCHANGED slot /\ Fault
    /\ UNCHANGED <<event, made, now, discord, removals, pings>>

\* discard_stale_native_event
Discard ==
    LET r == worker.target IN
    /\ worker.pc = "discard"
    /\ Deleted(r) \/ NotDeleted(r)
    /\ worker' = DoneSlot(worker)
    /\ UNCHANGED <<schedule, now, issued, late, removals, pings>>

-----------------------------------------------------------------------------
(***************************************************************************)
(* The worker: reminders.                                                  *)
(***************************************************************************)

\* due_reminders: the last stage that has come, until shortly after the start
IsDue(s, g) == /\ Active(s) /\ g \notin slot[s].stages
               /\ worker.now <= slot[s].at + StartGrace
               /\ worker.now + Leads[g] >= slot[s].at
               /\ \A h \in Stages : h > g => worker.now + Leads[h] < slot[s].at

DueReminders ==
    {[slot |-> p[1], event |-> slot[p[1]].event, at |-> slot[p[1]].at, stage |-> p[2],
      round |-> 0] : p \in {q \in SlotIds \X Stages : IsDue(q[1], q[2])}}

StartReminders ==
    /\ worker.pc = "events" /\ worker.todo = {}
    /\ worker' = IF DueReminders = {} THEN Idle
                 ELSE [Idle EXCEPT !.pc = "reminders", !.now = worker.now,
                                   !.due = DueReminders]
    /\ UNCHANGED <<schedule, now, discord, removals, pings, faults>>

DoneReminder(d) ==
    IF worker.due \subseteq {d} THEN Idle
    ELSE [worker EXCEPT !.pc = "reminders", !.due = @ \ {d}, !.ping = NoReminder]

\* mutant: the time is not compared
SameEvent(d) == slot[d.slot].event = d.event

\* claim_reminder finds the slot only with the time that was announced
SameTime(d) == slot[d.slot].event = d.event /\ slot[d.slot].at = d.at

\* mutant: the earlier stages only
EarlierStages(g) == 1..(g - 1)

\* a late stage stands for the earlier ones
StagesThrough(g) == 1..g

\* The role and the channel are looked up, then the stage is claimed and the
\* reminder sent; what is not claimed is dropped until the next cycle.
ClaimReminder(d) ==
    /\ worker.pc = "reminders" /\ d \in worker.due
    /\ \/ /\ RoleUsable
          /\ SameTime(d) /\ Active(d.slot) /\ d.stage \notin slot[d.slot].stages
          /\ slot' = [slot EXCEPT ![d.slot].stages = @ \union StagesThrough(d.stage)]
          /\ worker' = [worker EXCEPT !.pc = "send", !.ping = [d EXCEPT !.round = pings[d.slot].round]]
          /\ NoFault
       \/ /\ \/ NoFault /\ ~(RoleUsable /\ SameTime(d) /\ Active(d.slot)
                             /\ d.stage \notin slot[d.slot].stages)
             \/ RoleUsable /\ Fault
          /\ worker' = DoneReminder(d)
          /\ UNCHANGED slot
    /\ UNCHANGED <<event, made, now, discord, removals, pings>>

\* delivered, or an error with or without delivery
SendReminder ==
    LET d == worker.ping
        sent == IF pings[d.slot].round = d.round
                THEN [pings EXCEPT ![d.slot].sent[d.stage] = @ + 1] ELSE pings
    IN
    /\ worker.pc = "send"
    /\ \/ pings' = sent /\ NoFault
       \/ pings' \in {pings, sent} /\ Fault
    /\ worker' = DoneReminder([d EXCEPT !.round = 0])
    /\ UNCHANGED <<schedule, now, discord, removals>>

-----------------------------------------------------------------------------
\* a kill or a stop: a create that was under way may still happen
Restart ==
    /\ Fault
    /\ worker' = Idle
    /\ removals' = {}
    /\ late' \in IF worker.pc = "create" THEN {late, late \union {NativeFor(worker.cur)}}
                                         ELSE {late}
    /\ UNCHANGED <<schedule, now, remote, issued, pings>>

\* Outside: an abandoned create happens; members delete, edit or start an event.
LateCreate(n) ==
    /\ n \in late
    /\ late' = late \ {n}
    /\ Make(n)
    /\ UNCHANGED <<schedule, now, removals, worker, pings, faults>>

Member(r) ==
    /\ r \in Listed(remote)
    /\ Fault
    /\ \/ Gone(r)
       \/ remote' = [remote EXCEPT ![r].at = 0]
       \/ remote' = [remote EXCEPT ![r].live = "started"]
    /\ UNCHANGED <<schedule, now, issued, late, removals, worker, pings>>

Tick ==
    /\ now < MaxTime
    /\ now' = now + 1
    /\ UNCHANGED <<schedule, discord, removals, worker, pings, faults>>

Command(e) == Create(e) \/ Schedule(e) \/ Reschedule(e) \/ Reopen(e) \/ Archive(e)
              \/ Transition(e, "completed") \/ Transition(e, "cancelled")
Retire(m) == ListRetired(m) \/ \E r \in Remotes : DeleteRetired(m, r)

Work == \/ Begin \/ List
        \/ \E r \in Remotes : Prune(r) \/ RemoveMirror(r)
        \/ \E e \in Events : RollOver(e) \/ StartEvent(e)
        \/ \E s \in SlotIds : Skip(s) \/ Sync(s)
        \/ ReplaceStarted \/ CreateNative \/ EditNative \/ Answer \/ Discard
        \/ StartReminders \/ (\E d \in worker.due : ClaimReminder(d)) \/ SendReminder

Next ==
    \/ \E e \in Events : Command(e)
    \/ Clear
    \/ \E m \in removals : Retire(m)
    \/ Work
    \/ Restart \/ Tick
    \/ \E n \in late : LateCreate(n)
    \/ \E r \in Remotes : Member(r)

Spec == Init /\ [][Next]_vars

\* tasks.loop starts the next cycle when one is over, and a cycle's calls return
FairSpec == Spec /\ WF_vars(Work)

-----------------------------------------------------------------------------
(***************************************************************************)
(* Properties.                                                             *)
(***************************************************************************)

TypeOK ==
    /\ event \in [Events -> EventRow]
    /\ slot \in [SlotIds -> SlotRow]
    /\ made \in SlotIds \union {0} /\ issued \in Remotes \union {0}
    /\ remote \in [Remotes -> Native]
    /\ late \subseteq Native
    /\ \A m \in removals : m \in Removal
    /\ DOMAIN worker = DOMAIN Idle
    /\ worker.pc \in {"sync", "replace", "create", "edit", "answer", "discard"} =>
          /\ worker.event \in Events /\ worker.batch \subseteq CopiedSlots(worker.event)
          /\ worker.pc # "sync" => worker.cur \in worker.batch
    /\ worker.pc \in {"replace", "edit", "answer", "discard"} => worker.target \in Remotes
    /\ pings \in [SlotIds -> Pings]

\* A stored native id names a Discord event that was made for this very slot.
StoredNativeIsOurs ==
    \A s \in SlotIds : slot[s].native # NoRemote =>
        remote[slot[s].native] = NoNative \/ remote[slot[s].native].slot = s

\* A stage of a slot's present time is delivered at most once, across failed
\* sends, overlapping changes and restarts.
PingOnce == \A s \in SlotIds : \A g \in Stages : pings[s].sent[g] <= 1

\* A stage is only ever used up within its window of the time that the slot has
\* now: a stale list of reminders cannot consume those of a moved slot.
StageIsDue ==
    [][\A s \in SlotIds : \A g \in slot'[s].stages \ slot[s].stages :
          worker.now + Leads[g] >= slot[s].at /\ worker.now <= slot[s].at + StartGrace]_vars

\* The worker completes an event only when the schedule that it has now is over,
\* though it decides on a copy.
CompletedWhenOver ==
    [][\A e \in Events :
          worker' # worker /\ event[e].status = "scheduled"
          /\ event'[e].status = "completed" => Elapsed(e, now)]_vars

\* The removal after a command deletes only what belongs to retired slots, even
\* when the event was scheduled again before the removal got its list.
RemovalSparesPlanned ==
    [][\A r \in Remotes :
          removals' # removals /\ remote[r] # NoNative /\ remote'[r] = NoNative =>
             ~Active(remote[r].slot)]_vars

\* Pruning never deletes the Discord event that an active slot has stored.
PruneSparesStored ==
    [][\A r \in worker.retire :
          worker.pc = "prune" /\ remote[r] # NoNative /\ remote'[r] = NoNative
          /\ worker' # worker =>
             \A s \in SlotIds : Active(s) => slot[s].native # r]_vars

\* What a worker decides from a copy is still right when it writes.
DecisionsAreFresh == StageIsDue /\ CompletedWhenOver

\* Neither clean-up path deletes the Discord event of a slot to come.
CleanupSpares == RemovalSparesPlanned /\ PruneSparesStored

\* The rows and Discord's events are well formed and name each other.
NativeInv == TypeOK /\ StoredNativeIsOurs

\* Discord's events agree with the schedule: one for each slot to come, stored
\* and showing its time, and none for a slot that was retired.
Mirrored ==
    /\ \A s \in SlotIds : Active(s) /\ slot[s].at > now =>
          \E r \in Remotes : /\ MirrorsOf(remote, s) = {r}
                             /\ slot[s].native = r
                             /\ remote[r] = [event |-> slot[s].event, slot |-> s,
                                             at |-> slot[s].at, live |-> "scheduled"]
    /\ \A r \in Listed(remote) : Active(remote[r].slot)

\* However commands, failures, restarts and members interfere, Discord's events
\* agree with the schedule in the end.
Converges == <>[]Mirrored

\* An event that is over is completed in the end.
RollsOver ==
    \A e \in Events : e \in Scheduled /\ Elapsed(e, now) ~> e \notin Scheduled \/ ~Elapsed(e, now)

\* The worker settles every event: Discord shows what is to come, and what is over is
\* completed.
EventsSettle == Converges /\ RollsOver

=============================================================================
