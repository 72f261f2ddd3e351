------------------------- MODULE EventWorkerProofs -------------------------
(***************************************************************************)
(* Proofs about EventWorker, for any number of events, slots, Discord      *)
(* events, failures and restarts: a stored id names a Discord event of     *)
(* this very slot, a stage is announced once and within its window, the    *)
(* worker completes only what is over now, and neither clean-up deletes    *)
(* what is still to come.                                                  *)
(*                                                                         *)
(* The worker and the removals act on copies.  The inductive invariant     *)
(* says what such a copy still says about the rows and about Discord while *)
(* commands, members, late creates and restarts change them.               *)
(***************************************************************************)
EXTENDS EventWorker, TLAPS

-----------------------------------------------------------------------------
(***************************************************************************)
(* The inductive invariant.                                                *)
(***************************************************************************)

\* A slot that was handed out belongs to a scheduled event or to one that is over.
ScheduleShape ==
    /\ now \in Nat
    /\ \A e \in Events : event[e].status \in {"none", "open"} => SlotsOf(e) = {}
    /\ \A s \in SlotIds : slot[s].event # NoEvent => s <= made

\* The Discord event r, as long as there is one, is the slot's.
Ours(r, s) == r <= issued /\ (remote[r] = NoNative \/ remote[r].slot = s)

\* What is or may be made at Discord was made for a slot that was handed out, and that
\* has been of no other event.
Belongs(n) == /\ n.event \in Events /\ n.slot \in SlotIds /\ n.slot <= made
              /\ slot[n.slot].event \in {n.event, NoEvent}

DiscordShape ==
    /\ \A r \in Remotes : remote[r] # NoNative => r <= issued /\ Belongs(remote[r])
    /\ \A n \in late : Belongs(n)
    /\ \A s \in SlotIds : slot[s].native # NoRemote => Ours(slot[s].native, s)

\* The copied rows of e say when its slots are, as long as its revision is the copied one.
StillSays(e) ==
    \A t \in SlotIds : /\ slot[t].event = e <=> worker.copy[t].row.event = e
                       /\ slot[t].event = e => slot[t].at = worker.copy[t].row.at

CopyShape ==
    \A s \in SlotIds :
        LET c == worker.copy[s]
            e == c.row.event
        IN  /\ c.row.native # NoRemote => Ours(c.row.native, s)
            /\ e # NoEvent => /\ s <= made /\ slot[s].event \in {e, NoEvent}
                              /\ c.revision <= event[e].revision
                              /\ c.revision = event[e].revision => StillSays(e)

KnownShape == \A r \in Remotes : worker.known[r] # NoNative => Ours(r, worker.known[r].slot)

\* While the worker lists and prunes nobody stores a Discord event, so that the copy names
\* what the slots have stored; and what is pruned is not stored.
CopyNames(s) == worker.copy[s].row.event # NoEvent /\ worker.copy[s].row.native = slot[s].native

PruneShape ==
    \A s \in SlotIds : slot[s].event \in Scheduled /\ slot[s].native # NoRemote =>
        /\ worker.pc = "list" => CopyNames(s)
        /\ worker.pc = "prune" => slot[s].native \notin worker.retire

WorkShape ==
    /\ worker \in Cycle /\ worker.now <= now
    /\ worker.pc \in {"replace", "edit", "answer", "discard"} => Ours(worker.target, worker.cur)

\* The slots that a removal is for are never planned again.
Retired(s) == s <= made /\ (\/ slot[s].event = NoEvent
                            \/ event[slot[s].event].status \in {"completed", "cancelled"})

RemovalOK(m) ==
    /\ \A r \in m.ids : r <= issued /\ (remote[r] = NoNative \/ Retired(remote[r].slot))
    /\ m.pc = "list" => \/ event[m.event].status \in {"completed", "cancelled"}
                        \/ \A s \in m.slots : s <= made /\ slot[s].event = NoEvent

RemovalShape == \A m \in removals : RemovalOK(m)

\* A reminder on the worker's list was due for the time it names.
DueShape ==
    \A d \in worker.due : d.slot <= made /\ worker.now + Leads[d.stage] >= d.at
                                         /\ worker.now <= d.at + StartGrace

\* A stage that is not used up was not sent, and the one that is claimed was not sent yet.
PingShape ==
    /\ \A s \in SlotIds : \A g \in Stages :
          /\ pings[s].sent[g] <= 1
          /\ s > made \/ (slot[s].event # NoEvent /\ g \notin slot[s].stages) =>
                pings[s].sent[g] = 0
    /\ worker.pc = "send" =>
          LET d == worker.ping IN
          /\ d \in Reminder /\ d.slot <= made /\ d.round <= pings[d.slot].round
          /\ d.round = pings[d.slot].round =>
                /\ pings[d.slot].sent[d.stage] = 0
                /\ slot[d.slot].event # NoEvent => d.stage \in slot[d.slot].stages

WorkerIInv ==
    /\ TypeOK /\ ScheduleShape /\ DiscordShape
    /\ WorkShape /\ CopyShape /\ KnownShape /\ PruneShape
    /\ RemovalShape /\ DueShape /\ PingShape

-----------------------------------------------------------------------------
(***************************************************************************)
(* The invariant by sides: what is stored and at Discord, the worker's     *)
(* cycle, the removals, the announcements.                                 *)
(***************************************************************************)

\* What the worker is at, and for which slot.
AtSlot == {"replace", "edit", "answer", "discard"}

InBatch(w) ==
    /\ w.pc \in {"sync", "replace", "create", "edit", "answer", "discard"} =>
          /\ w.event \in Events /\ w.batch \subseteq {s \in SlotIds : w.copy[s].row.event = w.event}
          /\ w.pc # "sync" => w.cur \in w.batch
    /\ w.pc \in AtSlot => w.target \in Remotes

Rows ==
    /\ event \in [Events -> EventRow] /\ slot \in [SlotIds -> SlotRow]
    /\ made \in SlotIds \union {0} /\ issued \in Remotes \union {0}
    /\ remote \in [Remotes -> Native] /\ late \subseteq Native
    /\ ScheduleShape /\ DiscordShape

Working == WorkShape /\ InBatch(worker) /\ CopyShape /\ KnownShape /\ PruneShape /\ DueShape
Removing == \A m \in removals : m \in Removal /\ RemovalOK(m)
Pinging == pings \in [SlotIds -> Pings] /\ PingShape

\* A cycle has the fields of Idle.
LEMMA CycleDomain == ASSUME NEW w \in Cycle PROVE DOMAIN w = DOMAIN Idle
BY DEF Cycle, Idle

\* Together they are the invariant.
LEMMA Parts == WorkerIInv <=> Rows /\ Working /\ Removing /\ Pinging
<1>1. WorkShape => DOMAIN worker = DOMAIN Idle
  BY CycleDomain DEF WorkShape
<1>2. QED BY <1>1 DEF WorkerIInv, TypeOK, Rows, Working, Removing, Pinging, InBatch, AtSlot,
                      CopiedSlots, Copied, RemovalShape

\* Ids and revisions are numbers.
LEMMA Numbers ==
    ASSUME Rows
    PROVE  /\ made \in Nat /\ issued \in Nat /\ now \in Nat /\ SlotIds \subseteq Nat
           /\ Remotes \subseteq Nat \ {NoRemote} /\ NoEvent \notin Events
           /\ \A e \in Events : event[e].revision \in Nat /\ event[e] \in EventRow
           /\ \A s \in SlotIds : slot[s] \in SlotRow
<1>1. SlotIds \subseteq Nat /\ Remotes \subseteq Nat \ {NoRemote}
  BY DEF SlotIds, Remotes, NoRemote
<1>2. QED BY <1>1, ScheduleAssumption DEF Rows, ScheduleShape, EventRow

-----------------------------------------------------------------------------
(***************************************************************************)
(* What every step does to what is stored: nothing is handed out twice,    *)
(* what is over stays so, and a change of the times is a new revision.     *)
(***************************************************************************)

SlotKept(s) == s <= made => slot'[s].event \in {slot[s].event, NoEvent}
NativeKept(r) == r <= issued =>
    remote'[r] = NoNative \/ (remote[r] # NoNative /\ remote'[r].slot = remote[r].slot)
EventKept(e) ==
    /\ event[e].status \in {"completed", "cancelled"} =>
          event'[e].status \in {"completed", "cancelled"}
    /\ event[e].revision <= event'[e].revision
    /\ event'[e].revision = event[e].revision =>
          \A s \in SlotIds : /\ slot'[s].event = e <=> slot[s].event = e
                             /\ slot[s].event = e => slot'[s].at = slot[s].at

Stable ==
    /\ made <= made' /\ issued <= issued' /\ now <= now'
    /\ \A s \in SlotIds : SlotKept(s)
    /\ \A r \in Remotes : NativeKept(r)
    /\ \A e \in Events : EventKept(e)

\* A step that is sound for the rows.
Sound == Rows' /\ Stable

\* Nobody else stores a Discord event or uses a stage up.
NamesKept ==
    \A s \in SlotIds : slot'[s].event \in Scheduled' /\ slot'[s].native # NoRemote =>
                          slot[s].event \in Scheduled /\ slot'[s].native = slot[s].native
StagesKept ==
    \A s \in SlotIds : s <= made /\ slot'[s].event # NoEvent => slot[s].stages \subseteq slot'[s].stages

\* The Discord event of a slot stays the slot's.
LEMMA OursKept ==
    ASSUME Rows, Sound, NEW r \in Remotes, NEW s, Ours(r, s) PROVE Ours(r, s)'
<1>1. r \in Nat /\ issued \in Nat /\ issued' \in Nat
  <2>1. Remotes \subseteq Nat
    BY Numbers
  <2>2. QED BY <2>1, Numbers, Numbers DEF Sound, Rows, Remotes
<1>2. QED BY <1>1 DEF Ours, Sound, Stable, NativeKept

\* What belongs to a slot goes on to.
LEMMA BelongsKept ==
    ASSUME Rows, Sound, NEW n, Belongs(n) PROVE Belongs(n)'
<1>1. n.slot \in Nat /\ made \in Nat /\ made' \in Nat /\ made <= made'
  BY Numbers DEF Belongs, Sound, Stable, Rows, SlotIds
<1>2. QED BY <1>1 DEF Belongs, Sound, Stable, SlotKept

\* A slot that is retired stays retired.
LEMMA RetiredKept ==
    ASSUME Rows, Sound, NEW s \in SlotIds, Retired(s) PROVE Retired(s)'
<1>1. s \in Nat /\ made \in Nat /\ made' \in Nat /\ made <= made' /\ s <= made
  BY Numbers DEF Retired, Sound, Stable, Rows, SlotIds
<1>2. slot'[s].event \in {slot[s].event, NoEvent}
  BY <1>1 DEF Sound, Stable, SlotKept
<1>3. slot[s].event # NoEvent => slot[s].event \in Events
  BY DEF Rows, SlotRow
<1>4. QED BY <1>1, <1>2, <1>3 DEF Retired, Sound, Stable, EventKept

\* A removal stays right.
LEMMA RemovalKept ==
    ASSUME Rows, Sound, NEW m \in Removal, RemovalOK(m) PROVE RemovalOK(m)'
<1>1. m.event \in Events /\ m.ids \subseteq Remotes /\ m.slots \subseteq SlotIds
  BY DEF Removal
<1>2. /\ made \in Nat /\ made' \in Nat /\ issued \in Nat /\ issued' \in Nat /\ made <= made'
      /\ issued <= issued' /\ SlotIds \subseteq Nat /\ Remotes \subseteq Nat
  BY Numbers DEF Sound, Stable, Rows, SlotIds, Remotes
<1>3. ASSUME NEW r \in m.ids
      PROVE  r <= issued' /\ (remote'[r] = NoNative \/ \E s \in SlotIds :
                                 s = remote'[r].slot /\ Retired(s)')
  <2>1. /\ r \in Remotes /\ r \in Nat /\ r <= issued
        /\ remote[r] = NoNative \/ Retired(remote[r].slot)
    BY <1>1, <1>2 DEF RemovalOK
  <2>2. remote'[r] = NoNative \/ (remote[r] # NoNative /\ remote'[r].slot = remote[r].slot)
    BY <2>1 DEF Sound, Stable, NativeKept
  <2>3. r <= issued'
    BY <1>2, <2>1
  <2>4. CASE remote'[r] # NoNative
    <3>1. PICK s : s = remote[r].slot
      OBVIOUS
    <3>2. Retired(s) /\ s \in SlotIds
      BY <2>1, <2>2, <2>4, <3>1 DEF Rows, DiscordShape, Belongs
    <3>3. Retired(s)'
      BY <3>2, RetiredKept
    <3>4. QED BY <2>2, <2>3, <2>4, <3>1, <3>2, <3>3
  <2>5. QED BY <2>3, <2>4
<1>4. ASSUME m.pc = "list"
      PROVE  \/ event'[m.event].status \in {"completed", "cancelled"}
             \/ \A s \in m.slots : s <= made' /\ slot'[s].event = NoEvent
  <2>1. CASE event[m.event].status \in {"completed", "cancelled"}
    BY <1>1, <2>1 DEF Sound, Stable, EventKept
  <2>2. CASE \A s \in m.slots : s <= made /\ slot[s].event = NoEvent
    <3>1. ASSUME NEW s \in m.slots PROVE s <= made' /\ slot'[s].event = NoEvent
      <4>1. s \in SlotIds /\ s <= made /\ slot[s].event = NoEvent
        BY <1>1, <2>2
      <4>2. slot'[s].event = NoEvent
        BY <4>1 DEF Sound, Stable, SlotKept
      <4>3. s \in Nat
        BY <1>2, <4>1
      <4>4. QED BY <1>2, <4>1, <4>2, <4>3
    <3>2. QED BY <3>1
  <2>3. QED BY <1>4, <2>1, <2>2 DEF RemovalOK
<1>5. QED BY <1>3, <1>4 DEF RemovalOK, Retired

\* So a step that starts no removal keeps them all right.
LEMMA RemovalsKept ==
    ASSUME Rows, Sound, Removing, removals' \subseteq removals PROVE Removing'
<1>1. ASSUME NEW m \in removals' PROVE m \in Removal /\ RemovalOK(m)'
  BY <1>1, RemovalKept DEF Removing
<1>2. QED BY <1>1 DEF Removing

-----------------------------------------------------------------------------
(***************************************************************************)
(* What a step leaves of the worker's cycle.                               *)
(***************************************************************************)

\* The copy says what it said.
LEMMA CopyKept ==
    ASSUME Rows, Sound, worker \in Cycle, CopyShape, worker'.copy = worker.copy
    PROVE  CopyShape'
<1>1. ASSUME NEW s \in SlotIds, NEW c, c = worker.copy[s]
      PROVE  /\ c.row.native # NoRemote => Ours(c.row.native, s)'
             /\ c.row.event # NoEvent =>
                   /\ s <= made' /\ slot'[s].event \in {c.row.event, NoEvent}
                   /\ c.revision <= event'[c.row.event].revision
                   /\ c.revision = event'[c.row.event].revision => StillSays(c.row.event)'
  <2>1. c \in Copy /\ c.row \in SlotRow /\ c.revision \in Nat
    BY <1>1 DEF Cycle, Copy
  <2>2. c.row.native # NoRemote => Ours(c.row.native, s)'
    <3>1. c.row.native # NoRemote => c.row.native \in Remotes /\ Ours(c.row.native, s)
      BY <1>1, <2>1 DEF SlotRow, CopyShape
    <3>2. QED BY <3>1, OursKept
  <2>3. ASSUME NEW e \in Events, e = c.row.event
        PROVE  /\ s <= made' /\ slot'[s].event \in {e, NoEvent}
               /\ c.revision <= event'[e].revision
               /\ c.revision = event'[e].revision => StillSays(e)'
    <3>1. /\ s <= made /\ slot[s].event \in {e, NoEvent} /\ c.revision <= event[e].revision
          /\ c.revision = event[e].revision => StillSays(e)
          /\ e # NoEvent
      BY <1>1, <2>3, Numbers DEF CopyShape
    <3>2. /\ made \in Nat /\ made' \in Nat /\ made <= made' /\ s \in Nat
          /\ event[e].revision \in Nat /\ event'[e].revision \in Nat
          /\ event[e].revision <= event'[e].revision
      BY Numbers DEF Sound, Stable, EventKept, Rows, EventRow, SlotIds
    <3>3. slot'[s].event \in {e, NoEvent}
      BY <3>1 DEF Sound, Stable, SlotKept
    <3>4. ASSUME c.revision = event'[e].revision PROVE StillSays(e)'
      <4>1. event'[e].revision = event[e].revision /\ StillSays(e)
        BY <2>1, <3>1, <3>2, <3>4
      <4>2. \A t \in SlotIds : /\ slot'[t].event = e <=> slot[t].event = e
                               /\ slot[t].event = e => slot'[t].at = slot[t].at
        BY <4>1 DEF Sound, Stable, EventKept
      <4>3. QED BY <4>1, <4>2 DEF StillSays
    <3>5. QED BY <2>1, <3>1, <3>2, <3>3, <3>4
  <2>4. c.row.event # NoEvent => c.row.event \in Events
    BY <2>1 DEF SlotRow
  <2>5. QED BY <2>2, <2>3, <2>4
<1>2. QED BY <1>1 DEF CopyShape

\* And so does the listing, from which the worker may strike something.
LEMMA KnownKept ==
    ASSUME Rows, Sound, KnownShape, \A r \in Remotes : worker'.known[r] \in {worker.known[r], NoNative}
    PROVE  KnownShape'
<1>1. ASSUME NEW r \in Remotes, NEW n, n = worker'.known[r], n # NoNative PROVE Ours(r, n.slot)'
  <2>1. Ours(r, n.slot)
    BY <1>1 DEF KnownShape
  <2>2. QED BY <2>1, OursKept
<1>2. QED BY <1>1 DEF KnownShape

\* And the reminders that are due.
LEMMA DueKept ==
    ASSUME Rows, Sound, worker \in Cycle, DueShape,
           worker'.due \subseteq worker.due, worker'.now = worker.now
    PROVE  DueShape'
<1>1. ASSUME NEW d \in worker'.due
      PROVE  d.slot <= made' /\ worker.now + Leads[d.stage] >= d.at
                             /\ worker.now <= d.at + StartGrace
  <2>1. d \in worker.due /\ d \in Reminder
    BY <1>1 DEF Cycle
  <2>2. /\ d.slot <= made /\ worker.now + Leads[d.stage] >= d.at
        /\ worker.now <= d.at + StartGrace
    BY <2>1 DEF DueShape
  <2>3. d.slot \in Nat /\ made \in Nat /\ made' \in Nat /\ made <= made'
    BY <2>1, Numbers DEF Reminder, Sound, Stable, Rows, SlotIds
  <2>4. QED BY <2>2, <2>3
<1>2. QED BY <1>1 DEF DueShape

\* A worker that goes on with its cycle, at what it may be at.
Follows ==
    LET w == worker' IN
    /\ w \in Cycle /\ InBatch(w)
    /\ w.now = worker.now /\ w.copy = worker.copy /\ w.due \subseteq worker.due
    /\ \A r \in Remotes : w.known[r] \in {worker.known[r], NoNative}
    /\ w.pc # "list" /\ (w.pc = "prune" => worker.pc = "prune" /\ w.retire \subseteq worker.retire)

LEMMA WorkerFollows ==
    ASSUME Rows, Sound, Working, Follows,
           worker'.pc = "prune" => NamesKept,
           (worker.pc \in AtSlot => Ours(worker.target, worker.cur))'
    PROVE  Working'
<1>1. /\ worker \in Cycle /\ worker' \in Cycle /\ InBatch(worker)'
      /\ CopyShape /\ KnownShape /\ PruneShape /\ DueShape /\ worker.now <= now
  BY DEF Working, WorkShape, Follows, InBatch
<1>2. WorkShape'
  <2>1. worker'.now <= now'
    <3>1. worker.now \in Nat /\ now \in Nat /\ now' \in Nat /\ now <= now' /\ worker'.now = worker.now
      BY <1>1, Numbers DEF Cycle, Sound, Stable, Rows, ScheduleShape, Follows
    <3>2. QED BY <1>1, <3>1
  <2>2. QED BY <1>1, <2>1 DEF WorkShape, AtSlot
<1>3. CopyShape' /\ KnownShape' /\ DueShape'
  BY <1>1, CopyKept, KnownKept, DueKept DEF Follows
<1>4. PruneShape'
  BY <1>1 DEF PruneShape, Follows, NamesKept
<1>5. QED BY <1>1, <1>2, <1>3, <1>4 DEF Working

\* A worker that somebody else's step leaves alone.
LEMMA WorkerKept ==
    ASSUME Rows, Sound, NamesKept, Working, UNCHANGED worker PROVE Working'
<1>1. /\ worker \in Cycle /\ CopyShape /\ KnownShape /\ PruneShape /\ DueShape
      /\ worker.now <= now /\ InBatch(worker)
      /\ worker.pc \in AtSlot => Ours(worker.target, worker.cur) /\ worker.target \in Remotes
  BY DEF Working, WorkShape, InBatch, AtSlot
<1>2. WorkShape'
  <2>1. worker'.now <= now'
    <3>1. worker.now \in Nat /\ now \in Nat /\ now' \in Nat /\ now <= now' /\ worker'.now = worker.now
      BY <1>1, Numbers DEF Cycle, Sound, Stable, Rows, ScheduleShape
    <3>2. QED BY <1>1, <3>1
  <2>2. PICK t, c : t = worker.target /\ c = worker.cur
    OBVIOUS
  <2>3. worker.pc \in AtSlot => Ours(t, c)'
    BY <1>1, <2>2, OursKept
  <2>4. QED BY <1>1, <2>1, <2>2, <2>3 DEF WorkShape, AtSlot, Ours
<1>3. CopyShape' /\ KnownShape' /\ DueShape'
  BY <1>1, CopyKept, KnownKept, DueKept
<1>4. PruneShape'
  BY <1>1 DEF PruneShape, NamesKept, CopyNames
<1>5. InBatch(worker)'
  BY <1>1 DEF InBatch
<1>6. QED BY <1>1, <1>2, <1>3, <1>4, <1>5 DEF Working

\* The worker at rest.
LEMMA IdleCycle ==
    /\ Idle \in Cycle /\ Idle.pc = "idle" /\ Idle.now = 0 /\ Idle.due = {}
    /\ \A s \in SlotIds : Idle.copy[s].row = NoSlot /\ Idle.copy[s].revision = 0
    /\ \A r \in Remotes : Idle.known[r] = NoNative
    /\ NoSlot \in SlotRow /\ NoSlot.event = NoEvent /\ NoSlot.native = NoRemote
<1>1. NoSlot \in SlotRow /\ NoSlot.event = NoEvent /\ NoSlot.native = NoRemote
  BY DEF NoSlot, SlotRow
<1>2. NoNative \in Native
  BY DEF NoNative, Native
<1>3. [row |-> NoSlot, revision |-> 0] \in Copy
  BY <1>1 DEF Copy
<1>4. [s \in SlotIds |-> [row |-> NoSlot, revision |-> 0]] \in [SlotIds -> Copy]
  BY <1>3
<1>5. [r \in Remotes |-> NoNative] \in [Remotes -> Native]
  BY <1>2
<1>6. Idle \in Cycle
  BY <1>4, <1>5 DEF Idle, Cycle
<1>7. QED BY <1>1, <1>6 DEF Idle

LEMMA WorkerRests ==
    ASSUME Rows, Sound, worker' = Idle PROVE Working'
<1>1. /\ worker' \in Cycle /\ worker'.pc = "idle" /\ worker'.now = 0 /\ worker'.due = {}
      /\ \A s \in SlotIds : worker'.copy[s].row = NoSlot
      /\ \A r \in Remotes : worker'.known[r] = NoNative
      /\ NoSlot.event = NoEvent /\ NoSlot.native = NoRemote /\ now' \in Nat
  BY IdleCycle DEF Sound, Rows, ScheduleShape
<1>2. QED BY <1>1 DEF Working, WorkShape, InBatch, CopyShape, KnownShape, PruneShape, DueShape,
                      AtSlot

-----------------------------------------------------------------------------
(***************************************************************************)
(* What a step leaves of the announcements.                                *)
(***************************************************************************)

\* A step that announces nothing and uses no stage up.
LEMMA PingsKept ==
    ASSUME Rows, Sound, StagesKept, Pinging, UNCHANGED pings,
           worker'.pc = "send" => UNCHANGED <<worker.pc, worker.ping>>
    PROVE  Pinging'
<1>1. /\ SlotIds \subseteq Nat /\ made \in Nat /\ made' \in Nat /\ made <= made'
      /\ \A s \in SlotIds : SlotKept(s)
  BY Numbers DEF Sound, Stable, Rows, SlotIds
<1>2. ASSUME NEW s \in SlotIds, NEW g \in Stages,
             s > made' \/ (slot'[s].event # NoEvent /\ g \notin slot'[s].stages)
      PROVE  s > made \/ (slot[s].event # NoEvent /\ g \notin slot[s].stages)
  BY <1>1, <1>2 DEF SlotKept, StagesKept
<1>3. ASSUME worker'.pc = "send", NEW d, d = worker'.ping
      PROVE  /\ d \in Reminder /\ d.slot <= made' /\ d.round <= pings[d.slot].round
             /\ d.round = pings[d.slot].round =>
                   /\ pings[d.slot].sent[d.stage] = 0
                   /\ slot'[d.slot].event # NoEvent => d.stage \in slot'[d.slot].stages
  <2>1. /\ d \in Reminder /\ d.slot <= made /\ d.round <= pings[d.slot].round
        /\ d.round = pings[d.slot].round =>
              /\ pings[d.slot].sent[d.stage] = 0
              /\ slot[d.slot].event # NoEvent => d.stage \in slot[d.slot].stages
    BY <1>3 DEF Pinging, PingShape
  <2>2. d.slot \in SlotIds /\ d.slot \in Nat
    BY <1>1, <2>1 DEF Reminder
  <2>3. slot'[d.slot].event # NoEvent =>
           slot[d.slot].event # NoEvent /\ slot[d.slot].stages \subseteq slot'[d.slot].stages
    BY <1>1, <2>1, <2>2 DEF SlotKept, StagesKept
  <2>4. QED BY <1>1, <2>1, <2>2, <2>3
<1>4. QED BY <1>2, <1>3 DEF Pinging, PingShape

-----------------------------------------------------------------------------
(***************************************************************************)
(* Steps that change nothing of the schedule.                              *)
(***************************************************************************)

\* What a step that leaves the schedule alone does to it.
LEMMA SameSchedule ==
    ASSUME Rows, UNCHANGED <<event, slot, made>>
    PROVE  /\ \A s \in SlotIds : SlotKept(s)
           /\ \A e \in Events : EventKept(e)
           /\ NamesKept /\ StagesKept /\ made' = made /\ made \in Nat
<1>1. \A e \in Events : event[e].revision \in Nat
  BY Numbers
<1>2. QED BY <1>1, Numbers DEF SlotKept, EventKept, NamesKept, StagesKept, Scheduled

\* What happens at Discord is about slots that were handed out.
LEMMA DiscordStep ==
    ASSUME Rows, UNCHANGED <<event, slot, made, now>>,
           remote' \in [Remotes -> Native], issued' \in Remotes \union {0}, issued <= issued',
           \A r \in Remotes : NativeKept(r),
           \A r \in Remotes : remote'[r] # NoNative => r <= issued' /\ Belongs(remote'[r]),
           late' \subseteq Native, \A n \in late' : Belongs(n)
    PROVE  Sound /\ NamesKept /\ StagesKept
<1>1. Stable /\ NamesKept /\ StagesKept
  BY SameSchedule, Numbers DEF Stable, SlotKept
<1>2. ScheduleShape'
  BY DEF Rows, ScheduleShape, SlotsOf
<1>3. \A n : Belongs(n) => slot'[n.slot].event \in {n.event, NoEvent} /\ n.slot <= made'
                           /\ n.event \in Events /\ n.slot \in SlotIds
  BY DEF Belongs
<1>4. ASSUME NEW s \in SlotIds, slot'[s].native # NoRemote, NEW r, r = slot'[s].native
      PROVE  r <= issued' /\ (remote'[r] = NoNative \/ remote'[r].slot = s)
  <2>1. r \in Remotes /\ r <= issued /\ (remote[r] = NoNative \/ remote[r].slot = s)
    BY <1>4 DEF Rows, SlotRow, DiscordShape, Ours
  <2>2. r \in Nat /\ issued \in Nat /\ issued' \in Nat
    BY <2>1, Numbers DEF Remotes
  <2>3. QED BY <2>1, <2>2 DEF NativeKept
<1>5. DiscordShape'
  BY <1>3, <1>4 DEF DiscordShape, Belongs, Ours
<1>6. QED BY <1>1, <1>2, <1>5 DEF Sound, Rows

\* A step that only reads, or moves the clock.
LEMMA QuietStep ==
    ASSUME Rows, UNCHANGED <<event, slot, made, remote, issued, late>>, now' \in {now, now + 1}
    PROVE  Sound /\ NamesKept /\ StagesKept
<1>1. Stable /\ NamesKept /\ StagesKept
  BY SameSchedule, Numbers DEF Stable, NativeKept
<1>2. Rows'
  BY Numbers DEF Rows, ScheduleShape, SlotsOf, DiscordShape, Ours, Belongs
<1>3. QED BY <1>1, <1>2 DEF Sound

\* A Discord event is deleted.
LEMMA GoneStep ==
    ASSUME Rows, NEW r \in Remotes, Gone(r), UNCHANGED <<event, slot, made, now, issued>>,
           late' \subseteq late
    PROVE  Sound /\ NamesKept /\ StagesKept
<1>1. /\ NoNative \in Native /\ remote \in [Remotes -> Native] /\ issued \in Nat
      /\ issued \in Remotes \union {0} /\ late \subseteq Native
      /\ \A n \in late : Belongs(n)
      /\ \A q \in Remotes : remote[q] # NoNative => q <= issued /\ Belongs(remote[q])
  BY Numbers DEF NoNative, Native, Rows, DiscordShape
<1>2. /\ remote' \in [Remotes -> Native]
      /\ \A q \in Remotes : remote'[q] = NoNative \/ remote'[q] = remote[q]
  BY <1>1 DEF Gone
<1>3. \A q \in Remotes : NativeKept(q)
  BY <1>2 DEF NativeKept
<1>4. \A q \in Remotes : remote'[q] # NoNative => q <= issued' /\ Belongs(remote'[q])
  BY <1>1, <1>2
<1>5. QED BY <1>1, <1>2, <1>3, <1>4, DiscordStep

\* A Discord event of a slot is made, and given a new id.
LEMMA MadeStep ==
    ASSUME Rows, NEW n \in Native, Belongs(n), Make(n), UNCHANGED <<event, slot, made, now>>,
           late' \subseteq late
    PROVE  Sound /\ NamesKept /\ StagesKept /\ issued + 1 \in Remotes
           /\ issued' = issued + 1 /\ remote'[issued + 1] = n
<1>1. /\ remote \in [Remotes -> Native] /\ issued \in Nat /\ Remotes \subseteq Nat
      /\ issued \in Remotes \union {0} /\ late \subseteq Native
      /\ \A m \in late : Belongs(m)
      /\ \A q \in Remotes : remote[q] # NoNative => q <= issued /\ Belongs(remote[q])
  BY Numbers DEF Rows, DiscordShape
<1>2. issued + 1 \in Remotes
  BY <1>1, ScheduleAssumption DEF Make, Remotes
<1>3. /\ remote' \in [Remotes -> Native] /\ issued' = issued + 1 /\ remote'[issued + 1] = n
      /\ \A q \in Remotes \ {issued + 1} : remote'[q] = remote[q]
  BY <1>1, <1>2 DEF Make
<1>4. \A q \in Remotes : NativeKept(q)
  BY <1>1, <1>3 DEF NativeKept
<1>5. ASSUME NEW q \in Remotes, remote'[q] # NoNative PROVE q <= issued' /\ Belongs(remote'[q])
  BY <1>1, <1>3, <1>5
<1>6. issued' \in Remotes \union {0} /\ issued <= issued'
  BY <1>1, <1>2, <1>3
<1>7. QED BY <1>1, <1>2, <1>3, <1>4, <1>5, <1>6, DiscordStep

\* A Discord event shows something else, for the same slot.
LEMMA ShownStep ==
    ASSUME Rows, NEW r \in Remotes, NEW n \in Native, Belongs(n), remote[r] # NoNative,
           n.slot = remote[r].slot, remote' = [remote EXCEPT ![r] = n],
           UNCHANGED <<event, slot, made, now, issued, late>>
    PROVE  Sound /\ NamesKept /\ StagesKept
<1>1. /\ remote \in [Remotes -> Native] /\ issued \in Nat
      /\ issued \in Remotes \union {0} /\ late \subseteq Native
      /\ \A m \in late : Belongs(m)
      /\ \A q \in Remotes : remote[q] # NoNative => q <= issued /\ Belongs(remote[q])
  BY Numbers DEF Rows, DiscordShape
<1>2. /\ remote' \in [Remotes -> Native] /\ remote'[r] = n
      /\ \A q \in Remotes \ {r} : remote'[q] = remote[q]
  BY <1>1
<1>3. \A q \in Remotes : NativeKept(q)
  BY <1>1, <1>2 DEF NativeKept
<1>4. ASSUME NEW q \in Remotes, remote'[q] # NoNative PROVE q <= issued' /\ Belongs(remote'[q])
  BY <1>1, <1>2, <1>4
<1>5. QED BY <1>1, <1>2, <1>3, <1>4, DiscordStep

-----------------------------------------------------------------------------
(***************************************************************************)
(* Steps that change the schedule.                                         *)
(***************************************************************************)

\* A transaction on the rows.
LEMMA RowStep ==
    ASSUME Rows, UNCHANGED <<now, remote, issued, late>>,
           event' \in [Events -> EventRow], slot' \in [SlotIds -> SlotRow],
           made' \in SlotIds \union {0}, made <= made', ScheduleShape',
           \A s \in SlotIds : SlotKept(s), \A e \in Events : EventKept(e),
           \A s \in SlotIds : slot'[s].native # NoRemote => Ours(slot'[s].native, s)
    PROVE  Sound
<1>1. /\ made \in Nat /\ made' \in Nat /\ SlotIds \subseteq Nat /\ issued \in Nat /\ now \in Nat
  BY Numbers DEF SlotIds
<1>2. Stable
  BY <1>1 DEF Stable, NativeKept
<1>3. ASSUME NEW n, Belongs(n) PROVE Belongs(n)'
  <2>1. /\ n.event \in Events /\ n.slot \in SlotIds /\ n.slot \in Nat /\ n.slot <= made
        /\ slot[n.slot].event \in {n.event, NoEvent}
    BY <1>1, <1>3 DEF Belongs
  <2>2. slot'[n.slot].event \in {n.event, NoEvent}
    BY <2>1 DEF SlotKept
  <2>3. QED BY <1>1, <2>1, <2>2 DEF Belongs
<1>4. DiscordShape'
  <2>1. ASSUME NEW r \in Remotes, remote'[r] # NoNative, NEW n, n = remote'[r]
        PROVE  r <= issued' /\ Belongs(n)'
    BY <1>3, <2>1 DEF Rows, DiscordShape
  <2>2. \A n \in late' : Belongs(n)'
    BY <1>3 DEF Rows, DiscordShape
  <2>3. ASSUME NEW s \in SlotIds, slot'[s].native # NoRemote, NEW r, r = slot'[s].native
        PROVE  Ours(r, s)'
    BY <2>3 DEF Ours
  <2>4. QED BY <2>1, <2>2, <2>3 DEF DiscordShape, Belongs, Ours
<1>5. QED BY <1>2, <1>4 DEF Sound, Rows

\* The rows that a schedule's command writes.
LEMMA ChangedRow ==
    ASSUME Rows, NEW e \in Events, NEW status \in Statuses
    PROVE  /\ Changed(e, status) \in EventRow /\ Changed(e, status).status = status
           /\ Changed(e, status).revision = event[e].revision + 1
<1>1. PICK r \in EventRow : r = event[e]
  BY Numbers
<1>2. PICK v \in Nat : v = r.revision + 1
  BY DEF EventRow
<1>3. Changed(e, status) = [r EXCEPT !.status = status, !.revision = v]
  BY <1>1, <1>2 DEF Changed
<1>4. QED BY ONLY <1>1, <1>2, <1>3, status \in Statuses DEF EventRow

\* A command on the event e: what is not of e keeps its event, its time and its id.
LEMMA CommandRows ==
    ASSUME Rows, NEW e \in Events, NEW row \in EventRow, event' = [event EXCEPT ![e] = row],
           event[e].revision < row.revision,
           event[e].status \in {"completed", "cancelled"} => row.status \in {"completed", "cancelled"},
           slot' \in [SlotIds -> SlotRow], made' \in SlotIds \union {0}, made <= made',
           \A s \in SlotIds : SlotKept(s),
           \A s \in SlotIds : slot'[s].event # NoEvent => s <= made',
           \A s \in SlotIds : slot'[s].event # e /\ slot[s].event # e =>
              slot'[s].event = slot[s].event /\ slot'[s].at = slot[s].at
              /\ slot'[s].stages = slot[s].stages,
           \A s \in SlotIds : slot'[s].event = slot[s].event \/ slot'[s].event = e \/ slot[s].event = e,
           \A s \in SlotIds : slot'[s].native \in {slot[s].native, NoRemote},
           row.status \in {"none", "open"} => \A s \in SlotIds : slot'[s].event # e,
           UNCHANGED <<now, remote, issued, late>>
    PROVE  Sound
<1>1. /\ event \in [Events -> EventRow] /\ NoEvent \notin Events
      /\ event[e].revision \in Nat /\ row.revision \in Nat
      /\ \A f \in Events : event[f].revision \in Nat
  BY Numbers DEF Rows, EventRow
<1>2. /\ event' \in [Events -> EventRow] /\ event'[e] = row
      /\ \A f \in Events \ {e} : event'[f] = event[f]
  BY <1>1
<1>3. ASSUME NEW f \in Events, f # e, NEW s \in SlotIds
      PROVE  /\ slot'[s].event = f <=> slot[s].event = f
             /\ slot[s].event = f => slot'[s].at = slot[s].at
  <2>1. CASE slot[s].event = f
    <3>1. slot[s].event # e
      BY <1>3, <2>1
    <3>2. slot'[s].event # e
      BY <1>1, <2>1, <3>1 DEF SlotKept, Rows, ScheduleShape
    <3>3. QED BY <2>1, <3>1, <3>2
  <2>2. CASE slot[s].event # f
    <3>1. slot[s].event = e => slot'[s].event \in {e, NoEvent}
      BY <1>1 DEF SlotKept, Rows, ScheduleShape
    <3>2. QED BY <1>1, <1>3, <2>2, <3>1
  <2>3. QED BY <2>1, <2>2
<1>4. \A f \in Events : EventKept(f)
  BY <1>1, <1>2, <1>3 DEF EventKept
<1>5. ScheduleShape'
  <2>1. \A f \in Events : event'[f].status \in {"none", "open"} => \A s \in SlotIds : slot'[s].event # f
    BY <1>1, <1>2, <1>3 DEF Rows, ScheduleShape, SlotsOf
  <2>2. QED BY <2>1 DEF Rows, ScheduleShape, SlotsOf
<1>6. \A s \in SlotIds : slot'[s].native # NoRemote => Ours(slot'[s].native, s)
  BY DEF Rows, DiscordShape
<1>7. QED BY <1>2, <1>4, <1>5, <1>6, RowStep

\* create_event
LEMMA CreateStep ==
    ASSUME Rows, NEW e \in Events, CreateEvent(e), UNCHANGED <<now, remote, issued, late>>
    PROVE  Sound /\ NamesKept /\ StagesKept
<1> DEFINE row == [event[e] EXCEPT !.status = "open"]
<1>1. /\ event \in [Events -> EventRow] /\ event[e] \in EventRow /\ event[e].status = "none"
      /\ event' = [event EXCEPT ![e] = row] /\ UNCHANGED <<slot, made>>
      /\ \A f \in Events : event[f].revision \in Nat
  BY Numbers DEF CreateEvent, Rows
<1>2. row \in EventRow /\ row.status = "open" /\ row.revision = event[e].revision
  BY <1>1 DEF EventRow, Statuses
<1> HIDE DEF row
<1>3. /\ event' \in [Events -> EventRow] /\ event'[e] = row
      /\ \A f \in Events \ {e} : event'[f] = event[f]
  BY <1>1, <1>2
<1>4. \A f \in Events : EventKept(f)
  BY <1>1, <1>2, <1>3 DEF EventKept
<1>5. ScheduleShape'
  BY <1>1, <1>2, <1>3 DEF Rows, ScheduleShape, SlotsOf
<1>6. made \in Nat /\ \A s \in SlotIds : SlotKept(s)
  BY <1>1, Numbers DEF SlotKept
<1>7. \A s \in SlotIds : slot'[s].native # NoRemote => Ours(slot'[s].native, s)
  BY <1>1 DEF Rows, DiscordShape
<1>8. Sound
  BY <1>1, <1>3, <1>4, <1>5, <1>6, <1>7, RowStep DEF Rows
<1>9. SlotsOf(e) = {}
  BY <1>1 DEF Rows, ScheduleShape
<1>10. NamesKept /\ StagesKept
  BY <1>1, <1>2, <1>3, <1>9, Numbers DEF NamesKept, StagesKept, Scheduled, SlotsOf
<1>11. QED BY <1>8, <1>10

\* freeze_schedule: the new slots come after all that were handed out.
LEMMA FreezeStep ==
    ASSUME Rows, NEW e \in Events, NEW n \in Nat \ {0}, NEW at \in [1..n -> Nat],
           FreezeSchedule(e, n, at), UNCHANGED <<now, remote, issued, late>>
    PROVE  Sound /\ NamesKept /\ StagesKept
<1> DEFINE new == (made + 1)..(made + n)
           fresh(s) == [NoSlot EXCEPT !.event = e, !.at = at[s - made]]
           row == Changed(e, "scheduled")
<1>1. /\ made \in Nat /\ SlotIds \subseteq Nat /\ NoEvent \notin Events /\ e \in Open
      /\ new \subseteq SlotIds /\ made' = made + n
      /\ event' = [event EXCEPT ![e] = row]
      /\ slot' = [s \in SlotIds |-> IF s \in new THEN fresh(s) ELSE slot[s]]
      /\ slot \in [SlotIds -> SlotRow] /\ event[e].revision \in Nat
      /\ event \in [Events -> EventRow]
  BY Numbers DEF FreezeSchedule, Rows
<1>2. ASSUME NEW s \in new
      PROVE  fresh(s) \in SlotRow /\ fresh(s).event = e /\ fresh(s).native = NoRemote
  <2>1. s - made \in 1..n
    <3>1. made \in Nat /\ s \in (made + 1)..(made + n)
      BY <1>1, <1>2
    <3>2. QED BY ONLY <3>1, n \in Nat \ {0}
  <2>2. at[s - made] \in Nat
    BY <2>1
  <2>3. NoSlot \in SlotRow /\ NoSlot.native = NoRemote
    BY DEF NoSlot, SlotRow
  <2>4. ASSUME NEW r \in SlotRow, NEW v \in Nat
        PROVE  /\ [r EXCEPT !.event = e, !.at = v] \in SlotRow
               /\ [r EXCEPT !.event = e, !.at = v].event = e
               /\ [r EXCEPT !.event = e, !.at = v].native = r.native
    BY DEF SlotRow
  <2>5. QED BY <2>2, <2>3, <2>4
<1> HIDE DEF fresh
<1>3. row \in EventRow /\ row.status = "scheduled" /\ row.revision = event[e].revision + 1
  BY ChangedRow DEF Statuses
<1> HIDE DEF row
<1>4. /\ slot' \in [SlotIds -> SlotRow]
      /\ \A s \in SlotIds : slot'[s] = IF s \in new THEN fresh(s) ELSE slot[s]
  BY <1>1, <1>2
<1>5. /\ \A s \in SlotIds : s <= made => s \notin new
      /\ \A s \in new : s <= made' /\ s \in SlotIds
      /\ \A s \in SlotIds : slot[s].event # NoEvent => s <= made /\ s <= made'
  BY <1>1 DEF Rows, ScheduleShape
<1>6. made' \in SlotIds \union {0} /\ made <= made'
  <2>1. made + n \in new
    BY <1>1
  <2>2. QED BY <1>1, <2>1
<1>7. \A s \in SlotIds : slot[s].event # e
  BY <1>1 DEF Rows, ScheduleShape, SlotsOf, Open
<1>8. \A s \in SlotIds : SlotKept(s)
  BY <1>4, <1>5 DEF SlotKept
<1>9. /\ \A s \in SlotIds : slot'[s].event # NoEvent => s <= made'
      /\ \A s \in SlotIds : slot'[s].event # e => slot'[s] = slot[s]
      /\ \A s \in SlotIds : slot'[s].native \in {slot[s].native, NoRemote}
      /\ \A s \in SlotIds : slot'[s].event = slot[s].event \/ slot'[s].event = e
  BY <1>2, <1>4, <1>5
<1>10. event[e].status = "open" /\ event[e].revision < row.revision
  BY <1>1, <1>3 DEF Open
<1>11. Sound
  BY <1>1, <1>3, <1>4, <1>6, <1>8, <1>9, <1>10, CommandRows
<1>12. NamesKept
  <2>1. ASSUME NEW s \in SlotIds, slot'[s].event \in Scheduled', slot'[s].native # NoRemote
        PROVE  slot'[s] = slot[s] /\ slot[s].event \in Events /\ slot[s].event # e
    BY <1>2, <1>4, <1>7, <2>1 DEF Scheduled
  <2>2. \A f \in Events \ {e} : event'[f] = event[f]
    BY <1>1
  <2>3. QED BY <2>1, <2>2 DEF NamesKept, Scheduled
<1>13. StagesKept
  BY <1>4, <1>5 DEF StagesKept
<1>14. QED BY <1>11, <1>12, <1>13

\* reschedule_event: the slots and their ids stay, a moved one gets its reminders again.
LEMMA RescheduleStep ==
    ASSUME Rows, NEW e \in Events, NEW at \in [SlotsOf(e) -> Nat], RescheduleEvent(e, at),
           UNCHANGED <<now, remote, issued, late>>
    PROVE  /\ Sound /\ NamesKept /\ UNCHANGED made
           /\ \A s \in SlotIds : slot'[s].event = slot[s].event
           /\ \A s \in SlotIds : slot'[s].stages = slot[s].stages \/ slot'[s].stages = {}
           /\ \A s \in SlotIds : (s \in SlotsOf(e) /\ at[s] # slot[s].at)
                                    \/ slot'[s].stages = slot[s].stages
<1> DEFINE row == Changed(e, "scheduled")
<1>1. /\ e \in Scheduled /\ event' = [event EXCEPT ![e] = row] /\ UNCHANGED made
      /\ slot' = [s \in SlotIds |-> IF s \in SlotsOf(e) THEN Moved(slot[s], at[s]) ELSE slot[s]]
      /\ slot \in [SlotIds -> SlotRow] /\ event[e].revision \in Nat
      /\ event \in [Events -> EventRow] /\ made \in Nat /\ made \in SlotIds \union {0}
  BY Numbers DEF RescheduleEvent, Rows
<1>2. ASSUME NEW r \in SlotRow, NEW t \in Nat
      PROVE  /\ Moved(r, t) \in SlotRow /\ Moved(r, t).event = r.event
             /\ Moved(r, t).native = r.native
             /\ Moved(r, t).stages = IF t = r.at THEN r.stages ELSE {}
  <2>1. PICK g \in SUBSET Stages : g = IF t = r.at THEN r.stages ELSE {}
    BY DEF SlotRow
  <2>2. Moved(r, t) = [r EXCEPT !.at = t, !.status = "planned", !.stages = g]
    BY <2>1 DEF Moved
  <2>3. QED BY ONLY <2>1, <2>2, r \in SlotRow, t \in Nat DEF SlotRow
<1>3. row \in EventRow /\ row.status = "scheduled" /\ row.revision = event[e].revision + 1
  BY ChangedRow DEF Statuses
<1> HIDE DEF row
<1>4. /\ \A s \in SlotsOf(e) : at[s] \in Nat /\ s \in SlotIds /\ slot[s].event = e
      /\ \A s \in SlotIds \ SlotsOf(e) : slot[s].event # e
  BY DEF SlotsOf
<1>5. ASSUME NEW s \in SlotIds
      PROVE  /\ slot'[s] \in SlotRow /\ slot'[s].event = slot[s].event
             /\ slot'[s].native = slot[s].native
             /\ s \in SlotsOf(e) => slot'[s].stages = IF at[s] = slot[s].at THEN slot[s].stages ELSE {}
             /\ s \notin SlotsOf(e) => slot'[s] = slot[s]
  BY <1>1, <1>2, <1>4
<1>6. slot' \in [SlotIds -> SlotRow]
  BY <1>1, <1>5
<1>7. /\ \A s \in SlotIds : SlotKept(s)
      /\ \A s \in SlotIds : slot'[s].event # NoEvent => s <= made'
      /\ \A s \in SlotIds : slot'[s].event # e => slot'[s] = slot[s]
      /\ \A s \in SlotIds : slot'[s].native \in {slot[s].native, NoRemote}
  BY <1>1, <1>4, <1>5 DEF SlotKept, Rows, ScheduleShape
<1>8. event[e].status = "scheduled" /\ event[e].revision < row.revision /\ made <= made'
  BY <1>1, <1>3 DEF Scheduled
<1>9. Sound
  BY <1>1, <1>3, <1>5, <1>6, <1>7, <1>8, CommandRows
<1>10. NamesKept
  BY <1>1, <1>5, <1>8 DEF NamesKept, Scheduled
<1>11. QED BY <1>1, <1>5, <1>9, <1>10

\* reopen_event: the slots are given up, and none has them again.
LEMMA ReopenStep ==
    ASSUME Rows, NEW e \in Events, ReopenEvent(e), UNCHANGED <<now, remote, issued, late>>
    PROVE  /\ Sound /\ NamesKept /\ StagesKept
           /\ \A s \in SlotsOf(e) : s <= made' /\ slot'[s].event = NoEvent
<1> DEFINE row == Changed(e, "open")
<1>1. /\ e \in Scheduled /\ event' = [event EXCEPT ![e] = row] /\ UNCHANGED made
      /\ slot' = [s \in SlotIds |-> IF s \in SlotsOf(e) THEN NoSlot ELSE slot[s]]
      /\ slot \in [SlotIds -> SlotRow] /\ event[e].revision \in Nat
      /\ event \in [Events -> EventRow] /\ made \in Nat /\ made \in SlotIds \union {0}
      /\ NoEvent \notin Events
  BY Numbers DEF ReopenEvent, Rows
<1>2. NoSlot \in SlotRow /\ NoSlot.event = NoEvent /\ NoSlot.native = NoRemote
  BY IdleCycle
<1>3. row \in EventRow /\ row.status = "open" /\ row.revision = event[e].revision + 1
  BY ChangedRow DEF Statuses
<1> HIDE DEF row
<1>4. \A s \in SlotIds : s \in SlotsOf(e) <=> slot[s].event = e
  BY DEF SlotsOf
<1>5. /\ \A s \in SlotIds : slot'[s] = IF s \in SlotsOf(e) THEN NoSlot ELSE slot[s]
      /\ slot' \in [SlotIds -> SlotRow]
  BY <1>1, <1>2
<1>6. /\ \A s \in SlotIds : SlotKept(s)
      /\ \A s \in SlotIds : slot'[s].event # NoEvent => s <= made' /\ slot'[s] = slot[s]
      /\ \A s \in SlotIds : slot[s].event # e => slot'[s] = slot[s]
      /\ \A s \in SlotIds : slot'[s].native \in {slot[s].native, NoRemote}
      /\ \A s \in SlotIds : slot'[s].event # e
  BY <1>1, <1>2, <1>4, <1>5 DEF SlotKept, Rows, ScheduleShape
<1>7. event[e].status = "scheduled" /\ event[e].revision < row.revision /\ made <= made'
  BY <1>1, <1>3 DEF Scheduled
<1>8. Sound
  BY <1>1, <1>3, <1>5, <1>6, <1>7, CommandRows
<1>9. NamesKept
  <2>1. \A f \in Events \ {e} : event'[f] = event[f]
    BY <1>1
  <2>2. QED BY <1>1, <1>6, <2>1 DEF NamesKept, Scheduled
<1>10. StagesKept
  BY <1>6 DEF StagesKept
<1>11. \A s \in SlotsOf(e) : s <= made' /\ slot'[s].event = NoEvent
  BY <1>1, <1>2, <1>4, <1>5 DEF SlotsOf, Rows, ScheduleShape
<1>12. QED BY <1>8, <1>9, <1>10, <1>11

\* What a slot keeps when its event is over.
LEMMA ClosedRows ==
    ASSUME Rows, NEW E, NEW status \in {"completed", "cancelled"}, slot' = Closed(E, status)
    PROVE  /\ slot' \in [SlotIds -> SlotRow]
           /\ \A s \in SlotIds : /\ slot'[s].event = slot[s].event /\ slot'[s].at = slot[s].at
                                 /\ slot'[s].native = slot[s].native
                                 /\ slot'[s].stages = slot[s].stages
<1>1. ASSUME NEW r \in SlotRow
      PROVE  LET c == [r EXCEPT !.status = status]
             IN  /\ c \in SlotRow /\ c.event = r.event /\ c.at = r.at /\ c.native = r.native
                 /\ c.stages = r.stages
  BY DEF SlotRow
<1>2. ASSUME NEW s \in SlotIds
      PROVE  /\ slot'[s] \in SlotRow /\ slot'[s].event = slot[s].event
             /\ slot'[s].at = slot[s].at /\ slot'[s].native = slot[s].native
             /\ slot'[s].stages = slot[s].stages
  <2>1. slot[s] \in SlotRow
    BY Numbers
  <2>2. slot'[s] = [slot[s] EXCEPT !.status = status] \/ slot'[s] = slot[s]
    BY DEF Closed
  <2>3. QED BY <1>1, <2>1, <2>2
<1>3. slot' \in [SlotIds -> SlotRow]
  BY <1>2 DEF Closed
<1>4. QED BY <1>2, <1>3

\* _transition_event, archive_event: the slots keep their event, their time and their id.
LEMMA OverStep ==
    ASSUME Rows, NEW e \in Events,
           \/ \E target \in {"completed", "cancelled"} : TransitionEvent(e, target)
           \/ ArchiveEvent(e),
           UNCHANGED <<now, remote, issued, late>>
    PROVE  /\ Sound /\ NamesKept /\ StagesKept
           /\ event'[e].status \in {"completed", "cancelled"}
           /\ \A f \in Events \ {e} : event'[f] = event[f]
<1>1. /\ event \in [Events -> EventRow] /\ event[e].revision \in Nat
      /\ made \in Nat /\ made \in SlotIds \union {0} /\ slot \in [SlotIds -> SlotRow]
  BY Numbers DEF Rows
<1>2. /\ slot' \in [SlotIds -> SlotRow] /\ UNCHANGED made
      /\ \A s \in SlotIds : /\ slot'[s].event = slot[s].event /\ slot'[s].at = slot[s].at
                            /\ slot'[s].native = slot[s].native
                            /\ slot'[s].stages = slot[s].stages
  <2>1. CASE ArchiveEvent(e)
    BY <1>1, <2>1 DEF ArchiveEvent
  <2>2. ASSUME NEW target \in {"completed", "cancelled"}, TransitionEvent(e, target)
        PROVE  slot' = Closed({e}, target) /\ UNCHANGED made
    BY <2>2 DEF TransitionEvent
  <2>3. CASE ~ArchiveEvent(e)
    BY <2>2, <2>3, ClosedRows
  <2>4. QED BY <2>1, <2>3
<1>3. PICK row \in EventRow : /\ event' = [event EXCEPT ![e] = row]
                              /\ row.status \in {"completed", "cancelled"}
                              /\ event[e].revision < row.revision
  <2>1. ASSUME NEW target \in {"completed", "cancelled"}, TransitionEvent(e, target)
        PROVE  \E row \in EventRow : /\ event' = [event EXCEPT ![e] = row]
                                     /\ row.status \in {"completed", "cancelled"}
                                     /\ event[e].revision < row.revision
    <3>1. target \in Statuses /\ event' = [event EXCEPT ![e] = Changed(e, target)]
      BY <2>1 DEF TransitionEvent, Statuses
    <3>2. /\ Changed(e, target) \in EventRow /\ Changed(e, target).status = target
          /\ Changed(e, target).revision = event[e].revision + 1
      BY <3>1, ChangedRow
    <3>3. PICK v \in EventRow : v = Changed(e, target)
      BY <3>2
    <3>4. /\ event' = [event EXCEPT ![e] = v] /\ v.status \in {"completed", "cancelled"}
          /\ event[e].revision < v.revision
      BY <1>1, <3>1, <3>2, <3>3
    <3>5. QED BY <3>4
  <2>2. CASE ArchiveEvent(e)
    <3>1. PICK r : r = Changed(e, event[e].status)
      OBVIOUS
    <3>2. /\ event' = [event EXCEPT ![e] = [r EXCEPT !.archived = TRUE]]
          /\ event[e].status \in {"completed", "cancelled"}
      BY <2>2, <1>1, <3>1 DEF ArchiveEvent
    <3>3. r \in EventRow /\ r.status = event[e].status /\ r.revision = event[e].revision + 1
      BY <3>1, <3>2, ChangedRow DEF Statuses
    <3>4. PICK b \in {TRUE} : event' = [event EXCEPT ![e] = [r EXCEPT !.archived = b]]
      BY <3>2
    <3>5. /\ [r EXCEPT !.archived = b] \in EventRow
          /\ [r EXCEPT !.archived = b].status = r.status
          /\ [r EXCEPT !.archived = b].revision = r.revision
      BY <3>3 DEF EventRow
    <3>6. PICK v \in EventRow : v = [r EXCEPT !.archived = b]
      BY <3>5
    <3>7. /\ event' = [event EXCEPT ![e] = v] /\ v.status \in {"completed", "cancelled"}
          /\ event[e].revision < v.revision
      BY <1>1, <3>2, <3>3, <3>4, <3>5, <3>6
    <3>8. QED BY <3>7
  <2>3. QED BY <2>1, <2>2
<1>4. /\ \A s \in SlotIds : SlotKept(s)
      /\ \A s \in SlotIds : slot'[s].event # NoEvent => s <= made'
  BY <1>1, <1>2 DEF SlotKept, Rows, ScheduleShape
<1>5. made' \in SlotIds \union {0} /\ made <= made'
  BY <1>1, <1>2
<1>6. Sound
  BY <1>2, <1>3, <1>4, <1>5, CommandRows
<1>7. /\ event'[e].status \in {"completed", "cancelled"}
      /\ \A f \in Events \ {e} : event'[f] = event[f]
  BY <1>1, <1>3
<1>8. NamesKept /\ StagesKept
  BY <1>2, <1>7 DEF NamesKept, StagesKept, Scheduled
<1>9. QED BY <1>6, <1>7, <1>8

\* clear_old_events: what is over is completed, and all that is over is archived.
LEMMA ClearStep ==
    ASSUME Rows, ClearOldEvents, UNCHANGED <<now, remote, issued, late>>
    PROVE  /\ Sound /\ NamesKept /\ StagesKept
           /\ \A e \in Clearable : event'[e].status \in {"completed", "cancelled"}
<1>1. /\ event \in [Events -> EventRow] /\ made \in Nat /\ made \in SlotIds \union {0}
      /\ slot \in [SlotIds -> SlotRow] /\ \A e \in Events : event[e].revision \in Nat
      /\ UNCHANGED made /\ slot' = Closed(Stale, "completed")
  BY Numbers DEF Rows, ClearOldEvents
<1>2. /\ slot' \in [SlotIds -> SlotRow]
      /\ \A s \in SlotIds : /\ slot'[s].event = slot[s].event /\ slot'[s].at = slot[s].at
                            /\ slot'[s].native = slot[s].native
                            /\ slot'[s].stages = slot[s].stages
  BY <1>1, ClosedRows
<1> DEFINE over(e) == [status |-> "completed", archived |-> TRUE, revision |-> event[e].revision + 2]
           old(e) == [Changed(e, event[e].status) EXCEPT !.archived = TRUE]
<1>3. ASSUME NEW e \in Events
      PROVE  over(e) \in EventRow /\ over(e).status = "completed"
             /\ event[e].revision < over(e).revision
  <2>0. PICK v \in Nat : v = event[e].revision + 2
    BY <1>1
  <2>9. PICK b \in {TRUE} : TRUE
    OBVIOUS
  <2>1. over(e) = [status |-> "completed", archived |-> b, revision |-> v]
    BY <2>0
  <2> HIDE DEF over
  <2>2. "completed" \in Statuses
    BY DEF Statuses
  <2>3. over(e) \in EventRow /\ over(e).status = "completed" /\ over(e).revision = v
    BY ONLY <2>1, <2>2, v \in Nat, b \in {TRUE} DEF EventRow
  <2>4. QED BY <1>1, <2>0, <2>3
<1>4. ASSUME NEW e \in Events
      PROVE  old(e) \in EventRow /\ old(e).status = event[e].status
             /\ event[e].revision < old(e).revision
  <2>1. PICK r : r = Changed(e, event[e].status)
    OBVIOUS
  <2>2. event[e].status \in Statuses
    BY <1>1 DEF EventRow
  <2>3. r \in EventRow /\ r.status = event[e].status /\ r.revision = event[e].revision + 1
    BY <2>1, <2>2, ChangedRow
  <2>4. PICK b \in BOOLEAN : old(e) = [r EXCEPT !.archived = b]
    BY <2>1
  <2> HIDE DEF old
  <2>5. old(e) \in EventRow /\ old(e).status = r.status /\ old(e).revision = r.revision
    BY ONLY <2>3, <2>4, b \in BOOLEAN DEF EventRow
  <2>6. QED BY <1>1, <2>3, <2>5
<1>5. event' = [e \in Events |-> CASE e \in Stale -> over(e)
                                   [] e \in Clearable \ Stale -> old(e)
                                   [] OTHER -> event[e]]
  BY DEF ClearOldEvents
<1> HIDE DEF over, old
<1>6. \A e \in Clearable : e \in Events /\
         (e \in Stale \/ event[e].status \in {"completed", "cancelled"})
  BY DEF Clearable
<1>7. \A e \in Stale : e \in Events /\ event[e].status = "scheduled"
  BY DEF Stale, Scheduled
<1>8. ASSUME NEW e \in Events
      PROVE  \/ e \in Clearable /\ e \in Stale /\ event'[e] = over(e)
             \/ e \in Clearable /\ e \notin Stale /\ event'[e] = old(e)
             \/ e \notin Clearable /\ event'[e] = event[e]
             \/ e \in Stale /\ event'[e] = over(e)
  <2>1. CASE e \in Stale
    BY <1>5, <2>1
  <2>2. CASE e \notin Stale /\ e \in Clearable
    BY <1>5, <2>2
  <2>3. CASE e \notin Stale /\ e \notin Clearable
    BY <1>5, <2>3
  <2>4. QED BY <2>1, <2>2, <2>3
<1>9. ASSUME NEW e \in Events
      PROVE  /\ event'[e] \in EventRow /\ event[e].revision <= event'[e].revision
             /\ event'[e].status \in {"completed", event[e].status}
             /\ event[e].status \in {"completed", "cancelled"} =>
                   event'[e].status = event[e].status
             /\ e \in Clearable => event'[e].status \in {"completed", "cancelled"}
  <2>1. event[e].revision \in Nat /\ event[e] \in EventRow
    BY <1>1
  <2>2. CASE e \in Clearable /\ e \in Stale /\ event'[e] = over(e)
    <3>1. PICK v : v = over(e)
      OBVIOUS
    <3>2. event'[e] = v /\ v \in EventRow /\ event[e].revision < v.revision
      BY <1>3, <2>2, <3>1
    <3>3. v.status = "completed"
      BY <1>3, <3>1
    <3>4. event[e].status = "scheduled"
      BY <1>7, <2>2
    <3>5. v.revision \in Nat
      BY <3>2 DEF EventRow
    <3>6. QED BY <2>1, <3>2, <3>3, <3>4, <3>5
  <2>3. CASE e \in Clearable /\ e \notin Stale /\ event'[e] = old(e)
    <3>1. PICK v : v = old(e)
      OBVIOUS
    <3>2. event'[e] = v /\ v \in EventRow /\ event[e].revision < v.revision
      BY <1>4, <2>3, <3>1
    <3>3. v.status = event[e].status
      BY <1>4, <3>1
    <3>4. event[e].status \in {"completed", "cancelled"}
      BY <1>6, <2>3
    <3>5. v.revision \in Nat
      BY <3>2 DEF EventRow
    <3>6. QED BY <2>1, <3>2, <3>3, <3>4, <3>5
  <2>4. CASE e \notin Clearable /\ event'[e] = event[e]
    BY <2>1, <2>4
  <2>5. CASE e \in Stale /\ event'[e] = over(e)
    <3>1. PICK v : v = over(e)
      OBVIOUS
    <3>2. event'[e] = v /\ v \in EventRow /\ event[e].revision < v.revision
      BY <1>3, <2>5, <3>1
    <3>3. v.status = "completed"
      BY <1>3, <3>1
    <3>4. event[e].status = "scheduled"
      BY <1>7, <2>5
    <3>5. v.revision \in Nat
      BY <3>2 DEF EventRow
    <3>6. QED BY <2>1, <3>2, <3>3, <3>4, <3>5
  <2>6. QED BY <1>8, <2>2, <2>3, <2>4, <2>5
<1>10. event' \in [Events -> EventRow]
  BY <1>5, <1>9
<1>11. /\ \A s \in SlotIds : SlotKept(s)
       /\ \A e \in Events : EventKept(e)
       /\ \A s \in SlotIds : slot'[s].native # NoRemote => Ours(slot'[s].native, s)
  BY <1>2, <1>9 DEF SlotKept, EventKept, Rows, DiscordShape
<1>12. ScheduleShape'
  <2>1. ASSUME NEW e \in Events, event'[e].status \in {"none", "open"}
        PROVE  event[e].status \in {"none", "open"}
    BY <1>9, <2>1
  <2>2. \A e \in Events : event'[e].status \in {"none", "open"} =>
           \A s \in SlotIds : slot'[s].event # e
    BY <1>2, <2>1 DEF Rows, ScheduleShape, SlotsOf
  <2>3. \A s \in SlotIds : slot'[s].event # NoEvent => s <= made'
    BY <1>1, <1>2 DEF Rows, ScheduleShape
  <2>4. QED BY <2>2, <2>3 DEF Rows, ScheduleShape, SlotsOf
<1>13. Sound
  BY <1>1, <1>2, <1>10, <1>11, <1>12, RowStep DEF Rows
<1>14. NamesKept /\ StagesKept
  BY <1>2, <1>9 DEF NamesKept, StagesKept, Scheduled
<1>15. QED BY <1>6, <1>9, <1>13, <1>14

\* The worker stores the Discord event of a slot.
LEMMA StoreStep ==
    ASSUME Rows, NEW s \in SlotIds, NEW r \in Remotes, Ours(r, s), StoreNative(s, r),
           UNCHANGED <<event, made, now, remote, issued, late>>
    PROVE  Sound /\ StagesKept
<1>1. slot \in [SlotIds -> SlotRow] /\ slot[s] \in SlotRow /\ made \in Nat
  BY Numbers DEF Rows
<1>2. /\ [slot[s] EXCEPT !.native = r] \in SlotRow
      /\ [slot[s] EXCEPT !.native = r].event = slot[s].event
      /\ [slot[s] EXCEPT !.native = r].at = slot[s].at
      /\ [slot[s] EXCEPT !.native = r].stages = slot[s].stages
      /\ [slot[s] EXCEPT !.native = r].native = r
  BY <1>1 DEF SlotRow
<1>3. slot' = [slot EXCEPT ![s] = [slot[s] EXCEPT !.native = r]]
  BY <1>1 DEF StoreNative
<1>4. /\ slot' \in [SlotIds -> SlotRow]
      /\ \A t \in SlotIds : /\ slot'[t].event = slot[t].event /\ slot'[t].at = slot[t].at
                            /\ slot'[t].stages = slot[t].stages
                            /\ t # s => slot'[t].native = slot[t].native
      /\ slot'[s].native = r
  BY <1>1, <1>2, <1>3
<1>5. /\ \A t \in SlotIds : SlotKept(t)
      /\ \A e \in Events : EventKept(e)
      /\ \A t \in SlotIds : slot'[t].native # NoRemote => Ours(slot'[t].native, t)
  BY <1>4, Numbers DEF SlotKept, EventKept, Rows, DiscordShape
<1>6. ScheduleShape'
  BY <1>4 DEF Rows, ScheduleShape, SlotsOf
<1>7. Sound
  BY <1>1, <1>4, <1>5, <1>6, RowStep DEF Rows
<1>8. QED BY <1>4, <1>7 DEF StagesKept

\* claim_reminder uses stages up.
LEMMA ClaimStep ==
    ASSUME Rows, NEW s \in SlotIds, NEW S \in SUBSET Stages,
           slot' = [slot EXCEPT ![s].stages = @ \union S],
           UNCHANGED <<event, made, now, remote, issued, late>>
    PROVE  /\ Sound /\ NamesKept /\ StagesKept
           /\ slot'[s].stages = slot[s].stages \union S
           /\ slot'[s].event = slot[s].event
           /\ \A t \in SlotIds \ {s} : slot'[t] = slot[t]
<1>1. slot \in [SlotIds -> SlotRow] /\ slot[s] \in SlotRow /\ made \in Nat
  BY Numbers DEF Rows
<1>2. PICK g \in SUBSET Stages : g = slot[s].stages \union S
  BY <1>1 DEF SlotRow
<1>3. /\ [slot[s] EXCEPT !.stages = g] \in SlotRow
      /\ [slot[s] EXCEPT !.stages = g].event = slot[s].event
      /\ [slot[s] EXCEPT !.stages = g].at = slot[s].at
      /\ [slot[s] EXCEPT !.stages = g].stages = g
      /\ [slot[s] EXCEPT !.stages = g].native = slot[s].native
  BY <1>1 DEF SlotRow
<1>4. slot' = [slot EXCEPT ![s] = [slot[s] EXCEPT !.stages = g]]
  BY <1>1, <1>2
<1>5. /\ slot' \in [SlotIds -> SlotRow]
      /\ \A t \in SlotIds : /\ slot'[t].event = slot[t].event /\ slot'[t].at = slot[t].at
                            /\ slot'[t].native = slot[t].native
                            /\ t # s => slot'[t] = slot[t]
      /\ slot'[s].stages = slot[s].stages \union S
  BY <1>1, <1>2, <1>3, <1>4
<1>6. /\ \A t \in SlotIds : SlotKept(t)
      /\ \A e \in Events : EventKept(e)
      /\ \A t \in SlotIds : slot'[t].native # NoRemote => Ours(slot'[t].native, t)
  BY <1>5, Numbers DEF SlotKept, EventKept, Rows, DiscordShape
<1>7. ScheduleShape'
  BY <1>5 DEF Rows, ScheduleShape, SlotsOf
<1>8. Sound
  BY <1>1, <1>5, <1>6, <1>7, RowStep DEF Rows
<1>9. NamesKept /\ StagesKept
  BY <1>5 DEF NamesKept, StagesKept, Scheduled
<1>10. QED BY <1>5, <1>8, <1>9

-----------------------------------------------------------------------------
(***************************************************************************)
(* The commands as a whole: the removals that they start.                  *)
(***************************************************************************)

\* Everything that leaves the worker and the announcements alone keeps the invariant, when
\* what it asks to be removed may be removed.
LEMMA OutsideStep ==
    ASSUME WorkerIInv, Sound, NamesKept, StagesKept, UNCHANGED <<worker, pings>>,
           \A m \in removals' \ removals : m \in Removal /\ RemovalOK(m)'
    PROVE  WorkerIInv'
<1>1. Rows /\ Working /\ Removing /\ Pinging
  BY Parts
<1>2. Working' /\ Pinging' /\ Rows'
  BY <1>1, WorkerKept, PingsKept DEF Sound
<1>3. ASSUME NEW m \in removals' PROVE m \in Removal /\ RemovalOK(m)'
  <2>1. CASE m \in removals
    BY <1>1, <2>1, RemovalKept DEF Removing
  <2>2. QED BY <2>1
<1>4. Removing'
  BY <1>3 DEF Removing
<1>5. (WorkerIInv <=> Rows /\ Working /\ Removing /\ Pinging)'
  BY Parts, PTL
<1>6. QED BY <1>2, <1>4, <1>5

\* The slots of an event that is over, or that went back to its ballot, are retired.
LEMMA SlotsRetire ==
    ASSUME Rows, Sound, NEW e \in Events, NEW s \in SlotsOf(e),
           event'[e].status \in {"completed", "cancelled"} \/ slot'[s].event = NoEvent
    PROVE  Retired(s)'
<1>1. s \in SlotIds /\ s \in Nat /\ slot[s].event = e /\ e # NoEvent
  BY Numbers, ScheduleAssumption DEF SlotsOf
<1>2. s <= made /\ made \in Nat /\ made' \in Nat /\ made <= made'
  BY <1>1, Numbers DEF Rows, ScheduleShape, Sound, Stable, SlotIds
<1>3. slot'[s].event \in {e, NoEvent}
  BY <1>1, <1>2 DEF Sound, Stable, SlotKept
<1>4. QED BY <1>1, <1>2, <1>3 DEF Retired

\* What a command asks to be removed was made for slots that it retired.
LEMMA NewRemoval ==
    ASSUME Rows, Sound, NEW e \in Events, NEW S \in SUBSET SlotIds, NEW m,
           m = [pc |-> "list", event |-> e, slots |-> S, ids |-> NativesOf(SlotsOf(e))],
           \A s \in SlotsOf(e) : Retired(s)',
           \/ event'[e].status \in {"completed", "cancelled"}
           \/ \A s \in S : s <= made' /\ slot'[s].event = NoEvent
    PROVE  m \in Removal /\ RemovalOK(m)'
<1>1. ASSUME NEW r \in m.ids
      PROVE  r \in Remotes /\ r <= issued' /\ (remote'[r] = NoNative \/ \E s \in SlotIds :
                                 s = remote'[r].slot /\ Retired(s)')
  <2>1. PICK s \in SlotsOf(e) : r = slot[s].native /\ r # NoRemote
    BY DEF NativesOf
  <2>2. s \in SlotIds /\ slot[s] \in SlotRow /\ r \in Remotes /\ Ours(r, s)
    BY <2>1, Numbers DEF SlotsOf, SlotRow, Rows, DiscordShape
  <2>3. Ours(r, s)'
    BY <2>2, OursKept
  <2>4. QED BY <2>1, <2>2, <2>3 DEF Ours
<1>2. m \in Removal
  <2>1. PICK pc \in {"list"} : m = [pc |-> pc, event |-> e, slots |-> S, ids |-> m.ids]
    OBVIOUS
  <2>2. QED BY ONLY <1>1, <2>1, e \in Events, S \in SUBSET SlotIds DEF Removal
<1>3. m.event = e /\ m.slots = S
  OBVIOUS
<1>4. QED BY <1>1, <1>2, <1>3 DEF RemovalOK, Retired

\* event_create, event_schedule, event_archive
LEMMA PlainCommands ==
    ASSUME WorkerIInv, NEW e \in Events, Create(e) \/ Schedule(e) \/ Archive(e) PROVE WorkerIInv'
<1>1. /\ Rows /\ UNCHANGED <<now, remote, issued, late, removals, worker, pings>>
      /\ now \in Nat
  BY Parts, Numbers DEF Create, Schedule, Archive, discord
<1>2. Sound /\ NamesKept /\ StagesKept
  <2>1. CASE Create(e)
    BY <1>1, <2>1, CreateStep DEF Create
  <2>2. CASE Schedule(e)
    <3>1. PICK n \in SlotCounts : \E at \in [1..n -> FutureTimes] : FreezeSchedule(e, n, at)
      BY <2>2 DEF Schedule
    <3>2. PICK at \in [1..n -> FutureTimes] : FreezeSchedule(e, n, at)
      BY <3>1
    <3>3. n \in Nat \ {0}
      BY <3>1, WorkerAssumption
    <3>4. FutureTimes \subseteq Nat
      BY <1>1, ScheduleAssumption DEF FutureTimes
    <3>5. at \in [1..n -> Nat]
      BY <3>2, <3>4
    <3>6. QED BY <1>1, <3>2, <3>3, <3>5, FreezeStep
  <2>3. CASE Archive(e)
    BY <1>1, <2>3, OverStep DEF Archive
  <2>4. QED BY <2>1, <2>2, <2>3
<1>3. QED BY <1>1, <1>2, OutsideStep

\* event_reopen
LEMMA ReopenWorks == ASSUME WorkerIInv, NEW e \in Events, Reopen(e) PROVE WorkerIInv'
<1>1. /\ Rows /\ UNCHANGED <<now, remote, issued, late, worker, pings>>
      /\ ReopenEvent(e) /\ RemoveLater(e, RetiredSlots(e), NativesOf(SlotsOf(e)))
  BY Parts DEF Reopen, discord
<1>2. /\ Sound /\ NamesKept /\ StagesKept
      /\ \A s \in SlotsOf(e) : s <= made' /\ slot'[s].event = NoEvent
  BY <1>1, ReopenStep
<1>3. \A s \in SlotsOf(e) : Retired(s)'
  BY <1>1, <1>2, SlotsRetire
<1>4. RetiredSlots(e) = SlotsOf(e) /\ SlotsOf(e) \subseteq SlotIds
  BY DEF RetiredSlots, SlotsOf
<1>5. ASSUME NEW m \in removals' \ removals PROVE m \in Removal /\ RemovalOK(m)'
  <2>1. m = [pc |-> "list", event |-> e, slots |-> SlotsOf(e), ids |-> NativesOf(SlotsOf(e))]
    BY <1>1, <1>4, <1>5 DEF RemoveLater
  <2>2. QED BY <1>1, <1>2, <1>3, <1>4, <2>1, NewRemoval
<1>6. QED BY <1>1, <1>2, <1>5, OutsideStep

\* event_complete, event_cancel
LEMMA TransitionWorks ==
    ASSUME WorkerIInv, NEW e \in Events, NEW target \in {"completed", "cancelled"},
           Transition(e, target)
    PROVE  WorkerIInv'
<1>1. /\ Rows /\ UNCHANGED <<now, remote, issued, late, worker, pings>>
      /\ TransitionEvent(e, target) /\ RemoveLater(e, SlotIds, NativesOf(SlotsOf(e)))
  BY Parts DEF Transition, discord
<1>2. /\ Sound /\ NamesKept /\ StagesKept
      /\ event'[e].status \in {"completed", "cancelled"}
  BY <1>1, OverStep
<1>3. \A s \in SlotsOf(e) : Retired(s)'
  BY <1>1, <1>2, SlotsRetire
<1>4. ASSUME NEW m \in removals' \ removals PROVE m \in Removal /\ RemovalOK(m)'
  <2>1. m = [pc |-> "list", event |-> e, slots |-> SlotIds, ids |-> NativesOf(SlotsOf(e))]
    BY <1>1, <1>4 DEF RemoveLater
  <2>2. QED BY <1>1, <1>2, <1>3, <2>1, NewRemoval
<1>5. QED BY <1>1, <1>2, <1>4, OutsideStep

\* event_clear
LEMMA ClearWorks == ASSUME WorkerIInv, Clear PROVE WorkerIInv'
<1>1. Rows /\ UNCHANGED <<now, remote, issued, late, worker, pings>> /\ ClearOldEvents
  BY Parts DEF Clear, discord
<1>2. /\ Sound /\ NamesKept /\ StagesKept
      /\ \A e \in Clearable : event'[e].status \in {"completed", "cancelled"}
  BY <1>1, ClearStep
<1>3. ASSUME NEW m \in removals' \ removals PROVE m \in Removal /\ RemovalOK(m)'
  <2>1. PICK e \in Clearable :
           m = [pc |-> "list", event |-> e, slots |-> SlotIds, ids |-> NativesOf(SlotsOf(e))]
    BY <1>3 DEF Clear
  <2>2. e \in Events /\ event'[e].status \in {"completed", "cancelled"}
    BY <1>2 DEF Clearable
  <2>3. \A s \in SlotsOf(e) : Retired(s)'
    BY <1>1, <1>2, <2>2, SlotsRetire
  <2>4. QED BY <1>1, <1>2, <2>1, <2>2, <2>3, NewRemoval
<1>4. QED BY <1>1, <1>2, <1>3, OutsideStep

\* event_reschedule: a slot with a new time is announced anew.
LEMMA RescheduleWorks == ASSUME WorkerIInv, NEW e \in Events, Reschedule(e) PROVE WorkerIInv'
<1>1. Rows /\ Working /\ Removing /\ Pinging /\ now \in Nat
  BY Parts, Numbers
<1>2. PICK at \in [SlotsOf(e) -> FutureTimes] :
         /\ RescheduleEvent(e, at)
         /\ pings' = [s \in SlotIds |->
                         IF s \in SlotsOf(e) /\ at[s] # slot[s].at
                         THEN [round |-> pings[s].round + 1, sent |-> NoPings]
                         ELSE pings[s]]
  BY DEF Reschedule
<1>3. UNCHANGED <<now, remote, issued, late, removals, worker>>
  BY DEF Reschedule, discord
<1>4. at \in [SlotsOf(e) -> Nat]
  <2>1. FutureTimes \subseteq Nat
    BY <1>1, ScheduleAssumption DEF FutureTimes
  <2>2. QED BY <1>2, <2>1
<1>5. /\ Sound /\ NamesKept /\ UNCHANGED made
      /\ \A s \in SlotIds : slot'[s].event = slot[s].event
      /\ \A s \in SlotIds : (s \in SlotsOf(e) /\ at[s] # slot[s].at)
                               \/ slot'[s].stages = slot[s].stages
  BY <1>1, <1>2, <1>3, <1>4, RescheduleStep
<1>6. Working' /\ Removing' /\ Rows'
  BY <1>1, <1>3, <1>5, WorkerKept, RemovalsKept DEF Sound
<1>7. ASSUME NEW s \in SlotIds
      PROVE  /\ pings[s].round \in Nat /\ pings[s].sent \in [Stages -> Nat]
             /\ pings'[s] \in Pings
             /\ \/ /\ pings'[s] = pings[s] /\ slot'[s].stages = slot[s].stages
                \/ /\ pings'[s].round = pings[s].round + 1
                   /\ \A g \in Stages : pings'[s].sent[g] = 0
  <2>1. pings[s].round \in Nat /\ pings[s].sent \in [Stages -> Nat] /\ pings[s] \in Pings
    BY <1>1 DEF Pinging, Pings
  <2>2. CASE s \in SlotsOf(e) /\ at[s] # slot[s].at
    <3>1. pings'[s] = [round |-> pings[s].round + 1, sent |-> NoPings]
      BY <1>2, <2>2
    <3>2. NoPings \in [Stages -> Nat] /\ \A g \in Stages : NoPings[g] = 0
      BY DEF NoPings
    <3>3. QED BY <2>1, <3>1, <3>2 DEF Pings
  <2>3. CASE ~(s \in SlotsOf(e) /\ at[s] # slot[s].at)
    <3>1. pings'[s] = pings[s]
      BY <1>2, <2>3
    <3>2. QED BY <1>5, <2>1, <2>3, <3>1
  <2>4. QED BY <2>2, <2>3
<1>8. pings' \in [SlotIds -> Pings]
  BY <1>2, <1>7
<1>9. ASSUME NEW s \in SlotIds, NEW g \in Stages
      PROVE  /\ pings'[s].sent[g] <= 1
             /\ s > made' \/ (slot'[s].event # NoEvent /\ g \notin slot'[s].stages) =>
                   pings'[s].sent[g] = 0
  BY <1>1, <1>5, <1>7 DEF Pinging, PingShape
<1>10. ASSUME worker.pc = "send", NEW d, d = worker.ping
       PROVE  /\ d \in Reminder /\ d.slot <= made' /\ d.round <= pings'[d.slot].round
              /\ d.round = pings'[d.slot].round =>
                    /\ pings'[d.slot].sent[d.stage] = 0
                    /\ slot'[d.slot].event # NoEvent => d.stage \in slot'[d.slot].stages
  <2>1. /\ d \in Reminder /\ d.slot <= made /\ d.round <= pings[d.slot].round
        /\ d.round = pings[d.slot].round =>
              /\ pings[d.slot].sent[d.stage] = 0
              /\ slot[d.slot].event # NoEvent => d.stage \in slot[d.slot].stages
    BY <1>1, <1>10 DEF Pinging, PingShape
  <2>2. d.slot \in SlotIds /\ d.stage \in Stages /\ d.round \in Nat
    BY <2>1 DEF Reminder
  <2>3. QED BY <1>5, <1>7, <2>1, <2>2
<1>11. Pinging'
  BY <1>3, <1>8, <1>9, <1>10 DEF Pinging, PingShape
<1>12. (WorkerIInv <=> Rows /\ Working /\ Removing /\ Pinging)'
  BY Parts, PTL
<1>13. QED BY <1>6, <1>11, <1>12

-----------------------------------------------------------------------------
(***************************************************************************)
(* The removals, and what happens outside.                                 *)
(***************************************************************************)

\* A removal that goes on with less, or with what it found, is right before the step and
\* so after it.
LEMMA RemovalGoesOn ==
    ASSUME WorkerIInv, Sound, NamesKept, StagesKept, UNCHANGED <<worker, pings>>,
           NEW m \in Removal, RemovalOK(m), removals' \subseteq removals \union {m}
    PROVE  WorkerIInv'
<1>1. Rows
  BY Parts
<1>2. ASSUME NEW n \in removals' \ removals PROVE n \in Removal /\ RemovalOK(n)'
  BY <1>1, <1>2, RemovalKept
<1>3. QED BY <1>2, OutsideStep

\* The removal lists what it may delete.
LEMMA ListRetiredWorks ==
    ASSUME WorkerIInv, NEW m \in removals, ListRetired(m) PROVE WorkerIInv'
<1> DEFINE found == {r \in Listed(remote) :
                        \/ r \in m.ids
                        \/ remote[r].event = m.event /\ remote[r].slot \in m.slots}
<1>1. /\ Rows /\ m \in Removal /\ RemovalOK(m) /\ m.pc = "list"
      /\ UNCHANGED <<event, slot, made, now, remote, issued, late, worker, pings>>
  BY Parts DEF ListRetired, Removing, discord
<1>2. Sound /\ NamesKept /\ StagesKept
  BY <1>1, QuietStep
<1>3. ASSUME NEW r \in found
      PROVE  r \in Remotes /\ r <= issued /\ Retired(remote[r].slot)
  <2>1. r \in Remotes /\ remote[r] # NoNative /\ r <= issued /\ Belongs(remote[r])
    BY <1>1 DEF Listed, Rows, DiscordShape
  <2>2. CASE r \in m.ids
    BY <1>1, <2>1, <2>2 DEF RemovalOK
  <2>3. CASE remote[r].event = m.event /\ remote[r].slot \in m.slots
    BY <1>1, <2>1, <2>3 DEF RemovalOK, Belongs, Retired
  <2>4. QED BY <2>2, <2>3
<1>4. PICK pc \in {"delete"} :
         removals' \subseteq removals \union {[m EXCEPT !.pc = pc, !.ids = found]}
  BY DEF ListRetired
<1> HIDE DEF found
<1>5. PICK F : F = found
  OBVIOUS
<1>6. PICK n : n = [m EXCEPT !.pc = pc, !.ids = F]
  OBVIOUS
<1>7. n \in Removal /\ n.pc = "delete" /\ n.ids = F
  <2>1. F \in SUBSET Remotes /\ m \in Removal /\ pc \in {"list", "delete"}
    BY <1>1, <1>3, <1>5
  <2>2. n \in Removal /\ n.pc = pc /\ n.ids = F
    BY ONLY <1>6, <2>1 DEF Removal
  <2>3. QED BY <2>2
<1>8. RemovalOK(n)
  BY <1>3, <1>5, <1>7 DEF RemovalOK
<1>9. QED BY <1>1, <1>2, <1>4, <1>5, <1>6, <1>7, <1>8, RemovalGoesOn

\* A deletion that takes effect or not.
LEMMA MaybeGone ==
    ASSUME Rows, NEW r \in Remotes, Deleted(r) \/ NotDeleted(r),
           UNCHANGED <<event, slot, made, now, issued, late>>
    PROVE  Sound /\ NamesKept /\ StagesKept
BY GoneStep, QuietStep DEF Deleted, NotDeleted

\* And deletes one after the other.
LEMMA DeleteRetiredWorks ==
    ASSUME WorkerIInv, NEW m \in removals, NEW r \in Remotes, DeleteRetired(m, r) PROVE WorkerIInv'
<1>1. /\ Rows /\ m \in Removal /\ RemovalOK(m) /\ m.pc = "delete"
      /\ UNCHANGED <<event, slot, made, now, issued, late, worker, pings>>
  BY Parts DEF DeleteRetired, Removing
<1>2. Sound /\ NamesKept /\ StagesKept
  BY <1>1, MaybeGone DEF DeleteRetired
<1>3. PICK n : n = [m EXCEPT !.ids = @ \ {r}]
  OBVIOUS
<1>4. removals' \subseteq removals \union {n}
  BY <1>3 DEF DeleteRetired
<1>5. n \in Removal /\ n.pc = "delete" /\ n.ids \subseteq m.ids
  BY <1>1, <1>3 DEF Removal
<1>6. RemovalOK(n)
  BY <1>1, <1>5 DEF RemovalOK
<1>7. QED BY <1>1, <1>2, <1>4, <1>5, <1>6, RemovalGoesOn

\* A member deletes, edits or starts a Discord event.
LEMMA MemberWorks == ASSUME WorkerIInv, NEW r \in Remotes, Member(r) PROVE WorkerIInv'
<1>1. /\ Rows /\ remote[r] # NoNative /\ remote[r] \in Native /\ Belongs(remote[r])
      /\ UNCHANGED <<event, slot, made, now, issued, late, removals, worker, pings>>
  BY Parts DEF Member, Listed, Rows, DiscordShape, schedule
<1>2. Sound /\ NamesKept /\ StagesKept
  <2>1. CASE Gone(r)
    BY <1>1, <2>1, GoneStep
  <2>2. ASSUME NEW n, n = [remote[r] EXCEPT !.at = 0] \/ n = [remote[r] EXCEPT !.live = "started"],
               remote' = [remote EXCEPT ![r] = n]
        PROVE  Sound /\ NamesKept /\ StagesKept
    <3>1. n \in Native /\ n.slot = remote[r].slot /\ n.event = remote[r].event
      BY <1>1, <2>2 DEF Native
    <3>2. Belongs(n)
      BY <1>1, <3>1 DEF Belongs
    <3>3. QED BY <1>1, <2>2, <3>1, <3>2, ShownStep
  <2>3. QED BY <1>1, <2>1, <2>2 DEF Member
<1>3. QED BY <1>1, <1>2, OutsideStep

\* A create that was given up happens after all.
LEMMA LateCreateWorks == ASSUME WorkerIInv, NEW n \in late, LateCreate(n) PROVE WorkerIInv'
<1>1. /\ Rows /\ n \in Native /\ Belongs(n) /\ Make(n) /\ late' \subseteq late
      /\ UNCHANGED <<event, slot, made, now, removals, worker, pings>>
  BY Parts DEF LateCreate, Rows, DiscordShape, schedule
<1>2. QED BY <1>1, MadeStep, OutsideStep

\* The clock.
LEMMA TickWorks == ASSUME WorkerIInv, Tick PROVE WorkerIInv'
<1>1. /\ Rows /\ now' = now + 1
      /\ UNCHANGED <<event, slot, made, remote, issued, late, removals, worker, pings>>
  BY Parts DEF Tick, discord, schedule
<1>2. QED BY <1>1, QuietStep, OutsideStep

-----------------------------------------------------------------------------
(***************************************************************************)
(* How a cycle goes on.                                                    *)
(***************************************************************************)

\* The cycle v comes from w: what was copied stays, and it is not the listing any more.
From(v, w) ==
    /\ v \in Cycle /\ v.now = w.now /\ v.copy = w.copy /\ v.due = w.due /\ v.known = w.known

\* An event is done, as far as this cycle is concerned.
LEMMA DoneEventCycle ==
    ASSUME NEW w \in Cycle, NEW e
    PROVE  /\ From(DoneEvent(w, e), w) /\ DoneEvent(w, e).pc = "events"
<1>1. PICK pc \in {"events"}, r \in {NoRemote}, n \in {NoEvent}, z \in {0}, b \in {{}} : 
         DoneEvent(w, e) = [w EXCEPT !.pc = pc, !.todo = w.todo \ {e}, !.event = n,
                                     !.batch = b, !.cur = z, !.target = r, !.retire = b]
  BY DEF DoneEvent
<1>2. PICK t : t = w.todo \ {e}
  OBVIOUS
<1>3. t \in SUBSET Events
  BY <1>2 DEF Cycle
<1>4. DoneEvent(w, e) = [w EXCEPT !.pc = pc, !.todo = t, !.event = n,
                                  !.batch = b, !.cur = z, !.target = r, !.retire = b]
  BY <1>1, <1>2
<1>5. QED BY ONLY <1>4, <1>3, w \in Cycle, pc \in {"events"}, r \in {NoRemote}, n \in {NoEvent}, z \in {0}, b \in {{}} DEF Cycle, From

\* The next slot of the batch, or the next event.
LEMMA DoneSlotCycle ==
    ASSUME NEW w \in Cycle, w.event \in Events,
           w.batch \subseteq {s \in SlotIds : w.copy[s].row.event = w.event}
    PROVE  From(DoneSlot(w), w) /\ DoneSlot(w).pc \in {"events", "sync"} /\ InBatch(DoneSlot(w))
<1>1. CASE w.batch \ {w.cur} = {}
  <2>1. DoneSlot(w) = DoneEvent(w, w.event)
    BY <1>1 DEF DoneSlot
  <2>2. From(DoneSlot(w), w) /\ DoneSlot(w).pc = "events"
    BY <2>1, DoneEventCycle
  <2>3. QED BY <2>2 DEF InBatch, AtSlot
<1>2. CASE w.batch \ {w.cur} # {}
  <2>1. PICK b : b = w.batch \ {w.cur}
    OBVIOUS
  <2>2. PICK pc \in {"sync"}, z \in {0}, r \in {NoRemote} :
           DoneSlot(w) = [w EXCEPT !.pc = pc, !.batch = b, !.cur = z, !.target = r]
    BY <1>2, <2>1 DEF DoneSlot
  <2>3. b \in SUBSET SlotIds
    BY <2>1 DEF Cycle
  <2>4. PICK v : v = DoneSlot(w)
    OBVIOUS
  <2>5. From(v, w) /\ v.pc = "sync" /\ v.event = w.event /\ v.batch = b
    BY ONLY <2>2, <2>3, <2>4, w \in Cycle, pc \in {"sync"}, z \in {0}, r \in {NoRemote}
       DEF Cycle, From
  <2>6. v.batch \subseteq {s \in SlotIds : v.copy[s].row.event = v.event}
    BY <2>1, <2>5 DEF From
  <2>7. QED BY <2>4, <2>5, <2>6 DEF InBatch, AtSlot
<1>3. QED BY <1>1, <1>2

\* A step of the worker on its way.
LEMMA CycleStep ==
    ASSUME WorkerIInv, Sound, StagesKept, UNCHANGED <<pings, removals>>,
           From(worker', worker), InBatch(worker'),
           worker'.pc \notin {"list", "prune", "send"},
           (worker.pc \in AtSlot => Ours(worker.target, worker.cur))'
    PROVE  WorkerIInv'
<1>1. Rows /\ Working /\ Removing /\ Pinging
  BY Parts
<1>2. Follows
  BY DEF Follows, From
<1>3. Working'
  BY <1>1, <1>2, WorkerFollows
<1>4. Removing' /\ Pinging' /\ Rows'
  BY <1>1, RemovalsKept, PingsKept DEF Sound
<1>5. (WorkerIInv <=> Rows /\ Working /\ Removing /\ Pinging)'
  BY Parts, PTL
<1>6. QED BY <1>3, <1>4, <1>5

\* A step that ends what the worker does about a slot.
LEMMA SlotDone ==
    ASSUME WorkerIInv, Sound, StagesKept, UNCHANGED <<pings, removals>>,
           worker.pc \in {"sync", "replace", "create", "edit", "answer", "discard"},
           NEW w \in Cycle, From(w, worker), w.event = worker.event, w.batch = worker.batch,
           worker' = DoneSlot(w)
    PROVE  WorkerIInv'
<1>1. InBatch(worker)
  BY Parts DEF Working
<1>2. w.event \in Events /\ w.batch \subseteq {s \in SlotIds : w.copy[s].row.event = w.event}
  BY <1>1 DEF InBatch, From
<1>3. From(worker', w) /\ worker'.pc \in {"events", "sync"} /\ InBatch(worker')
  BY <1>2, DoneSlotCycle
<1>4. From(worker', worker)
  BY <1>3 DEF From
<1>5. QED BY <1>3, <1>4, CycleStep DEF AtSlot

\* A step that goes on with the slot.
LEMMA SlotGoesOn ==
    ASSUME WorkerIInv, Sound, StagesKept, UNCHANGED <<pings, removals>>,
           worker.pc \in {"sync", "replace", "create", "edit", "answer", "discard"},
           NEW s \in worker.batch, NEW pc, NEW r \in Remotes \union {NoRemote},
           worker' = [worker EXCEPT !.cur = s, !.pc = pc, !.target = r],
           pc = "create" \/ (pc \in AtSlot /\ r \in Remotes /\ Ours(r, s)')
    PROVE  WorkerIInv'
<1>1. InBatch(worker) /\ worker \in Cycle
  BY Parts DEF Working, WorkShape
<1>2. /\ worker.event \in Events /\ s \in SlotIds
      /\ worker.batch \subseteq {t \in SlotIds : worker.copy[t].row.event = worker.event}
  BY <1>1 DEF InBatch
<1>3. /\ From(worker', worker) /\ worker'.pc = pc /\ worker'.event = worker.event
      /\ worker'.batch = worker.batch /\ worker'.cur = s /\ worker'.target = r
  <2>1. pc \in {"sync", "create", "replace", "edit", "answer", "discard"}
    BY DEF AtSlot
  <2>2. PICK v, w : v = worker' /\ w = worker
    OBVIOUS
  <2>3. v = [w EXCEPT !.cur = s, !.pc = pc, !.target = r] /\ w \in Cycle
    BY <1>1, <2>2
  <2>4. /\ From(v, w) /\ v.pc = pc /\ v.event = w.event
        /\ v.batch = w.batch /\ v.cur = s /\ v.target = r
    BY ONLY <1>2, <2>1, <2>3, r \in Remotes \union {NoRemote} DEF Cycle, From
  <2>5. QED BY <2>2, <2>4
<1>4. InBatch(worker')
  BY <1>2, <1>3 DEF InBatch, From, AtSlot
<1>5. QED BY <1>3, <1>4, CycleStep DEF AtSlot, Ours

\* A step that leaves the event.
LEMMA EventStep ==
    ASSUME WorkerIInv, Sound, StagesKept, UNCHANGED <<pings, removals>>,
           From(worker', worker), worker'.pc \in {"events", "remove"}
    PROVE  WorkerIInv'
BY CycleStep DEF InBatch, AtSlot

-----------------------------------------------------------------------------
(***************************************************************************)
(* The worker's steps on events and their Discord events.                  *)
(***************************************************************************)

\* What the invariant says of the worker.
LEMMA WorkerFacts ==
    ASSUME WorkerIInv
    PROVE  /\ Rows /\ worker \in Cycle /\ InBatch(worker) /\ CopyShape /\ KnownShape
           /\ worker.pc \in AtSlot => Ours(worker.target, worker.cur)
           /\ \A s \in SlotIds : Copied(s) \in SlotRow /\ worker.copy[s].revision \in Nat
BY Parts DEF Working, WorkShape, AtSlot, Copied, Cycle, Copy

\* A slot of the batch was copied with its event.
LEMMA BatchFacts ==
    ASSUME WorkerIInv, NEW s \in worker.batch,
           worker.pc \in {"sync", "replace", "create", "edit", "answer", "discard"}
    PROVE  /\ s \in SlotIds /\ worker.event \in Events /\ Copied(s).event = worker.event
           /\ s <= made /\ slot[s].event \in {worker.event, NoEvent}
           /\ NativeFor(s) \in Native /\ Belongs(NativeFor(s))
<1>1. Rows /\ InBatch(worker) /\ CopyShape /\ NoEvent \notin Events
  BY WorkerFacts, ScheduleAssumption
<1>2. /\ s \in SlotIds /\ worker.event \in Events /\ Copied(s).event = worker.event
      /\ Copied(s) \in SlotRow
  BY <1>1, WorkerFacts DEF InBatch, Copied
<1>3. s <= made /\ slot[s].event \in {worker.event, NoEvent}
  BY <1>1, <1>2 DEF CopyShape, Copied
<1>4. PICK live \in {"scheduled"} :
         NativeFor(s) = [event |-> worker.event, slot |-> s, at |-> Copied(s).at, live |-> live]
  BY <1>2 DEF NativeFor
<1>5. NativeFor(s) \in Native
  BY <1>2, <1>4 DEF Native, SlotRow
<1>6. QED BY <1>2, <1>3, <1>4, <1>5 DEF Belongs

\* The slot at which the worker is.
LEMMA CurFacts ==
    ASSUME WorkerIInv, worker.pc \in {"replace", "create", "edit", "answer", "discard"}
    PROVE  /\ worker.cur \in worker.batch /\ worker.cur \in SlotIds
           /\ worker.pc # "create" => worker.target \in Remotes /\ Ours(worker.target, worker.cur)
<1>1. InBatch(worker) /\ (worker.pc \in AtSlot => Ours(worker.target, worker.cur))
  BY WorkerFacts
<1>2. QED BY <1>1 DEF InBatch, AtSlot

\* The worker's own state comes from itself.
LEMMA FromItself == ASSUME NEW w \in Cycle PROVE From(w, w)
BY DEF From

\* What matches a slot is a Discord event of the slot.
LEMMA MatchesAreOurs ==
    ASSUME WorkerIInv, NEW s \in SlotIds, NEW r \in Matches(s) PROVE r \in Remotes /\ Ours(r, s)
<1>1. CopyShape /\ KnownShape
  BY WorkerFacts
<1>2. CASE Copied(s).native \in Listed(worker.known)
  <2>1. r = Copied(s).native /\ r \in Remotes
    BY <1>2 DEF Matches, Listed
  <2>2. r # NoRemote
    BY <2>1 DEF Remotes, NoRemote
  <2>3. QED BY <1>1, <2>1, <2>2 DEF CopyShape, Copied
<1>3. CASE Copied(s).native \notin Listed(worker.known)
  <2>1. r \in Remotes /\ worker.known[r] # NoNative /\ worker.known[r].slot = s
    BY <1>3 DEF Matches, MirrorsOf, Listed
  <2>2. QED BY <1>1, <2>1 DEF KnownShape
<1>4. QED BY <1>2, <1>3

LEMMA SkipWorks == ASSUME WorkerIInv, NEW s \in SlotIds, Skip(s) PROVE WorkerIInv'
<1>1. /\ Rows /\ worker \in Cycle /\ worker.pc = "sync"
      /\ UNCHANGED <<event, slot, made, now, remote, issued, late, removals, pings>>
      /\ worker' = DoneSlot([worker EXCEPT !.cur = s])
  BY WorkerFacts DEF Skip, discord, schedule
<1>2. PICK w : w = [worker EXCEPT !.cur = s]
  OBVIOUS
<1>3. From(w, worker) /\ w.event = worker.event /\ w.batch = worker.batch
  BY ONLY <1>1, <1>2, s \in SlotIds DEF Cycle, From
<1>4. Sound /\ StagesKept
  BY <1>1, QuietStep
<1>5. QED BY <1>1, <1>2, <1>3, <1>4, SlotDone DEF From

LEMMA SyncWorks == ASSUME WorkerIInv, NEW s \in SlotIds, Sync(s) PROVE WorkerIInv'
<1> DEFINE at(pc, r) == [worker EXCEPT !.cur = s, !.pc = pc, !.target = r]
<1>1. /\ Rows /\ worker \in Cycle /\ worker.pc = "sync" /\ s \in worker.batch
      /\ UNCHANGED <<event, made, now, remote, issued, late, removals, pings>>
  BY WorkerFacts DEF Sync, discord
<1>2. CASE UNCHANGED slot /\ worker' = at("create", NoRemote)
  <2>1. Sound /\ StagesKept
    BY <1>1, <1>2, QuietStep
  <2>2. QED BY <1>1, <1>2, <2>1, SlotGoesOn
<1>3. ASSUME NEW r \in Matches(s), UNCHANGED slot, NEW pc \in {"replace", "edit"},
             worker' = at(pc, r)
      PROVE  WorkerIInv'
  <2>1. Sound /\ StagesKept
    BY <1>1, <1>3, QuietStep
  <2>2. r \in Remotes /\ Ours(r, s)'
    BY <1>1, <1>3, <2>1, MatchesAreOurs, OursKept
  <2>3. QED BY <1>1, <1>3, <2>1, <2>2, SlotGoesOn DEF AtSlot
<1>4. ASSUME NEW r \in Matches(s), StoreNative(s, r), worker' = DoneSlot(at("sync", r))
      PROVE  WorkerIInv'
  <2>1. r \in Remotes /\ Ours(r, s)
    BY MatchesAreOurs
  <2>2. Sound /\ StagesKept
    BY <1>1, <1>4, <2>1, StoreStep
  <2>3. PICK pc \in {"sync"} : worker' = DoneSlot(at(pc, r))
    BY <1>4
  <2>4. PICK w : w = at(pc, r)
    OBVIOUS
  <2>5. From(w, worker) /\ w.event = worker.event /\ w.batch = worker.batch
    BY ONLY <1>1, <2>1, <2>4, s \in SlotIds, pc \in {"sync"} DEF Cycle, From
  <2>6. QED BY <1>1, <2>2, <2>3, <2>4, <2>5, SlotDone DEF From
<1>5. QED BY <1>2, <1>3, <1>4 DEF Sync

LEMMA ReplaceWorks == ASSUME WorkerIInv, ReplaceStarted PROVE WorkerIInv'
<1>1. /\ Rows /\ worker \in Cycle /\ worker.pc = "replace"
      /\ worker.target \in Remotes /\ worker.cur \in worker.batch
      /\ UNCHANGED <<event, slot, made, now, issued, late, removals, pings>>
  BY WorkerFacts, CurFacts DEF ReplaceStarted, schedule
<1>2. Sound /\ StagesKept
  BY <1>1, MaybeGone, QuietStep DEF ReplaceStarted
<1>3. CASE worker' = DoneSlot(worker)
  BY <1>1, <1>2, <1>3, SlotDone, FromItself
<1>4. CASE worker' = [worker EXCEPT !.pc = "create", !.target = NoRemote]
  <2>1. worker' = [worker EXCEPT !.cur = worker.cur, !.pc = "create", !.target = NoRemote]
    BY <1>1, <1>4 DEF Cycle
  <2>2. QED BY <1>1, <1>2, <2>1, SlotGoesOn
<1>5. QED BY <1>3, <1>4 DEF ReplaceStarted

LEMMA CreateNativeWorks == ASSUME WorkerIInv, CreateNative PROVE WorkerIInv'
<1> DEFINE n == NativeFor(worker.cur)
<1>1. /\ Rows /\ worker \in Cycle /\ worker.pc = "create"
      /\ worker.cur \in worker.batch /\ n \in Native /\ Belongs(n)
      /\ UNCHANGED <<event, slot, made, now, removals, pings>>
  BY WorkerFacts, CurFacts, BatchFacts DEF CreateNative, schedule
<1>2. CASE /\ Make(n) /\ UNCHANGED late
           /\ worker' = [worker EXCEPT !.pc = "answer", !.target = issued + 1]
  <2>1. /\ Sound /\ StagesKept /\ issued + 1 \in Remotes /\ issued' = issued + 1
        /\ remote'[issued + 1] = n
    BY <1>1, <1>2, MadeStep
  <2>2. PICK r \in Remotes : r = issued + 1
    BY <2>1
  <2>3. worker' = [worker EXCEPT !.cur = worker.cur, !.pc = "answer", !.target = r]
    BY <1>1, <1>2, <2>2 DEF Cycle
  <2>4. n.slot = worker.cur
    BY DEF NativeFor
  <2>5. PICK s : s = worker.cur
    OBVIOUS
  <2>6. Ours(r, s)'
    BY <2>1, <2>2, <2>4, <2>5 DEF Ours, Remotes
  <2>7. QED BY <1>1, <2>1, <2>3, <2>5, <2>6, SlotGoesOn DEF AtSlot
<1>3. CASE /\ late' \in {late, late \union {n}} /\ worker' = DoneSlot(worker)
           /\ UNCHANGED <<remote, issued>>
  <2>1. /\ remote' \in [Remotes -> Native] /\ issued' \in Remotes \union {0} /\ issued <= issued'
        /\ \A r \in Remotes : NativeKept(r)
        /\ \A r \in Remotes : remote'[r] # NoNative => r <= issued' /\ Belongs(remote'[r])
        /\ late' \subseteq Native /\ \A m \in late' : Belongs(m)
    BY <1>1, <1>3, Numbers DEF Rows, DiscordShape, NativeKept
  <2>2. Sound /\ StagesKept
    BY <1>1, <2>1, DiscordStep
  <2>3. QED BY <1>1, <1>3, <2>2, SlotDone, FromItself
<1>4. QED BY <1>2, <1>3 DEF CreateNative

LEMMA EditNativeWorks == ASSUME WorkerIInv, EditNative PROVE WorkerIInv'
<1> DEFINE n == NativeFor(worker.cur)
<1>1. /\ Rows /\ worker \in Cycle /\ worker.pc = "edit"
      /\ worker.target \in Remotes /\ Ours(worker.target, worker.cur)
      /\ worker.cur \in worker.batch /\ n \in Native /\ Belongs(n)
      /\ UNCHANGED <<event, slot, made, now, issued, late, removals, pings>>
  BY WorkerFacts, CurFacts, BatchFacts DEF EditNative, schedule
<1>2. CASE /\ remote[worker.target] # NoNative
           /\ remote' = [remote EXCEPT ![worker.target] = n]
           /\ worker' = [worker EXCEPT !.pc = "answer"]
  <2>1. n.slot = remote[worker.target].slot
    BY <1>1, <1>2 DEF NativeFor, Ours
  <2>2. Sound /\ StagesKept
    BY <1>1, <1>2, <2>1, ShownStep
  <2>3. worker' = [worker EXCEPT !.cur = worker.cur, !.pc = "answer", !.target = worker.target]
    BY <1>1, <1>2 DEF Cycle
  <2>4. PICK r, s : r = worker.target /\ s = worker.cur
    OBVIOUS
  <2>5. Ours(r, s)'
    BY <1>1, <2>2, <2>4, OursKept
  <2>6. QED BY <1>1, <2>2, <2>3, <2>4, <2>5, SlotGoesOn DEF AtSlot
<1>3. CASE worker' = DoneSlot(worker) /\ UNCHANGED remote
  <2>1. Sound /\ StagesKept
    BY <1>1, <1>3, QuietStep
  <2>2. QED BY <1>1, <1>3, <2>1, SlotDone, FromItself
<1>4. QED BY <1>2, <1>3 DEF EditNative

LEMMA AnswerWorks == ASSUME WorkerIInv, Answer PROVE WorkerIInv'
<1>1. /\ Rows /\ worker \in Cycle /\ worker.pc = "answer"
      /\ worker.target \in Remotes /\ Ours(worker.target, worker.cur)
      /\ worker.cur \in worker.batch /\ worker.cur \in SlotIds
      /\ UNCHANGED <<event, made, now, remote, issued, late, removals, pings>>
  BY WorkerFacts, CurFacts DEF Answer, discord
<1>2. Sound /\ StagesKept
  <2>1. CASE StoreNative(worker.cur, worker.target)
    BY <1>1, <2>1, StoreStep
  <2>2. CASE UNCHANGED slot
    BY <1>1, <2>2, QuietStep
  <2>3. QED BY <2>1, <2>2 DEF Answer
<1>3. CASE worker' = DoneSlot(worker)
  BY <1>1, <1>2, <1>3, SlotDone, FromItself
<1>4. CASE worker' = [worker EXCEPT !.pc = "discard"]
  <2>1. worker' = [worker EXCEPT !.cur = worker.cur, !.pc = "discard", !.target = worker.target]
    BY <1>1, <1>4 DEF Cycle
  <2>2. PICK r, s : r = worker.target /\ s = worker.cur
    OBVIOUS
  <2>3. Ours(r, s)'
    BY <1>1, <1>2, <2>2, OursKept
  <2>4. QED BY <1>1, <1>2, <2>1, <2>2, <2>3, SlotGoesOn DEF AtSlot
<1>5. QED BY <1>3, <1>4 DEF Answer

LEMMA DiscardWorks == ASSUME WorkerIInv, Discard PROVE WorkerIInv'
<1>1. /\ Rows /\ worker \in Cycle /\ worker.pc = "discard" /\ worker.target \in Remotes
      /\ UNCHANGED <<event, slot, made, now, issued, late, removals, pings>>
      /\ worker' = DoneSlot(worker)
  BY WorkerFacts, CurFacts DEF Discard, schedule
<1>2. Sound /\ StagesKept
  BY <1>1, MaybeGone DEF Discard
<1>3. QED BY <1>1, <1>2, SlotDone, FromItself

\* The worker completes an event, and has its Discord events removed.
LEMMA RollOverWorks == ASSUME WorkerIInv, NEW e \in Events, RollOver(e) PROVE WorkerIInv'
<1>1. /\ Rows /\ worker \in Cycle
      /\ UNCHANGED <<now, remote, issued, late, removals, pings>>
  BY WorkerFacts DEF RollOver, discord
<1>2. Sound /\ StagesKept
  <2>1. CASE TransitionEvent(e, "completed")
    BY <1>1, <2>1, OverStep
  <2>2. CASE UNCHANGED schedule
    BY <1>1, <2>2, QuietStep DEF schedule
  <2>3. QED BY <2>1, <2>2 DEF RollOver
<1>3. CASE worker' = DoneEvent(worker, e)
  BY <1>1, <1>2, <1>3, DoneEventCycle, EventStep
<1>4. ASSUME NEW F \in SUBSET Remotes,
             worker' = [worker EXCEPT !.pc = "remove", !.event = e, !.retire = F]
      PROVE  WorkerIInv'
  <2>1. PICK w : w = worker
    OBVIOUS
  <2>2. PICK v : v = [w EXCEPT !.pc = "remove", !.event = e, !.retire = F]
    OBVIOUS
  <2>3. From(v, w) /\ v.pc = "remove"
    BY ONLY <1>1, <2>1, <2>2, e \in Events, F \in SUBSET Remotes DEF Cycle, From
  <2>4. QED BY <1>1, <1>2, <1>4, <2>1, <2>2, <2>3, EventStep
<1>5. QED BY <1>3, <1>4 DEF RollOver, Listed

LEMMA RemoveMirrorWorks == ASSUME WorkerIInv, NEW r \in Remotes, RemoveMirror(r) PROVE WorkerIInv'
<1>1. /\ Rows /\ worker \in Cycle /\ worker.pc = "remove" /\ r \in worker.retire
      /\ UNCHANGED <<event, slot, made, now, issued, late, removals, pings>>
  BY WorkerFacts DEF RemoveMirror, schedule
<1>2. Sound /\ StagesKept
  BY <1>1, MaybeGone DEF RemoveMirror
<1>3. CASE worker' = DoneEvent(worker, worker.event)
  BY <1>1, <1>2, <1>3, DoneEventCycle, EventStep
<1>4. CASE worker' = [worker EXCEPT !.retire = @ \ {r}]
  <2>1. PICK F : F = worker.retire \ {r}
    OBVIOUS
  <2>2. F \in SUBSET Remotes
    BY <1>1, <2>1 DEF Cycle
  <2>3. PICK w, v : w = worker /\ v = [w EXCEPT !.retire = F]
    OBVIOUS
  <2>4. From(v, w) /\ v.pc = w.pc
    BY ONLY <1>1, <2>2, <2>3 DEF Cycle, From
  <2>5. QED BY <1>1, <1>2, <1>4, <2>1, <2>3, <2>4, EventStep
<1>5. QED BY <1>3, <1>4 DEF RemoveMirror

\* The worker takes up an event.
LEMMA StartEventWorks == ASSUME WorkerIInv, NEW e \in Events, StartEvent(e) PROVE WorkerIInv'
<1>1. /\ Rows /\ worker \in Cycle
      /\ UNCHANGED <<event, slot, made, now, remote, issued, late, removals, pings>>
  BY WorkerFacts DEF StartEvent, discord, schedule
<1>2. Sound /\ StagesKept
  BY <1>1, QuietStep
<1>3. CASE worker' = DoneEvent(worker, e)
  BY <1>1, <1>2, <1>3, DoneEventCycle, EventStep
<1>4. ASSUME NEW S \in SUBSET SlotIds, IsBatch(e, S),
             worker' = [worker EXCEPT !.pc = "sync", !.event = e, !.batch = S]
      PROVE  WorkerIInv'
  <2>1. PICK w : w = worker
    OBVIOUS
  <2>2. PICK v : v = [w EXCEPT !.pc = "sync", !.event = e, !.batch = S]
    OBVIOUS
  <2>3. From(v, w) /\ v.pc = "sync" /\ v.event = e /\ v.batch = S
    BY ONLY <1>1, <2>1, <2>2, e \in Events, S \in SUBSET SlotIds DEF Cycle, From
  <2>4. S \subseteq {s \in SlotIds : v.copy[s].row.event = e}
    BY <1>4, <2>1, <2>3 DEF IsBatch, Future, CopiedSlots, Copied, From
  <2>5. InBatch(v)
    BY <2>3, <2>4 DEF InBatch, AtSlot
  <2>6. worker' = v /\ From(worker', worker) /\ InBatch(worker') /\ worker'.pc = "sync"
    BY <1>4, <2>1, <2>2, <2>3, <2>5
  <2>7. QED BY <1>1, <1>2, <2>6, CycleStep DEF AtSlot
<1>5. QED BY <1>3, <1>4 DEF StartEvent

\* Steps that begin or end a cycle, or list what there is.
LEMMA WholeCycle ==
    ASSUME WorkerIInv, Sound, StagesKept, UNCHANGED <<pings, removals>>, Working',
           worker'.pc # "send"
    PROVE  WorkerIInv'
<1>1. Rows /\ Removing /\ Pinging
  BY Parts
<1>2. Removing' /\ Pinging' /\ Rows'
  BY <1>1, RemovalsKept, PingsKept DEF Sound
<1>3. (WorkerIInv <=> Rows /\ Working /\ Removing /\ Pinging)'
  BY Parts, PTL
<1>4. QED BY <1>2, <1>3

\* The cycle begins: what it copies says what the rows say.
LEMMA BeginWorks == ASSUME WorkerIInv, Begin PROVE WorkerIInv'
<1> DEFINE copied(s) == IF slot[s].event \in Scheduled
                        THEN [row |-> slot[s], revision |-> event[slot[s].event].revision]
                        ELSE [row |-> NoSlot, revision |-> 0]
           copy == [s \in SlotIds |-> copied(s)]
<1>1. /\ Rows /\ now \in Nat /\ made \in Nat
      /\ UNCHANGED <<event, slot, made, now, remote, issued, late, removals, pings>>
  BY WorkerFacts, Numbers DEF Begin, discord, schedule
<1>2. Sound /\ StagesKept
  BY <1>1, QuietStep
<1>3. PICK pc \in {"list", "events"} :
         worker' = [Idle EXCEPT !.pc = pc, !.now = now, !.todo = Scheduled, !.copy = copy]
  BY DEF Begin, Watched
<1>4. ASSUME NEW s \in SlotIds
      PROVE  /\ copied(s) \in Copy
             /\ copied(s).row.event # NoEvent =>
                   /\ slot[s].event \in Scheduled /\ copied(s).row = slot[s]
                   /\ copied(s).revision = event[slot[s].event].revision
             /\ slot[s].event \in Scheduled => copied(s).row = slot[s]
             /\ copied(s).row.native # NoRemote => copied(s).row = slot[s]
  <2>1. slot[s] \in SlotRow
    BY <1>1, Numbers
  <2>2. CASE slot[s].event \in Scheduled
    <3>1. slot[s].event \in Events
      BY <2>2 DEF Scheduled
    <3>2. event[slot[s].event].revision \in Nat
      BY <1>1, <3>1, Numbers
    <3>3. QED BY <2>1, <2>2, <3>2 DEF Copy
  <2>3. CASE slot[s].event \notin Scheduled
    <3>1. copied(s) = [row |-> NoSlot, revision |-> 0]
      BY <2>3
    <3>2. NoSlot \in SlotRow /\ NoSlot.event = NoEvent /\ NoSlot.native = NoRemote
      BY IdleCycle
    <3>3. QED BY <2>3, <3>1, <3>2 DEF Copy
  <2>4. QED BY <2>2, <2>3
<1>5. copy \in [SlotIds -> Copy] /\ \A s \in SlotIds : copy[s] = copied(s)
  BY <1>4
<1> HIDE DEF copied, copy
<1>6. PICK T, C, t : T = Scheduled /\ C = copy /\ t = now
  OBVIOUS
<1>7. PICK w, I : w = worker' /\ I = Idle
  OBVIOUS
<1>8. /\ w \in Cycle /\ w.pc = pc /\ w.now = t /\ w.copy = C /\ w.known = I.known /\ w.due = I.due
  <2>1. /\ I \in Cycle /\ T \in SUBSET Events /\ C \in [SlotIds -> Copy] /\ t \in Nat
        /\ w = [I EXCEPT !.pc = pc, !.now = t, !.todo = T, !.copy = C]
    BY <1>1, <1>3, <1>5, <1>6, <1>7, IdleCycle DEF Scheduled
  <2>2. QED BY ONLY <2>1, pc \in {"list", "events"} DEF Cycle
<1>9. /\ worker' \in Cycle /\ worker'.pc = pc /\ worker'.now = now /\ worker'.due = {}
      /\ \A s \in SlotIds : worker'.copy[s] = copied(s)
      /\ \A r \in Remotes : worker'.known[r] = NoNative
  BY <1>5, <1>6, <1>7, <1>8, IdleCycle
<1>10. WorkShape' /\ InBatch(worker)' /\ KnownShape' /\ DueShape'
  BY <1>1, <1>9 DEF WorkShape, InBatch, KnownShape, DueShape, AtSlot
<1>11. ASSUME NEW e \in Events, NEW s \in SlotIds, copied(s).row.event = e PROVE StillSays(e)'
  <2>1. e # NoEvent
    BY ScheduleAssumption
  <2>2. e \in Scheduled
    BY <1>4, <1>11, <2>1
  <2>3. ASSUME NEW u \in SlotIds
        PROVE  /\ slot[u].event = e <=> copied(u).row.event = e
               /\ slot[u].event = e => slot[u].at = copied(u).row.at
    BY <1>4, <2>1, <2>2
  <2>4. QED BY <1>1, <1>9, <2>3 DEF StillSays
<1>12. CopyShape'
  <2>1. ASSUME NEW s \in SlotIds, NEW c, c = copied(s)
        PROVE  /\ c.row.native # NoRemote => Ours(c.row.native, s)'
               /\ c.row.event # NoEvent =>
                     /\ s <= made' /\ slot'[s].event \in {c.row.event, NoEvent}
                     /\ c.revision <= event'[c.row.event].revision
                     /\ c.revision = event'[c.row.event].revision => StillSays(c.row.event)'
    <3>1. c.row.native # NoRemote => Ours(c.row.native, s)'
      BY <1>1, <1>4, <2>1 DEF Rows, DiscordShape, Ours
    <3>2. CASE c.row.event # NoEvent
      <4>1. /\ slot[s].event = c.row.event /\ c.row.event \in Events
            /\ c.revision = event[c.row.event].revision /\ c.revision \in Nat
        BY <1>4, <2>1, <3>2 DEF Scheduled, Copy
      <4>2. s <= made
        BY <1>1, <3>2, <4>1 DEF Rows, ScheduleShape
      <4>3. PICK e \in Events : e = c.row.event
        BY <4>1
      <4>4. StillSays(e)'
        BY <1>11, <2>1, <4>3
      <4>5. QED BY <1>1, <3>1, <4>1, <4>2, <4>3, <4>4
    <3>3. QED BY <3>1, <3>2
  <2>2. QED BY <1>9, <2>1 DEF CopyShape
<1>13. PruneShape'
  BY <1>1, <1>4, <1>9, Numbers, ScheduleAssumption DEF PruneShape, CopyNames, Scheduled
<1>14. QED BY <1>1, <1>2, <1>9, <1>10, <1>12, <1>13, WholeCycle DEF Working

\* What the worker holds for an orphan is no event that an active slot has stored.
LEMMA OrphansAreNotStored ==
    ASSUME WorkerIInv, worker.pc = "list", NEW s \in SlotIds,
           slot[s].event \in Scheduled, slot[s].native # NoRemote
    PROVE  slot[s].native \notin Orphans(remote)
<1>1. Rows /\ PruneShape
  BY Parts DEF Working
<1>2. CopyNames(s)
  BY <1>1 DEF PruneShape
<1>3. PICK q : q = slot[s].native
  OBVIOUS
<1>4. Copied(s).event # NoEvent /\ Copied(s).native = q /\ q # NoRemote
  BY <1>2, <1>3 DEF CopyNames, Copied
<1>5. CASE q \in Listed(remote)
  <2>1. remote[q].slot = s /\ q \in Remotes
    BY <1>1, <1>3, <1>4, <1>5 DEF Rows, DiscordShape, Ours, Listed
  <2>2. q \in MirrorsOf(remote, s)
    BY <1>5, <2>1 DEF MirrorsOf
  <2>3. Kept(MirrorsOf(remote, s), s) = q
    BY <1>4, <2>2 DEF Kept
  <2>4. QED BY <1>3, <1>4, <2>1, <2>3 DEF Orphans
<1>6. CASE q \notin Listed(remote)
  BY <1>3, <1>6 DEF Orphans
<1>7. QED BY <1>5, <1>6

\* Discord's events are listed, or the listing fails.
LEMMA ListWorks == ASSUME WorkerIInv, List PROVE WorkerIInv'
<1>1. /\ Rows /\ worker \in Cycle /\ worker.pc = "list"
      /\ UNCHANGED <<event, slot, made, now, remote, issued, late, removals, pings>>
      /\ Working /\ CopyShape /\ DueShape /\ worker.now <= now
  BY WorkerFacts, Parts DEF List, discord, schedule, Working, WorkShape
<1>2. Sound /\ StagesKept
  BY <1>1, QuietStep
<1>3. CASE worker' = [worker EXCEPT !.pc = "events"]
  <2>1. From(worker', worker) /\ worker'.pc = "events"
    BY <1>1, <1>3 DEF Cycle, From
  <2>2. QED BY <1>1, <1>2, <2>1, EventStep
<1>4. ASSUME NEW pc \in {"events", "prune"}, NEW F \in SUBSET Remotes, F = Orphans(remote),
             worker' = [worker EXCEPT !.listed = TRUE, !.known = remote, !.retire = F, !.pc = pc]
      PROVE  WorkerIInv'
  <2>0. PICK b \in {TRUE} :
           worker' = [worker EXCEPT !.listed = b, !.known = remote, !.retire = F, !.pc = pc]
    BY <1>4
  <2>1. PICK R, w, v :
           /\ R = remote /\ w = worker /\ v = worker'
           /\ v = [w EXCEPT !.listed = b, !.known = R, !.retire = F, !.pc = pc]
    BY <2>0
  <2>2. R \in [Remotes -> Native] /\ w \in Cycle
    BY <1>1, <2>1 DEF Rows
  <2>3. /\ v \in Cycle /\ v.now = w.now /\ v.copy = w.copy /\ v.due = w.due /\ v.known = R
        /\ v.pc = pc /\ v.retire = F
    BY ONLY <2>1, <2>2, b \in {TRUE}, pc \in {"events", "prune"},
       F \in SUBSET Remotes DEF Cycle
  <2>4. /\ worker' \in Cycle /\ worker'.now = worker.now /\ worker'.copy = worker.copy
        /\ worker'.due = worker.due /\ worker'.known = remote /\ worker'.pc = pc
        /\ worker'.retire = F
    BY <2>1, <2>3
  <2>5. WorkShape' /\ InBatch(worker)'
    BY <1>1, <2>4 DEF WorkShape, InBatch, AtSlot
  <2>6. CopyShape' /\ DueShape'
    BY <1>1, <1>2, <2>4, CopyKept, DueKept
  <2>7. KnownShape'
    BY <1>1, <2>4 DEF KnownShape, Ours, Rows, DiscordShape
  <2>8. PruneShape'
    <3>1. \A s \in SlotIds : slot[s].event \in Scheduled /\ slot[s].native # NoRemote =>
             slot[s].native \notin F
      BY <1>1, <1>4, OrphansAreNotStored
    <3>2. QED BY <1>1, <2>4, <3>1 DEF PruneShape, Scheduled
  <2>9. QED BY <1>1, <1>2, <2>4, <2>5, <2>6, <2>7, <2>8, WholeCycle DEF Working
<1>5. Orphans(remote) \in SUBSET Remotes
  BY DEF Orphans, Listed
<1>6. QED BY <1>3, <1>4, <1>5 DEF List

\* An orphan is deleted, or the call fails.
LEMMA PruneWorks == ASSUME WorkerIInv, NEW r \in Remotes, Prune(r) PROVE WorkerIInv'
<1>1. /\ Rows /\ worker \in Cycle /\ worker.pc = "prune" /\ Working
      /\ UNCHANGED <<event, slot, made, now, issued, late, removals, pings>>
  BY WorkerFacts, Parts DEF Prune, schedule
<1>2. Sound /\ NamesKept /\ StagesKept
  BY <1>1, MaybeGone DEF Prune
<1> PICK pc \in {"events", "prune"} : pc = IF worker.retire = {r} THEN "events" ELSE "prune"
  OBVIOUS
<1>3. PICK w, F :
         /\ w = worker /\ F = w.retire \ {r}
         /\ \/ worker' = [[w EXCEPT !.retire = F, !.pc = pc] EXCEPT !.known[r] = NoNative]
            \/ worker' = [w EXCEPT !.retire = F, !.pc = pc]
  BY DEF Prune
<1>4. PICK n : n = [w EXCEPT !.retire = F, !.pc = pc]
  OBVIOUS
<1>5. /\ n \in Cycle /\ n.now = w.now /\ n.copy = w.copy /\ n.due = w.due /\ n.known = w.known
      /\ n.pc = pc /\ n.retire = F
  <2>1. F \in SUBSET Remotes /\ w \in Cycle
    BY <1>1, <1>3 DEF Cycle
  <2>2. QED BY ONLY <1>4, <2>1, pc \in {"events", "prune"} DEF Cycle
<1>6. ASSUME NEW v, v = n \/ v = [n EXCEPT !.known[r] = NoNative]
      PROVE  /\ v \in Cycle /\ v.now = w.now /\ v.copy = w.copy /\ v.due = w.due
             /\ v.pc = pc /\ v.retire = F
             /\ \A q \in Remotes : v.known[q] \in {w.known[q], NoNative}
  <2>1. PICK K : K = [n.known EXCEPT ![r] = NoNative]
    OBVIOUS
  <2>2. NoNative \in Native
    BY DEF NoNative, Native
  <2>3. n.known \in [Remotes -> Native]
    BY <1>5 DEF Cycle
  <2>4. K \in [Remotes -> Native] /\ \A q \in Remotes : K[q] \in {n.known[q], NoNative}
    BY <2>1, <2>2, <2>3
  <2>5. CASE v = [n EXCEPT !.known[r] = NoNative]
    <3>1. v = [n EXCEPT !.known = K]
      BY <1>5, <2>1, <2>5 DEF Cycle
    <3>2. /\ v \in Cycle /\ v.now = n.now /\ v.copy = n.copy /\ v.due = n.due /\ v.pc = n.pc
          /\ v.retire = n.retire /\ v.known = K
      BY <1>5, <2>4, <3>1 DEF Cycle
    <3>3. QED BY <1>5, <2>4, <3>2
  <2>6. QED BY <1>5, <1>6, <2>5
<1>7. /\ worker' \in Cycle /\ worker'.now = worker.now /\ worker'.copy = worker.copy
      /\ worker'.due = worker.due /\ worker'.pc = pc /\ worker'.retire \subseteq worker.retire
      /\ \A q \in Remotes : worker'.known[q] \in {worker.known[q], NoNative}
  BY <1>3, <1>4, <1>6
<1>8. InBatch(worker')
  BY <1>7 DEF InBatch, AtSlot
<1>9. Follows
  BY <1>1, <1>7, <1>8 DEF Follows
<1>10. Working'
  BY <1>1, <1>2, <1>7, <1>9, WorkerFollows DEF AtSlot
<1>11. QED BY <1>1, <1>2, <1>7, <1>10, WholeCycle

-----------------------------------------------------------------------------
(***************************************************************************)
(* The worker's reminders, and a restart.                                  *)
(***************************************************************************)

\* What is due now is put on the list.
LEMMA StartRemindersWorks == ASSUME WorkerIInv, StartReminders PROVE WorkerIInv'
<1>1. /\ Rows /\ worker \in Cycle /\ worker.now <= now /\ now \in Nat /\ made \in Nat
      /\ UNCHANGED <<event, slot, made, now, remote, issued, late, removals, pings>>
  BY WorkerFacts, Parts, Numbers DEF StartReminders, discord, schedule, Working, WorkShape
<1>2. Sound /\ StagesKept
  BY <1>1, QuietStep
<1>3. CASE worker' = Idle
  BY <1>1, <1>2, <1>3, WorkerRests, WholeCycle, IdleCycle
<1>4. CASE worker' = [Idle EXCEPT !.pc = "reminders", !.now = worker.now, !.due = DueReminders]
  <2>1. PICK I, D, t, w : I = Idle /\ D = DueReminders /\ t = worker.now /\ w = worker'
    OBVIOUS
  <2>2. ASSUME NEW d \in D
        PROVE  d \in Reminder /\ d.slot <= made /\ t + Leads[d.stage] >= d.at
                              /\ t <= d.at + StartGrace
    <3>1. PICK s \in SlotIds, g \in Stages :
             /\ IsDue(s, g)
             /\ d = [slot |-> s, event |-> slot[s].event, at |-> slot[s].at, stage |-> g,
                     round |-> 0]
      BY <2>1 DEF DueReminders
    <3>2. slot[s] \in SlotRow /\ slot[s].event \in Events /\ slot[s].event # NoEvent
      BY <1>1, <3>1, Numbers, ScheduleAssumption DEF IsDue, Active, Scheduled
    <3>3. s <= made
      BY <1>1, <3>2 DEF Rows, ScheduleShape
    <3>4. /\ d \in Reminder /\ d.slot = s /\ d.stage = g /\ d.at = slot[s].at
      BY <3>1, <3>2 DEF Reminder, SlotRow
    <3>5. QED BY <2>1, <3>1, <3>3, <3>4 DEF IsDue
  <2>3. PICK pc \in {"reminders"} : w = [I EXCEPT !.pc = pc, !.now = t, !.due = D]
    BY <1>4, <2>1
  <2>4. D \in SUBSET Reminder /\ t \in Nat /\ I \in Cycle
    BY <1>1, <2>1, <2>2, IdleCycle DEF Cycle
  <2>5. /\ w \in Cycle /\ w.pc = pc /\ w.now = t /\ w.due = D /\ w.copy = I.copy
        /\ w.known = I.known
    BY ONLY <2>3, <2>4, pc \in {"reminders"} DEF Cycle
  <2>6. /\ worker' \in Cycle /\ worker'.pc = "reminders" /\ worker'.now = worker.now
        /\ worker'.due = D
        /\ \A s \in SlotIds : worker'.copy[s].row = NoSlot
        /\ \A r \in Remotes : worker'.known[r] = NoNative
        /\ NoSlot.event = NoEvent /\ NoSlot.native = NoRemote
    BY <2>1, <2>5, IdleCycle
  <2>7. /\ WorkShape' /\ InBatch(worker)' /\ CopyShape' /\ KnownShape' /\ PruneShape'
    BY <1>1, <2>6 DEF WorkShape, InBatch, CopyShape, KnownShape, PruneShape, AtSlot
  <2>8. DueShape'
    BY <1>1, <2>1, <2>2, <2>6 DEF DueShape
  <2>9. QED BY <1>1, <1>2, <2>6, <2>7, <2>8, WholeCycle DEF Working
<1>5. QED BY <1>3, <1>4 DEF StartReminders

\* A reminder is dealt with.
LEMMA ReminderDone ==
    ASSUME WorkerIInv, Sound, NEW d, worker' = DoneReminder(d)
    PROVE  Working' /\ worker'.pc # "send"
<1>1. Rows /\ worker \in Cycle /\ Working
  BY WorkerFacts, Parts
<1>2. CASE worker' = Idle
  BY <1>1, <1>2, WorkerRests, IdleCycle
<1>3. CASE worker' = [worker EXCEPT !.pc = "reminders", !.due = @ \ {d}, !.ping = NoReminder]
  <2>1. PICK w, D, v, n : /\ w = worker /\ D = worker.due \ {d} /\ v = worker'
                          /\ n = NoReminder
                          /\ v = [w EXCEPT !.pc = "reminders", !.due = D, !.ping = n]
    BY <1>3
  <2>2. D \in SUBSET Reminder /\ w \in Cycle /\ n \in {NoReminder}
    BY <1>1, <2>1 DEF Cycle
  <2>3. PICK pc \in {"reminders"} : v = [w EXCEPT !.pc = pc, !.due = D, !.ping = n]
    BY <2>1
  <2>4. /\ v \in Cycle /\ v.pc = pc /\ v.now = w.now /\ v.copy = w.copy /\ v.known = w.known
        /\ v.due = D
    BY ONLY <2>2, <2>3, pc \in {"reminders"} DEF Cycle
  <2>5. /\ worker' \in Cycle /\ worker'.pc = "reminders" /\ worker'.now = worker.now
        /\ worker'.copy = worker.copy /\ worker'.known = worker.known
        /\ worker'.due \subseteq worker.due
    BY <2>1, <2>4
  <2>6. Follows
    BY <2>5 DEF Follows, InBatch, AtSlot
  <2>7. QED BY <1>1, <2>5, <2>6, WorkerFollows DEF AtSlot
<1>4. QED BY <1>2, <1>3 DEF DoneReminder

\* The claim: the stage was not sent, because it was not used up.
LEMMA ClaimReminderWorks ==
    ASSUME WorkerIInv, NEW d \in worker.due, ClaimReminder(d) PROVE WorkerIInv'
<1>1. /\ Rows /\ worker \in Cycle /\ Working /\ Removing /\ Pinging /\ worker.pc = "reminders"
      /\ UNCHANGED <<event, made, now, remote, issued, late, removals, pings>>
      /\ DueShape
  BY WorkerFacts, Parts DEF ClaimReminder, discord, Working
<1>2. d \in Reminder /\ d.slot \in SlotIds /\ d.stage \in Stages /\ d.event \in Events
  BY <1>1 DEF Cycle, Reminder
<1>3. CASE UNCHANGED slot /\ worker' = DoneReminder(d)
  <2>1. Sound /\ StagesKept
    BY <1>1, <1>3, QuietStep
  <2>2. Working' /\ worker'.pc # "send"
    BY <1>3, <2>1, ReminderDone
  <2>3. QED BY <1>1, <2>1, <2>2, WholeCycle
<1>4. CASE /\ SameTime(d) /\ d.stage \notin slot[d.slot].stages
           /\ slot' = [slot EXCEPT ![d.slot].stages = @ \union StagesThrough(d.stage)]
           /\ worker' = [worker EXCEPT !.pc = "send", !.ping = [d EXCEPT !.round = pings[d.slot].round]]
  <2>1. PICK S \in SUBSET Stages : S = StagesThrough(d.stage) /\ d.stage \in S
    BY <1>2 DEF StagesThrough, Stages
  <2>2. /\ Sound /\ NamesKept /\ StagesKept
        /\ slot'[d.slot].stages = slot[d.slot].stages \union S
        /\ slot'[d.slot].event = slot[d.slot].event
        /\ \A t \in SlotIds \ {d.slot} : slot'[t] = slot[t]
    BY <1>1, <1>2, <1>4, <2>1, ClaimStep
  <2>3. pings[d.slot].round \in Nat /\ pings[d.slot].sent[d.stage] = 0 /\ d.slot <= made
    <3>1. slot[d.slot].event # NoEvent
      BY <1>2, <1>4, ScheduleAssumption DEF SameTime
    <3>2. pings[d.slot] \in Pings
      BY <1>1, <1>2 DEF Pinging
    <3>3. QED BY <1>1, <1>2, <1>4, <3>1, <3>2 DEF Pinging, PingShape, DueShape, Pings
  <2>4. PICK k, p : k = pings[d.slot].round /\ p = [d EXCEPT !.round = k]
    OBVIOUS
  <2>5. /\ p \in Reminder /\ p.slot = d.slot /\ p.stage = d.stage /\ p.round = k
    BY <1>2, <2>3, <2>4 DEF Reminder
  <2>0. PICK pc \in {"send"} : worker' = [worker EXCEPT !.pc = pc, !.ping = p]
    BY <1>4, <2>4
  <2>6. PICK w, v : w = worker /\ v = worker' /\ v = [w EXCEPT !.pc = pc, !.ping = p]
    BY <2>0
  <2>7. /\ v \in Cycle /\ v.pc = pc /\ v.now = w.now /\ v.copy = w.copy /\ v.known = w.known
        /\ v.due = w.due /\ v.ping = p
    BY ONLY <1>1, <2>5, <2>6, pc \in {"send"} DEF Cycle
  <2>8. /\ worker' \in Cycle /\ worker'.pc = "send" /\ worker'.now = worker.now
        /\ worker'.copy = worker.copy /\ worker'.known = worker.known
        /\ worker'.due = worker.due /\ worker'.ping = p
    BY <2>6, <2>7
  <2>9. Follows
    BY <2>8 DEF Follows, InBatch, AtSlot
  <2>10. Working' /\ Removing' /\ Rows'
    BY <1>1, <2>2, <2>8, <2>9, WorkerFollows, RemovalsKept DEF AtSlot, Sound
  <2>11. ASSUME NEW s \in SlotIds, NEW g \in Stages
         PROVE  /\ pings[s].sent[g] <= 1
                /\ s > made \/ (slot'[s].event # NoEvent /\ g \notin slot'[s].stages) =>
                      pings[s].sent[g] = 0
    <3>1. slot'[s].event = slot[s].event /\ slot[s].stages \subseteq slot'[s].stages
      BY <2>2
    <3>2. QED BY <1>1, <3>1 DEF Pinging, PingShape
  <2>12. Pinging'
    BY <1>1, <2>1, <2>2, <2>3, <2>4, <2>5, <2>8, <2>11 DEF Pinging, PingShape
  <2>13. (WorkerIInv <=> Rows /\ Working /\ Removing /\ Pinging)'
    BY Parts, PTL
  <2>14. QED BY <2>10, <2>12, <2>13
<1>5. QED BY <1>3, <1>4 DEF ClaimReminder

\* The announcement is sent once at most, whatever the answer.
LEMMA SendReminderWorks == ASSUME WorkerIInv, SendReminder PROVE WorkerIInv'
<1>1. /\ Rows /\ worker \in Cycle /\ Working /\ Removing /\ Pinging /\ worker.pc = "send"
      /\ UNCHANGED <<event, slot, made, now, remote, issued, late, removals>>
  BY WorkerFacts, Parts DEF SendReminder, discord, schedule
<1>2. Sound /\ NamesKept /\ StagesKept
  BY <1>1, QuietStep
<1>3. Working' /\ worker'.pc # "send" /\ Removing' /\ Rows'
  BY <1>1, <1>2, ReminderDone, RemovalsKept DEF SendReminder, Sound
<1>4. PICK d : d = worker.ping
  OBVIOUS
<1>5. /\ d \in Reminder /\ d.slot <= made /\ d.slot \in SlotIds /\ d.stage \in Stages
      /\ d.round = pings[d.slot].round =>
            /\ pings[d.slot].sent[d.stage] = 0
            /\ slot[d.slot].event # NoEvent => d.stage \in slot[d.slot].stages
  BY <1>1, <1>4 DEF Pinging, PingShape, Reminder
<1>6. ASSUME pings[d.slot].round = d.round, 
             pings' = [pings EXCEPT ![d.slot].sent[d.stage] = @ + 1]
      PROVE  Pinging'
  <2>1. /\ pings \in [SlotIds -> Pings] /\ pings[d.slot].sent \in [Stages -> Nat]
        /\ pings[d.slot].round \in Nat /\ pings[d.slot] \in Pings
    BY <1>1, <1>5 DEF Pinging, Pings
  <2>2. PICK f : f = [pings[d.slot].sent EXCEPT ![d.stage] = 1]
    OBVIOUS
  <2>3. /\ f \in [Stages -> Nat] /\ f[d.stage] = 1
        /\ \A g \in Stages \ {d.stage} : f[g] = pings[d.slot].sent[g]
    BY <1>5, <2>1, <2>2
  <2>4. PICK p, q : p = pings[d.slot] /\ q = [p EXCEPT !.sent = f]
    OBVIOUS
  <2>5. q \in Pings /\ q.sent = f
    BY <2>1, <2>3, <2>4 DEF Pings
  <2>6. pings' = [pings EXCEPT ![d.slot] = q]
    <3>1. pings[d.slot].sent[d.stage] + 1 = 1
      BY <1>5, <1>6
    <3>2. QED BY <1>6, <2>1, <2>2, <2>4, <3>1
  <2>7. /\ pings' \in [SlotIds -> Pings] /\ pings'[d.slot].sent = f
        /\ \A s \in SlotIds \ {d.slot} : pings'[s] = pings[s]
    BY <1>5, <2>1, <2>5, <2>6
  <2>8. ASSUME NEW s \in SlotIds, NEW g \in Stages
        PROVE  /\ pings'[s].sent[g] <= 1
               /\ s > made \/ (slot[s].event # NoEvent /\ g \notin slot[s].stages) =>
                     pings'[s].sent[g] = 0
    <3>1. CASE s = d.slot /\ g = d.stage
      <4>1. made \in Nat /\ s \in Nat /\ s <= made
        BY <1>1, <1>5, <3>1, Numbers
      <4>2. QED BY <1>5, <1>6, <2>3, <2>7, <3>1, <4>1
    <3>2. CASE ~(s = d.slot /\ g = d.stage)
      <4>1. pings'[s].sent[g] = pings[s].sent[g]
        BY <2>3, <2>7, <3>2
      <4>2. QED BY <1>1, <4>1 DEF Pinging, PingShape
    <3>3. QED BY <3>1, <3>2
  <2>9. QED BY <1>1, <1>3, <2>7, <2>8 DEF Pinging, PingShape
<1>7. ASSUME UNCHANGED pings PROVE Pinging'
  BY <1>1, <1>2, <1>3, <1>7, PingsKept
<1>8. Pinging'
  BY <1>4, <1>6, <1>7 DEF SendReminder
<1>9. (WorkerIInv <=> Rows /\ Working /\ Removing /\ Pinging)'
  BY Parts, PTL
<1>10. QED BY <1>3, <1>8, <1>9

\* What the stopped worker was creating may still be made.
LEMMA RestartWorks == ASSUME WorkerIInv, Restart PROVE WorkerIInv'
<1>1. /\ Rows /\ Pinging /\ worker' = Idle /\ removals' = {}
      /\ UNCHANGED <<event, slot, made, now, remote, issued, pings>>
  BY Parts DEF Restart, schedule
<1>2. late' \subseteq Native /\ \A n \in late' : Belongs(n)
  <2>1. CASE late' = late
    BY <1>1, <2>1 DEF Rows, DiscordShape
  <2>2. CASE worker.pc = "create" /\ late' = late \union {NativeFor(worker.cur)}
    <3>1. NativeFor(worker.cur) \in Native /\ Belongs(NativeFor(worker.cur))
      BY <2>2, CurFacts, BatchFacts
    <3>2. QED BY <1>1, <2>2, <3>1 DEF Rows, DiscordShape
  <2>3. QED BY <2>1, <2>2 DEF Restart
<1>3. /\ remote' \in [Remotes -> Native] /\ issued' \in Remotes \union {0} /\ issued <= issued'
      /\ \A r \in Remotes : NativeKept(r)
      /\ \A r \in Remotes : remote'[r] # NoNative => r <= issued' /\ Belongs(remote'[r])
  BY <1>1, Numbers DEF Rows, DiscordShape, NativeKept
<1>4. Sound /\ NamesKept /\ StagesKept
  BY <1>1, <1>2, <1>3, DiscordStep
<1>5. Working' /\ worker'.pc # "send"
  BY <1>1, <1>4, WorkerRests, IdleCycle
<1>6. Pinging' /\ Rows' /\ Removing'
  BY <1>1, <1>4, <1>5, PingsKept DEF Sound, Removing
<1>7. (WorkerIInv <=> Rows /\ Working /\ Removing /\ Pinging)'
  BY Parts, PTL
<1>8. QED BY <1>5, <1>6, <1>7

-----------------------------------------------------------------------------
(***************************************************************************)
(* The invariant holds, and what follows from it.                          *)
(***************************************************************************)

\* It holds to begin with.
LEMMA StartsRight == Init => WorkerIInv
<1> SUFFICES ASSUME Init PROVE WorkerIInv
  OBVIOUS
<1>1. /\ NoSlot \in SlotRow /\ NoSlot.event = NoEvent /\ NoSlot.native = NoRemote
      /\ Idle \in Cycle /\ Idle.pc = "idle" /\ Idle.now = 0 /\ Idle.due = {}
      /\ \A s \in SlotIds : Idle.copy[s].row = NoSlot
      /\ \A r \in Remotes : Idle.known[r] = NoNative
  BY IdleCycle
<1>2. NoNative \in Native
  BY DEF NoNative, Native
<1>3. event \in [Events -> EventRow] /\ slot \in [SlotIds -> SlotRow] /\ made = 0 /\ now = 0
  <2>1. PICK row \in EventRow : row = [status |-> "none", revision |-> 0, archived |-> FALSE]
    BY DEF EventRow, Statuses
  <2>2. QED BY <1>1, <2>1 DEF Init, ScheduleInit
<1>4. /\ remote = [r \in Remotes |-> NoNative] /\ issued = 0 /\ late = {} /\ removals = {}
      /\ worker = Idle /\ slot = [s \in SlotIds |-> NoSlot]
      /\ pings = [s \in SlotIds |-> [round |-> 0, sent |-> NoPings]]
  BY DEF Init, ScheduleInit
<1>5. /\ \A e \in Events : SlotsOf(e) = {}
      /\ \A s \in SlotIds : slot[s].event = NoEvent /\ slot[s].native = NoRemote
  BY <1>1, <1>4, ScheduleAssumption DEF SlotsOf
<1>6. Rows
  BY <1>2, <1>3, <1>4, <1>5 DEF Rows, ScheduleShape, DiscordShape
<1>7. Working
  BY <1>1, <1>3, <1>4, <1>5 DEF Working, WorkShape, InBatch, CopyShape, KnownShape, PruneShape,
                                DueShape, AtSlot
<1>8. Removing
  BY <1>4 DEF Removing
<1>9. Pinging
  <2>1. NoPings \in [Stages -> Nat] /\ \A g \in Stages : NoPings[g] = 0
    BY DEF NoPings
  <2>2. [round |-> 0, sent |-> NoPings] \in Pings
    BY <2>1 DEF Pings
  <2>3. QED BY <1>1, <1>4, <2>1, <2>2 DEF Pinging, PingShape
<1>10. QED BY <1>6, <1>7, <1>8, <1>9, Parts

\* Every step keeps it.
LEMMA WorkerStep == WorkerIInv /\ [Next]_vars => WorkerIInv'
<1> SUFFICES ASSUME WorkerIInv, [Next]_vars PROVE WorkerIInv'
  OBVIOUS
<1>1. ASSUME NEW e \in Events, Command(e) PROVE WorkerIInv'
  BY <1>1, PlainCommands, RescheduleWorks, ReopenWorks, TransitionWorks DEF Command
<1>2. CASE Clear
  BY <1>2, ClearWorks
<1>3. ASSUME NEW m \in removals, Retire(m) PROVE WorkerIInv'
  BY <1>3, ListRetiredWorks, DeleteRetiredWorks DEF Retire
<1>4. CASE Work
  <2>1. CASE Begin \/ List \/ \E r \in Remotes : Prune(r) \/ RemoveMirror(r)
    BY <2>1, BeginWorks, ListWorks, PruneWorks, RemoveMirrorWorks
  <2>2. CASE \E e \in Events : RollOver(e) \/ StartEvent(e)
    BY <2>2, RollOverWorks, StartEventWorks
  <2>3. CASE \E s \in SlotIds : Skip(s) \/ Sync(s)
    BY <2>3, SkipWorks, SyncWorks
  <2>4. CASE ReplaceStarted \/ CreateNative \/ EditNative \/ Answer \/ Discard
    BY <2>4, ReplaceWorks, CreateNativeWorks, EditNativeWorks, AnswerWorks, DiscardWorks
  <2>5. CASE StartReminders \/ (\E d \in worker.due : ClaimReminder(d)) \/ SendReminder
    BY <2>5, StartRemindersWorks, ClaimReminderWorks, SendReminderWorks
  <2>6. QED BY <1>4, <2>1, <2>2, <2>3, <2>4, <2>5 DEF Work
<1>5. CASE Restart \/ Tick
  BY <1>5, RestartWorks, TickWorks
<1>6. ASSUME NEW n \in late, LateCreate(n) PROVE WorkerIInv'
  BY <1>6, LateCreateWorks
<1>7. ASSUME NEW r \in Remotes, Member(r) PROVE WorkerIInv'
  BY <1>7, MemberWorks
<1>8. CASE UNCHANGED vars
  <2>1. /\ Rows /\ UNCHANGED <<event, slot, made, now, remote, issued, late, removals, worker, pings>>
    BY <1>8, Parts DEF vars
  <2>2. QED BY <2>1, QuietStep, OutsideStep
<1>9. QED BY <1>1, <1>2, <1>3, <1>4, <1>5, <1>6, <1>7, <1>8 DEF Next

\* The invariant that the properties below follow from: whatever administrators, members,
\* failures and restarts do, the copies that the worker and the removals act on are right.
THEOREM EventWorkerInvariance == Spec => []WorkerIInv
<1>1. Init => WorkerIInv
  BY StartsRight
<1>2. WorkerIInv /\ [Next]_vars => WorkerIInv'
  BY WorkerStep
<1>3. QED BY <1>1, <1>2, PTL DEF Spec

\* A stored id names a Discord event that was made for this very slot.
THEOREM NativeHolds == Spec => []NativeInv
<1>1. WorkerIInv => NativeInv
  BY DEF WorkerIInv, NativeInv, StoredNativeIsOurs, DiscordShape, Ours
<1>2. QED BY <1>1, EventWorkerInvariance, PTL

\* A stage of a slot's present time is delivered at most once, across failed sends,
\* overlapping changes and restarts: claim_reminder commits before the send.
THEOREM PingedOnce == Spec => []PingOnce
<1>1. WorkerIInv => PingOnce
  BY DEF WorkerIInv, PingOnce, PingShape
<1>2. QED BY <1>1, EventWorkerInvariance, PTL

-----------------------------------------------------------------------------
(***************************************************************************)
(* What the worker and the removals decide from their copies is right when *)
(* they act.                                                               *)
(***************************************************************************)

NoNewStage == \A s \in SlotIds : slot'[s].stages \subseteq slot[s].stages

\* Only a claim uses a stage up.
LEMMA CommandsUseNoStage == ASSUME WorkerIInv, NEW e \in Events, Command(e) PROVE NoNewStage
<1>1. Rows /\ slot \in [SlotIds -> SlotRow] /\ NoSlot.stages = {}
  BY Parts DEF Rows, NoSlot
<1>2. CASE Create(e) \/ Archive(e)
  BY <1>2 DEF Create, CreateEvent, Archive, ArchiveEvent, NoNewStage
<1>3. CASE Schedule(e)
  <2>1. PICK n \in SlotCounts : \E at \in [1..n -> FutureTimes] : FreezeSchedule(e, n, at)
    BY <1>3 DEF Schedule
  <2>2. PICK at \in [1..n -> FutureTimes] : FreezeSchedule(e, n, at)
    BY <2>1
  <2>3. ASSUME NEW s \in SlotIds
        PROVE  slot'[s] = slot[s] \/ \E t : slot'[s] = [NoSlot EXCEPT !.event = e, !.at = t]
    BY <2>2 DEF FreezeSchedule
  <2>4. \A t : [NoSlot EXCEPT !.event = e, !.at = t].stages = {}
    BY DEF NoSlot
  <2>5. QED BY <2>3, <2>4 DEF NoNewStage
<1>4. CASE Reschedule(e)
  <2>1. PICK at \in [SlotsOf(e) -> FutureTimes] : RescheduleEvent(e, at)
    BY <1>4 DEF Reschedule
  <2>2. ASSUME NEW s \in SlotIds
        PROVE  slot'[s] = slot[s] \/ \E t : slot'[s] = Moved(slot[s], t)
    BY <2>1 DEF RescheduleEvent
  <2>3. ASSUME NEW row \in SlotRow, NEW t PROVE Moved(row, t).stages \subseteq row.stages
    <3>1. PICK g : g = IF t = row.at THEN row.stages ELSE {}
      OBVIOUS
    <3>2. Moved(row, t) = [row EXCEPT !.at = t, !.status = "planned", !.stages = g]
      BY <3>1 DEF Moved
    <3>3. Moved(row, t).stages = g
      BY <3>2 DEF SlotRow
    <3>4. QED BY <3>1, <3>3
  <2>4. QED BY <1>1, <2>2, <2>3 DEF NoNewStage
<1>5. CASE Reopen(e)
  BY <1>1, <1>5 DEF Reopen, ReopenEvent, NoNewStage
<1>6. ASSUME NEW target \in {"completed", "cancelled"}, Transition(e, target) PROVE NoNewStage
  <2>1. slot' = Closed({e}, target)
    BY <1>6 DEF Transition, TransitionEvent
  <2>2. QED BY <1>1, <2>1, ClosedRows DEF NoNewStage
<1>7. QED BY <1>2, <1>3, <1>4, <1>5, <1>6 DEF Command

LEMMA OthersUseNoStage ==
    ASSUME WorkerIInv, [Next]_vars, \A d \in worker.due : ~ClaimReminder(d) PROVE NoNewStage
<1>1. Rows /\ slot \in [SlotIds -> SlotRow]
  BY Parts DEF Rows
<1>2. CASE UNCHANGED slot
  BY <1>2 DEF NoNewStage
<1>3. CASE \E e \in Events : Command(e)
  BY <1>3, CommandsUseNoStage
<1>4. ASSUME NEW E, slot' = Closed(E, "completed") PROVE NoNewStage
  BY <1>1, <1>4, ClosedRows DEF NoNewStage
<1>5. CASE Clear
  BY <1>4, <1>5 DEF Clear, ClearOldEvents
<1>6. ASSUME NEW e \in Events, RollOver(e) PROVE NoNewStage
  BY <1>2, <1>4, <1>6 DEF RollOver, TransitionEvent, schedule
<1>7. ASSUME NEW s \in SlotIds, NEW r, StoreNative(s, r) PROVE NoNewStage
  <2>1. ASSUME NEW t \in SlotIds PROVE slot'[t].stages = slot[t].stages
    <3>1. slot[t] \in SlotRow /\ slot[s] \in SlotRow
      BY <1>1
    <3>2. slot' = [slot EXCEPT ![s] = [slot[s] EXCEPT !.native = r]]
      BY <1>1, <1>7 DEF StoreNative
    <3>3. [slot[s] EXCEPT !.native = r].stages = slot[s].stages
      BY <3>1 DEF SlotRow
    <3>4. QED BY <1>1, <3>2, <3>3
  <2>2. QED BY <2>1 DEF NoNewStage
<1>8. ASSUME NEW s \in SlotIds, Skip(s) \/ Sync(s) PROVE NoNewStage
  BY <1>2, <1>7, <1>8 DEF Skip, Sync, schedule
<1>9. CASE Answer
  <2>1. worker.cur \in SlotIds
    BY <1>9, CurFacts DEF Answer
  <2>2. QED BY <1>2, <1>7, <1>9, <2>1 DEF Answer
<1>10. CASE Begin \/ List \/ (\E r \in Remotes : Prune(r) \/ RemoveMirror(r))
            \/ (\E e \in Events : StartEvent(e)) \/ ReplaceStarted \/ CreateNative \/ EditNative
            \/ Discard \/ StartReminders \/ SendReminder
  BY <1>2, <1>10 DEF Begin, List, Prune, RemoveMirror, StartEvent, ReplaceStarted, CreateNative,
                     EditNative, Discard, StartReminders, SendReminder, schedule
<1>11. CASE Work
  BY <1>6, <1>8, <1>9, <1>10, <1>11 DEF Work
<1>12. CASE Restart \/ Tick \/ (\E n \in late : LateCreate(n)) \/ (\E r \in Remotes : Member(r))
            \/ (\E m \in removals : Retire(m)) \/ UNCHANGED vars
  BY <1>2, <1>12 DEF Restart, Tick, LateCreate, Member, Retire, ListRetired, DeleteRetired, vars,
                     schedule
<1>13. QED BY <1>3, <1>5, <1>11, <1>12 DEF Next

\* And it does so within the window of the time that the slot has now.
LEMMA ClaimIsDue ==
    ASSUME WorkerIInv, NEW d \in worker.due, ClaimReminder(d), NEW s \in SlotIds,
           NEW g \in slot'[s].stages \ slot[s].stages
    PROVE  worker.now + Leads[g] >= slot[s].at /\ worker.now <= slot[s].at + StartGrace
<1>1. /\ Rows /\ worker \in Cycle /\ slot \in [SlotIds -> SlotRow]
      /\ d \in Reminder /\ worker.now \in Nat
      /\ worker.now + Leads[d.stage] >= d.at /\ worker.now <= d.at + StartGrace
  BY WorkerFacts, Parts DEF Working, DueShape, Rows, Cycle
<1>2. d.slot \in SlotIds /\ d.stage \in Stages /\ d.at \in Nat
  BY <1>1 DEF Reminder
<1>3. /\ slot[d.slot].at = d.at
      /\ slot' = [slot EXCEPT ![d.slot].stages = @ \union StagesThrough(d.stage)]
  BY DEF ClaimReminder, SameTime
<1>4. s = d.slot /\ g \in StagesThrough(d.stage)
  <2>1. slot[d.slot] \in SlotRow
    BY <1>1, <1>2
  <2>2. PICK S : S = slot[d.slot].stages \union StagesThrough(d.stage)
    OBVIOUS
  <2>3. slot' = [slot EXCEPT ![d.slot] = [slot[d.slot] EXCEPT !.stages = S]]
    BY <1>1, <1>3, <2>2
  <2>4. [slot[d.slot] EXCEPT !.stages = S].stages = S
    BY <2>1 DEF SlotRow
  <2>5. slot'[d.slot].stages = S /\ \A t \in SlotIds \ {d.slot} : slot'[t] = slot[t]
    BY <1>1, <1>2, <2>3, <2>4
  <2>6. QED BY <2>2, <2>5
<1>5. g \in Stages /\ Leads[g] >= Leads[d.stage] /\ Leads[g] \in Nat /\ Leads[d.stage] \in Nat
  <2>1. g \in Nat /\ 1 <= g /\ g <= d.stage /\ d.stage \in {1, 2, 3}
    BY <1>2, <1>4 DEF StagesThrough, Stages
  <2>2. g \in {1, 2, 3} /\ g <= d.stage
    BY <2>1
  <2>3. /\ Leads[1] \in Nat /\ Leads[2] \in Nat /\ Leads[3] \in Nat
        /\ Leads[1] > Leads[2] /\ Leads[2] > Leads[3]
    BY WorkerAssumption DEF Stages
  <2>4. QED BY <2>1, <2>2, <2>3 DEF Stages
<1>6. QED BY <1>1, <1>2, <1>3, <1>4, <1>5

\* The worker completes an event when the schedule that it has now is over.
LEMMA CompletionIsDue ==
    ASSUME WorkerIInv, [Next]_vars, NEW e \in Events, worker' # worker,
           event[e].status = "scheduled", event'[e].status = "completed"
    PROVE  Elapsed(e, now)
<1>1. PICK f \in Events : RollOver(f)
  <2>1. CASE UNCHANGED event
    BY <2>1
  <2>2. CASE UNCHANGED worker
    BY <2>2
  <2>3. ~\E f \in Events : Command(f)
    BY <2>2 DEF Command, Create, Schedule, Reschedule, Reopen, Archive, Transition
  <2>4. ~Clear
    BY <2>2 DEF Clear
  <2>5. ~(Restart \/ Tick \/ (\E n \in late : LateCreate(n)) \/ (\E r \in Remotes : Member(r))
          \/ (\E m \in removals : Retire(m)) \/ UNCHANGED vars)
    BY <2>1 DEF Restart, Tick, LateCreate, Member, Retire, ListRetired, DeleteRetired, vars,
                schedule
  <2>6. ~(Begin \/ List \/ (\E r \in Remotes : Prune(r) \/ RemoveMirror(r))
          \/ (\E f \in Events : StartEvent(f)) \/ (\E s \in SlotIds : Skip(s) \/ Sync(s))
          \/ ReplaceStarted \/ CreateNative \/ EditNative \/ Answer \/ Discard
          \/ StartReminders \/ (\E d \in worker.due : ClaimReminder(d)) \/ SendReminder)
    BY <2>1 DEF Begin, List, Prune, RemoveMirror, StartEvent, Skip, Sync, ReplaceStarted,
                CreateNative, EditNative, Answer, Discard, StartReminders, ClaimReminder,
                SendReminder, schedule
  <2>7. QED BY <2>3, <2>4, <2>5, <2>6 DEF Next, Work
<1>2. /\ Rows /\ worker \in Cycle /\ CopyShape /\ worker.now <= now /\ worker.now \in Nat
      /\ now \in Nat /\ NoEvent \notin Events
  BY WorkerFacts, Parts, Numbers DEF Working, WorkShape, Cycle
<1>3. Over(f) /\ SameRevision(f) /\ TransitionEvent(f, "completed")
  <2>1. ~UNCHANGED schedule
    BY DEF schedule
  <2>2. QED BY <1>1, <2>1 DEF RollOver
<1>4. e = f
  BY <1>2, <1>3 DEF TransitionEvent, Rows
<1>5. PICK s \in SlotIds : Copied(s).event = e
  BY <1>3, <1>4 DEF Over, CopiedSlots
<1>6. StillSays(e)
  BY <1>2, <1>3, <1>4, <1>5 DEF SameRevision, CopiedSlots, Copied, CopyShape
<1>7. slot[s].event = e
  BY <1>5, <1>6 DEF StillSays, Copied
<1>8. ASSUME NEW t \in SlotsOf(e) PROVE slot[t].at + Grace <= now
  <2>1. t \in SlotIds /\ slot[t].event = e
    BY DEF SlotsOf
  <2>2. Copied(t).event = e /\ Copied(t).at = slot[t].at
    BY <1>6, <2>1 DEF StillSays, Copied
  <2>3. slot[t].at + Grace <= worker.now
    BY <1>3, <1>4, <2>1, <2>2 DEF Over, CopiedSlots
  <2>4. slot[t].at \in Nat /\ Grace \in Nat
    BY <1>2, <2>1, Numbers, ScheduleAssumption DEF SlotRow
  <2>5. QED BY <1>2, <2>3, <2>4
<1>9. QED BY <1>7, <1>8 DEF Elapsed, SlotsOf

\* The decisions of the worker are right for the schedule as it is: a stage is used up
\* within its window of the time that the slot has now, and an event is completed when its
\* slots are over, though claim_reminder and the roll-over act on a copy.
THEOREM DecisionsStayFresh == Spec => DecisionsAreFresh
<1>1. WorkerIInv /\ [Next]_vars =>
         \A s \in SlotIds : \A g \in slot'[s].stages \ slot[s].stages :
            worker.now + Leads[g] >= slot[s].at /\ worker.now <= slot[s].at + StartGrace
  BY OthersUseNoStage, ClaimIsDue DEF NoNewStage
<1>2. WorkerIInv /\ [Next]_vars =>
         \A e \in Events :
            worker' # worker /\ event[e].status = "scheduled"
            /\ event'[e].status = "completed" => Elapsed(e, now)
  BY CompletionIsDue
<1>3. Spec => StageIsDue
  BY <1>1, EventWorkerInvariance, PTL DEF Spec, StageIsDue
<1>4. Spec => CompletedWhenOver
  BY <1>2, EventWorkerInvariance, PTL DEF Spec, CompletedWhenOver
<1>5. QED BY <1>3, <1>4 DEF DecisionsAreFresh

\* A removal deletes what belongs to retired slots only.
LEMMA RemovalIsSparing ==
    ASSUME WorkerIInv, [Next]_vars, NEW r \in Remotes, removals' # removals,
           remote[r] # NoNative, remote'[r] = NoNative
    PROVE  ~Active(remote[r].slot)
<1>1. PICK m \in removals, q \in Remotes : DeleteRetired(m, q)
  <2>1. CASE UNCHANGED remote
    BY <2>1
  <2>2. CASE UNCHANGED removals
    BY <2>2
  <2>3. ~\E e \in Events : Command(e)
    BY <2>1 DEF Command, Create, Schedule, Reschedule, Reopen, Archive, Transition, discord
  <2>4. ~Clear /\ ~(Restart \/ Tick \/ UNCHANGED vars) /\ ~\E m \in removals : ListRetired(m)
    BY <2>1 DEF Clear, Restart, Tick, ListRetired, vars, discord
  <2>5. ~((\E n \in late : LateCreate(n)) \/ (\E q \in Remotes : Member(q)))
    BY <2>2 DEF LateCreate, Member
  <2>6. ~Work
    BY <2>2 DEF Work, Begin, List, Prune, RemoveMirror, RollOver, StartEvent, Skip, Sync,
                ReplaceStarted, CreateNative, EditNative, Answer, Discard, StartReminders,
                ClaimReminder, SendReminder
  <2>7. QED BY <2>3, <2>4, <2>5, <2>6 DEF Next, Retire
<1>2. Rows /\ RemovalOK(m) /\ q \in m.ids /\ NoEvent \notin Events
  BY <1>1, Parts, ScheduleAssumption DEF Removing, DeleteRetired
<1>3. r = q
  BY <1>1, <1>2 DEF DeleteRetired, Deleted, NotDeleted, Gone, Rows
<1>4. Retired(remote[r].slot)
  BY <1>2, <1>3 DEF RemovalOK
<1>5. QED BY <1>2, <1>4 DEF Retired, Active, Scheduled

\* Neither clean-up path deletes the Discord event of a slot to come: what a removal found
\* when it listed, and what the worker holds for an orphan, is right when it is deleted.
THEOREM CleanupIsSparing == Spec => CleanupSpares
<1>1. WorkerIInv /\ [Next]_vars =>
         \A r \in Remotes :
            removals' # removals /\ remote[r] # NoNative /\ remote'[r] = NoNative =>
               ~Active(remote[r].slot)
  BY RemovalIsSparing
<1>2. WorkerIInv /\ [Next]_vars =>
         \A r \in worker.retire :
            worker.pc = "prune" /\ remote[r] # NoNative /\ remote'[r] = NoNative
            /\ worker' # worker =>
               \A s \in SlotIds : Active(s) => slot[s].native # r
  <2>1. SUFFICES ASSUME WorkerIInv, NEW r \in worker.retire, worker.pc = "prune",
                        NEW s \in SlotIds, Active(s)
                 PROVE  slot[s].native # r
    OBVIOUS
  <2>2. PruneShape /\ r # NoRemote
    BY <2>1, Parts DEF Working, WorkShape, Cycle, Remotes, NoRemote
  <2>3. QED BY <2>1, <2>2 DEF PruneShape, Active
<1>3. Spec => RemovalSparesPlanned
  BY <1>1, EventWorkerInvariance, PTL DEF Spec, RemovalSparesPlanned
<1>4. Spec => PruneSparesStored
  BY <1>2, EventWorkerInvariance, PTL DEF Spec, PruneSparesStored
<1>5. QED BY <1>3, <1>4 DEF CleanupSpares

=============================================================================
