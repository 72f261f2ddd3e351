--------------------------- MODULE EventDashboard ---------------------------
(***************************************************************************)
(* The one durable dashboard message of an event: posted by $event create, *)
(* redrawn by whoever changed the event, taken down by the archive, and    *)
(* answered by view handlers that a restart has to register again.         *)
(*                                                                         *)
(* A handler changes the event store, answers its own interaction, and     *)
(* only then asks for a redraw.  refresh_event_dashboard holds the event's *)
(* lock while it reads the record, fetches the message and edits it; the   *)
(* rankings, times and slots are read when the embed is built, one Discord *)
(* call after the record.                                                  *)
(*                                                                         *)
(* The order in which asyncio.Lock serves its waiters does not matter: the *)
(* record is read under the lock.                                          *)
(***************************************************************************)
EXTENDS Naturals

CONSTANTS
    Editors,        \* handlers that may change the event at the same time
    NoEditor,       \* nobody holds the dashboard lock
    MaxDashChanges, \* bound: revisions of the event
    MaxDashFaults   \* bound: Discord calls that fail, cards removed, restarts

ASSUME DashboardAssumption ==
    NoEditor \notin Editors /\ {MaxDashChanges, MaxDashFaults} \subseteq Nat

VARIABLES
    plan,       \* the event's row: status, revision, dashboard_message_id
    dashboard,  \* the message: on Discord or not, and what it shows
    answered,   \* the statuses whose buttons have a handler in this process
    editor,     \* the handlers, the creating one and the archiving one included
    redrawing,  \* _event_dashboard_locks[event_id]
    missed,     \* a redraw was lost and none has succeeded since
    dashFaults

dashVars == <<plan, dashboard, answered, editor, redrawing, missed, dashFaults>>

-----------------------------------------------------------------------------
LiveStatus == {"open", "scheduled"}
PlanStatus == LiveStatus \union {"closed", "archived"}
Seen == [status : PlanStatus, revision : 0..MaxDashChanges]
Now == [status |-> plan.status, revision |-> plan.revision]

EditorPcs == {"idle", "post", "save", "answer", "lock", "fetch", "edit", "delete"}
IdleEditor == [pc |-> "idle", head |-> Now]

DashTypeOK ==
    /\ plan \in [status : PlanStatus, revision : 0..MaxDashChanges, stored : BOOLEAN]
    /\ dashboard \in [up : {"none", "up", "gone"}, head : Seen, body : Seen]
    /\ answered \subseteq LiveStatus
    /\ editor \in [Editors -> [pc : EditorPcs, head : Seen]]
    /\ redrawing \in Editors \union {NoEditor}
    /\ missed \in BOOLEAN
    /\ dashFaults \in 0..MaxDashFaults

\* The row is there and the creating handler builds its embed.
DashInit ==
    /\ plan = [status |-> "open", revision |-> 0, stored |-> FALSE]
    /\ dashboard = [up |-> "none", head |-> Now, body |-> Now]
    /\ answered = {}
    /\ \E creator \in Editors :
          editor = [e \in Editors |-> [pc |-> IF e = creator THEN "post" ELSE "idle", head |-> Now]]
    /\ redrawing = NoEditor
    /\ missed = FALSE
    /\ dashFaults = 0

At(e, pc) == editor[e].pc = pc
Goto(e, pc) == editor' = [editor EXCEPT ![e].pc = pc]
Unlucky == dashFaults < MaxDashFaults /\ dashFaults' = dashFaults + 1
Lucky == UNCHANGED dashFaults

-----------------------------------------------------------------------------
\* ctx.reply(embed=..., view=EventDashboardView(record)): the embed was built
\* before the call; the reply's view is registered when the call returns.
PostCard(e) ==
    /\ At(e, "post")
    /\ dashboard' = [up |-> "up", head |-> editor[e].head, body |-> editor[e].head]
    /\ \/ Lucky /\ Goto(e, "save") /\ answered' = answered \union {editor[e].head.status}
       \/ Unlucky /\ Goto(e, "idle") /\ UNCHANGED answered
    /\ UNCHANGED <<plan, redrawing, missed>>

PostFails(e) ==
    /\ At(e, "post") /\ Unlucky /\ Goto(e, "idle")
    /\ UNCHANGED <<plan, dashboard, answered, redrawing, missed>>

\* set_dashboard_message; a failure is logged and the card stays an orphan.
SaveCoordinates(e) ==
    /\ At(e, "save") /\ Goto(e, "idle")
    /\ \/ Lucky /\ plan' = [plan EXCEPT !.stored = TRUE]
       \/ Unlucky /\ UNCHANGED plan
    /\ UNCHANGED <<dashboard, answered, redrawing, missed>>

-----------------------------------------------------------------------------
\* A vote, a nomination, a new or reset time, a schedule, a reschedule, a
\* reopening, a completion or a cancellation: one transaction and one revision.
\* Views answer their interaction next, with the record their call returned;
\* commands and the worker redraw at once.
Change(e, status) ==
    /\ At(e, "idle")
    /\ plan.status \in LiveStatus /\ status \in LiveStatus \union {"closed"}
    /\ plan.revision < MaxDashChanges
    /\ plan' = [plan EXCEPT !.status = status, !.revision = @ + 1]
    /\ \E next \in {"answer", "lock"} :
          editor' = [editor EXCEPT ![e] = [pc |-> next,
                         head |-> [status |-> status, revision |-> plan.revision + 1]]]
    /\ UNCHANGED <<dashboard, answered, redrawing, missed, dashFaults>>

\* If the answer raises, the handler ends there and nothing is redrawn.
AnswerEditor(e) ==
    /\ At(e, "answer")
    /\ \/ Lucky /\ Goto(e, "lock") /\ UNCHANGED missed
       \/ Unlucky /\ Goto(e, "idle") /\ missed' = TRUE
    /\ UNCHANGED <<plan, dashboard, answered, redrawing>>

-----------------------------------------------------------------------------
(* refresh_event_dashboard                                                 *)

\* mutant: the record is the one the handler's own change returned
LoadedBefore(e) == editor[e].head

\* async with lock: the record is read under it.
LoadedUnderLock(e) == Now

\* No card is stored: nothing to redraw.
Load(e) ==
    /\ At(e, "lock") /\ redrawing = NoEditor
    /\ IF plan.stored
       THEN /\ redrawing' = e
            /\ editor' = [editor EXCEPT ![e] = [pc |-> "fetch", head |-> LoadedUnderLock(e)]]
            /\ UNCHANGED missed
       ELSE /\ Goto(e, "idle")
            /\ missed' = TRUE
            /\ UNCHANGED redrawing
    /\ UNCHANGED <<plan, dashboard, answered, dashFaults>>

Leave(e) == Goto(e, "idle") /\ redrawing' = NoEditor

\* discord_message_by_id; NotFound, Forbidden and any other error end the redraw.
FetchDashboard(e) ==
    /\ At(e, "fetch")
    /\ \/ Lucky /\ dashboard.up = "up" /\ Goto(e, "edit") /\ UNCHANGED <<redrawing, missed>>
       \/ Lucky /\ dashboard.up # "up" /\ Leave(e) /\ UNCHANGED missed
       \/ Unlucky /\ Leave(e) /\ missed' = TRUE
    /\ UNCHANGED <<plan, dashboard, answered>>

\* message.edit: the edited view is registered when the call returns.  The body
\* is built from the store as it is now, under the record read before.
ShownBy(e) == [up |-> "up", head |-> editor[e].head, body |-> Now]

EditCard(e) ==
    /\ At(e, "edit") /\ Leave(e)
    /\ \/ Lucky /\ dashboard.up = "up"
          /\ dashboard' = ShownBy(e)
          /\ answered' = answered \union ({editor[e].head.status} \intersect LiveStatus)
          /\ missed' = (missed /\ (editor[e].head # Now \/ plan.status = "archived"))
       \/ Lucky /\ dashboard.up # "up" /\ UNCHANGED <<dashboard, answered, missed>>
       \/ Unlucky /\ dashboard.up = "up" /\ dashboard' = ShownBy(e)
          /\ missed' = TRUE /\ UNCHANGED answered
       \/ Unlucky /\ missed' = TRUE /\ UNCHANGED <<dashboard, answered>>
    /\ UNCHANGED plan

-----------------------------------------------------------------------------
\* $event archive, and $event clear for a schedule that is over: the row first,
\* then the card, if the row names one.
ArchivePlan(e) ==
    /\ At(e, "idle")
    /\ plan.status \in {"scheduled", "closed"} /\ plan.revision < MaxDashChanges
    /\ plan' = [plan EXCEPT !.status = "archived", !.revision = @ + 1]
    /\ IF plan.stored
       THEN Goto(e, "delete") /\ UNCHANGED missed
       ELSE missed' = TRUE /\ UNCHANGED editor
    /\ UNCHANGED <<dashboard, answered, redrawing, dashFaults>>

DeleteCard(e) ==
    /\ At(e, "delete") /\ Goto(e, "idle")
    /\ \/ Lucky /\ dashboard' = [dashboard EXCEPT !.up = "gone"] /\ UNCHANGED missed
       \/ Unlucky /\ missed' = TRUE /\ UNCHANGED dashboard
    /\ UNCHANGED <<plan, answered, redrawing>>

\* A moderator deletes the message.
CardRemoved ==
    /\ dashboard.up = "up" /\ Unlucky
    /\ dashboard' = [dashboard EXCEPT !.up = "gone"]
    /\ UNCHANGED <<plan, answered, editor, redrawing, missed>>

\* mutant: only open events are registered again
RegisteredOpen == IF plan.stored /\ plan.status = "open" THEN {plan.status} ELSE {}

\* The process stops; on_ready registers the dashboards of live events.
Registered == IF plan.stored /\ plan.status \in LiveStatus THEN {plan.status} ELSE {}

DashRestart ==
    /\ Unlucky
    /\ editor' = [e \in Editors |-> IdleEditor]
    /\ redrawing' = NoEditor
    /\ answered' = Registered
    /\ missed' = (missed \/ \E e \in Editors : ~At(e, "idle"))
    /\ UNCHANGED <<plan, dashboard>>

DashNext ==
    \/ \E e \in Editors :
          \/ PostCard(e) \/ PostFails(e) \/ SaveCoordinates(e)
          \/ \E status \in PlanStatus : Change(e, status)
          \/ AnswerEditor(e) \/ Load(e) \/ FetchDashboard(e) \/ EditCard(e)
          \/ ArchivePlan(e) \/ DeleteCard(e)
    \/ CardRemoved \/ DashRestart

DashSpec == DashInit /\ [][DashNext]_dashVars

-----------------------------------------------------------------------------
Quiet == \A e \in Editors : At(e, "idle")

\* Once every handler is done, the stored card shows the event as it is, ballot
\* and status alike, or is gone with the archive -- unless a redraw was lost,
\* or found no stored card because the creating handler had not saved it yet.
QuietShowsLatest ==
    Quiet /\ plan.stored /\ dashboard.up = "up" /\ ~missed =>
        /\ plan.status # "archived"
        /\ dashboard.head = Now /\ dashboard.body = Now

\* A stored card of a live event never shows buttons without a handler, however
\* often the process restarts, unless an edit was lost on the way.
ButtonsAnswered ==
    plan.stored /\ dashboard.up = "up" /\ ~missed /\ dashboard.head.status \in LiveStatus
        /\ plan.status \in LiveStatus => dashboard.head.status \in answered

\* The invariant of the dashboard, from its parts: at rest it shows the event as it is,
\* and its buttons answer.
DashboardInv == DashTypeOK /\ QuietShowsLatest /\ ButtonsAnswered

\* Overlapping redraws never put an older record, or an older ballot, over a
\* newer one.
ShownForward ==
    [][dashboard.up = "up" /\ dashboard'.up = "up" =>
          /\ dashboard'.head.revision >= dashboard.head.revision
          /\ dashboard'.body.revision >= dashboard.body.revision]_dashVars

=============================================================================
