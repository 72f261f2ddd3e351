---------------------------- MODULE MediaReports ----------------------------
(***************************************************************************)
(* Playback problems: a member's report card, the ticket it becomes, and   *)
(* the administrators who work on tickets from a queue card or by command. *)
(*                                                                         *)
(* A form is the ReportCategoryView of one card; the search before it is   *)
(* ReportSearch.  A key is what the unique index is about: guild, reporter,*)
(* target and category.                                                    *)
(***************************************************************************)
EXTENDS Naturals, FiniteSets, Sequences, SequencesExt

CONSTANTS
    Forms,           \* the report cards
    DirectForms,     \* those in a direct message
    Keys,            \* what their members may choose
    TypedKeys,       \* of these, the ones of the category Other
    Handlers,        \* the administrators
    Queues,          \* those of them with a queue card
    Nobody,
    MaxReportFaults, \* bound: calls that fail
    MaxRevisions     \* bound: how often a queue card changes

ASSUME ReportsAssumption ==
    /\ IsFiniteSet(Forms) /\ DirectForms \subseteq Forms /\ TypedKeys \subseteq Keys
    /\ Nobody \notin Handlers /\ Queues \subseteq Handlers
    /\ MaxReportFaults \in Nat /\ MaxRevisions \in Nat

VARIABLES
    report,       \* media_reports, in the order of their ids
    form,         \* the view of a report card, and what its message shows
    submit,       \* two callbacks of that view
    edits,        \* edits of tickets under way
    queue,        \* each administrator's queue card
    reportFaults

reportVars == <<report, form, submit, edits, queue, reportFaults>>

-----------------------------------------------------------------------------
\* "closed" is resolved or dismissed, which differ in their wording only
Pending == {"open", "in_progress"}
Targets == {"in_progress", "closed"}
Report == [key : Keys, form : Forms, status : {"open"} \union Targets,
           handler : Handlers \union {Nobody}]

\* live is not finished, busy is submitting, going is a deletion under way
Form == [live : BOOLEAN, busy : BOOLEAN, going : BOOLEAN,
         shows : {"form", "gone", "open"} \union Targets]
Submits == {1, 2}
NoSubmit == [pc |-> "idle", key |-> CHOOSE k \in Keys : TRUE]
SubmitCall == [pc : {"idle", "typing", "scoping", "saving"}, key : Keys]

\* A queue card.  `shown` is what its message shows: the report (0 when the message is
\* gone), the revision of the view it was drawn at, and whether Claim is enabled.
\* `click` is a press of one of these buttons that has not arrived, `acting` the report
\* and the target of the action under way with the report its administrator saw.
NoAction == [id |-> 0, target |-> "none", seen |-> 0]
NoQueue == [pc |-> "closed", rows |-> <<>>, index |-> 0, revision |-> 0,
            shown |-> [id |-> 0, revision |-> 0, claimable |-> FALSE],
            click |-> {}, acting |-> NoAction]
QueuePCs == {"closed", "idle", "turning", "deferring", "ticket", "told", "refused", "redraw"}

\* Some cards are tickets already, each of a key of its own.
ReportsInit ==
    \E started \in SUBSET Forms, k \in [Forms -> Keys] :
        LET tickets == SetToSeq(Forms \ started) IN
        /\ IsInjective([f \in Forms \ started |-> k[f]])
        /\ report = [i \in DOMAIN tickets |-> [key |-> k[tickets[i]], form |-> tickets[i],
                                               status |-> "open", handler |-> Nobody]]
        /\ form = [f \in Forms |-> IF f \in started
                                   THEN [live |-> TRUE, busy |-> FALSE, going |-> FALSE, shows |-> "form"]
                                   ELSE [live |-> FALSE, busy |-> TRUE, going |-> FALSE, shows |-> "open"]]
        /\ submit = [f \in Forms |-> [s \in Submits |-> NoSubmit]]
        /\ edits = {}
        /\ queue = [h \in Queues |-> NoQueue]
        /\ reportFaults = 0

ReportFault == reportFaults < MaxReportFaults /\ reportFaults' = reportFaults + 1
NoReportFault == UNCHANGED reportFaults

-----------------------------------------------------------------------------
(***************************************************************************)
(* The report card.                                                        *)
(***************************************************************************)
SetForm(f, r) == form' = [form EXCEPT ![f] = r]
EndSubmit(f, s) == submit' = [submit EXCEPT ![f][s] = NoSubmit]
SetSubmit(f, s, pc, k) == submit' = [submit EXCEPT ![f][s] = [pc |-> pc, key |-> k]]

\* mutant: a second click is not refused while the first is being saved
StillLive(f) == form[f].live

MaySubmit(f) == form[f].live /\ ~form[f].busy

\* submit_report up to its first await: in the server the form is taken at once, in a
\* direct message the reporter's server is looked up first.
BeginSubmit(f, s, k) ==
    /\ MaySubmit(f)
    /\ IF f \in DirectForms
       THEN SetSubmit(f, s, "scoping", k) /\ UNCHANGED form
       ELSE SetSubmit(f, s, "saving", k) /\ SetForm(f, [form[f] EXCEPT !.busy = TRUE])

\* A category button.  Other opens the dialog for the details.
ChooseCategory(f, s, k) ==
    /\ submit[f][s].pc = "idle" /\ form[f].shows = "form"
    /\ IF k \in TypedKeys
       THEN MaySubmit(f) /\ SetSubmit(f, s, "typing", k) /\ UNCHANGED form
       ELSE BeginSubmit(f, s, k)
    /\ UNCHANGED <<report, edits, queue, reportFaults>>

\* The dialog is sent, whatever became of the card meanwhile.
SendDetails(f, s) ==
    /\ submit[f][s].pc = "typing"
    /\ \/ BeginSubmit(f, s, submit[f][s].key)
       \/ ~MaySubmit(f) /\ EndSubmit(f, s) /\ UNCHANGED form
    /\ UNCHANGED <<report, edits, queue, reportFaults>>

\* media_scope has answered; what was checked before it is not checked again.
ScopeSubmit(f, s) ==
    /\ submit[f][s].pc = "scoping"
    /\ \/ /\ NoReportFault
          /\ SetSubmit(f, s, "saving", submit[f][s].key)
          /\ SetForm(f, [form[f] EXCEPT !.busy = TRUE])
       \/ ReportFault /\ EndSubmit(f, s) /\ UNCHANGED form
    /\ UNCHANGED <<report, edits, queue>>

\* the reporter's active ticket, by the unique index
Matching(k) == {i \in DOMAIN report : report[i].key = k /\ report[i].status \in Pending}

\* create_media_report: a new row, to be shown on the card; or the reporter already has
\* an active one and the card goes.  The database may refuse, and the form is back; or
\* the interaction could not be deferred, and it stays taken.
SaveReport(f, s) ==
    LET k == submit[f][s].key IN
    /\ submit[f][s].pc = "saving"
    /\ EndSubmit(f, s)
    /\ \/ /\ Matching(k) = {} /\ NoReportFault
          /\ report' = Append(report, [key |-> k, form |-> f, status |-> "open", handler |-> Nobody])
          /\ edits' = edits \union {[id |-> Len(report'), status |-> "open"]}
          /\ SetForm(f, [form[f] EXCEPT !.live = FALSE])
       \/ /\ Matching(k) # {} /\ NoReportFault
          /\ SetForm(f, [form[f] EXCEPT !.live = FALSE, !.going = TRUE])
          /\ UNCHANGED <<report, edits>>
       \/ /\ ReportFault
          /\ \E taken \in BOOLEAN : SetForm(f, [form[f] EXCEPT !.busy = taken])
          /\ UNCHANGED <<report, edits>>
    /\ UNCHANGED queue

\* Cancel, or the timeout of a form nobody has submitted
CloseForm(f) ==
    /\ MaySubmit(f)
    /\ \E cancelled \in BOOLEAN :
          SetForm(f, [form[f] EXCEPT !.live = FALSE, !.busy = cancelled, !.going = TRUE])
    /\ UNCHANGED <<report, submit, edits, queue, reportFaults>>

\* cleanup_unsuccessful_request deletes the card
FormGone(f) ==
    /\ form[f].going
    /\ SetForm(f, [form[f] EXCEPT !.going = FALSE, !.shows = "gone"])
    /\ UNCHANGED <<report, submit, edits, queue, reportFaults>>

-----------------------------------------------------------------------------
(***************************************************************************)
(* A transition of a report, and its ticket.                               *)
(***************************************************************************)

\* mutant: a claim is an idempotent label
AnySource(target) == Pending

\* the states a report may leave for target
Source(target) == IF target = "in_progress" THEN {"open"} ELSE Pending

\* update_media_report_status is one conditional UPDATE.  Its record goes to
\* edit_original_report_ticket.
TransitionReport(i, target, h) ==
    /\ report[i].status \in Source(target)
    /\ report' = [report EXCEPT ![i] = [@ EXCEPT !.status = target, !.handler = h]]
    /\ edits' = edits \union {[id |-> i, status |-> target]}

\* The message is fetched and edited, unless it is gone or a call fails.
EditTicket(e) ==
    LET f == report[e.id].form IN
    /\ edits' = edits \ {e}
    /\ \/ /\ NoReportFault /\ form[f].shows # "gone"
          /\ SetForm(f, [form[f] EXCEPT !.shows = e.status])
       \/ NoReportFault /\ form[f].shows = "gone" /\ UNCHANGED form
       \/ ReportFault /\ UNCHANGED form
    /\ UNCHANGED <<report, submit, queue>>

\* $admin reports claim, resolve, dismiss
ReportCommand(h, i, target) ==
    /\ TransitionReport(i, target, h)
    /\ UNCHANGED <<form, submit, queue, reportFaults>>

-----------------------------------------------------------------------------
(***************************************************************************)
(* The queue card.  `rows` are records, copied when it was opened.         *)
(***************************************************************************)
SetQueue(h, q) == queue' = [queue EXCEPT ![h] = q]

\* list_media_reports: open reports first, then by age
ListedBefore(r, t) == \/ r.status = "open" /\ t.status # "open"
                      \/ r.status = t.status /\ r.id < t.id
Listable == {[id |-> i, status |-> report[i].status] :
                 i \in {j \in DOMAIN report : report[j].status \in Pending}}
QueueListed ==
    CHOOSE rows \in [1..Cardinality(Listable) -> Listable] :
        \A m, n \in DOMAIN rows : m < n => ListedBefore(rows[m], rows[n])

\* what refresh_controls gives the message of a card; there may be no current report
Lost(q) == q.rows # <<>> /\ q.index \notin DOMAIN q.rows
Drawn(q) == LET r == IF q.index \in DOMAIN q.rows THEN q.rows[q.index]
                     ELSE [id |-> 0, status |-> "none"]
            IN  [id |-> r.id, revision |-> q.revision, claimable |-> r.status = "open"]
Refreshed(q) == [q EXCEPT !.revision = @ + 1]
Visible(q) == q.shown.id # 0

OpenQueue(h) ==
    /\ queue[h].pc = "closed" /\ QueueListed # <<>>
    /\ \E i \in 1..Len(QueueListed) :
          LET q == Refreshed([NoQueue EXCEPT !.pc = "idle", !.rows = QueueListed, !.index = i])
          IN  SetQueue(h, [q EXCEPT !.shown = Drawn(q)])
    /\ UNCHANGED <<report, form, submit, edits, reportFaults>>

\* A button the administrator sees is pressed.
PressQueue(h, action) ==
    /\ Visible(queue[h]) /\ queue[h].click = {}
    /\ queue[h].revision < MaxRevisions
    /\ action = "in_progress" => queue[h].shown.claimable
    /\ SetQueue(h, [queue[h] EXCEPT !.click = {[at |-> queue[h].shown, action |-> action]}])
    /\ UNCHANGED <<report, form, submit, edits, reportFaults>>

\* mutant: a press counts on whatever the card holds by now
AcceptsAny(q, c) == q.pc = "idle" /\ ~Lost(q)

\* accept_action: nothing is under way, and the button is that of the current view
Accepts(q, c) ==
    /\ q.pc = "idle" /\ ~Lost(q)
    /\ c.at.id = Drawn(q).id /\ c.at.revision = q.revision

RefuseClick(h) ==
    /\ \E c \in queue[h].click : ~Accepts(queue[h], c)
    /\ SetQueue(h, [queue[h] EXCEPT !.click = {}])
    /\ UNCHANGED <<report, form, submit, edits, reportFaults>>

Clamped(i, q) == IF i < 1 THEN 1 ELSE IF i > Len(q.rows) THEN Len(q.rows) ELSE i

\* previous, next
TurnQueue(h) ==
    LET q == queue[h] IN
    /\ \E c \in q.click :
          /\ Accepts(q, c)
          /\ \/ c.action = "previous" /\ SetQueue(h, Refreshed([q EXCEPT !.pc = "turning",
                    !.click = {}, !.index = Clamped(@ - 1, q)]))
             \/ c.action = "next" /\ SetQueue(h, Refreshed([q EXCEPT !.pc = "turning",
                    !.click = {}, !.index = Clamped(@ + 1, q)]))
    /\ UNCHANGED <<report, form, submit, edits, reportFaults>>

\* apply_status takes the card, and waits for the interaction to be deferred.
TakeReport(h) ==
    LET q == queue[h] IN
    /\ \E c \in q.click :
          /\ Accepts(q, c) /\ c.action \in Targets
          /\ SetQueue(h, Refreshed([q EXCEPT !.pc = "deferring", !.click = {},
                 !.acting = [id |-> Drawn(q).id, target |-> c.action, seen |-> c.at.id]]))
    /\ UNCHANGED <<report, form, submit, edits, reportFaults>>

\* A report has one row in a card.
Without(rows, i) ==
    IF \E j \in DOMAIN rows : rows[j].id = i
    THEN RemoveAt(rows, CHOOSE j \in DOMAIN rows : rows[j].id = i)
    ELSE rows
Dropped(q) == [q EXCEPT !.rows = Without(@, q.acting.id), !.pc = "told"]
ClaimedBy(q) ==
    [q EXCEPT !.pc = "told",
              !.rows = [j \in DOMAIN @ |-> IF @[j].id = q.acting.id
                                           THEN [id |-> q.acting.id, status |-> "in_progress"] ELSE @[j]]]

\* Once deferred, the report is updated and the edit of its ticket awaited; a report
\* that somebody else took or closed leaves the card once its administrator is told.
UpdateReport(h) ==
    LET q == queue[h] IN
    /\ q.pc = "deferring" /\ NoReportFault
    /\ \/ /\ TransitionReport(q.acting.id, q.acting.target, h)
          /\ SetQueue(h, [q EXCEPT !.pc = "ticket"])
       \/ /\ report[q.acting.id].status \notin Source(q.acting.target)
          /\ SetQueue(h, [q EXCEPT !.pc = "refused"])
          /\ UNCHANGED <<report, edits>>
    /\ UNCHANGED <<form, submit>>

\* The ticket is edited: a claimed report gets its new record, a closed one leaves.
TicketEdited(h) ==
    LET q == queue[h] IN
    /\ q.pc = "ticket"
    /\ [id |-> q.acting.id, status |-> q.acting.target] \notin edits
    /\ SetQueue(h, IF q.acting.target = "in_progress" THEN ClaimedBy(q) ELSE Dropped(q))
    /\ UNCHANGED <<report, form, submit, edits, reportFaults>>

\* mutant: the controls are refreshed for their buttons to be enabled, not before the
\* card is drawn
RefreshedLate(q) == [q EXCEPT !.index = Clamped(@, q), !.pc = "idle",
                              !.shown = Drawn([q EXCEPT !.index = Clamped(@, q)]),
                              !.revision = @ + 1]

\* The card as its message shows it once it is edited
Redrawn(q) == [q EXCEPT !.pc = "idle", !.shown = Drawn(q)]

\* The administrator is told, the controls come back and the card is drawn: with no
\* rows left, or no message to edit, it is over.
FinishAction(h) ==
    LET q == IF queue[h].pc = "refused" THEN Dropped(queue[h]) ELSE queue[h] IN
    /\ queue[h].pc \in {"told", "refused"} /\ NoReportFault
    /\ SetQueue(h, IF q.rows = <<>> \/ ~Visible(q) THEN NoQueue
                   ELSE Refreshed([q EXCEPT !.index = Clamped(@, q), !.pc = "redraw",
                                            !.acting = NoAction]))
    /\ UNCHANGED <<report, form, submit, edits>>

DrawQueue(h) ==
    /\ queue[h].pc \in {"turning", "redraw"} /\ NoReportFault
    /\ SetQueue(h, IF Visible(queue[h]) THEN Redrawn(queue[h]) ELSE NoQueue)
    /\ UNCHANGED <<report, form, submit, edits>>

\* A call on the way fails: the controls come back for a message that shows old ones.
\* The index has not been put right by then: when the last report has just left the
\* card, there is no current one, and this and every later click raises.
ActionFails(h) ==
    LET q == [queue[h] EXCEPT !.pc = "idle", !.acting = NoAction] IN
    /\ queue[h].pc \in {"deferring", "refused", "told", "turning", "redraw"} /\ ReportFault
    /\ SetQueue(h, IF ~Visible(q) THEN NoQueue
                   ELSE IF queue[h].pc \in {"deferring", "refused", "told"} /\ ~Lost(q)
                   THEN Refreshed(q) ELSE q)
    /\ UNCHANGED <<report, form, submit, edits>>

\* The timeout of the view, five minutes after the last press, deletes the card.  It does
\* not ask whether an action is under way: that one goes on, without a card.
ExpireQueue(h) ==
    /\ Visible(queue[h])
    /\ SetQueue(h, IF queue[h].pc = "idle" THEN NoQueue
                   ELSE [queue[h] EXCEPT !.click = {}, !.shown = NoQueue.shown])
    /\ UNCHANGED <<report, form, submit, edits, reportFaults>>

-----------------------------------------------------------------------------
ReportsNext ==
    \/ \E f \in Forms, s \in Submits :
          \/ \E k \in Keys : ChooseCategory(f, s, k)
          \/ SendDetails(f, s) \/ ScopeSubmit(f, s) \/ SaveReport(f, s)
    \/ \E f \in Forms : CloseForm(f) \/ FormGone(f)
    \/ \E e \in edits : EditTicket(e)
    \/ \E h \in Handlers, i \in DOMAIN report, target \in Targets : ReportCommand(h, i, target)
    \/ \E h \in Queues :
          \/ \E action \in Targets \union {"previous", "next"} : PressQueue(h, action)
          \/ OpenQueue(h) \/ RefuseClick(h) \/ TurnQueue(h) \/ TakeReport(h) \/ UpdateReport(h)
          \/ TicketEdited(h) \/ FinishAction(h) \/ DrawQueue(h) \/ ActionFails(h) \/ ExpireQueue(h)

ReportsSpec == ReportsInit /\ [][ReportsNext]_reportVars

-----------------------------------------------------------------------------
(***************************************************************************)
(* Properties                                                              *)
(***************************************************************************)

\* Types of the variables.
ReportsTypeOK ==
    /\ report \in Seq(Report)
    /\ form \in [Forms -> Form]
    /\ submit \in [Forms -> [Submits -> SubmitCall]]
    /\ \A e \in edits : e.id \in DOMAIN report /\ e.status \in {"open"} \union Targets
    /\ \A h \in Queues :
          /\ queue[h].pc \in QueuePCs
          /\ queue[h].rows = <<>> \/ queue[h].index \in DOMAIN queue[h].rows \/ queue[h].pc = "told"
             \/ reportFaults > 0
          /\ \A j \in DOMAIN queue[h].rows : queue[h].rows[j].id \in DOMAIN report
    /\ reportFaults \in 0..MaxReportFaults

\* Whoever works on the queue, from two cards or by command: a report is never lost or
\* reopened, a closed one stays as it was closed, and the administrator who has claimed
\* one keeps it until it is closed.
ClaimsHold ==
    [][/\ DOMAIN report \subseteq DOMAIN report'
       /\ \A i \in DOMAIN report : report'[i] # report[i] =>
             /\ report[i].status \in Pending
             /\ report'[i].status # "open"
             /\ report[i].status = "in_progress" => report'[i].status = "closed"]_reportVars

\* A click works on the report its administrator was shown when pressing, never on the
\* one that took its place on the card.
ClickHitsShown == \A h \in Queues : queue[h].acting.id = queue[h].acting.seen

\* The deletion of a form nobody submitted never takes the ticket of a report submitted
\* from it in the server, however its buttons, its dialog and its timeout interleave.
TicketKept ==
    \A i \in DOMAIN report : report[i].form \notin DirectForms =>
        form[report[i].form].shows # "gone" /\ ~form[report[i].form].going

\* As long as no call has failed, a queue card at rest takes the buttons that its
\* administrator sees: it does not refuse every click as that of an older view.  (The
\* buttons are renewed before the card is drawn, and a failed drawing leaves old ones.)
QueueUsable ==
    \A h \in Queues : queue[h].pc = "idle" /\ reportFaults = 0 =>
        queue[h].shown = Drawn(queue[h])

\* The invariant of reports, forms and queue cards, from its parts.
ReportsInv == ReportsTypeOK /\ TicketKept /\ ClickHitsShown /\ QueueUsable

=============================================================================
