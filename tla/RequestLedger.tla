--------------------------- MODULE RequestLedger ---------------------------
(***************************************************************************)
(* The durable ledger of media requests, from the confirming click to the  *)
(* mention that says the media is there.                                   *)
(*                                                                         *)
(* A confirmation form writes an intent, asks Seerr for new seasons (or a  *)
(* movie) and Sonarr for the missing episodes of seasons that are partly   *)
(* there, records each acceptance in the intent, and turns the intent into *)
(* a tracked request.  A start of the process first tracks every intent    *)
(* that was accepted and not tracked.  The availability watcher polls      *)
(* Seerr and Jellyfin for the tracked requests and mentions the requester  *)
(* once.  Between two awaits a handler is atomic; at every await the       *)
(* process may stop, and an awaited call may fail with or without taking   *)
(* effect.                                                                 *)
(*                                                                         *)
(* A unit is a season, an episode set or a movie: whatever is accepted and *)
(* arrives as a whole.  Jellyfin only gains units.                         *)
(***************************************************************************)
EXTENDS Naturals, FiniteSets

CONSTANTS
    Forms,           \* the confirmation messages with a REQUEST button
    DirectMessages,  \* the forms shown in a DM, where interaction.guild_id is None
    NoKey,
    Units,
    SelectedSeerr,   \* the units a form asks of Seerr
    SelectedDirect,  \* the units a form asks of Sonarr
    MaxFaults,       \* bound: failed calls and failed database writes
    MaxCrashes       \* bound: stops of the process

ASSUME ConstantsAssumption ==
    /\ DirectMessages \subseteq Forms
    /\ SelectedSeerr \in [Forms -> SUBSET Units]
    /\ SelectedDirect \in [Forms -> SUBSET Units]
    /\ \A f \in Forms : /\ SelectedSeerr[f] \union SelectedDirect[f] # {}
                         /\ SelectedSeerr[f] \intersect SelectedDirect[f] = {}
    /\ NoKey \notin Forms \X {"seerr", "direct"}
    /\ {MaxFaults, MaxCrashes} \subseteq Nat

VARIABLES
    up,        \* the process: down, starting (recovery runs) or running
    boot,      \* the intents recovery has still to track, and did one fail?
    job,       \* a form's view and the handler of its REQUEST button
    intent,    \* media_request_intents: a form begins at most one
    row,       \* request_messages, by form and tracking id
    watcher,   \* the availability watcher's cycle
    seerr,     \* what Seerr holds for a form (external)
    sonarr,    \* what Sonarr monitors for a form (external)
    library,   \* the units in Jellyfin (external)
    mentions,  \* mentions sent for a tracked request
    faults, crashes

vars == <<up, boot, job, intent, row, watcher, seerr, sonarr, library, mentions,
          faults, crashes>>

-----------------------------------------------------------------------------
\* A request is tracked by its Seerr id, or by the intent's own negative id.
Keys == Forms \X {"seerr", "direct"}

Submitting == {"create", "verify", "repair", "finish"}
Job == [pc : {"none", "open", "ack", "over", "lost"} \union Submitting,
        seerr : BOOLEAN,              \* request_id is known
        accepted : SUBSET Units]      \* accepted_seerr and accepted_direct
Intent == [state : {"none", "prepared", "accepted", "tracked", "failed"},
           seerr : BOOLEAN, accepted : SUBSET Units]
Row == [status : {"none", "live", "declined"}, units : SUBSET Units,
        available : BOOLEAN, notified : BOOLEAN]
Cycle == [pc : {"idle", "next", "look", "send"}, todo : SUBSET Keys,
          cur : Keys \union {NoKey}, seen : [Keys -> Row]]

NoJob == [pc |-> "none", seerr |-> FALSE, accepted |-> {}]
NoIntent == [state |-> "none", seerr |-> FALSE, accepted |-> {}]
NoRow == [status |-> "none", units |-> {}, available |-> FALSE, notified |-> FALSE]
NoBoot == [todo |-> {}, failed |-> FALSE]
NoCycle == [pc |-> "idle", todo |-> {}, cur |-> NoKey,
            seen |-> [k \in Keys |-> NoRow]]

Init ==
    /\ up = "running"
    /\ boot = NoBoot
    /\ job = [f \in Forms |-> NoJob]
    /\ intent = [f \in Forms |-> NoIntent]
    /\ row = [k \in Keys |-> NoRow]
    /\ watcher = NoCycle
    /\ seerr = [f \in Forms |-> [status |-> "none", granted |-> {}]]
    /\ sonarr = [f \in Forms |-> {}]
    /\ library = {}
    /\ mentions = [k \in Keys |-> 0]
    /\ faults = 0 /\ crashes = 0

Fault == faults < MaxFaults /\ faults' = faults + 1
NoFault == UNCHANGED faults

-----------------------------------------------------------------------------
(***************************************************************************)
(* The ledger: one transaction each.                                       *)
(***************************************************************************)

\* begin_media_request_intent
Begun == [state |-> "prepared", seerr |-> FALSE, accepted |-> {}]

\* mutants: the Seerr id is not stored; the selection is stored as accepted
AcceptedAnonymously(f, id, units) ==
    IF intent[f].state \in {"prepared", "accepted"}
    THEN [state |-> "accepted", seerr |-> FALSE, accepted |-> units]
    ELSE intent[f]
AcceptedAsAsked(f, id, units) ==
    IF intent[f].state \in {"prepared", "accepted"}
    THEN [state |-> "accepted", seerr |-> id \/ intent[f].seerr,
          accepted |-> SelectedSeerr[f] \union SelectedDirect[f]]
    ELSE intent[f]

\* record_media_request_acceptance: COALESCE keeps a known Seerr id
Accepted(f, id, units) ==
    IF intent[f].state \in {"prepared", "accepted"}
    THEN [state |-> "accepted", seerr |-> id \/ intent[f].seerr, accepted |-> units]
    ELSE intent[f]

\* mutant: an accepted intent is closed as failed too
FailedAlways(f) == [intent[f] EXCEPT !.state = "failed"]

\* fail_media_request_intent: only a prepared intent is closed
Failed(f) == IF intent[f].state = "prepared"
             THEN [intent[f] EXCEPT !.state = "failed"] ELSE intent[f]

\* mark_media_request_intent_tracked, after an acceptance
Tracked(r) == [r EXCEPT !.state = "tracked"]

\* the id an intent is tracked by
TrackingKey(f, id) == <<f, IF id THEN "seerr" ELSE "direct">>

\* track_request: an upsert that leaves the delivery columns alone
Upserted(k, units) == [row EXCEPT ![k] = [@ EXCEPT !.status = "live", !.units = units]]

\* mutants: a notified row stays due; an available row is never due again
DueForever(k) == row[k].status = "live"
DueUntilAvailable(k) == row[k].status = "live" /\ ~row[k].available

\* pending_requests
Pending(k) == /\ row[k].status = "live"
              /\ ~row[k].available \/ ~row[k].notified

-----------------------------------------------------------------------------
(***************************************************************************)
(* The confirmation.                                                       *)
(***************************************************************************)

\* The view is shown: its interaction_check has no await in a guild, so two
\* clicks never overlap before the first one disables the buttons.
Show(f) ==
    /\ up = "running"
    /\ job[f].pc = "none"
    /\ job' = [job EXCEPT ![f].pc = "open"]
    /\ UNCHANGED <<up, boot, intent, row, watcher, seerr, sonarr, library, mentions,
                   faults, crashes>>

\* REQUEST: the acknowledgement is awaited, with the buttons disabled
Confirm(f) ==
    /\ job[f].pc = "open"
    /\ job' = [job EXCEPT ![f].pc = "ack"]
    /\ UNCHANGED <<up, boot, intent, row, watcher, seerr, sonarr, library, mentions,
                   faults, crashes>>

\* Cancel, or the view's timeout, unless a submission is under way
Cancel(f) ==
    /\ job[f].pc = "open"
    /\ job' = [job EXCEPT ![f].pc = "over"]
    /\ UNCHANGED <<up, boot, intent, row, watcher, seerr, sonarr, library, mentions,
                   faults, crashes>>

\* where the handler goes once Seerr is done with
AfterSeerr(f) == IF SelectedDirect[f] # {} THEN "repair" ELSE "finish"

\* The intent is written before any provider is called.  int(None) raises for
\* a DM, so there the write never succeeds.  When Discord refuses, the form may
\* be used again; when the write fails, its buttons are gone.
Acknowledge(f) ==
    /\ job[f].pc = "ack"
    /\ \/ /\ f \notin DirectMessages
          /\ intent' = [intent EXCEPT ![f] = Begun]
          /\ job' = [job EXCEPT ![f].pc = IF SelectedSeerr[f] # {} THEN "create"
                                          ELSE "repair"]
          /\ NoFault
       \/ /\ f \in DirectMessages
          /\ job' = [job EXCEPT ![f].pc = "over"]
          /\ UNCHANGED intent /\ NoFault
       \/ /\ Fault
          /\ \E pc \in {"open", "over"} : job' = [job EXCEPT ![f].pc = pc]
          /\ UNCHANGED intent
    /\ UNCHANGED <<up, boot, row, watcher, seerr, sonarr, library, mentions, crashes>>

\* The outer except: fail the intent, show the error and stop the view.
GiveUp(f) ==
    /\ intent' = [intent EXCEPT ![f] = Failed(f)]
    /\ job' = [job EXCEPT ![f].pc = "over"]

\* The same after a fault, when that write may fail too.
Abandon(f) ==
    /\ Fault
    /\ intent' \in {intent, [intent EXCEPT ![f] = Failed(f)]}
    /\ job' = [job EXCEPT ![f].pc = "over"]

\* a recorded acceptance, and where the handler goes on
Record(f, pc, id, units) ==
    /\ NoFault
    /\ intent' = [intent EXCEPT ![f] = Accepted(f, id, units)]
    /\ job' = [job EXCEPT ![f] = [pc |-> pc, seerr |-> id, accepted |-> units]]

\* The answer to POST /request, which may be an error or lost.  The selection is
\* recorded, then the seasons the answer names; either write may fail.
Create(f) ==
    /\ job[f].pc = "create"
    /\ \/ /\ seerr[f].status \in {"open", "declined"}
          /\ \/ Record(f, AfterSeerr(f), TRUE, seerr[f].granted)
             \/ Record(f, "verify", TRUE, SelectedSeerr[f])
             \/ /\ Fault
                /\ intent' = [intent EXCEPT ![f] = Accepted(f, TRUE, SelectedSeerr[f])]
                /\ job' = [job EXCEPT ![f].pc = "over"]
       \/ seerr[f].status = "refused" /\ NoFault /\ GiveUp(f)
       \/ Abandon(f)
    /\ UNCHANGED <<up, boot, row, watcher, seerr, sonarr, library, mentions, crashes>>

\* The answer named no seasons: ask again, and believe the selection when that
\* fails or names none either.
Verify(f) ==
    /\ job[f].pc = "verify"
    /\ \/ \E units \in {seerr[f].granted, SelectedSeerr[f]} :
             Record(f, AfterSeerr(f), TRUE, units)
       \/ Abandon(f)
    /\ UNCHANGED <<up, boot, row, watcher, seerr, sonarr, library, mentions, crashes>>

\* The answer of request_missing_episodes.  Sonarr monitors what it can resolve;
\* when every episode has arrived there is nothing to monitor, nor to track
\* without Seerr.  An error after Seerr accepted is only noted.
Repair(f) ==
    LET some == sonarr[f] # {} IN
    /\ job[f].pc = "repair"
    /\ \/ some /\ Record(f, "finish", job[f].seerr, job[f].accepted \union sonarr[f])
       \/ Abandon(f)
       \/ /\ job[f].seerr
          /\ IF some THEN Fault ELSE NoFault
          /\ job' = [job EXCEPT ![f].pc = "finish"]
          /\ UNCHANGED intent
       \/ ~some /\ ~job[f].seerr /\ NoFault /\ GiveUp(f)
    /\ UNCHANGED <<up, boot, row, watcher, seerr, sonarr, library, mentions, crashes>>

\* Stop the view, record the outcome, track the request, close the intent; an
\* error on the way leaves the intent accepted for the next start.
Finish(f) ==
    LET a == Accepted(f, job[f].seerr, job[f].accepted)
        tracked == Upserted(TrackingKey(f, job[f].seerr), job[f].accepted)
    IN
    /\ job[f].pc = "finish"
    /\ \/ /\ intent' = [intent EXCEPT ![f] = Tracked(a)]
          /\ row' = tracked
          /\ NoFault
       \/ Fault /\ intent' = [intent EXCEPT ![f] = a] /\ row' \in {row, tracked}
    /\ job' = [job EXCEPT ![f].pc = "over"]
    /\ UNCHANGED <<up, boot, watcher, seerr, sonarr, library, mentions, crashes>>

-----------------------------------------------------------------------------
(***************************************************************************)
(* The process stops and starts.                                           *)
(***************************************************************************)

\* A kill, or a shutdown whose drain of the active submissions ran out: the
\* handlers, the views and the watcher's cycle are lost.
Stop ==
    /\ up # "down"
    /\ crashes < MaxCrashes
    /\ crashes' = crashes + 1
    /\ up' = "down"
    /\ boot' = NoBoot
    /\ job' = [f \in Forms |-> IF job[f].pc = "none" THEN job[f]
                               ELSE [job[f] EXCEPT !.pc = "lost"]]
    /\ watcher' = NoCycle
    /\ UNCHANGED <<intent, row, seerr, sonarr, library, mentions, faults>>

\* mutant: an exact repair is not recovered
RecoverableFromSeerr == {f \in Forms : intent[f].state = "accepted" /\ intent[f].seerr}

\* recoverable_media_request_intents: the accepted ones
Recoverable == {f \in Forms : intent[f].state = "accepted"}

Start ==
    /\ up = "down"
    /\ up' = "starting"
    /\ boot' = [todo |-> Recoverable, failed |-> FALSE]
    /\ UNCHANGED <<job, intent, row, watcher, seerr, sonarr, library,
                   mentions, faults, crashes>>

\* track_accepted_media_request_intent; an error is counted and the next intent
\* is tried
Recover(f) ==
    LET tracked == Upserted(TrackingKey(f, intent[f].seerr), intent[f].accepted) IN
    /\ up = "starting"
    /\ f \in boot.todo
    /\ \/ /\ row' = tracked
          /\ intent' = [intent EXCEPT ![f] = Tracked(@)]
          /\ boot' = [boot EXCEPT !.todo = @ \ {f}]
          /\ NoFault
       \/ /\ Fault
          /\ row' \in {row, tracked}
          /\ boot' = [todo |-> boot.todo \ {f}, failed |-> TRUE]
          /\ UNCHANGED intent
    /\ UNCHANGED <<up, job, watcher, seerr, sonarr, library, mentions,
                   crashes>>

\* main refuses to start when an accepted intent could not be recovered
Ready ==
    /\ up = "starting"
    /\ boot.todo = {}
    /\ up' = IF boot.failed THEN "down" ELSE "running"
    /\ boot' = NoBoot
    /\ UNCHANGED <<job, intent, row, watcher, seerr, sonarr, library,
                   mentions, faults, crashes>>

-----------------------------------------------------------------------------
(***************************************************************************)
(* The availability watcher works on the rows it read at the poll.         *)
(***************************************************************************)

Poll ==
    LET due == {k \in Keys : Pending(k)} IN
    /\ up = "running"
    /\ watcher.pc = "idle"
    /\ due # {}
    /\ watcher' = [pc |-> "next", todo |-> due, cur |-> NoKey,
                   seen |-> [k \in Keys |-> IF k \in due THEN row[k] ELSE NoRow]]
    /\ UNCHANGED <<up, boot, job, intent, row, seerr, sonarr, library,
                   mentions, faults, crashes>>

\* mutant: the next record is looked up before it is taken
ContinueUntaken(todo) ==
    IF todo = {} THEN NoCycle
    ELSE [watcher EXCEPT !.pc = "look", !.todo = todo, !.cur = NoKey]

\* done with a record: the next one, or the end of the cycle
Continue(todo) ==
    IF todo = {} THEN NoCycle
    ELSE [watcher EXCEPT !.pc = "next", !.todo = todo, !.cur = NoKey]

\* request_details: Seerr's status is stored, and a declined or failed request
\* is left.  Without a Seerr id, or an answer, the cycle goes on to Jellyfin.
Reconcile(k) ==
    LET left == watcher.todo \ {k}
        look == watcher' = [watcher EXCEPT !.pc = "look", !.todo = left, !.cur = k]
    IN
    /\ watcher.pc = "next" /\ k \in watcher.todo
    /\ \/ k[2] = "direct" /\ look /\ NoFault /\ UNCHANGED row
       \/ k[2] = "seerr" /\ look /\ Fault /\ UNCHANGED row
       \/ /\ k[2] = "seerr" /\ NoFault
          /\ IF seerr[k[1]].status = "declined"
             THEN /\ row' = [row EXCEPT ![k].status = "declined"]
                  /\ watcher' = Continue(left)
             ELSE row' = [row EXCEPT ![k].status = "live"] /\ look
    /\ UNCHANGED <<up, boot, job, intent, seerr, sonarr, library,
                   mentions, crashes>>

\* mutant: one unit is enough
PartlyThere(k) == watcher.seen[k].units \intersect library # {}

\* tracked_seasons_are_available
Complete(k) == watcher.seen[k].units \subseteq library

\* find_by_tmdb and the episode numbers; library truth is stored at once
Look ==
    LET k == watcher.cur IN
    /\ watcher.pc = "look"
    /\ \/ /\ Complete(k)
          /\ row' = IF watcher.seen[k].available THEN row
                    ELSE [row EXCEPT ![k].available = TRUE]
          /\ watcher' = [watcher EXCEPT !.pc = "send"]
          /\ NoFault
       \/ /\ (~Complete(k) /\ NoFault) \/ Fault
          /\ watcher' = Continue(watcher.todo)
          /\ UNCHANGED row
    /\ UNCHANGED <<up, boot, job, intent, seerr, sonarr, library,
                   mentions, crashes>>

\* The mention, then mark_availability_notified.  The channel may be out of
\* reach, the mention may be sent without an answer, the mark may fail.
Send ==
    LET k == watcher.cur
        sent == [mentions EXCEPT ![k] = @ + 1]
    IN
    /\ watcher.pc = "send"
    /\ \/ /\ mentions' = sent
          /\ row' = IF row[k].available THEN [row EXCEPT ![k].notified = TRUE] ELSE row
          /\ NoFault
       \/ Fault /\ mentions' \in {mentions, sent} /\ UNCHANGED row
    /\ watcher' = Continue(watcher.todo)
    /\ UNCHANGED <<up, boot, job, intent, seerr, sonarr, library, crashes>>

-----------------------------------------------------------------------------
\* Outside: Seerr takes a request, or some of its seasons, or refuses it, and
\* Sonarr monitors the missing episodes it knows, all while a handler awaits the
\* answer.
Grant(f) ==
    /\ job[f].pc = "create" /\ seerr[f].status = "none"
    /\ \E got \in SUBSET SelectedSeerr[f] \ {{}} :
          seerr' = [seerr EXCEPT ![f] = [status |-> "open", granted |-> got]]
    /\ UNCHANGED <<up, boot, job, intent, row, watcher, sonarr, library,
                   mentions, faults, crashes>>

Refuse(f) ==
    /\ job[f].pc = "create" /\ seerr[f].status = "none"
    /\ seerr' = [seerr EXCEPT ![f].status = "refused"]
    /\ UNCHANGED <<up, boot, job, intent, row, watcher, sonarr, library,
                   mentions, faults, crashes>>

Monitor(f) ==
    /\ job[f].pc = "repair" /\ sonarr[f] = {}
    /\ \E got \in SUBSET (SelectedDirect[f] \ library) \ {{}} :
          sonarr' = [sonarr EXCEPT ![f] = got]
    /\ UNCHANGED <<up, boot, job, intent, row, watcher, seerr, library,
                   mentions, faults, crashes>>

\* Outside: a unit arrives in Jellyfin; Seerr's request is declined or fails,
\* and may be approved or retried after that.
Arrive(u) ==
    /\ u \notin library
    /\ library' = library \union {u}
    /\ UNCHANGED <<up, boot, job, intent, row, watcher, seerr, sonarr,
                   mentions, faults, crashes>>

Decline(f) ==
    /\ seerr[f].status = "open"
    /\ seerr' = [seerr EXCEPT ![f].status = "declined"]
    /\ UNCHANGED <<up, boot, job, intent, row, watcher, sonarr, library,
                   mentions, faults, crashes>>

Reopen(f) ==
    /\ seerr[f].status = "declined"
    /\ seerr' = [seerr EXCEPT ![f].status = "open"]
    /\ UNCHANGED <<up, boot, job, intent, row, watcher, sonarr, library,
                   mentions, faults, crashes>>

Submission(f) == \/ Show(f) \/ Confirm(f) \/ Cancel(f) \/ Acknowledge(f)
                 \/ Create(f) \/ Verify(f) \/ Repair(f) \/ Finish(f)
Provider(f) == Grant(f) \/ Refuse(f) \/ Monitor(f) \/ Decline(f) \/ Reopen(f)
Boot == Start \/ Ready \/ \E f \in Forms : Recover(f)
Watch == Poll \/ Look \/ Send \/ \E k \in Keys : Reconcile(k)

Next ==
    \/ \E f \in Forms : Submission(f) \/ Provider(f)
    \/ Boot \/ Stop \/ Watch
    \/ \E u \in Units : Arrive(u)

Spec == Init /\ [][Next]_vars

\* The service is restarted whenever it is down, and the watcher loops.
FairSpec == Spec /\ WF_vars(Boot) /\ WF_vars(Watch)

-----------------------------------------------------------------------------
(***************************************************************************)
(* Properties.                                                             *)
(***************************************************************************)

TypeOK ==
    /\ up \in {"down", "starting", "running"}
    /\ boot \in [todo : SUBSET Forms, failed : BOOLEAN]
    /\ job \in [Forms -> Job]
    /\ intent \in [Forms -> Intent]
    /\ row \in [Keys -> Row]
    /\ watcher \in Cycle
    /\ watcher.pc \in {"look", "send"} => watcher.cur \in Keys
    /\ seerr \in [Forms -> [status : {"none", "refused", "open", "declined"},
                              granted : SUBSET Units]]
    /\ sonarr \in [Forms -> SUBSET Units]
    /\ library \in SUBSET Units
    /\ mentions \in [Keys -> Nat]
    /\ faults \in Nat /\ crashes \in Nat

\* A tracked request is backed by its providers: the Seerr request exists, and
\* an exact repair waits only for episodes that Sonarr took, however the handler
\* ended and whoever tracked it.
RowsAreBacked ==
    \A f \in Forms :
        /\ row[<<f, "seerr">>].status # "none" =>
              /\ seerr[f].status \in {"open", "declined"}
              /\ row[<<f, "seerr">>].units \intersect SelectedDirect[f] \subseteq sonarr[f]
        /\ row[<<f, "direct">>].status # "none" =>
              row[<<f, "direct">>].units \subseteq sonarr[f]

\* The handler and the recovery after a restart track an intent under the same
\* id, so a request has one row and is mentioned as one.
OneRow ==
    \A f \in Forms : \E p \in {"seerr", "direct"} : row[<<f, p>>].status = "none"

\* What was accepted is never written off: an accepted intent only becomes
\* tracked, and a tracked or failed intent stays what it is.
LedgerForward ==
    [][\A f \in Forms :
          /\ intent[f].state = "accepted" => intent'[f].state \in {"accepted", "tracked"}
          /\ intent[f].state \in {"tracked", "failed"} => intent'[f] = intent[f]]_vars

\* When the bot serves again, no submission of an earlier process is left
\* accepted and untracked: main recovers them all or refuses to start.
RecoveredAtStartup ==
    up = "running" =>
        \A f \in Forms : job[f].pc = "lost" => intent[f].state # "accepted"

\* The requester is told that a request is available only when every unit it
\* waits for is in Jellyfin and the row says so.
MentionIsTrue ==
    [][\A k \in Keys : mentions'[k] # mentions[k] =>
          row[k].available /\ row[k].units \subseteq library]_vars

\* A mention whose delivery was confirmed is never repeated.
MentionOnce ==
    [][\A k \in Keys : mentions'[k] # mentions[k] => ~row[k].notified]_vars

\* A tracked request whose units are all in Jellyfin is mentioned in the end,
\* across failed sends and restarts, unless the watcher found it declined.
MentionArrives ==
    \A k \in Keys :
        row[k].status = "live" /\ row[k].units \subseteq library
            ~> row[k].notified \/ row[k].status = "declined"

\* After a restart no submission that a provider accepted is still only prepared.
ReconciledAfterRestart ==
    up = "running" =>
        \A f \in Forms : job[f].pc = "lost" /\ intent[f].state = "prepared" =>
            seerr[f].status \in {"none", "refused"} /\ sonarr[f] = {}

\* A confirmation is turned away before the providers are asked only because a
\* call or a write failed.
RefusedOnlyByFault ==
    [][\A f \in Forms : job[f].pc = "ack" /\ job'[f].pc = "over" =>
          faults' # faults]_vars

\* The invariant of the ledger and its tracked rows, from its parts.
LedgerInv == TypeOK /\ RowsAreBacked /\ OneRow /\ RecoveredAtStartup

\* No step writes off what was accepted, and none mentions what is not so, or again.
LedgerSteps == LedgerForward /\ MentionIsTrue /\ MentionOnce

=============================================================================
