---------------------------- MODULE TransientUI ----------------------------
(***************************************************************************)
(* The durable lifecycle of the bot's short-lived Discord cards.           *)
(*                                                                         *)
(* A command message posts one or more cards (a batch).  Every card has a  *)
(* row in transient_ui_entries and every batch one in                      *)
(* transient_ui_batches; the interactive views live in memory only.  Four  *)
(* kinds of actor work on the rows: the command handler that posts the     *)
(* cards, the card's view (clicks and its own timeout), the expiry worker  *)
(* that runs every 30 seconds, and the removal of the command message,     *)
(* which views and the worker both perform.  Awaited Discord calls are     *)
(* where the actors interleave; a call may fail, or take effect and lose   *)
(* its reply; the process may stop between any two steps and restart with  *)
(* no views.                                                               *)
(*                                                                         *)
(* SQLite errors are modelled for registration only.  Random claim tokens  *)
(* are any value that no row and no live actor holds.                      *)
(***************************************************************************)
EXTENDS Naturals

CONSTANTS
    Cards,        \* the Discord cards
    Batches,      \* the commands that posted them
    BatchOf,      \* the batch of each card
    HasCommand,   \* the batches registered with a command message
    Worker,       \* the expiry worker, an actor beside the cards' views
    Token,        \* claim tokens
    NoToken, NoCard, NoBatch,
    UITimeout,    \* REQUEST_UI_TIMEOUT
    SubmitBound,  \* longest time between a confirming click and its answer
    FinishLease,  \* lease of finish_transient_batch_command (60 s)
    WorkerLease,  \* lease of run_transient_ui_cleanup_once (90 s)
    RetryDelay,   \* retry_at of a released claim (30 s)
    MaxTime,      \* bound: the clock stops here
    LastClick,    \* bound: no post or click after this
    Horizon,      \* bound: no fault or restart after this
    MaxFaults,    \* bound: Discord calls and registrations that fail
    MaxCrashes    \* bound: process restarts

ASSUME ConstantsAssumption ==
    /\ BatchOf \in [Cards -> Batches]
    /\ HasCommand \subseteq Batches
    /\ Worker \notin Cards
    /\ NoToken \notin Token
    /\ NoCard \notin Cards
    /\ NoBatch \notin Batches
    /\ {UITimeout, SubmitBound, FinishLease, WorkerLease, RetryDelay,
        MaxTime, LastClick, Horizon, MaxFaults, MaxCrashes} \subseteq Nat

(***************************************************************************)
(* A confirmation makes a handful of provider calls, each with a total     *)
(* timeout of 20 or 30 seconds, so its answer comes well inside the five   *)
(* minutes for which the click renewed the card.                           *)
(***************************************************************************)
ASSUME SubmissionAssumption == SubmitBound < UITimeout

VARIABLES
    entry,     \* transient_ui_entries, one row per card
    batch,     \* transient_ui_batches
    kind,      \* menu, or a saved_actions kind, in the row and in the view
    card,      \* the card on Discord
    command,   \* the command message on Discord
    posting,   \* is the command handler still posting cards?
    ui,        \* the card's view, and what its user did
    deadline,  \* when the view times out
    removal,   \* a command removal in progress, per actor
    worker,    \* the running cleanup cycle
    now, faults, crashes

vars == <<entry, batch, kind, card, command, posting, ui, deadline, removal,
          worker, now, faults, crashes>>

-----------------------------------------------------------------------------
Actors == Cards \union {Worker}
CardsOf(b) == {c \in Cards : BatchOf[c] = b}

DismissalStates == {"dismissed", "expired"}
PreserveStates == {"accepted", "kept"}
EntryStates == {"none", "active"} \union DismissalStates \union PreserveStates
BatchStates == {"none", "pending", "delete_claimed", "deleted", "preserved",
                "purged"}
UiStates == {"unposted", "idle", "submitting", "dismissing", "dropping",
             "dropped", "accepted", "kept", "done"}

EntryRow == [state : EntryStates, expires : Nat, token : Token \union {NoToken},
             claimedAt : Nat]
BatchRow == [state : BatchStates, token : Token \union {NoToken},
             claimedAt : Nat]
Removal == [pc : {"idle", "claim", "delete", "finalize"},
            batch : Batches \union {NoBatch},
            token : Token \union {NoToken}, deleted : BOOLEAN]
Cycle == [pc : {"idle", "commands", "cards", "delete", "mark", "release"},
          token : Token \union {NoToken}, now : Nat,
          claims : SUBSET Batches, todo : SUBSET Cards,
          cur : Cards \union {NoCard}]

NoEntry == [state |-> "none", expires |-> 0, token |-> NoToken, claimedAt |-> 0]
NoRow == [state |-> "none", token |-> NoToken, claimedAt |-> 0]
NoRemoval == [pc |-> "idle", batch |-> NoBatch, token |-> NoToken,
              deleted |-> FALSE]
NoCycle == [pc |-> "idle", token |-> NoToken, now |-> 0, claims |-> {},
            todo |-> {}, cur |-> NoCard]

\* secrets.token_hex: a value nobody else holds
InUse == {entry[c].token : c \in Cards} \union {batch[b].token : b \in Batches}
         \union {removal[a].token : a \in Actors} \union {worker.token}
Unused == Token \ InUse
Fresh == CHOOSE t \in Unused : TRUE

Init ==
    /\ entry = [c \in Cards |-> NoEntry]
    /\ batch = [b \in Batches |-> NoRow]
    /\ kind = [c \in Cards |-> "menu"]
    /\ card = [c \in Cards |-> "none"]
    /\ command = [b \in Batches |-> IF b \in HasCommand THEN "shown" ELSE "none"]
    /\ posting = [b \in Batches |-> TRUE]
    /\ ui = [c \in Cards |-> "unposted"]
    /\ deadline = [c \in Cards |-> 0]
    /\ removal = [a \in Actors |-> NoRemoval]
    /\ worker = NoCycle
    /\ now = 0 /\ faults = 0 /\ crashes = 0

-----------------------------------------------------------------------------
(***************************************************************************)
(* The store: what one BEGIN IMMEDIATE transaction reads and writes.       *)
(***************************************************************************)

HasRow(c) == entry[c].state # "none" /\ batch[BatchOf[c]].state # "purged"

\* mutant: a renewal that does not look at the claim
RenewableWhenClaimed(c) == entry[c].state = "active"

\* reset_card, transition_card: only an active row nobody has claimed
Renewable(c) == entry[c].state = "active" /\ entry[c].token = NoToken

\* mutant: the claim of a cycle that died is never taken over
ClaimableOnce(c, t) ==
    entry[c].state = "active" /\ entry[c].expires <= t /\ entry[c].token = NoToken

\* claim_expired at time t: due, and unclaimed or claimed a lease ago
ClaimableEntry(c, t) ==
    /\ entry[c].state = "active"
    /\ entry[c].expires <= t
    /\ \/ entry[c].token = NoToken
       \/ entry[c].claimedAt + WorkerLease <= t

\* mutant: cards that are still active do not count
DisposableWhileActive(b) ==
    \A c \in CardsOf(b) : entry[c].state \in DismissalStates \union {"active"}

\* every expected card is registered and was dismissed or expired
Disposable(b) == \A c \in CardsOf(b) : entry[c].state \in DismissalStates

\* mutant: a claim left by a crash is never taken over
ScanPendingOnly(b, t) == batch[b].state = "pending" /\ Disposable(b)

\* claim_deletable_batch_commands at time t
ClaimableByScan(b, t) ==
    /\ \/ batch[b].state = "pending"
       \/ batch[b].state = "delete_claimed" /\ batch[b].claimedAt + WorkerLease <= t
    /\ Disposable(b)

\* claim_batch_command_deletion
ClaimableByFinish(b) ==
    /\ \/ batch[b].state = "pending"
       \/ batch[b].state = "delete_claimed" /\ batch[b].claimedAt + FinishLease <= now
    /\ Disposable(b)

ClaimedRow(t, at) == [state |-> "delete_claimed", token |-> t, claimedAt |-> at]
SettledRow(s) == [state |-> s, token |-> NoToken, claimedAt |-> 0]

\* mark_terminal: token NoToken is a caller without a claim
CanMark(c, token) ==
    /\ entry[c].state = "active"
    /\ token # NoToken => entry[c].token = token

Marked(c, s) == [entry EXCEPT ![c].state = s, ![c].token = NoToken,
                              ![c].claimedAt = 0]

MarkTerminal(c, s, token) ==
    IF CanMark(c, token)
    THEN /\ entry' = Marked(c, s)
         /\ batch' = IF s \in PreserveStates /\ batch[BatchOf[c]].state # "deleted"
                     THEN [batch EXCEPT ![BatchOf[c]] = SettledRow("preserved")]
                     ELSE batch
    ELSE UNCHANGED <<entry, batch>>

\* mutant: the sign of the timeout is lost
RenewedBackwards(c) == [entry EXCEPT ![c].expires = now - UITimeout]

Renewed(c) == [entry EXCEPT ![c] = [@ EXCEPT !.expires = now + UITimeout,
                                             !.token = NoToken, !.claimedAt = 0]]

-----------------------------------------------------------------------------
(***************************************************************************)
(* The command handler and the cards' views.                               *)
(***************************************************************************)

CanFail == faults < MaxFaults /\ now <= Horizon

Registrable(c) ==
    batch[BatchOf[c]].state \notin {"delete_claimed", "deleted", "purged"}

\* ctx.reply, then register_transient_card: the view is live even when the
\* registration fails and returns None
Post(c) ==
    /\ now <= LastClick
    /\ posting[BatchOf[c]] /\ ui[c] = "unposted"
    /\ card' = [card EXCEPT ![c] = "shown"]
    /\ ui' = [ui EXCEPT ![c] = "idle"]
    /\ deadline' = [deadline EXCEPT ![c] = now + UITimeout]
    /\ posting' = [posting EXCEPT ![BatchOf[c]] =
                      \E d \in CardsOf(BatchOf[c]) \ {c} : ui[d] = "unposted"]
    /\ \/ /\ Registrable(c)
          /\ entry' = [entry EXCEPT ![c] = [state |-> "active",
                          expires |-> now + UITimeout, token |-> NoToken,
                          claimedAt |-> 0]]
          /\ batch' = IF batch[BatchOf[c]].state = "none"
                      THEN [batch EXCEPT ![BatchOf[c]] = SettledRow("pending")]
                      ELSE batch
          /\ UNCHANGED faults
       \/ /\ Registrable(c) => CanFail
          /\ faults' = IF Registrable(c) THEN faults + 1 ELSE faults
          /\ UNCHANGED <<entry, batch>>
    /\ UNCHANGED <<kind, command, removal, worker, now, crashes>>

\* mutant: the click is answered whatever the renewal returned
AlwaysAnswerable(c) == TRUE

\* renew_transient_interaction: once expiry owns or retired the row the click
\* is rejected; a card without a row is let through
Answerable(c) == Renewable(c) \/ ~HasRow(c)

\* interaction_check, before every click
Click(c) ==
    /\ now <= LastClick
    /\ ui[c] = "idle" /\ now <= deadline[c]
    /\ Answerable(c)
    /\ entry' = IF HasRow(c) THEN Renewed(c) ELSE entry
    /\ deadline' = [deadline EXCEPT ![c] = now + UITimeout]
    /\ UNCHANGED <<batch, card, command, posting, removal, worker, now, faults,
                   crashes>>

\* a page or a selection changes nothing but the expiry
Browse(c) ==
    /\ Click(c)
    /\ UNCHANGED <<kind, ui>>

\* a vote or a rating is saved: transition_card to a saved_actions kind
Save(c) ==
    /\ Click(c)
    /\ kind' = [kind EXCEPT ![c] = "saved"]
    /\ UNCHANGED ui

\* REQUEST: _submitting is set and the providers are called
Submit(c) ==
    /\ Click(c)
    /\ ui' = [ui EXCEPT ![c] = "submitting"]
    /\ UNCHANGED kind

\* the provider accepted: mark_terminal without a token
SubmitAccepted(c) ==
    /\ ui[c] = "submitting"
    /\ ui' = [ui EXCEPT ![c] = "accepted"]
    /\ MarkTerminal(c, "accepted", NoToken)
    /\ UNCHANGED <<kind, card, command, posting, deadline, removal, worker, now,
                   faults, crashes>>

\* the answer is an error: the view stops and the row is left to expire; or
\* the ledger refused before any provider was called and the view lives on
SubmitFailed(c) ==
    /\ ui[c] = "submitting"
    /\ ui' \in {[ui EXCEPT ![c] = "done"], [ui EXCEPT ![c] = "idle"]}
    /\ UNCHANGED <<entry, batch, kind, card, command, posting, deadline, removal,
                   worker, now, faults, crashes>>

\* Keep: a click on a keep button, and nothing is awaited before the mark
Keep(c) ==
    /\ now <= LastClick
    /\ ui[c] = "idle" /\ now <= deadline[c]
    /\ Answerable(c)
    /\ ui' = [ui EXCEPT ![c] = "kept"]
    /\ MarkTerminal(c, "kept", NoToken)
    /\ UNCHANGED <<kind, card, command, posting, deadline, removal, worker, now,
                   faults, crashes>>

\* the view's own timeout keeps a card whose result was saved
KeepOnTimeout(c) ==
    /\ ui[c] = "idle" /\ now >= deadline[c]
    /\ kind[c] = "saved"
    /\ ui' = [ui EXCEPT ![c] = "kept"]
    /\ MarkTerminal(c, "kept", NoToken)
    /\ UNCHANGED <<kind, card, command, posting, deadline, removal, worker, now,
                   faults, crashes>>

\* its card could not be edited: the view is over and the row left to the worker
KeepFailed(c) ==
    /\ ui[c] = "idle" /\ now >= deadline[c]
    /\ kind[c] = "saved"
    /\ CanFail
    /\ faults' = faults + 1
    /\ ui' = [ui EXCEPT ![c] = "done"]
    /\ UNCHANGED <<entry, batch, kind, card, command, posting, deadline, removal,
                   worker, now, crashes>>

\* cleanup_unsuccessful_request reads the active row before it awaits
StartCleanup(c) ==
    ui' = [ui EXCEPT ![c] = IF entry[c].state = "active" THEN "dismissing"
                                                         ELSE "dropping"]

\* Cancel
Dismiss(c) ==
    /\ Click(c)
    /\ StartCleanup(c)
    /\ UNCHANGED kind

DismissOnTimeout(c) ==
    /\ ui[c] = "idle" /\ now >= deadline[c]
    /\ kind[c] = "menu"
    /\ StartCleanup(c)
    /\ UNCHANGED <<entry, batch, kind, card, command, posting, deadline, removal,
                   worker, now, faults, crashes>>

\* mutant: any error counts as deleted
AcknowledgedRegardless(f, x) ==
    (UNCHANGED f \/ f' = [f EXCEPT ![x] = "gone"]) /\ UNCHANGED faults

\* A Discord deletion: it takes effect and is acknowledged (or the message is
\* already gone), or it fails, with or without taking effect.
Acknowledged(f, x) == f' = [f EXCEPT ![x] = "gone"] /\ UNCHANGED faults
NotAcknowledged(f, x) ==
    /\ CanFail
    /\ faults' = faults + 1
    /\ \/ UNCHANGED f
       \/ f[x] # "none" /\ f' = [f EXCEPT ![x] = "gone"]

\* delete the card, mark the row dismissed, go on to the command; a failed
\* deletion returns at once
DismissCard(c) ==
    /\ ui[c] = "dismissing"
    /\ ui' = [ui EXCEPT ![c] = "done"]
    /\ \/ /\ Acknowledged(card, c)
          /\ MarkTerminal(c, "dismissed", NoToken)
          /\ removal' = [removal EXCEPT ![c] =
                            [NoRemoval EXCEPT !.pc = "claim", !.batch = BatchOf[c]]]
       \/ /\ NotAcknowledged(card, c)
          /\ UNCHANGED <<entry, batch, removal>>
    /\ UNCHANGED <<kind, command, posting, deadline, worker, now, crashes>>

\* no active row: delete the card, then RankedBatchState counts it
DropCard(c) ==
    /\ ui[c] = "dropping"
    /\ ui' = [ui EXCEPT ![c] = "dropped"]
    /\ Acknowledged(card, c) \/ NotAcknowledged(card, c)
    /\ UNCHANGED <<entry, batch, kind, command, posting, deadline, removal,
                   worker, now, crashes>>

\* every card of the command was dropped in memory: delete the command
DropCommand(b) ==
    /\ CardsOf(b) # {}
    /\ \A c \in CardsOf(b) : ui[c] = "dropped"
    /\ ui' = [c \in Cards |-> IF c \in CardsOf(b) THEN "done" ELSE ui[c]]
    /\ IF b \in HasCommand
       THEN Acknowledged(command, b) \/ NotAcknowledged(command, b)
       ELSE UNCHANGED <<command, faults>>
    /\ UNCHANGED <<entry, batch, kind, card, posting, deadline, removal, worker,
                   now, crashes>>

-----------------------------------------------------------------------------
(***************************************************************************)
(* Removal of a command message: claim, delete on Discord, record.         *)
(***************************************************************************)

ClaimRemoval(a) ==
    LET b == removal[a].batch IN
    /\ removal[a].pc = "claim"
    /\ \/ /\ ~ClaimableByFinish(b)
          /\ removal' = [removal EXCEPT ![a] = NoRemoval]
          /\ UNCHANGED batch
       \/ /\ ClaimableByFinish(b)
          /\ b \notin HasCommand
          /\ removal' = [removal EXCEPT ![a] = NoRemoval]
          /\ batch' = [batch EXCEPT ![b] = SettledRow("deleted")]
       \/ /\ ClaimableByFinish(b)
          /\ b \in HasCommand
          /\ Unused # {}
          /\ removal' = [removal EXCEPT ![a].pc = "delete", ![a].token = Fresh]
          /\ batch' = [batch EXCEPT ![b] = ClaimedRow(Fresh, now)]
    /\ UNCHANGED <<entry, kind, card, command, posting, ui, deadline, worker, now,
                   faults, crashes>>

DeleteCommand(a) ==
    LET b == removal[a].batch IN
    /\ removal[a].pc = "delete"
    /\ \/ /\ Acknowledged(command, b)
          /\ removal' = [removal EXCEPT ![a].pc = "finalize", ![a].deleted = TRUE]
       \/ /\ NotAcknowledged(command, b)
          /\ removal' = [removal EXCEPT ![a].pc = "finalize"]
    /\ UNCHANGED <<entry, batch, kind, card, posting, ui, deadline, worker, now,
                   crashes>>

\* mutant: the outcome of the deletion is ignored
AlwaysDeleted(a) == "deleted"

\* mark_batch_command_deleted, or release_batch_command_claim for a retry
Outcome(a) == IF removal[a].deleted THEN "deleted" ELSE "pending"

\* finalize_transient_command_claim: only the claim's own token may settle it
FinalizeRemoval(a) ==
    LET b == removal[a].batch
        own == batch[b].state = "delete_claimed" /\ batch[b].token = removal[a].token
    IN
    /\ removal[a].pc = "finalize"
    /\ batch' = IF own
                THEN [batch EXCEPT ![b] = SettledRow(Outcome(a))]
                ELSE batch
    /\ removal' = [removal EXCEPT ![a] = NoRemoval]
    /\ UNCHANGED <<entry, kind, card, command, posting, ui, deadline, worker, now,
                   faults, crashes>>

-----------------------------------------------------------------------------
(***************************************************************************)
(* The cleanup cycle.  It works with the time read at its start.           *)
(***************************************************************************)

WorkerFree == removal[Worker].pc = "idle"

\* claim_deletable_batch_commands: a batch without a command is done at once
BeginCycle ==
    LET found == {b \in Batches : ClaimableByScan(b, now)} IN
    /\ worker.pc = "idle" /\ WorkerFree
    /\ Unused # {}
    /\ worker' = [NoCycle EXCEPT !.pc = "commands", !.token = Fresh, !.now = now,
                                 !.claims = found \intersect HasCommand]
    /\ batch' = [b \in Batches |->
                    IF b \notin found THEN batch[b]
                    ELSE IF b \in HasCommand THEN ClaimedRow(Fresh, now)
                    ELSE SettledRow("deleted")]
    /\ UNCHANGED <<entry, kind, card, command, posting, ui, deadline, removal, now,
                   faults, crashes>>

RetryCommand(b) ==
    /\ worker.pc = "commands" /\ WorkerFree
    /\ b \in worker.claims
    /\ worker' = [worker EXCEPT !.claims = @ \ {b}]
    /\ removal' = [removal EXCEPT ![Worker] = [NoRemoval EXCEPT !.pc = "delete",
                      !.batch = b, !.token = worker.token]]
    /\ UNCHANGED <<entry, batch, kind, card, command, posting, ui, deadline, now,
                   faults, crashes>>

\* claim_expired, once every command claim is settled
ClaimExpired ==
    LET due == {c \in Cards : ClaimableEntry(c, worker.now)} IN
    /\ worker.pc = "commands" /\ WorkerFree
    /\ worker.claims = {}
    /\ worker' = [worker EXCEPT !.pc = "cards", !.todo = due]
    /\ entry' = [c \in Cards |->
                    IF c \in due
                    THEN [entry[c] EXCEPT !.token = worker.token,
                                          !.claimedAt = worker.now]
                    ELSE entry[c]]
    /\ UNCHANGED <<batch, kind, card, command, posting, ui, deadline, removal, now,
                   faults, crashes>>

StillMine(c) == entry[c].state = "active" /\ entry[c].token = worker.token

\* fetch the message, then look at the row again
FetchCard(c) ==
    /\ worker.pc = "cards" /\ WorkerFree
    /\ c \in worker.todo
    /\ \/ /\ card[c] = "shown"
          /\ worker' = IF StillMine(c)
                       THEN [worker EXCEPT !.pc = "delete", !.todo = @ \ {c},
                                           !.cur = c]
                       ELSE [worker EXCEPT !.todo = @ \ {c}]
          /\ UNCHANGED faults
       \/ /\ card[c] = "gone"
          /\ worker' = [worker EXCEPT !.pc = "mark", !.todo = @ \ {c}, !.cur = c]
          /\ UNCHANGED faults
       \/ /\ CanFail
          /\ faults' = faults + 1
          /\ worker' = [worker EXCEPT !.pc = "release", !.todo = @ \ {c}, !.cur = c]
    /\ UNCHANGED <<entry, batch, kind, card, command, posting, ui, deadline,
                   removal, now, crashes>>

\* delete the card, or only take the view off one that shows a saved result
RetireCard ==
    LET c == worker.cur
        ok == worker' = [worker EXCEPT !.pc = "mark"]
        failed == worker' = [worker EXCEPT !.pc = "release"]
    IN
    /\ worker.pc = "delete"
    /\ \/ kind[c] = "menu" /\ Acknowledged(card, c) /\ ok
       \/ kind[c] = "menu" /\ NotAcknowledged(card, c) /\ failed
       \/ kind[c] = "saved" /\ UNCHANGED <<card, faults>> /\ ok
       \/ /\ kind[c] = "saved" /\ failed
          /\ CanFail /\ faults' = faults + 1
          /\ UNCHANGED card
    /\ UNCHANGED <<entry, batch, kind, command, posting, ui, deadline, removal,
                   now, crashes>>

\* release_claim with retry_at
ReleaseCard ==
    LET c == worker.cur IN
    /\ worker.pc = "release"
    /\ entry' = IF StillMine(c)
                THEN [entry EXCEPT ![c].token = NoToken, ![c].claimedAt = 0,
                                   ![c].expires = worker.now + RetryDelay]
                ELSE entry
    /\ worker' = [worker EXCEPT !.pc = "cards", !.cur = NoCard]
    /\ UNCHANGED <<batch, kind, card, command, posting, ui, deadline, removal, now,
                   faults, crashes>>

\* mark_terminal with the claim's token; an expired card goes on to its command
RecordRetired ==
    LET c == worker.cur
        s == IF kind[c] = "saved" THEN "kept" ELSE "expired"
        retired == CanMark(c, worker.token) \/ entry[c].state = s
    IN
    /\ worker.pc = "mark"
    /\ MarkTerminal(c, s, worker.token)
    /\ removal' = IF retired /\ s = "expired"
                  THEN [removal EXCEPT ![Worker] =
                           [NoRemoval EXCEPT !.pc = "claim", !.batch = BatchOf[c]]]
                  ELSE removal
    /\ worker' = [worker EXCEPT !.pc = "cards", !.cur = NoCard]
    /\ UNCHANGED <<kind, card, command, posting, ui, deadline, now, faults, crashes>>

\* the row is terminal and the view has nothing left to do
Over(c) == /\ entry[c].state # "active"
           /\ ui[c] \in {"unposted", "accepted", "kept", "done"}

\* mutant: the purge looks at the command only
PurgeableByCommand(b) == batch[b].state \in {"deleted", "preserved"}

\* purge_terminal. Its seven days are long past every view and every handler of
\* the batch; nothing else about the age is modelled.
Purgeable(b) ==
    /\ batch[b].state \in {"deleted", "preserved"}
    /\ ~posting[b]
    /\ \A c \in CardsOf(b) : Over(c)
    /\ \A a \in Actors : removal[a].pc # "idle" => removal[a].batch # b

EndCycle ==
    /\ worker.pc = "cards" /\ WorkerFree
    /\ worker.todo = {}
    /\ worker' = NoCycle
    /\ \E purged \in SUBSET {b \in Batches : Purgeable(b)} :
          batch' = [b \in Batches |-> IF b \in purged THEN SettledRow("purged")
                                                      ELSE batch[b]]
    /\ UNCHANGED <<entry, kind, card, command, posting, ui, deadline, removal, now,
                   faults, crashes>>

-----------------------------------------------------------------------------
\* The process stops and restarts: rows and messages stay, views and calls go.
\* What a user accepted or kept is remembered for the properties.
Restart ==
    /\ crashes < MaxCrashes /\ now <= Horizon
    /\ crashes' = crashes + 1
    /\ posting' = [b \in Batches |-> FALSE]
    /\ ui' = [c \in Cards |-> IF ui[c] \in {"unposted", "accepted", "kept"}
                              THEN ui[c] ELSE "done"]
    /\ removal' = [a \in Actors |-> NoRemoval]
    /\ worker' = NoCycle
    /\ UNCHANGED <<entry, batch, kind, card, command, deadline, now, faults>>

\* A submission is answered within its bound.
Tick ==
    /\ now < MaxTime
    /\ \A c \in Cards :
          ui[c] = "submitting" => now + UITimeout < deadline[c] + SubmitBound
    /\ now' = now + 1
    /\ UNCHANGED <<entry, batch, kind, card, command, posting, ui, deadline,
                   removal, worker, faults, crashes>>

ViewStep(c) ==
    \/ Post(c) \/ Browse(c) \/ Save(c) \/ Submit(c) \/ SubmitAccepted(c)
    \/ SubmitFailed(c) \/ Keep(c) \/ KeepOnTimeout(c) \/ KeepFailed(c)
    \/ Dismiss(c) \/ DismissOnTimeout(c) \/ DismissCard(c) \/ DropCard(c)

RemovalStep(a) == ClaimRemoval(a) \/ DeleteCommand(a) \/ FinalizeRemoval(a)

WorkerStep ==
    \/ BeginCycle \/ ClaimExpired \/ RetireCard \/ ReleaseCard \/ RecordRetired
    \/ EndCycle
    \/ \E b \in Batches : RetryCommand(b)
    \/ \E c \in Cards : FetchCard(c)

Next ==
    \/ \E c \in Cards : ViewStep(c)
    \/ \E b \in Batches : DropCommand(b)
    \/ \E a \in Actors : RemovalStep(a)
    \/ WorkerStep
    \/ Restart
    \/ Tick

Spec == Init /\ [][Next]_vars

-----------------------------------------------------------------------------
(***************************************************************************)
(* Properties.                                                             *)
(***************************************************************************)

RowsTyped ==
    /\ entry \in [Cards -> EntryRow]
    /\ batch \in [Batches -> BatchRow]
    /\ kind \in [Cards -> {"menu", "saved"}]
MessagesTyped ==
    /\ card \in [Cards -> {"none", "shown", "gone"}]
    /\ command \in [Batches -> {"none", "shown", "gone"}]
    /\ posting \in [Batches -> BOOLEAN]
    /\ ui \in [Cards -> UiStates]
    /\ deadline \in [Cards -> Nat]
RemovalsTyped ==
    /\ removal \in [Actors -> Removal]
    /\ \A a \in Actors : removal[a].pc # "idle" => removal[a].batch \in Batches
WorkerTyped ==
    /\ worker \in Cycle
    /\ worker.pc # "idle" => worker.token \in Token
    /\ worker.pc \in {"delete", "mark", "release"} => worker.cur \in Cards
TypeOK ==
    /\ RowsTyped /\ MessagesTyped /\ RemovalsTyped /\ WorkerTyped
    /\ now \in Nat /\ faults \in Nat /\ crashes \in Nat

Wanted(c) == ui[c] \in {"accepted", "kept"} \/ entry[c].state \in PreserveStates

\* The command message of a batch is deleted only when nobody wants any of its
\* cards: a card that is kept or requested preserves the command, whichever
\* actors removed the other cards and however often they crashed.
CommandPreserved ==
    \A b \in Batches : command[b] = "gone" =>
        \A c \in CardsOf(b) : ~Wanted(c) /\ entry[c].state # "active"

\* A row says dismissed or expired only when the card is gone from Discord:
\* the row is written after the deletion is acknowledged, by every path.
RetiredMeansGone ==
    \A c \in Cards : entry[c].state \in DismissalStates => card[c] = "gone"

\* A batch says deleted only when its command message is gone from Discord: a
\* claim that failed, was taken over or was left by a crash never says so.
DeletedMeansGone ==
    \A b \in HasCommand : batch[b].state = "deleted" => command[b] = "gone"

\* No step takes a card away while its user's request is being submitted, or
\* after it was accepted or kept: expiry does not race a user who accepts at
\* the deadline.
NoExpiryUnderUser ==
    [][\A c \in Cards : card[c] = "shown" /\ card'[c] = "gone" =>
            ui[c] \notin {"submitting", "accepted", "kept"}]_vars

Fairness ==
    /\ SF_vars(Tick)
    /\ WF_vars(WorkerStep)
    /\ \A a \in Actors : WF_vars(RemovalStep(a))
    /\ \A b \in Batches : WF_vars(DropCommand(b))
    /\ \A c \in Cards :
          /\ WF_vars(SubmitAccepted(c) \/ SubmitFailed(c))
          /\ WF_vars(KeepOnTimeout(c) \/ KeepFailed(c) \/ DismissOnTimeout(c))
          /\ WF_vars(DismissCard(c) \/ DropCard(c))

FairSpec == Spec /\ Fairness

\* Every card's row is retired in the end, one way or another: by its user, by
\* its view's timeout, or by the worker of this process or of a later one that
\* takes over the claim of a cycle that died.
CardsRetire == \A c \in Cards : entry[c].state = "active" ~> entry[c].state # "active"

\* Once every card of a command was dismissed or expired, the command message
\* goes too: failed deletions, stale claims and restarts only delay it.
CommandRetires ==
    \A b \in HasCommand : CardsOf(b) # {} /\ Disposable(b) ~> command[b] = "gone"

\* The stronger reading of the documentation: when every card that was posted
\* is dismissed or expired, the command goes.
PostedCardsRetired(b) ==
    /\ ~posting[b]
    /\ \E c \in CardsOf(b) : ui[c] # "unposted"
    /\ \A c \in CardsOf(b) : ui[c] # "unposted" => entry[c].state \in DismissalStates

\* If every card of a command reaches the dismissed or expired state, the
\* command message is deleted, across process restarts.
PostedCommandRetires ==
    \A b \in HasCommand : PostedCardsRetired(b) ~> command[b] = "gone"

-----------------------------------------------------------------------------
(***************************************************************************)
(* The store and its actors implement CommandCustody.                      *)
(***************************************************************************)

\* A card is lost when it has no row and its view is finished.
Discarded(c) ==
    /\ ui[c] \notin {"unposted", "submitting", "accepted", "kept"}
    /\ \/ entry[c].state \in DismissalStates
       \/ entry[c].state = "none" /\ ui[c] \in {"dropped", "done"}

Fate(c) == IF Wanted(c) THEN "wanted" ELSE IF Discarded(c) THEN "discarded" ELSE "open"

Custody == INSTANCE CommandCustody WITH
    fate <- [c \in Cards |-> Fate(c)],
    removed <- {b \in Batches : command[b] = "gone"}

\* Claims, takeovers, lost replies and restarts never settle a card twice and
\* never remove a command early: every step is a step of CommandCustody.
ImplementsCustody == Custody!CustodySpec

-----------------------------------------------------------------------------
(***************************************************************************)
(* The inductive invariant behind the safety properties.                   *)
(***************************************************************************)

Claimed(c) == entry[c].token # NoToken

\* Only an active row is claimed, and only once it is due.
ClaimsAreDue ==
    /\ worker.now <= now
    /\ \A c \in Cards : Claimed(c) =>
          entry[c].state = "active" /\ entry[c].expires <= now

\* What the state of a view says about the row of its card.
ViewAgrees(c) ==
    LET s == entry[c].state IN
    /\ ui[c] = "unposted" => s = "none"
    /\ ui[c] = "submitting" =>
          /\ now + UITimeout <= deadline[c] + SubmitBound
          /\ \/ s = "none"
             \/ s = "active" /\ ~Claimed(c) /\ entry[c].expires = deadline[c]
    /\ ui[c] \in {"accepted", "kept"} => s \in {"none"} \union PreserveStates
    /\ ui[c] = "idle" /\ kind[c] = "menu" => s \in {"none", "active", "expired"}
    /\ ui[c] \in {"dropping", "dropped"} => s \in {"none", "expired"}
    /\ s = "dismissed" => ui[c] = "done"
    /\ s = "expired" => kind[c] = "menu"
                        /\ ui[c] \notin {"unposted", "submitting", "accepted", "kept"}
ViewsAgree == \A c \in Cards : ViewAgrees(c)

\* A purged batch has no unfinished card.
PurgedIsOver ==
    \A b \in Batches : batch[b].state = "purged" =>
        ~posting[b] /\ \A c \in CardsOf(b) : Over(c)

\* The worker's cards are still its own, or settled by someone else.
Held(c) == /\ entry[c].state # "none"
           /\ entry[c].state = "active" => entry[c].token = worker.token
WorkerHolds ==
    /\ worker.pc = "cards" => \A c \in worker.todo : Held(c)
    /\ worker.pc \in {"delete", "mark", "release"} =>
          /\ worker.cur \notin worker.todo
          /\ \A c \in worker.todo \union {worker.cur} : Held(c)
    /\ worker.pc = "delete" /\ kind[worker.cur] = "menu" =>
          entry[worker.cur].state \notin PreserveStates

AllDiscarded(b) == \A c \in CardsOf(b) : Discarded(c)

\* Whoever is about to delete a command has found all its cards discarded, and
\* what is discarded stays so.
CommandsUnwanted ==
    /\ \A b \in Batches : command[b] = "gone" => AllDiscarded(b)
    /\ \A b \in worker.claims : AllDiscarded(b) /\ b \in HasCommand
    /\ \A a \in Actors : removal[a].pc \in {"delete", "finalize"} =>
          AllDiscarded(removal[a].batch)

\* What is recorded happened on Discord.
RecordsAreTrue ==
    /\ RetiredMeansGone
    /\ DeletedMeansGone
    /\ worker.pc = "mark" /\ kind[worker.cur] = "menu" => card[worker.cur] = "gone"
    /\ \A a \in Actors : removal[a].pc = "finalize" /\ removal[a].deleted =>
          command[removal[a].batch] = "gone"
    /\ \A b \in Batches : command[b] = "none" => b \notin HasCommand
    /\ \A a \in Actors : removal[a].pc \in {"claim", "delete"} => ~removal[a].deleted

IInv ==
    /\ TypeOK /\ ClaimsAreDue /\ ViewsAgree /\ PurgedIsOver /\ WorkerHolds
    /\ CommandsUnwanted /\ RecordsAreTrue

\* Everything retires: a command that all its cards have discarded, and every row
\* that is due, however calls fail and wherever the process stops.
AllRetire == CommandRetires /\ CardsRetire

=============================================================================
