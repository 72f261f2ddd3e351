# MediaBot in TLA+

A verification project for MediaBot, a Discord bot that searches and requests
media, runs group events and talks to a local AI gateway. Each TLA+ module is a
translation of code in `src/`; `PROJECT.json` maps every definition to the lines
it stands for, lists the TLC runs and the theorems TLAPS checks.

## The system

`src/app.py` (14 000 lines) is the Discord process: commands, views, background
loops. It is one asyncio event loop, so code between two `await`s is atomic;
every awaited Discord, provider or gateway call is a point where other handlers,
views and loops run. Durable state is in SQLite files, written in `BEGIN
IMMEDIATE` transactions that never span an `await`.

| Component | State | Operations | What is hard | What makes it correct |
|---|---|---|---|---|
| Transient cards (`core/transient_store.py`, views and the cleanup loop in `app.py`) | rows of cards and of the command that posted them; live views; claims and leases | register, renew, transition, mark, claim, release, retire a command, purge | views, worker and command removal interleave at each Discord call; lost replies; restart loses all views, never rows | the command message is deleted only when no card of it is wanted; rows agree with Discord; expiry never beats an accepting user; everything is retired in the end |
| Event store and service (`core/event_store.py`, `services/events.py`, event views, reminder and native-event workers) | events, nominations, votes, time options, reminders, native event ids | create, nominate, vote, freeze, reschedule, reopen, complete, cancel, archive, claim reminder, reconcile | votes against a frozen or reopened schedule; reminders claimed before they are sent; native event created twice | a ballot counts each voter once against one option set; a reminder stage is sent at most once and never for a stale schedule |
| Request ledger and availability (`core/database.py`, `services/requests.py`, `app.py` availability loop) | request intents, tracked requests, notification marks | begin, accept, fail, track, recover, poll, notify | crash between the provider's answer and its record; notification retried after a lost answer | one live intent per media; an accepted request is tracked in the end; availability and notification are recorded separately |
| Media reports (`core/database.py`, `services/reports.py`, report and queue views) | report rows and status, ticket cards, queue cards | choose, describe, submit, claim, close, edit the ticket, page the queue | a form's buttons, dialog and timeout overlap; a queue card is stale when its button is pressed; two administrators | a saved report keeps its ticket; a claim or a closing is never undone; a click works on the report that was shown |
| Search, rating and music cards (`SearchResultsView`, `RatingSearchView`, the `$music` views) | results and page of a view, saved ratings, music request rows | page, pick, rate, sync, request, confirm, `$status` | a page turns under a waiting click; SoulSync accepts and its answer is lost; `$status` writes back what it read earlier | what is picked is what was shown; one rating per card; within a day one job per track; an accepted request stays |
| Inference queue and client (`services/ai_queue.py`, `services/local_ai.py`, `ui/local_ai.py`) | tickets in order, dispatched or cancelled; history, revision and current question of a conversation | ask, wait for a turn, follow up, start anew, cancel, finish sooner, close when idle | cancellation races admission and the answer; the queue at its limit; a dialog is sent after the conversation went on | one active generation; a cancelled question never runs and never shows an answer; no slot is leaked; a follow-up is asked with the history its member saw |
| Local AI gateway (`deploy/local-ai/bin/gateway.py`) | active job, cancellation leases, server mode | chat, cancel, finish, server mode, status | threads under one lock; a cancel that arrives before its job | at most one job holds the GPU; a cancelled job releases it |
| GPU watcher (`deploy/local-ai/bin/gpu-watch.py`) | marker of an owned stop, status file, idle counter | inspect, sense, withdraw, stop, start, write status | killed between the marker and the docker command; an operator uses docker at the same time; a command fails after it took effect | the container follows the GPU; a container the operator stopped stays stopped; the gateway is told to admit only while the model runs |
| Desktop AI gateway (`deploy/desktop-ai/gateway.py`) | active request, cancellation leases, runtime process | chat, cancel, status, timers, monitor, stop | a timer or a cancellation meets the next request; memory runs short while the runtime starts | the right request is ended; every request ends; the memory is given back |
| Life capture and workflow (`services/life_capture.py`, `life_workflow.py`, `life_auto.py`, `ui/life_*.py`) | files in the inbox, the view's list and selection, proposals with a request id | capture, classify, load, select, propose, confirm, cancel | power fails between write, link and sync; an answer is lost and the request repeated; the list changes under a click | a thought is never lost; a proposal is for what was shown; a retry is recognised |
| Torrent intake and owner cards (`services/torrent_intake.py`, `ui/torrent_review.py`, `torrent_queue_watcher` in `app.py`) | review session, selection, menu; stored cards and stages | submit, poll, select, approve, close, expire; list, notify, send or edit a card | an approval waits behind a refresh; Close loses its answer; a card is sent and the process stops | what is approved is what was shown; a closed review leaves no session; the owner is told once |
| Event dashboard (`refresh_event_dashboard` in `app.py`) | message id in the event's row, a lock per event, registered buttons | post, change and redraw, archive, restore at start | redraws overlap; the row changes during a fetch; restart | the card never goes back, and its buttons answer |
| Group picks and tonight (`services/group_picks.py`, `ui/tonight.py`) | one pick in memory under one lock | open, consent, vote, close | consent clicks are served in any order | each voter counts once |
| Discovery and recommendations (`services/discovery.py`, `services/recommendations.py`) | none (pure) | parse, filter, rank | operator precedence | the normal form accepts what the expression does |
| Library, providers, web search, access, home services | none kept | single HTTP reads and writes | - | - |
| Configuration, setup, runtime health | one process | start, probe | - | - |
| Deployment scripts | none | generated shell | outside the program | - |

## How the components interact

Commands and views call the stores directly. Nearly every view is also a
transient card: its row is registered after the reply was posted, renewed by
each click, and retired by the view or by the cleanup loop. A confirmation view
calls the request ledger before and after the provider; the availability loop
later reads the ledger. Event views and workers share the event store. All AI
commands pass the inference queue and then the gateway, whose GPU the watcher
shares with other programs; the gateway may forward a question to the desktop's
worker. The torrent watcher and the Life commands talk to a gateway that is not
in this repository.

## Modules

| Module | Models | Status |
|---|---|---|
| `TransientUI` | the transient card store, views, removal of commands, cleanup worker, crash and restart | complete |
| `CommandCustody` | what the transient interface promises about a command message; `TransientUI` implements it | complete |
| `TransientUIProofs` | theorems about `TransientUI` | complete |
| `RequestLedger` | request intents, submission, tracked rows, recovery at start, availability watcher, Seerr, Sonarr, Jellyfin | complete |
| `EventSchedule` | the rows of events and slots and the transactions on them; extended by the next two | complete |
| `EventWorker` | the event worker, Discord's events, reminders, the administrators' commands | complete |
| `EventBallot` | nominations, votes, candidate times, availability, previews and their confirmation | complete |
| `LocalInference` | a question to the model: card, queue, gateway, Cancel, server mode | Finish sooner left out |
| `Conversation` | the card of a conversation: follow-ups, New topic, Cancel, Finish sooner, idle timer | source cards left out |
| `MediaReports` | report forms, tickets, the administrators' queue cards and commands | complete |
| `SearchCards` | search and rating cards, the saved rating and its actions | ranking left out |
| `MusicRequests` | `$music`, SoulSync, `$status` | complete |
| `TorrentReview` | the private review of a download and the gateway's sessions | intake and recovery left out |
| `OwnerCards` | the torrent watcher with its two tables, the owner's cards | complete |
| `EventDashboard` | the dashboard message of an event, its redraws and its archive | complete |
| `GpuWatch` | the watcher's cycle, marker and status file, docker, the operator | complete |
| `DesktopWorker` | the desktop's request threads, timers, monitor and runtime | complete |
| `LifeActions` | capture to disk, the Life view, proposals and their requests | dates, reminders, pages left out |
| `RequestLedgerProofs`, `EventWorkerProofs`, `EventBallotProofs`, `LocalInferenceProofs` | theorems about the modules they are named after | complete |
| `HostProofs` | theorems about `DesktopWorker` and `GpuWatch` | complete |
| `AdministrationProofs` | theorems about `EventDashboard`, `TorrentReview`, `OwnerCards` and `MediaReports` | complete |
| `CardsProofs` | theorems about `MusicRequests`, `SearchCards`, `Conversation` and `LifeActions` | complete |
| `MCTransientUI`, `MCRequestLedger`, `MCEventBallot`, `MCLocalInference` | instances of one module | |
| `MCEventWorker`, `MCBallots` | two instances of one module, one per behaviour | |
| `MCCards`, `MCAdministration`, `MCGpuHosts` | instances of several modules, one per behaviour | |

Four conventions hold in every module. An action is the code between two
`await`s (between two looks at shared state, where the code has threads). A
Discord or provider call may succeed, fail, or take effect and lose its answer;
`MaxFaults` and its like bound how often it does not succeed. A stop of the
process keeps the tables and loses every view and every running handler. An
operator preceded by the comment `mutant:` is a plausible mistake in the
definition after it; the specification does not use it, and `PROJECT.json` says
which property finds it.

The composing `MC` modules put modules into one run that share no variable,
because the code keeps them apart: different tables, views and locks. A constant
variable `focus` says which module a behaviour is about; the others rest. So a
run explores the sum of its parts, not their product, and every part is explored
as if it were alone. Where components do share state, one module models both
sides: worker and views in `TransientUI`, handlers and watcher in
`RequestLedger`, queue and gateway in `LocalInference`, forms and administrators
in `MediaReports`, commands and worker in `EventWorker`.

### TransientUI

One row per card in `entry` (`transient_ui_entries`: state, expiry, claim token,
claim time), one per command in `batch` (`transient_ui_batches`: command state,
claim). `expected_count` is the number of cards the batch is going to post,
`CardsOf(b)`. `kind` tells a plain menu from the kinds that show a saved result.
`card` and `command` are the messages on Discord. `ui` is the in-memory view of
the card and what its user did; `deadline` its timeout. `removal[a]` is a run of
`finish_transient_batch_command` (or of the worker's retry of a claimed command)
by a view (the actor is its card) or by the worker. `worker` is one call of
`run_transient_ui_cleanup_once`, which reads the clock once.

| Code | Actions |
|---|---|
| `ctx.reply` with `register_transient_card` | `Post` |
| clicks, all through `interaction_check` (`Click`) | `Browse`, `Save`, `Submit`, `Keep`, `Dismiss` |
| the provider's answer | `SubmitAccepted`, `SubmitFailed` |
| a view's own timeout | `KeepOnTimeout`, `KeepFailed`, `DismissOnTimeout` |
| `cleanup_unsuccessful_request` | `DismissCard`, `DropCard`, `DropCommand` |
| claim, awaited deletion and record of a command's removal | `ClaimRemoval`, `DeleteCommand`, `FinalizeRemoval` |
| the cleanup cycle | `BeginCycle`, `RetryCommand`, `ClaimExpired`, `FetchCard`, `RetireCard`, `ReleaseCard`, `RecordRetired`, `EndCycle` |
| a stop at any point | `Restart` |

SQLite errors are modelled at registration only, where the code keeps the view
alive without a row.

### RequestLedger

`job[f]` is a confirmation form and the handler of its REQUEST button, which
walks through `ack` (the deferred reply), `create` (`POST /request` at Seerr),
`verify` (a second look when the answer names no seasons), `repair` (Sonarr's
exact episodes) and `finish`. `intent[f]` is its row in `media_request_intents`,
`row[k]` the tracked request in `request_messages`: under the Seerr id, or under
the negative id of the intent (`TrackingKey`). `boot` is the recovery that `main`
runs before it serves, `watcher` a cycle of the availability watcher with the
copies it polled. `seerr`, `sonarr` and `library` are the outside, which acts
while a handler waits. A unit is a season, an episode set or a movie.

| Code | Actions |
|---|---|
| `ConfirmRequestView.confirm` from click to acknowledgement | `Show`, `Confirm`, `Cancel`, `Acknowledge` |
| its provider calls and their `except` paths | `Create`, `Verify`, `Repair`, `Finish` |
| stop, start, `recover_media_request_intents`, refusal to start | `Stop`, `Start`, `Recover`, `Ready` |
| the availability loop, one await each | `Poll`, `Reconcile`, `Look`, `Send` |
| Seerr, Sonarr and Jellyfin | `Grant`, `Refuse`, `Monitor`, `Decline`, `Reopen`, `Arrive` |

`UnavailableRatingView` submits in the same order and is not modelled a second time.

### EventSchedule and EventWorker

`event` and `slot` are the tables `events` and `event_slots`; the reminder state
of a slot is the set `stages` it has used up. `EventSchedule` has one operator
per transaction: create, freeze, reschedule, reopen, complete or cancel,
archive, clear. `remote` is what Discord lists as scheduled events, with the
marker that names event and slot; `late` holds creates whose call was given up
and that may still happen. `removals` are the runs of `remove_native_events` on
behalf of commands; `worker` is a cycle of `run_event_reconciliation_once` with
its copy of the tables, its list of Discord's events and its place in the
queue. `pings` counts what was delivered for the present time of a slot.

| Code | Actions |
|---|---|
| the commands | `Create`, `Schedule`, `Reschedule`, `Reopen`, `Transition`, `Archive`, `Clear` |
| the removal after a command | `ListRetired`, `DeleteRetired` |
| the cycle: listing, orphans, rollover | `Begin`, `List`, `Prune`, `RollOver`, `RemoveMirror`, `StartEvent` |
| the cycle: one slot | `Sync`, `Skip`, `ReplaceStarted`, `CreateNative`, `EditNative`, `Answer`, `Discard` |
| the cycle: reminders | `StartReminders`, `ClaimReminder`, `SendReminder` |
| stop, late creates, members who delete, edit or start a Discord event | `Restart`, `LateCreate`, `Member` |

One guild is modelled, and the runs have one event: guilds share no row, events
share only the rule of one open event per guild, and the worker treats them one
after the other. A slot stands for its title as well as its time, because rescheduling
keeps the two together.

`Discard` shows a limit of the code: a reschedule that lands while the edit of a
stored Discord event is awaited makes the worker delete that event, with the
interest it had collected, and create another in the next cycle
(`app.py:8160`). The schedule converges; the event's identity is lost.

### EventBallot

`ballot[e]` has the nominations in their order (`line`), each member's votes
(`choice`), the candidate rows by their id (`option`) and each member's
availability (`avail`). `offered` is the AUTOINCREMENT counter of the candidate
ids. `votecard[u]` is a title card: `rank` is the list the view goes by, `shown`
what Discord still shows, `click` the position and the title of the button that
was pressed. `timecard[u]` are the times an availability card shows. `preview[a]`
is an administrator's tie or plan with the revision it was made from. `lineup[e]`
are the titles of the frozen slots.

| Code | Actions |
|---|---|
| nominations and candidates | `Nominate`, `AddTimes`, `ResetTimes` |
| `EventVoteView` | `OpenVote`, `PressVote`, `HandleVote`, `ShowVote`, `CloseVote` |
| `EventTimeVoteView` | `OpenTimes`, `SaveTimes`, `CloseTimes` |
| `event_schedule`, the tie view and the preview | `Propose`, `ChooseTime`, `Confirm`, `ClosePreview` |
| the event itself | `Create`, `Reopen`, `Transition` |

`Ranking`, `Top` and `BestTimes` are the pure parts: the SQL order of
`ranking_rows`, the plan of `build_ranked_schedule`, the winners among the
candidates still to come.

### LocalInference

`tickets` is the queue of the bot; `turn[r]` is the coroutine of question `r`: the
`await` it is at (`pc`), the position its card shows, and its ticket's
`cancelled` and `changed`. `button[r]` is Cancel generation: what the card
remembers (`asked`) and how far the call has come. `job[r]` is the gateway's thread
for `r`; `active`, `leases` and `mode` are what its threads share under one lock.
`passes` counts how often a runtime was given the question.

| Code | Actions |
|---|---|
| `LocalChatView.generate`, `LocalAIService.chat`, `InferenceQueue.slot` | `Enter`, `Noticed`, `Wake`, `Expire`, `Authorize`, `Dispatch`, `Receive`, `Lose`, `Busied`, `Retry`, `Publish` |
| `LocalChatView.cancel`, `LocalAIService.cancel`, `POST /v1/cancel` | `PressCancel`, `CancelAcked`, `GatewayCancel` |
| `POST /v1/chat`, `route_chat`, `forward_desktop`, `chat_pass` | `Admit`, `Route`, `Forward`, `EndForward`, `Select`, `StartPass`, `Guard`, `EndPass`, `Free` |
| `POST /v1/server-mode` | `SetQuality` |

The GPU monitor and the runtimes are choices: a pass may be interrupted, or fail,
at any time, and the GPU may be refused although the mode allows it.
`PlaybackKeepsGpu` speaks of a switch that has its receipt. A switch whose
directory sync fails is a third mode, `saved`: the file says playback, the owner
reads that the switch is unavailable, and the job on the GPU goes on.

### Conversation

`chat` is the view: closed, the question under way, the question whose Cancel was
taken, the phase that Cancel would have to stop, the revision its buttons are
bound to, the idle timer. `memory` is `history`; `talk` the coroutine of the last
question with the context it sends; `cards` the messages, of which the last is
the view's; `presses` the clicks that wait for the lock, `dialogs` the open
follow-up dialogs. The queue and the gateway are those of `LocalInference`; here
they answer or fail.

| Code | Actions |
|---|---|
| `LocalChatView.generate`: accept, open the turn, search, infer, show, `finally` | `SendDialog`, `OpenTurn`, `ReadPermissions`, `BeginSearch`, `EndSearch`, `AskModel`, `ShowProgress`, `EndInference`, `ShowAnswer`, `ShowError`, `EndTurn` |
| `follow`, `fresh`, `cancel`, `finish`, `on_timeout` | `PressChat`, `OpenDialog`, `TakeCancel`, `CarryCancel`, `TakeFinish`, `CarryFinish`, `CloseChat` |

`unsent` is a history variable: the turns whose answer could not be shown, and those
whose last edit, which draws the buttons, could not be made. `local_ai.py:401` puts an
answer into the history before the edit at `:412`, so `MemoryShown` excepts an answer
whose own edit failed, and `ControlsUsable` a turn whose own last edit failed; both
hold whatever other call failed before.

Limits of the code that the model shows and the properties allow for: a progress
edit that is lost leaves the card's Cancel bound to an older revision, so it is
refused; New topic clears the history although its dialog may be dismissed, so a
follow-up dialog that is still open then asks without context; an answer whose
edit failed stays in the history, and the next question is asked with it; the buttons
of a turn whose last edit failed are refused until the view closes.

### MediaReports

`report` is the table, `form[f]` the view of a report card with the deletion that
its timeout may have under way (`going`), `submit` two callbacks of it, `queue[h]`
an administrator's queue card: the rows it holds, the page, what it shows, and
the click that waits. `edits` are edits of ticket cards under way.

| Code | Actions |
|---|---|
| `ReportCategoryView`, `ReportDetailsModal` | `ChooseCategory`, `SendDetails`, `ScopeSubmit`, `SaveReport`, `CloseForm`, `FormGone` |
| `run_admin_report_transition`, `edit_original_report_ticket` | `ReportCommand`, `EditTicket` |
| `AdminReportQueueView` | `OpenQueue`, `PressQueue`, `RefuseClick`, `TurnQueue`, `TakeReport`, `UpdateReport`, `TicketEdited`, `FinishAction`, `DrawQueue`, `ActionFails`, `ExpireQueue` |

Limits: a form in a DM that is submitted twice deletes the ticket of the fresh
report (`TicketKept` speaks of servers); a `defer` that fails leaves the form
taken for good; an edit of the queue card that fails leaves its buttons stale
(`QueueUsable` speaks of runs in which no call has failed); the timeout of a queue card
deletes it although an action is under way, which goes on and finds no message to
draw; a reply that fails after the last report was dropped leaves the view's index
outside its list until it expires (`app.py:5949`); ticket edits may land in any
order, although the text at `app.py:5884` says that tickets update
automatically.

### SearchCards and MusicRequests

`view` is one search or rating card; `pc` is the holder of its `action_lock`.
`clicks` are presses that wait for it, with the title that was under the button.
`music` is the table of music requests, `mcard` and `confirm` the cards of
several `$music` commands with their confirmation views, `jobs` what SoulSync
works on, `refresh` a `$status` between its read and its write. `hour` is the clock of
the database and `created` the time of a row: `recent_music_request` looks back
`max_age_minutes=1440` (`app.py:4863`), which is `RecentHours`.

| Code | Actions |
|---|---|
| `SearchResultsView`: pages | `Press`, `Arrive`, `PreviousPage`, `NextPage`, `FetchPage`, `TurnPage`, `CancelSearch`, `ExpireSearch` |
| the result that is picked | `RejectPick`, `OpenResult`, `ShowSelection`, `SendConfirmation`, `RateResult`, `PrepareRating`, `SaveRating` |
| the actions on a saved rating | `BeginAct`, `SyncToTrakt`, `RequestMedia`, `CancelRequestCard`, `KeepLocal`, `DismissRating`, `DismissedGone` |
| the `$music` views and SoulSync | `ClickTrack`, `SelectTrack`, `CloseMusicSearch`, `ConfirmTrack`, `CheckTrack`, `SendTrack`, `CloseConfirm`, `WorkJob` |
| `$status`, a stop, and time | `ReadStatus`, `WriteStatus`, `StopMusic`, `PassHour` |

Limits: Next sorts the results again while a click that waits keeps the
position of its button, so a title that Seerr found later may take the slot
(`PickIsShown` excepts it by `reordered`); the number of a page whose fetch fails
is spent; the page button that waited for the lock draws over a result card; a
result of `$music` clicked twice opens two confirmations, and the timeout of the
one displaced deletes the accepted card (`AcceptedKept` speaks of one click);
the fuzzy match of `$status` may mark a similar row; a request made in a DM is not
seen from a server; once a request is more than a day old it no longer keeps back a
second one, although SoulSync may still be at work on it or never have answered
(`NoDuplicateDownload` says so). The clock of the database is assumed not to be set
back.

### TorrentReview and OwnerCards

`gate` are the gateway's sessions; `review` the view with its status, selection and
polling task; `reviewCard` what its message shows; `call` the holder of
`action_lock`. `cardRow` and `toldRow` are the watcher's two tables, `ownerCard` the
messages in the owner's DM, `sweep` the watcher's cycle, `unrecorded` the sends
whose outcome never reached a table. The gateway is external: it may refuse, fail,
or do what it was asked and lose the answer.

| Code | Actions |
|---|---|
| `TorrentReviewView`: clicks under the lock | `PressReview`, `AskGate`, `NotAsked`, `SelectFiles`, `AnswerClick`, `AnswerClose` |
| polling and expiry | `PollAsks`, `PollAnswered`, `ReviewExpires`, `ExpiryCleans` |
| the gateway | `GateMoves` |
| `torrent_queue_watcher` | `ListTorrents`, `Consider`, `NotifyHome`, `FetchCardMessage`, `EditOwnerCard`, `SendOwnerCard` |
| downloads, the owner, a stop | `Advance`, `OwnerDeletes`, `CardsRestart` |

Limits: two clicks on Open that both wait create two sessions and orphan the first;
polling ends after 55 rounds; the cancel that expiry sends may be lost;
`close_review` does not wait for the phases metadata_pending, starting and
bootstrapping. In the watcher one torrent that fails keeps those behind it waiting,
a send whose answer is lost leaves a card that nothing updates, and rows are never
removed.

### EventDashboard

`plan` is the event's row, `dashboard` the message, `answered` the statuses whose
buttons have a handler in this process, `editor[e]` a handler, `redrawing` the lock
of `refresh_event_dashboard`. The record is read under the lock, the rankings one
Discord call later.

| Code | Actions |
|---|---|
| `$event create` | `PostCard`, `PostFails`, `SaveCoordinates` |
| a change, its answer, the redraw | `Change`, `AnswerEditor`, `Load`, `FetchDashboard`, `EditCard` |
| archive, a moderator, a restart | `ArchivePlan`, `DeleteCard`, `CardRemoved`, `DashRestart` |

Limits: no redraw is asked for when the handler's own answer raises; a change
between the sending of the card and `set_dashboard_message` is not drawn, nor the
card archived, until the next change; a lost edit may leave buttons without a
handler (`missed` marks both).

### GpuWatch and DesktopWorker

`box` is the container and who last started or stopped it, `owned` the marker file,
`status` the admission the gateway reads, `watch` the process and its place in the
cycle. `asked[r]` is the desktop's thread of a request, `owner` and `tombs` what is
under `Worker.lock`, `timer`, `signals`, `process` and `monitor` the rest of the
worker.

| Code | Actions |
|---|---|
| `gpu-watch.py`, the loop | `Inspect`, `Sense`, `Decide`, `Withdraw`, `MarkOwnedStop`, `DockerStop`, `DockerStart`, `ClearOwnedStop`, `WriteState` |
| its errors and its end | `MonitorFailed`, `InspectAgain`, `Kill`, `Terminate`, `StartWatcher` |
| the operator and the GPU | `Operates`, `PressureChanges` |
| `desktop-ai/gateway.py`, a request | `AdmitAsk`, `EnsureRuntime`, `AwaitRuntime`, `LastLook`, `PostToRuntime`, `ReadAnswer`, `ReadBreaks`, `AbandonAsk`, `SetDeadline`, `ReleaseWorker`, `CancelAsk` |
| timers, monitor, the server's end | `TimerWakes`, `TimeoutKills`, `Sample`, `SeeStopRequest`, `CheckResources`, `MonitorKills`, `AskResidency`, `StoreResidency`, `ServerStops`, `ServerExits` |
| the machine | `LevelChanges`, `RuntimeDies` |

Limits: an operator who stops the container between the watcher's inspection and
its next look is taken for the watcher's own contention (`raced`); what the desktop
says of residency is one tick old; the server's gateway may admit on an observation
up to three seconds old, which `LocalInference` covers by leaving the GPU free to
refuse at any time.

### LifeActions

`thought[c]` is a `$think` command with its file (`entry`, `whole`) and its message;
`life` the view with its lock, list and selection; `lifeClicks` and `modals` what
waits; `proposal[p]` a proposal view; `posts` requests under way, with the answers
that may be lost or late; `receipts` the gateway's record of request ids.

| Code | Actions |
|---|---|
| `LifeCaptureService.capture` and what follows it | `StoreThought`, `StoreFails`, `AnswerThought`, `Classify`, `PowerFails` |
| `LifeView` | `PressLife`, `StartLoad`, `Loaded`, `SelectItem`, `ActOn`, `SendModal`, `DrawLife`, `ExpireLife` |
| `ProposalView` | `PressProposal`, `Confirm`, `CancelProposal`, `ExpireProposal`, `TakeAnswer`, `GiveUp` |
| the gateway and Nextcloud | `GatewayTakes`, `EditedElsewhere` |

Limits: when `capture` fails after `os.link` the owner reads that the thought was not
saved, although it is; a request that was given up may take effect after its
proposal was cancelled or expired.

## What the runs check

A violation run checks one sentence of the repository that the code does not
keep; the quotations are in `PROJECT.json`, "findings".

| Run | Question | Bounds |
|---|---|---|
| `cards` | Temporary cards: do rows agree with Discord (`RetiredMeansGone`, `DeletedMeansGone`), does expiry keep away from a user who accepts (`NoExpiryUnderUser`), does the store implement `CommandCustody` (`ImplementsCustody`)? Search cards: is what is picked what was shown, is one title rated, can the card be used again (`SearchInv`), does a saved rating keep its receipt (`ReceiptKept`)? Music: within the time a request blocks, one job per track, downloaded only if it is there (`MusicInv`), what is accepted stays (`AcceptanceStands`)? Conversations: is a question asked with the history its member saw, are only questions stopped whose Cancel was pressed, do buttons answer (`ConversationInv`), do answers stay and none appear after Cancel (`AnswersStand`)? Life: are thoughts kept, is what is confirmed what was shown, are retries recognised (`LifeInv`)? | lifecycle: two commands of one card, one fault, one stop, clicks and faults at any time; search: three pages of five titles, three clicks, one fault; music: two of five cards, one fault; in the pairs with `m1` and those clicked once, two hours of which a request blocks for one; conversation: three questions, room for one earlier turn, three clicks, one progress, one fault; Life: one capture, two tasks, two proposals, three clicks, one fault, one edit elsewhere |
| `transient_live` | Does the command outlive every wanted card (`CommandPreserved`); is every row retired and a command nobody wants deleted in the end (`AllRetire`)? | one command of two cards; one fault, one stop |
| `transient_partial_batch` (violation) | Is the command deleted when all posted cards are gone, if a stop cut the posting short? No: fewer rows than `expected_count` block it for good. | one stop |
| `ledger` | Are tracked rows backed by the providers, under one id, recovered before the bot serves (`LedgerInv`); are they never written off, and is a mention true and sent no more once confirmed (`LedgerSteps`), and sent in the end (`MentionArrives`)? | a form for a season and a repair, a form for a repair alone, a form in a DM; one fault, one stop |
| `ledger_prepared` (violation) | Does a submission cut off by a stop reconcile after the restart? No: `prepared` intents are not recovered. | one stop |
| `ledger_dm` (violation) | Is a confirmation turned away only by a fault? No: in a DM there is no guild id and the intent cannot be written. | no stop |
| `administration` | Events: is a stage sent once per time of a slot (`PingOnce`), used up only in its window and only what is over completed (`DecisionsAreFresh`), do removal and pruning spare what an active slot relies on (`CleanupSpares`)? Dashboard: does it end up showing the event with buttons that answer (`DashboardInv`), and never go back (`ShownForward`)? Owner's cards: is each told and shown once (`OwnerCardsInv`)? Reviews: is what is approved what was shown (`ReviewInv`), does a closed one leave no session (`ClosedMeansSettled`)? Reports: do tickets stay and clicks hit what was shown (`ReportsInv`), are claims kept (`ClaimsHold`)? | worker: one slot at a time, three revisions, four Discord events, one fault; dashboard: two editors, three changes, two faults; owner: two torrents with two stages, four messages, two faults; review: two sessions, two file lists of two files, four clicks, one fault; reports: two forms, one of them in a DM, and one administrator, or two administrators with one queue card; three revisions of it, one fault |
| `event_live` | Is a stored native id that of its own slot (`NativeInv`)? Do Discord's events agree with the schedule in the end, and is what is over completed (`EventsSettle`)? | schedules of one slot with its reminders, and of one or two slots in a server where the bot may not mention the role; two revisions; one lost call, edit or stop |
| `ballots` | Does a click count for the title or time that the card showed, within the limit (`VotesAsShown`); is the published lineup the ranking of the closed ballot (`BallotInv`), and the published time the winner at the moment of confirmation (`PublishedTimeWon`)? | two members; two candidate ids over resets, or three titles with two votes each; one administrator |
| `ballot_expired` (violation) | Are votes for candidates that passed kept? No: a save replaces them with what the card shows. | one member |
| `local_inference` | Is every place in the queue given back, the model given one question at a time and none twice, the GPU left to playback (`InferenceInv`); is a cancellation final (`CancelWins`); does every question end (`Drains`)? | three questions of two members, room for two and one each, one member who cancels; one lost call, failed call or mode switch |
| `gpu_hosts` | Desktop: is a cancelled request never answered and nothing left behind (`WorkerInv`), is only the right request ended (`RightRequestEnds`), does every request end and the memory come back (`DesktopLetsGo`)? Server: does the gateway admit only while the model runs and the watcher evict on contention (`WatchInv`), does it respect the operator's stop (`OperatorStopRespected`), does the container follow the GPU in the end (`FollowsPressure`)? | two requests, one change of the sensors, one fault of the runtime; idleness of two cycles, two kills or failed commands, two docker commands of the operator |

Several names are conjunctions: `LedgerInv`, `ReviewInv`, `EventsSettle` and the
like have their parts, each with its own comment, before them in the module.

Why the bounds are enough. Every property relates at most two cards, two units,
two slots or two titles, and each run has one more actor than the property
names: the worker, a removal, another member. A lost or late reply needs one
fault and its retry none; the dashboard, the owner's cards and the watcher have two,
because a restart is one of them. A stop matters by where it falls, and it may fall
everywhere. In `EventWorker` a fault and a stop share one bound: both leave a
Discord event behind that nothing has recorded. Three clicks are one that waits,
one that overtakes it and one that holds the lock; a review needs a fourth to
choose files in between. Time is scaled: what matters is the order of expiry, lease
and retry, or of a reminder's three leads, and the clock reaches past the last of
them. In `transient_live` posts and clicks come at the first instant (`LastClick`)
and faults and stops may come as late as the first claim (`Horizon`), so that every
lease runs out within `MaxTime`; in `cards` all of them may come at any time.
`MaxRevision` and `MaxOptions` leave room for a reset or a reopening followed by a
second round. The bounds are guards of commands, users, faults and of the clock,
never of the worker, a view or a handler; the exceptions are supplies of ids
(`MaxSlots`, `MaxRemotes`, `Places`, `Sessions`), larger than the commands can use up
in the runs that check liveness. `BallotSymmetry` permutes members, titles and
administrators, which the module treats alike; no liveness property is checked
under it.

Deadlock is checked where something can always happen (`transient_live`,
`event_live`). It is not checked where the system may really come to rest: the last
form, ticket, question or proposal is over, every unit has arrived, the server has
exited; nor in the composed runs, where parts out of focus rest.

## Fairness

`TransientUI`: strong fairness of the clock, which waits only for a submission
that has a bound of its own; weak fairness of each step of the worker, of a
removal under way, of a submission's answer and of a view's timeout, because
these are coroutines and timers of a running event loop (a stop moves them to the
next process, whose worker is fair again). Clicks are not fair: nobody has to
click.

`RequestLedger`: weak fairness of `Boot`, because the service is restarted
`unless-stopped` (`deploy/compose.homelab.yaml:8`, `compose.yaml:23`), and of
`Watch`, because the watcher is a `tasks.loop`. Providers, users and faults are
not fair; `MentionArrives` starts where the units have arrived.

`EventWorker`: weak fairness of `Work`, the `tasks.loop` of the worker. Commands,
members, late creates and the clock are not fair.

`LocalInference`: weak fairness of each question's coroutine, which the event loop
runs when its await is over, and of each thread of the gateway, since every call
it makes has a timeout. Users, faults, the mode switch and the hour in the queue
are not fair: `Drains` does not lean on the hour.

`DesktopWorker`: weak fairness of each step of a request's thread that does not wait
for the model, of its timer, of the monitor's loop and of the end of the server. The
model need never answer: `EveryAskEnds` leans on the timer. Requests, cancellations,
the sensors and the runtime's death are not fair.

`GpuWatch`: weak fairness of the cycle and of the restart of a killed watcher, which
systemd does (`Restart=on-failure`); one that was terminated starts again only when
somebody starts it. The operator, the GPU and failures are not fair.

The other modules have no liveness property: nothing in them has to happen before a
person acts.

## What is proved

Each theorem is about the specification of one component, for every value of its
constants: any number of cards, slots, forms, questions, members, faults and stops,
any bounds, leads and timeouts. The only assumptions are the `ASSUME`s of the
component modules, which say of what kind a constant is, that an absent value is
none of the present ones, and of a few numbers how they compare; TLC evaluates them
in every run. Every strengthened invariant was checked by TLC on the instance of the
component's run before it was proved.

| Module | Theorem | Establishes |
|---|---|---|
| `TransientUIProofs` | `TypeCorrect`, `Invariance` | `[]TypeOK`, `[]IInv` |
| | `CommandIsPreserved` | `[]CommandPreserved` |
| | `RetiredIsGone`, `DeletedIsGone` | what a row says of Discord is true |
| | `ExpiryNeverRacesUser` | no step takes a card under a user who submits or accepted |
| | `CustodyImplemented` | every step is a step of `CommandCustody` or a stutter |
| `RequestLedgerProofs` | `LedgerInvariance`, `LedgerHolds` | `[]LedgerIInv`, `[]LedgerInv`: rows are backed, under one id, recovered before the bot serves |
| | `LedgerKeeps` | `LedgerSteps`: nothing accepted is written off, a mention is true and sent no more once confirmed |
| `EventWorkerProofs` | `EventWorkerInvariance`, `NativeHolds` | `[]WorkerIInv`, `[]NativeInv`: a stored id is that of the slot's own Discord event |
| | `PingedOnce` | `[]PingOnce` |
| | `DecisionsStayFresh` | `DecisionsAreFresh`: stages are used up in their window, only what is over is completed |
| | `CleanupIsSparing` | `CleanupSpares`: removal and pruning spare what active slots rely on |
| `EventBallotProofs` | `RankingSorts` | the ranking of a ballot is by votes |
| | `BallotInvariance`, `BallotHolds` | `[]BallotIInv`, `[]BallotInv`: a published lineup is the ranking of the ballot |
| | `PublishedTimeWins`, `VotesAreAsShown` | `PublishedTimeWon`, `VotesAsShown` |
| `LocalInferenceProofs` | `InferenceInvariance`, `InferenceHolds` | `[]InferenceIInv`, `[]InferenceInv`: limits kept, no place leaked, one question at a time and none twice |
| | `CancellationIsFinal` | `CancelWins` |
| `HostProofs` | `WorkerHolds`, `RightRequestIsEnded` | `[]WorkerInv`, `RightRequestEnds` of the desktop |
| | `WatchHolds`, `OperatorIsRespected` | `[]WatchInv`, `OperatorStopRespected` of the watcher |
| `AdministrationProofs` | `DashInvariance`, `DashHolds` | `[]DashIInv`, `[]DashboardInv`: at rest a dashboard shows its event as it is, and its buttons answer |
| | `DashGoesForward` | `ShownForward` |
| | `ReviewInvariance`, `ReviewHolds` | `[]ReviewIInv`, `[]ReviewInv`: what was approved is what was shown, a waiting card is polled |
| | `ClosedReviewsAreSettled` | `ClosedMeansSettled` |
| | `CardsInvariance`, `OwnerCardsHold` | `[]CardsIInv`, `[]OwnerCardsInv`: no row ahead of its card, nothing twice but for lost answers |
| | `ReportsInvariance`, `ReportsHold` | `[]ReportsIInv`, `[]ReportsInv`: tickets are kept, a click hits the report it was pressed on |
| | `ClaimsAreKept` | `ClaimsHold` |
| `CardsProofs` | `MusicInvariance`, `MusicHolds` | `[]MusicIInv`, `[]MusicInv`: two jobs for a track only after a failure or more than a day apart, downloaded is said of what is there |
| | `AcceptanceKept` | `AcceptanceStands` |
| | `SearchInvariance`, `SearchHolds` | `[]SearchIInv`, `[]SearchInv`: what is picked is what was seen, one rating per card |
| | `ReceiptIsKept` | `ReceiptKept` |
| | `ChatInvariance`, `ChatHolds` | `[]ChatIInv`, `[]ConversationInv`: asked as seen, told what is shown (but for an answer whose own edit failed), buttons that answer, stopped as asked |
| | `AnswersAlwaysStand` | `AnswersStand` |
| | `LifeInvariance`, `LifeHolds` | `[]LifeIInv`, `[]LifeInv`: thoughts are kept, a proposal is for the item shown, answers say what happened |

The stated properties are seldom inductive: a step that would break one was decided
several awaits earlier, by somebody who kept a copy of what he had read. The
inductive invariants say what such a copy is still worth.

**`TransientUI`.** A worker that deletes a command decided so several steps earlier.
`IInv` therefore also says:

- `ClaimsAreDue`: only active rows are claimed, and only once they are due. With
  the bound on a submission this gives `ViewsAgree`: the row of a card whose user
  submits is not claimed, so expiry cannot take it.
- `ViewsAgree`: what a view has done limits what its row can say, which is what
  makes a terminal row final although several actors write it.
- `WorkerHolds`: the cards in the worker's hands carry its token, or were settled
  by someone else meanwhile.
- `CommandsUnwanted`: whoever is about to delete a command, or has claimed it,
  found all cards of it discarded; and what is discarded stays so, since no
  action leads out of a terminal row and a lost card has no row.
- `RecordsAreTrue`, `PurgedIsOver`: what is about to be recorded, or was purged,
  is true of Discord already.

**`RequestLedger`.** A row is written by a handler whose last question to a provider
lies three awaits back, or by the recovery from what the handler left in its intent.
`SubmissionShape` ties handler and intent together, `BackingShape` both to what the
providers took, `RowShape` the row to the intent, which nobody changes any more by
then; `BootShape` says that recovery still has to track what an earlier process left
accepted, or knows that it failed; `WatchShape` that what the watcher read at its
poll and has not mentioned yet was mentioned by nobody else.

**`EventWorker`.** The worker plans from copied rows while commands reschedule, reopen
and clear, and Discord creates an event whose answer was lost. `CopyShape`: a copied
row whose event still has the copied revision says when the slots are, and a slot is
never handed to another event. `DiscordShape`, `KnownShape`: what is or may yet be
made at Discord was made for a slot that was handed out, and ids are not reused.
`PruneShape`: while the worker lists and prunes nobody stores an id, so what it prunes
is stored nowhere. `RemovalShape`: the slots of a removal are never planned again.
`DueShape`, `PingShape`: a claimed stage has not been sent, even when the slot was
rescheduled and rearmed in between.

**`EventBallot`.** A preview is confirmed long after it was drawn. `PreviewShape`: as
long as the event has the preview's revision, its titles are the head of the ranking
and its time wins, or is tied, until it has passed, although the clock goes on and may
take other candidates out. `VoteCardShape`, `TimeCardShape`: a card lists candidates
that are there, and an id that is a candidate stands for the time the card showed,
since ids are not reused after a reset. The ranking is defined by counting, for each
title, how many come before it (`PlacesAreTaken` proves that this is an order).

**`LocalInference`.** `QueueShape`: no ticket is twice in the queue and whoever waits
for the model is its first, which is what keeps a second question from the gateway.
`JobShape`: a thread at work belongs to a question whose answer is awaited or was
given up, and one that chose the GPU before a switch to playback is cancelled.
`CancelShape`: an accepted cancellation holds the question back in a place where the
gateway does not admit it, be it the ticket or the lease.

**`DesktopWorker`, `GpuWatch`.** `AskShape`: the owner of the runtime is at work, an id
that came is leased, and one cut off before its answer is told so by the cancel
event; `StopShape`: after the server stopped, a runtime is up only for a thread that
will stop it. `WordShape`: what the gateway reads in the status file was true when it
was written and a cycle that goes on will correct it; `OperatorShape`: a container the
operator stopped is not the one of the marker, and no cycle under way would start it.

**`EventDashboard`.** An editor draws a record read before it waited for the lock.
`RecordShape`: a record of the present revision says what the event says; `PlaceShape`:
whoever redraws holds the lock and has no older record than the card, and only one
editor ever posts; `RedrawShape`: whenever the card is behind, a redraw with the
present record is still to come, or was lost; `ButtonShape` adds the restart between
posting and storing.

**`TorrentReview`.** The view holds a status that the gateway gave some calls ago.
`Given` says what of it is still true: the session exists, and one that was over is
over in the same way; `ViewShape` that the chosen files are of the list shown and a
waiting card has its task; `CallShape` that the answer to a click on Close names a
session that is over or was stopped while it still looked for metadata.

**`OwnerCards`.** A cycle works on a list it has read and rows it writes after each
call. `SweepShape` says at which torrent it is and what is due there; `PlacesShape`
that the direct chat's messages are numbered as they were sent, so a message is new;
`RowShape` that the card a row names is of its torrent and not behind the row;
`LooseShape` counts the cards that no row names against the sends whose row was not
written, and `ToldShape` likewise the notifications: that makes both counts a bound on
duplicates however many restarts there are. `Torrents` and `Places` are finite, since
cards are counted and the list is worked through by its least member.

**`MediaReports`.** `ServerShape`: one call at a time saves a form of the server, which
is live and taken, and the form of a ticket is neither live nor on its way out: that
is why its timeout cannot take the ticket. `QueueShape` (`Fits`): a card lists reports
there are, what is worked on is what its administrator saw, and it has a current
report except between the end of its last one and the next drawing, or after a failed
call. `ListingExists` shows that a sorted list of the pending reports exists, which is
what the listing is defined as.

**`MusicRequests`.** Several confirmation views, `$status` and a restart write rows of
one track. `SendingShape` says that a view which asks SoulSync has a live row of its
own, of which no job came yet; `JobShape` that one job at most comes of a row, which is
live until the job has failed; `ApartShape` that after a row which is still being asked
for, or worked on, another one of the same track is asked for only more than
`RecentHours` later: a live row of the last day is what `Recent` finds, and time only
goes on. `ReadShape` says that what `$status` has read stays true until it writes;
`CardShape` which views may still delete a card or its command. `MusicCards` is finite, since at a stop SoulSync gets the
requests that are on their way one after the other.

**`SearchCards`.** The holder of the `action_lock` goes through several awaits with
what it picked, while clicks that wait keep the title that was under their button.
`InsideFits` ties the holder's place to the title and the rating it has in hand;
`FaceFits` and `ClickFits` say that as long as results were only appended a position
still is the title it was; `RatedFits` that there is one rating at most, of the title
the card is about. Sorting is defined by counting the results that come sooner;
`EveryPlaceIsTaken` shows that this gives each a place of its own, which is what
keeps a title from being lost or doubled.

**`Conversation`.** A button is bound to a revision, a dialog to the button that opened
it, and the coroutine of a question to none of them. `TurnFits`: who the current
question is, that the idle timer runs only between two, and that a Cancel that was
taken is remembered for as long as its question is; with that an answer that comes
after it is withheld. `MessageFits`: a question that is being answered has the last
message, which shows no answer yet, so no edit takes one away. `HandlersFit`: a
button or dialog of the present revision was opened with the history there is, or it
was emptied since. `ToldIsShown` is `MemoryShown` message by message; `ControlsFit`
says that no button is newer than the view, that between two questions those of any
but the last message are older, and that without faults only the last message has any.

**`LifeActions`.** `ThoughtsFit`: the message of a thought is there until its file is
whole and durable. `ViewFits`: what the view, its card or a click on it has of a task is
never newer than Nextcloud's, and if the version is the same, so is the task.
`ProposalsFit`, `PostsFit`: a proposal that was told of a conflict, and a request that
was answered so, can have no effect any more, now or by a retry, from the gateway's
record of request ids and the versions, which only grow.

Each conjunct has its lemmas, one step per action; an action property follows from
the inductive invariant by the same split.

Only model-checked, on the instances above, are the liveness properties (`AllRetire`,
`MentionArrives`, `EventsSettle`, `Drains`, `DesktopLetsGo`, `FollowsPressure`): fairness
and ENABLED are beyond the prover. Every other property of a passing run is stated by
a theorem.

## Plan

All modules are written, and every invariant and action property of a passing run
is proved. What is left:

- the parts a module leaves out, each named in its row above: Finish sooner in
  `LocalInference`, the pages and source cards of an answer, dates and reminders of
  Life items, intake and recovery of torrents;
- a promise in the style of `CommandCustody` for the request ledger (a unit is asked
  for, accepted, there, mentioned) with the proof that `RequestLedger` implements it;
- lemmas that bound what a fair step brings nearer, as far as they are facts about a
  single step: the liveness runs then rest on fewer instances.

## Not modelled, and why

- The text, layout, pagination and permissions of cards, embeds and commands:
  they change no state that a property is about.
- Recommendation, discovery, library and web search: pure or read-only. The genre
  grammar of `services/discovery.py` is a recursive parser over strings.
- Group picks and `ui/tonight.py`: one pick in memory under one lock; every handler
  checks and writes without an await in between. (Two consent clicks may be served
  in either order.)
- Access and home services: single lookups and writes.
- Configuration, setup, health files and deployment scripts: run once, alone.
- In `LocalInference`: Finish sooner with its second pass, a card that closes under its
  question, the expiry of a cancellation lease after 60 seconds and the limit of 256
  of them. `UnavailableRatingView` submits in the same order as the confirmation of
  `RequestLedger` and is not modelled a second time.
- In `TorrentReview`: the submission of a magnet or a file, the recovery of a download
  and the pages of the file menu.
- SQLite itself: a transaction is atomic and durable.
- Two processes at once: the deployment runs one container of the bot.
- What `PROJECT.json`, "components", names for each component, and the hazards
  there that have a note instead of a property.
