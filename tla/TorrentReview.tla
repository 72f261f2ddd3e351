--------------------------- MODULE TorrentReview ---------------------------
(***************************************************************************)
(* The private review of a download: one card in Discord, its view in the  *)
(* bot, and the gateway's review sessions behind an HTTP API that may      *)
(* refuse, fail, or do what it was asked and lose the answer.              *)
(*                                                                         *)
(* Everything that talks to the gateway runs under action_lock, one call   *)
(* at a time; `call` is the call that holds it.  A click carries what the  *)
(* card showed when it was pressed and may run much later, after other     *)
(* calls changed the view, after a Close, or after the view timed out.     *)
(*                                                                         *)
(* The gateway is not in this repository: Gate* say what the client's code *)
(* expects of it.  One file of the torrent is one page of the file menu.   *)
(* `recover`, the file list as a download and the pages are left out: they *)
(* change nothing the properties speak of.                                 *)
(***************************************************************************)
EXTENDS Naturals, FiniteSets

CONSTANTS
    Sessions,        \* 1..n: the review ids the gateway may hand out
    Manifests,       \* the file lists a torrent may turn out to have
    Files,           \* the indexes of a file list
    NoManifest,
    PollRounds,      \* bound: range(55)
    MaxReviewClicks, \* bound: clicks
    MaxReviewFaults  \* bound: answers lost, edits failed, file lists changed

ASSUME ReviewAssumption ==
    /\ Sessions = 1..Cardinality(Sessions) /\ NoManifest \notin Manifests
    /\ {PollRounds, MaxReviewClicks, MaxReviewFaults} \subseteq Nat

VARIABLES
    gate,       \* the gateway's sessions
    approvals,  \* what the gateway approved, and what the reviewer had seen
    review,     \* the view: status, selected, closing, its polling task
    reviewCard, \* what the message shows
    reviewClicks, \* clicks dispatched and waiting for action_lock
    call,       \* the holder of action_lock and the answer it waits for
    effort      \* the bounds spent

reviewVars == <<gate, approvals, review, reviewCard, reviewClicks, call, effort>>

-----------------------------------------------------------------------------
Waiting == {"metadata"}
Settled == {"failed", "cancelled", "approved"}
Phases == {"none", "ready"} \union Waiting \union Settled

\* A chosen file remembers the list it was chosen from.
Picks == (Manifests \X Files)
Session == [phase : Phases, manifest : Manifests \union {NoManifest},
            chosen : SUBSET Picks, stopping : BOOLEAN]
NoSession == [phase |-> "none", manifest |-> NoManifest, chosen |-> {}, stopping |-> FALSE]

\* No review is open: the card lists the requests.
Listing == [id |-> 0, phase |-> "none", manifest |-> NoManifest, chosen |-> {}]
Idle0 == [by |-> "free", click |-> [kind |-> "none"], reply |-> Listing]

\* What an answer of the gateway says of session s.
StatusOf(g, s) == [id |-> s, phase |-> g[s].phase, manifest |-> g[s].manifest,
                   chosen |-> g[s].chosen]

Receipt == review.status.phase = "approved"

\* approval_snapshot, and the session and list a menu was drawn for
Snapshot(status, selected) == [id |-> status.id, manifest |-> status.manifest, chosen |-> selected]
SessionShows(r) == [phase |-> r.status.phase, snap |-> Snapshot(r.status, r.selected)]

ReviewInit ==
    /\ gate = [s \in Sessions |-> NoSession]
    /\ approvals = {}
    /\ review = [status |-> Listing, selected |-> {}, closing |-> FALSE, open |-> TRUE,
                 expired |-> FALSE, poll |-> "none", rounds |-> 0]
    /\ reviewCard = [phase |-> "none", snap |-> Snapshot(Listing, {})]
    /\ reviewClicks = {}
    /\ call = Idle0
    /\ effort = [clicks |-> 0, faults |-> 0]

Luckless == effort.faults < MaxReviewFaults /\ effort' = [effort EXCEPT !.faults = @ + 1]

-----------------------------------------------------------------------------
\* rebuild(): which controls the card offers; a click keeps what they were drawn for.
Offered(shown) ==
    {[kind |-> k, snap |-> shown.snap] : k \in
        {"close"}
        \union (IF shown.phase = "none" THEN {"open"} ELSE {"status"})
        \union (IF shown.phase = "ready" /\ shown.snap.chosen # {} THEN {"approve"} ELSE {})
        \union (IF shown.phase \in {"failed", "cancelled"} THEN {"retry"} ELSE {})}

Menus(shown) ==
    IF shown.phase # "ready" THEN {}
    ELSE [kind : {"select"}, snap : {shown.snap}, file : Files, on : BOOLEAN]

PressReview ==
    /\ review.open /\ ~review.expired
    /\ effort.clicks < MaxReviewClicks /\ effort' = [effort EXCEPT !.clicks = @ + 1]
    /\ \E c \in Offered(reviewCard) \union Menus(reviewCard) : reviewClicks' = reviewClicks \union {c}
    /\ UNCHANGED <<gate, approvals, review, reviewCard, call>>

-----------------------------------------------------------------------------
\* The gateway's side of a call: what it does, and the status it answers with.  A
\* call it refuses changes nothing.
FreeSession == {s \in Sessions : gate[s].phase = "none" /\ \A t \in 1..(s - 1) : gate[t].phase # "none"}

Found == {[phase |-> "metadata", manifest |-> NoManifest, chosen |-> {}, stopping |-> FALSE]}
         \union {[phase |-> "ready", manifest |-> m, chosen |-> {}, stopping |-> FALSE] : m \in Manifests}

GateOpens ==
    \E s \in FreeSession, found \in Found : gate' = [gate EXCEPT ![s] = found]

GateRetries(id) == gate[id].phase \in {"failed", "cancelled"} /\ GateOpens

GateApproves(id, snap) ==
    /\ gate[id].phase = "ready" /\ gate[id].manifest = review.status.manifest
    /\ gate' = [gate EXCEPT ![id].phase = "approved", ![id].chosen = review.selected]
    /\ approvals' = approvals \union
         {[id |-> id, manifest |-> gate[id].manifest, chosen |-> review.selected, shown |-> snap]}

\* A session that looks for metadata may need a moment to stop.
GateCancels(id) ==
    /\ gate[id].phase # "approved"
    /\ \/ gate[id].phase = "metadata" /\ gate' = [gate EXCEPT ![id].stopping = TRUE]
       \/ gate' = [gate EXCEPT ![id].phase = IF @ \in Settled THEN @ ELSE "cancelled"]

\* The session the call was about, or the one it opened.
Answered(id) ==
    LET fresh == {s \in Sessions : gate[s].phase = "none" /\ gate'[s].phase # "none"}
    IN  StatusOf(gate', IF fresh = {} THEN id ELSE CHOOSE s \in fresh : TRUE)

-----------------------------------------------------------------------------
Unlocked == call.by = "free"

\* mutant: any review that is ready will do
LooksReady(c) == review.status.phase = "ready"

\* The displayed review is still the current one.
StillDisplayed(c) == review.status.phase = "ready" /\ c.snap = Snapshot(review.status, review.selected)

MayAsk(c) ==
    CASE c.kind = "approve" -> StillDisplayed(c)
      [] c.kind = "close" -> review.status.id # 0 /\ ~Receipt
      [] c.kind = "open" -> TRUE
      [] OTHER -> review.status.id # 0

\* review_request: the gateway does it and answers, or refuses; either way the answer
\* may be lost, and so may the call.
AskGate(c) ==
    /\ Unlocked /\ c \in reviewClicks /\ c.kind # "select" /\ MayAsk(c)
    /\ reviewClicks' = reviewClicks \ {c}
    /\ LET id == review.status.id IN
       \/ /\ CASE c.kind = "open" -> GateOpens /\ UNCHANGED approvals
               [] c.kind = "status" -> UNCHANGED <<gate, approvals>>
               [] c.kind = "retry" -> GateRetries(id) /\ UNCHANGED approvals
               [] c.kind = "approve" -> GateApproves(id, c.snap)
               [] c.kind = "close" -> GateCancels(id) /\ UNCHANGED approvals
          /\ \/ /\ call' = [by |-> "click", click |-> c, reply |-> Answered(id)]
                /\ UNCHANGED effort
             \/ call' = [by |-> "click", click |-> c, reply |-> Listing] /\ Luckless
       \/ /\ call' = [by |-> "click", click |-> c, reply |-> Listing]    \* refused or not sent
          /\ Luckless /\ UNCHANGED <<gate, approvals>>
    /\ UNCHANGED <<review, reviewCard>>

\* perform() raises TorrentInputError; close_review has nothing to cancel.
NotAsked(c) ==
    /\ Unlocked /\ c \in reviewClicks /\ c.kind # "select" /\ ~MayAsk(c)
    /\ reviewClicks' = reviewClicks \ {c}
    /\ review' = [review EXCEPT !.open = IF c.kind = "close" THEN FALSE ELSE @,
                                !.poll = IF c.kind = "close" THEN "none" ELSE @]
    /\ UNCHANGED <<gate, approvals, reviewCard, call, effort>>

\* mutant: a menu of another session or file list is taken
MenuAccepted(c) == review.status.phase = "ready"

\* select() asks whether the menu is of this session and this file list.
MenuIsCurrent(c) ==
    /\ review.status.phase = "ready"
    /\ review.status.id = c.snap.id /\ review.status.manifest = c.snap.manifest

\* The menu of one page replaces that page's part of the selection.
SelectFiles(c) ==
    /\ Unlocked /\ c \in reviewClicks /\ c.kind = "select"
    /\ reviewClicks' = reviewClicks \ {c}
    /\ LET kept == {x \in review.selected : x[2] # c.file}
           next == [review EXCEPT !.selected =
                      kept \union (IF c.on THEN {<<c.snap.manifest, c.file>>} ELSE {})]
       IN  IF MenuIsCurrent(c)
             THEN /\ review' = next
                  /\ reviewCard' \in (IF review.open THEN {SessionShows(next)} ELSE {reviewCard})
             ELSE UNCHANGED <<review, reviewCard>>
    /\ UNCHANGED <<gate, approvals, call, effort>>

-----------------------------------------------------------------------------
\* absorb(): a new file list, or an approval, brings the gateway's own selection.
Absorbed(r, status) ==
    [r EXCEPT !.status = status,
              !.selected = IF status.manifest # r.status.manifest \/ status.phase = "approved"
                             THEN status.chosen ELSE @]

\* mutant: an answer starts no polling
NotPolled(r) == r

\* ensure_polling()
Polled(r) ==
    IF r.status.phase \in Waiting /\ r.poll # "running"
      THEN [r EXCEPT !.poll = "running", !.rounds = PollRounds] ELSE r

\* An answer for a click: absorbed and drawn, then the polling is seen to.  When the
\* edit fails the rest of the handler is lost.  An error is told to the reviewer.
AnswerClick ==
    /\ call.by = "click" /\ call.click.kind # "close"
    /\ call' = Idle0
    /\ LET next == Absorbed(review, call.reply) IN
       \/ call.reply = Listing /\ UNCHANGED <<review, reviewCard, effort>>
       \/ /\ call.reply # Listing /\ review.open
          /\ review' = Polled(next) /\ reviewCard' = SessionShows(next) /\ UNCHANGED effort
       \/ call.reply # Listing /\ review' = next /\ UNCHANGED reviewCard
          /\ IF review.open THEN Luckless ELSE UNCHANGED effort
    /\ UNCHANGED <<gate, approvals, reviewClicks>>

\* mutant: the card goes without waiting for the session to stop
StopsAtOnce(status) == TRUE

\* close_review: the card goes once the session is settled; while the gateway still
\* stops it the card waits for the polling task.
Stops(status) == status.phase # "metadata"

AnswerClose ==
    /\ call.by = "click" /\ call.click.kind = "close"
    /\ call' = Idle0
    /\ LET next == Absorbed(review, call.reply) IN
       \/ call.reply = Listing /\ UNCHANGED <<review, reviewCard>>
       \/ /\ call.reply # Listing /\ Stops(next.status)
          /\ review' = [next EXCEPT !.open = FALSE, !.poll = "none"] /\ UNCHANGED reviewCard
       \/ /\ call.reply # Listing /\ ~Stops(next.status)
          /\ review' = Polled([next EXCEPT !.closing = TRUE]) /\ reviewCard' = SessionShows(next)
    /\ UNCHANGED <<gate, approvals, reviewClicks, effort>>

-----------------------------------------------------------------------------
\* poll(): asks every three seconds, under the lock
PollAsks ==
    /\ Unlocked /\ review.poll = "running"
    /\ \/ /\ call' = [by |-> "poll", click |-> [kind |-> "none"],
                      reply |-> StatusOf(gate, review.status.id)]
          /\ UNCHANGED effort
       \/ call' = [by |-> "poll", click |-> [kind |-> "none"], reply |-> Listing] /\ Luckless
    /\ UNCHANGED <<gate, approvals, review, reviewCard, reviewClicks>>

PollAnswered ==
    /\ call.by = "poll"
    /\ call' = Idle0
    /\ LET next == Absorbed(review, call.reply)
           ended == next.closing /\ next.status.phase = "cancelled"
           round == [next EXCEPT !.rounds = @ - 1, !.open = @ /\ ~ended,
                       !.poll = IF ended \/ next.status.phase \notin Waiting THEN "none"
                                ELSE IF next.rounds = 1 THEN "spent" ELSE @]
       IN  \/ /\ call.reply # Listing /\ review.open
              /\ review' = round /\ reviewCard' = SessionShows(next) /\ UNCHANGED effort
           \/ /\ call.reply = Listing \/ ~review.open      \* the reviewer is told
              /\ review' = [review EXCEPT !.poll = "told"] /\ UNCHANGED <<reviewCard, effort>>
           \/ /\ call.reply # Listing /\ review.open /\ Luckless
              /\ review' = [next EXCEPT !.poll = "told"] /\ UNCHANGED reviewCard
    /\ UNCHANGED <<gate, approvals, reviewClicks>>

\* The view times out: its polling task is cancelled at once, wherever it is; the
\* rest of on_timeout waits for the lock.
ReviewExpires ==
    /\ review.open /\ ~review.expired
    /\ review' = [review EXCEPT !.expired = TRUE, !.poll = "none"]
    /\ call' = IF call.by = "poll" THEN Idle0 ELSE call
    /\ UNCHANGED <<gate, approvals, reviewCard, reviewClicks, effort>>

ExpiryCleans ==
    /\ review.expired /\ review.open /\ Unlocked
    /\ review' = [review EXCEPT !.open = FALSE]
    /\ \/ /\ review.status.id = 0 \/ Receipt
          /\ UNCHANGED <<gate, effort>>
       \/ review.status.id # 0 /\ ~Receipt /\ GateCancels(review.status.id) /\ UNCHANGED effort
       \/ review.status.id # 0 /\ ~Receipt /\ Luckless /\ UNCHANGED gate
    /\ UNCHANGED <<approvals, reviewCard, reviewClicks, call>>

-----------------------------------------------------------------------------
\* The gateway on its own: metadata arrives or fails, a stop takes effect, the file
\* list of a waiting review turns out to be another.
GateMoves ==
    /\ \E s \in Sessions :
         \/ /\ gate[s].phase = "metadata" /\ UNCHANGED effort
            /\ \/ \E m \in Manifests :
                    gate' = [gate EXCEPT ![s].phase = "ready", ![s].manifest = m]
               \/ gate' = [gate EXCEPT ![s].phase = IF gate[s].stopping THEN "cancelled" ELSE "failed"]
         \/ /\ gate[s].phase = "ready" /\ Luckless
            /\ \E m \in Manifests \ {gate[s].manifest} : gate' = [gate EXCEPT ![s].manifest = m]
    /\ UNCHANGED <<approvals, review, reviewCard, reviewClicks, call>>

ReviewNext ==
    \/ PressReview
    \/ \E c \in reviewClicks : AskGate(c) \/ NotAsked(c) \/ SelectFiles(c)
    \/ AnswerClick \/ AnswerClose \/ PollAsks \/ PollAnswered
    \/ ReviewExpires \/ ExpiryCleans \/ GateMoves

ReviewSpec == ReviewInit /\ [][ReviewNext]_reviewVars

-----------------------------------------------------------------------------
\* The view's fields have their types, and every chosen file is one of the list the
\* view holds.
ReviewTypeOK ==
    /\ gate \in [Sessions -> Session]
    /\ review.status.id \in Sessions \union {0} /\ review.status.phase \in Phases
    /\ review.poll \in {"none", "running", "told", "spent"}
    /\ \A x \in review.selected : x[1] = review.status.manifest

\* What the gateway approves is exactly the session, file list and selection the card
\* showed when Approve was pressed, and every chosen file was chosen from that list.
ApprovedAsShown ==
    \A a \in approvals :
      /\ a.shown = [id |-> a.id, manifest |-> a.manifest, chosen |-> a.chosen]
      /\ \A x \in a.chosen : x[1] = a.manifest

\* A review whose card the reviewer closed is over at the gateway: nobody finds it
\* ready, or still fetching metadata, without a card to cancel it.
ClosedMeansSettled ==
    [][review.open /\ ~review'.open /\ ~review.expired /\ review'.status.id # 0
         => gate[review'.status.id].phase \in Settled]_reviewVars

\* A card that shows the gateway at work is kept up to date by the polling task, or
\* the reviewer was told that it is not, or the task's rounds are spent.
PolledWhileWaiting ==
    review.open /\ ~review.expired /\ Unlocked /\ reviewCard.phase \in Waiting
        => review.poll # "none"

\* The invariant of the review, from its parts.
ReviewInv == ReviewTypeOK /\ ApprovedAsShown /\ PolledWhileWaiting

=============================================================================
