---------------------------- MODULE LifeActions ----------------------------
(***************************************************************************)
(* The owner's Life inbox: a raw thought becomes a file, a stored capture  *)
(* becomes a proposal for a task, and a proposal that is confirmed becomes *)
(* a request to the Life gateway, which may answer late, or never, and is  *)
(* then asked the same again.                                              *)
(*                                                                         *)
(* The gateway and Nextcloud are not in this repository: GatewayTakes says *)
(* what the client's code and its error texts expect of them.  Tasks and   *)
(* events are promoted alike and are one kind here; one file list is one   *)
(* page; the wording of a task, its dates and its reminder are left out.   *)
(* A click in lifeClicks or in `waiting` has passed interaction_check.     *)
(***************************************************************************)
EXTENDS Naturals, FiniteSets

CONSTANTS
    Captures,      \* the thoughts
    LifeTasks,     \* tasks in Nextcloud
    LifeProposals, \* 1..n: the proposals opened
    NoItem,
    MaxLifeClicks, \* bound: presses
    MaxLifeFaults, \* bound: calls that fail, answers lost, power failures
    MaxEdits       \* bound: changes made in Nextcloud by others

ASSUME LifeAssumption ==
    /\ LifeProposals = 1..Cardinality(LifeProposals)
    /\ NoItem \notin Captures \union LifeTasks
    /\ {MaxLifeClicks, MaxLifeFaults, MaxEdits} \subseteq Nat

VARIABLES
    thought,    \* a $think command: its handler, its file, its Discord message
    cloud,      \* Nextcloud's tasks
    made,       \* the captures a task was made of
    receipts,   \* the gateway's receipts, by request id
    posts,      \* requests on their way to the gateway, and their answers
    life,       \* the LifeView: its lock, mode, items and selection
    lifeCard,   \* what its message shows
    lifeClicks, \* clicks whose callback has not had its turn
    modals,     \* captures whose dialog is open
    proposal,   \* the ProposalViews
    lifeEffort  \* the bounds spent

lifeVars == <<thought, cloud, made, receipts, posts, life, lifeCard, lifeClicks, modals,
              proposal, lifeEffort>>
lifeUI == <<life, lifeCard, lifeClicks, modals>>
nextcloud == <<cloud, made, receipts>>

-----------------------------------------------------------------------------
Modes == {"captures", "tasks"}
Item == [id : Captures \union LifeTasks, etag : Nat, done : BOOLEAN]
CaptureItem(c) == [id |-> c, etag |-> 0, done |-> FALSE]
TaskItem(t) == [id |-> t, etag |-> cloud[t].etag, done |-> cloud[t].done]

\* entry is the name in the inbox: none, not yet in the directory on disk, or durable.
\* whole says that the content is on disk.
Thought == [pc : {"typed", "opened", "synced", "linked", "kept", "saved", "checking", "over"},
            entry : {"none", "cached", "durable"}, whole : BOOLEAN,
            message : BOOLEAN, told : {"nothing", "captured", "failed"}]
NewThought == [pc |-> "typed", entry |-> "none", whole |-> FALSE,
               message |-> TRUE, told |-> "nothing"]
OldThought == [pc |-> "over", entry |-> "durable", whole |-> TRUE,
               message |-> FALSE, told |-> "captured"]

\* seen is the item the owner had before the eyes when asking for the proposal.
Proposal == [kind : {"none", "create", "complete"}, item : Item \union {NoItem},
             seen : Item \union {NoItem}, drawn : BOOLEAN, calling : BOOLEAN, tries : Nat,
             waiting : SUBSET {"confirm", "cancel"},
             state : {"open", "done", "cancelled", "expired"},
             told : {"nothing", "conflict", "unconfirmed"}]
NoProposal == [kind |-> "none", item |-> NoItem, seen |-> NoItem, drawn |-> FALSE,
               calling |-> FALSE, tries |-> 0, waiting |-> {}, state |-> "open",
               told |-> "nothing"]

Listed(mode) ==
    IF mode = "tasks" THEN {TaskItem(t) : t \in LifeTasks}
    ELSE {CaptureItem(c) : c \in {d \in Captures : thought[d].entry # "none"}}

Shows(v) == [mode |-> v.mode, items |-> v.items, selected |-> v.selected]

\* Some thoughts are being typed, the inbox holds the others.  LifeLauncher opens the
\* view on one capture, or on what it loads first.
LifeInit ==
    /\ \E typed \in SUBSET Captures :
          thought = [c \in Captures |-> IF c \in typed THEN NewThought ELSE OldThought]
    /\ cloud = [t \in LifeTasks |-> [etag |-> 1, done |-> FALSE]]
    /\ made = {} /\ receipts = {} /\ posts = {}
    /\ \/ \E i \in Listed("captures") :
             life = [open |-> TRUE, lock |-> "free", mode |-> "captures",
                     items |-> {i}, selected |-> i]
       \/ \E mode \in Modes : life = [open |-> TRUE, lock |-> "free", mode |-> mode,
                                      items |-> Listed(mode), selected |-> NoItem]
    /\ lifeCard = Shows(life) /\ lifeClicks = {} /\ modals = {}
    /\ proposal = [p \in LifeProposals |-> NoProposal]
    /\ lifeEffort = [clicks |-> 0, faults |-> 0, edits |-> 0]

LifeFault == lifeEffort.faults < MaxLifeFaults /\ lifeEffort' = [lifeEffort EXCEPT !.faults = @ + 1]
LifeClick == lifeEffort.clicks < MaxLifeClicks /\ lifeEffort' = [lifeEffort EXCEPT !.clicks = @ + 1]

-----------------------------------------------------------------------------
(***************************************************************************)
(* $think.                                                                 *)
(***************************************************************************)
SetThought(c, t) == thought' = [thought EXCEPT ![c] = t]

\* mutant: the content reaches the disk after its name
SyncedLast(pc) ==
    CASE pc = "typed" -> [pc |-> "opened", entry |-> "none", whole |-> FALSE]
      [] pc = "opened" -> [pc |-> "linked", entry |-> "cached", whole |-> FALSE]
      [] OTHER -> [pc |-> "saved", entry |-> "durable", whole |-> TRUE]

\* capture(): the temporary file is written and flushed to disk, linked to its final
\* name, the directory flushed, and the temporary name removed.
StoreSteps(pc) ==
    CASE pc = "typed" -> [pc |-> "opened", entry |-> "none", whole |-> FALSE]
      [] pc = "opened" -> [pc |-> "synced", entry |-> "none", whole |-> TRUE]
      [] pc = "synced" -> [pc |-> "linked", entry |-> "cached", whole |-> TRUE]
      [] pc = "linked" -> [pc |-> "kept", entry |-> "durable", whole |-> TRUE]
      [] OTHER -> [pc |-> "saved", entry |-> "durable", whole |-> TRUE]
Storing(c) == thought[c].pc \in {"typed", "opened", "synced", "linked", "kept"}

StoreThought(c) ==
    /\ Storing(c)
    /\ LET s == StoreSteps(thought[c].pc) IN
       SetThought(c, [thought[c] EXCEPT !.pc = s.pc, !.entry = s.entry, !.whole = s.whole])
    /\ UNCHANGED <<nextcloud, posts, lifeUI, proposal, lifeEffort>>

\* A call fails: the temporary file is removed and the owner told, what is linked stays.
StoreFails(c) ==
    /\ Storing(c) /\ LifeFault
    /\ SetThought(c, [thought[c] EXCEPT !.pc = "over", !.told = "failed"])
    /\ UNCHANGED <<nextcloud, posts, lifeUI, proposal>>

\* mutant: a thought counts as captured once its name is there
NamedOnce(t) == t.pc \in {"linked", "kept", "saved"}

\* capture() has returned
Returned(t) == t.pc = "saved"

\* In a server the message is deleted, if that succeeds.  With --auto the classifier is
\* asked next, unless the message of a server could not be deleted.
AnswerThought(c) ==
    /\ Returned(thought[c])
    /\ \E kept \in BOOLEAN, pc \in {"checking", "over"} :
          SetThought(c, [thought[c] EXCEPT !.pc = pc, !.message = kept, !.told = "captured"])
    /\ UNCHANGED <<nextcloud, posts, lifeUI, proposal, lifeEffort>>

-----------------------------------------------------------------------------
(***************************************************************************)
(* Proposals and requests.                                                 *)
(***************************************************************************)
SetProposal(p, r) == proposal' = [proposal EXCEPT ![p] = r]
FreeProposal(p) == proposal[p].kind = "none" /\ \A q \in 1..(p - 1) : proposal[q].kind # "none"

\* mutant: every attempt is a request of its own
IdOfAttempt(p, n) == <<p, n>>

\* the request_id is given to the proposal, or derived from the capture
RequestId(p, n) == <<p, 0>>

Ask(p, n) == [by |-> p, n |-> n, id |-> RequestId(p, n), reply |-> "none"]

\* The classifier quotes a task from the thought, and it is submitted at once; or there
\* is none.
Classify(c) ==
    /\ thought[c].pc = "checking"
    /\ SetThought(c, [thought[c] EXCEPT !.pc = "over"])
    /\ \/ UNCHANGED <<proposal, posts>>
       \/ \E p \in LifeProposals :
             /\ FreeProposal(p)
             /\ SetProposal(p, [NoProposal EXCEPT !.kind = "create", !.item = CaptureItem(c),
                    !.seen = CaptureItem(c), !.calling = TRUE, !.tries = 1])
             /\ posts' = posts \union {Ask(p, 1)}
    /\ UNCHANGED <<nextcloud, lifeUI, lifeEffort>>

Opened(p, kind, item, seen) ==
    /\ FreeProposal(p)
    /\ SetProposal(p, [NoProposal EXCEPT !.kind = kind, !.item = item, !.seen = seen,
                                         !.drawn = TRUE])

PressProposal(p, button) ==
    /\ proposal[p].drawn /\ proposal[p].state = "open" /\ button \notin proposal[p].waiting
    /\ LifeClick
    /\ SetProposal(p, [proposal[p] EXCEPT !.waiting = @ \union {button}])
    /\ UNCHANGED <<thought, nextcloud, posts, lifeUI>>

\* confirm holds the view's lock over its request.
Confirm(p) ==
    LET r == [proposal[p] EXCEPT !.waiting = @ \ {"confirm"}] IN
    /\ "confirm" \in proposal[p].waiting /\ ~proposal[p].calling
    /\ IF r.state = "open"
       THEN /\ SetProposal(p, [r EXCEPT !.calling = TRUE, !.tries = @ + 1])
            /\ posts' = posts \union {Ask(p, r.tries + 1)}
       ELSE SetProposal(p, r) /\ UNCHANGED posts
    /\ UNCHANGED <<thought, nextcloud, lifeUI, lifeEffort>>

\* mutant: Cancel does not wait for a confirmation under way
AtOnce(p) == TRUE

\* the lock
NotCalling(p) == ~proposal[p].calling

CancelProposal(p) ==
    LET r == [proposal[p] EXCEPT !.waiting = @ \ {"cancel"}] IN
    /\ "cancel" \in proposal[p].waiting /\ NotCalling(p)
    /\ SetProposal(p, IF r.state = "open" THEN [r EXCEPT !.state = "cancelled"] ELSE r)
    /\ UNCHANGED <<thought, nextcloud, posts, lifeUI, lifeEffort>>

\* five minutes without a click, whatever is under way
ExpireProposal(p) ==
    /\ proposal[p].drawn /\ proposal[p].state = "open"
    /\ SetProposal(p, [proposal[p] EXCEPT !.state = "expired"])
    /\ UNCHANGED <<thought, nextcloud, posts, lifeUI, lifeEffort>>

Awaited(m) == proposal[m.by].calling /\ proposal[m.by].tries = m.n

\* The gateway does what it was asked once for each request id.  It refuses to make a
\* second task of a capture, and to complete a task that is not at the version it was
\* given.  Nobody may be waiting for the answer any more.
GatewayTakes(m) ==
    LET r == proposal[m.by]
        known == m.id \in receipts
        fits == IF r.kind = "create" THEN r.item.id \notin made
                ELSE TaskItem(r.item.id) = r.item /\ ~r.item.done
        reply == IF known \/ fits THEN "ok" ELSE "conflict"
    IN
    /\ m.reply = "none"
    /\ posts' = (posts \ {m}) \union (IF Awaited(m) THEN {[m EXCEPT !.reply = reply]} ELSE {})
    /\ IF fits /\ ~known
       THEN /\ receipts' = receipts \union {m.id}
            /\ made' = IF r.kind = "create" THEN made \union {r.item.id} ELSE made
            /\ cloud' = IF r.kind = "create" THEN cloud
                        ELSE [cloud EXCEPT ![r.item.id] = [etag |-> @.etag + 1, done |-> TRUE]]
       ELSE UNCHANGED nextcloud
    /\ UNCHANGED <<thought, lifeUI, proposal, lifeEffort>>

\* request() returns a receipt or raises.  The card of an automatic request shows its
\* outcome, and offers to try the same again, unless that edit fails.
TakeAnswer(m) ==
    LET r == [proposal[m.by] EXCEPT !.calling = FALSE] IN
    /\ Awaited(m) /\ m.reply # "none"
    /\ posts' = posts \ {m}
    /\ \E shown \in {TRUE, proposal[m.by].drawn} :
          SetProposal(m.by, IF m.reply = "ok" THEN [r EXCEPT !.state = "done"]
                            ELSE [r EXCEPT !.told = "conflict", !.drawn = shown])
    /\ UNCHANGED <<thought, nextcloud, lifeUI, lifeEffort>>

\* The connection breaks or the time is up.  The request may still be on its way.
GiveUp(m) ==
    LET r == [proposal[m.by] EXCEPT !.calling = FALSE, !.told = "unconfirmed"] IN
    /\ Awaited(m) /\ LifeFault
    /\ \/ posts' = posts \ {m}
       \/ m.reply = "none" /\ UNCHANGED posts
    /\ \E shown \in {TRUE, proposal[m.by].drawn} : SetProposal(m.by, [r EXCEPT !.drawn = shown])
    /\ UNCHANGED <<thought, nextcloud, lifeUI>>

-----------------------------------------------------------------------------
(***************************************************************************)
(* The Life view.                                                          *)
(***************************************************************************)
SetLife(v) == life' = v

PressLife ==
    /\ life.open /\ LifeClick
    /\ \E c \in [kind : Modes, item : {NoItem}, menu : {lifeCard.items}]
              \union [kind : {"select"}, item : lifeCard.items, menu : {lifeCard.items}]
              \union [kind : {"act"}, menu : {lifeCard.items},
                      item : {i \in {lifeCard.selected} \ {NoItem} : ~i.done}] :
          lifeClicks' = lifeClicks \union {c}
    /\ UNCHANGED <<thought, nextcloud, posts, life, lifeCard, modals, proposal>>

\* Inbox or Tasks: the list is fetched, and the card edited, under the lock.
StartLoad(c) ==
    /\ c.kind \in Modes /\ life.lock = "free"
    /\ lifeClicks' = lifeClicks \ {c}
    /\ SetLife([life EXCEPT !.lock = c.kind])
    /\ UNCHANGED <<thought, nextcloud, posts, lifeCard, modals, proposal, lifeEffort>>

Loaded ==
    /\ life.lock \in Modes
    /\ \/ /\ SetLife([life EXCEPT !.lock = "draw", !.mode = life.lock,
                                  !.items = Listed(life.lock), !.selected = NoItem])
          /\ UNCHANGED lifeEffort
       \/ LifeFault /\ SetLife([life EXCEPT !.lock = "free"])
    /\ UNCHANGED <<thought, nextcloud, posts, lifeCard, lifeClicks, modals, proposal>>

DrawLife ==
    /\ life.lock = "draw"
    /\ SetLife([life EXCEPT !.lock = "free"])
    /\ \/ lifeCard' = Shows(life) /\ UNCHANGED lifeEffort
       \/ LifeFault /\ UNCHANGED lifeCard
    /\ UNCHANGED <<thought, nextcloud, posts, lifeClicks, modals, proposal>>

\* mutant: an old menu still selects
AnyMenu(c) == TRUE

\* the page is the one the menu was built from
SameMenu(c) == c.menu = life.items

SelectItem(c) ==
    /\ c.kind = "select" /\ life.lock = "free"
    /\ lifeClicks' = lifeClicks \ {c}
    /\ SetLife(IF SameMenu(c) THEN [life EXCEPT !.selected = c.item, !.lock = "draw"] ELSE life)
    /\ UNCHANGED <<thought, nextcloud, posts, lifeCard, modals, proposal, lifeEffort>>

\* mutant: the button acts on whatever is selected by now
SelectedNow(c) == {life.selected} \ {NoItem}

\* promote and complete: the item the button was built for, if it is still selected
StillSelected(c) == {i \in {c.item} : life.selected = i}

\* Make task opens a dialog, Mark complete a proposal.  Neither takes the lock.
ActOn(c) ==
    /\ c.kind = "act"
    /\ lifeClicks' = lifeClicks \ {c}
    /\ \/ /\ StillSelected(c) = {} /\ UNCHANGED <<modals, proposal>>
       \/ \E i \in StillSelected(c) :
             IF i.id \in Captures
             THEN modals' = modals \union {i.id} /\ UNCHANGED proposal
             ELSE /\ UNCHANGED modals
                  /\ \E p \in LifeProposals : Opened(p, "complete", i, c.item)
    /\ UNCHANGED <<thought, nextcloud, posts, life, lifeCard, lifeEffort>>

\* The dialog is sent.  It proposes, unless its view has expired.
SendModal(c) ==
    /\ c \in modals /\ modals' = modals \ {c}
    /\ IF life.open
       THEN \E p \in LifeProposals : Opened(p, "create", CaptureItem(c), CaptureItem(c))
       ELSE UNCHANGED proposal
    /\ UNCHANGED <<thought, nextcloud, posts, life, lifeCard, lifeClicks, lifeEffort>>

ExpireLife ==
    /\ life.open
    /\ SetLife([life EXCEPT !.open = FALSE])
    /\ UNCHANGED <<thought, nextcloud, posts, lifeCard, lifeClicks, modals, proposal, lifeEffort>>

-----------------------------------------------------------------------------
\* Somebody edits a task in Nextcloud, or opens it again.
EditedElsewhere(t) ==
    /\ lifeEffort.edits < MaxEdits /\ lifeEffort' = [lifeEffort EXCEPT !.edits = @ + 1]
    /\ \E done \in BOOLEAN : cloud' = [cloud EXCEPT ![t] = [etag |-> @.etag + 1, done |-> done]]
    /\ UNCHANGED <<thought, made, receipts, posts, lifeUI, proposal>>

\* The power fails: handlers and views are gone, a name not yet on disk may be.
PowerFails ==
    /\ LifeFault
    /\ \E lost \in SUBSET {c \in Captures : thought[c].entry = "cached"} :
          thought' = [c \in Captures |-> [thought[c] EXCEPT !.pc = "over",
              !.entry = IF c \in lost THEN "none" ELSE IF @ = "cached" THEN "durable" ELSE @]]
    /\ SetLife([life EXCEPT !.open = FALSE, !.lock = "free"])
    /\ lifeClicks' = {} /\ modals' = {}
    /\ proposal' = [p \in LifeProposals |-> [proposal[p] EXCEPT !.calling = FALSE, !.waiting = {},
                       !.state = IF @ = "open" THEN "expired" ELSE @]]
    /\ UNCHANGED <<nextcloud, posts, lifeCard>>

LifeNext ==
    \/ \E c \in Captures : StoreThought(c) \/ StoreFails(c) \/ AnswerThought(c) \/ Classify(c)
    \/ \E p \in LifeProposals :
          \/ PressProposal(p, "confirm") \/ PressProposal(p, "cancel")
          \/ Confirm(p) \/ CancelProposal(p) \/ ExpireProposal(p)
    \/ \E m \in posts : GatewayTakes(m) \/ TakeAnswer(m) \/ GiveUp(m)
    \/ \E c \in lifeClicks : StartLoad(c) \/ SelectItem(c) \/ ActOn(c)
    \/ \E c \in modals : SendModal(c)
    \/ PressLife \/ Loaded \/ DrawLife \/ ExpireLife \/ PowerFails
    \/ \E t \in LifeTasks : EditedElsewhere(t)

LifeSpec == LifeInit /\ [][LifeNext]_lifeVars

-----------------------------------------------------------------------------
(***************************************************************************)
(* Properties                                                              *)
(***************************************************************************)

\* Types of the variables; the view's selection is one of its items.
LifeTypeOK ==
    /\ thought \in [Captures -> Thought]
    /\ \A t \in LifeTasks : cloud[t].etag \in Nat /\ cloud[t].done \in BOOLEAN
    /\ made \subseteq Captures
    /\ proposal \in [LifeProposals -> Proposal]
    /\ life.mode \in Modes /\ life.selected \in life.items \union {NoItem}
    /\ life.lock \in Modes \union {"free", "draw"}

\* A thought is never lost: its message is there until a whole file of it would survive
\* a power failure, and no name in the inbox ever stands for a part of a thought.
ThoughtKept ==
    \A c \in Captures :
        /\ thought[c].message \/ (thought[c].entry = "durable" /\ thought[c].whole)
        /\ thought[c].entry # "none" => thought[c].whole

\* A proposal is for the item, at the version, that the owner's card showed when its
\* button was pressed, whatever the view has loaded or selected since.
ProposedAsShown == \A p \in LifeProposals : proposal[p].item = proposal[p].seen

\* "The task changed" and "already has this kind of action" are never said of what this
\* proposal did itself: a retry after a lost answer gets the receipt.
RefusedOnlyByOthers ==
    \A p \in LifeProposals : proposal[p].told = "conflict" => \A id \in receipts : id[1] # p

\* "Cancelled. No new action was submitted": the view has no call under way then and
\* starts none later (a request whose answer it has given up may still take effect);
\* and "Task created" or "Task completed" is said only of what the gateway did.
ClosedAsSaid ==
    \A p \in LifeProposals :
        /\ proposal[p].state = "cancelled" => ~proposal[p].calling
        /\ proposal[p].state = "done" => \E id \in receipts : id[1] = p

\* The invariant of the Life inbox, from its parts.
LifeInv == LifeTypeOK /\ ThoughtKept /\ ProposedAsShown /\ RefusedOnlyByOthers /\ ClosedAsSaid

=============================================================================
