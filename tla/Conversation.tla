---------------------------- MODULE Conversation ----------------------------
(***************************************************************************)
(* The card of a local conversation (LocalChatView): a question, the       *)
(* messages it is shown in, the dialogs that ask the next one, and what    *)
(* the model is told of the earlier ones.                                  *)
(*                                                                         *)
(* The queue and the gateway behind LocalAIService.chat are those of       *)
(* LocalInference; here they answer or fail.  The view's lock is held over *)
(* each edit and nothing else looks at the view meanwhile, so a locked     *)
(* block is one action.  What a member presses is what a message showed,   *)
(* and its callback may get the lock much later.                           *)
(*                                                                         *)
(* Left out: the pages and source cards that follow an answer, a message   *)
(* that turns out to be elsewhere, and the end of the process.             *)
(***************************************************************************)
EXTENDS Naturals, FiniteSets, Sequences, SequencesExt

CONSTANTS
    Questions,     \* 1..n: the questions accepted, in their order
    KeptTurns,     \* how many earlier turns the context has room for
    MaxPresses,    \* bound: buttons pressed
    MaxProgress,   \* bound: how often progress is shown
    MaxChatFaults  \* bound: calls that fail

ASSUME ConversationAssumption ==
    /\ IsFiniteSet(Questions) /\ Questions # {} /\ Questions = 1..Cardinality(Questions)
    /\ {KeptTurns, MaxPresses, MaxProgress, MaxChatFaults} \subseteq Nat

VARIABLES
    chat,       \* the view
    memory,     \* history: the questions whose answers the next one is asked with
    talk,       \* the coroutine of the last question: generate()
    cards,      \* the messages, the last of them is view.message
    presses,    \* clicks whose callback has not got the lock
    dialogs,    \* the follow-up dialogs that are open
    cancels,    \* Cancel, after its lock
    finishing,  \* Finish sooner, after its lock
    withdrawn,  \* the questions whose Cancel was taken
    stopped,    \* those whose search or inference was told to stop
    unsent,     \* history: the turns whose answer, or whose last edit, could not be sent
    chatEffort  \* the bounds spent

chatVars == <<chat, memory, talk, cards, presses, dialogs, cancels, finishing, withdrawn,
              stopped, unsent, chatEffort>>

-----------------------------------------------------------------------------
NoQuestion == 0
Asked == Questions \union {NoQuestion}

\* The view.  phase says what Cancel has to stop.
Chat == [closed : BOOLEAN, current : Asked, cancel : Asked, finish : Asked, timer : BOOLEAN,
         phase : {"none", "search", "queued", "model"}, revision : Nat, visible : BOOLEAN]

\* The coroutine: its place, the context it sends, and how it was asked for: with the
\* history of the moment the button was pressed, by New topic or not.
Talk == [q : Questions, context : Seq(Questions), seen : Seq(Questions), fresh : BOOLEAN,
         web : BOOLEAN,
         pc : {"opening", "permit", "search", "searching", "ready", "asking", "answered",
               "failed", "ending", "over"}]

\* The buttons of a message: the revision they are bound to, and the question that Cancel
\* and Finish sooner are for; with none, the buttons are the two that ask.
Bound(c) == [revision |-> c.revision, q |-> c.current]
Unbound == [revision |-> 0, q |-> NoQuestion]
Card(q, shows, controls) == [question |-> q, shows |-> shows, controls |-> controls]

ChatInit ==
    /\ chat = [closed |-> FALSE, current |-> 1, cancel |-> NoQuestion, finish |-> NoQuestion,
               timer |-> FALSE, phase |-> "none", revision |-> 2, visible |-> FALSE]
    /\ memory = <<>>
    /\ \E web \in BOOLEAN : talk = [q |-> 1, context |-> <<>>, seen |-> <<>>, fresh |-> FALSE,
                                    web |-> web, pc |-> "opening"]
    /\ cards = <<Card(NoQuestion, "prompt", [revision |-> 1, q |-> NoQuestion])>>
    /\ presses = {} /\ dialogs = {} /\ cancels = {} /\ finishing = {}
    /\ withdrawn = {} /\ stopped = {} /\ unsent = {}
    /\ chatEffort = [presses |-> 0, progress |-> 0, faults |-> 0]

ChatFault ==
    /\ chatEffort.faults < MaxChatFaults
    /\ chatEffort' = [chatEffort EXCEPT !.faults = @ + 1]
NoChatFault == UNCHANGED chatEffort

Here == Len(cards)
Drawn(c) == [cards EXCEPT ![Here].controls = Bound(c)]

\* edit_response: the last message shows it, or the call fails
Edit(shown) == \/ cards' = shown /\ NoChatFault
               \/ UNCHANGED cards /\ ChatFault

\* ... one that the turn is remembered by: its answer, or the buttons at its end
EditOwn(what, shown) ==
    \/ cards' = shown /\ NoChatFault /\ UNCHANGED unsent
    \/ UNCHANGED cards /\ ChatFault /\ unsent' = unsent \union {<<what, talk.q>>}

SetChat(c) == chat' = c
Rebuilt(c) == [c EXCEPT !.revision = @ + 1]
Goes(pc) == talk' = [talk EXCEPT !.pc = pc]
handlers == <<presses, dialogs, cancels, finishing, withdrawn, stopped>>

-----------------------------------------------------------------------------
(***************************************************************************)
(* generate()                                                              *)
(***************************************************************************)
Current(q) == ~chat.closed /\ chat.current = q
InTurn == Current(talk.q)

\* append_prompt: the oldest turns make room
Kept(history) == IF Len(history) <= KeptTurns THEN history
                 ELSE SubSeq(history, Len(history) - KeptTurns + 1, Len(history))

\* mutant: a dialog asks in whatever conversation it finds
AnyRevision(d) == TRUE

\* expected_revision
SameTurn(d) == d.revision = chat.revision

\* mutant: the idle timer goes on
TimerRuns(c) == c

\* the idle timer is cancelled
TimerOff(c) == [c EXCEPT !.timer = FALSE]

\* A dialog is sent: a new turn, unless the conversation is busy, over or elsewhere.
SendDialog(d) ==
    LET q == talk.q + 1 IN
    /\ d \in dialogs /\ dialogs' = dialogs \ {d}
    /\ IF Current(NoQuestion) /\ SameTurn(d)
       THEN /\ q \in Questions
            /\ talk' = [talk EXCEPT !.q = q, !.context = Kept(memory), !.seen = d.seen,
                                    !.fresh = d.fresh, !.pc = "opening"]
            /\ SetChat(Rebuilt(TimerOff([chat EXCEPT !.current = q, !.cancel = NoQuestion,
                                                     !.finish = NoQuestion])))
       ELSE UNCHANGED <<talk, chat>>
    /\ UNCHANGED <<memory, cards, presses, cancels, finishing, withdrawn, stopped, unsent, chatEffort>>

\* mutant: the next question takes the message of the last one
InPlace == FALSE

\* turn_visible: the message has a turn to keep
HasTurn == chat.visible

\* The card of the question: a reply to the last turn, whose buttons are taken away, or
\* the message that waits for it.
OpenTurn ==
    LET new == Card(talk.q, "prompt", Bound(chat))
        bare == [cards EXCEPT ![Here].controls = Unbound]
    IN
    /\ talk.pc = "opening"
    /\ \/ ~InTurn /\ Goes("ending") /\ UNCHANGED <<chat, cards, chatEffort>>
       \/ InTurn /\ ChatFault /\ Goes("ending") /\ UNCHANGED chat
          /\ cards' \in {cards} \union (IF HasTurn THEN {Append(bare, new)} ELSE {})
       \/ /\ InTurn /\ Goes("permit") /\ SetChat([chat EXCEPT !.visible = TRUE])
          /\ IF HasTurn
             THEN \/ cards' = Append(bare, new) /\ NoChatFault
                  \/ cards' = Append(cards, new) /\ ChatFault
             ELSE cards' = [cards EXCEPT ![Here] = new] /\ NoChatFault
    /\ UNCHANGED <<memory, handlers, unsent>>

\* permissions(): read afresh before the search and before the question
ReadPermissions ==
    /\ talk.pc = "permit"
    /\ IF InTurn THEN \E pc \in {"failed", IF talk.web /\ chat.phase = "none" THEN "search" ELSE "ready"} :
                          Goes(pc)
       ELSE Goes("ending")
    /\ UNCHANGED <<chat, memory, cards, handlers, unsent, chatEffort>>

Notice == Edit([cards EXCEPT ![Here].shows = "notice"])

\* The search, or the question, is not begun once Cancel was taken.
Begin(pc, phase, next) ==
    /\ talk.pc = pc
    /\ \/ ~InTurn /\ Goes("ending") /\ UNCHANGED <<chat, cards, chatEffort>>
       \/ InTurn /\ chat.cancel = talk.q /\ Goes("ending") /\ Notice /\ UNCHANGED chat
       \/ /\ InTurn /\ chat.cancel # talk.q /\ Goes(next)
          /\ SetChat([chat EXCEPT !.phase = phase]) /\ UNCHANGED <<cards, chatEffort>>
    /\ UNCHANGED <<memory, handlers, unsent>>

BeginSearch == Begin("search", "search", "searching")
AskModel == Begin("ready", "model", "asking")

\* Sources are found, there are none, or the search is cancelled.
EndSearch ==
    /\ talk.pc = "searching"
    /\ IF talk.q \in stopped THEN Goes("ending") /\ (IF InTurn THEN Notice ELSE UNCHANGED <<cards, chatEffort>>)
       ELSE (Goes("permit") \/ Goes("failed")) /\ UNCHANGED <<cards, chatEffort>>
    /\ UNCHANGED <<chat, memory, handlers, unsent>>

\* progress(): a place in the queue, or the model at work
ShowProgress ==
    /\ talk.pc = "asking" /\ chatEffort.progress < MaxProgress
    /\ IF InTurn /\ chat.cancel # talk.q
       THEN \E phase \in {"queued", "model"} :
              LET c == Rebuilt([chat EXCEPT !.phase = phase])
                  spent == [chatEffort EXCEPT !.progress = @ + 1]
              IN /\ SetChat(c) /\ UNCHANGED talk
                 /\ \/ cards' = Drawn(c) /\ chatEffort' = spent
                    \/ /\ UNCHANGED cards /\ spent.faults < MaxChatFaults
                       /\ chatEffort' = [spent EXCEPT !.faults = @ + 1]
       ELSE Goes("failed") /\ UNCHANGED <<chat, cards, chatEffort>>
    /\ UNCHANGED <<memory, handlers, unsent>>

EndInference ==
    /\ talk.pc = "asking"
    /\ Goes("answered") \/ Goes("failed")
    /\ UNCHANGED <<chat, memory, cards, handlers, unsent, chatEffort>>

\* mutant: Cancel is not looked at again
Unwatched == FALSE

\* cancel_requested, when the answer is there
Withheld == chat.cancel = talk.q

\* The answer joins the history, and then it is shown, unless Cancel was taken or access is gone.
ShowAnswer ==
    /\ talk.pc = "answered"
    /\ \/ ~InTurn /\ Goes("ending") /\ UNCHANGED <<memory, cards, unsent, chatEffort>>
       \/ InTurn /\ Goes("ending") /\ Notice /\ UNCHANGED <<memory, unsent>>
       \/ /\ InTurn /\ ~Withheld /\ Goes("ending")
          /\ memory' = Append(talk.context, talk.q)
          /\ EditOwn("answer", [cards EXCEPT ![Here].shows = "answer"])
    /\ UNCHANGED <<chat, handlers>>

ShowError ==
    /\ talk.pc = "failed" /\ Goes("ending")
    /\ IF InTurn THEN Notice ELSE UNCHANGED <<cards, chatEffort>>
    /\ UNCHANGED <<chat, memory, handlers, unsent>>

\* mutant: the buttons of the turn are not exchanged
NotRedrawn(c) == UNCHANGED <<cards, unsent, chatEffort>>

\* the last edit of a turn
Redrawn(c) == EditOwn("buttons", Drawn(c))

\* The finally of generate(): the view can be asked again, and the idle timer runs.
EndTurn ==
    LET c == Rebuilt([chat EXCEPT !.current = NoQuestion, !.cancel = NoQuestion,
                                  !.phase = "none", !.timer = TRUE])
    IN
    /\ talk.pc = "ending" /\ Goes("over")
    /\ IF chat.current = talk.q THEN SetChat(c) /\ Redrawn(c)
       ELSE UNCHANGED <<chat, cards, unsent, chatEffort>>
    /\ UNCHANGED <<memory, handlers>>

-----------------------------------------------------------------------------
(***************************************************************************)
(* The buttons.                                                            *)
(***************************************************************************)
PressChat ==
    /\ ~chat.closed
    /\ chatEffort.presses < MaxPresses
    /\ chatEffort' = [chatEffort EXCEPT !.presses = @ + 1]
    /\ \E i \in DOMAIN cards :
         LET b == cards[i].controls IN
         /\ b # Unbound
         /\ \E kind \in (IF b.q = NoQuestion THEN {"follow", "fresh"} ELSE {"cancel", "finish"}) :
              presses' = presses \union {[kind |-> kind, q |-> b.q, revision |-> b.revision,
                                          seen |-> memory]}
    /\ UNCHANGED <<chat, memory, talk, cards, dialogs, cancels, finishing, withdrawn, stopped, unsent>>

Taken(p, kind) == p \in presses /\ p.kind = kind /\ presses' = presses \ {p}
Valid(p) == Current(p.q) /\ p.revision = chat.revision

\* Ask a follow-up and New topic
OpenDialog(p, kind) ==
    /\ Taken(p, kind)
    /\ IF Valid(p)
       THEN /\ memory' = IF kind = "fresh" THEN <<>> ELSE memory
            /\ \/ dialogs' = dialogs \union {[revision |-> p.revision, fresh |-> kind = "fresh",
                                              seen |-> p.seen]}
                  /\ NoChatFault
               \/ UNCHANGED dialogs /\ ChatFault
       ELSE UNCHANGED <<memory, dialogs, chatEffort>>
    /\ UNCHANGED <<chat, talk, cards, cancels, finishing, withdrawn, stopped, unsent>>

\* Cancel generation, under the lock
TakeCancel(p) ==
    /\ Taken(p, "cancel")
    /\ IF Valid(p)
       THEN /\ SetChat([chat EXCEPT !.cancel = p.q])
            /\ withdrawn' = withdrawn \union {p.q}
            /\ cancels' = cancels \union {[q |-> p.q, search |-> talk.pc = "searching"]}
       ELSE UNCHANGED <<chat, withdrawn, cancels>>
    /\ UNCHANGED <<memory, talk, cards, dialogs, finishing, stopped, unsent, chatEffort>>

\* mutant: Cancel stops what is running by now
StopCurrent(x) == {chat.current} \ {NoQuestion}

\* Cancel stops the search it found, or the question it was pressed for
StopOwn(x) == {x.q}

\* Discord has the acknowledgement.  A search that has ended cannot be cancelled, and the
\* gateway may not be reached.
CarryCancel(x) ==
    LET live == IF x.search THEN talk.pc = "searching" ELSE chat.phase \in {"queued", "model"} IN
    /\ x \in cancels /\ cancels' = cancels \ {x}
    /\ \/ live /\ stopped' = stopped \union StopOwn(x) /\ NoChatFault
       \/ ~live /\ UNCHANGED stopped /\ NoChatFault
       \/ live /\ ~x.search /\ UNCHANGED stopped /\ ChatFault
    /\ UNCHANGED <<chat, memory, talk, cards, presses, dialogs, finishing, withdrawn, unsent>>

\* Finish sooner, under the lock
TakeFinish(p) ==
    /\ Taken(p, "finish")
    /\ finishing' = IF Valid(p) /\ chat.phase = "model" /\ chat.finish # p.q
                    THEN finishing \union {p.q} ELSE finishing
    /\ UNCHANGED <<chat, memory, talk, cards, dialogs, cancels, withdrawn, stopped, unsent, chatEffort>>

\* The gateway has it, or not; then the button is taken away.
CarryFinish(q) ==
    LET c == Rebuilt([chat EXCEPT !.finish = q]) IN
    /\ q \in finishing /\ finishing' = finishing \ {q}
    /\ \/ Current(q) /\ SetChat(c) /\ Edit(Drawn(c))
       \/ ~Current(q) /\ UNCHANGED <<chat, cards, chatEffort>>
       \/ ChatFault /\ UNCHANGED <<chat, cards>>
    /\ UNCHANGED <<memory, talk, presses, dialogs, cancels, withdrawn, stopped, unsent>>

\* on_timeout: ten minutes after the last turn.  Whatever runs is stopped.
CloseChat ==
    /\ chat.timer
    /\ SetChat(Rebuilt([chat EXCEPT !.closed = TRUE, !.current = NoQuestion, !.cancel = NoQuestion,
                                    !.timer = FALSE]))
    /\ memory' = <<>>
    /\ stopped' = stopped \union ({chat.current} \ {NoQuestion})
    /\ Edit([cards EXCEPT ![Here].controls = Unbound])
    /\ UNCHANGED <<talk, presses, dialogs, cancels, finishing, withdrawn, unsent>>

ChatNext ==
    \/ \E d \in dialogs : SendDialog(d)
    \/ OpenTurn \/ ReadPermissions \/ BeginSearch \/ EndSearch \/ AskModel
    \/ ShowProgress \/ EndInference \/ ShowAnswer \/ ShowError \/ EndTurn
    \/ PressChat \/ CloseChat
    \/ \E p \in presses : OpenDialog(p, "follow") \/ OpenDialog(p, "fresh") \/ TakeCancel(p) \/ TakeFinish(p)
    \/ \E x \in cancels : CarryCancel(x)
    \/ \E q \in finishing : CarryFinish(q)

ChatSpec == ChatInit /\ [][ChatNext]_chatVars

-----------------------------------------------------------------------------
(***************************************************************************)
(* Properties                                                              *)
(***************************************************************************)

\* Types of the variables.
ChatTypeOK ==
    /\ chat \in Chat
    /\ talk.q \in Questions /\ talk.context \in Seq(Questions) /\ talk.seen \in Seq(Questions)
    /\ memory \in Seq(Questions) /\ Len(memory) <= KeptTurns + 1
    /\ \A i \in DOMAIN cards : cards[i].question \in Asked
    /\ stopped \subseteq Questions /\ withdrawn \subseteq Questions
    /\ unsent \subseteq {"answer", "buttons"} \X Questions

\* A question is asked in the conversation that its member had before the eyes when
\* pressing the button, never in one that went on behind an open dialog; after New
\* topic it is asked in none.
ContextAsSeen ==
    /\ talk.context \in {<<>>, Kept(talk.seen)}
    /\ talk.fresh => talk.context = <<>>

\* The model is told, now or with the next question, only of answers that the
\* conversation shows, each of them its own question's.  The one exception is an answer
\* that Discord would not show: it is in the history before its edit is made.  No other
\* call that fails, at whatever message, makes the conversation and what the model is
\* told of it differ.
MemoryShown ==
    \A told \in {memory, talk.context} : \A i \in DOMAIN told :
        \/ \E j \in DOMAIN cards : cards[j].question = told[i] /\ cards[j].shows = "answer"
        \/ <<"answer", told[i]>> \in unsent

\* Between two questions the last message has the buttons of the present revision, so
\* that they are not refused as old ones, unless the very edit failed that ends a turn.
\* Whatever failed, the buttons of any other message are refused; and as long as nothing
\* has failed it has none.
ControlsUsable ==
    talk.pc = "over" /\ ~chat.closed =>
        \A j \in DOMAIN cards :
            IF j = Here THEN cards[j].controls = Bound(chat) \/ <<"buttons", talk.q>> \in unsent
            ELSE /\ cards[j].controls.revision < chat.revision
                 /\ chatEffort.faults = 0 => cards[j].controls = Unbound

\* Only a question whose own Cancel was pressed is stopped: no Cancel that comes late
\* stops the next one, and the idle timer stops none.
StoppedAsAsked == stopped \subseteq withdrawn

\* The invariant of a conversation, from its parts.
ConversationInv == ChatTypeOK /\ ContextAsSeen /\ MemoryShown /\ ControlsUsable /\ StoppedAsAsked

ShowsAnswer(q, messages) ==
    \E j \in DOMAIN messages : messages[j].question = q /\ messages[j].shows = "answer"

\* An answer that was shown stays, whatever is asked next and whichever message could
\* not be sent; and none appears once its question's Cancel was taken.
AnswersStand ==
    [][\A q \in Questions :
          /\ ShowsAnswer(q, cards) => ShowsAnswer(q, cards')
          /\ q \in withdrawn /\ ShowsAnswer(q, cards') => ShowsAnswer(q, cards)]_chatVars

=============================================================================
