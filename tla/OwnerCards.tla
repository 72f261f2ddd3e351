----------------------------- MODULE OwnerCards -----------------------------
(***************************************************************************)
(* torrent_queue_watcher: every 45 seconds it lists the gateway's          *)
(* torrents, tells Home Assistant about a stage that needs the owner, and  *)
(* keeps one card per torrent in the owner's direct messages.  Its memory  *)
(* is two tables, written after the calls they are about; any error ends   *)
(* the cycle where it is, the torrents behind it included.                 *)
(*                                                                         *)
(* A torrent's stage, progress and reasons are one number that grows (the  *)
(* state_key); the stages told to Home Assistant are Notable.  A stage that *)
(* comes back is a new key here, as it is told again by the code.          *)
(***************************************************************************)
EXTENDS Naturals, FiniteSets

CONSTANTS
    Torrents,      \* 1..n, in the order of the gateway's list
    LastKey,       \* bound: the last state_key of a torrent
    Notable,       \* the keys whose stage is told to Home Assistant
    Places,        \* 1..n: the messages the watcher may ever send (bound)
    NoPlace,
    MaxCardFaults  \* bound: answers lost, calls failed, cards deleted, restarts

ASSUME OwnerCardsAssumption ==
    /\ IsFiniteSet(Torrents) /\ Torrents = 1..Cardinality(Torrents)
    /\ IsFiniteSet(Places) /\ Places = 1..Cardinality(Places)
    /\ {LastKey, MaxCardFaults} \subseteq Nat /\ Notable \subseteq 1..LastKey
    /\ NoPlace \notin Places

VARIABLES
    torrent,    \* the state_key of each torrent at the gateway, 0 before it is listed
    cardRow,    \* torrent_owner_cards
    toldRow,    \* home_download_notifications: the last stage told
    ownerCard,  \* the messages in the owner's DM
    told,       \* the notifications Home Assistant received
    sweep,      \* the watcher: where it is, its list, the torrent it is at
    cardFaults,
    unrecorded  \* sends whose outcome never reached the tables

cardVars == <<torrent, cardRow, toldRow, ownerCard, told, sweep, cardFaults, unrecorded>>

-----------------------------------------------------------------------------
Keys0 == 0..LastKey
NoCardRow == [key |-> 0, at |-> NoPlace]
NoMessage == [of |-> 0, key |-> 0, up |-> FALSE, live |-> FALSE]
SweepPcs == {"idle", "item", "home", "fetch", "edit", "send"}
Resting == [pc |-> "idle", list |-> [t \in Torrents |-> 0], cur |-> 0]

CardsTypeOK ==
    /\ torrent \in [Torrents -> Keys0]
    /\ cardRow \in [Torrents -> [key : Keys0, at : Places \union {NoPlace}]]
    /\ toldRow \in [Torrents -> Keys0]
    /\ ownerCard \in [Places -> [of : Torrents \union {0}, key : Keys0,
                                 up : BOOLEAN, live : BOOLEAN]]
    /\ told \in [Torrents \X Notable -> Nat]
    /\ sweep \in [pc : SweepPcs, list : [Torrents -> Keys0], cur : Torrents \union {0}]
    /\ cardFaults \in 0..MaxCardFaults
    /\ unrecorded \in [cards : [Torrents -> Nat], told : [Torrents -> Nat]]

CardsInit ==
    /\ torrent = [t \in Torrents |-> 0]
    /\ cardRow = [t \in Torrents |-> NoCardRow]
    /\ toldRow = [t \in Torrents |-> 0]
    /\ ownerCard = [p \in Places |-> NoMessage]
    /\ told = [n \in Torrents \X Notable |-> 0]
    /\ sweep = Resting
    /\ cardFaults = 0
    /\ unrecorded = [cards |-> [t \in Torrents |-> 0], told |-> [t \in Torrents |-> 0]]

Cur == sweep.cur
Key == sweep.list[Cur]
Mishap == cardFaults < MaxCardFaults /\ cardFaults' = cardFaults + 1
Smooth == UNCHANGED cardFaults
Step(pc) == sweep' = [sweep EXCEPT !.pc = pc]
Abort == sweep' = Resting

\* The next torrent of the list, or the end of the cycle.
Proceed ==
    LET rest == {t \in Torrents : t > Cur /\ sweep.list[t] > 0}
    IN IF rest = {} THEN Abort
       ELSE sweep' = [sweep EXCEPT !.pc = "item",
                          !.cur = CHOOSE t \in rest : \A u \in rest : t <= u]

-----------------------------------------------------------------------------
\* The gateway's downloads move on; one that was never listed appears.
Advance(t) ==
    /\ torrent[t] < LastKey
    /\ torrent' = [torrent EXCEPT ![t] = @ + 1]
    /\ UNCHANGED <<cardRow, toldRow, ownerCard, told, sweep, cardFaults, unrecorded>>

\* review_request("list"); the owner is fetched; the first torrent is next.
ListTorrents ==
    /\ sweep.pc = "idle"
    /\ LET listed == {t \in Torrents : torrent[t] > 0}
       IN /\ listed # {}
          /\ sweep' = [pc |-> "item", list |-> torrent,
                       cur |-> CHOOSE t \in listed : \A u \in listed : t <= u]
    /\ UNCHANGED <<torrent, cardRow, toldRow, ownerCard, told, cardFaults, unrecorded>>

\* Which stage was told last, and where the stored card is.
Untold == Key \in Notable /\ toldRow[Cur] # Key
CardStep == IF cardRow[Cur].at = NoPlace THEN "send" ELSE "fetch"

Consider ==
    /\ sweep.pc = "item"
    /\ IF Untold THEN Step("home")
       ELSE IF cardRow[Cur].key = Key THEN Proceed
       ELSE Step(CardStep)
    /\ UNCHANGED <<torrent, cardRow, toldRow, ownerCard, told, cardFaults, unrecorded>>

\* mutant: the stage is noted although nobody confirmed it
NotedAnyway(ok) == TRUE

\* sent is true only for a 200
Noted(ok) == ok

\* notify_home, and the INSERT behind it; an error is logged and the card follows.
NotifyHome ==
    /\ sweep.pc = "home"
    /\ \E arrives \in BOOLEAN, ok \in BOOLEAN :
          /\ ok => arrives
          /\ IF ok THEN Smooth ELSE Mishap
          /\ told' = [told EXCEPT ![<<Cur, Key>>] = @ + (IF arrives THEN 1 ELSE 0)]
          /\ toldRow' = [toldRow EXCEPT ![Cur] = IF Noted(ok) THEN Key ELSE @]
          /\ unrecorded' = [unrecorded EXCEPT !.told[Cur] = @ + (IF ok THEN 0 ELSE 1)]
    /\ IF cardRow[Cur].key = Key THEN Proceed ELSE Step(CardStep)
    /\ UNCHANGED <<torrent, cardRow, ownerCard>>

-----------------------------------------------------------------------------
\* mutant: whatever the error, a new card is sent
MissingOrFailed(error) == error # "none"

\* except discord.NotFound: pass; any other error ends the cycle
MissingCard(error) == error = "NotFound"

FetchCardMessage ==
    /\ sweep.pc = "fetch"
    /\ \E error \in {"none", "NotFound", "other"} :
          /\ IF error = "other" THEN Mishap
             ELSE Smooth /\ ((error = "none") <=> ownerCard[cardRow[Cur].at].up)
          /\ IF error = "none" THEN Step("edit")
             ELSE IF MissingCard(error) THEN Step("send")
             ELSE Abort
    /\ UNCHANGED <<torrent, cardRow, toldRow, ownerCard, told, unrecorded>>

Saved(t, p) == [cardRow EXCEPT ![t] = [key |-> Key, at |-> p]]

\* mutant: the row is written before the card is edited
RowFirst(edited) == TRUE

\* the INSERT follows the edit
RowWhen(edited) == edited

\* old.edit, and the row once it has answered
EditOwnerCard ==
    /\ sweep.pc = "edit"
    /\ LET p == cardRow[Cur].at
           done == [ownerCard EXCEPT ![p] = [@ EXCEPT !.key = Key, !.live = TRUE]]
           unanswered == [ownerCard EXCEPT ![p] = [@ EXCEPT !.key = Key]]
       IN \/ Smooth /\ ownerCard[p].up
             /\ ownerCard' = done /\ cardRow' = Saved(Cur, p) /\ Proceed
          \/ Smooth /\ ~ownerCard[p].up /\ Step("send") /\ UNCHANGED <<ownerCard, cardRow>>
          \/ /\ Mishap /\ Abort
             /\ ownerCard' \in {ownerCard, IF ownerCard[p].up THEN unanswered ELSE ownerCard}
             /\ cardRow' = IF RowWhen(FALSE) THEN Saved(Cur, p) ELSE cardRow
    /\ UNCHANGED <<torrent, toldRow, told, unrecorded>>

\* channel.send, and the row once it has answered; the process may stop, or the
\* write fail, between the two.
FreshPlace == CHOOSE p \in Places : ownerCard[p].of = 0 /\ \A q \in 1..(p - 1) : ownerCard[q].of # 0

SendOwnerCard ==
    /\ sweep.pc = "send"
    /\ \E p \in Places : ownerCard[p].of = 0
    /\ LET sent(live) == [ownerCard EXCEPT ![FreshPlace] =
                            [of |-> Cur, key |-> Key, up |-> TRUE, live |-> live]]
       IN \/ Smooth /\ ownerCard' = sent(TRUE) /\ cardRow' = Saved(Cur, FreshPlace) /\ Proceed
             /\ UNCHANGED unrecorded
          \/ /\ Mishap /\ Abort
             /\ \E live \in BOOLEAN : ownerCard' \in {ownerCard, sent(live)}
             /\ unrecorded' = [unrecorded EXCEPT !.cards[Cur] = @ + 1]
             /\ UNCHANGED cardRow
    /\ UNCHANGED <<torrent, toldRow, told>>

-----------------------------------------------------------------------------
\* The owner deletes a card.
OwnerDeletes(p) ==
    /\ ownerCard[p].up /\ Mishap
    /\ ownerCard' = [ownerCard EXCEPT ![p].up = FALSE]
    /\ UNCHANGED <<torrent, cardRow, toldRow, told, sweep, unrecorded>>

\* mutant: only the card of one torrent is restored
RestoredFirst(p) == cardRow[1].at = p

\* on_ready: add_view for every row of torrent_owner_cards
Restored(p) == \E t \in Torrents : cardRow[t].at = p

\* A stop between two calls; one in the middle of a call is that call's Mishap.
CardsRestart ==
    /\ Mishap /\ Abort
    /\ ownerCard' = [p \in Places |-> [ownerCard[p] EXCEPT !.live = Restored(p)]]
    /\ UNCHANGED <<torrent, cardRow, toldRow, told, unrecorded>>

CardsNext ==
    \/ \E t \in Torrents : Advance(t)
    \/ ListTorrents \/ Consider \/ NotifyHome \/ FetchCardMessage \/ EditOwnerCard \/ SendOwnerCard
    \/ \E p \in Places : OwnerDeletes(p)
    \/ CardsRestart

CardsSpec == CardsInit /\ [][CardsNext]_cardVars

-----------------------------------------------------------------------------
OwnerCardsOf(t) == {p \in Places : ownerCard[p].of = t /\ ownerCard[p].up}

\* A row never claims more than its card shows: whatever failed on the way, a
\* card that is behind is found and redrawn by a later cycle.
RowsNeverAhead ==
    \A t \in Torrents : LET r == cardRow[t] IN
        /\ r.key <= torrent[t]
        /\ r.at # NoPlace /\ ownerCard[r.at].up => ownerCard[r.at].key >= r.key

\* The owner has one card per torrent, plus one for each send whose message id
\* never reached the row.
OneCardEach == \A t \in Torrents : Cardinality(OwnerCardsOf(t)) <= 1 + unrecorded.cards[t]

\* The card a row names answers its button, whatever was lost and restarted.
StoredCardAnswers ==
    \A t \in Torrents : LET p == cardRow[t].at IN
        p # NoPlace /\ ownerCard[p].up => ownerCard[p].live

\* A stage is told once, and again only after an unconfirmed notification; a
\* stage noted as told was told.
ToldOnce ==
    \A t \in Torrents :
        /\ \A k \in Notable : told[<<t, k>>] <= 1 + unrecorded.told[t]
        /\ toldRow[t] # 0 => told[<<t, toldRow[t]>>] > 0

\* The invariant of the owner's cards, from its parts: no row ahead of its card, no card
\* or notification twice but for lost answers, and buttons that answer.
OwnerCardsInv == CardsTypeOK /\ RowsNeverAhead /\ OneCardEach /\ StoredCardAnswers /\ ToldOnce

=============================================================================
