------------------------------ MODULE MCCards ------------------------------
(***************************************************************************)
(* Instances for TLC of the cards that members and the owner press:        *)
(*   "lifecycle"  the expiry of any temporary card (TransientUI)           *)
(*   "search"     search and rating cards          (SearchCards)           *)
(*   "music"      music requests                   (MusicRequests)         *)
(*   "days"       music requests more than a day apart                     *)
(*   "talk"       a conversation with the model    (Conversation)          *)
(*   "life"       the owner's Life inbox           (LifeActions)           *)
(* They share no variable.  `focus` says which one a behaviour is about;   *)
(* the others rest in one initial state.                                   *)
(***************************************************************************)
EXTENDS TransientUI, SearchCards, MusicRequests, Conversation, LifeActions

\* every card is the only one of its own command
OwnBatch == CHOOSE f \in [Cards -> Batches] : \A c, d \in Cards : c # d => f[c] # f[d]

\* three pages of a provider, a title on two of them, and one ranked first
Results == <<<<1, 2>>, <<2, 3, 4>>, <<5>>>>
Ranks == [t \in 1..5 |-> IF t = 5 THEN 0 ELSE 1]

\* t2 is what a search for t1 also finds; m3 is asked in a direct message, m5 is of
\* another track and m2 of another member
TrackFor == [c \in MusicCards |-> CASE c = "m5" -> "t3" [] c = "m4" -> "t2" [] OTHER -> "t1"]
ScopeFor == [c \in MusicCards |-> IF c = "m3" THEN "dm" ELSE "guild"]
MemberFor == [c \in MusicCards |-> IF c = "m2" THEN "u2" ELSE "u1"]
SameQuery == {<<"t1", "t2">>, <<"t2", "t1">>}

-----------------------------------------------------------------------------
VARIABLE focus

cardsVars == <<vars, searchVars, musicVars, chatVars, lifeVars, focus>>

Given == {c \in MusicCards : mcard[c].command}

CardsFocus == {"lifecycle", "search", "music", "days", "talk", "life"}

Typed == {c \in Captures : thought[c].pc = "typed"}

\* Two music cards at a time; days pass over the pairs with m1 and those whose results are
\* clicked once.  The Life view is about tasks, about one capture, or about captures that
\* are still being typed.
AllInit ==
    /\ focus \in CardsFocus
    /\ Init
    /\ SearchInit /\ (focus # "search" => view.kind = "request")
    /\ MusicInit /\ library \subseteq {"t3"}
    /\ IF focus \in {"music", "days"}
       THEN Cardinality(Given) = 2 /\ (focus = "days" <=> "m1" \in Given \/ Given \cap Hasty = {})
       ELSE Given = {} /\ library = {}
    /\ ChatInit /\ (focus # "talk" => ~talk.web)
    /\ LifeInit
    /\ \/ /\ focus = "life" /\ life.mode = "captures"
          /\ Typed = Captures \/ (Typed = {} /\ life.selected # NoItem)
       \/ life.mode = "tasks" /\ Typed = {}

\* An hour is worth counting only while some row still blocks another request.
HoursCount == hour' # hour => \E i \in DOMAIN music : hour <= music[i].created + RecentHours

AllNext ==
    /\ UNCHANGED focus
    /\ \/ focus = "lifecycle" /\ Next
       \/ focus # "lifecycle" /\ UNCHANGED vars
    /\ \/ focus = "search" /\ SearchNext
       \/ focus # "search" /\ UNCHANGED searchVars
    /\ \/ focus = "music" /\ MusicNext /\ hour' = hour
       \/ focus = "days" /\ MusicNext /\ HoursCount
       \/ focus \notin {"music", "days"} /\ UNCHANGED musicVars
    /\ \/ focus = "talk" /\ ChatNext
       \/ focus # "talk" /\ UNCHANGED chatVars
    /\ \/ focus = "life" /\ LifeNext
       \/ focus # "life" /\ UNCHANGED lifeVars

AllSpec == AllInit /\ [][AllNext]_cardsVars

=============================================================================
