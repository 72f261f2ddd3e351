---------------------------- MODULE SearchCards ----------------------------
(***************************************************************************)
(* A card of search results: SearchResultsView, whose result is requested, *)
(* or RatingSearchView, whose result is rated, with the actions that the   *)
(* rating of a title outside the library leaves on the card.               *)
(*                                                                         *)
(* One card: cards share nothing but the saved rating of a title.  Its     *)
(* callbacks run as tasks; action_lock is held while pc is not "free".     *)
(***************************************************************************)
EXTENDS Naturals, FiniteSets, Sequences, SequencesExt

CONSTANTS
    ProviderPages,  \* Seerr's pages: a sequence of sequences of titles
    Rank,           \* how well a title answers the query: 0 is best
    PageSize,       \* RESULTS_PER_PAGE
    NoTitle,
    MaxClicks,      \* bound: presses of the card's buttons
    MaxSearchFaults \* bound: calls that fail

SearchTitles == UNION {ToSet(ProviderPages[i]) : i \in DOMAIN ProviderPages}

ASSUME SearchAssumption ==
    /\ ProviderPages \in Seq(Seq(SearchTitles)) /\ ProviderPages # <<>> /\ ProviderPages[1] # <<>>
    /\ Rank \in [SearchTitles -> Nat] /\ NoTitle \notin SearchTitles
    /\ PageSize \in Nat \ {0} /\ MaxClicks \in Nat /\ MaxSearchFaults \in Nat

VARIABLES
    view,         \* the view and what its message shows
    clicks,       \* presses that have not been taken up
    pressed,      \* how many there were
    rated,        \* media_ratings of the member: the titles, local or synced
    aside,        \* the $rate command and the request card of a rating
    searchFaults

searchVars == <<view, clicks, pressed, rated, aside, searchFaults>>

-----------------------------------------------------------------------------
Kinds == {"request", "rating"}
PCs == {"free", "loading", "opening", "confirming", "preparing", "saving"}
Faces == {"page", "handled", "selected", "saved", "actions", "synced", "local", "requested", "gone"}

\* prioritize_search_results, a stable sort: the item at i comes before the one at j
Sooner(items, i, j) == \/ Rank[items[i]] < Rank[items[j]]
                       \/ Rank[items[i]] = Rank[items[j]] /\ i < j

\* the items at some places, in their order
Prioritized(items, places) ==
    [k \in 1..Cardinality(places) |->
        items[CHOOSE j \in places : Cardinality({i \in places : Sooner(items, i, j)}) = k - 1]]

\* mutant: what was seen before is found again
AppendedAll(results, items) == Prioritized(results \o items, DOMAIN (results \o items))

\* _append_results drops what was seen before
Appended(results, items) ==
    LET found == results \o items IN
    Prioritized(found, {i \in DOMAIN found : \A j \in 1..(i - 1) : found[j] # found[i]})

PageOf(results, page) ==
    SubSeq(results, page * PageSize + 1,
           IF Len(results) < (page + 1) * PageSize THEN Len(results) ELSE (page + 1) * PageSize)

HasNext(c) == (c.page + 1) * PageSize < Len(c.results) \/ c.fetched < Len(ProviderPages)

\* the message as refresh_controls and build_embed make it
Paged(c) == [c EXCEPT !.shows = "page", !.enabled = TRUE, !.at = c.page,
                      !.items = PageOf(c.results, c.page), !.more = HasNext(c)]

SearchInit ==
    /\ \E kind \in Kinds :
          view = Paged([kind |-> kind, results |-> Appended(<<>>, ProviderPages[1]), fetched |-> 1,
                        page |-> 0, busy |-> FALSE, over |-> FALSE, pc |-> "free",
                        picked |-> NoTitle, seen |-> NoTitle, saves |-> 0, reordered |-> FALSE, acts |-> "none",
                        shows |-> "page", enabled |-> TRUE, at |-> 0, items |-> <<>>, more |-> TRUE])
    /\ clicks = {} /\ pressed = 0
    /\ rated = [t \in SearchTitles |-> "none"]
    /\ aside = [command |-> TRUE, request |-> "none"]
    /\ searchFaults = 0

CallFails == searchFaults < MaxSearchFaults /\ searchFaults' = searchFaults + 1
CallWorks == UNCHANGED searchFaults

\* The message is edited, or the edit fails and it stays as it was.
Edited(c, new) == \/ CallWorks /\ view' = new
                  \/ CallFails /\ view' = [new EXCEPT !.shows = c.shows, !.enabled = c.enabled,
                                                      !.at = c.at, !.items = c.items, !.more = c.more]

-----------------------------------------------------------------------------
(***************************************************************************)
(* The buttons.  A click carries the page and slot of its custom id, and,  *)
(* for the properties, the title its member saw there.                     *)
(***************************************************************************)
Press ==
    /\ view.shows = "page" /\ view.enabled /\ pressed < MaxClicks
    /\ \/ \E slot \in DOMAIN view.items :
             clicks' = clicks \union {[n |-> pressed, kind |-> "pick", page |-> view.at,
                                       slot |-> slot, seen |-> view.items[slot], waits |-> FALSE]}
       \/ \E kind \in (IF view.at > 0 THEN {"previous"} ELSE {})
                      \union (IF view.more THEN {"next"} ELSE {}) \union {"cancel"} :
             clicks' = clicks \union {[n |-> pressed, kind |-> kind, page |-> view.at,
                                       slot |-> 0, seen |-> NoTitle, waits |-> FALSE]}
    /\ pressed' = pressed + 1
    /\ UNCHANGED <<view, rated, aside, searchFaults>>

\* The click is dispatched, unless the view has been stopped, and waits for the lock.
Arrive(click) ==
    /\ ~view.over /\ ~click.waits
    /\ clicks' = (clicks \ {click}) \union {[click EXCEPT !.waits = TRUE]}
    /\ UNCHANGED <<view, pressed, rated, aside, searchFaults>>

\* The callback that gets the lock takes its click up, and nobody asks whether the view
\* was stopped meanwhile.
Take(click) ==
    /\ view.pc = "free" /\ click.waits
    /\ clicks' = clicks \ {click} /\ UNCHANGED pressed

PreviousPage(click) ==
    /\ Take(click) /\ click.kind = "previous"
    /\ IF view.page = 0 THEN UNCHANGED <<view, searchFaults>>
       ELSE Edited(view, Paged([view EXCEPT !.page = @ - 1]))
    /\ UNCHANGED <<rated, aside>>

NextPage(click) ==
    /\ Take(click) /\ click.kind = "next"
    /\ view' = [view EXCEPT !.pc = "loading"]
    /\ UNCHANGED <<rated, aside, searchFaults>>

Enough == Len(view.results) >= (view.page + 2) * PageSize \/ view.fetched = Len(ProviderPages)

\* ensure_loaded asks Seerr for one page after the other; the number of a page that
\* fails is spent, and what was appended before it stays.
FetchPage ==
    /\ view.pc = "loading" /\ ~Enough
    /\ \/ /\ CallWorks
          /\ LET found == Appended(view.results, ProviderPages[view.fetched + 1]) IN
             view' = [view EXCEPT !.fetched = @ + 1, !.results = found,
                                  !.reordered = @ \/ ~IsPrefix(view.results, found)]
       \/ CallFails /\ view' = [view EXCEPT !.fetched = @ + 1, !.pc = "free"]
    /\ UNCHANGED <<clicks, pressed, rated, aside>>

\* the next page, or this one again when there are no more results
Turned(c) ==
    LET there == (c.page + 1) * PageSize < Len(c.results) IN
    Paged([c EXCEPT !.pc = "free", !.page = IF there THEN @ + 1 ELSE @])

TurnPage ==
    /\ view.pc = "loading" /\ Enough
    /\ Edited(view, Turned(view))
    /\ UNCHANGED <<clicks, pressed, rated, aside>>

MayClose(c) == ~c.over /\ ~c.busy

\* Cancel and the timeout: cleanup_unsuccessful_request deletes the card and
\* the command.
CancelSearch(click) ==
    /\ Take(click) /\ click.kind = "cancel"
    /\ IF MayClose(view) THEN /\ view' = [view EXCEPT !.busy = TRUE, !.over = TRUE, !.shows = "gone"]
                              /\ aside' = [aside EXCEPT !.command = FALSE]
       ELSE UNCHANGED <<view, aside>>
    /\ UNCHANGED <<rated, searchFaults>>

ExpireSearch ==
    /\ view.pc = "free" /\ MayClose(view)
    /\ view' = [view EXCEPT !.over = TRUE, !.shows = "gone"]
    /\ aside' = [aside EXCEPT !.command = FALSE]
    /\ UNCHANGED <<clicks, pressed, rated, searchFaults>>

-----------------------------------------------------------------------------
(***************************************************************************)
(* A result is chosen.                                                     *)
(***************************************************************************)

\* mutant: only the slot is compared
SameSlot(click) == TRUE

\* SearchResultButton.callback: the button belongs to the page the view is at
SamePage(click) == click.page = view.page

Picked(click, pc) == [view EXCEPT !.busy = TRUE, !.pc = pc, !.seen = click.seen,
                                  !.picked = PageOf(view.results, view.page)[click.slot]]

\* A click that comes to nothing
RejectPick(click) ==
    /\ Take(click) /\ click.kind = "pick"
    /\ \/ ~SamePage(click) \/ view.busy \/ view.over
       \/ click.slot > Len(PageOf(view.results, view.page))
    /\ UNCHANGED <<view, rated, aside, searchFaults>>

\* _select_slot_once, up to the details of the title
OpenResult(click) ==
    /\ Take(click) /\ click.kind = "pick" /\ view.kind = "request"
    /\ SamePage(click) /\ ~view.over /\ ~view.busy
    /\ click.slot \in DOMAIN PageOf(view.results, view.page)
    /\ view' = Picked(click, "opening")
    /\ UNCHANGED <<rated, aside, searchFaults>>

\* mutant: select_slot does not give a failed selection back
StillSelecting(c) == Paged([c EXCEPT !.pc = "free"])

\* select_slot keeps the card open when a selection fails
Retryable(c) == Paged([c EXCEPT !.pc = "free", !.busy = FALSE])

\* Seerr's details: the title is handled already and the card ends, the member is not
\* linked, or the selection waits for its confirmation card; a call may fail.
ShowSelection ==
    /\ view.pc = "opening"
    /\ \/ Edited(view, [view EXCEPT !.pc = "free", !.over = TRUE, !.shows = "handled"])
       \/ CallWorks /\ view' = [view EXCEPT !.pc = "free", !.busy = FALSE]
       \/ CallWorks /\ view' = [view EXCEPT !.pc = "confirming", !.shows = "selected"]
       \/ CallFails /\ view' = Retryable(view)
    /\ UNCHANGED <<clicks, pressed, rated, aside>>

SendConfirmation ==
    /\ view.pc = "confirming"
    /\ \/ CallWorks /\ view' = [view EXCEPT !.pc = "free", !.over = TRUE]
       \/ CallFails /\ view' = Retryable(view)
    /\ UNCHANGED <<clicks, pressed, rated, aside>>

\* RatingSearchView.select_slot, up to apply_selected_rating
RateResult(click) ==
    /\ Take(click) /\ click.kind = "pick" /\ view.kind = "rating"
    /\ SamePage(click) /\ ~view.busy
    /\ click.slot \in DOMAIN PageOf(view.results, view.page)
    /\ view' = Picked(click, "preparing")
    /\ UNCHANGED <<rated, aside, searchFaults>>

\* The buttons are taken off; should that fail, the view stays taken.
PrepareRating ==
    /\ view.pc = "preparing"
    /\ \/ CallWorks /\ view' = [view EXCEPT !.pc = "saving", !.enabled = FALSE]
       \/ CallFails /\ view' = [view EXCEPT !.pc = "free"]
    /\ UNCHANGED <<clicks, pressed, rated, aside>>

\* mutant: the view is given back once its rating is saved
GivenBack(c, face) == [c EXCEPT !.pc = "free", !.over = TRUE, !.busy = FALSE, !.saves = @ + 1,
                                !.shows = face]

RatingShown(c, face) == [c EXCEPT !.pc = "free", !.over = TRUE, !.saves = @ + 1, !.shows = face,
                                  !.acts = IF face = "actions" THEN "idle" ELSE "none"]

\* apply_selected_rating: details, library and Trakt are asked before the rating is saved,
\* and a failure up to there gives the card back; what fails after it changes nothing.
SaveRating ==
    /\ view.pc = "saving"
    /\ \/ \E how \in {"local", "synced"}, face \in {"saved", "actions"} :
             /\ face = "actions" => how = "local"
             /\ rated' = [rated EXCEPT ![view.picked] = how]
             /\ Edited(view, RatingShown(view, face))
       \/ CallFails /\ view' = Retryable(view) /\ UNCHANGED rated
    /\ UNCHANGED <<clicks, pressed, aside>>

-----------------------------------------------------------------------------
(***************************************************************************)
(* The actions of a saved rating: UnavailableRatingView, whose `acts` is   *)
(* submitting and finished.  A page button pressed before the rating was   *)
(* saved may have put the search page over them.                           *)
(***************************************************************************)
Act(to) == view.acts = "idle" /\ view.shows = "actions" /\ view' = [view EXCEPT !.acts = to]

BeginAct ==
    /\ \E to \in {"syncing", "requesting"} : Act(to)
    /\ UNCHANGED <<clicks, pressed, rated, aside, searchFaults>>

\* Done(face): the view is over and its message shows the outcome.
Done(face) == Edited(view, [view EXCEPT !.acts = "over", !.shows = face])

\* sync_to_trakt: the profile is looked up and Trakt asked; only then is the rating saved
\* as synced.
SyncToTrakt ==
    /\ view.acts = "syncing"
    /\ \/ rated' = [rated EXCEPT ![view.picked] = "synced"] /\ Done("synced")
       \/ CallFails /\ view' = [view EXCEPT !.acts = "idle"] /\ UNCHANGED rated
    /\ UNCHANGED <<clicks, pressed, aside>>

\* mutant: the request card is given the command of the rating
RequestOwnsCommand(a) == [command |-> FALSE, request |-> "gone"]

\* the request card of a rating when it is cancelled: it has no command_message
RequestGone(a) == [a EXCEPT !.request = "gone"]

\* request_media: the request card is posted and its confirmation sent.  Nothing to
\* request, or a card that cannot be posted, gives the actions back; a confirmation that
\* cannot be sent leaves them taken.
RequestMedia ==
    /\ view.acts = "requesting"
    /\ \/ aside' = [aside EXCEPT !.request = "open"] /\ Done("requested")
       \/ CallWorks /\ view' = [view EXCEPT !.acts = "idle"] /\ UNCHANGED aside
       \/ CallFails /\ view' = [view EXCEPT !.acts = "idle"] /\ UNCHANGED aside
       \/ /\ CallFails /\ aside' = [aside EXCEPT !.request = "open"]
          /\ view' = [view EXCEPT !.acts = "stuck"]
    /\ UNCHANGED <<clicks, pressed, rated>>

CancelRequestCard ==
    /\ aside.request = "open"
    /\ aside' = RequestGone(aside)
    /\ UNCHANGED <<view, clicks, pressed, rated, searchFaults>>

\* keep_local, and the timeout of the actions
KeepLocal ==
    /\ view.acts = "idle" /\ Done("local")
    /\ UNCHANGED <<clicks, pressed, rated, aside>>

DismissRating ==
    /\ Act("dismissed")
    /\ rated' = [rated EXCEPT ![view.picked] = "none"]
    /\ UNCHANGED <<clicks, pressed, aside, searchFaults>>

\* then its card and its command are deleted
DismissedGone ==
    /\ view.acts = "dismissed" /\ view.shows = "actions"
    /\ view' = [view EXCEPT !.shows = "gone"]
    /\ aside' = [aside EXCEPT !.command = FALSE]
    /\ UNCHANGED <<clicks, pressed, rated, searchFaults>>

-----------------------------------------------------------------------------
SearchNext ==
    \/ Press
    \/ \E click \in clicks :
          \/ Arrive(click) \/ PreviousPage(click) \/ NextPage(click) \/ CancelSearch(click)
          \/ RejectPick(click) \/ OpenResult(click) \/ RateResult(click)
    \/ FetchPage \/ TurnPage \/ ExpireSearch
    \/ ShowSelection \/ SendConfirmation \/ PrepareRating \/ SaveRating
    \/ BeginAct \/ SyncToTrakt \/ RequestMedia \/ CancelRequestCard
    \/ KeepLocal \/ DismissRating \/ DismissedGone

SearchSpec == SearchInit /\ [][SearchNext]_searchVars

-----------------------------------------------------------------------------
(***************************************************************************)
(* Properties                                                              *)
(***************************************************************************)

\* Types of the variables.
SearchTypeOK ==
    /\ view.pc \in PCs /\ view.shows \in Faces /\ view.kind \in Kinds
    /\ ToSet(view.results) \subseteq SearchTitles /\ IsInjective(view.results)
    /\ view.fetched \in DOMAIN ProviderPages /\ view.page \in Nat
    /\ view.picked \in SearchTitles \union {NoTitle}
    /\ rated \in [SearchTitles -> {"none", "local", "synced"}]

\* The title that is opened or rated is the one its member saw under the button, although
\* the page may have turned before the click got the lock.  The code promises it as long
\* as what Seerr found later did not push the results that were shown to other slots.
PickIsShown == view.picked # NoTitle /\ ~view.reordered => view.picked = view.seen

\* However many buttons are pressed while a rating is saved, a card rates one title.
OneRatingPerCard ==
    /\ view.saves <= 1
    /\ \A t \in SearchTitles : rated[t] # "none" => t = view.picked

\* A request search that waits for a click can be used: no failed call leaves it taken.
RequestRetryable ==
    view.kind = "request" /\ view.pc = "free" /\ ~view.over => ~view.busy

\* A saved rating goes only when its member dismisses it, and so do the command and the
\* card that tell of it: not even cancelling a request opened from it takes them.
ReceiptKept ==
    [][view.saves > 0 /\ ~(view.acts = "dismissed" \/ view'.acts = "dismissed") =>
          /\ \A t \in SearchTitles : rated[t] # "none" => rated'[t] # "none"
          /\ aside.command => aside'.command
          /\ view'.shows = "gone" => view.shows = "gone"]_searchVars

\* The invariant of a search or rating card, from its parts.
SearchInv == SearchTypeOK /\ PickIsShown /\ OneRatingPerCard /\ RequestRetryable

=============================================================================
