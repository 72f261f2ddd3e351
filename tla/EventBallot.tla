----------------------------- MODULE EventBallot -----------------------------
(***************************************************************************)
(* The ballot of an event: nominations, votes for titles, candidate times, *)
(* availability, and the preview from which an administrator publishes the *)
(* schedule.                                                               *)
(*                                                                         *)
(* Every card and preview is a copy that goes stale while others vote.     *)
(* Transactions are atomic; between them a member clicks what Discord      *)
(* still shows, and an administrator confirms what was previewed.          *)
(***************************************************************************)
EXTENDS EventSchedule, Sequences

CONSTANTS
    Titles,       \* media that can be nominated
    Users,        \* members who vote
    Admins,       \* administrators with a preview open
    VoteLimit,    \* events.vote_limit
    PresetTimes,  \* rules.slot_times_utc of a preset, or <<>>
    SlotCounts,   \* bound: dates typed for one schedule
    AddCounts,    \* bound: candidate times added at once
    MaxOptions,   \* bound: candidate rows ever made
    None

ASSUME BallotAssumption ==
    /\ None \notin Titles
    /\ IsFiniteSet(Titles) /\ IsFiniteSet(Users)
    /\ VoteLimit \in Nat \ {0} /\ MaxOptions \in Nat
    /\ SlotCounts \subseteq Nat \ {0} /\ AddCounts \subseteq Nat \ {0}
    /\ PresetTimes \in Seq(Nat \ {0})
    /\ \A i, j \in DOMAIN PresetTimes : PresetTimes[i] = PresetTimes[j] => i = j

VARIABLES
    ballot,   \* event_nominations, event_votes, event_time_options, event_time_votes
    offered,  \* the last time_option_id that was handed out
    votecard, \* EventVoteView, and what Discord shows of it
    timecard, \* the times that an EventTimeVoteView shows
    preview,  \* EventScheduleTimeTieView, EventScheduleView
    lineup    \* the titles of the frozen slots, in the order of their ids

cards == <<votecard, timecard, preview>>
vars == <<event, slot, made, now, ballot, offered, votecard, timecard, preview, lineup>>

-----------------------------------------------------------------------------
OptionIds == 1..MaxOptions
NoOption == 0

\* line: the nominations in their order.  option: the time of a candidate's row.
BallotRow == [line : Seq(Titles), choice : [Users -> SUBSET Titles],
              option : [OptionIds -> Nat], avail : [Users -> SUBSET OptionIds]]

\* rank is the list the view goes by, shown the one on the screen; a click names
\* the position and the title of its button
Click == [at : Nat, title : Titles \union {None}]
NoClick == [at |-> 0, title |-> None]
VoteCard == [event : Events \union {NoEvent}, rank : Seq(Titles), shown : Seq(Titles),
             click : Click, editing : BOOLEAN]
NoVoteCard == [event |-> NoEvent, rank |-> <<>>, shown |-> <<>>, click |-> NoClick,
               editing |-> FALSE]

TimeCard == [event : Events \union {NoEvent}, shows : [OptionIds -> Nat]]
NoTimeCard == [event |-> NoEvent, shows |-> [o \in OptionIds |-> NoOption]]

\* how: the winner of the vote, one chosen among equals, typed dates, a preset
Preview == [pc : {"none", "tie", "plan"}, event : Events \union {NoEvent}, revision : Nat,
            ties : SUBSET Nat, at : Seq(Nat), titles : Seq(Titles \union {None}),
            how : {"voted", "chosen", "typed", "preset"}]
NoPreview == [pc |-> "none", event |-> NoEvent, revision |-> 0, ties |-> {},
              at |-> <<>>, titles |-> <<>>, how |-> "voted"]

EmptyBallot == [line |-> <<>>, choice |-> [u \in Users |-> {}],
                option |-> [o \in OptionIds |-> NoOption],
                avail |-> [u \in Users |-> {}]]

Init ==
    /\ ScheduleInit
    /\ ballot = [e \in Events |-> EmptyBallot]
    /\ offered = 0
    /\ votecard = [u \in Users |-> NoVoteCard]
    /\ timecard = [u \in Users |-> NoTimeCard]
    /\ preview = [a \in Admins |-> NoPreview]
    /\ lineup = [e \in Events |-> <<>>]

-----------------------------------------------------------------------------
(***************************************************************************)
(* The rankings.                                                           *)
(***************************************************************************)

Nominated(b) == {b.line[i] : i \in DOMAIN b.line}
Votes(b, t) == Cardinality({u \in Users : t \in b.choice[u]})

\* the nomination at i comes before the one at j
Ahead(b, i, j) == \/ Votes(b, b.line[i]) > Votes(b, b.line[j])
                  \/ Votes(b, b.line[i]) = Votes(b, b.line[j]) /\ i < j

\* ranking_rows: by votes, and among equals in the order of nomination
Ranking(b) ==
    [k \in DOMAIN b.line |->
        b.line[CHOOSE j \in DOMAIN b.line :
                  Cardinality({i \in DOMAIN b.line : Ahead(b, i, j)}) = k - 1]]

\* what the first n slots show: slots without a title are to be determined
Top(b, n) == [k \in 1..n |-> IF k \in DOMAIN b.line THEN Ranking(b)[k] ELSE None]

Candidates(b) == {o \in OptionIds : b.option[o] # NoOption}
Available(b, o) == Cardinality({u \in Users : o \in b.avail[u]})

\* future_time_options, and those of them with the most votes
Future(b, t) == {o \in Candidates(b) : b.option[o] > t}
Best(b, t) == {o \in Future(b, t) : \A p \in Future(b, t) : Available(b, p) <= Available(b, o)}
BestTimes(b, t) == {b.option[o] : o \in Best(b, t)}

-----------------------------------------------------------------------------
(***************************************************************************)
(* Transactions on the ballot: each change of an open event's ballot       *)
(* advances the event's revision.                                          *)
(***************************************************************************)

Revised(e) == event' = [event EXCEPT ![e].revision = @ + 1]

\* what a transaction makes of the ballot of e, or that it changes nothing
Store(e, b) ==
    /\ e \in Open
    /\ CanChange(e)
    /\ ballot' = [ballot EXCEPT ![e] = b]
    /\ IF b = ballot[e] THEN UNCHANGED event ELSE Revised(e)

\* mutant: availability is saved without a new revision
StoreQuietly(e, b) == e \in Open /\ ballot' = [ballot EXCEPT ![e] = b] /\ UNCHANGED event

\* replace_time_votes
StoreTimes(e, b) == Store(e, b)

\* add_nomination, which leaves a title that is there alone
AddNomination(e, t) ==
    /\ t \notin Nominated(ballot[e])
    /\ Store(e, [ballot[e] EXCEPT !.line = Append(@, t)])

\* mutant: one vote too many
FullLate(c) == Cardinality(c) > VoteLimit

Full(c) == Cardinality(c) >= VoteLimit

\* toggle_vote: a vote that is taken back, given, or moved when there is only one
Refused(c, t) == t \notin c /\ Full(c) /\ VoteLimit > 1
Toggled(c, t) == IF t \in c THEN c \ {t} ELSE IF Full(c) THEN {t} ELSE c \union {t}
ToggleVote(e, u, t) ==
    /\ ~Refused(ballot[e].choice[u], t)
    /\ Store(e, [ballot[e] EXCEPT !.choice[u] = Toggled(@, t)])

\* mutant: SQLite's rowid without AUTOINCREMENT
ReusedId(b, k) == k + (CHOOSE o \in Candidates(b) \union {0} :
                          \A p \in Candidates(b) : p <= o)

\* time_option_id, AUTOINCREMENT
FreshId(b, k) == offered + k

\* add_time_options: the times that are not there yet, in the order given
AddTimeOptions(e, n, at) ==
    LET b == ballot[e]
        ids == {FreshId(b, k) : k \in 1..n}
    IN
    /\ PresetTimes = <<>>
    /\ at \in [1..n -> FutureTimes] /\ Distinct(at)
    /\ \A k \in 1..n : \A o \in Candidates(b) : b.option[o] # at[k]
    /\ ids \subseteq OptionIds
    /\ Store(e, [b EXCEPT !.option =
          [o \in OptionIds |-> IF o \in ids
                               THEN at[CHOOSE k \in 1..n : FreshId(b, k) = o] ELSE @[o]]])
    /\ offered' = FreshId(b, n)

\* replace_time_options with nothing: the candidates and what was cast for them
ResetTimeOptions(e) ==
    /\ PresetTimes = <<>>
    /\ Candidates(ballot[e]) # {}
    /\ Store(e, [ballot[e] EXCEPT !.option = EmptyBallot.option, !.avail = EmptyBallot.avail])

-----------------------------------------------------------------------------
(***************************************************************************)
(* The event, its nominations and its candidates.                          *)
(***************************************************************************)

Create(e) ==
    /\ CreateEvent(e)
    /\ UNCHANGED <<now, ballot, offered, cards, lineup>>

\* event_reopen: the ballot as it was
Reopen(e) ==
    /\ ReopenEvent(e)
    /\ lineup' = [lineup EXCEPT ![e] = <<>>]
    /\ UNCHANGED <<now, ballot, offered, cards>>

Transition(e, target) ==
    /\ CanChange(e)
    /\ TransitionEvent(e, target)
    /\ UNCHANGED <<now, ballot, offered, cards, lineup>>

Nominate(e, t) ==
    /\ AddNomination(e, t)
    /\ UNCHANGED <<slot, made, now, offered, cards, lineup>>

AddTimes(e) ==
    /\ \E n \in AddCounts : \E at \in [1..n -> FutureTimes] : AddTimeOptions(e, n, at)
    /\ UNCHANGED <<slot, made, now, cards, lineup>>

ResetTimes(e) ==
    /\ ResetTimeOptions(e)
    /\ UNCHANGED <<slot, made, now, offered, cards, lineup>>

-----------------------------------------------------------------------------
(***************************************************************************)
(* The title card.  One click is handled at a time, under the view's lock, *)
(* which is held until Discord shows the new order.                        *)
(***************************************************************************)

SetVote(u, c) == votecard' = [votecard EXCEPT ![u] = c]

OpenVote(u, e) ==
    LET rank == Ranking(ballot[e]) IN
    /\ votecard[u] = NoVoteCard
    /\ event[e].status # "none" /\ rank # <<>>
    /\ SetVote(u, [NoVoteCard EXCEPT !.event = e, !.rank = rank, !.shown = rank])
    /\ UNCHANGED <<schedule, now, ballot, offered, timecard, preview, lineup>>

PressVote(u, i) ==
    LET c == votecard[u] IN
    /\ i \in DOMAIN c.shown /\ c.click = NoClick
    /\ SetVote(u, [c EXCEPT !.click = [at |-> i, title |-> c.shown[i]]])
    /\ UNCHANGED <<schedule, now, ballot, offered, timecard, preview, lineup>>

\* mutant: the position only
AnyButton(c) == TRUE

\* the title that the button showed is the one at its place in the view's list
SameButton(c) == c.rank[c.click.at] = c.click.title

\* toggle_slot
HandleVote(u) ==
    LET c == votecard[u]
        e == c.event
        t == c.rank[c.click.at]
    IN
    /\ c.click # NoClick /\ ~c.editing
    /\ \/ /\ ~SameButton(c) \/ (e \in Open /\ Refused(ballot[e].choice[u], t))
          /\ SetVote(u, [c EXCEPT !.click = NoClick])
          /\ UNCHANGED <<event, ballot>>
       \/ /\ SameButton(c) /\ e \notin Open
          /\ SetVote(u, NoVoteCard)
          /\ UNCHANGED <<event, ballot>>
       \/ /\ SameButton(c)
          /\ ToggleVote(e, u, t)
          /\ SetVote(u, [c EXCEPT !.click = NoClick, !.rank = Ranking(ballot'[e]),
                                  !.editing = TRUE])
    /\ UNCHANGED <<slot, made, now, offered, timecard, preview, lineup>>

\* Discord shows the new order, or the edit failed
ShowVote(u) ==
    LET c == [votecard[u] EXCEPT !.editing = FALSE] IN
    /\ votecard[u].editing
    /\ \/ SetVote(u, [c EXCEPT !.shown = c.rank])
       \/ SetVote(u, c)
    /\ UNCHANGED <<schedule, now, ballot, offered, timecard, preview, lineup>>

\* done, on_timeout
CloseVote(u) ==
    /\ votecard[u] # NoVoteCard /\ ~votecard[u].editing
    /\ SetVote(u, NoVoteCard)
    /\ UNCHANGED <<schedule, now, ballot, offered, timecard, preview, lineup>>

-----------------------------------------------------------------------------
(***************************************************************************)
(* The time card: a save replaces everything that the member had cast.     *)
(***************************************************************************)

SetTimes(u, c) == timecard' = [timecard EXCEPT ![u] = c]

CardOf(e, b) ==
    IF Future(b, now) = {} THEN NoTimeCard
    ELSE [event |-> e, shows |-> [o \in OptionIds |->
                                     IF o \in Future(b, now) THEN b.option[o] ELSE NoOption]]

OpenTimes(u, e) ==
    /\ timecard[u] = NoTimeCard
    /\ event[e].status # "none" /\ Future(ballot[e], now) # {}
    /\ SetTimes(u, CardOf(e, ballot[e]))
    /\ UNCHANGED <<schedule, now, ballot, offered, votecard, preview, lineup>>

Shown(u) == {o \in OptionIds : timecard[u].shows[o] # NoOption}

\* save_values: what is shown afterwards is the old card while the edit is not
\* through, and no card where one of the times is not open to votes any more
SaveTimes(u, S) ==
    LET e == timecard[u].event IN
    /\ timecard[u] # NoTimeCard /\ S \subseteq Shown(u)
    /\ IF e \in Open /\ S \subseteq Future(ballot[e], now)
       THEN /\ StoreTimes(e, [ballot[e] EXCEPT !.avail[u] = S])
            /\ \E c \in {timecard[u], CardOf(e, ballot[e])} : SetTimes(u, c)
       ELSE SetTimes(u, NoTimeCard) /\ UNCHANGED <<event, ballot>>
    /\ UNCHANGED <<slot, made, now, offered, votecard, preview, lineup>>

CloseTimes(u) ==
    /\ timecard[u] # NoTimeCard
    /\ SetTimes(u, NoTimeCard)
    /\ UNCHANGED <<schedule, now, ballot, offered, votecard, preview, lineup>>

-----------------------------------------------------------------------------
(***************************************************************************)
(* The preview of the schedule.                                            *)
(***************************************************************************)

SetPreview(a, p) == preview' = [preview EXCEPT ![a] = p]

\* build_ranked_schedule
PlanOf(e, at, how) ==
    [NoPreview EXCEPT !.pc = "plan", !.event = e, !.revision = event[e].revision,
                      !.at = at, !.titles = Top(ballot[e], Len(at)), !.how = how]

\* event_schedule: the preset's dates, typed ones, the winner of the vote, or a
\* choice among several winners
Propose(a, e) ==
    LET b == ballot[e]
        times == BestTimes(b, now)
        plan(at, how) == b.line # <<>> /\ SetPreview(a, PlanOf(e, at, how))
    IN
    /\ preview[a] = NoPreview
    /\ e \in Open
    /\ \/ /\ PresetTimes # <<>> /\ \A i \in DOMAIN PresetTimes : PresetTimes[i] > now
          /\ plan(PresetTimes, "preset")
       \/ /\ PresetTimes = <<>>
          /\ \E n \in SlotCounts : \E at \in [1..n -> FutureTimes] :
                Distinct(at) /\ plan(at, "typed")
       \/ /\ PresetTimes = <<>>
          /\ \E t \in times : times = {t} /\ plan(<<t>>, "voted")
       \/ /\ PresetTimes = <<>>
          /\ Cardinality(times) > 1
          /\ SetPreview(a, [NoPreview EXCEPT !.pc = "tie", !.event = e, !.ties = times,
                               !.revision = event[e].revision])
    /\ UNCHANGED <<schedule, now, ballot, offered, votecard, timecard, lineup>>

\* mutant: the tie is as old as it may be
AnyRevision(p) == p.event \in Open

\* the event is as it was when the card was made
SameRevision(p) == p.event \in Open /\ event[p.event].revision = p.revision

\* choose: one of the tied times, if nothing has changed
ChooseTime(a, t) ==
    LET p == preview[a] IN
    /\ p.pc = "tie" /\ t \in p.ties
    /\ SetPreview(a, IF SameRevision(p) /\ t > now /\ ballot[p.event].line # <<>>
                     THEN PlanOf(p.event, <<t>>, "chosen") ELSE NoPreview)
    /\ UNCHANGED <<schedule, now, ballot, offered, votecard, timecard, lineup>>

\* confirm: publish what was previewed, if nothing has changed
Confirm(a) ==
    LET p == preview[a] IN
    /\ p.pc = "plan"
    /\ IF SameRevision(p) /\ \A i \in DOMAIN p.at : p.at[i] > now
       THEN /\ FreezeSchedule(p.event, Len(p.at), p.at)
            /\ lineup' = [lineup EXCEPT ![p.event] = p.titles]
       ELSE UNCHANGED <<schedule, lineup>>
    /\ SetPreview(a, NoPreview)
    /\ UNCHANGED <<now, ballot, offered, votecard, timecard>>

\* cancel, on_timeout
ClosePreview(a) ==
    /\ preview[a] # NoPreview
    /\ SetPreview(a, NoPreview)
    /\ UNCHANGED <<schedule, now, ballot, offered, votecard, timecard, lineup>>

-----------------------------------------------------------------------------
Tick ==
    /\ now < MaxTime
    /\ now' = now + 1
    /\ UNCHANGED <<schedule, ballot, offered, cards, lineup>>

Command(e) == Create(e) \/ Reopen(e) \/ Transition(e, "completed")
              \/ Transition(e, "cancelled") \/ AddTimes(e) \/ ResetTimes(e)
              \/ \E t \in Titles : Nominate(e, t)
Member(u) == \/ \E e \in Events : OpenVote(u, e) \/ OpenTimes(u, e)
             \/ (\E i \in DOMAIN votecard[u].shown : PressVote(u, i))
             \/ HandleVote(u) \/ ShowVote(u) \/ CloseVote(u)
             \/ (\E S \in SUBSET OptionIds : SaveTimes(u, S)) \/ CloseTimes(u)
Admin(a) == \/ \E e \in Events : Propose(a, e)
            \/ (\E t \in preview[a].ties : ChooseTime(a, t))
            \/ Confirm(a) \/ ClosePreview(a)

Next ==
    \/ \E e \in Events : Command(e)
    \/ \E u \in Users : Member(u)
    \/ \E a \in Admins : Admin(a)
    \/ Tick

Spec == Init /\ [][Next]_vars

-----------------------------------------------------------------------------
(***************************************************************************)
(* Properties.                                                             *)
(***************************************************************************)

BallotOK(b) ==
    /\ b \in BallotRow
    /\ \A i, j \in DOMAIN b.line : b.line[i] = b.line[j] => i = j
    /\ \A u \in Users : /\ b.choice[u] \subseteq Nominated(b)
                        /\ Cardinality(b.choice[u]) <= VoteLimit
                        /\ b.avail[u] \subseteq Candidates(b)

TypeOK ==
    /\ event \in [Events -> EventRow] /\ slot \in [SlotIds -> SlotRow]
    /\ made \in SlotIds \union {0} /\ offered \in OptionIds \union {0}
    /\ \A e \in Events : BallotOK(ballot[e])
    /\ votecard \in [Users -> VoteCard]
    /\ timecard \in [Users -> TimeCard]
    /\ preview \in [Admins -> Preview]
    /\ lineup \in [Events -> Seq(Titles \union {None})]

\* The published lineup is the ranking of the event's ballot, whatever was voted
\* between the preview and its confirmation, and it stays so while cards of the
\* closed ballot are still on the screen.
LineupIsRanking == \A e \in Events : lineup[e] = Top(ballot[e], Len(lineup[e]))

\* The ballot is well formed and its lineup is its ranking.
BallotInv == TypeOK /\ LineupIsRanking

TimesOf(e) == {slot[s].at : s \in SlotsOf(e)}

\* The time that is published as the winner is the only one with the most votes
\* among those still to come; one that an administrator chose in a tie is among
\* the winners still.
PublishedTimeWon ==
    [][\A e \in Open : \A a \in Admins :
          LET p == preview[a]
              won == BestTimes(ballot[e], now)
          IN p.pc = "plan" /\ p.event = e /\ preview'[a] # p /\ e \notin Open' =>
                /\ p.how = "voted" => TimesOf(e)' = won
                /\ p.how = "chosen" => TimesOf(e)' \subseteq won]_vars

\* A click changes the member's vote for the title that the button showed, and
\* takes another one back only where there is a single vote.
VoteIsForTheButton ==
    \A e \in Events : \A u \in Users :
        LET old == ballot[e].choice[u]
            new == ballot'[e].choice[u]
            t == votecard[u].click.title
        IN new # old => /\ (t \in new) # (t \in old)
                        /\ new \ old \subseteq {t}
                        /\ old \ new \subseteq {t} \/ VoteLimit = 1

\* Availability is recorded only for a time that the member's card showed, also
\* when the candidates were reset and added again under an open card.
AvailabilityIsForTheTime ==
    \A e \in Events : \A u \in Users : \A o \in ballot'[e].avail[u] \ ballot[e].avail[u] :
        timecard[u].event = e /\ timecard[u].shows[o] = ballot'[e].option[o]

\* A member's vote, for a title or for a time, is for what the member had before the
\* eyes, whatever was stored, reset or redrawn since.
VotesAsShown == [][VoteIsForTheButton /\ AvailabilityIsForTheTime]_vars

\* Votes for a candidate that has passed are kept.
ExpiredVotesKept ==
    [][\A e \in Events : \A u \in Users : \A o \in ballot[e].avail[u] :
          ballot[e].option[o] <= now /\ ballot'[e].option[o] = ballot[e].option[o] =>
             o \in ballot'[e].avail[u]]_vars

=============================================================================
