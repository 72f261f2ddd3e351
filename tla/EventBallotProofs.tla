------------------------- MODULE EventBallotProofs -------------------------
(***************************************************************************)
(* Proofs about EventBallot, for any number of events, titles, members,    *)
(* administrators, candidate times and votes: what the rankings return,    *)
(* that the published lineup is the ranking and the published time won,    *)
(* and that a vote is for what its member saw.                             *)
(*                                                                         *)
(* The stated properties are about the confirmation of a preview.  Why it  *)
(* is right lies in the check of the revision: the inductive invariant     *)
(* says that a preview whose event has the same revision still says what   *)
(* the ballot says, however the clock went on.                             *)
(***************************************************************************)
EXTENDS EventBallot, FiniteSetTheorems, SequenceTheorems, TLAPS

-----------------------------------------------------------------------------
(***************************************************************************)
(* The inductive invariant.                                                *)
(***************************************************************************)

\* An event without a schedule has no slots and no lineup.
ScheduleShape ==
    /\ now \in Nat /\ ballot \in [Events -> BallotRow]
    /\ \A e \in Events : event[e].status \in {"none", "open"} =>
                            SlotsOf(e) = {} /\ lineup[e] = <<>>

\* A title card lists titles that are nominated still, and so does its click.
ListsNominated(c) ==
    /\ c.event \in Events
    /\ \A i \in DOMAIN c.shown : c.shown[i] \in Nominated(ballot[c.event])
    /\ \A i \in DOMAIN c.rank : c.rank[i] \in Nominated(ballot[c.event])
    /\ c.click # NoClick => c.click.title \in Nominated(ballot[c.event])

VoteCardShape == \A u \in Users : votecard[u] = NoVoteCard \/ ListsNominated(votecard[u])

\* The candidates have been handed out, and so has what a card shows: an id that is a
\* candidate still stands for the time that the card showed, since ids are not reused.
ShowsOffered(c) ==
    /\ c.event \in Events
    /\ \A o \in OptionIds : c.shows[o] # NoOption =>
          /\ o <= offered
          /\ ballot[c.event].option[o] \in {NoOption, c.shows[o]}

TimeCardShape ==
    /\ \A e \in Events : \A o \in Candidates(ballot[e]) : o <= offered
    /\ \A u \in Users : timecard[u] = NoTimeCard \/ ShowsOffered(timecard[u])

\* A preview whose event has not changed still says what the ballot says: its titles
\* lead the ranking, and a time that won, or was tied, does so until it has passed.
Current(p) == event[p.event].revision = p.revision /\ event[p.event].status = "open"

StillWins(p, t) == t > now => t \in BestTimes(ballot[p.event], now)
StillWinsAlone(p, t) == t > now => BestTimes(ballot[p.event], now) = {t}

SaysWhatTheBallotSays(p) ==
    /\ p.pc = "plan" => p.titles = Top(ballot[p.event], Len(p.at))
    /\ p.pc = "plan" /\ p.how = "voted" => Len(p.at) = 1 /\ StillWinsAlone(p, p.at[1])
    /\ p.pc = "plan" /\ p.how = "chosen" => Len(p.at) = 1 /\ StillWins(p, p.at[1])
    /\ p.pc = "tie" => \A t \in p.ties : StillWins(p, t)

PreviewOK(p) ==
    p.pc # "none" =>
        /\ p.event \in Events /\ event[p.event].status # "none"
        /\ p.revision <= event[p.event].revision
        /\ Current(p) => SaysWhatTheBallotSays(p)

PreviewShape == \A a \in Admins : PreviewOK(preview[a])

BallotIInv == BallotInv /\ ScheduleShape /\ VoteCardShape /\ TimeCardShape /\ PreviewShape

-----------------------------------------------------------------------------
(***************************************************************************)
(* The rankings.                                                           *)
(***************************************************************************)

\* The number of votes is a number.
LEMMA VotesType ==
    ASSUME NEW b, NEW t PROVE Votes(b, t) \in Nat /\ Available(b, t) \in Nat
<1>1. /\ {u \in Users : t \in b.choice[u]} \in SUBSET Users
      /\ {u \in Users : t \in b.avail[u]} \in SUBSET Users
  OBVIOUS
<1>2. IsFiniteSet(Users)
  BY BallotAssumption
<1>3. /\ IsFiniteSet({u \in Users : t \in b.choice[u]})
      /\ IsFiniteSet({u \in Users : t \in b.avail[u]})
  BY <1>1, <1>2, FS_Subset
<1>4. QED BY <1>3, FS_CardinalityType DEF Votes, Available

\* The place of a nomination in the ranking.
Before(b, j) == {i \in DOMAIN b.line : Ahead(b, i, j)}
PlaceOf(b, j) == Cardinality(Before(b, j)) + 1

\* Of two nominations one is ahead, and what is ahead of it is ahead of the other.
LEMMA AheadIsOrder ==
    ASSUME NEW b, b.line \in Seq(Titles), NEW i \in DOMAIN b.line, NEW j \in DOMAIN b.line, i # j
    PROVE  /\ ~Ahead(b, i, i) /\ (Ahead(b, i, j) \/ Ahead(b, j, i))
           /\ Ahead(b, i, j) => Before(b, i) \subseteq Before(b, j)
<1>1. DOMAIN b.line = 1..Len(b.line) /\ Len(b.line) \in Nat
  BY LenProperties
<1>2. i \in Nat /\ j \in Nat /\ DOMAIN b.line \subseteq Nat
  BY <1>1
<1>3. \A k : Votes(b, b.line[k]) \in Nat
  BY VotesType
<1>4. ~Ahead(b, i, i) /\ (Ahead(b, i, j) \/ Ahead(b, j, i))
  BY <1>2, <1>3 DEF Ahead
<1>5. ASSUME NEW k \in DOMAIN b.line, Ahead(b, k, i), Ahead(b, i, j) PROVE Ahead(b, k, j)
  BY <1>2, <1>3, <1>5 DEF Ahead
<1>6. QED BY <1>4, <1>5 DEF Before

\* The nominations have the places 1, 2, 3 and so on, each one a place of its own.
LEMMA PlacesAreTaken ==
    ASSUME NEW b, b.line \in Seq(Titles)
    PROVE  /\ \A j \in DOMAIN b.line : PlaceOf(b, j) \in DOMAIN b.line
           /\ \A i, j \in DOMAIN b.line : PlaceOf(b, i) = PlaceOf(b, j) => i = j
           /\ \A k \in DOMAIN b.line : \E j \in DOMAIN b.line : PlaceOf(b, j) = k
<1> DEFINE n == Len(b.line)
           D == DOMAIN b.line
           f == [j \in D |-> PlaceOf(b, j)]
<1>1. n \in Nat /\ D = 1..n
  BY LenProperties
<1>2. IsFiniteSet(D) /\ Cardinality(D) = n
  BY <1>1, FS_Interval
<1>3. ASSUME NEW j \in D
      PROVE  /\ IsFiniteSet(Before(b, j)) /\ Cardinality(Before(b, j)) \in 0..(n - 1)
             /\ j \notin Before(b, j)
  <2>1. j \notin Before(b, j)
    <3>1. Votes(b, b.line[j]) \in Nat /\ j \in Nat
      BY <1>1, VotesType
    <3>2. QED BY <3>1 DEF Before, Ahead
  <2>2. Before(b, j) \in SUBSET (D \ {j})
    BY <2>1 DEF Before
  <2>3. IsFiniteSet(D \ {j}) /\ Cardinality(D \ {j}) = n - 1
    BY <1>2, FS_RemoveElement
  <2>4. IsFiniteSet(Before(b, j)) /\ Cardinality(Before(b, j)) <= n - 1
    BY ONLY <2>2, <2>3, FS_Subset
  <2>5. Cardinality(Before(b, j)) \in Nat
    BY <2>4, FS_CardinalityType
  <2>6. QED BY <1>1, <2>1, <2>4, <2>5
<1>4. \A j \in D : PlaceOf(b, j) \in D
  BY <1>1, <1>3 DEF PlaceOf
<1>5. ASSUME NEW i \in D, NEW j \in D, i # j, Ahead(b, i, j)
      PROVE  Cardinality(Before(b, i)) # Cardinality(Before(b, j))
  <2>1. Before(b, i) \in SUBSET Before(b, j)
    BY <1>5, AheadIsOrder
  <2>2. i \in Before(b, j)
    BY <1>5 DEF Before
  <2>3. IsFiniteSet(Before(b, j)) /\ i \notin Before(b, i)
    BY <1>3
  <2>4. Cardinality(Before(b, j)) = Cardinality(Before(b, i)) => Before(b, j) = Before(b, i)
    BY ONLY <2>1, <2>3, FS_Subset
  <2>5. QED BY <2>2, <2>3, <2>4
<1>6. ASSUME NEW i \in D, NEW j \in D, PlaceOf(b, i) = PlaceOf(b, j) PROVE i = j
  <2>1. Cardinality(Before(b, i)) \in Int /\ Cardinality(Before(b, j)) \in Int
    BY <1>1, <1>3
  <2>2. Cardinality(Before(b, i)) = Cardinality(Before(b, j))
    BY <1>6, <2>1 DEF PlaceOf
  <2>3. QED BY <1>5, <2>2, AheadIsOrder
<1>7. f \in Injection(D, D)
  BY <1>4, <1>6 DEF Injection, IsInjective
<1> HIDE DEF f, D
<1>8. f \in Surjection(D, D)
  BY ONLY <1>2, <1>7, FS_Injection
<1>9. \A k \in D : \E j \in D : f[j] = k
  BY <1>8 DEF Surjection
<1>10. QED BY <1>4, <1>6, <1>9 DEF f, D

\* ranking_rows: the ranking lists every nomination, at the place that its votes and its
\* order give it.
LEMMA RankingLists ==
    ASSUME NEW b, b.line \in Seq(Titles)
    PROVE  /\ Ranking(b) \in Seq(Titles) /\ DOMAIN Ranking(b) = DOMAIN b.line
           /\ \A k \in DOMAIN b.line : Ranking(b)[k] \in Nominated(b)
           /\ \A j \in DOMAIN b.line : Ranking(b)[PlaceOf(b, j)] = b.line[j]
<1> DEFINE D == DOMAIN b.line
           at(k) == CHOOSE j \in D : Cardinality(Before(b, j)) = k - 1
<1>1. /\ D = 1..Len(b.line) /\ Len(b.line) \in Nat
      /\ \A j \in D : b.line[j] \in Titles
  BY LenProperties, ElementOfSeq
<1>2. ASSUME NEW j \in D PROVE Cardinality(Before(b, j)) \in Int
  <2>1. IsFiniteSet(D) /\ Before(b, j) \in SUBSET D
    BY <1>1, FS_Interval DEF Before
  <2>2. IsFiniteSet(Before(b, j))
    BY ONLY <2>1, FS_Subset
  <2>3. QED BY <2>2, FS_CardinalityType
<1>3. ASSUME NEW k \in D
      PROVE  at(k) \in D /\ PlaceOf(b, at(k)) = k
  <2>1. PICK j \in D : PlaceOf(b, j) = k
    BY PlacesAreTaken
  <2>2. k \in Int /\ Cardinality(Before(b, j)) = k - 1
    BY <1>1, <1>2, <2>1 DEF PlaceOf
  <2>3. at(k) \in D /\ Cardinality(Before(b, at(k))) = k - 1
    BY <2>2
  <2>4. QED BY <2>2, <2>3 DEF PlaceOf
<1>4. Ranking(b) = [k \in D |-> b.line[at(k)]]
  BY DEF Ranking, Before
<1> HIDE DEF at
<1>5. DOMAIN Ranking(b) = D /\ \A k \in D : Ranking(b)[k] = b.line[at(k)]
  BY <1>4
<1>6. \A k \in D : Ranking(b)[k] \in Nominated(b) /\ Ranking(b)[k] \in Titles
  BY <1>1, <1>3, <1>5 DEF Nominated
<1>7. Ranking(b) \in Seq(Titles)
  <2>1. Ranking(b) \in [1..Len(b.line) -> Titles]
    BY <1>1, <1>4, <1>6
  <2>2. QED BY <1>1, <2>1, SeqDef
<1>8. ASSUME NEW j \in D PROVE Ranking(b)[PlaceOf(b, j)] = b.line[j]
  <2>1. PlaceOf(b, j) \in D
    BY PlacesAreTaken
  <2>2. at(PlaceOf(b, j)) = j
    BY <1>3, <2>1, PlacesAreTaken
  <2>3. QED BY <1>5, <2>1, <2>2
<1>9. QED BY <1>5, <1>6, <1>7, <1>8

\* ranking_rows sorts: no title is listed before one with more votes.
THEOREM RankingSorts ==
    ASSUME NEW b \in BallotRow, NEW k \in DOMAIN b.line, NEW m \in DOMAIN b.line, k < m
    PROVE  Votes(b, Ranking(b)[m]) <= Votes(b, Ranking(b)[k])
<1>1. b.line \in Seq(Titles) /\ DOMAIN b.line = 1..Len(b.line) /\ Len(b.line) \in Nat
  BY LenProperties DEF BallotRow
<1>2. PICK i \in DOMAIN b.line : PlaceOf(b, i) = k
  BY <1>1, PlacesAreTaken
<1>3. PICK j \in DOMAIN b.line : PlaceOf(b, j) = m
  BY <1>1, PlacesAreTaken
<1>4. i # j /\ k \in Nat /\ m \in Nat
  BY <1>1, <1>2, <1>3
<1>5. ~Ahead(b, j, i)
  <2>1. SUFFICES ASSUME Ahead(b, j, i) PROVE FALSE
    OBVIOUS
  <2>2. Before(b, j) \in SUBSET Before(b, i)
    BY <1>1, <1>4, <2>1, AheadIsOrder
  <2>3. IsFiniteSet(1..Len(b.line))
    <3>1. 1 \in Int /\ Len(b.line) \in Int
      BY <1>1
    <3>2. QED BY ONLY <3>1, FS_Interval
  <2>4. IsFiniteSet(Before(b, i))
    <3>1. Before(b, i) \in SUBSET (1..Len(b.line))
      BY <1>1 DEF Before
    <3>2. QED BY ONLY <2>3, <3>1, FS_Subset
  <2>5. IsFiniteSet(Before(b, j)) /\ Cardinality(Before(b, j)) <= Cardinality(Before(b, i))
    BY ONLY <2>2, <2>4, FS_Subset
  <2>6. Cardinality(Before(b, i)) \in Nat /\ Cardinality(Before(b, j)) \in Nat
    BY <2>4, <2>5, FS_CardinalityType
  <2>7. QED BY <1>2, <1>3, <1>4, <2>5, <2>6 DEF PlaceOf
<1>6. Ahead(b, i, j)
  BY <1>1, <1>4, <1>5, AheadIsOrder
<1>7. Ranking(b)[k] = b.line[i] /\ Ranking(b)[m] = b.line[j]
  BY <1>1, <1>2, <1>3, RankingLists
<1>8. Votes(b, b.line[i]) \in Nat /\ Votes(b, b.line[j]) \in Nat
  BY VotesType
<1>9. QED BY <1>6, <1>7, <1>8 DEF Ahead

\* The first n slots of a schedule have a title of the ranking, or none.
LEMMA TopType ==
    ASSUME NEW b, b.line \in Seq(Titles), NEW n \in Nat
    PROVE  Top(b, n) \in Seq(Titles \union {None}) /\ Len(Top(b, n)) = n
<1>1. \A k \in DOMAIN b.line : Ranking(b)[k] \in Titles
  <2>1. DOMAIN Ranking(b) = 1..Len(Ranking(b))
    BY RankingLists, LenProperties
  <2>2. QED BY <2>1, RankingLists, ElementOfSeq
<1>2. Top(b, n) \in [1..n -> Titles \union {None}]
  BY <1>1 DEF Top
<1>3. Top(b, n) \in Seq(Titles \union {None})
  BY <1>2, SeqDef
<1>4. QED BY <1>2, <1>3, LenProperties

\* future_time_options: the times that won are times.
LEMMA BestTimesType ==
    ASSUME NEW b \in BallotRow, NEW t \in Nat
    PROVE  BestTimes(b, t) \subseteq Nat /\ \A w \in BestTimes(b, t) : w > t
BY DEF BestTimes, Best, Future, Candidates, BallotRow

\* A time that won has won still when others have passed and it has not.
LEMMA BestLater ==
    ASSUME NEW b \in BallotRow, NEW s \in Nat, NEW t \in Nat, s <= t,
           NEW w \in BestTimes(b, s), w > t
    PROVE  w \in BestTimes(b, t) /\ BestTimes(b, t) \subseteq BestTimes(b, s)
<1>1. \A o \in OptionIds : b.option[o] \in Nat /\ Available(b, o) \in Nat
  BY VotesType DEF BallotRow
<1>2. PICK o \in Best(b, s) : w = b.option[o]
  BY DEF BestTimes
<1>3. Best(b, s) \subseteq OptionIds /\ Future(b, s) \subseteq OptionIds
  BY DEF Best, Future, Candidates
<1>4. Future(b, t) \subseteq Future(b, s) /\ o \in Future(b, t)
  BY <1>1, <1>2, <1>3 DEF Best, Future, Candidates
<1>5. o \in Best(b, t)
  BY <1>2, <1>4 DEF Best
<1>6. ASSUME NEW p \in Best(b, t) PROVE p \in Best(b, s)
  <2>1. /\ p \in Future(b, s) /\ Available(b, o) <= Available(b, p)
        /\ p \in OptionIds /\ o \in OptionIds
    BY <1>2, <1>3, <1>4, <1>6 DEF Best
  <2>2. \A q \in Future(b, s) : Available(b, q) <= Available(b, o)
    BY <1>2 DEF Best
  <2>3. \A q \in Future(b, s) : Available(b, q) <= Available(b, p)
    BY <1>1, <1>3, <2>1, <2>2
  <2>4. QED BY <2>1, <2>3 DEF Best
<1>7. QED BY <1>2, <1>5, <1>6 DEF BestTimes

\* toggle_vote keeps a member's votes within the limit.
LEMMA ToggledType ==
    ASSUME NEW c \in SUBSET Titles, NEW t \in Titles, Cardinality(c) <= VoteLimit
    PROVE  /\ Toggled(c, t) \subseteq c \union {t} /\ Toggled(c, t) \in SUBSET Titles
           /\ Cardinality(Toggled(c, t)) <= VoteLimit
<1>1. IsFiniteSet(c) /\ VoteLimit \in Nat \ {0} /\ Cardinality(c) \in Nat
  BY BallotAssumption, FS_Subset, FS_CardinalityType
<1>2. CASE t \in c
  <2>1. Toggled(c, t) = c \ {t} /\ Cardinality(c \ {t}) = Cardinality(c) - 1
    BY <1>1, <1>2, FS_RemoveElement DEF Toggled
  <2>2. QED BY <1>1, <2>1
<1>3. CASE t \notin c /\ Full(c)
  <2>1. Toggled(c, t) = {t} /\ Cardinality({t}) = 1
    BY <1>3, FS_Singleton DEF Toggled
  <2>2. QED BY <1>1, <2>1
<1>4. CASE t \notin c /\ ~Full(c)
  <2>1. Toggled(c, t) = c \union {t} /\ Cardinality(c \union {t}) = Cardinality(c) + 1
    BY <1>1, <1>4, FS_AddElement DEF Toggled
  <2>2. QED BY <1>1, <1>4, <2>1 DEF Full
<1>5. QED BY <1>2, <1>3, <1>4

-----------------------------------------------------------------------------
(***************************************************************************)
(* What a step leaves of the cards and of the previews.                    *)
(***************************************************************************)

\* No revision goes back, no event disappears, and an event that is open after the step
\* with the revision it had was open with the same ballot.
Onward ==
    \A e \in Events :
        /\ event[e].revision <= event'[e].revision
        /\ event[e].status # "none" => event'[e].status # "none"
        /\ event[e].status # "none" /\ event'[e].status = "open"
           /\ event'[e].revision = event[e].revision =>
              event[e].status = "open" /\ ballot'[e] = ballot[e]

Typed == /\ event \in [Events -> EventRow] /\ ballot \in [Events -> BallotRow]
         /\ now \in Nat /\ offered \in OptionIds \union {0}

\* The parts of the types.
LEMMA IInvTyped == BallotIInv => Typed
BY DEF BallotIInv, BallotInv, TypeOK, ScheduleShape, Typed

\* A preview stays right: while its event has not changed, only the clock has.
LEMMA PreviewKept ==
    ASSUME Typed, Typed', Onward, now' \in {now, now + 1}, NEW p \in Preview, PreviewOK(p)
    PROVE  PreviewOK(p)'
<1> SUFFICES ASSUME p.pc # "none" PROVE PreviewOK(p)'
  BY DEF PreviewOK
<1> DEFINE e == p.event
<1>1. /\ e \in Events /\ event[e].status # "none" /\ p.revision <= event[e].revision
      /\ Current(p) => SaysWhatTheBallotSays(p)
  BY DEF PreviewOK
<1>2. /\ event'[e].status # "none" /\ event[e].revision <= event'[e].revision
      /\ p.revision \in Nat /\ event[e].revision \in Nat /\ event'[e].revision \in Nat
      /\ now \in Nat /\ now' \in Nat /\ now <= now' /\ ballot[e] \in BallotRow
  BY <1>1 DEF Onward, Typed, EventRow, Preview
<1>3. p.revision <= event'[e].revision
  BY <1>1, <1>2
<1>4. ASSUME Current(p)' PROVE SaysWhatTheBallotSays(p)'
  <2>1. event'[e].revision = p.revision /\ event'[e].status = "open"
    BY <1>4 DEF Current
  <2>2. event[e].revision = p.revision
    BY <1>1, <1>2, <2>1
  <2>3. event[e].status = "open" /\ ballot'[e] = ballot[e]
    BY <1>1, <2>1, <2>2 DEF Onward
  <2>4. SaysWhatTheBallotSays(p)
    BY <1>1, <2>2, <2>3 DEF Current
  <2>5. ASSUME NEW t \in Nat, t > now', t \in BestTimes(ballot[e], now)
        PROVE  /\ t \in BestTimes(ballot[e], now')
               /\ BestTimes(ballot[e], now') \subseteq BestTimes(ballot[e], now)
    BY ONLY <1>2, <2>5, BestLater
  <2>6. ASSUME NEW t \in Nat, StillWins(p, t) PROVE StillWins(p, t)'
    BY <1>2, <2>3, <2>5, <2>6 DEF StillWins
  <2>7. ASSUME NEW t \in Nat, StillWinsAlone(p, t) PROVE StillWinsAlone(p, t)'
    <3>1. SUFFICES ASSUME t > now' PROVE BestTimes(ballot[e], now') = {t}
      BY <2>3 DEF StillWinsAlone
    <3>2. t > now
      BY <1>2, <3>1
    <3>3. BestTimes(ballot[e], now) = {t}
      BY <2>7, <3>2 DEF StillWinsAlone
    <3>4. QED BY <2>5, <3>1, <3>3
  <2>8. p.at \in Seq(Nat) /\ p.ties \in SUBSET Nat
    BY DEF Preview
  <2>9. Len(p.at) = 1 => p.at[1] \in Nat
    BY <2>8, ElementOfSeq
  <2>10. QED BY <2>3, <2>4, <2>6, <2>7, <2>8, <2>9 DEF SaysWhatTheBallotSays
<1>5. QED BY <1>1, <1>2, <1>3, <1>4 DEF PreviewOK

\* A title card stays right, since nominations are never taken back.
LEMMA VoteCardKept ==
    ASSUME \A e \in Events : Nominated(ballot[e]) \subseteq Nominated(ballot'[e]),
           NEW c, ListsNominated(c)
    PROVE  ListsNominated(c)'
BY DEF ListsNominated

\* The candidates are kept or taken back, or get new ids.
Reissued ==
    /\ offered <= offered'
    /\ \A e \in Events : \A o \in OptionIds :
          LET old == ballot[e].option[o]
              new == ballot'[e].option[o]
          IN  new \in {old, NoOption} \/ (offered < o /\ o <= offered')

\* A time card stays right, since ids are not used again.
LEMMA TimeCardKept ==
    ASSUME Typed, Typed', Reissued, NEW c, ShowsOffered(c)
    PROVE  ShowsOffered(c)'
<1>1. c.event \in Events /\ offered \in Nat /\ offered' \in Nat /\ offered <= offered'
  BY DEF Typed, OptionIds, ShowsOffered, Reissued
<1>2. ASSUME NEW o \in OptionIds, c.shows[o] # NoOption
      PROVE  o <= offered' /\ ballot'[c.event].option[o] \in {NoOption, c.shows[o]}
  <2>1. o <= offered /\ ballot[c.event].option[o] \in {NoOption, c.shows[o]} /\ o \in Nat
    BY <1>2 DEF ShowsOffered, OptionIds
  <2>2. ~(offered < o)
    BY <1>1, <2>1
  <2>3. QED BY <1>1, <2>1, <2>2 DEF Reissued
<1>3. QED BY <1>1, <1>2 DEF ShowsOffered

\* What was handed out covers the candidates after the step as well.
LEMMA OfferedKept ==
    ASSUME Typed, Typed', Reissued, \A e \in Events : \A o \in Candidates(ballot[e]) : o <= offered
    PROVE  \A e \in Events : \A o \in Candidates(ballot'[e]) : o <= offered'
<1> SUFFICES ASSUME NEW e \in Events, NEW o \in OptionIds, ballot'[e].option[o] # NoOption
             PROVE  o <= offered'
  BY DEF Candidates
<1>1. o \in Nat /\ offered \in Nat /\ offered' \in Nat /\ offered <= offered'
  BY DEF Typed, OptionIds, Reissued
<1>2. CASE ballot'[e].option[o] = ballot[e].option[o]
  BY <1>1, <1>2 DEF Candidates
<1>3. CASE offered < o /\ o <= offered'
  BY <1>3
<1>4. QED BY <1>2, <1>3 DEF Reissued

-----------------------------------------------------------------------------
(***************************************************************************)
(* A step of one side.                                                     *)
(***************************************************************************)

\* The parts of the invariant that a member's card is no part of.
Core == /\ Typed /\ slot \in [SlotIds -> SlotRow] /\ made \in SlotIds \union {0}
        /\ \A e \in Events : BallotOK(ballot[e])
        /\ lineup \in [Events -> Seq(Titles \union {None})]
        /\ LineupIsRanking /\ ScheduleShape
        /\ \A e \in Events : \A o \in Candidates(ballot[e]) : o <= offered

VoteCards == votecard \in [Users -> VoteCard] /\ VoteCardShape
TimeCards == timecard \in [Users -> TimeCard]
             /\ \A u \in Users : timecard[u] = NoTimeCard \/ ShowsOffered(timecard[u])
Previews == preview \in [Admins -> Preview] /\ PreviewShape

\* Together they are the invariant.
LEMMA Parts == BallotIInv <=> Core /\ VoteCards /\ TimeCards /\ Previews
BY DEF BallotIInv, BallotInv, TypeOK, ScheduleShape, TimeCardShape, Core, Typed, VoteCards,
       TimeCards, Previews

\* A step that leaves the title cards alone.
LEMMA VoteCardsKept ==
    ASSUME VoteCards, UNCHANGED votecard,
           \A e \in Events : Nominated(ballot[e]) \subseteq Nominated(ballot'[e])
    PROVE  VoteCards'
<1>1. ASSUME NEW u \in Users, NEW c, c = votecard'[u] PROVE c = NoVoteCard \/ ListsNominated(c)'
  <2>1. c = NoVoteCard \/ ListsNominated(c)
    BY <1>1 DEF VoteCards, VoteCardShape
  <2>2. QED BY <2>1, VoteCardKept
<1>2. QED BY <1>1 DEF VoteCards, VoteCardShape

\* A step that gives a member another title card.
LEMMA VoteCardSet ==
    ASSUME VoteCards, NEW u \in Users, NEW d \in VoteCard,
           votecard' = [votecard EXCEPT ![u] = d], d = NoVoteCard \/ ListsNominated(d)',
           \A e \in Events : Nominated(ballot[e]) \subseteq Nominated(ballot'[e])
    PROVE  VoteCards'
<1>1. votecard' \in [Users -> VoteCard]
  BY DEF VoteCards
<1>2. ASSUME NEW v \in Users, NEW c, c = votecard'[v] PROVE c = NoVoteCard \/ ListsNominated(c)'
  <2>1. CASE v = u
    BY <1>2, <2>1 DEF VoteCards
  <2>2. CASE v # u
    <3>1. c = NoVoteCard \/ ListsNominated(c)
      BY <1>2, <2>2 DEF VoteCards, VoteCardShape
    <3>2. QED BY <3>1, VoteCardKept
  <2>3. QED BY <2>1, <2>2
<1>3. QED BY <1>1, <1>2 DEF VoteCards, VoteCardShape

\* The same for the time cards.
LEMMA TimeCardsKept ==
    ASSUME Typed, Typed', Reissued, TimeCards, UNCHANGED timecard PROVE TimeCards'
<1>1. ASSUME NEW u \in Users, NEW c, c = timecard'[u] PROVE c = NoTimeCard \/ ShowsOffered(c)'
  <2>1. c = NoTimeCard \/ ShowsOffered(c)
    BY <1>1 DEF TimeCards
  <2>2. QED BY <2>1, TimeCardKept
<1>2. QED BY <1>1 DEF TimeCards

\* A step that gives a member another time card.
LEMMA TimeCardSet ==
    ASSUME Typed, Typed', Reissued, TimeCards, NEW u \in Users, NEW d \in TimeCard,
           timecard' = [timecard EXCEPT ![u] = d], d = NoTimeCard \/ ShowsOffered(d)'
    PROVE  TimeCards'
<1>1. timecard' \in [Users -> TimeCard]
  BY DEF TimeCards
<1>2. ASSUME NEW v \in Users, NEW c, c = timecard'[v] PROVE c = NoTimeCard \/ ShowsOffered(c)'
  <2>1. CASE v = u
    BY <1>2, <2>1 DEF TimeCards
  <2>2. CASE v # u
    <3>1. c = NoTimeCard \/ ShowsOffered(c)
      BY <1>2, <2>2 DEF TimeCards
    <3>2. QED BY <3>1, TimeCardKept
  <2>3. QED BY <2>1, <2>2
<1>3. QED BY <1>1, <1>2 DEF TimeCards

\* And for the previews.
LEMMA PreviewsKept ==
    ASSUME Typed, Typed', Onward, now' \in {now, now + 1}, Previews, UNCHANGED preview
    PROVE  Previews'
<1>1. ASSUME NEW a \in Admins, NEW p, p = preview'[a] PROVE PreviewOK(p)'
  <2>1. p \in Preview /\ PreviewOK(p)
    BY <1>1 DEF Previews, PreviewShape
  <2>2. QED BY <2>1, PreviewKept
<1>2. QED BY <1>1 DEF Previews, PreviewShape

\* A step that gives an administrator another preview.
LEMMA PreviewSet ==
    ASSUME Typed, Typed', Onward, now' \in {now, now + 1}, Previews, NEW a \in Admins,
           NEW d \in Preview, preview' = [preview EXCEPT ![a] = d], PreviewOK(d)'
    PROVE  Previews'
<1>1. preview' \in [Admins -> Preview]
  BY DEF Previews
<1>2. ASSUME NEW b \in Admins, NEW p, p = preview'[b] PROVE PreviewOK(p)'
  <2>1. CASE b = a
    BY <1>2, <2>1 DEF Previews
  <2>2. CASE b # a
    <3>1. p \in Preview /\ PreviewOK(p)
      BY <1>2, <2>2 DEF Previews, PreviewShape
    <3>2. QED BY <3>1, PreviewKept
  <2>3. QED BY <2>1, <2>2
<1>3. QED BY <1>1, <1>2 DEF Previews, PreviewShape

-----------------------------------------------------------------------------
(***************************************************************************)
(* The transactions.                                                       *)
(***************************************************************************)

\* Nominations are never taken back.
Growing == \A e \in Events : Nominated(ballot[e]) \subseteq Nominated(ballot'[e])

\* What every step does to what is stored.
Sound == Core' /\ Onward /\ Reissued /\ Growing /\ now' \in {now, now + 1}

\* Types that a step needs.
LEMMA CoreTyped == ASSUME Core PROVE Typed /\ offered \in Nat
BY DEF Core, Typed, OptionIds

\* A step that stores nothing.
LEMMA QuietStep ==
    ASSUME Core, UNCHANGED <<event, slot, made, now, ballot, offered, lineup>> PROVE Sound
<1>1. Typed /\ offered \in Nat
  BY CoreTyped
<1>2. Core'
  BY DEF Core, Typed, LineupIsRanking, ScheduleShape, SlotsOf
<1>3. Onward /\ Growing
  BY <1>1 DEF Onward, Growing, Typed, EventRow
<1>4. Reissued
  BY <1>1 DEF Reissued
<1>5. QED BY <1>1, <1>2, <1>3, <1>4 DEF Sound

\* A ballot has changed.
LEMMA RevisedRow ==
    ASSUME NEW r \in EventRow
    PROVE  /\ [r EXCEPT !.revision = @ + 1] \in EventRow
           /\ [r EXCEPT !.revision = @ + 1].revision = r.revision + 1
           /\ [r EXCEPT !.revision = @ + 1].status = r.status
BY DEF EventRow

\* An event is created.
LEMMA CreatedRow ==
    ASSUME NEW r \in EventRow, NEW status \in Statuses
    PROVE  /\ [r EXCEPT !.status = status] \in EventRow
           /\ [r EXCEPT !.status = status].revision = r.revision
           /\ [r EXCEPT !.status = status].status = status
BY DEF EventRow

\* An event goes on with a new revision.
LEMMA ChangedRow ==
    ASSUME NEW r \in EventRow, NEW status \in Statuses
    PROVE  /\ [r EXCEPT !.status = status, !.revision = @ + 1] \in EventRow
           /\ [r EXCEPT !.status = status, !.revision = @ + 1].revision = r.revision + 1
           /\ [r EXCEPT !.status = status, !.revision = @ + 1].status = status
<1>1. r.revision + 1 \in Nat
  BY DEF EventRow
<1>2. ASSUME NEW v \in Nat
      PROVE  /\ [r EXCEPT !.status = status, !.revision = v] \in EventRow
             /\ [r EXCEPT !.status = status, !.revision = v].revision = v
             /\ [r EXCEPT !.status = status, !.revision = v].status = status
  BY DEF EventRow
<1>3. QED BY <1>1, <1>2

\* A transaction on the ballot of an open event.
LEMMA StoreStep ==
    ASSUME Core, NEW e, NEW b, Store(e, b), UNCHANGED <<slot, made, now, lineup>>,
           BallotOK(b), Nominated(ballot[e]) \subseteq Nominated(b),
           offered' \in OptionIds \union {0}, offered <= offered',
           \A o \in OptionIds : b.option[o] \in {ballot[e].option[o], NoOption}
                                   \/ (offered < o /\ o <= offered')
    PROVE  Sound /\ ballot'[e] = b /\ e \in Events
<1>1. Typed /\ offered \in Nat
  BY CoreTyped
<1>2. e \in Events /\ event[e].status = "open" /\ ballot' = [ballot EXCEPT ![e] = b]
  BY DEF Store, Open
<1> DEFINE r == [event[e] EXCEPT !.revision = @ + 1]
<1>3. event[e] \in EventRow /\ event[e].revision \in Nat
  BY <1>1, <1>2 DEF Typed, EventRow
<1>4. r \in EventRow /\ r.revision = event[e].revision + 1 /\ r.status = event[e].status
  BY <1>3, RevisedRow DEF Statuses
<1>5. event' = event \/ event' = [event EXCEPT ![e] = r]
  BY DEF Store, Revised
<1>6. b = ballot[e] \/ event' = [event EXCEPT ![e] = r]
  BY DEF Store, Revised
<1> HIDE DEF r
<1>7. ballot'[e] = b /\ \A f \in Events \ {e} : ballot'[f] = ballot[f]
  BY <1>1, <1>2 DEF Typed
<1>8. /\ event' \in [Events -> EventRow]
      /\ \A f \in Events : event'[f].status = event[f].status
      /\ \A f \in Events \ {e} : event'[f] = event[f]
      /\ event'[e].revision \in {event[e].revision, event[e].revision + 1}
      /\ event'[e].revision = event[e].revision => b = ballot[e]
  BY <1>1, <1>2, <1>3, <1>4, <1>5, <1>6 DEF Typed
<1>9. b \in BallotRow
  BY DEF BallotOK
<1>10. Typed' /\ ballot' \in [Events -> BallotRow]
  BY <1>1, <1>2, <1>8, <1>9 DEF Typed
<1>11. Onward
  BY <1>1, <1>2, <1>3, <1>7, <1>8 DEF Onward, Typed, EventRow
<1>12. Reissued
  BY <1>1, <1>7 DEF Reissued
<1>13. Growing
  BY <1>7 DEF Growing
<1>14. \A f \in Events : BallotOK(ballot'[f])
  BY <1>7 DEF Core
<1>15. LineupIsRanking'
  <2>1. \A f \in Events : lineup[f] = Top(ballot[f], Len(lineup[f]))
    BY DEF Core, LineupIsRanking
  <2>2. lineup[e] = <<>>
    BY <1>2 DEF Core, ScheduleShape
  <2>3. Top(b, 0) = <<>>
    <3>1. Top(b, 0) \in Seq(Titles \union {None}) /\ Len(Top(b, 0)) = 0
      BY <1>9, TopType DEF BallotRow
    <3>2. QED BY <3>1, EmptySeq
  <2>4. QED BY <1>7, <2>1, <2>2, <2>3, EmptySeq DEF LineupIsRanking
<1>16. ScheduleShape'
  BY <1>1, <1>8, <1>10 DEF Core, ScheduleShape, SlotsOf, Typed
<1>17. \A f \in Events : \A o \in Candidates(ballot'[f]) : o <= offered'
  BY <1>1, <1>10, <1>12, OfferedKept DEF Core
<1>18. Core'
  BY <1>10, <1>14, <1>15, <1>16, <1>17 DEF Core
<1>19. QED BY <1>1, <1>2, <1>7, <1>11, <1>12, <1>13, <1>18 DEF Sound

\* An event is created: it has the empty ballot it had.
LEMMA CreateStep ==
    ASSUME Core, NEW e \in Events, Create(e) PROVE Sound
<1>1. Typed /\ offered \in Nat
  BY CoreTyped
<1> DEFINE r == [event[e] EXCEPT !.status = "open"]
<1>2. /\ event' = [event EXCEPT ![e] = r] /\ event[e].status = "none"
      /\ UNCHANGED <<slot, made, now, ballot, offered, lineup>>
  BY DEF Create, CreateEvent
<1>3. event[e] \in EventRow
  BY <1>1 DEF Typed
<1>4. r \in EventRow /\ r.revision = event[e].revision /\ r.status = "open"
  BY <1>3, CreatedRow DEF Statuses
<1> HIDE DEF r
<1>5. /\ event' \in [Events -> EventRow]
      /\ event'[e] = r /\ \A f \in Events \ {e} : event'[f] = event[f]
  BY <1>1, <1>2, <1>4 DEF Typed
<1>6. Core'
  BY <1>1, <1>2, <1>4, <1>5 DEF Core, Typed, LineupIsRanking, ScheduleShape, SlotsOf
<1>7. Onward
  BY <1>1, <1>2, <1>4, <1>5 DEF Onward, Typed, EventRow
<1>8. Reissued /\ Growing
  BY <1>1, <1>2 DEF Reissued, Growing
<1>9. QED BY <1>2, <1>6, <1>7, <1>8 DEF Sound

\* The schedule goes another way: the event is scheduled, closed or opened again, with a
\* new revision; where it is open, nothing of a schedule is left.
LEMMA ScheduleStep ==
    ASSUME Core, NEW e \in Events, NEW status \in Statuses \ {"none"},
           event' = [event EXCEPT ![e] = Changed(e, status)],
           event[e].status # "none",
           slot' \in [SlotIds -> SlotRow], made' \in SlotIds \union {0},
           UNCHANGED <<now, ballot, offered>>,
           NEW line \in Seq(Titles \union {None}), lineup' = [lineup EXCEPT ![e] = line],
           line = Top(ballot[e], Len(line)),
           \A f \in Events \ {e} : SlotsOf(f)' \subseteq SlotsOf(f),
           status = "open" => SlotsOf(e)' = {} /\ line = <<>>
    PROVE  Sound
<1>1. Typed /\ offered \in Nat
  BY CoreTyped
<1> DEFINE r == Changed(e, status)
<1>2. event[e] \in EventRow /\ event[e].revision \in Nat
  BY <1>1 DEF Typed, EventRow
<1>3. r \in EventRow /\ r.revision = event[e].revision + 1 /\ r.status = status
  BY <1>2, ChangedRow DEF Changed
<1> HIDE DEF r
<1>4. /\ event' \in [Events -> EventRow]
      /\ event'[e] = r /\ \A f \in Events \ {e} : event'[f] = event[f]
  BY <1>1, <1>3 DEF Typed, r
<1>5. /\ lineup' \in [Events -> Seq(Titles \union {None})]
      /\ lineup'[e] = line /\ \A f \in Events \ {e} : lineup'[f] = lineup[f]
  BY DEF Core
<1>6. LineupIsRanking'
  BY <1>5 DEF Core, LineupIsRanking
<1>7. ScheduleShape'
  <2>1. now' \in Nat /\ ballot' \in [Events -> BallotRow]
    BY DEF Core, ScheduleShape
  <2>2. ASSUME NEW f \in Events, event'[f].status \in {"none", "open"}
        PROVE  SlotsOf(f)' = {} /\ lineup'[f] = <<>>
    <3>1. CASE f = e
      BY <1>3, <1>4, <1>5, <2>2, <3>1
    <3>2. CASE f # e
      BY <1>4, <1>5, <2>2, <3>2 DEF Core, ScheduleShape
    <3>3. QED BY <3>1, <3>2
  <2>3. QED BY <2>1, <2>2 DEF ScheduleShape
<1>8. Core'
  BY <1>1, <1>4, <1>5, <1>6, <1>7 DEF Core, Typed
<1>9. Onward
  BY <1>1, <1>2, <1>3, <1>4 DEF Onward, Typed, EventRow
<1>10. Reissued /\ Growing
  BY <1>1 DEF Reissued, Growing
<1>11. QED BY <1>8, <1>9, <1>10 DEF Sound

-----------------------------------------------------------------------------
(***************************************************************************)
(* Commands.                                                               *)
(***************************************************************************)

\* The event is cancelled or completed, or its schedule is taken back.
LEMMA TransitionStep ==
    ASSUME Core, NEW e \in Events, Reopen(e) \/ Transition(e, "completed") \/ Transition(e, "cancelled")
    PROVE  Sound
<1>1. /\ slot \in [SlotIds -> SlotRow] /\ made \in SlotIds \union {0}
      /\ lineup \in [Events -> Seq(Titles \union {None})] /\ ballot[e] \in BallotRow
      /\ LineupIsRanking /\ NoEvent \notin Events
  BY ScheduleAssumption DEF Core, BallotOK
<1>2. CASE Reopen(e)
  <2>1. /\ event' = [event EXCEPT ![e] = Changed(e, "open")] /\ event[e].status = "scheduled"
        /\ slot' = [s \in SlotIds |-> IF s \in SlotsOf(e) THEN NoSlot ELSE slot[s]]
        /\ UNCHANGED <<made, now, ballot, offered>> /\ lineup' = [lineup EXCEPT ![e] = <<>>]
    BY <1>2 DEF Reopen, ReopenEvent, Scheduled
  <2>2. NoSlot \in SlotRow /\ NoSlot.event = NoEvent
    BY DEF NoSlot, SlotRow
  <2>3. /\ slot' \in [SlotIds -> SlotRow] /\ SlotsOf(e)' = {}
        /\ \A f \in Events \ {e} : SlotsOf(f)' \subseteq SlotsOf(f)
    BY <1>1, <2>1, <2>2 DEF SlotsOf
  <2>4. <<>> \in Seq(Titles \union {None}) /\ <<>> = Top(ballot[e], Len(<<>>))
    <3>1. Top(ballot[e], 0) \in Seq(Titles \union {None}) /\ Len(Top(ballot[e], 0)) = 0
      BY <1>1, TopType DEF BallotRow
    <3>2. QED BY <3>1, EmptySeq
  <2>5. QED BY <1>1, <2>1, <2>3, <2>4, ScheduleStep DEF Statuses
<1>3. ASSUME NEW target \in {"completed", "cancelled"}, Transition(e, target) PROVE Sound
  <2>1. /\ event' = [event EXCEPT ![e] = Changed(e, target)] /\ event[e].status # "none"
        /\ slot' = Closed({e}, target)
        /\ UNCHANGED <<made, now, ballot, offered, lineup>>
    BY <1>3 DEF Transition, TransitionEvent
  <2>2. ASSUME NEW s \in SlotIds
        PROVE  slot'[s] \in SlotRow /\ slot'[s].event = slot[s].event
    <3>1. slot[s] \in SlotRow
      BY <1>1
    <3>2. /\ [slot[s] EXCEPT !.status = target] \in SlotRow
          /\ [slot[s] EXCEPT !.status = target].event = slot[s].event
      BY <3>1 DEF SlotRow
    <3>3. slot'[s] \in {slot[s], [slot[s] EXCEPT !.status = target]}
      BY <2>1 DEF Closed
    <3>4. QED BY <3>1, <3>2, <3>3
  <2>3. slot' \in [SlotIds -> SlotRow] /\ \A f \in Events : SlotsOf(f)' = SlotsOf(f)
    BY <2>1, <2>2 DEF Closed, SlotsOf
  <2>4. /\ lineup' = [lineup EXCEPT ![e] = lineup[e]]
        /\ lineup[e] \in Seq(Titles \union {None})
        /\ lineup[e] = Top(ballot[e], Len(lineup[e]))
    BY <1>1, <2>1 DEF LineupIsRanking
  <2>5. QED BY <1>1, <2>1, <2>3, <2>4, ScheduleStep DEF Statuses
<1>4. QED BY <1>2, <1>3

\* A title is nominated.
LEMMA NominateStep ==
    ASSUME Core, NEW e \in Events, NEW t \in Titles, Nominate(e, t) PROVE Sound
<1> DEFINE old == ballot[e]
           line == Append(old.line, t)
           b == [old EXCEPT !.line = line]
<1>1. /\ BallotOK(old) /\ old \in BallotRow /\ t \notin Nominated(old)
      /\ Store(e, b) /\ UNCHANGED <<slot, made, now, offered, lineup>>
  BY DEF Core, BallotOK, Nominate, AddNomination
<1>2. /\ old.line \in Seq(Titles) /\ line \in Seq(Titles)
      /\ Len(line) = Len(old.line) + 1 /\ Len(old.line) \in Nat
      /\ DOMAIN line = 1..(Len(old.line) + 1) /\ DOMAIN old.line = 1..Len(old.line)
      /\ line[Len(old.line) + 1] = t
      /\ \A i \in 1..Len(old.line) : line[i] = old.line[i]
  BY <1>1, AppendProperties, LenProperties DEF BallotRow
<1> HIDE DEF line
<1>3. /\ b \in BallotRow /\ b.line = line /\ b.choice = old.choice
      /\ b.option = old.option /\ b.avail = old.avail
  BY <1>1, <1>2 DEF BallotRow
<1> HIDE DEF b
<1>4. \A i \in 1..Len(old.line) : old.line[i] # t
  BY <1>1, <1>2 DEF Nominated
<1>5. \A i, j \in DOMAIN line : line[i] = line[j] => i = j
  <2>1. \A i, j \in 1..Len(old.line) : old.line[i] = old.line[j] => i = j
    BY <1>1, <1>2 DEF BallotOK
  <2>2. QED BY <1>2, <1>4, <2>1
<1>6. Nominated(old) \subseteq Nominated(b)
  BY <1>2, <1>3 DEF Nominated
<1>7. Candidates(b) = Candidates(old)
  BY <1>3 DEF Candidates
<1>8. BallotOK(b)
  BY <1>1, <1>3, <1>5, <1>6, <1>7 DEF BallotOK
<1>9. offered \in Nat /\ offered' \in OptionIds \union {0} /\ offered <= offered'
  BY <1>1 DEF Core, Typed, OptionIds
<1>10. QED BY <1>1, <1>3, <1>6, <1>8, <1>9, StoreStep

\* Candidate times are added, with ids that were never handed out, or all taken back.
LEMMA TimesStep ==
    ASSUME Core, NEW e \in Events, AddTimes(e) \/ ResetTimes(e) PROVE Sound
<1> DEFINE old == ballot[e]
<1>1. /\ BallotOK(old) /\ old \in BallotRow /\ now \in Nat /\ offered \in Nat
      /\ offered \in OptionIds \union {0}
      /\ \A o \in Candidates(old) : o <= offered
  BY DEF Core, Typed, BallotOK, OptionIds
<1>2. CASE AddTimes(e)
  <2>0. PICK n \in AddCounts : \E at \in [1..n -> FutureTimes] : AddTimeOptions(e, n, at)
    BY <1>2 DEF AddTimes
  <2>1. PICK at \in [1..n -> FutureTimes] : AddTimeOptions(e, n, at)
    BY <2>0
  <2> DEFINE ids == {FreshId(old, k) : k \in 1..n}
             time(o) == at[CHOOSE k \in 1..n : FreshId(old, k) = o]
             option == [o \in OptionIds |-> IF o \in ids THEN time(o) ELSE old.option[o]]
             b == [old EXCEPT !.option = option]
  <2>2. /\ ids \subseteq OptionIds /\ Store(e, b) /\ offered' = FreshId(old, n)
        /\ UNCHANGED <<slot, made, now, lineup>>
    BY <1>2, <2>1 DEF AddTimeOptions, AddTimes
  <2>3. n \in Nat \ {0}
    BY BallotAssumption
  <2>4. \A k \in 1..n : FreshId(old, k) = offered + k
    BY DEF FreshId
  <2>5. \A o \in ids : offered < o /\ o <= offered'
    BY <1>1, <2>2, <2>3, <2>4 DEF FreshId
  <2>6. FutureTimes \subseteq Nat
    BY <1>1, ScheduleAssumption DEF FutureTimes
  <2>7. \A o \in ids : time(o) \in Nat
    BY <2>6
  <2> HIDE DEF time
  <2>8. option \in [OptionIds -> Nat] /\ \A o \in OptionIds \ ids : option[o] = old.option[o]
    BY <1>1, <2>7 DEF BallotRow
  <2>9. offered' \in ids /\ offered' \in OptionIds /\ offered <= offered'
    BY <1>1, <2>2, <2>3, <2>4, <2>5 DEF FreshId
  <2> HIDE DEF option, ids
  <2>10. /\ b \in BallotRow /\ b.option = option /\ b.line = old.line /\ b.choice = old.choice
         /\ b.avail = old.avail
    BY <1>1, <2>8 DEF BallotRow
  <2> HIDE DEF b
  <2>11. Candidates(old) \subseteq Candidates(b)
    <3>1. ASSUME NEW o \in Candidates(old) PROVE o \in OptionIds /\ o \notin ids
      <4>1. o \in OptionIds /\ o <= offered /\ o \in Nat
        BY <1>1 DEF Candidates, OptionIds
      <4>2. QED BY <1>1, <2>5, <4>1
    <3>2. QED BY <2>8, <2>10, <3>1 DEF Candidates
  <2>12. Nominated(b) = Nominated(old)
    BY <2>10 DEF Nominated
  <2>13. BallotOK(b)
    BY <1>1, <2>10, <2>11, <2>12 DEF BallotOK
  <2>14. \A o \in OptionIds : b.option[o] \in {old.option[o], NoOption}
                                 \/ (offered < o /\ o <= offered')
    BY <2>5, <2>8, <2>10
  <2>15. QED BY <2>2, <2>9, <2>12, <2>13, <2>14, StoreStep
<1>3. CASE ResetTimes(e)
  <2> DEFINE b == [old EXCEPT !.option = EmptyBallot.option, !.avail = EmptyBallot.avail]
  <2>1. /\ EmptyBallot.option = [o \in OptionIds |-> NoOption]
        /\ EmptyBallot.avail = [u \in Users |-> {}]
    BY DEF EmptyBallot
  <2>2. /\ b \in BallotRow /\ b.option = EmptyBallot.option /\ b.avail = EmptyBallot.avail
        /\ b.line = old.line /\ b.choice = old.choice
    <3>1. /\ EmptyBallot.option \in [OptionIds -> Nat]
          /\ EmptyBallot.avail \in [Users -> SUBSET OptionIds]
      BY <2>1 DEF NoOption
    <3>2. ASSUME NEW o \in [OptionIds -> Nat], NEW a \in [Users -> SUBSET OptionIds]
          PROVE  LET c == [old EXCEPT !.option = o, !.avail = a]
                 IN  /\ c \in BallotRow /\ c.option = o /\ c.avail = a
                     /\ c.line = old.line /\ c.choice = old.choice
      BY <1>1 DEF BallotRow
    <3>3. QED BY <3>1, <3>2
  <2>3. Store(e, b) /\ UNCHANGED <<slot, made, now, offered, lineup>>
    BY <1>3 DEF ResetTimes, ResetTimeOptions
  <2> HIDE DEF b
  <2>4. Nominated(b) = Nominated(old) /\ \A u \in Users : b.avail[u] = {}
    BY <2>1, <2>2 DEF Nominated
  <2>5. BallotOK(b)
    BY <1>1, <2>2, <2>4 DEF BallotOK
  <2>6. \A o \in OptionIds : b.option[o] = NoOption
    BY <2>1, <2>2
  <2>7. offered' \in OptionIds \union {0} /\ offered <= offered'
    BY <1>1, <2>3
  <2>8. QED BY <2>3, <2>4, <2>5, <2>6, <2>7, StoreStep
<1>4. QED BY <1>2, <1>3

\* A command leaves every card and preview as it is.
LEMMA CommandStep == ASSUME BallotIInv, NEW e \in Events, Command(e) PROVE BallotIInv'
<1>1. Core /\ VoteCards /\ TimeCards /\ Previews /\ Typed
  BY Parts DEF Core
<1>2. Sound
  BY <1>1, CreateStep, TransitionStep, NominateStep, TimesStep DEF Command
<1>3. UNCHANGED <<votecard, timecard, preview>>
  BY DEF Command, Create, Reopen, Transition, Nominate, AddTimes, ResetTimes, cards
<1>4. Core' /\ Typed'
  BY <1>2 DEF Sound, Core
<1>5. VoteCards' /\ TimeCards' /\ Previews'
  BY <1>1, <1>2, <1>3, <1>4, VoteCardsKept, TimeCardsKept, PreviewsKept DEF Sound, Growing
<1>6. QED BY <1>4, <1>5, Parts, PTL

-----------------------------------------------------------------------------
(***************************************************************************)
(* The title card.                                                         *)
(***************************************************************************)

\* A card that is opened.
LEMMA OpenedCard ==
    ASSUME NEW e \in Events, NEW l \in Seq(Titles)
    PROVE  LET d == [NoVoteCard EXCEPT !.event = e, !.rank = l, !.shown = l]
           IN  /\ d \in VoteCard /\ d.event = e /\ d.rank = l /\ d.shown = l
               /\ d.click = NoClick
<1>1. NoClick \in Click
  BY DEF NoClick, Click
<1>2. QED BY <1>1 DEF NoVoteCard, VoteCard

\* A card with a click.
LEMMA PressedCard ==
    ASSUME NEW c \in VoteCard, NEW k \in Click
    PROVE  LET d == [c EXCEPT !.click = k]
           IN  /\ d \in VoteCard /\ d.event = c.event /\ d.rank = c.rank /\ d.shown = c.shown
               /\ d.click = k
BY DEF VoteCard

\* A card whose edit has ended.
LEMMA EditedCard ==
    ASSUME NEW c \in VoteCard
    PROVE  LET d == [c EXCEPT !.editing = FALSE]
           IN  /\ d \in VoteCard /\ d.event = c.event /\ d.rank = c.rank /\ d.shown = c.shown
               /\ d.click = c.click
BY DEF VoteCard

\* A card that shows its list.
LEMMA RedrawnCard ==
    ASSUME NEW c \in VoteCard, NEW l \in Seq(Titles)
    PROVE  LET d == [c EXCEPT !.shown = l]
           IN  /\ d \in VoteCard /\ d.event = c.event /\ d.rank = c.rank /\ d.shown = l
               /\ d.click = c.click
BY DEF VoteCard

\* A step that stores nothing and gives a member a right card.
LEMMA QuietVoteCard ==
    ASSUME BallotIInv, NEW u \in Users, NEW d \in VoteCard, SetVote(u, d),
           d = NoVoteCard \/ ListsNominated(d),
           UNCHANGED <<event, slot, made, now, ballot, offered, lineup, timecard, preview>>
    PROVE  BallotIInv'
<1>1. Core /\ VoteCards /\ TimeCards /\ Previews /\ Typed
  BY Parts DEF Core
<1>2. Sound
  BY <1>1, QuietStep
<1>3. Core' /\ Typed' /\ Growing
  BY <1>2 DEF Sound, Core
<1>4. d = NoVoteCard \/ ListsNominated(d)'
  BY <1>3, VoteCardKept DEF Growing
<1>5. VoteCards'
  BY <1>1, <1>3, <1>4, VoteCardSet DEF Growing, SetVote
<1>6. TimeCards' /\ Previews'
  BY <1>1, <1>2, <1>3, TimeCardsKept, PreviewsKept DEF Sound
<1>7. QED BY <1>3, <1>5, <1>6, Parts, PTL

\* Opening, clicking, showing and closing a title card stores nothing.
LEMMA ShowVoteStep ==
    ASSUME BallotIInv, NEW u \in Users,
           \/ \E e \in Events : OpenVote(u, e)
           \/ \E i \in DOMAIN votecard[u].shown : PressVote(u, i)
           \/ ShowVote(u) \/ CloseVote(u)
    PROVE  BallotIInv'
<1> DEFINE c == votecard[u]
<1>1. /\ c \in VoteCard /\ (c = NoVoteCard \/ ListsNominated(c))
      /\ \A e \in Events : ballot[e].line \in Seq(Titles)
  BY Parts DEF VoteCards, VoteCardShape, Core, BallotOK, BallotRow
<1>2. /\ NoVoteCard \in VoteCard /\ NoVoteCard.shown = <<>> /\ NoVoteCard.rank = <<>>
      /\ NoVoteCard.click = NoClick
  BY DEF NoVoteCard, VoteCard, NoClick, Click
<1>3. UNCHANGED <<event, slot, made, now, ballot, offered, lineup, timecard, preview>>
  BY DEF OpenVote, PressVote, ShowVote, CloseVote, schedule
<1> HIDE DEF c
<1>4. ASSUME NEW e \in Events, OpenVote(u, e) PROVE BallotIInv'
  <2> DEFINE l == Ranking(ballot[e])
             d == [NoVoteCard EXCEPT !.event = e, !.rank = l, !.shown = l]
  <2>1. /\ l \in Seq(Titles) /\ DOMAIN l = DOMAIN ballot[e].line
        /\ \A k \in DOMAIN ballot[e].line : l[k] \in Nominated(ballot[e])
    BY <1>1, RankingLists
  <2>2. SetVote(u, d)
    BY <1>4 DEF OpenVote
  <2> HIDE DEF l
  <2>3. d \in VoteCard /\ d.event = e /\ d.rank = l /\ d.shown = l /\ d.click = NoClick
    BY <2>1, OpenedCard
  <2> HIDE DEF d
  <2>4. ListsNominated(d)
    BY <2>1, <2>3 DEF ListsNominated
  <2>5. QED BY <1>3, <2>2, <2>3, <2>4, QuietVoteCard
<1>5. ASSUME NEW i \in DOMAIN c.shown, PressVote(u, i) PROVE BallotIInv'
  <2> DEFINE k == [at |-> i, title |-> c.shown[i]]
             d == [c EXCEPT !.click = k]
  <2>1. ListsNominated(c)
    BY <1>1, <1>2, <1>5
  <2>2. c.shown \in Seq(Titles)
    BY <1>1 DEF VoteCard
  <2>3. i \in Nat /\ c.shown[i] \in Titles
    BY <1>5, <2>2, LenProperties, ElementOfSeq
  <2>4. k \in Click /\ k.title = c.shown[i]
    BY <2>3 DEF Click
  <2>5. SetVote(u, d)
    BY <1>5 DEF PressVote, c
  <2> HIDE DEF k
  <2>6. /\ d \in VoteCard /\ d.event = c.event /\ d.rank = c.rank /\ d.shown = c.shown
        /\ d.click = k
    BY <1>1, <2>4, PressedCard
  <2> HIDE DEF d
  <2>7. ListsNominated(d)
    BY <1>5, <2>1, <2>4, <2>6 DEF ListsNominated
  <2>8. QED BY <1>3, <2>5, <2>6, <2>7, QuietVoteCard
<1>6. CASE ShowVote(u)
  <2> DEFINE d == [c EXCEPT !.editing = FALSE]
             r == [d EXCEPT !.shown = d.rank]
  <2>1. /\ d \in VoteCard /\ d.event = c.event /\ d.rank = c.rank /\ d.shown = c.shown
        /\ d.click = c.click
    BY <1>1, EditedCard
  <2>2. SetVote(u, r) \/ SetVote(u, d)
    BY <1>6 DEF ShowVote, c
  <2>3. c.editing /\ ListsNominated(c)
    BY <1>1, <1>6 DEF ShowVote, NoVoteCard, c
  <2> HIDE DEF d
  <2>4. d.rank \in Seq(Titles)
    BY <2>1 DEF VoteCard
  <2>5. /\ r \in VoteCard /\ r.event = d.event /\ r.rank = d.rank /\ r.shown = d.rank
        /\ r.click = d.click
    BY <2>1, <2>4, RedrawnCard
  <2> HIDE DEF r
  <2>6. ListsNominated(d) /\ ListsNominated(r)
    BY <2>1, <2>3, <2>5 DEF ListsNominated
  <2>7. QED BY <1>3, <2>1, <2>2, <2>5, <2>6, QuietVoteCard
<1>7. CASE CloseVote(u)
  BY <1>2, <1>3, <1>7, QuietVoteCard DEF CloseVote
<1>8. QED BY <1>4, <1>5, <1>6, <1>7 DEF c

\* A vote that is given, moved or taken back keeps the ballot well formed.
LEMMA ToggleStep ==
    ASSUME Core, NEW e \in Events, NEW u \in Users, NEW t \in Nominated(ballot[e]),
           ToggleVote(e, u, t), UNCHANGED <<slot, made, now, offered, lineup>>
    PROVE  Sound /\ ballot'[e].line \in Seq(Titles)
<1> DEFINE old == ballot[e]
           choice == [old.choice EXCEPT ![u] = Toggled(@, t)]
           b == [old EXCEPT !.choice = choice]
<1>1. BallotOK(old) /\ old \in BallotRow /\ offered \in Nat /\ offered \in OptionIds \union {0}
  BY DEF Core, Typed, BallotOK, OptionIds
<1>2. Store(e, b)
  BY DEF ToggleVote
<1>3. t \in Titles /\ old.choice[u] \in SUBSET Titles /\ old.choice \in [Users -> SUBSET Titles]
  <2>1. old.line \in Seq(Titles) /\ old.choice \in [Users -> SUBSET Titles]
    BY <1>1 DEF BallotRow
  <2>2. \A i \in DOMAIN old.line : old.line[i] \in Titles
    BY <2>1, ElementOfSeq, LenProperties
  <2>3. QED BY <2>1, <2>2 DEF Nominated
<1>4. /\ old.choice[u] \subseteq Nominated(old) /\ Cardinality(old.choice[u]) <= VoteLimit
  BY <1>1 DEF BallotOK
<1>5. /\ Toggled(old.choice[u], t) \subseteq old.choice[u] \union {t}
      /\ Toggled(old.choice[u], t) \in SUBSET Titles
      /\ Cardinality(Toggled(old.choice[u], t)) <= VoteLimit
  BY <1>3, <1>4, ToggledType
<1>6. /\ choice \in [Users -> SUBSET Titles] /\ choice[u] = Toggled(old.choice[u], t)
      /\ \A v \in Users \ {u} : choice[v] = old.choice[v]
  BY <1>3, <1>5
<1> HIDE DEF choice
<1>7. /\ b \in BallotRow /\ b.choice = choice /\ b.line = old.line
      /\ b.option = old.option /\ b.avail = old.avail
  BY <1>1, <1>6 DEF BallotRow
<1> HIDE DEF b
<1>8. Nominated(b) = Nominated(old) /\ Candidates(b) = Candidates(old)
  BY <1>7 DEF Nominated, Candidates
<1>9. \A v \in Users : /\ b.choice[v] \subseteq Nominated(b)
                         /\ Cardinality(b.choice[v]) <= VoteLimit
                         /\ b.avail[v] \subseteq Candidates(b)
  <2>1. \A v \in Users : /\ old.choice[v] \subseteq Nominated(old)
                           /\ Cardinality(old.choice[v]) <= VoteLimit
                           /\ old.avail[v] \subseteq Candidates(old)
    BY <1>1 DEF BallotOK
  <2>2. QED BY <1>5, <1>6, <1>7, <1>8, <2>1
<1>10. BallotOK(b)
  BY <1>1, <1>7, <1>9 DEF BallotOK
<1>11. offered' \in OptionIds \union {0} /\ offered <= offered'
  BY <1>1
<1>12. Sound /\ ballot'[e] = b
  BY <1>2, <1>7, <1>8, <1>10, <1>11, StoreStep
<1>13. QED BY <1>7, <1>12 DEF BallotRow

\* A member's card lists what is nominated after the vote was counted.
LEMMA CountedVote ==
    ASSUME VoteCards, Growing, NEW u \in Users, NEW c, ListsNominated(c),
           NEW r \in VoteCard, r.event = c.event, r.shown = c.shown, r.click = NoClick,
           \A i \in DOMAIN r.rank : r.rank[i] \in Nominated(ballot'[c.event]),
           votecard' = [votecard EXCEPT ![u] = r]
    PROVE  VoteCards'
<1>1. \A i \in DOMAIN c.shown : c.shown[i] \in Nominated(ballot'[c.event])
  BY DEF ListsNominated, Growing
<1>2. ListsNominated(r)'
  BY <1>1 DEF ListsNominated
<1>3. QED BY <1>2, VoteCardSet DEF Growing

\* A click is counted for the title that its button showed, or dropped.
LEMMA HandleVoteStep ==
    ASSUME BallotIInv, NEW u \in Users, HandleVote(u) PROVE BallotIInv'
<1> DEFINE c == votecard[u]
           e == c.event
           t == c.rank[c.click.at]
<1>1. Core /\ VoteCards /\ TimeCards /\ Previews /\ Typed
  BY Parts DEF Core
<1>2. NoClick \in Click /\ NoVoteCard \in VoteCard /\ NoVoteCard.click = NoClick
  BY DEF NoVoteCard, VoteCard, NoClick, Click
<1>3. /\ c \in VoteCard /\ c.click # NoClick /\ ListsNominated(c)
      /\ UNCHANGED <<slot, made, now, offered, lineup, timecard, preview>>
  BY <1>1, <1>2 DEF HandleVote, VoteCards, VoteCardShape
<1> DEFINE d == [c EXCEPT !.click = NoClick]
<1>4. CASE SetVote(u, d) /\ UNCHANGED <<event, ballot>>
  <2>1. /\ d \in VoteCard /\ d.event = c.event /\ d.rank = c.rank /\ d.shown = c.shown
        /\ d.click = NoClick
    BY <1>2, <1>3, PressedCard
  <2>2. SetVote(u, d)
    BY <1>4
  <2> HIDE DEF c, d
  <2>3. ListsNominated(d)
    BY <1>3, <2>1 DEF ListsNominated
  <2>4. QED BY <1>3, <1>4, <2>1, <2>2, <2>3, QuietVoteCard
<1>5. CASE SetVote(u, NoVoteCard) /\ UNCHANGED <<event, ballot>>
  BY <1>2, <1>3, <1>5, QuietVoteCard
<1>6. CASE /\ SameButton(c) /\ ToggleVote(e, u, t)
           /\ SetVote(u, [c EXCEPT !.click = NoClick, !.rank = Ranking(ballot'[e]),
                                   !.editing = TRUE])
  <2>1. e \in Events /\ t \in Nominated(ballot[e])
    BY <1>3, <1>6 DEF ListsNominated, SameButton
  <2>2. Sound /\ ballot'[e].line \in Seq(Titles)
    BY <1>1, <1>3, <1>6, <2>1, ToggleStep
  <2>3. PICK l \in Seq(Titles) :
           /\ l = Ranking(ballot'[e]) /\ DOMAIN l = DOMAIN ballot'[e].line
           /\ \A k \in DOMAIN ballot'[e].line : l[k] \in Nominated(ballot'[e])
    BY <2>2, RankingLists
  <2>4. PICK w \in BOOLEAN : SetVote(u, [c EXCEPT !.click = NoClick, !.rank = l, !.editing = w])
    BY <1>6, <2>3
  <2> DEFINE r == [c EXCEPT !.click = NoClick, !.rank = l, !.editing = w]
  <2>5. votecard' = [votecard EXCEPT ![u] = r]
    BY <2>4 DEF SetVote
  <2> HIDE DEF c
  <2>6. /\ r \in VoteCard /\ r.event = c.event /\ r.rank = l /\ r.shown = c.shown
        /\ r.click = NoClick
    <3>1. c \in VoteCard /\ NoClick \in Click
      BY <1>2, <1>3
    <3>2. QED BY ONLY <3>1, l \in Seq(Titles), w \in BOOLEAN DEF VoteCard
  <2> HIDE DEF r
  <2>7. \A i \in DOMAIN r.rank : r.rank[i] \in Nominated(ballot'[e])
    BY <2>3, <2>6
  <2>8. VoteCards'
    <3>1. VoteCards /\ Growing /\ ListsNominated(c)
      BY <1>1, <1>3, <2>2 DEF Sound
    <3>2. QED BY <2>5, <2>6, <2>7, <3>1, CountedVote
  <2>9. Core' /\ Typed'
    BY <2>2 DEF Sound, Core
  <2>10. TimeCards' /\ Previews'
    BY <1>1, <1>3, <2>2, <2>9, TimeCardsKept, PreviewsKept DEF Sound
  <2>11. QED BY <2>8, <2>9, <2>10, Parts, PTL
<1>7. QED BY <1>4, <1>5, <1>6 DEF HandleVote

-----------------------------------------------------------------------------
(***************************************************************************)
(* The time card.                                                          *)
(***************************************************************************)

\* A card that shows the times that are still to come.
LEMMA CardShows ==
    ASSUME Core, NEW e \in Events
    PROVE  LET c == CardOf(e, ballot[e])
           IN  /\ c \in TimeCard
               /\ c = NoTimeCard \/ (c.event = e /\ \A o \in OptionIds :
                     c.shows[o] # NoOption => o <= offered /\ c.shows[o] = ballot[e].option[o])
<1> DEFINE b == ballot[e]
           shows == [o \in OptionIds |-> IF o \in Future(b, now) THEN b.option[o] ELSE NoOption]
           c == [event |-> e, shows |-> shows]
<1>1. b \in BallotRow /\ \A o \in Candidates(b) : o <= offered
  BY DEF Core, BallotOK
<1>2. shows \in [OptionIds -> Nat] /\ NoTimeCard \in TimeCard
  BY <1>1 DEF BallotRow, NoOption, NoTimeCard, TimeCard
<1>3. \A o \in OptionIds : shows[o] # NoOption => o \in Candidates(b) /\ shows[o] = b.option[o]
  BY DEF Future
<1> HIDE DEF shows
<1>4. c \in TimeCard /\ c.event = e /\ c.shows = shows
  BY <1>2 DEF TimeCard
<1>5. CardOf(e, b) = NoTimeCard \/ CardOf(e, b) = c
  BY DEF CardOf, shows
<1>6. QED BY <1>1, <1>2, <1>3, <1>4, <1>5

\* A member's card after a step that stored something for the event or nothing.
LEMMA TimeCardStep ==
    ASSUME TimeCards, Sound, Core, NEW u \in Users, NEW d \in TimeCard, SetTimes(u, d),
           UNCHANGED <<votecard, preview>>, VoteCards, Previews,
           d = NoTimeCard \/ ShowsOffered(d)
    PROVE  BallotIInv'
<1>1. Typed /\ Typed' /\ Reissued /\ Core'
  BY CoreTyped DEF Sound, Core
<1>2. d = NoTimeCard \/ ShowsOffered(d)'
  BY <1>1, TimeCardKept
<1>3. TimeCards'
  BY <1>1, <1>2, TimeCardSet DEF SetTimes
<1>4. VoteCards' /\ Previews'
  BY <1>1, VoteCardsKept, PreviewsKept DEF Sound, Growing
<1>5. QED BY <1>1, <1>3, <1>4, Parts, PTL

\* Opening, saving and closing a time card.
LEMMA TimeStep ==
    ASSUME BallotIInv, NEW u \in Users,
           \/ \E e \in Events : OpenTimes(u, e)
           \/ \E S \in SUBSET OptionIds : SaveTimes(u, S)
           \/ CloseTimes(u)
    PROVE  BallotIInv'
<1>1. Core /\ VoteCards /\ TimeCards /\ Previews
  BY Parts
<1>2. NoTimeCard \in TimeCard
  BY DEF NoTimeCard, TimeCard, NoOption
<1>3. timecard[u] \in TimeCard /\ (timecard[u] = NoTimeCard \/ ShowsOffered(timecard[u]))
  BY <1>1 DEF TimeCards
<1>4. ASSUME NEW e \in Events, OpenTimes(u, e) PROVE BallotIInv'
  <2>1. Sound
    BY <1>1, <1>4, QuietStep DEF OpenTimes, schedule
  <2>2. PICK c : c = CardOf(e, ballot[e])
    OBVIOUS
  <2>3. c \in TimeCard /\ (c = NoTimeCard \/ ShowsOffered(c))
    BY <1>1, <2>2, CardShows DEF ShowsOffered
  <2>4. SetTimes(u, c) /\ UNCHANGED <<votecard, preview>>
    BY <1>4, <2>2 DEF OpenTimes
  <2>5. QED BY <1>1, <2>1, <2>3, <2>4, TimeCardStep
<1>5. ASSUME NEW S \in SUBSET OptionIds, SaveTimes(u, S) PROVE BallotIInv'
  <2> DEFINE e == timecard[u].event
             old == ballot[e]
  <2>1. UNCHANGED <<slot, made, now, offered, votecard, preview, lineup>>
    BY <1>5 DEF SaveTimes
  <2>2. CASE SetTimes(u, NoTimeCard) /\ UNCHANGED <<event, ballot>>
    <3>1. Sound
      BY <1>1, <2>1, <2>2, QuietStep
    <3>2. QED BY <1>1, <1>2, <2>1, <2>2, <3>1, TimeCardStep
  <2>3. CASE /\ e \in Open /\ S \subseteq Future(old, now)
             /\ StoreTimes(e, [old EXCEPT !.avail[u] = S])
             /\ \E c \in {timecard[u], CardOf(e, old)} : SetTimes(u, c)
    <3> DEFINE b == [old EXCEPT !.avail[u] = S]
    <3>1. e \in Events /\ BallotOK(old) /\ old \in BallotRow
      BY <1>1, <2>3 DEF Open, Core, BallotOK
    <3>2. /\ b \in BallotRow /\ b.line = old.line /\ b.choice = old.choice
          /\ b.option = old.option /\ b.avail = [old.avail EXCEPT ![u] = S]
          /\ old.avail \in [Users -> SUBSET OptionIds]
      BY <3>1 DEF BallotRow
    <3>3. Store(e, b)
      BY <2>3 DEF StoreTimes
    <3> HIDE DEF b
    <3>4. /\ Nominated(b) = Nominated(old) /\ Candidates(b) = Candidates(old)
          /\ S \subseteq Candidates(old)
      BY <2>3, <3>2 DEF Nominated, Candidates, Future
    <3>5. BallotOK(b)
      BY <3>1, <3>2, <3>4 DEF BallotOK
    <3>6. offered \in Nat /\ offered' = offered /\ offered' \in OptionIds \union {0}
      BY <1>1, <2>1, CoreTyped DEF Typed
    <3>7. Sound
      BY <1>1, <2>1, <3>2, <3>3, <3>4, <3>5, <3>6, StoreStep
    <3>8. PICK c : c \in {timecard[u], CardOf(e, old)} /\ SetTimes(u, c)
      BY <2>3
    <3>9. c \in TimeCard /\ (c = NoTimeCard \/ ShowsOffered(c))
      BY <1>1, <1>3, <3>1, <3>8, CardShows DEF ShowsOffered
    <3>10. QED BY <1>1, <2>1, <3>7, <3>8, <3>9, TimeCardStep
  <2>4. QED BY <1>5, <2>2, <2>3 DEF SaveTimes
<1>6. CASE CloseTimes(u)
  <2>1. Sound
    BY <1>1, <1>6, QuietStep DEF CloseTimes, schedule
  <2>2. QED BY <1>1, <1>2, <1>6, <2>1, TimeCardStep DEF CloseTimes
<1>7. QED BY <1>4, <1>5, <1>6

-----------------------------------------------------------------------------
(***************************************************************************)
(* The preview.                                                            *)
(***************************************************************************)

\* A single time.
LEMMA OneTime ==
    ASSUME NEW t \in Nat PROVE <<t>> \in Seq(Nat) /\ Len(<<t>>) = 1 /\ <<t>>[1] = t
OBVIOUS

\* build_ranked_schedule: a plan says what the ballot says when it is made.
LEMMA PlanIsCurrent ==
    ASSUME Core, NEW e \in Open, NEW at \in Seq(Nat),
           NEW how \in {"voted", "chosen", "typed", "preset"},
           NEW d, d = PlanOf(e, at, how),
           how \in {"voted", "chosen"} => Len(at) = 1,
           how = "voted" => BestTimes(ballot[e], now) = {at[1]},
           how = "chosen" => (at[1] > now => at[1] \in BestTimes(ballot[e], now))
    PROVE  d \in Preview /\ PreviewOK(d)
<1>1. /\ e \in Events /\ event[e] \in EventRow /\ event[e].status = "open"
      /\ event[e].revision \in Nat /\ ballot[e].line \in Seq(Titles)
  BY CoreTyped DEF Open, Typed, EventRow, Core, BallotOK, BallotRow
<1>2. Top(ballot[e], Len(at)) \in Seq(Titles \union {None})
  <2>1. Len(at) \in Nat
    BY LenProperties
  <2>2. QED BY <1>1, <2>1, TopType
<1>3. /\ d \in Preview /\ d.pc = "plan" /\ d.event = e /\ d.revision = event[e].revision
      /\ d.at = at /\ d.titles = Top(ballot[e], Len(at)) /\ d.how = how
  <2>1. PICK v \in Nat : v = event[e].revision
    BY <1>1
  <2>2. PICK titles \in Seq(Titles \union {None}) : titles = Top(ballot[e], Len(at))
    BY <1>2
  <2>3. d = [NoPreview EXCEPT !.pc = "plan", !.event = e, !.revision = v,
                              !.at = at, !.titles = titles, !.how = how]
    BY <2>1, <2>2 DEF PlanOf
  <2>4. /\ d \in Preview /\ d.pc = "plan" /\ d.event = e /\ d.revision = v
        /\ d.at = at /\ d.titles = titles /\ d.how = how
    BY ONLY <1>1, <2>3, v \in Nat, titles \in Seq(Titles \union {None}), at \in Seq(Nat),
            how \in {"voted", "chosen", "typed", "preset"} DEF NoPreview, Preview
  <2>5. QED BY <2>1, <2>2, <2>4
<1>4. SaysWhatTheBallotSays(d)
  BY <1>3 DEF SaysWhatTheBallotSays, StillWins, StillWinsAlone
<1>5. QED BY <1>1, <1>3, <1>4 DEF PreviewOK

\* A step that gives an administrator a right preview, or none.
LEMMA PreviewStep ==
    ASSUME BallotIInv, Sound, NEW a \in Admins, NEW d \in Preview, SetPreview(a, d),
           d = NoPreview \/ PreviewOK(d), UNCHANGED <<votecard, timecard>>
    PROVE  BallotIInv'
<1>1. Core /\ VoteCards /\ TimeCards /\ Previews
  BY Parts
<1>2. Typed /\ Typed' /\ Onward /\ Reissued /\ Growing /\ Core' /\ now' \in {now, now + 1}
  BY <1>1, CoreTyped DEF Sound, Core
<1>3. PreviewOK(d)
  BY DEF PreviewOK, NoPreview
<1>4. PreviewOK(d)'
  BY <1>2, <1>3, PreviewKept
<1>5. Previews'
  BY <1>1, <1>2, <1>4, PreviewSet DEF SetPreview
<1>6. VoteCards' /\ TimeCards'
  BY <1>1, <1>2, VoteCardsKept, TimeCardsKept DEF Growing
<1>7. QED BY <1>2, <1>5, <1>6, Parts, PTL

\* event_schedule
LEMMA ProposeStep ==
    ASSUME BallotIInv, NEW a \in Admins, NEW e \in Events, Propose(a, e) PROVE BallotIInv'
<1> DEFINE times == BestTimes(ballot[e], now)
<1>1. Core /\ e \in Open /\ UNCHANGED <<votecard, timecard>>
  BY Parts DEF Propose
<1>2. Sound
  BY <1>1, QuietStep DEF Propose, schedule
<1>3. /\ ballot[e] \in BallotRow /\ now \in Nat /\ event[e] \in EventRow
      /\ event[e].revision \in Nat
  BY <1>1, CoreTyped DEF Typed, EventRow
<1>4. times \subseteq Nat
  BY <1>3, BestTimesType
<1>5. ASSUME NEW at \in Seq(Nat), NEW how \in {"typed", "preset"},
             SetPreview(a, PlanOf(e, at, how))
      PROVE  BallotIInv'
  <2>1. PICK d : d = PlanOf(e, at, how)
    OBVIOUS
  <2>2. d \in Preview /\ PreviewOK(d)
    BY <1>1, <2>1, PlanIsCurrent
  <2>3. QED BY <1>1, <1>2, <1>5, <2>1, <2>2, PreviewStep
<1>6. CASE SetPreview(a, PlanOf(e, PresetTimes, "preset"))
  <2>1. PresetTimes \in Seq(Nat)
    BY BallotAssumption
  <2>2. QED BY <1>5, <1>6, <2>1
<1>7. ASSUME NEW n \in SlotCounts, NEW at \in [1..n -> FutureTimes],
             SetPreview(a, PlanOf(e, at, "typed"))
      PROVE  BallotIInv'
  <2>1. n \in Nat /\ FutureTimes \subseteq Nat
    BY <1>3, BallotAssumption, ScheduleAssumption DEF FutureTimes
  <2>2. at \in Seq(Nat)
    <3>1. at \in [1..n -> Nat]
      BY <2>1
    <3>2. QED BY <2>1, <3>1, SeqDef
  <2>3. QED BY <1>5, <1>7, <2>2
<1>8. ASSUME NEW t \in times, times = {t}, SetPreview(a, PlanOf(e, <<t>>, "voted"))
      PROVE  BallotIInv'
  <2>1. <<t>> \in Seq(Nat) /\ Len(<<t>>) = 1 /\ <<t>>[1] = t
    BY <1>4, OneTime
  <2>2. PICK d : d = PlanOf(e, <<t>>, "voted")
    OBVIOUS
  <2>3. d \in Preview /\ PreviewOK(d)
    BY <1>1, <1>8, <2>1, <2>2, PlanIsCurrent
  <2>4. QED BY <1>1, <1>2, <1>8, <2>2, <2>3, PreviewStep
<1>9. CASE SetPreview(a, [NoPreview EXCEPT !.pc = "tie", !.event = e, !.ties = times,
                             !.revision = event[e].revision])
  <2>1. PICK v \in Nat, ties \in SUBSET Nat : v = event[e].revision /\ ties = times
    BY <1>3, <1>4
  <2>2. PICK d : d = [NoPreview EXCEPT !.pc = "tie", !.event = e, !.ties = ties, !.revision = v]
    OBVIOUS
  <2>3. /\ d \in Preview /\ d.pc = "tie" /\ d.event = e /\ d.revision = v
        /\ d.ties = ties
    <3>1. <<>> \in Seq(Nat) /\ <<>> \in Seq(Titles \union {None})
      BY EmptySeq
    <3>2. QED BY ONLY <2>2, <3>1, e \in Events, v \in Nat, ties \in SUBSET Nat
          DEF NoPreview, Preview
  <2>4. PreviewOK(d)
    BY <1>1, <1>3, <2>1, <2>3 DEF PreviewOK, SaysWhatTheBallotSays, StillWins, Open
  <2>5. QED BY <1>1, <1>2, <1>9, <2>1, <2>2, <2>3, <2>4, PreviewStep
<1>10. QED BY <1>6, <1>7, <1>8, <1>9 DEF Propose

\* The choice of a time, the end of a card.
LEMMA CardStep ==
    ASSUME BallotIInv, NEW a \in Admins,
           ClosePreview(a) \/ \E t \in preview[a].ties : ChooseTime(a, t)
    PROVE  BallotIInv'
<1> DEFINE p == preview[a]
           e == p.event
<1>1. Core /\ Previews /\ UNCHANGED <<votecard, timecard>>
  BY Parts DEF ClosePreview, ChooseTime
<1>2. Sound
  BY <1>1, QuietStep DEF ClosePreview, ChooseTime, schedule
<1>3. p \in Preview /\ PreviewOK(p) /\ NoPreview \in Preview
  <2>1. <<>> \in Seq(Nat) /\ <<>> \in Seq(Titles \union {None})
    BY EmptySeq
  <2>2. QED BY <1>1, <2>1 DEF Previews, PreviewShape, NoPreview, Preview
<1>4. CASE SetPreview(a, NoPreview)
  BY <1>1, <1>2, <1>3, <1>4, PreviewStep
<1>5. ASSUME NEW t \in p.ties, p.pc = "tie", SameRevision(p),
             SetPreview(a, PlanOf(e, <<t>>, "chosen"))
      PROVE  BallotIInv'
  <2>1. t \in Nat /\ e \in Open /\ SaysWhatTheBallotSays(p)
    BY <1>3, <1>5 DEF Preview, SameRevision, PreviewOK, Current, Open
  <2>2. <<t>> \in Seq(Nat) /\ Len(<<t>>) = 1 /\ <<t>>[1] = t
    BY <2>1, OneTime
  <2>3. t > now => t \in BestTimes(ballot[e], now)
    BY <1>5, <2>1 DEF SaysWhatTheBallotSays, StillWins
  <2>4. PICK d : d = PlanOf(e, <<t>>, "chosen")
    OBVIOUS
  <2>5. d \in Preview /\ PreviewOK(d)
    BY <1>1, <2>1, <2>2, <2>3, <2>4, PlanIsCurrent
  <2>6. QED BY <1>1, <1>2, <1>5, <2>4, <2>5, PreviewStep
<1>6. QED BY <1>4, <1>5 DEF ClosePreview, ChooseTime

\* freeze_schedule: the slots of the event are the new ones, at the times of the preview.
LEMMA FrozenSlots ==
    ASSUME Core, NEW e \in Events, NEW at \in Seq(Nat), FreezeSchedule(e, Len(at), at)
    PROVE  /\ slot' \in [SlotIds -> SlotRow] /\ made' \in SlotIds \union {0}
           /\ \A f \in Events \ {e} : SlotsOf(f)' \subseteq SlotsOf(f)
           /\ SlotsOf(e)' = SlotsOf(e) \union {made + k : k \in 1..Len(at)}
           /\ \A k \in 1..Len(at) : slot'[made + k].at = at[k]
<1> DEFINE n == Len(at)
           new == (made + 1)..(made + n)
           row(s) == [NoSlot EXCEPT !.event = e, !.at = at[s - made]]
<1>1. /\ n \in Nat /\ made \in SlotIds \union {0} /\ made \in Nat /\ slot \in [SlotIds -> SlotRow]
      /\ \A k \in 1..n : at[k] \in Nat
  BY LenProperties, ElementOfSeq DEF Core, SlotIds
<1>2. /\ new \subseteq SlotIds /\ made' = made + n
      /\ slot' = [s \in SlotIds |-> IF s \in new THEN row(s) ELSE slot[s]]
  BY DEF FreezeSchedule
<1>3. ASSUME NEW s \in new
      PROVE  row(s) \in SlotRow /\ row(s).event = e /\ row(s).at = at[s - made]
  <2>1. s - made \in 1..n
    BY <1>1
  <2>2. at[s - made] \in Nat
    BY <1>1, <2>1
  <2>3. NoSlot \in SlotRow
    BY DEF NoSlot, SlotRow, Remotes
  <2>4. ASSUME NEW r \in SlotRow, NEW v \in Nat
        PROVE  /\ [r EXCEPT !.event = e, !.at = v] \in SlotRow
               /\ [r EXCEPT !.event = e, !.at = v].event = e
               /\ [r EXCEPT !.event = e, !.at = v].at = v
    BY DEF SlotRow
  <2>5. QED BY <2>2, <2>3, <2>4
<1> HIDE DEF row
<1>4. slot' \in [SlotIds -> SlotRow]
  BY <1>1, <1>2, <1>3
<1>5. made' \in SlotIds \union {0}
  <2>1. CASE n = 0
    BY <1>1, <1>2, <2>1
  <2>2. CASE n # 0
    <3>1. made + n \in new
      BY <1>1, <2>2
    <3>2. QED BY <1>2, <3>1
  <2>3. QED BY <2>1, <2>2
<1>6. \A s \in SlotIds : slot'[s] = IF s \in new THEN row(s) ELSE slot[s]
  BY <1>2
<1>7. \A f \in Events \ {e} : SlotsOf(f)' \subseteq SlotsOf(f)
  BY <1>3, <1>6 DEF SlotsOf
<1>8. new = {made + k : k \in 1..n}
  <2>1. ASSUME NEW s \in new PROVE \E k \in 1..n : s = made + k
    <3>1. s - made \in 1..n /\ s = made + (s - made)
      BY <1>1
    <3>2. QED BY <3>1
  <2>2. \A k \in 1..n : made + k \in new
    BY <1>1
  <2>3. QED BY <2>1, <2>2
<1>9. SlotsOf(e)' = SlotsOf(e) \union new
  BY <1>2, <1>3, <1>6 DEF SlotsOf
<1>10. ASSUME NEW k \in 1..n PROVE slot'[made + k].at = at[k]
  <2>1. made + k \in new /\ (made + k) - made = k
    BY <1>1
  <2>2. QED BY <1>2, <1>3, <1>6, <2>1
<1>11. QED BY <1>4, <1>5, <1>7, <1>8, <1>9, <1>10

\* confirm: what is published is what the ballot says.
LEMMA ConfirmStep ==
    ASSUME BallotIInv, NEW a \in Admins, Confirm(a) PROVE BallotIInv'
<1> DEFINE p == preview[a]
           e == p.event
           n == Len(p.at)
<1>1. Core /\ Previews /\ SetPreview(a, NoPreview)
      /\ UNCHANGED <<now, ballot, offered, votecard, timecard>>
  BY Parts DEF Confirm
<1>2. p \in Preview /\ PreviewOK(p) /\ NoPreview \in Preview
  <2>1. <<>> \in Seq(Nat) /\ <<>> \in Seq(Titles \union {None})
    BY EmptySeq
  <2>2. QED BY <1>1, <2>1 DEF Previews, PreviewShape, NoPreview, Preview
<1>3. CASE UNCHANGED <<schedule, lineup>>
  <2>1. Sound
    BY <1>1, <1>3, QuietStep DEF schedule
  <2>2. QED BY <1>1, <1>2, <2>1, PreviewStep
<1>4. CASE /\ SameRevision(p) /\ FreezeSchedule(e, n, p.at)
           /\ lineup' = [lineup EXCEPT ![e] = p.titles]
  <2>1. /\ e \in Events /\ event[e].status = "open" /\ p.at \in Seq(Nat)
        /\ p.titles \in Seq(Titles \union {None}) /\ ballot[e].line \in Seq(Titles)
    BY <1>1, <1>2, <1>4 DEF SameRevision, Open, Preview, Core, BallotOK, BallotRow
  <2>2. /\ slot' \in [SlotIds -> SlotRow] /\ made' \in SlotIds \union {0}
        /\ \A f \in Events \ {e} : SlotsOf(f)' \subseteq SlotsOf(f)
    BY <1>1, <1>4, <2>1, FrozenSlots
  <2>3. p.titles = Top(ballot[e], n)
    BY <1>2, <1>4, <2>1 DEF Confirm, SameRevision, PreviewOK, Current, SaysWhatTheBallotSays
  <2>4. p.titles = Top(ballot[e], Len(p.titles))
    <3>1. n \in Nat
      BY <2>1, LenProperties
    <3>2. QED BY <2>1, <2>3, <3>1, TopType
  <2>5. event' = [event EXCEPT ![e] = Changed(e, "scheduled")]
    BY <1>4 DEF FreezeSchedule
  <2>6. Sound
    <3>1. PICK f \in Events, line \in Seq(Titles \union {None}) : f = e /\ line = p.titles
      BY <2>1
    <3>2. /\ lineup' = [lineup EXCEPT ![f] = line] /\ line = Top(ballot[f], Len(line))
          /\ event' = [event EXCEPT ![f] = Changed(f, "scheduled")]
          /\ event[f].status # "none"
          /\ \A g \in Events \ {f} : SlotsOf(g)' \subseteq SlotsOf(g)
      BY <1>4, <2>1, <2>2, <2>4, <2>5, <3>1
    <3>3. "scheduled" \in Statuses \ {"none"} /\ "scheduled" # "open"
      BY DEF Statuses
    <3>4. QED BY ONLY <1>1, <2>2, <3>2, <3>3, f \in Events,
                      line \in Seq(Titles \union {None}), ScheduleStep
  <2>7. QED BY <1>1, <1>2, <2>6, PreviewStep
<1>5. QED BY <1>3, <1>4 DEF Confirm

\* The clock goes on.
LEMMA TickStep == ASSUME BallotIInv, Tick PROVE BallotIInv'
<1>1. Core /\ VoteCards /\ TimeCards /\ Previews /\ Typed /\ offered \in Nat
  BY Parts, CoreTyped
<1>2. now' = now + 1 /\ UNCHANGED <<event, slot, made, ballot, offered, lineup>>
      /\ UNCHANGED <<votecard, timecard, preview>>
  BY DEF Tick, schedule, cards
<1>3. Core'
  BY <1>1, <1>2 DEF Core, Typed, LineupIsRanking, ScheduleShape, SlotsOf
<1>4. Onward /\ Reissued /\ Growing
  BY <1>1, <1>2 DEF Onward, Growing, Typed, EventRow, Reissued
<1>5. Typed'
  BY <1>3 DEF Core
<1>6. VoteCards' /\ TimeCards' /\ Previews'
  BY <1>1, <1>2, <1>4, <1>5, VoteCardsKept, TimeCardsKept, PreviewsKept DEF Growing
<1>7. QED BY <1>3, <1>6, Parts, PTL

-----------------------------------------------------------------------------
(***************************************************************************)
(* The theorems.                                                           *)
(***************************************************************************)

\* The empty ballot is in order.
LEMMA EmptyBallotOK ==
    /\ BallotOK(EmptyBallot) /\ Candidates(EmptyBallot) = {}
    /\ Top(EmptyBallot, 0) = <<>>
<1>1. /\ EmptyBallot.line = <<>> /\ <<>> \in Seq(Titles) /\ DOMAIN EmptyBallot.line = {}
      /\ EmptyBallot.choice = [u \in Users |-> {}]
      /\ EmptyBallot.option = [o \in OptionIds |-> NoOption]
      /\ EmptyBallot.avail = [u \in Users |-> {}]
  BY EmptySeq DEF EmptyBallot
<1>2. EmptyBallot \in BallotRow
  BY <1>1 DEF EmptyBallot, BallotRow, NoOption
<1>3. Cardinality({}) = 0 /\ VoteLimit \in Nat
  BY FS_EmptySet, BallotAssumption
<1>4. Candidates(EmptyBallot) = {}
  BY <1>1 DEF Candidates
<1>5. BallotOK(EmptyBallot)
  BY <1>1, <1>2, <1>3 DEF BallotOK
<1>6. Top(EmptyBallot, 0) = <<>>
  <2>1. Top(EmptyBallot, 0) \in Seq(Titles \union {None}) /\ Len(Top(EmptyBallot, 0)) = 0
    BY <1>1, TopType
  <2>2. QED BY <2>1, EmptySeq
<1>7. QED BY <1>4, <1>5, <1>6

\* The ballots start empty and no card is open.
LEMMA StartsWell == Init => BallotIInv
<1> SUFFICES ASSUME Init PROVE BallotIInv
  OBVIOUS
<1>1. /\ event = [e \in Events |-> [status |-> "none", revision |-> 0, archived |-> FALSE]]
      /\ slot = [s \in SlotIds |-> NoSlot] /\ made = 0 /\ now = 0
      /\ ballot = [e \in Events |-> EmptyBallot] /\ offered = 0
      /\ votecard = [u \in Users |-> NoVoteCard] /\ timecard = [u \in Users |-> NoTimeCard]
      /\ preview = [a \in Admins |-> NoPreview] /\ lineup = [e \in Events |-> <<>>]
  BY DEF Init, ScheduleInit
<1>2. <<>> \in Seq(Nat) /\ <<>> \in Seq(Titles) /\ <<>> \in Seq(Titles \union {None})
      /\ Len(<<>>) = 0
  BY EmptySeq
<1>3. BallotOK(EmptyBallot) /\ EmptyBallot \in BallotRow
  BY EmptyBallotOK DEF BallotOK
<1>4. NoSlot \in SlotRow /\ NoSlot.event = NoEvent /\ NoEvent \notin Events
  BY ScheduleAssumption DEF NoSlot, SlotRow, Remotes
<1>5. Typed
  <2>1. [status |-> "none", revision |-> 0, archived |-> FALSE] \in EventRow
    BY DEF EventRow, Statuses
  <2>2. QED BY <1>1, <1>3, <2>1 DEF Typed
<1>6. \A e \in Events : SlotsOf(e) = {} /\ lineup[e] = <<>> /\ ballot[e] = EmptyBallot
  BY <1>1, <1>4 DEF SlotsOf
<1>7. LineupIsRanking
  BY <1>2, <1>6, EmptyBallotOK DEF LineupIsRanking
<1>8. ScheduleShape
  BY <1>5, <1>6 DEF ScheduleShape, Typed
<1>9. Core
  BY <1>1, <1>2, <1>3, <1>4, <1>5, <1>6, <1>7, <1>8, EmptyBallotOK DEF Core
<1>10. VoteCards
  <2>1. NoVoteCard \in VoteCard
    BY <1>2 DEF NoVoteCard, VoteCard, NoClick, Click
  <2>2. QED BY <1>1, <2>1 DEF VoteCards, VoteCardShape
<1>11. TimeCards
  <2>1. NoTimeCard \in TimeCard
    BY DEF NoTimeCard, TimeCard, NoOption
  <2>2. QED BY <1>1, <2>1 DEF TimeCards
<1>12. Previews
  <2>1. NoPreview \in Preview /\ PreviewOK(NoPreview)
    BY <1>2 DEF NoPreview, Preview, PreviewOK
  <2>2. QED BY <1>1, <2>1 DEF Previews, PreviewShape
<1>13. QED BY <1>9, <1>10, <1>11, <1>12, Parts

\* Every step preserves the invariant.
LEMMA BallotStep == BallotIInv /\ [Next]_vars => BallotIInv'
<1> SUFFICES ASSUME BallotIInv, [Next]_vars PROVE BallotIInv'
  OBVIOUS
<1>1. ASSUME NEW e \in Events, Command(e) PROVE BallotIInv'
  BY <1>1, CommandStep
<1>2. ASSUME NEW u \in Users, Member(u) PROVE BallotIInv'
  BY <1>2, ShowVoteStep, HandleVoteStep, TimeStep DEF Member
<1>3. ASSUME NEW a \in Admins, Admin(a) PROVE BallotIInv'
  BY <1>3, ProposeStep, CardStep, ConfirmStep DEF Admin
<1>4. CASE UNCHANGED vars
  <2>1. Core /\ VoteCards /\ TimeCards /\ Previews /\ Typed
    BY Parts, CoreTyped
  <2>2. Sound /\ UNCHANGED <<votecard, timecard, preview>>
    BY <1>4, <2>1, QuietStep DEF vars, cards
  <2>3. Core' /\ Typed'
    BY <2>2 DEF Sound, Core
  <2>4. VoteCards' /\ TimeCards' /\ Previews'
    BY <2>1, <2>2, <2>3, VoteCardsKept, TimeCardsKept, PreviewsKept DEF Sound, Growing
  <2>5. QED BY <2>3, <2>4, Parts, PTL
<1>5. QED BY <1>1, <1>2, <1>3, <1>4, TickStep DEF Next

\* The inductive invariant holds.
THEOREM BallotInvariance == Spec => []BallotIInv
BY StartsWell, BallotStep, PTL DEF Spec

\* The ballot is well formed, and the published lineup is its ranking, whatever was voted
\* between the preview and its confirmation.
THEOREM BallotHolds == Spec => []BallotInv
<1>1. BallotIInv => BallotInv
  BY DEF BallotIInv
<1>2. QED BY <1>1, BallotInvariance, PTL

\* The confirmation of a preview publishes its times, which won if they were voted for.
LEMMA ConfirmPublishes ==
    ASSUME BallotIInv, NEW a \in Admins, Confirm(a), NEW p, p = preview[a],
           NEW e \in Open, p.event = e, e \notin Open'
    PROVE  LET won == BestTimes(ballot[e], now)
           IN  /\ p.how = "voted" => TimesOf(e)' = won
               /\ p.how = "chosen" => TimesOf(e)' \subseteq won
<1>1. Core /\ Previews /\ p.pc = "plan"
  BY Parts DEF Confirm
<1>2. /\ SameRevision(p) /\ FreezeSchedule(e, Len(p.at), p.at)
      /\ \A i \in DOMAIN p.at : p.at[i] > now
  BY DEF Confirm, schedule, Open
<1>3. p \in Preview /\ PreviewOK(p) /\ e \in Events /\ p.at \in Seq(Nat)
  BY <1>1 DEF Previews, PreviewShape, Preview, Open
<1>4. SlotsOf(e) = {} /\ SaysWhatTheBallotSays(p)
  BY <1>1, <1>2, <1>3 DEF Core, ScheduleShape, SameRevision, PreviewOK, Current, Open
<1>5. /\ SlotsOf(e)' = {made + k : k \in 1..Len(p.at)}
      /\ \A k \in 1..Len(p.at) : slot'[made + k].at = p.at[k]
  BY <1>1, <1>2, <1>3, <1>4, FrozenSlots
<1>6. ASSUME Len(p.at) = 1 PROVE TimesOf(e)' = {p.at[1]} /\ p.at[1] > now
  <2>1. 1..1 = {1}
    OBVIOUS
  <2>2. SlotsOf(e)' = {made + 1} /\ slot'[made + 1].at = p.at[1]
    BY <1>5, <1>6, <2>1
  <2>3. 1 \in DOMAIN p.at
    BY <1>3, <1>6, LenProperties
  <2>4. QED BY <1>2, <2>2, <2>3 DEF TimesOf
<1>7. QED BY <1>1, <1>4, <1>6 DEF SaysWhatTheBallotSays, StillWins, StillWinsAlone

\* The time that is published as the winner has the most votes of those still to come, and
\* no other has as many; one that was chosen in a tie is among the winners still.
THEOREM PublishedTimeWins == Spec => PublishedTimeWon
<1> DEFINE Won(a, e) ==
             LET p == preview[a]
                 won == BestTimes(ballot[e], now)
             IN p.pc = "plan" /\ p.event = e /\ preview'[a] # p /\ e \notin Open' =>
                   /\ p.how = "voted" => TimesOf(e)' = won
                   /\ p.how = "chosen" => TimesOf(e)' \subseteq won
<1>1. ASSUME BallotIInv, Next, NEW e \in Open, NEW a \in Admins PROVE Won(a, e)
  <2> SUFFICES ASSUME preview[a].pc = "plan", preview[a].event = e, preview'[a] # preview[a],
                      e \notin Open'
               PROVE  Confirm(a)
    BY <1>1, ConfirmPublishes
  <2>1. preview \in [Admins -> Preview]
    BY <1>1, Parts DEF Previews
  <2>2. PICK b \in Admins : Admin(b)
    BY <1>1 DEF Next, Command, Create, Reopen, Transition, Nominate, AddTimes, ResetTimes,
            Member, OpenVote, OpenTimes, PressVote, HandleVote, ShowVote, CloseVote, SaveTimes,
            CloseTimes, Tick, cards
  <2>3. b = a
    BY <2>1, <2>2 DEF Admin, Propose, ChooseTime, Confirm, ClosePreview, SetPreview
  <2>4. /\ \A f \in Events : ~Propose(a, f)
        /\ \A t \in preview[a].ties : ~ChooseTime(a, t)
    <3>1. NoPreview.pc = "none"
      BY DEF NoPreview
    <3>2. preview[a] # NoPreview /\ preview[a].pc # "tie"
      BY <3>1
    <3>3. QED BY <3>2 DEF Propose, ChooseTime
  <2>5. ~ClosePreview(a)
    BY <1>1 DEF ClosePreview, schedule, Open
  <2>6. QED BY <2>2, <2>3, <2>4, <2>5 DEF Admin
<1>2. ASSUME BallotIInv, UNCHANGED vars, NEW e \in Open, NEW a \in Admins PROVE Won(a, e)
  BY <1>2 DEF vars, cards
<1>3. BallotIInv /\ [Next]_vars => [\A e \in Open : \A a \in Admins : Won(a, e)]_vars
  BY <1>1, <1>2
<1>4. QED BY <1>3, BallotInvariance, PTL DEF Spec, PublishedTimeWon

-----------------------------------------------------------------------------
(***************************************************************************)
(* A vote is for what the member saw.                                      *)
(***************************************************************************)

\* No vote is given or taken back, and no availability is added.
NoVoteCast ==
    \A e \in Events : \A u \in Users :
        /\ ballot'[e].choice[u] = ballot[e].choice[u]
        /\ ballot'[e].avail[u] \subseteq ballot[e].avail[u]

\* Where nobody votes the property has nothing to say.
LEMMA NobodyVoted ==
    ASSUME NoVoteCast PROVE VoteIsForTheButton /\ AvailabilityIsForTheTime
BY DEF NoVoteCast, VoteIsForTheButton, AvailabilityIsForTheTime

\* A transaction that leaves the votes alone.
LEMMA StoredNoVote ==
    ASSUME Core, NEW e, NEW b, Store(e, b), b.choice = ballot[e].choice,
           \A u \in Users : b.avail[u] \subseteq ballot[e].avail[u]
    PROVE  NoVoteCast
<1>1. e \in Events /\ ballot \in [Events -> BallotRow] /\ ballot' = [ballot EXCEPT ![e] = b]
  BY CoreTyped DEF Store, Open, Typed
<1>2. QED BY <1>1 DEF NoVoteCast

\* No command casts a vote.
LEMMA CommandVotes == ASSUME Core, NEW e \in Events, Command(e) PROVE NoVoteCast
<1>1. ballot[e] \in BallotRow
  BY DEF Core, BallotOK
<1>2. ASSUME NEW t \in Titles, Nominate(e, t) PROVE NoVoteCast
  <2>1. PICK line : Store(e, [ballot[e] EXCEPT !.line = line])
    BY <1>2 DEF Nominate, AddNomination
  <2>2. /\ [ballot[e] EXCEPT !.line = line].choice = ballot[e].choice
        /\ [ballot[e] EXCEPT !.line = line].avail = ballot[e].avail
    BY <1>1 DEF BallotRow
  <2>3. QED BY <2>1, <2>2, StoredNoVote
<1>3. CASE AddTimes(e)
  <2>1. PICK option : Store(e, [ballot[e] EXCEPT !.option = option])
    BY <1>3 DEF AddTimes, AddTimeOptions
  <2>2. /\ [ballot[e] EXCEPT !.option = option].choice = ballot[e].choice
        /\ [ballot[e] EXCEPT !.option = option].avail = ballot[e].avail
    BY <1>1 DEF BallotRow
  <2>3. QED BY <2>1, <2>2, StoredNoVote
<1>4. CASE ResetTimes(e)
  <2>1. PICK b : b = [ballot[e] EXCEPT !.option = EmptyBallot.option, !.avail = EmptyBallot.avail]
    OBVIOUS
  <2>2. b.choice = ballot[e].choice /\ b.avail = EmptyBallot.avail
    BY <1>1, <2>1 DEF BallotRow
  <2>3. EmptyBallot.avail = [u \in Users |-> {}]
    BY DEF EmptyBallot
  <2>4. Store(e, b)
    BY <1>4, <2>1 DEF ResetTimes, ResetTimeOptions
  <2>5. QED BY <2>2, <2>3, <2>4, StoredNoVote
<1>5. CASE UNCHANGED ballot
  BY <1>5 DEF NoVoteCast
<1>6. QED BY <1>2, <1>3, <1>4, <1>5 DEF Command, Create, Reopen, Transition

\* toggle_slot: the click that is counted is the one that the member made.
LEMMA ClickVotes ==
    ASSUME Core, NEW u \in Users, HandleVote(u)
    PROVE  VoteIsForTheButton /\ AvailabilityIsForTheTime
<1> DEFINE c == votecard[u]
           e == c.event
           t == c.rank[c.click.at]
<1>1. CASE UNCHANGED ballot
  BY <1>1, NobodyVoted DEF NoVoteCast
<1>2. CASE SameButton(c) /\ ToggleVote(e, u, t)
  <2> DEFINE old == ballot[e].choice[u]
             new == Toggled(old, t)
             choice == [ballot[e].choice EXCEPT ![u] = new]
             b == [ballot[e] EXCEPT !.choice = choice]
  <2>1. /\ t = c.click.title /\ ~Refused(old, t) /\ e \in Events
        /\ ballot' = [ballot EXCEPT ![e] = b] /\ ballot \in [Events -> BallotRow]
    BY <1>2, CoreTyped DEF SameButton, ToggleVote, Store, Open, Typed
  <2>2. ballot[e].choice \in [Users -> SUBSET Titles]
    BY <2>1 DEF BallotRow
  <2>3. b.choice = choice /\ b.avail = ballot[e].avail
    BY <2>1 DEF BallotRow
  <2>4. choice[u] = new /\ \A v \in Users \ {u} : choice[v] = ballot[e].choice[v]
    BY <2>2
  <2> HIDE DEF choice
  <2>5. /\ ballot'[e].choice = choice /\ ballot'[e].avail = ballot[e].avail
        /\ \A f \in Events \ {e} : ballot'[f] = ballot[f]
    BY <2>1, <2>3
  <2>6. AvailabilityIsForTheTime
    BY <2>5 DEF AvailabilityIsForTheTime
  <2>7. /\ (t \in new) # (t \in old) /\ new \ old \subseteq {t}
        /\ old \ new \subseteq {t} \/ VoteLimit = 1
    <3>1. VoteLimit \in Nat \ {0}
      BY BallotAssumption
    <3>2. CASE t \in old
      BY <3>2 DEF Toggled
    <3>3. CASE t \notin old /\ Full(old)
      <4>1. VoteLimit = 1
        BY <2>1, <3>1, <3>3 DEF Refused
      <4>2. QED BY <3>3, <4>1 DEF Toggled
    <3>4. CASE t \notin old /\ ~Full(old)
      BY <3>4 DEF Toggled
    <3>5. QED BY <3>2, <3>3, <3>4
  <2>8. ASSUME NEW f \in Events, NEW v \in Users, ballot'[f].choice[v] # ballot[f].choice[v]
        PROVE  f = e /\ v = u
    BY <2>4, <2>5, <2>8
  <2>9. QED BY <2>1, <2>4, <2>5, <2>6, <2>7, <2>8 DEF VoteIsForTheButton
<1>3. QED BY <1>1, <1>2 DEF HandleVote

\* save_values: a time that is saved is one that the card showed.
LEMMA SaveVotes ==
    ASSUME Core, TimeCards, NEW u \in Users, NEW S \in SUBSET OptionIds, SaveTimes(u, S)
    PROVE  VoteIsForTheButton /\ AvailabilityIsForTheTime
<1> DEFINE c == timecard[u]
           e == c.event
           b == [ballot[e] EXCEPT !.avail[u] = S]
<1>1. CASE UNCHANGED ballot
  BY <1>1, NobodyVoted DEF NoVoteCast
<1>2. CASE S \subseteq Future(ballot[e], now) /\ StoreTimes(e, b)
  <2>1. /\ e \in Events /\ ballot' = [ballot EXCEPT ![e] = b] /\ ballot \in [Events -> BallotRow]
    BY <1>2, CoreTyped DEF StoreTimes, Store, Open, Typed
  <2>2. /\ b.choice = ballot[e].choice /\ b.option = ballot[e].option
        /\ b.avail = [ballot[e].avail EXCEPT ![u] = S]
        /\ ballot[e].avail \in [Users -> SUBSET OptionIds]
    BY <2>1 DEF BallotRow
  <2> HIDE DEF b
  <2>3. /\ ballot'[e] = b /\ \A f \in Events \ {e} : ballot'[f] = ballot[f]
    BY <2>1
  <2>4. ShowsOffered(c) /\ S \subseteq Shown(u)
    BY DEF SaveTimes, TimeCards
  <2>5. ASSUME NEW o \in S PROVE c.shows[o] = ballot[e].option[o]
    <3>1. ballot[e].option[o] # NoOption /\ c.shows[o] # NoOption
      BY <1>2, <2>4 DEF Future, Candidates, Shown
    <3>2. QED BY <2>4, <3>1 DEF ShowsOffered
  <2>6. ASSUME NEW f \in Events, NEW v \in Users, NEW o \in ballot'[f].avail[v] \ ballot[f].avail[v]
        PROVE  f = e /\ v = u /\ o \in S
    BY <2>2, <2>3, <2>6
  <2>7. AvailabilityIsForTheTime
    BY <2>2, <2>3, <2>5, <2>6 DEF AvailabilityIsForTheTime
  <2>8. VoteIsForTheButton
    BY <2>2, <2>3 DEF VoteIsForTheButton
  <2>9. QED BY <2>7, <2>8
<1>3. QED BY <1>1, <1>2 DEF SaveTimes

\* A vote, for a title or for a time, is for what the member had before the eyes.
THEOREM VotesAreAsShown == Spec => VotesAsShown
<1>1. ASSUME BallotIInv, Next PROVE VoteIsForTheButton /\ AvailabilityIsForTheTime
  <2>1. Core /\ TimeCards
    BY <1>1, Parts
  <2>2. ASSUME NEW u \in Users, Member(u) PROVE VoteIsForTheButton /\ AvailabilityIsForTheTime
    <3>1. CASE UNCHANGED ballot
      BY <3>1, NobodyVoted DEF NoVoteCast
    <3>2. QED BY <2>1, <2>2, <3>1, ClickVotes, SaveVotes
          DEF Member, OpenVote, OpenTimes, PressVote, ShowVote, CloseVote, CloseTimes
  <2>3. ASSUME NEW a \in Admins, Admin(a) PROVE NoVoteCast
    BY <2>3 DEF NoVoteCast, Admin, Propose, ChooseTime, Confirm, ClosePreview
  <2>4. CASE Tick
    BY <2>4, NobodyVoted DEF NoVoteCast, Tick
  <2>5. QED BY <1>1, <2>1, <2>2, <2>3, <2>4, CommandVotes, NobodyVoted DEF Next
<1>2. BallotIInv /\ [Next]_vars => [VoteIsForTheButton /\ AvailabilityIsForTheTime]_vars
  BY <1>1
<1>3. QED BY <1>2, BallotInvariance, PTL DEF Spec, VotesAsShown

=============================================================================
