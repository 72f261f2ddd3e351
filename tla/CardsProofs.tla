----------------------------- MODULE CardsProofs -----------------------------
(***************************************************************************)
(* Proofs about the cards that members and the owner press, for every      *)
(* value of their constants: music requests (MusicRequests), the search,   *)
(* rating and recommendation cards (SearchCards), conversations with the   *)
(* model (Conversation) and the owner's Life inbox (LifeActions).          *)
(***************************************************************************)
EXTENDS MusicRequests, SearchCards, Conversation, LifeActions, FiniteSetTheorems,
        SequenceTheorems, TLAPS

-----------------------------------------------------------------------------
(***************************************************************************)
(* Music requests.                                                         *)
(***************************************************************************)

\* A job came of a row, and a row's number is that of the job that came of it.
MusicCard == [shows : {"gone", "search", "confirm", "checking", "library", "accepted"},
              over : BOOLEAN, picks : Nat, command : BOOLEAN]
MusicShape ==
    /\ music \in Seq(Row) /\ jobs \in Seq(Job)
    /\ mcard \in [MusicCards -> MusicCard] /\ confirm \in [MusicCards -> Seq(View)]
    /\ library \subseteq Tracks /\ hour \in Nat
    /\ \A i \in DOMAIN music : music[i].job # 0 => /\ music[i].job \in DOMAIN jobs
                                                   /\ jobs[music[i].job].row = i
    /\ \A j \in DOMAIN jobs : jobs[j].row \in DOMAIN music

\* What $status has read stays true: SoulSync's number of the row, the end of a job, and
\* that the library has the track.
ReadShape ==
    refresh # Idle =>
        /\ refresh.row \in DOMAIN music /\ refresh.seen \in JobStates \union {"downloaded"}
        /\ refresh.seen = "downloaded" => music[refresh.row].track \in library
        /\ refresh.seen = "failed" => /\ music[refresh.row].job # 0
                                      /\ jobs[music[refresh.row].job].state = "failed"

\* A row that a view asks SoulSync for blocks another try, and no job came of it yet; no
\* other view asks for it.
SendingShape ==
    \A c \in MusicCards : \A v \in DOMAIN confirm[c] : confirm[c][v].pc = "sending" =>
        /\ confirm[c][v].row \in DOMAIN music
        /\ LET r == music[confirm[c][v].row] IN r.job = 0 /\ r.status \in Live
        /\ \A j \in DOMAIN jobs : jobs[j].row # confirm[c][v].row
        /\ \A d \in MusicCards : \A w \in DOMAIN confirm[d] :
              confirm[d][w].pc = "sending" /\ confirm[d][w].row = confirm[c][v].row => d = c /\ w = v

\* One job at most comes of a row, and the row blocks another try until the job has failed.
JobShape ==
    \A j \in DOMAIN jobs :
        /\ jobs[j].state # "failed" => music[jobs[j].row].status \in Live
        /\ \A k \in DOMAIN jobs : jobs[k].row = jobs[j].row => k = j

\* A row that SoulSync is being asked for; one that it may still be at work on; and one
\* that it was asked for at all.
Asking(p) == \E c \in MusicCards : \E v \in DOMAIN confirm[c] : confirm[c][v].pc = "sending" /\ confirm[c][v].row = p
Open(p) == Asking(p) \/ \E j \in DOMAIN jobs : jobs[j].row = p /\ jobs[j].state # "failed"
AskedFor(p) == Asking(p) \/ \E j \in DOMAIN jobs : jobs[j].row = p

\* SoulSync is asked for a track again only more than a day after a row that is still open.
ApartShape ==
    \A p, q \in DOMAIN music :
        p < q /\ Alike(music[p], music[q]) /\ Open(p) /\ AskedFor(q)
        => music[q].created > music[p].created + RecentHours

\* As long as a result was not clicked twice: the confirmation owns the message, and an
\* accepted one leaves no view that may delete it.
CardFits(r, views) ==
    Len(views) <= 1 =>
        /\ r.shows # "gone" => r.command
        /\ Len(views) = 0 => r.shows \in {"search", "gone"}
        /\ Len(views) = 1 =>
              /\ r.over
              /\ views[1].pc \in {"checking", "sending"} => r.shows # "gone"
              /\ r.shows = "accepted" => views[1].pc = "over"
CardShape == \A c \in MusicCards : CardFits(mcard[c], confirm[c])

\* The inductive invariant of the music requests.
MusicIInv ==
    /\ MusicShape /\ ReadShape /\ SendingShape /\ JobShape /\ ApartShape /\ CardShape
    /\ DownloadedIsTrue

\* One view of a card is given another state.
LEMMA ViewGiven ==
    ASSUME MusicShape, NEW c \in MusicCards, NEW v \in DOMAIN confirm[c],
           NEW pc \in {"shown", "checking", "sending", "over"}, NEW row \in Nat, SetView(c, v, pc, row)
    PROVE  /\ confirm' \in [MusicCards -> Seq(View)]
           /\ \A d \in MusicCards : Len(confirm'[d]) = Len(confirm[d]) /\ DOMAIN confirm'[d] = DOMAIN confirm[d]
           /\ \A d \in MusicCards : \A w \in DOMAIN confirm[d] :
                 confirm'[d][w] = IF d = c /\ w = v THEN [pc |-> pc, row |-> row] ELSE confirm[d][w]
<1>1. PICK x : x = [pc |-> pc, row |-> row]
    OBVIOUS
<1>2. x \in View
    BY <1>1 DEF View
<1>3. confirm[c] \in Seq(View) /\ v \in 1..Len(confirm[c])
    BY LenProperties DEF MusicShape
<1>4. PICK s : s = [confirm[c] EXCEPT ![v] = x]
    OBVIOUS
<1>5. s \in Seq(View) /\ Len(s) = Len(confirm[c])
      /\ \A w \in 1..Len(confirm[c]) : s[w] = IF w = v THEN x ELSE confirm[c][w]
    BY <1>2, <1>3, <1>4, ExceptSeq
<1>6. DOMAIN s = 1..Len(s) /\ DOMAIN confirm[c] = 1..Len(confirm[c])
    BY <1>3, <1>5, LenProperties
<1>7. confirm' = [confirm EXCEPT ![c] = s]
    BY <1>1, <1>4 DEF SetView
<1>8. confirm \in [MusicCards -> Seq(View)]
    BY DEF MusicShape
<1>. QED  BY ONLY <1>1, <1>5, <1>6, <1>7, <1>8

\* SoulSync's answer in a row: its status, and a number if one was given.
LEMMA UpdatedIs ==
    ASSUME MusicShape, NEW i \in DOMAIN music, NEW status, NEW job
    PROVE  Updated(i, status, job) =
               [music EXCEPT ![i] = [track |-> music[i].track, card |-> music[i].card, status |-> status,
                                     job |-> IF job = 0 THEN music[i].job ELSE job,
                                     created |-> music[i].created]]
<1>1. music[i] \in Row /\ i \in DOMAIN music /\ music \in [DOMAIN music -> Row]
    BY LenProperties, ElementOfSeq DEF MusicShape
<1>2. PICK a : a = [track |-> music[i].track, card |-> music[i].card, status |-> status, job |-> music[i].job,
                    created |-> music[i].created]
    OBVIOUS
<1>3. PICK m : m = [music EXCEPT ![i].status = status]
    OBVIOUS
<1>4. m = [music EXCEPT ![i] = a]
  <2>1. [music[i] EXCEPT !.status = status] = a
      BY ONLY <1>1, <1>2 DEF Row
  <2>. QED  BY ONLY <2>1, <1>3, Zenon
<1>5. Updated(i, status, job) = [m EXCEPT ![i].job = IF job = 0 THEN m[i].job ELSE job]
    BY <1>3 DEF Updated
<1>6. m[i] = a /\ DOMAIN m = DOMAIN music
    BY ONLY <1>1, <1>4
<1>8. PICK b : b = [track |-> music[i].track, card |-> music[i].card, status |-> status,
                    job |-> IF job = 0 THEN music[i].job ELSE job, created |-> music[i].created]
    OBVIOUS
<1>7. [m EXCEPT ![i].job = IF job = 0 THEN m[i].job ELSE job] = [m EXCEPT ![i] = b]
  <2>1. [a EXCEPT !.job = IF job = 0 THEN a.job ELSE job] = b
      BY ONLY <1>2, <1>8
  <2>2. [m EXCEPT ![i].job = IF job = 0 THEN m[i].job ELSE job] =
            [m EXCEPT ![i] = [a EXCEPT !.job = IF job = 0 THEN a.job ELSE job]]
      BY ONLY <1>6, Zenon
  <2>. QED  BY ONLY <2>1, <2>2, Zenon
<1>9. [m EXCEPT ![i] = b] = [music EXCEPT ![i] = b]
    BY ONLY <1>1, <1>4
<1>. QED  BY <1>5, <1>7, <1>8, <1>9

\* A row is replaced.
LEMMA RowReplaced ==
    ASSUME MusicShape, NEW i \in DOMAIN music, NEW r \in Row, music' = [music EXCEPT ![i] = r]
    PROVE  /\ music' \in Seq(Row) /\ DOMAIN music' = DOMAIN music /\ Len(music') = Len(music)
           /\ \A k \in DOMAIN music : music'[k] = IF k = i THEN r ELSE music[k]
<1>1. music \in Seq(Row) /\ DOMAIN music = 1..Len(music)
    BY LenProperties DEF MusicShape
<1>2. music' \in Seq(Row) /\ Len(music') = Len(music)
    BY <1>1, ExceptSeq
<1>3. DOMAIN music' = 1..Len(music')
    BY <1>2, LenProperties
<1>. QED  BY <1>1, <1>2, <1>3

\* Something is appended to a sequence.
LEMMA Appending ==
    ASSUME NEW S, NEW s \in Seq(S), NEW x \in S
    PROVE  /\ Append(s, x) \in Seq(S) /\ Len(s) \in Nat /\ Len(Append(s, x)) = Len(s) + 1
           /\ DOMAIN s = 1..Len(s) /\ DOMAIN Append(s, x) = 1..(Len(s) + 1)
           /\ Append(s, x)[Len(s) + 1] = x
           /\ \A k \in DOMAIN s : k \in DOMAIN Append(s, x) /\ Append(s, x)[k] = s[k]
  BY LenProperties, AppendProperties

\* What the steps do to the rows: a number is kept, a row stays what was asked for and
\* when, and one that is open goes on to block another try.
RowsStay == \A i \in DOMAIN music :
    /\ i \in DOMAIN music' /\ music'[i].card = music[i].card /\ music'[i].track = music[i].track
    /\ music'[i].created = music[i].created
    /\ music[i].job # 0 => music'[i].job = music[i].job
RowsBlock == \A i \in DOMAIN music :
    /\ Open(i) /\ music[i].status \in Live => music'[i].status \in Live
    /\ Asking(i) => music'[i].job = music[i].job
\* ... and to the jobs: they stay, and one that has failed has.
JobsStay == \A j \in DOMAIN jobs :
    /\ j \in DOMAIN jobs' /\ jobs'[j].row = jobs[j].row
    /\ jobs[j].state = "failed" => jobs'[j].state = "failed"
\* No view begins to ask SoulSync.
NoNewSending == \A c \in MusicCards : \A v \in DOMAIN confirm'[c] : confirm'[c][v].pc = "sending" =>
    v \in DOMAIN confirm[c] /\ confirm[c][v] = confirm'[c][v]

\* What the reading of $status needs.
LEMMA ReadKept ==
    ASSUME MusicShape, ReadShape, refresh' = refresh, RowsStay, JobsStay, library \subseteq library'
    PROVE  ReadShape'
<1>1. CASE refresh = Idle
    BY <1>1 DEF ReadShape
<1>2. CASE refresh # Idle
  <2>1. /\ refresh.row \in DOMAIN music /\ refresh.seen \in JobStates \union {"downloaded"}
        /\ refresh.seen = "downloaded" => music[refresh.row].track \in library
        /\ refresh.seen = "failed" => /\ music[refresh.row].job # 0
                                      /\ jobs[music[refresh.row].job].state = "failed"
      BY <1>2 DEF ReadShape
  <2>2. music[refresh.row].job # 0 => music[refresh.row].job \in DOMAIN jobs
      BY <2>1 DEF MusicShape
  <2>. QED  BY <2>1, <2>2 DEF ReadShape, RowsStay, JobsStay
<1>. QED  BY <1>1, <1>2

\* No row becomes open, or asked for, unless it is a new one.
LEMMA ApartKept ==
    ASSUME MusicShape, MusicShape', ApartShape, RowsStay,
           \A p \in DOMAIN music' : AskedFor(p)' => p \in DOMAIN music /\ AskedFor(p),
           \A p \in DOMAIN music : Open(p)' => Open(p)
    PROVE  ApartShape'
<1>. SUFFICES ASSUME NEW p \in DOMAIN music', NEW q \in DOMAIN music', p < q, Alike(music'[p], music'[q]),
                     Open(p)', AskedFor(q)'
              PROVE  music'[q].created > music'[p].created + RecentHours
    BY DEF ApartShape, Alike
<1>1. AskedFor(p)'
    BY DEF Open, AskedFor
<1>2. p \in DOMAIN music /\ q \in DOMAIN music /\ Open(p) /\ AskedFor(q)
    BY <1>1
<1>3. Alike(music[p], music[q])
    BY <1>2 DEF Alike, RowsStay
<1>4. music[q].created > music[p].created + RecentHours
    BY <1>2, <1>3 DEF ApartShape
<1>. QED  BY <1>2, <1>4 DEF RowsStay

\* What the requests need, when nobody begins to ask SoulSync and there is no new job.
LEMMA RequestsKept ==
    ASSUME MusicShape, MusicShape', SendingShape, JobShape, ApartShape, NoNewSending,
           RowsStay, RowsBlock, JobsStay, DOMAIN jobs' = DOMAIN jobs
    PROVE  SendingShape' /\ JobShape' /\ ApartShape'
<1>1. \A p : Asking(p)' => Asking(p)
    BY DEF Asking, NoNewSending
<1>2. SendingShape'
  <2>. SUFFICES ASSUME NEW c \in MusicCards, NEW v \in DOMAIN confirm'[c], confirm'[c][v].pc = "sending"
                PROVE  /\ confirm'[c][v].row \in DOMAIN music'
                       /\ LET r == music'[confirm'[c][v].row] IN r.job = 0 /\ r.status \in Live
                       /\ \A j \in DOMAIN jobs' : jobs'[j].row # confirm'[c][v].row
                       /\ \A d \in MusicCards : \A w \in DOMAIN confirm'[d] :
                             confirm'[d][w].pc = "sending" /\ confirm'[d][w].row = confirm'[c][v].row
                             => d = c /\ w = v
      BY DEF SendingShape
  <2>1. v \in DOMAIN confirm[c] /\ confirm[c][v] = confirm'[c][v]
      BY DEF NoNewSending
  <2>2. /\ confirm[c][v].row \in DOMAIN music
        /\ LET r == music[confirm[c][v].row] IN r.job = 0 /\ r.status \in Live
        /\ \A j \in DOMAIN jobs : jobs[j].row # confirm[c][v].row
        /\ \A d \in MusicCards : \A w \in DOMAIN confirm[d] :
              confirm[d][w].pc = "sending" /\ confirm[d][w].row = confirm[c][v].row => d = c /\ w = v
      BY <2>1 DEF SendingShape
  <2>3. \A d \in MusicCards : \A w \in DOMAIN confirm'[d] :
              confirm'[d][w].pc = "sending" /\ confirm'[d][w].row = confirm[c][v].row => d = c /\ w = v
      BY <2>2 DEF NoNewSending
  <2>4. \A j \in DOMAIN jobs' : jobs'[j].row # confirm[c][v].row
      BY <2>2 DEF JobsStay
  <2>5. Asking(confirm[c][v].row)
      BY <2>1 DEF Asking
  <2>6. Open(confirm[c][v].row)
      BY <2>5 DEF Open
  <2>7. LET r == music'[confirm[c][v].row] IN r.job = 0 /\ r.status \in Live
      BY <2>2, <2>5, <2>6 DEF RowsBlock
  <2>. QED  BY <2>1, <2>2, <2>3, <2>4, <2>7 DEF RowsStay
<1>3. JobShape'
  <2>. SUFFICES ASSUME NEW j \in DOMAIN jobs
                PROVE  /\ jobs'[j].state # "failed" => music'[jobs'[j].row].status \in Live
                       /\ \A k \in DOMAIN jobs : jobs'[k].row = jobs'[j].row => k = j
      BY DEF JobShape
  <2>1. \A k \in DOMAIN jobs : jobs'[k].row = jobs'[j].row => k = j
      BY DEF JobShape, JobsStay
  <2>2. ASSUME jobs'[j].state # "failed"  PROVE music'[jobs'[j].row].status \in Live
    <3>1. jobs[j].state # "failed" /\ jobs'[j].row = jobs[j].row
        BY <2>2 DEF JobsStay
    <3>2. music[jobs[j].row].status \in Live /\ jobs[j].row \in DOMAIN music
        BY <3>1 DEF JobShape, MusicShape
    <3>3. Open(jobs[j].row)
        BY <3>1 DEF Open
    <3>. QED  BY <3>1, <3>2, <3>3 DEF RowsBlock
  <2>. QED  BY <2>1, <2>2
<1>4. \A p : AskedFor(p)' => AskedFor(p)
    BY <1>1 DEF AskedFor, JobsStay
<1>5. \A p : Open(p)' => Open(p)
    BY <1>1 DEF Open, JobsStay
<1>6. ASSUME NEW p, AskedFor(p)'  PROVE p \in DOMAIN music
  <2>1. CASE Asking(p)
      BY <2>1 DEF Asking, SendingShape
  <2>2. CASE \E j \in DOMAIN jobs : jobs[j].row = p
      BY <2>2 DEF MusicShape
  <2>. QED  BY <1>4, <1>6, <2>1, <2>2 DEF AskedFor
<1>7. ApartShape'
    BY <1>4, <1>5, <1>6, ApartKept
<1>. QED  BY <1>2, <1>3, <1>7

\* A step of the cards alone.
LEMMA CardsOnly ==
    ASSUME MusicIInv, UNCHANGED <<music, jobs, library, hour>>, refresh' = refresh, NoNewSending,
           mcard' \in [MusicCards -> MusicCard], confirm' \in [MusicCards -> Seq(View)]
    PROVE  /\ MusicShape' /\ ReadShape' /\ SendingShape' /\ JobShape' /\ ApartShape'
           /\ DownloadedIsTrue' /\ RowsStay
<1>1. RowsStay /\ RowsBlock /\ JobsStay
    BY DEF RowsStay, RowsBlock, JobsStay
<1>2. MusicShape'
    BY DEF MusicIInv, MusicShape
<1>3. DownloadedIsTrue'
    BY DEF MusicIInv, DownloadedIsTrue
<1>. QED  BY <1>1, <1>2, <1>3, ReadKept, RequestsKept DEF MusicIInv

\* The step of AcceptedKept.
AcceptedStays ==
    \A c \in MusicCards : mcard[c].shows = "accepted" /\ Len(confirm[c]) = 1 /\ mcard[c].picks = 0 =>
        mcard'[c].shows = "accepted" /\ mcard'[c].command

\* A step that changes one card at most.
LEMMA OneMusicCard ==
    ASSUME MusicShape, CardShape, NEW c \in MusicCards, NEW r \in MusicCard, NEW views \in Seq(View),
           mcard' = [mcard EXCEPT ![c] = r], confirm' = [confirm EXCEPT ![c] = views],
           CardFits(r, views),
           mcard[c].shows = "accepted" /\ Len(confirm[c]) = 1 /\ mcard[c].picks = 0 => r.shows = "accepted" /\ r.command
    PROVE  /\ mcard' \in [MusicCards -> MusicCard] /\ confirm' \in [MusicCards -> Seq(View)]
           /\ CardShape' /\ AcceptedStays
<1>1. /\ mcard'[c] = r /\ confirm'[c] = views
      /\ \A d \in MusicCards : d # c => mcard'[d] = mcard[d] /\ confirm'[d] = confirm[d]
    BY DEF MusicShape
<1>2. CardShape'
    BY <1>1 DEF CardShape
<1>3. AcceptedStays
  <2>. SUFFICES ASSUME NEW d \in MusicCards, mcard[d].shows = "accepted", Len(confirm[d]) = 1, mcard[d].picks = 0
                PROVE  mcard'[d].shows = "accepted" /\ mcard'[d].command
      BY DEF AcceptedStays
  <2>1. CASE d = c
      BY <1>1, <2>1
  <2>2. CASE d # c
    <3>1. CardFits(mcard[d], confirm[d])
        BY DEF CardShape
    <3>. QED  BY <1>1, <2>2, <3>1 DEF CardFits
  <2>. QED  BY <2>1, <2>2
<1>. QED  BY <1>1, <1>2, <1>3 DEF MusicShape

\* The assignments to the record of a card.
LEMMA CardGiven ==
    ASSUME MusicShape, NEW c \in MusicCards
    PROVE  /\ Removed(c) = [mcard EXCEPT ![c] = [shows |-> "gone", over |-> TRUE, picks |-> mcard[c].picks,
                                                command |-> FALSE]]
           /\ \A what : ShowMusic(c, what) =>
                 mcard' = [mcard EXCEPT ![c] = [shows |-> what, over |-> mcard[c].over,
                                                picks |-> mcard[c].picks, command |-> mcard[c].command]]
<1>1. mcard \in [MusicCards -> MusicCard]
    BY DEF MusicShape
<1>2. PICK r : r = [mcard[c] EXCEPT !.shows = "gone", !.over = TRUE, !.command = FALSE]
    OBVIOUS
<1>3. r = [shows |-> "gone", over |-> TRUE, picks |-> mcard[c].picks, command |-> FALSE]
    BY ONLY <1>1, <1>2, c \in MusicCards DEF MusicCard
<1>4. Removed(c) = [mcard EXCEPT ![c] = r]
    BY ONLY <1>2, Zenon DEF Removed
<1>5. \A what : ShowMusic(c, what) =>
                 mcard' = [mcard EXCEPT ![c] = [shows |-> what, over |-> mcard[c].over,
                                                picks |-> mcard[c].picks, command |-> mcard[c].command]]
    BY ONLY <1>1, c \in MusicCards DEF MusicCard, ShowMusic
<1>. QED  BY <1>3, <1>4, <1>5

\* What every step does.
MusicGoesOn == MusicIInv' /\ RowsStay /\ AcceptedStays

\* A step of one card alone: only its message and its views change.
LEMMA CardStep ==
    ASSUME MusicIInv, UNCHANGED <<music, jobs, library, hour>>, refresh' = refresh,
           NEW c \in MusicCards, NEW r \in MusicCard, NEW views \in Seq(View),
           mcard' = [mcard EXCEPT ![c] = r], confirm' = [confirm EXCEPT ![c] = views],
           \A w \in DOMAIN views : views[w].pc = "sending" => w \in DOMAIN confirm[c] /\ confirm[c][w] = views[w],
           CardFits(r, views),
           mcard[c].shows = "accepted" /\ Len(confirm[c]) = 1 /\ mcard[c].picks = 0 => r.shows = "accepted" /\ r.command
    PROVE  MusicGoesOn
<1>1. /\ mcard' \in [MusicCards -> MusicCard] /\ confirm' \in [MusicCards -> Seq(View)]
      /\ CardShape' /\ AcceptedStays
    BY OneMusicCard DEF MusicIInv
<1>2. NoNewSending
    BY DEF NoNewSending, MusicIInv, MusicShape
<1>. QED  BY <1>1, <1>2, CardsOnly DEF MusicGoesOn, MusicIInv

\* The views of a card after one is given another state.
LEMMA ViewsAfter ==
    ASSUME MusicShape, NEW c \in MusicCards, NEW v \in DOMAIN confirm[c],
           NEW pc \in {"shown", "checking", "sending", "over"}, NEW row \in Nat, SetView(c, v, pc, row)
    PROVE  \E views \in Seq(View) :
              /\ confirm' = [confirm EXCEPT ![c] = views] /\ Len(views) = Len(confirm[c])
              /\ DOMAIN views = DOMAIN confirm[c]
              /\ \A w \in DOMAIN views : views[w] = IF w = v THEN [pc |-> pc, row |-> row] ELSE confirm[c][w]
<1>1. /\ confirm' \in [MusicCards -> Seq(View)]
      /\ Len(confirm'[c]) = Len(confirm[c]) /\ DOMAIN confirm'[c] = DOMAIN confirm[c]
      /\ \A w \in DOMAIN confirm[c] : confirm'[c][w] = IF w = v THEN [pc |-> pc, row |-> row] ELSE confirm[c][w]
    BY ViewGiven
<1>2. confirm' = [confirm EXCEPT ![c] = confirm'[c]]
  <2>1. PICK s : confirm' = [confirm EXCEPT ![c] = s]
      BY Zenon DEF SetView
  <2>2. confirm'[c] = s
      BY <2>1 DEF MusicShape
  <2>. QED  BY <2>1, <2>2
<1>. QED  BY <1>1, <1>2

\* A result is clicked.
LEMMA ClickTrackStep ==
    ASSUME MusicIInv, NEW c \in MusicCards, ClickTrack(c)
    PROVE  MusicGoesOn
<1>1. mcard[c] \in MusicCard /\ confirm[c] \in Seq(View) /\ CardFits(mcard[c], confirm[c])
    BY DEF MusicIInv, MusicShape, CardShape
<1>2. PICK r : r = [mcard[c] EXCEPT !.picks = @ + 1]
    OBVIOUS
<1>3. r = [shows |-> mcard[c].shows, over |-> mcard[c].over, picks |-> mcard[c].picks + 1,
           command |-> mcard[c].command]
    BY ONLY <1>1, <1>2 DEF MusicCard
<1>4. r \in MusicCard
    BY <1>1, <1>3 DEF MusicCard
<1>5. mcard' = [mcard EXCEPT ![c] = r]
    BY ONLY ClickTrack(c), <1>2, Zenon DEF ClickTrack
<1>6. confirm' = [confirm EXCEPT ![c] = confirm[c]]
    BY DEF ClickTrack, MusicIInv, MusicShape
<1>7. CardFits(r, confirm[c]) /\ (mcard[c].shows # "accepted")
    BY <1>1, <1>3 DEF CardFits, ClickTrack
<1>8. UNCHANGED <<music, jobs, library, hour>> /\ refresh' = refresh
    BY DEF ClickTrack
<1>. QED  BY <1>1, <1>4, <1>5, <1>6, <1>7, <1>8, CardStep

\* A click opens a confirmation.
LEMMA SelectTrackStep ==
    ASSUME MusicIInv, NEW c \in MusicCards, SelectTrack(c)
    PROVE  MusicGoesOn
<1>1. mcard[c] \in MusicCard /\ confirm[c] \in Seq(View) /\ CardFits(mcard[c], confirm[c])
    BY DEF MusicIInv, MusicShape, CardShape
<1>2. UNCHANGED <<music, jobs, library, hour>> /\ refresh' = refresh /\ mcard[c].picks # 0 /\ mcard[c].picks - 1 \in Nat
    BY <1>1 DEF SelectTrack, MusicCard
<1>3. PICK q : q = [mcard[c] EXCEPT !.picks = @ - 1, !.over = TRUE]
    OBVIOUS
<1>4. q = [shows |-> mcard[c].shows, over |-> TRUE, picks |-> mcard[c].picks - 1, command |-> mcard[c].command]
    BY ONLY <1>1, <1>3 DEF MusicCard
<1>5. q \in MusicCard
    BY <1>1, <1>2, <1>4 DEF MusicCard
<1>6. \/ /\ mcard' = [mcard EXCEPT ![c] = [q EXCEPT !.shows = IF @ = "gone" THEN "gone" ELSE "confirm"]]
         /\ confirm' = [confirm EXCEPT ![c] = Append(@, [pc |-> "shown", row |-> 0])]
      \/ /\ mcard' = [mcard EXCEPT ![c] = q]
         /\ UNCHANGED confirm
    BY <1>3 DEF SelectTrack
<1>7. CASE /\ mcard' = [mcard EXCEPT ![c] = [q EXCEPT !.shows = IF @ = "gone" THEN "gone" ELSE "confirm"]]
           /\ confirm' = [confirm EXCEPT ![c] = Append(@, [pc |-> "shown", row |-> 0])]
  <2>1. PICK r : r = [q EXCEPT !.shows = IF @ = "gone" THEN "gone" ELSE "confirm"]
      OBVIOUS
  <2>2. r = [shows |-> IF mcard[c].shows = "gone" THEN "gone" ELSE "confirm", over |-> TRUE,
             picks |-> mcard[c].picks - 1, command |-> mcard[c].command]
      BY ONLY <1>4, <2>1
  <2>3. r \in MusicCard
      BY <1>1, <1>2, <2>2 DEF MusicCard
  <2>4. mcard' = [mcard EXCEPT ![c] = r]
      BY ONLY <1>7, <2>1
  <2>5. PICK x : x = [pc |-> "shown", row |-> 0]
      OBVIOUS
  <2>6. x \in View
      BY <2>5 DEF View
  <2>7. PICK views : views = Append(confirm[c], x)
      OBVIOUS
  <2>8. /\ views \in Seq(View) /\ Len(confirm[c]) \in Nat /\ Len(views) = Len(confirm[c]) + 1
        /\ DOMAIN confirm[c] = 1..Len(confirm[c]) /\ DOMAIN views = 1..(Len(confirm[c]) + 1)
        /\ views[Len(confirm[c]) + 1] = x
        /\ \A k \in DOMAIN confirm[c] : views[k] = confirm[c][k]
      BY <1>1, <2>6, <2>7, Appending
  <2>9. confirm' = [confirm EXCEPT ![c] = views]
      BY ONLY <1>7, <2>5, <2>7, Zenon
  <2>10. \A w \in DOMAIN views : views[w].pc = "sending" => w \in DOMAIN confirm[c] /\ confirm[c][w] = views[w]
      BY <2>5, <2>8
  <2>11. CardFits(r, views)
      BY <1>1, <2>2, <2>5, <2>8 DEF CardFits
  <2>. QED  BY <1>2, <2>3, <2>4, <2>8, <2>9, <2>10, <2>11, CardStep
<1>8. CASE mcard' = [mcard EXCEPT ![c] = q] /\ UNCHANGED confirm
  <2>1. confirm' = [confirm EXCEPT ![c] = confirm[c]]
      BY <1>8 DEF MusicIInv, MusicShape
  <2>2. CardFits(q, confirm[c])
      BY <1>1, <1>4 DEF CardFits
  <2>. QED  BY <1>1, <1>2, <1>4, <1>5, <1>8, <2>1, <2>2, CardStep
<1>. QED  BY <1>6, <1>7, <1>8

\* A card that goes, whatever its views have become, is allowed unless it was accepted.
LEMMA GoneFits ==
    ASSUME MusicIInv, NEW c \in MusicCards, NEW views \in Seq(View), Len(views) = Len(confirm[c]),
           Len(views) = 1 => mcard[c].over /\ views[1].pc \in {"shown", "over"}
    PROVE  LET r == [shows |-> "gone", over |-> TRUE, picks |-> mcard[c].picks, command |-> FALSE] IN
           r \in MusicCard /\ CardFits(r, views)
  BY LenProperties DEF MusicIInv, MusicShape, MusicCard, CardFits

\* The search is closed.
LEMMA CloseMusicSearchStep ==
    ASSUME MusicIInv, NEW c \in MusicCards, CloseMusicSearch(c)
    PROVE  MusicGoesOn
<1>1. mcard[c] \in MusicCard /\ confirm[c] \in Seq(View) /\ CardFits(mcard[c], confirm[c])
    BY DEF MusicIInv, MusicShape, CardShape
<1>2. Len(confirm[c]) # 1
  <2>1. ~mcard[c].over
      BY DEF CloseMusicSearch
  <2>2. ASSUME Len(confirm[c]) = 1  PROVE FALSE
    <3>1. Len(confirm[c]) <= 1
        BY <2>2
    <3>. QED  BY <1>1, <2>1, <2>2, <3>1, Zenon DEF CardFits
  <2>. QED  BY <2>2
<1>3. PICK r : r = [shows |-> "gone", over |-> TRUE, picks |-> mcard[c].picks, command |-> FALSE]
    OBVIOUS
<1>4. r \in MusicCard /\ CardFits(r, confirm[c])
    BY <1>1, <1>2, <1>3, GoneFits
<1>5. mcard' = [mcard EXCEPT ![c] = r]
    BY <1>3, CardGiven DEF CloseMusicSearch, MusicIInv
<1>6. confirm' = [confirm EXCEPT ![c] = confirm[c]]
    BY DEF CloseMusicSearch, MusicIInv, MusicShape
<1>7. UNCHANGED <<music, jobs, library, hour>> /\ refresh' = refresh
    BY DEF CloseMusicSearch
<1>. QED  BY <1>1, <1>2, <1>4, <1>5, <1>6, <1>7, CardStep

\* The newest confirmation is confirmed.
LEMMA ConfirmTrackStep ==
    ASSUME MusicIInv, NEW c \in MusicCards, ConfirmTrack(c)
    PROVE  MusicGoesOn
<1>1. mcard[c] \in MusicCard /\ confirm[c] \in Seq(View) /\ CardFits(mcard[c], confirm[c])
    BY DEF MusicIInv, MusicShape, CardShape
<1>2. PICK v : v = Len(confirm[c])
    OBVIOUS
<1>3. /\ v \in DOMAIN confirm[c] /\ DOMAIN confirm[c] = 1..Len(confirm[c])
      /\ mcard[c].shows = "confirm" /\ SetView(c, v, "checking", 0)
      /\ ShowMusic(c, "checking") /\ UNCHANGED <<music, jobs, library, hour>> /\ refresh' = refresh
    BY <1>1, <1>2, LenProperties DEF ConfirmTrack
<1>4. PICK views \in Seq(View) :
          /\ confirm' = [confirm EXCEPT ![c] = views] /\ Len(views) = Len(confirm[c])
          /\ DOMAIN views = DOMAIN confirm[c]
          /\ \A w \in DOMAIN views : views[w] = IF w = v THEN [pc |-> "checking", row |-> 0] ELSE confirm[c][w]
  <2>1. MusicShape /\ v \in DOMAIN confirm[c] /\ SetView(c, v, "checking", 0)
      BY <1>3 DEF MusicIInv
  <2>2. "checking" \in {"shown", "checking", "sending", "over"} /\ 0 \in Nat
      OBVIOUS
  <2>. QED  BY <2>1, <2>2, ViewsAfter
<1>5. PICK r : r = [shows |-> "checking", over |-> mcard[c].over, picks |-> mcard[c].picks,
                    command |-> mcard[c].command]
    OBVIOUS
<1>6. r \in MusicCard /\ mcard' = [mcard EXCEPT ![c] = r]
    BY <1>1, <1>3, <1>5, CardGiven DEF MusicIInv, MusicCard
<1>7. CardFits(r, views)
    BY <1>1, <1>3, <1>4, <1>5 DEF CardFits
<1>8. \A w \in DOMAIN views : views[w].pc = "sending" => w \in DOMAIN confirm[c] /\ confirm[c][w] = views[w]
    BY <1>4
<1>. QED  BY <1>3, <1>4, <1>6, <1>7, <1>8, CardStep

\* A confirmation is cancelled, or its time is up.
LEMMA CloseConfirmStep ==
    ASSUME MusicIInv, NEW c \in MusicCards, NEW v \in DOMAIN confirm[c], CloseConfirm(c, v)
    PROVE  MusicGoesOn
<1>1. mcard[c] \in MusicCard /\ confirm[c] \in Seq(View) /\ CardFits(mcard[c], confirm[c])
    BY DEF MusicIInv, MusicShape, CardShape
<1>2. /\ confirm[c][v].pc = "shown" /\ DOMAIN confirm[c] = 1..Len(confirm[c])
      /\ SetView(c, v, "over", 0) /\ mcard' = Removed(c)
      /\ UNCHANGED <<music, jobs, library, hour>> /\ refresh' = refresh
    BY <1>1, LenProperties DEF CloseConfirm, Usable
<1>3. PICK views \in Seq(View) :
          /\ confirm' = [confirm EXCEPT ![c] = views] /\ Len(views) = Len(confirm[c])
          /\ DOMAIN views = DOMAIN confirm[c]
          /\ \A w \in DOMAIN views : views[w] = IF w = v THEN [pc |-> "over", row |-> 0] ELSE confirm[c][w]
    BY <1>2, ViewsAfter DEF MusicIInv
<1>4. PICK r : r = [shows |-> "gone", over |-> TRUE, picks |-> mcard[c].picks, command |-> FALSE]
    OBVIOUS
<1>5. Len(views) = 1 => mcard[c].over /\ views[1].pc \in {"shown", "over"} /\ mcard[c].shows # "accepted"
    BY <1>1, <1>2, <1>3 DEF CardFits
<1>6. r \in MusicCard /\ CardFits(r, views) /\ mcard' = [mcard EXCEPT ![c] = r]
    BY <1>2, <1>3, <1>4, <1>5, GoneFits, CardGiven DEF MusicIInv
<1>7. \A w \in DOMAIN views : views[w].pc = "sending" => w \in DOMAIN confirm[c] /\ confirm[c][w] = views[w]
    BY <1>3
<1>. QED  BY <1>2, <1>3, <1>5, <1>6, <1>7, CardStep

\* A step that begins no request and leaves the jobs alone.
LEMMA RowsChange ==
    ASSUME MusicIInv, MusicShape', CardShape', AcceptedStays, NoNewSending, RowsStay, RowsBlock,
           jobs' = jobs, refresh' = refresh, library' = library, DownloadedIsTrue'
    PROVE  MusicGoesOn
<1>1. JobsStay
    BY DEF JobsStay
<1>. QED  BY <1>1, ReadKept, RequestsKept DEF MusicIInv, MusicGoesOn

\* The member's row alike is of a track that the card's member is after, or of one alike.
LEMMA LatestAlike ==
    ASSUME NEW c \in MusicCards, NEW i \in Latest(c)
    PROVE  i \in DOMAIN music /\ (music[i].track = TrackOf[c] \/ <<music[i].track, TrackOf[c]>> \in Similar)
<1>. DEFINE own(t) ==
              {k \in DOMAIN music : /\ music[k].track = t /\ MusicMember[music[k].card] = MusicMember[c]
                                    /\ Scope[c] = Direct \/ Scope[music[k].card] = Scope[c]}
            alike == UNION {own(t) : t \in {u \in Tracks : <<u, TrackOf[c]>> \in Similar}}
<1>1. i \in own(TrackOf[c]) \/ i \in alike
    BY DEF Latest
<1>. QED  BY <1>1

\* What the check of the library leaves of its card: the views, of which one is over or
\* begins to ask, and its message.
LEMMA CheckedCard ==
    ASSUME MusicIInv, NEW c \in MusicCards, NEW v \in DOMAIN confirm[c],
           confirm[c][v].pc \in {"checking", "sending"},
           NEW pc \in {"sending", "over"}, NEW row \in Nat, SetView(c, v, pc, row),
           \/ pc = "over" /\ \E what \in {"library", "accepted"} : ShowMusic(c, what)
           \/ pc = "over" /\ mcard' = Removed(c)
           \/ pc = "sending" /\ UNCHANGED mcard
    PROVE  /\ mcard' \in [MusicCards -> MusicCard] /\ confirm' \in [MusicCards -> Seq(View)]
           /\ CardShape' /\ AcceptedStays
           /\ DOMAIN confirm'[c] = DOMAIN confirm[c] /\ confirm'[c][v] = [pc |-> pc, row |-> row]
           /\ \A d \in MusicCards : \A w \in DOMAIN confirm'[d] :
                 w \in DOMAIN confirm[d] /\ (~(d = c /\ w = v) => confirm'[d][w] = confirm[d][w])
<1>1. mcard[c] \in MusicCard /\ confirm[c] \in Seq(View) /\ CardFits(mcard[c], confirm[c])
      /\ DOMAIN confirm[c] = 1..Len(confirm[c]) /\ MusicShape /\ CardShape
    BY LenProperties DEF MusicIInv, MusicShape, CardShape
<1>2. PICK views \in Seq(View) :
          /\ confirm' = [confirm EXCEPT ![c] = views] /\ Len(views) = Len(confirm[c])
          /\ DOMAIN views = DOMAIN confirm[c]
          /\ \A w \in DOMAIN views : views[w] = IF w = v THEN [pc |-> pc, row |-> row] ELSE confirm[c][w]
    BY <1>1, ViewsAfter
<1>3. Len(confirm[c]) = 1 => v = 1 /\ mcard[c].shows \notin {"gone", "accepted"} /\ mcard[c].command
                             /\ mcard[c].over /\ views[1].pc = pc
    BY <1>1, <1>2 DEF CardFits
<1>4. Len(views) # 0 /\ (Len(views) <= 1 => Len(confirm[c]) = 1)
  <2>1. Len(confirm[c]) \in Nat /\ v \in 1..Len(confirm[c])
      BY <1>1, LenProperties
  <2>2. Len(confirm[c]) >= 1
      BY <2>1
  <2>3. PICK n \in Nat : n = Len(confirm[c]) /\ n = Len(views)
      BY <1>2, <2>1
  <2>. QED  BY <2>2, <2>3
<1>5. \E r \in MusicCard : mcard' = [mcard EXCEPT ![c] = r] /\ CardFits(r, views)
  <2>1. CASE pc = "over" /\ \E what \in {"library", "accepted"} : ShowMusic(c, what)
    <3>1. PICK what \in {"library", "accepted"} : ShowMusic(c, what)
        BY <2>1
    <3>2. PICK r : r = [shows |-> what, over |-> mcard[c].over, picks |-> mcard[c].picks,
                        command |-> mcard[c].command]
        OBVIOUS
    <3>3. mcard' = [mcard EXCEPT ![c] = r]
        BY <3>1, <3>2, <1>1, CardGiven
    <3>4. r \in MusicCard
        BY <1>1, <3>2 DEF MusicCard
    <3>5. CardFits(r, views)
        BY ONLY <1>3, <1>4, <2>1, <3>2 DEF CardFits
    <3>. QED  BY <3>3, <3>4, <3>5
  <2>2. CASE pc = "over" /\ mcard' = Removed(c)
    <3>1. PICK r : r = [shows |-> "gone", over |-> TRUE, picks |-> mcard[c].picks, command |-> FALSE]
        OBVIOUS
    <3>2. mcard' = [mcard EXCEPT ![c] = r]
        BY <2>2, <3>1, <1>1, CardGiven
    <3>3. r \in MusicCard /\ CardFits(r, views)
        BY <1>2, <1>3, <2>2, <3>1, GoneFits
    <3>. QED  BY <3>2, <3>3
  <2>3. CASE pc = "sending" /\ UNCHANGED mcard
    <3>1. mcard' = [mcard EXCEPT ![c] = mcard[c]]
        BY <2>3, <1>1 DEF MusicShape
    <3>2. CardFits(mcard[c], views)
        BY ONLY <1>3, <1>4, <2>3 DEF CardFits
    <3>. QED  BY <1>1, <3>1, <3>2
  <2>. QED  BY <2>1, <2>2, <2>3
<1>6. PICK r \in MusicCard : mcard' = [mcard EXCEPT ![c] = r] /\ CardFits(r, views)
    BY <1>5
<1>7. ~(mcard[c].shows = "accepted" /\ Len(confirm[c]) = 1 /\ mcard[c].picks = 0)
    BY <1>3
<1>8. /\ mcard' \in [MusicCards -> MusicCard] /\ confirm' \in [MusicCards -> Seq(View)]
      /\ CardShape' /\ AcceptedStays
    BY <1>1, <1>2, <1>6, <1>7, OneMusicCard
<1>9. confirm'[c] = views /\ \A d \in MusicCards : d # c => confirm'[d] = confirm[d]
    BY <1>1, <1>2 DEF MusicShape
<1>. QED  BY <1>2, <1>8, <1>9

\* Who finds no row that blocks another try asks more than a day after every open one.
LEMMA RecentBlocks ==
    ASSUME MusicIInv, NEW c \in MusicCards, Recent(c) = {}, NEW i \in DOMAIN music, Open(i),
           music[i].track = TrackOf[c], Scope[music[i].card] = Scope[c]
    PROVE  hour > music[i].created + RecentHours
<1>1. music[i].status \in Live
  <2>1. CASE Asking(i)
      BY <2>1 DEF Asking, MusicIInv, SendingShape
  <2>2. CASE \E j \in DOMAIN jobs : jobs[j].row = i /\ jobs[j].state # "failed"
      BY <2>2 DEF MusicIInv, JobShape
  <2>. QED  BY <2>1, <2>2 DEF Open
<1>2. ~(hour <= music[i].created + RecentHours)
    BY <1>1 DEF Recent
<1>3. music[i] \in Row /\ hour \in Nat
    BY LenProperties, ElementOfSeq DEF MusicIInv, MusicShape
<1>4. PICK n \in Nat : n = music[i].created
    BY <1>3 DEF Row
<1>. QED  BY <1>2, <1>3, <1>4, MusicAssumption DEF MusicAssumption

\* The library has the track, and a row says so.
LEMMA NotedStep ==
    ASSUME MusicIInv, NEW c \in MusicCards, NEW v \in DOMAIN confirm[c], confirm[c][v].pc = "checking",
           TrackOf[c] \in library, NoteDownloaded(c), SetView(c, v, "over", 0), ShowMusic(c, "library"),
           UNCHANGED <<jobs, library, refresh, hour>>
    PROVE  MusicGoesOn
<1>1. /\ mcard' \in [MusicCards -> MusicCard] /\ confirm' \in [MusicCards -> Seq(View)]
      /\ CardShape' /\ AcceptedStays
      /\ DOMAIN confirm'[c] = DOMAIN confirm[c] /\ confirm'[c][v] = [pc |-> "over", row |-> 0]
      /\ \A d \in MusicCards : \A w \in DOMAIN confirm'[d] :
            w \in DOMAIN confirm[d] /\ (~(d = c /\ w = v) => confirm'[d][w] = confirm[d][w])
  <2>1. "over" \in {"sending", "over"} /\ 0 \in Nat /\ "library" \in {"library", "accepted"}
        /\ confirm[c][v].pc \in {"checking", "sending"}
      OBVIOUS
  <2>2. \E what \in {"library", "accepted"} : ShowMusic(c, what)
      BY <2>1
  <2>. QED  BY <2>1, <2>2, CheckedCard
<1>2. NoNewSending
    BY <1>1 DEF NoNewSending
<1>3. MusicShape
    BY DEF MusicIInv
<1>4. CASE \E i \in Latest(c) : music' = [music EXCEPT ![i].status = "downloaded"]
  <2>1. PICK i \in Latest(c) : music' = [music EXCEPT ![i].status = "downloaded"]
      BY <1>4
  <2>2. i \in DOMAIN music /\ (music[i].track = TrackOf[c] \/ <<music[i].track, TrackOf[c]>> \in Similar)
      BY LatestAlike
  <2>3. music[i] \in Row
      BY <1>3, <2>2, LenProperties DEF MusicShape
  <2>4. PICK r : r = [music[i] EXCEPT !.status = "downloaded"]
      OBVIOUS
  <2>5. r \in Row /\ r.card = music[i].card /\ r.track = music[i].track /\ r.job = music[i].job
        /\ r.created = music[i].created /\ r.status = "downloaded"
      BY <2>3, <2>4 DEF Row, Live
  <2>6. music' = [music EXCEPT ![i] = r]
      BY ONLY <2>1, <2>4, Zenon
  <2>7. /\ music' \in Seq(Row) /\ DOMAIN music' = DOMAIN music
        /\ \A k \in DOMAIN music : music'[k] = IF k = i THEN r ELSE music[k]
      BY <1>3, <2>2, <2>5, <2>6, RowReplaced
  <2>8. RowsStay /\ RowsBlock
      BY <2>5, <2>7 DEF RowsStay, RowsBlock, Live
  <2>9. MusicShape'
    <3>1. \A k \in DOMAIN music' : music'[k].job # 0 => /\ music'[k].job \in DOMAIN jobs
                                                        /\ jobs[music'[k].job].row = k
        BY <1>3, <2>2, <2>5, <2>7 DEF MusicShape
    <3>. QED  BY <1>1, <1>3, <2>7, <3>1 DEF MusicShape
  <2>10. DownloadedIsTrue'
    <3>1. \E t \in library : t = r.track \/ <<r.track, t>> \in Similar
        BY <2>2, <2>5
    <3>. QED  BY <2>5, <2>7, <3>1 DEF MusicIInv, DownloadedIsTrue
  <2>. QED  BY <1>1, <1>2, <2>8, <2>9, <2>10, RowsChange
<1>5. CASE music' = Append(music, NewRow(c, "downloaded"))
  <2>1. PICK r : r = NewRow(c, "downloaded")
      OBVIOUS
  <2>2. r \in Row /\ r.card = c /\ r.track = TrackOf[c] /\ r.job = 0
      BY <1>3, <2>1, MusicAssumption DEF NewRow, Row, Live, MusicAssumption, MusicShape
  <2>3. /\ music' \in Seq(Row) /\ DOMAIN music = 1..Len(music) /\ DOMAIN music' = 1..(Len(music) + 1)
        /\ Len(music) \in Nat /\ music'[Len(music) + 1] = r
        /\ \A k \in DOMAIN music : k \in DOMAIN music' /\ music'[k] = music[k]
      BY <1>3, <1>5, <2>1, <2>2, Appending DEF MusicShape
  <2>4. \A k \in DOMAIN music' : k \in DOMAIN music \/ k = Len(music) + 1
      BY <2>3
  <2>5. RowsStay /\ RowsBlock
      BY <2>3 DEF RowsStay, RowsBlock
  <2>6. MusicShape'
      BY <1>1, <1>3, <2>2, <2>3, <2>4 DEF MusicShape
  <2>7. DownloadedIsTrue'
    <3>1. \E t \in library : t = r.track \/ <<r.track, t>> \in Similar
        BY <2>2
    <3>. QED  BY <2>3, <2>4, <3>1 DEF MusicIInv, DownloadedIsTrue
  <2>. QED  BY <1>1, <1>2, <2>5, <2>6, <2>7, RowsChange
<1>. QED  BY <1>4, <1>5 DEF NoteDownloaded

\* Nobody has asked for the track for a day: a row is written and SoulSync will be asked.
LEMMA BeganStep ==
    ASSUME MusicIInv, NEW c \in MusicCards, NEW v \in DOMAIN confirm[c], confirm[c][v].pc = "checking",
           Recent(c) = {}, music' = Append(music, NewRow(c, "submitting")),
           SetView(c, v, "sending", Len(music')), UNCHANGED <<mcard, jobs, library, refresh, hour>>
    PROVE  MusicGoesOn
<1>1. MusicShape
    BY DEF MusicIInv
<1>2. PICK r : r = NewRow(c, "submitting")
    OBVIOUS
<1>3. /\ r \in Row /\ r.card = c /\ r.track = TrackOf[c] /\ r.job = 0 /\ r.status = "submitting"
      /\ r.created = hour
    BY <1>1, <1>2, MusicAssumption DEF NewRow, Row, Live, MusicAssumption, MusicShape
<1>4. /\ music' \in Seq(Row) /\ DOMAIN music = 1..Len(music) /\ DOMAIN music' = 1..(Len(music) + 1)
      /\ Len(music) \in Nat /\ music'[Len(music) + 1] = r /\ Len(music') = Len(music) + 1
      /\ \A k \in DOMAIN music : k \in DOMAIN music' /\ music'[k] = music[k]
    BY <1>1, <1>2, <1>3, Appending DEF MusicShape
<1>5. PICK n \in Nat : n = Len(music')
    BY <1>4
<1>6. /\ mcard' \in [MusicCards -> MusicCard] /\ confirm' \in [MusicCards -> Seq(View)]
      /\ CardShape' /\ AcceptedStays
      /\ DOMAIN confirm'[c] = DOMAIN confirm[c] /\ confirm'[c][v] = [pc |-> "sending", row |-> n]
      /\ \A d \in MusicCards : \A w \in DOMAIN confirm'[d] :
            w \in DOMAIN confirm[d] /\ (~(d = c /\ w = v) => confirm'[d][w] = confirm[d][w])
  <2>1. "sending" \in {"sending", "over"} /\ SetView(c, v, "sending", n) /\ UNCHANGED mcard
        /\ confirm[c][v].pc \in {"checking", "sending"}
      BY <1>5
  <2>. QED  BY <2>1, CheckedCard
<1>7. \A k \in DOMAIN music' : k \in DOMAIN music \/ k = Len(music) + 1
    BY <1>4
<1>8. RowsStay /\ RowsBlock /\ JobsStay
    BY <1>4 DEF RowsStay, RowsBlock, JobsStay
<1>9. MusicShape'
    BY <1>1, <1>3, <1>4, <1>6, <1>7 DEF MusicShape
<1>10. DownloadedIsTrue'
    BY <1>3, <1>4, <1>7 DEF MusicIInv, DownloadedIsTrue
<1>11. SendingShape'
  <2>. SUFFICES ASSUME NEW d \in MusicCards, NEW w \in DOMAIN confirm'[d], confirm'[d][w].pc = "sending"
                PROVE  /\ confirm'[d][w].row \in DOMAIN music'
                       /\ LET q == music'[confirm'[d][w].row] IN q.job = 0 /\ q.status \in Live
                       /\ \A j \in DOMAIN jobs' : jobs'[j].row # confirm'[d][w].row
                       /\ \A e \in MusicCards : \A x \in DOMAIN confirm'[e] :
                             confirm'[e][x].pc = "sending" /\ confirm'[e][x].row = confirm'[d][w].row
                             => e = d /\ x = w
      BY DEF SendingShape
  <2>1. n \notin DOMAIN music /\ n = Len(music) + 1
      BY <1>4, <1>5
  <2>2. \A e \in MusicCards : \A x \in DOMAIN confirm'[e] : confirm'[e][x].pc = "sending" =>
            \/ e = c /\ x = v /\ confirm'[e][x].row = n
            \/ /\ x \in DOMAIN confirm[e] /\ confirm'[e][x] = confirm[e][x]
               /\ confirm[e][x].row \in DOMAIN music /\ confirm[e][x].row # n
    <3>. SUFFICES ASSUME NEW e \in MusicCards, NEW x \in DOMAIN confirm'[e], confirm'[e][x].pc = "sending"
                  PROVE  \/ e = c /\ x = v /\ confirm'[e][x].row = n
                         \/ /\ x \in DOMAIN confirm[e] /\ confirm'[e][x] = confirm[e][x]
                            /\ confirm[e][x].row \in DOMAIN music /\ confirm[e][x].row # n
        OBVIOUS
    <3>1. CASE e = c /\ x = v
        BY <1>6, <3>1
    <3>2. CASE ~(e = c /\ x = v)
      <4>1. x \in DOMAIN confirm[e] /\ confirm'[e][x] = confirm[e][x]
          BY <1>6, <3>2
      <4>2. confirm[e][x].row \in DOMAIN music
          BY <4>1 DEF MusicIInv, SendingShape
      <4>. QED  BY <2>1, <4>1, <4>2
    <3>. QED  BY <3>1, <3>2
  <2>3. CASE d = c /\ w = v
    <3>1. confirm'[d][w].row = n
        BY <1>6, <2>3
    <3>2. n \in DOMAIN music' /\ music'[n] = r
        BY <1>4, <2>1
    <3>3. \A j \in DOMAIN jobs' : jobs'[j].row # n
        BY <1>1, <2>1 DEF MusicShape
    <3>4. \A e \in MusicCards : \A x \in DOMAIN confirm'[e] :
             confirm'[e][x].pc = "sending" /\ confirm'[e][x].row = n => e = d /\ x = w
        BY <2>2, <2>3
    <3>. QED  BY <1>3, <3>1, <3>2, <3>3, <3>4 DEF Live
  <2>4. CASE ~(d = c /\ w = v)
    <3>1. /\ w \in DOMAIN confirm[d] /\ confirm'[d][w] = confirm[d][w]
          /\ confirm[d][w].row \in DOMAIN music /\ confirm[d][w].row # n
        BY <2>2, <2>4
    <3>2. /\ LET q == music[confirm[d][w].row] IN q.job = 0 /\ q.status \in Live
          /\ \A j \in DOMAIN jobs : jobs[j].row # confirm[d][w].row
          /\ \A e \in MusicCards : \A x \in DOMAIN confirm[e] :
                confirm[e][x].pc = "sending" /\ confirm[e][x].row = confirm[d][w].row => e = d /\ x = w
        BY <3>1 DEF MusicIInv, SendingShape
    <3>3. \A e \in MusicCards : \A x \in DOMAIN confirm'[e] :
             confirm'[e][x].pc = "sending" /\ confirm'[e][x].row = confirm'[d][w].row => e = d /\ x = w
        BY <2>2, <3>1, <3>2
    <3>. QED  BY <1>4, <3>1, <3>2, <3>3
  <2>. QED  BY <2>3, <2>4
<1>12. \A p \in DOMAIN music : Asking(p)' => Asking(p)
  <2>. SUFFICES ASSUME NEW p \in DOMAIN music, Asking(p)'
                PROVE  Asking(p)
      OBVIOUS
  <2>1. PICK d \in MusicCards : \E w \in DOMAIN confirm'[d] :
            confirm'[d][w].pc = "sending" /\ confirm'[d][w].row = p
      BY DEF Asking
  <2>2. PICK w \in DOMAIN confirm'[d] : confirm'[d][w].pc = "sending" /\ confirm'[d][w].row = p
      BY <2>1
  <2>3. ~(d = c /\ w = v)
      BY <1>4, <1>5, <1>6, <2>2
  <2>. QED  BY <1>6, <2>2, <2>3 DEF Asking
<1>13. \A p \in DOMAIN music : (Open(p)' => Open(p)) /\ (AskedFor(p)' => AskedFor(p))
    BY <1>12 DEF Open, AskedFor
<1>14. ApartShape'
  <2>. SUFFICES ASSUME NEW p \in DOMAIN music', NEW q \in DOMAIN music', p < q, Alike(music'[p], music'[q]),
                       Open(p)', AskedFor(q)'
                PROVE  music'[q].created > music'[p].created + RecentHours
      BY DEF ApartShape, Alike
  <2>1. p \in DOMAIN music
      BY <1>4
  <2>2. Open(p) /\ music'[p] = music[p]
      BY <1>4, <1>13, <2>1
  <2>3. CASE q \in DOMAIN music
    <3>1. AskedFor(q) /\ music'[q] = music[q]
        BY <1>4, <1>13, <2>3
    <3>. QED  BY <2>1, <2>2, <2>3, <3>1 DEF MusicIInv, ApartShape
  <2>4. CASE q = Len(music) + 1
    <3>1. music'[q] = r
        BY <1>4, <2>4
    <3>2. music[p].track = TrackOf[c] /\ Scope[music[p].card] = Scope[c]
        BY <1>3, <2>2, <3>1 DEF Alike
    <3>. QED  BY <1>3, <2>1, <2>2, <3>1, <3>2, RecentBlocks
  <2>. QED  BY <1>7, <2>3, <2>4
<1>15. JobShape'
  <2>1. \A j \in DOMAIN jobs : jobs[j].row \in DOMAIN music
      BY <1>1 DEF MusicShape
  <2>. QED  BY <1>4, <2>1 DEF MusicIInv, JobShape
<1>. QED  BY <1>6, <1>8, <1>9, <1>10, <1>11, <1>14, <1>15, ReadKept DEF MusicIInv, MusicGoesOn

\* The library has answered, or could not.
LEMMA CheckTrackStep ==
    ASSUME MusicIInv, NEW c \in MusicCards, NEW v \in DOMAIN confirm[c], CheckTrack(c, v)
    PROVE  MusicGoesOn
<1>1. CASE /\ TrackOf[c] \in library /\ NoteDownloaded(c)
           /\ SetView(c, v, "over", 0) /\ ShowMusic(c, "library")
    BY <1>1, NotedStep DEF CheckTrack
<1>2. CASE /\ SetView(c, v, "over", 0) /\ mcard' = Removed(c) /\ UNCHANGED music
  <2>1. /\ mcard' \in [MusicCards -> MusicCard] /\ confirm' \in [MusicCards -> Seq(View)]
        /\ CardShape' /\ AcceptedStays
        /\ DOMAIN confirm'[c] = DOMAIN confirm[c] /\ confirm'[c][v] = [pc |-> "over", row |-> 0]
        /\ \A d \in MusicCards : \A w \in DOMAIN confirm'[d] :
              w \in DOMAIN confirm[d] /\ (~(d = c /\ w = v) => confirm'[d][w] = confirm[d][w])
    <3>1. "over" \in {"sending", "over"} /\ 0 \in Nat /\ confirm[c][v].pc \in {"checking", "sending"}
        BY DEF CheckTrack
    <3>. QED  BY <1>2, <3>1, CheckedCard
  <2>2. NoNewSending
      BY <2>1 DEF NoNewSending
  <2>3. UNCHANGED <<music, jobs, library, hour>> /\ refresh' = refresh
      BY <1>2 DEF CheckTrack
  <2>. QED  BY <2>1, <2>2, <2>3, CardsOnly DEF MusicGoesOn, MusicIInv
<1>3. CASE /\ Recent(c) = {} /\ music' = Append(music, NewRow(c, "submitting"))
           /\ SetView(c, v, "sending", Len(music')) /\ UNCHANGED mcard
    BY <1>3, BeganStep DEF CheckTrack
<1>. QED  BY <1>1, <1>2, <1>3 DEF CheckTrack

\* SoulSync was asked for a row: it may have a new job, and the view is over.
LEMMA AskedStep ==
    ASSUME MusicIInv, NEW c \in MusicCards, NEW v \in DOMAIN confirm[c], confirm[c][v].pc = "sending",
           NEW i, i = confirm[c][v].row,
           NEW r \in Row, r.card = music[i].card, r.track = music[i].track, r.created = music[i].created,
           r.status # "downloaded", music' = [music EXCEPT ![i] = r],
           NEW x, x = [row |-> i, state |-> "queued"],
           \/ jobs' = jobs /\ r.job = 0
           \/ jobs' = Append(jobs, x) /\ r.job \in {0, Len(jobs) + 1} /\ r.status \in Live,
           SetView(c, v, "over", i),
           (\E what \in {"library", "accepted"} : ShowMusic(c, what)) \/ mcard' = Removed(c),
           library' = library, refresh' = refresh, hour' = hour
    PROVE  MusicGoesOn
<1>1. MusicShape
    BY DEF MusicIInv
<1>3. /\ i \in DOMAIN music /\ music[i].job = 0 /\ music[i].status \in Live
      /\ \A j \in DOMAIN jobs : jobs[j].row # i
      /\ \A d \in MusicCards : \A w \in DOMAIN confirm[d] :
            confirm[d][w].pc = "sending" /\ confirm[d][w].row = i => d = c /\ w = v
    BY DEF MusicIInv, SendingShape
<1>4. i \in Nat
    BY <1>1, <1>3, LenProperties DEF MusicShape
<1>5. /\ mcard' \in [MusicCards -> MusicCard] /\ confirm' \in [MusicCards -> Seq(View)]
      /\ CardShape' /\ AcceptedStays
      /\ DOMAIN confirm'[c] = DOMAIN confirm[c] /\ confirm'[c][v] = [pc |-> "over", row |-> i]
      /\ \A d \in MusicCards : \A w \in DOMAIN confirm'[d] :
            w \in DOMAIN confirm[d] /\ (~(d = c /\ w = v) => confirm'[d][w] = confirm[d][w])
  <2>1. "over" \in {"sending", "over"} /\ confirm[c][v].pc \in {"checking", "sending"}
      OBVIOUS
  <2>. QED  BY <1>4, <2>1, CheckedCard
<1>6. /\ music' \in Seq(Row) /\ DOMAIN music' = DOMAIN music
      /\ \A k \in DOMAIN music : music'[k] = IF k = i THEN r ELSE music[k]
    BY <1>1, <1>3, RowReplaced
<1>7. PICK n \in Nat : n = Len(jobs) + 1 /\ n # 0 /\ DOMAIN jobs = 1..Len(jobs) /\ n \notin DOMAIN jobs
  <2>1. Len(jobs) \in Nat /\ DOMAIN jobs = 1..Len(jobs)
      BY <1>1, LenProperties DEF MusicShape
  <2>. QED  BY <2>1
<1>8. /\ jobs' \in Seq(Job)
      /\ \A j \in DOMAIN jobs : j \in DOMAIN jobs' /\ jobs'[j] = jobs[j]
      /\ \A j \in DOMAIN jobs' : j \in DOMAIN jobs \/ (j = n /\ jobs'[j] = x)
      /\ n \in DOMAIN jobs' => r.status \in Live /\ r.job \in {0, n} /\ jobs'[n] = x
      /\ r.job # 0 => r.job = n /\ n \in DOMAIN jobs'
  <2>1. CASE jobs' = jobs /\ r.job = 0
      BY <1>1, <1>7, <2>1 DEF MusicShape
  <2>2. CASE jobs' = Append(jobs, x) /\ r.job \in {0, Len(jobs) + 1} /\ r.status \in Live
    <3>1. x \in Job
        BY <1>4 DEF Job, JobStates
    <3>2. /\ jobs' \in Seq(Job) /\ Len(jobs) \in Nat /\ DOMAIN jobs' = 1..(Len(jobs) + 1) /\ jobs'[Len(jobs) + 1] = x
          /\ \A k \in DOMAIN jobs : k \in DOMAIN jobs' /\ jobs'[k] = jobs[k]
        BY <1>1, <2>2, <3>1, Appending DEF MusicShape
    <3>3. DOMAIN jobs' = DOMAIN jobs \union {n} /\ jobs'[n] = x
        BY <1>7, <3>2
    <3>. QED  BY <1>7, <2>2, <3>2, <3>3
  <2>. QED  BY <2>1, <2>2
<1>9. RowsStay /\ JobsStay
  <2>1. RowsStay
      BY <1>3, <1>6 DEF RowsStay
  <2>2. JobsStay
      BY <1>8 DEF JobsStay
  <2>. QED  BY <2>1, <2>2
<1>10. MusicShape'
  <2>1. \A k \in DOMAIN music' : music'[k].job # 0 => /\ music'[k].job \in DOMAIN jobs'
                                                      /\ jobs'[music'[k].job].row = k
    <3>. SUFFICES ASSUME NEW k \in DOMAIN music', music'[k].job # 0
                  PROVE  music'[k].job \in DOMAIN jobs' /\ jobs'[music'[k].job].row = k
        OBVIOUS
    <3>1. CASE k = i
        BY <1>6, <1>8, <3>1
    <3>2. CASE k # i
        BY <1>1, <1>6, <1>8, <3>2 DEF MusicShape
    <3>. QED  BY <3>1, <3>2
  <2>2. \A j \in DOMAIN jobs' : jobs'[j].row \in DOMAIN music'
      BY <1>1, <1>3, <1>6, <1>8 DEF MusicShape
  <2>. QED  BY <1>1, <1>5, <1>6, <1>8, <2>1, <2>2 DEF MusicShape
<1>11. \A d \in MusicCards : \A w \in DOMAIN confirm'[d] : confirm'[d][w].pc = "sending" =>
          /\ w \in DOMAIN confirm[d] /\ confirm'[d][w] = confirm[d][w] /\ ~(d = c /\ w = v)
          /\ confirm[d][w].row \in DOMAIN music /\ confirm[d][w].row # i
  <2>. SUFFICES ASSUME NEW d \in MusicCards, NEW w \in DOMAIN confirm'[d], confirm'[d][w].pc = "sending"
                PROVE  /\ w \in DOMAIN confirm[d] /\ confirm'[d][w] = confirm[d][w] /\ ~(d = c /\ w = v)
                       /\ confirm[d][w].row \in DOMAIN music /\ confirm[d][w].row # i
      OBVIOUS
  <2>1. w \in DOMAIN confirm[d] /\ confirm'[d][w] = confirm[d][w] /\ ~(d = c /\ w = v)
      BY <1>5
  <2>2. confirm[d][w].row \in DOMAIN music
      BY <2>1 DEF MusicIInv, SendingShape
  <2>. QED  BY <1>3, <2>1, <2>2
<1>12. SendingShape'
  <2>. SUFFICES ASSUME NEW d \in MusicCards, NEW w \in DOMAIN confirm'[d], confirm'[d][w].pc = "sending"
                PROVE  /\ confirm'[d][w].row \in DOMAIN music'
                       /\ LET q == music'[confirm'[d][w].row] IN q.job = 0 /\ q.status \in Live
                       /\ \A j \in DOMAIN jobs' : jobs'[j].row # confirm'[d][w].row
                       /\ \A e \in MusicCards : \A y \in DOMAIN confirm'[e] :
                             confirm'[e][y].pc = "sending" /\ confirm'[e][y].row = confirm'[d][w].row
                             => e = d /\ y = w
      BY DEF SendingShape
  <2>1. /\ w \in DOMAIN confirm[d] /\ confirm'[d][w] = confirm[d][w]
        /\ confirm[d][w].row \in DOMAIN music /\ confirm[d][w].row # i
      BY <1>11
  <2>2. /\ LET q == music[confirm[d][w].row] IN q.job = 0 /\ q.status \in Live
        /\ \A j \in DOMAIN jobs : jobs[j].row # confirm[d][w].row
        /\ \A e \in MusicCards : \A y \in DOMAIN confirm[e] :
              confirm[e][y].pc = "sending" /\ confirm[e][y].row = confirm[d][w].row => e = d /\ y = w
      BY <2>1 DEF MusicIInv, SendingShape
  <2>3. \A e \in MusicCards : \A y \in DOMAIN confirm'[e] :
           confirm'[e][y].pc = "sending" /\ confirm'[e][y].row = confirm'[d][w].row => e = d /\ y = w
      BY <1>11, <2>1, <2>2
  <2>4. \A j \in DOMAIN jobs' : jobs'[j].row # confirm[d][w].row
      BY <1>8, <2>1, <2>2
  <2>. QED  BY <1>6, <2>1, <2>2, <2>3, <2>4
<1>13. JobShape'
  <2>. SUFFICES ASSUME NEW j \in DOMAIN jobs'
                PROVE  /\ jobs'[j].state # "failed" => music'[jobs'[j].row].status \in Live
                       /\ \A k \in DOMAIN jobs' : jobs'[k].row = jobs'[j].row => k = j
      BY DEF JobShape
  <2>1. CASE j \in DOMAIN jobs
    <3>1. jobs'[j] = jobs[j] /\ jobs[j].row # i /\ jobs[j].row \in DOMAIN music
        BY <1>1, <1>3, <1>8, <2>1 DEF MusicShape
    <3>2. \A k \in DOMAIN jobs' : jobs'[k].row = jobs'[j].row => k = j
        BY <1>8, <2>1, <3>1 DEF MusicIInv, JobShape
    <3>3. music'[jobs[j].row] = music[jobs[j].row]
        BY <1>6, <3>1
    <3>4. jobs[j].state # "failed" => music[jobs[j].row].status \in Live
        BY <2>1 DEF MusicIInv, JobShape
    <3>. QED  BY <3>1, <3>2, <3>3, <3>4
  <2>2. CASE j = n /\ jobs'[j] = x
    <3>1. jobs'[j].row = i /\ r.status \in Live /\ music'[i] = r
        BY <1>3, <1>6, <1>8, <2>2
    <3>2. \A k \in DOMAIN jobs' : jobs'[k].row = i => k = j
        BY <1>3, <1>8, <2>2
    <3>. QED  BY <3>1, <3>2
  <2>. QED  BY <1>8, <2>1, <2>2
<1>14. ApartShape'
  <2>1. Asking(i)
      BY DEF Asking
  <2>2. \A p : Asking(p)' => Asking(p)
      BY <1>11 DEF Asking
  <2>3. \A p : AskedFor(p)' => AskedFor(p)
      BY <1>8, <2>1, <2>2 DEF AskedFor
  <2>4. \A p : Open(p)' => Open(p)
      BY <1>8, <2>1, <2>2 DEF Open
  <2>. QED  BY <1>1, <1>6, <1>9, <1>10, <2>3, <2>4, ApartKept DEF MusicIInv
<1>15. DownloadedIsTrue'
    BY <1>6 DEF MusicIInv, DownloadedIsTrue
<1>. QED  BY <1>5, <1>9, <1>10, <1>12, <1>13, <1>14, <1>15, ReadKept DEF MusicGoesOn, MusicIInv

\* SoulSync is asked.
LEMMA SendTrackStep ==
    ASSUME MusicIInv, NEW c \in MusicCards, NEW v \in DOMAIN confirm[c], SendTrack(c, v)
    PROVE  MusicGoesOn
<1>1. MusicShape /\ confirm[c][v].pc = "sending" /\ library' = library /\ refresh' = refresh /\ hour' = hour
    BY DEF MusicIInv, SendTrack
<1>2. PICK i : i = confirm[c][v].row
    OBVIOUS
<1>3. i \in DOMAIN music /\ music[i].job = 0
    BY <1>1, <1>2 DEF MusicIInv, SendingShape
<1>4. PICK x : x = [row |-> i, state |-> "queued"]
    OBVIOUS
<1>5. PICK taken : taken = Append(jobs, x)
    OBVIOUS
<1>6. Len(taken) = Len(jobs) + 1 /\ Len(jobs) \in Nat
  <2>1. x \in Job
      BY <1>1, <1>3, <1>4, LenProperties DEF Job, JobStates, MusicShape
  <2>. QED  BY <1>1, <1>5, <2>1, Appending DEF MusicShape
<1>7. /\ SetView(c, v, "over", i)
      /\ \/ jobs' = taken /\ music' = Updated(i, "queued", Len(taken)) /\ ShowMusic(c, "accepted")
         \/ jobs' \in {jobs, taken} /\ music' = Updated(i, "ambiguous", 0) /\ ShowMusic(c, "accepted")
         \/ UNCHANGED jobs /\ music' = Updated(i, "failed", 0) /\ mcard' = Removed(c)
    BY <1>2, <1>4, <1>5 DEF SendTrack
<1>8. \A s, m : Updated(i, s, m) =
          [music EXCEPT ![i] = [track |-> music[i].track, card |-> music[i].card, status |-> s,
                                job |-> IF m = 0 THEN music[i].job ELSE m, created |-> music[i].created]]
    BY <1>1, <1>3, UpdatedIs
<1>9. music[i] \in Row
    BY <1>1, <1>3, LenProperties, ElementOfSeq DEF MusicShape
<1>10. \E r \in Row :
          /\ r.card = music[i].card /\ r.track = music[i].track /\ r.created = music[i].created
          /\ r.status # "downloaded" /\ music' = [music EXCEPT ![i] = r]
          /\ \/ jobs' = jobs /\ r.job = 0
             \/ jobs' = taken /\ r.job \in {0, Len(jobs) + 1} /\ r.status \in Live
  <2>1. CASE jobs' = taken /\ music' = Updated(i, "queued", Len(taken))
    <3>1. PICK r : r = [track |-> music[i].track, card |-> music[i].card, status |-> "queued",
                        job |-> IF Len(taken) = 0 THEN music[i].job ELSE Len(taken),
                        created |-> music[i].created]
        OBVIOUS
    <3>2. music' = [music EXCEPT ![i] = r]
        BY <1>8, <2>1, <3>1
    <3>3. /\ r \in Row /\ r.card = music[i].card /\ r.track = music[i].track /\ r.created = music[i].created
          /\ r.status = "queued" /\ r.job = Len(jobs) + 1
        BY <1>3, <1>6, <1>9, <3>1 DEF Row, Live
    <3>. QED  BY <2>1, <3>2, <3>3 DEF Live
  <2>2. CASE jobs' \in {jobs, taken} /\ music' = Updated(i, "ambiguous", 0)
    <3>1. PICK r : r = [track |-> music[i].track, card |-> music[i].card, status |-> "ambiguous",
                        job |-> music[i].job, created |-> music[i].created]
        OBVIOUS
    <3>2. music' = [music EXCEPT ![i] = r]
        BY <1>8, <2>2, <3>1
    <3>3. /\ r \in Row /\ r.card = music[i].card /\ r.track = music[i].track /\ r.created = music[i].created
          /\ r.status = "ambiguous" /\ r.job = 0
        BY <1>3, <1>9, <3>1 DEF Row, Live
    <3>. QED  BY <2>2, <3>2, <3>3 DEF Live
  <2>3. CASE UNCHANGED jobs /\ music' = Updated(i, "failed", 0)
    <3>1. PICK r : r = [track |-> music[i].track, card |-> music[i].card, status |-> "failed",
                        job |-> music[i].job, created |-> music[i].created]
        OBVIOUS
    <3>2. music' = [music EXCEPT ![i] = r]
        BY <1>8, <2>3, <3>1
    <3>3. /\ r \in Row /\ r.card = music[i].card /\ r.track = music[i].track /\ r.created = music[i].created
          /\ r.status = "failed" /\ r.job = 0
        BY <1>3, <1>9, <3>1 DEF Row, Live
    <3>. QED  BY <2>3, <3>2, <3>3
  <2>. QED  BY <1>7, <2>1, <2>2, <2>3
<1>11. PICK r \in Row :
          /\ r.card = music[i].card /\ r.track = music[i].track /\ r.created = music[i].created
          /\ r.status # "downloaded" /\ music' = [music EXCEPT ![i] = r]
          /\ \/ jobs' = jobs /\ r.job = 0
             \/ jobs' = taken /\ r.job \in {0, Len(jobs) + 1} /\ r.status \in Live
    BY <1>10
<1>12. (\E what \in {"library", "accepted"} : ShowMusic(c, what)) \/ mcard' = Removed(c)
    BY <1>7
<1>. QED  BY <1>1, <1>2, <1>4, <1>5, <1>7, <1>11, <1>12, AskedStep

\* A step of SoulSync or of $status: the cards rest.
LEMMA CardsRest ==
    ASSUME MusicIInv, UNCHANGED <<mcard, confirm>>
    PROVE  CardShape' /\ AcceptedStays /\ NoNewSending
<1>1. CardShape' /\ NoNewSending
    BY DEF MusicIInv, CardShape, NoNewSending
<1>2. ASSUME NEW c \in MusicCards, mcard[c].shows = "accepted", Len(confirm[c]) = 1
      PROVE  mcard'[c].shows = "accepted" /\ mcard'[c].command
  <2>1. CardFits(mcard[c], confirm[c])
      BY DEF MusicIInv, CardShape
  <2>. QED  BY <1>2, <2>1 DEF CardFits
<1>. QED  BY <1>1, <1>2 DEF AcceptedStays

\* SoulSync ends a job.
LEMMA WorkJobStep ==
    ASSUME MusicIInv, NEW j \in DOMAIN jobs, WorkJob(j)
    PROVE  MusicGoesOn
<1>1. MusicShape /\ jobs \in Seq(Job) /\ DOMAIN jobs = 1..Len(jobs)
    BY LenProperties DEF MusicIInv, MusicShape
<1>2. PICK s \in {"completed", "failed"} : jobs' = [jobs EXCEPT ![j].state = s]
    BY DEF WorkJob
<1>3. jobs[j] \in Job /\ jobs[j].state = "queued"
    BY <1>1, ElementOfSeq DEF WorkJob
<1>4. PICK x : x = [jobs[j] EXCEPT !.state = s]
    OBVIOUS
<1>5. x \in Job /\ x.row = jobs[j].row /\ x.state = s
    BY <1>3, <1>4 DEF Job, JobStates
<1>6. jobs' = [jobs EXCEPT ![j] = x]
    BY ONLY <1>2, <1>4, Zenon
<1>7. /\ jobs' \in Seq(Job) /\ Len(jobs') = Len(jobs)
      /\ \A k \in 1..Len(jobs) : jobs'[k] = IF k = j THEN x ELSE jobs[k]
    BY <1>1, <1>5, <1>6, ExceptSeq
<1>8. DOMAIN jobs' = DOMAIN jobs
    BY <1>1, <1>7, LenProperties
<1>9. library \subseteq library' /\ library' \subseteq Tracks /\ UNCHANGED <<music, refresh, hour, mcard, confirm>>
  <2>1. music[jobs[j].row] \in Row
      BY <1>1, LenProperties, ElementOfSeq DEF MusicShape
  <2>2. music[jobs[j].row].track \in Tracks /\ library \subseteq Tracks
      BY <1>1, <2>1 DEF Row, MusicShape
  <2>. QED  BY <2>2 DEF WorkJob
<1>10. RowsStay /\ RowsBlock
    BY <1>9 DEF RowsStay, RowsBlock
<1>11. JobsStay /\ \A k \in DOMAIN jobs : jobs'[k].row = jobs[k].row
    BY <1>1, <1>3, <1>5, <1>7, <1>8 DEF JobsStay
<1>12. MusicShape'
    BY <1>1, <1>7, <1>8, <1>9, <1>11 DEF MusicShape
<1>13. DownloadedIsTrue'
    BY <1>9 DEF MusicIInv, DownloadedIsTrue
<1>. QED  BY <1>8, <1>9, <1>10, <1>11, <1>12, <1>13, CardsRest, ReadKept, RequestsKept
          DEF MusicIInv, MusicGoesOn

\* $status has read a row and what SoulSync and the library say of it.
LEMMA ReadStatusStep ==
    ASSUME MusicIInv, NEW i \in DOMAIN music, ReadStatus(i)
    PROVE  MusicGoesOn
<1>1. UNCHANGED <<music, mcard, confirm, jobs, library, hour>>
    BY DEF ReadStatus
<1>2. RowsStay /\ RowsBlock /\ JobsStay
    BY <1>1 DEF RowsStay, RowsBlock, JobsStay
<1>3. ReadShape'
  <2>1. CASE music[i].track \in library /\ refresh' = [row |-> i, seen |-> "downloaded"]
      BY <1>1, <2>1 DEF ReadShape
  <2>2. CASE music[i].job # 0 /\ refresh' = [row |-> i, seen |-> jobs[music[i].job].state]
    <3>1. music[i].job \in DOMAIN jobs
        BY <2>2 DEF MusicIInv, MusicShape
    <3>. PICK k \in DOMAIN jobs : k = music[i].job
        BY <3>1
    <3>3. jobs[k] \in Job
        BY LenProperties, ElementOfSeq DEF MusicIInv, MusicShape
    <3>2. jobs[music[i].job].state \in JobStates /\ jobs[music[i].job].state # "downloaded"
        BY <3>3 DEF Job, JobStates
    <3>. QED  BY <1>1, <2>2, <3>2 DEF ReadShape
  <2>. QED  BY <2>1, <2>2 DEF ReadStatus
<1>4. MusicShape' /\ DownloadedIsTrue'
    BY <1>1 DEF MusicIInv, MusicShape, DownloadedIsTrue
<1>. QED  BY <1>1, <1>2, <1>3, <1>4, CardsRest, RequestsKept DEF MusicIInv, MusicGoesOn

\* $status writes what it has read, however long ago: a row is given up only for a job
\* that has failed.
LEMMA WriteStatusStep ==
    ASSUME MusicIInv, WriteStatus
    PROVE  MusicGoesOn
<1>1. MusicShape /\ UNCHANGED <<mcard, confirm, jobs, library, hour>> /\ refresh' = Idle
    BY DEF WriteStatus, MusicIInv
<1>2. PICK i : i = refresh.row
    OBVIOUS
<1>3. PICK s : s = refresh.seen
    OBVIOUS
<1>4. /\ i \in DOMAIN music /\ s \in JobStates \union {"downloaded"}
      /\ s = "downloaded" => music[i].track \in library
      /\ s = "failed" => music[i].job # 0 /\ jobs[music[i].job].state = "failed"
    BY <1>2, <1>3 DEF WriteStatus, MusicIInv, ReadShape
<1>5. PICK m \in {0, music[i].job} : music' = Updated(i, s, m)
    BY <1>2, <1>3 DEF WriteStatus
<1>6. music[i] \in Row
    BY <1>1, <1>4, LenProperties DEF MusicShape
<1>7. PICK r : r = [track |-> music[i].track, card |-> music[i].card, status |-> s,
                    job |-> IF m = 0 THEN music[i].job ELSE m, created |-> music[i].created]
    OBVIOUS
<1>8. /\ r \in Row /\ r.card = music[i].card /\ r.track = music[i].track /\ r.created = music[i].created
      /\ r.status = s /\ r.job = music[i].job
    BY <1>4, <1>5, <1>6, <1>7 DEF Row, Live, JobStates
<1>9. music' = [music EXCEPT ![i] = r]
    BY <1>1, <1>4, <1>5, <1>7, UpdatedIs
<1>10. /\ music' \in Seq(Row) /\ DOMAIN music' = DOMAIN music
       /\ \A k \in DOMAIN music : music'[k] = IF k = i THEN r ELSE music[k]
    BY <1>1, <1>4, <1>8, <1>9, RowReplaced
<1>11. RowsStay
    BY <1>8, <1>10 DEF RowsStay
<1>12. ReadShape'
    BY <1>1 DEF ReadShape
<1>13. MusicShape'
  <2>1. \A k \in DOMAIN music' : music'[k].job # 0 => /\ music'[k].job \in DOMAIN jobs
                                                      /\ jobs[music'[k].job].row = k
      BY <1>1, <1>4, <1>8, <1>10 DEF MusicShape
  <2>. QED  BY <1>1, <1>10, <2>1 DEF MusicShape
<1>14. s \in Live \/ (s = "failed" /\ music[i].job # 0 /\ jobs[music[i].job].state = "failed")
    BY <1>4 DEF Live, JobStates
<1>15. s \notin Live => ~Open(i)
  <2>. SUFFICES ASSUME s \notin Live, Open(i)
                PROVE  FALSE
      OBVIOUS
  <2>1. PICK k : k = music[i].job
      OBVIOUS
  <2>2. k # 0 /\ jobs[k].state = "failed" /\ k \in DOMAIN jobs /\ jobs[k].row = i
      BY <1>1, <1>4, <1>14, <2>1 DEF MusicShape
  <2>3. CASE Asking(i)
    <3>1. PICK c \in MusicCards : \E v \in DOMAIN confirm[c] :
                confirm[c][v].pc = "sending" /\ confirm[c][v].row = i
        BY <2>3 DEF Asking
    <3>2. PICK v \in DOMAIN confirm[c] : confirm[c][v].pc = "sending" /\ confirm[c][v].row = i
        BY <3>1
    <3>3. SendingShape
        BY DEF MusicIInv
    <3>4. \A j \in DOMAIN jobs : jobs[j].row # confirm[c][v].row
        BY <3>2, <3>3 DEF SendingShape
    <3>. QED  BY <2>2, <3>2, <3>4
  <2>4. CASE \E j \in DOMAIN jobs : jobs[j].row = i /\ jobs[j].state # "failed"
      BY <2>2, <2>4 DEF MusicIInv, JobShape
  <2>. QED  BY <2>3, <2>4 DEF Open
<1>16. RowsBlock
    BY <1>8, <1>10, <1>15 DEF RowsBlock
<1>17. DownloadedIsTrue'
  <2>. SUFFICES ASSUME NEW k \in DOMAIN music, music'[k].status = "downloaded"
                PROVE  \E t \in library : t = music[k].track \/ <<music[k].track, t>> \in Similar
      BY <1>1, <1>10, <1>11 DEF DownloadedIsTrue, RowsStay
  <2>1. CASE k = i
      BY <1>4, <1>8, <1>10, <2>1
  <2>2. CASE k # i
      BY <1>10, <2>2 DEF MusicIInv, DownloadedIsTrue
  <2>. QED  BY <2>1, <2>2
<1>18. JobsStay
    BY <1>1 DEF JobsStay
<1>. QED  BY <1>1, <1>11, <1>12, <1>13, <1>16, <1>17, <1>18, CardsRest, RequestsKept DEF MusicIInv, MusicGoesOn

\* The rows of a set, one after the other.
LEMMA RowsInARow ==
    ASSUME NEW S, IsFiniteSet(S)
    PROVE  /\ Cardinality(S) \in Nat /\ SetToSeq(S) \in [1..Cardinality(S) -> S]
           /\ \A a, b \in 1..Cardinality(S) : SetToSeq(S)[a] = SetToSeq(S)[b] => a = b
<1>1. Cardinality(S) \in Nat /\ ExistsBijection(1..Cardinality(S), S)
    BY FS_CardinalityType
<1>2. \E f \in [1..Cardinality(S) -> S] : IsInjective(f)
    BY <1>1 DEF ExistsBijection, Bijection, Injection
<1>3. SetToSeq(S) \in [1..Cardinality(S) -> S] /\ IsInjective(SetToSeq(S))
    BY <1>2 DEF SetToSeq
<1>. QED  BY <1>1, <1>3 DEF IsInjective

\* The bot stops: every view is over, and SoulSync has the jobs it got on the way.
LEMMA StopMusicStep ==
    ASSUME MusicIInv, StopMusic
    PROVE  MusicGoesOn
<1>. PICK sending : sending = {i \in DOMAIN music : \E c \in MusicCards : \E v \in DOMAIN confirm[c] :
                                  confirm[c][v].pc = "sending" /\ confirm[c][v].row = i}
    OBVIOUS
<1>1. PICK got \in SUBSET sending :
          jobs' = jobs \o [k \in 1..Cardinality(got) |-> [row |-> SetToSeq(got)[k], state |-> "queued"]]
    BY DEF StopMusic
<1>2. MusicShape /\ UNCHANGED <<music, library, hour>> /\ refresh' = Idle
    BY DEF StopMusic, MusicIInv
<1>3. IsFiniteSet(got)
  <2>1. Len(music) \in Nat /\ DOMAIN music = 1..Len(music)
      BY <1>2, LenProperties DEF MusicShape
  <2>2. IsFiniteSet(DOMAIN music)
      BY <2>1, FS_Interval
  <2>3. got \in SUBSET DOMAIN music
      OBVIOUS
  <2>. QED  BY <2>2, <2>3, FS_Subset
<1>. PICK f : f = SetToSeq(got)
    OBVIOUS
<1>. PICK n : n = Cardinality(got)
    OBVIOUS
<1>4. n \in Nat /\ f \in [1..n -> got] /\ \A a, b \in 1..n : f[a] = f[b] => a = b
    BY <1>3, RowsInARow
<1>5. PICK new : new = [i \in 1..n |-> [row |-> f[i], state |-> "queued"]]
    OBVIOUS
<1>6. jobs' = jobs \o new
    BY <1>1, <1>5
<1>7. \A i \in 1..n : /\ f[i] \in DOMAIN music /\ Asking(f[i])
                      /\ new[i] \in Job /\ new[i].row = f[i] /\ new[i].state = "queued"
  <2>. SUFFICES ASSUME NEW i \in 1..n
                PROVE  /\ f[i] \in DOMAIN music /\ Asking(f[i])
                       /\ new[i] \in Job /\ new[i].row = f[i] /\ new[i].state = "queued"
      OBVIOUS
  <2>1. f[i] \in sending
      BY <1>4
  <2>2. f[i] \in DOMAIN music /\ Asking(f[i])
      BY <2>1 DEF Asking
  <2>3. f[i] \in Nat
      BY <1>2, <2>2, LenProperties DEF MusicShape
  <2>. QED  BY <1>5, <2>2, <2>3 DEF Job, JobStates
<1>8. new \in Seq(Job) /\ Len(new) = n
  <2>1. new \in [1..n -> Job]
      BY <1>5, <1>7
  <2>. QED  BY <1>4, <2>1
<1>9. PICK l \in Nat : l = Len(jobs) /\ DOMAIN jobs = 1..l
    BY <1>2, LenProperties DEF MusicShape
<1>10. /\ jobs' \in Seq(Job) /\ DOMAIN jobs' = 1..(l + n)
       /\ \A j \in 1..(l + n) : jobs'[j] = IF j <= l THEN jobs[j] ELSE new[j - l]
  <2>1. jobs \in Seq(Job)
      BY <1>2 DEF MusicShape
  <2>2. /\ jobs' \in Seq(Job) /\ Len(jobs') = l + n
        /\ \A j \in 1..(l + n) : jobs'[j] = IF j <= l THEN jobs[j] ELSE new[j - l]
    <3>1. /\ jobs \o new \in Seq(Job) /\ Len(jobs \o new) = Len(jobs) + Len(new)
          /\ \A j \in 1..(Len(jobs) + Len(new)) :
                (jobs \o new)[j] = IF j <= Len(jobs) THEN jobs[j] ELSE new[j - Len(jobs)]
        BY ONLY <1>8, <2>1, ConcatProperties
    <3>2. Len(jobs) = l /\ Len(new) = n
        BY ONLY <1>8, <1>9
    <3>. QED  BY ONLY <1>6, <3>1, <3>2
  <2>. QED  BY <2>2, LenProperties
<1>11. \A j \in DOMAIN jobs : j \in DOMAIN jobs' /\ jobs'[j] = jobs[j]
    BY <1>4, <1>9, <1>10
<1>12. ASSUME NEW j \in DOMAIN jobs', j \notin DOMAIN jobs
       PROVE  j - l \in 1..n /\ jobs'[j] = new[j - l] /\ j > l
    BY <1>4, <1>9, <1>10, <1>12
<1>13. /\ mcard' \in [MusicCards -> MusicCard] /\ confirm' \in [MusicCards -> Seq(View)]
       /\ \A c \in MusicCards : /\ Len(confirm'[c]) = Len(confirm[c])
                                /\ \A v \in DOMAIN confirm'[c] : confirm'[c][v].pc = "over"
                                /\ mcard'[c].shows = mcard[c].shows /\ mcard'[c].command = mcard[c].command
                                /\ mcard'[c].over
  <2>1. confirm' = [c \in MusicCards |-> [v \in DOMAIN confirm[c] |-> [confirm[c][v] EXCEPT !.pc = "over"]]]
        /\ mcard' = [c \in MusicCards |-> [mcard[c] EXCEPT !.over = TRUE, !.picks = 0]]
      BY DEF StopMusic
  <2>2. ASSUME NEW c \in MusicCards
        PROVE  /\ mcard'[c] \in MusicCard
               /\ mcard'[c].shows = mcard[c].shows /\ mcard'[c].command = mcard[c].command
               /\ mcard'[c].over
    <3>1. mcard[c] \in MusicCard /\ mcard'[c] = [mcard[c] EXCEPT !.over = TRUE, !.picks = 0]
        BY <1>2, <2>1 DEF MusicShape
    <3>2. PICK p : p = mcard[c]
        OBVIOUS
    <3>3. PICK q : q = [p EXCEPT !.over = TRUE, !.picks = 0]
        OBVIOUS
    <3>4. q \in MusicCard /\ q.shows = p.shows /\ q.command = p.command /\ q.over
        BY ONLY <3>1, <3>2, <3>3 DEF MusicCard
    <3>. QED  BY <3>1, <3>2, <3>3, <3>4
  <2>3. ASSUME NEW c \in MusicCards
        PROVE  /\ confirm'[c] \in Seq(View) /\ Len(confirm'[c]) = Len(confirm[c])
               /\ \A v \in DOMAIN confirm'[c] : confirm'[c][v].pc = "over"
    <3>1. PICK k \in Nat : k = Len(confirm[c]) /\ DOMAIN confirm[c] = 1..k
        BY <1>2, LenProperties DEF MusicShape
    <3>2. \A v \in 1..k : confirm[c][v] \in View
        BY <1>2, <3>1, ElementOfSeq DEF MusicShape
    <3>3. confirm'[c] = [v \in 1..k |-> [confirm[c][v] EXCEPT !.pc = "over"]]
        BY <2>1, <3>1
    <3>4. \A v \in 1..k : [confirm[c][v] EXCEPT !.pc = "over"] \in View
                          /\ [confirm[c][v] EXCEPT !.pc = "over"].pc = "over"
        BY <3>2 DEF View
    <3>5. confirm'[c] \in [1..k -> View]
        BY <3>3, <3>4
    <3>6. confirm'[c] \in Seq(View) /\ Len(confirm'[c]) = k
        BY <3>5
    <3>. QED  BY <3>1, <3>3, <3>4, <3>6
  <2>4. mcard' \in [MusicCards -> MusicCard]
      BY <2>1, <2>2
  <2>5. confirm' \in [MusicCards -> Seq(View)]
      BY <2>1, <2>3
  <2>. QED  BY <2>2, <2>3, <2>4, <2>5
<1>14. RowsStay
    BY <1>2 DEF RowsStay
<1>15. MusicShape'
  <2>1. \A j \in DOMAIN jobs' : jobs'[j].row \in DOMAIN music
    <3>1. ASSUME NEW j \in DOMAIN jobs', j \notin DOMAIN jobs
          PROVE  jobs'[j].row \in DOMAIN music
      <4>1. PICK i \in 1..n : i = j - l /\ jobs'[j] = new[i]
          BY <1>12, <3>1
      <4>. QED  BY <1>7, <4>1
    <3>. QED  BY <1>2, <1>11, <3>1 DEF MusicShape
  <2>2. \A i \in DOMAIN music : music[i].job # 0 => /\ music[i].job \in DOMAIN jobs'
                                                    /\ jobs'[music[i].job].row = i
      BY <1>2, <1>11 DEF MusicShape
  <2>3. music \in Seq(Row) /\ library \subseteq Tracks /\ hour' \in Nat
      BY <1>2 DEF MusicShape
  <2>. QED  BY ONLY <1>2, <1>10, <1>13, <2>1, <2>2, <2>3 DEF MusicShape
<1>16. ReadShape'
    BY <1>2 DEF ReadShape
<1>17. SendingShape'
    BY <1>13 DEF SendingShape
<1>18. ASSUME NEW j \in DOMAIN jobs', j \notin DOMAIN jobs
       PROVE  /\ Asking(jobs'[j].row) /\ music[jobs'[j].row].status \in Live
              /\ \A k \in DOMAIN jobs' : jobs'[k].row = jobs'[j].row => k = j
  <2>1. PICK i \in 1..n : i = j - l /\ jobs'[j] = new[i] /\ j > l
      BY <1>12, <1>18
  <2>2. jobs'[j].row = f[i] /\ Asking(f[i])
      BY <1>7, <2>1
  <2>3. music[f[i]].status \in Live /\ \A k \in DOMAIN jobs : jobs[k].row # f[i]
      BY <2>2 DEF Asking, MusicIInv, SendingShape
  <2>4. ASSUME NEW k \in DOMAIN jobs', jobs'[k].row = f[i]  PROVE k = j
    <3>1. k \notin DOMAIN jobs
        BY <1>11, <2>3, <2>4
    <3>2. PICK y \in 1..n : y = k - l /\ jobs'[k] = new[y] /\ k > l
        BY <1>12, <3>1
    <3>3. y = i
        BY <1>4, <1>7, <2>4, <3>2
    <3>4. j \in Int /\ k \in Int
        BY <1>4, <1>9, <1>10
    <3>. QED  BY <1>9, <2>1, <3>2, <3>3, <3>4
  <2>. QED  BY <2>2, <2>3, <2>4
<1>19. JobShape'
  <2>. SUFFICES ASSUME NEW j \in DOMAIN jobs'
                PROVE  /\ jobs'[j].state # "failed" => music[jobs'[j].row].status \in Live
                       /\ \A k \in DOMAIN jobs' : jobs'[k].row = jobs'[j].row => k = j
      BY <1>2 DEF JobShape
  <2>1. CASE j \in DOMAIN jobs
    <3>1. jobs'[j] = jobs[j]
        BY <1>11, <2>1
    <3>2. \A k \in DOMAIN jobs' : jobs'[k].row = jobs'[j].row => k = j
      <4>. SUFFICES ASSUME NEW k \in DOMAIN jobs', jobs'[k].row = jobs'[j].row
                    PROVE  k = j
          OBVIOUS
      <4>1. CASE k \in DOMAIN jobs
          BY <1>11, <2>1, <3>1, <4>1 DEF MusicIInv, JobShape
      <4>2. CASE k \notin DOMAIN jobs
          BY <1>18, <4>2
      <4>. QED  BY <4>1, <4>2
    <3>. QED  BY <2>1, <3>1, <3>2 DEF MusicIInv, JobShape
  <2>2. CASE j \notin DOMAIN jobs
      BY <1>18, <2>2
  <2>. QED  BY <2>1, <2>2
<1>20. ApartShape'
  <2>1. \A p : ~Asking(p)'
      BY <1>13 DEF Asking
  <2>2. \A p : AskedFor(p)' => AskedFor(p)
      BY <1>11, <1>18, <2>1 DEF AskedFor
  <2>3. \A p : Open(p)' => Open(p)
      BY <1>11, <1>18, <2>1 DEF Open
  <2>. QED  BY <1>2, <1>14, <1>15, <2>2, <2>3, ApartKept DEF MusicIInv
<1>21. DownloadedIsTrue'
    BY <1>2 DEF MusicIInv, DownloadedIsTrue
<1>22. \A c \in MusicCards : Len(confirm[c]) \in Nat /\ DOMAIN confirm'[c] = 1..Len(confirm[c])
    BY <1>2, <1>13, LenProperties DEF MusicShape
<1>23. CardShape'
  <2>. SUFFICES ASSUME NEW c \in MusicCards
                PROVE  CardFits(mcard'[c], confirm'[c])
      BY DEF CardShape
  <2>1. CardFits(mcard[c], confirm[c])
      BY DEF MusicIInv, CardShape
  <2>2. Len(confirm[c]) = 1 => confirm'[c][1].pc = "over"
      BY <1>13, <1>22
  <2>. QED  BY <1>13, <2>1, <2>2 DEF CardFits
<1>24. AcceptedStays
  <2>. SUFFICES ASSUME NEW c \in MusicCards, mcard[c].shows = "accepted", Len(confirm[c]) = 1
                PROVE  mcard'[c].shows = "accepted" /\ mcard'[c].command
      BY DEF AcceptedStays
  <2>1. CardFits(mcard[c], confirm[c])
      BY DEF MusicIInv, CardShape
  <2>. QED  BY <1>13, <2>1 DEF CardFits
<1>. QED  BY <1>14, <1>15, <1>16, <1>17, <1>19, <1>20, <1>21, <1>23, <1>24 DEF MusicIInv, MusicGoesOn

\* An hour passes.
LEMMA PassHourStep ==
    ASSUME MusicIInv, PassHour
    PROVE  MusicGoesOn
<1>1. UNCHANGED <<music, mcard, confirm, jobs, library, refresh>> /\ hour' = hour + 1
    BY DEF PassHour
<1>2. RowsStay /\ RowsBlock /\ JobsStay
    BY <1>1 DEF RowsStay, RowsBlock, JobsStay
<1>3. MusicShape' /\ DownloadedIsTrue'
    BY <1>1 DEF MusicIInv, MusicShape, DownloadedIsTrue
<1>. QED  BY <1>1, <1>2, <1>3, CardsRest, ReadKept, RequestsKept DEF MusicIInv, MusicGoesOn

\* A step of the music requests.
LEMMA MusicStep ==
    ASSUME MusicIInv, MusicNext
    PROVE  MusicGoesOn
<1>1. ASSUME NEW c \in MusicCards, ClickTrack(c) \/ SelectTrack(c) \/ CloseMusicSearch(c) \/ ConfirmTrack(c)
      PROVE  MusicGoesOn
    BY <1>1, ClickTrackStep, SelectTrackStep, CloseMusicSearchStep, ConfirmTrackStep
<1>2. ASSUME NEW c \in MusicCards, NEW v \in DOMAIN confirm[c],
             CheckTrack(c, v) \/ SendTrack(c, v) \/ CloseConfirm(c, v)
      PROVE  MusicGoesOn
    BY <1>2, CheckTrackStep, SendTrackStep, CloseConfirmStep
<1>. QED  BY <1>1, <1>2, WorkJobStep, ReadStatusStep, WriteStatusStep, StopMusicStep, PassHourStep DEF MusicNext

\* Nothing is requested at first.
LEMMA MusicStarts ==
    ASSUME MusicInit
    PROVE  MusicIInv
<1>1. PICK given \in SUBSET MusicCards :
          mcard = [c \in MusicCards |-> [shows |-> IF c \in given THEN "search" ELSE "gone",
                                         over |-> c \notin given, picks |-> 0, command |-> c \in given]]
    BY DEF MusicInit
<1>2. /\ music = <<>> /\ jobs = <<>> /\ library \subseteq Tracks /\ refresh = Idle
      /\ confirm = [c \in MusicCards |-> <<>>] /\ hour = 0
    BY DEF MusicInit
<1>3. \A c \in MusicCards : /\ mcard[c] \in MusicCard /\ confirm[c] = <<>>
                            /\ mcard[c].shows \in {"search", "gone"}
                            /\ mcard[c].shows # "gone" => mcard[c].command
  <2>. SUFFICES ASSUME NEW c \in MusicCards
                PROVE  /\ mcard[c] \in MusicCard /\ confirm[c] = <<>>
                       /\ mcard[c].shows \in {"search", "gone"}
                       /\ mcard[c].shows # "gone" => mcard[c].command
      OBVIOUS
  <2>1. CASE c \in given
      BY <1>1, <1>2, <2>1 DEF MusicCard
  <2>2. CASE c \notin given
      BY <1>1, <1>2, <2>2 DEF MusicCard
  <2>. QED  BY <2>1, <2>2
<1>4. mcard \in [MusicCards -> MusicCard] /\ confirm \in [MusicCards -> Seq(View)]
    BY <1>1, <1>2, <1>3
<1>5. MusicShape
    BY <1>2, <1>4 DEF MusicShape
<1>6. CardShape
    BY <1>3 DEF CardShape, CardFits
<1>7. ReadShape /\ SendingShape /\ JobShape /\ ApartShape /\ DownloadedIsTrue
    BY <1>2 DEF ReadShape, SendingShape, JobShape, ApartShape, DownloadedIsTrue
<1>. QED  BY <1>5, <1>6, <1>7 DEF MusicIInv

\* Nothing happens to the music requests.
LEMMA MusicRests ==
    ASSUME MusicIInv, UNCHANGED musicVars
    PROVE  MusicGoesOn
<1>1. UNCHANGED <<music, mcard, confirm, jobs, library, refresh, hour>>
    BY DEF musicVars
<1>2. RowsStay /\ RowsBlock /\ JobsStay
    BY <1>1 DEF RowsStay, RowsBlock, JobsStay
<1>3. MusicShape' /\ DownloadedIsTrue'
    BY <1>1 DEF MusicIInv, MusicShape, DownloadedIsTrue
<1>. QED  BY <1>1, <1>2, <1>3, CardsRest, ReadKept, RequestsKept DEF MusicIInv, MusicGoesOn

\* What the invariant of the music cards says follows from the inductive one: two jobs came
\* of two rows, and of an earlier one that is still open.
LEMMA MusicIsRight ==
    ASSUME MusicIInv
    PROVE  MusicInv
<1>1. NoDuplicateDownload
  <2>. SUFFICES ASSUME NEW i \in DOMAIN jobs, NEW j \in DOMAIN jobs, i # j, jobs[i].row <= jobs[j].row,
                       Alike(music[jobs[i].row], music[jobs[j].row]), jobs[i].state # "failed"
                PROVE  music[jobs[j].row].created > music[jobs[i].row].created + RecentHours
      BY DEF NoDuplicateDownload
  <2>1. jobs[i].row \in DOMAIN music /\ jobs[j].row \in DOMAIN music
      BY DEF MusicIInv, MusicShape
  <2>2. jobs[i].row \in Nat /\ jobs[j].row \in Nat
      BY <2>1, LenProperties DEF MusicIInv, MusicShape
  <2>3. jobs[i].row # jobs[j].row
      BY DEF MusicIInv, JobShape
  <2>4. jobs[i].row < jobs[j].row
      BY <2>2, <2>3
  <2>5. Open(jobs[i].row) /\ AskedFor(jobs[j].row)
      BY DEF Open, AskedFor
  <2>. QED  BY <2>1, <2>4, <2>5 DEF MusicIInv, ApartShape
<1>2. MusicTypeOK
    BY DEF MusicIInv, MusicShape, MusicTypeOK
<1>. QED  BY <1>1, <1>2 DEF MusicIInv, MusicInv

\* However the confirmations, SoulSync's answers, $status, the hours and the stops of the bot
\* interleave, the rows, the jobs and the cards fit one another.
THEOREM MusicInvariance == MusicSpec => []MusicIInv
<1>1. MusicIInv /\ [MusicNext]_musicVars => MusicIInv'
    BY MusicStep, MusicRests DEF MusicGoesOn
<1>. QED  BY <1>1, MusicStarts, PTL DEF MusicSpec

\* Whoever confirms, and whatever SoulSync fails to answer: it takes on a track a second time
\* for a server only when the first job has failed or was asked for more than a day earlier,
\* and a row says downloaded only of what the library has.
THEOREM MusicHolds == MusicSpec => []MusicInv
  BY MusicInvariance, MusicIsRight, PTL

\* SoulSync's number of a request is never lost or changed, and the card of an accepted
\* request is not deleted by a view that is left over.
THEOREM AcceptanceKept == MusicSpec => AcceptanceStands
<1>. DEFINE NumbersStay == \A i \in DOMAIN music : music[i].job # 0 => music'[i].job = music[i].job
            CardsStay == \A c \in MusicCards :
                mcard[c].shows = "accepted" /\ Len(confirm[c]) = 1 /\ mcard[c].picks = 0 =>
                    mcard'[c].shows = "accepted" /\ mcard'[c].command
<1>1. MusicIInv /\ [MusicNext]_musicVars => NumbersStay /\ CardsStay
  <2>. SUFFICES ASSUME MusicIInv, [MusicNext]_musicVars
                PROVE  NumbersStay /\ CardsStay
      OBVIOUS
  <2>1. MusicGoesOn
      BY MusicStep, MusicRests
  <2>2. NumbersStay
      BY <2>1 DEF MusicGoesOn, RowsStay
  <2>3. CardsStay
      BY <2>1 DEF MusicGoesOn, AcceptedStays
  <2>. QED  BY <2>2, <2>3
<1>2. MusicSpec => [][NumbersStay]_musicVars /\ [][CardsStay]_musicVars
    BY <1>1, MusicInvariance, PTL DEF MusicSpec
<1>. QED  BY <1>2 DEF AcceptanceStands, NumberKept, AcceptedKept

-----------------------------------------------------------------------------
(***************************************************************************)
(* Sorting search results.                                                 *)
(***************************************************************************)

\* Counting, for each member of a finite set, how many come before it in a strict total
\* order gives the numbers from 0 on, each one once.
LEMMA EveryPlaceIsTaken ==
    ASSUME NEW S, IsFiniteSet(S), NEW R,
           \A i \in S : <<i, i>> \notin R,
           \A i, j \in S : i # j => <<i, j>> \in R \/ <<j, i>> \in R,
           \A i, j, k \in S : <<i, j>> \in R /\ <<j, k>> \in R => <<i, k>> \in R
    PROVE  \A k \in 1..Cardinality(S) :
              \E j \in S : Cardinality({i \in S : <<i, j>> \in R}) = k - 1
<1> DEFINE n == Cardinality(S)
           Under(j) == {i \in S : <<i, j>> \in R}
           f == [j \in S |-> Cardinality(Under(j)) + 1]
<1>1. n \in Nat
  BY FS_CardinalityType
<1>2. IsFiniteSet(1..n) /\ Cardinality(1..n) = n
  BY <1>1, FS_Interval
<1>3. ASSUME NEW j \in S
      PROVE  IsFiniteSet(Under(j)) /\ Cardinality(Under(j)) \in 0..(n - 1)
  <2>1. PICK others : others = S \ {j}
    OBVIOUS
  <2>2. PICK under : under = Under(j)
    OBVIOUS
  <2>3. under \in SUBSET others
    BY <2>1, <2>2
  <2>4. IsFiniteSet(others) /\ Cardinality(others) = n - 1
    BY <2>1, FS_RemoveElement
  <2>5. IsFiniteSet(under) /\ Cardinality(under) <= Cardinality(others)
    BY ONLY <2>3, <2>4, FS_Subset
  <2>6. Cardinality(under) \in Nat
    BY <2>5, FS_CardinalityType
  <2>7. IsFiniteSet(under) /\ Cardinality(under) \in 0..(n - 1)
    BY <1>1, <2>4, <2>5, <2>6
  <2>8. QED BY ONLY <2>2, <2>7
<1>4. ASSUME NEW i \in S, NEW j \in S, <<i, j>> \in R
      PROVE  Cardinality(Under(i)) # Cardinality(Under(j))
  <2>1. Under(i) \in SUBSET Under(j)
    BY <1>4
  <2>2. i \in Under(j) /\ i \notin Under(i)
    BY <1>4
  <2>3. IsFiniteSet(Under(j))
    BY <1>3
  <2>4. Cardinality(Under(j)) = Cardinality(Under(i)) => Under(j) = Under(i)
    BY ONLY <2>1, <2>3, FS_Subset
  <2>5. QED BY <2>2, <2>4
<1>5. \A j \in S : f[j] \in 1..n /\ Cardinality(Under(j)) \in Int /\ f[j] = Cardinality(Under(j)) + 1
  <2>1. SUFFICES ASSUME NEW j \in S
                 PROVE  Cardinality(Under(j)) + 1 \in 1..n /\ Cardinality(Under(j)) \in Int
    OBVIOUS
  <2>2. PICK c \in 0..(n - 1) : c = Cardinality(Under(j))
    BY <1>3
  <2>3. QED BY ONLY <1>1, <2>2
<1>6. ASSUME NEW i \in S, NEW j \in S, f[i] = f[j] PROVE i = j
  <2>1. Cardinality(Under(i)) = Cardinality(Under(j))
    BY <1>5, <1>6
  <2>2. QED BY <1>4, <2>1
<1>7. f \in [S -> 1..n]
  BY <1>5
<1>8. f \in Injection(S, 1..n)
  BY <1>6, <1>7 DEF Injection, IsInjective
<1> HIDE DEF f, n
<1>9. Cardinality(S) = n
  BY DEF n
<1>10. f \in Surjection(S, 1..n)
  BY ONLY <1>2, <1>8, <1>9, FS_Injection
<1>11. \A k \in 1..n : \E j \in S : f[j] = k
  BY <1>10 DEF Surjection
<1>12. ASSUME NEW k \in 1..n PROVE \E j \in S : Cardinality(Under(j)) = k - 1
  <2>1. PICK j \in S : f[j] = k
    BY <1>11
  <2>2. k \in Int
    BY <1>12, <1>1
  <2>3. Cardinality(Under(j)) = k - 1
    BY <1>5, <2>1, <2>2
  <2>4. QED BY <2>3
<1>13. QED BY <1>12 DEF n

\* Of two results one comes before the other, whatever their ranks.
LEMMA SoonerIsOrder ==
    ASSUME SearchAssumption, NEW items \in Seq(SearchTitles),
           NEW i \in DOMAIN items, NEW j \in DOMAIN items, NEW k \in DOMAIN items
    PROVE  /\ ~Sooner(items, i, i)
           /\ i # j => Sooner(items, i, j) \/ Sooner(items, j, i)
           /\ Sooner(items, i, j) /\ Sooner(items, j, k) => Sooner(items, i, k)
<1>1. DOMAIN items = 1..Len(items) /\ Len(items) \in Nat
  BY LenProperties
<1>2. i \in Nat /\ j \in Nat /\ k \in Nat
  BY <1>1
<1>3. items[i] \in SearchTitles /\ items[j] \in SearchTitles /\ items[k] \in SearchTitles
  BY <1>1, ElementOfSeq
<1>4. Rank[items[i]] \in Nat /\ Rank[items[j]] \in Nat /\ Rank[items[k]] \in Nat
  BY <1>3 DEF SearchAssumption
<1>5. QED BY <1>2, <1>4 DEF Sooner

\* prioritize_search_results returns the items at the places it is given, one for each.
LEMMA PrioritizedIs ==
    ASSUME SearchAssumption, NEW items \in Seq(SearchTitles), NEW places \in SUBSET DOMAIN items
    PROVE  /\ Prioritized(items, places) \in Seq(SearchTitles)
           /\ (\A i, j \in places : items[i] = items[j] => i = j)
                 => IsInjective(Prioritized(items, places))
<1> DEFINE n == Cardinality(places)
           Earlier(j) == {i \in places : Sooner(items, i, j)}
           at(k) == CHOOSE j \in places : Cardinality(Earlier(j)) = k - 1
           R == {p \in places \X places : Sooner(items, p[1], p[2])}
           P == Prioritized(items, places)
<1>1. DOMAIN items = 1..Len(items) /\ Len(items) \in Nat
  BY LenProperties
<1>2. IsFiniteSet(places)
  <2>1. IsFiniteSet(1..Len(items))
    BY <1>1, FS_Interval
  <2>2. QED BY <1>1, <2>1, FS_Subset
<1>3. n \in Nat
  BY <1>2, FS_CardinalityType
<1>4. \A i, j \in places : <<i, j>> \in R <=> Sooner(items, i, j)
  OBVIOUS
<1>5. \A j \in places : {i \in places : <<i, j>> \in R} = Earlier(j)
  BY <1>4
<1> HIDE DEF R
<1>6. /\ \A i \in places : <<i, i>> \notin R
      /\ \A i, j \in places : i # j => <<i, j>> \in R \/ <<j, i>> \in R
      /\ \A i, j, k \in places : <<i, j>> \in R /\ <<j, k>> \in R => <<i, k>> \in R
  BY <1>4, SoonerIsOrder
<1>7. \A k \in 1..n : \E j \in places : Cardinality({i \in places : <<i, j>> \in R}) = k - 1
  BY ONLY <1>2, <1>6, EveryPlaceIsTaken
<1>8. ASSUME NEW k \in 1..n PROVE at(k) \in places /\ Cardinality(Earlier(at(k))) = k - 1
  <2>1. PICK j \in places : Cardinality({i \in places : <<i, j>> \in R}) = k - 1
    BY <1>7
  <2>2. Cardinality(Earlier(j)) = k - 1
    BY <1>5, <2>1
  <2>3. QED BY <2>2
<1>9. P = [k \in 1..n |-> items[at(k)]]
  BY DEF Prioritized
<1> HIDE DEF P, at, n
<1>10. DOMAIN P = 1..n /\ \A k \in 1..n : P[k] = items[at(k)]
  BY <1>9
<1>11. \A k \in 1..n : items[at(k)] \in SearchTitles
  BY <1>1, <1>8, ElementOfSeq
<1>12. P \in [1..n -> SearchTitles]
  BY <1>9, <1>11
<1>13. P \in Seq(SearchTitles)
  BY <1>3, <1>12, SeqDef
<1>14. ASSUME \A i, j \in places : items[i] = items[j] => i = j,
              NEW k \in 1..n, NEW m \in 1..n, P[k] = P[m]
       PROVE  k = m
  <2>1. items[at(k)] = items[at(m)]
    BY <1>10, <1>14
  <2>2. at(k) = at(m)
    BY <1>8, <1>14, <2>1
  <2>3. k - 1 = m - 1
    BY <1>8, <2>2
  <2>4. k \in Int /\ m \in Int
    BY <1>3, <1>14
  <2>5. QED BY <2>3, <2>4
<1>15. (\A i, j \in places : items[i] = items[j] => i = j) => IsInjective(P)
  BY <1>10, <1>14 DEF IsInjective
<1>16. QED BY <1>13, <1>15 DEF P

\* _append_results returns titles, none of them twice.
LEMMA AppendedIs ==
    ASSUME SearchAssumption, NEW results \in Seq(SearchTitles), NEW items \in Seq(SearchTitles)
    PROVE  Appended(results, items) \in Seq(SearchTitles) /\ IsInjective(Appended(results, items))
<1> DEFINE found == results \o items
           places == {i \in DOMAIN found : \A j \in 1..(i - 1) : found[j] # found[i]}
<1>1. found \in Seq(SearchTitles)
  BY ConcatProperties
<1>2. DOMAIN found = 1..Len(found) /\ Len(found) \in Nat
  BY <1>1, LenProperties
<1> HIDE DEF found
<1>3. ASSUME NEW i \in places, NEW j \in places, found[i] = found[j] PROVE i = j
  <2>1. i \in Nat /\ j \in Nat /\ i >= 1 /\ j >= 1
    BY <1>2, <1>3
  <2>2. ~(i < j)
    <3>1. i < j => i \in 1..(j - 1)
      BY <2>1
    <3>2. QED BY <1>3, <3>1
  <2>3. ~(j < i)
    <3>1. j < i => j \in 1..(i - 1)
      BY <2>1
    <3>2. QED BY <1>3, <3>1
  <2>4. QED BY <2>1, <2>2, <2>3
<1>4. places \in SUBSET DOMAIN found
  OBVIOUS
<1> HIDE DEF places
<1>5. Prioritized(found, places) \in Seq(SearchTitles) /\ IsInjective(Prioritized(found, places))
  BY <1>1, <1>3, <1>4, PrioritizedIs
<1>6. QED BY <1>5 DEF Appended, found, places

-----------------------------------------------------------------------------
(***************************************************************************)
(* Search and rating cards.                                                *)
(***************************************************************************)

\* The view and the clicks on its buttons.
MaybeTitle == SearchTitles \union {NoTitle}
SearchView == [kind : Kinds, results : Seq(SearchTitles), fetched : DOMAIN ProviderPages,
               page : Nat, busy : BOOLEAN, over : BOOLEAN, pc : PCs, picked : MaybeTitle,
               seen : MaybeTitle, saves : Nat, reordered : BOOLEAN,
               acts : {"none", "idle", "syncing", "requesting", "over", "stuck", "dismissed"},
               shows : Faces, enabled : BOOLEAN, at : Nat, items : Seq(SearchTitles),
               more : BOOLEAN]
SearchClick == [n : Nat, kind : {"pick", "previous", "next", "cancel"}, page : Nat, slot : Nat,
                seen : MaybeTitle, waits : BOOLEAN]
SearchShape ==
    /\ view \in SearchView /\ IsInjective(view.results)
    /\ clicks \subseteq SearchClick /\ pressed \in Nat
    /\ rated \in [SearchTitles -> {"none", "local", "synced"}]
    /\ aside \in [command : BOOLEAN, request : {"none", "open", "gone"}]

\* What the view does: a saved rating leaves it taken, whatever is pressed, and what is
\* being opened or saved is what was picked; a request search that waits is not taken.
InsideFits(v) ==
    /\ v.saves <= 1
    /\ v.saves > 0 => v.kind = "rating" /\ v.busy /\ v.pc \in {"free", "loading"}
    /\ v.saves > 0 => v.picked \in SearchTitles
    /\ v.pc \in {"preparing", "saving"} =>
          v.kind = "rating" /\ v.busy /\ v.saves = 0 /\ v.picked \in SearchTitles
    /\ v.pc \in {"opening", "confirming"} => v.kind = "request"
    /\ v.kind = "request" /\ v.pc \in {"free", "loading"} /\ ~v.over => ~v.busy
    /\ v.acts # "none" => v.saves > 0
    /\ v.picked # NoTitle /\ ~v.reordered => v.picked = v.seen

\* As long as no page that was fetched reordered the results, what the message shows in
\* a slot, and what a member pressed there, is where the view will look for it.
Stands(v, page, slot, title) ==
    /\ page * PageSize + slot \in DOMAIN v.results
    /\ v.results[page * PageSize + slot] = title
FaceFits(v) ==
    ~v.reordered => \A slot \in DOMAIN v.items : Stands(v, v.at, slot, v.items[slot])
ClickFits(v, c) ==
    c.kind = "pick" => c.slot > 0 /\ c.seen \in SearchTitles
                       /\ (~v.reordered => Stands(v, c.page, c.slot, c.seen))

\* A card has rated at most what was picked, and only once that was saved.
RatedFits == \A t \in SearchTitles : rated[t] # "none" => view.saves > 0 /\ t = view.picked

\* The inductive invariant of a search or rating card.
SearchIInv ==
    /\ SearchShape /\ InsideFits(view) /\ FaceFits(view) /\ RatedFits
    /\ \A c \in clicks : ClickFits(view, c)

\* A page of the results: its slots are numbered on.
LEMMA PageOfIs ==
    ASSUME SearchAssumption, NEW results \in Seq(SearchTitles), NEW page \in Nat
    PROVE  /\ PageOf(results, page) \in Seq(SearchTitles)
           /\ \A slot \in DOMAIN PageOf(results, page) :
                 /\ page * PageSize + slot \in DOMAIN results /\ slot \in Nat \ {0}
                 /\ PageOf(results, page)[slot] = results[page * PageSize + slot]
<1> DEFINE m == page * PageSize
           n == IF Len(results) < (page + 1) * PageSize THEN Len(results) ELSE (page + 1) * PageSize
<1>1. Len(results) \in Nat /\ DOMAIN results = 1..Len(results)
      /\ \A i \in 1..Len(results) : results[i] \in SearchTitles
  BY LenProperties, ElementOfSeq
<1>2. m \in Nat /\ (page + 1) * PageSize \in Nat
  BY DEF SearchAssumption
<1> HIDE DEF m
<1>3. n \in Nat /\ n <= Len(results)
  BY <1>1, <1>2
<1>4. PageOf(results, page) = SubSeq(results, m + 1, n)
  BY DEF PageOf, m
<1> HIDE DEF n
<1>5. \A i \in (m + 1)..n : results[i] \in SearchTitles
  BY <1>1, <1>2, <1>3
<1> DEFINE s == SubSeq(results, m + 1, n)
<1>6. /\ s \in Seq(SearchTitles)
      /\ Len(s) = IF m + 1 <= n THEN n - (m + 1) + 1 ELSE 0
      /\ \A i \in 1..(n - (m + 1) + 1) : s[i] = results[(m + 1) + i - 1]
  <2>1. m + 1 \in Int /\ n \in Int
    BY <1>2, <1>3
  <2>2. QED BY ONLY <1>5, <2>1, SubSeqProperties
<1> HIDE DEF s
<1>7. DOMAIN s = 1..Len(s)
  BY <1>6, LenProperties
<1>8. ASSUME NEW slot \in DOMAIN s
      PROVE  /\ m + slot \in DOMAIN results /\ slot \in Nat \ {0}
             /\ s[slot] = results[m + slot]
  <2>1. PICK k \in Nat : k = Len(s)
    BY <1>6, LenProperties
  <2>2. slot \in 1..k
    BY <1>7, <1>8, <2>1
  <2>3. k = IF m + 1 <= n THEN n - (m + 1) + 1 ELSE 0
    BY <1>6, <2>1
  <2>4. /\ slot \in Nat \ {0} /\ slot \in 1..(n - (m + 1) + 1) /\ m + slot \in 1..n
        /\ (m + 1) + slot - 1 = m + slot
    BY ONLY <1>2, <1>3, <2>2, <2>3
  <2>5. s[slot] = results[m + slot]
    BY <1>6, <2>4
  <2>6. m + slot \in 1..Len(results)
    <3>1. n \in Nat /\ Len(results) \in Nat /\ n <= Len(results)
      BY <1>1, <1>3
    <3>2. QED BY ONLY <1>2, <2>2, <2>4, <3>1
  <2>7. QED BY <1>1, <2>4, <2>5, <2>6
<1>9. QED BY <1>4, <1>6, <1>8 DEF s, m

\* What two views differ in is only what their message shows.
SameInside(v, c) ==
    /\ v.kind = c.kind /\ v.results = c.results /\ v.fetched = c.fetched /\ v.page = c.page
    /\ v.busy = c.busy /\ v.over = c.over /\ v.pc = c.pc /\ v.picked = c.picked
    /\ v.seen = c.seen /\ v.saves = c.saves /\ v.reordered = c.reordered /\ v.acts = c.acts

\* refresh_controls and build_embed show the page that the view is at.
LEMMA PagedIs ==
    ASSUME SearchAssumption, NEW c \in SearchView
    PROVE  /\ Paged(c) \in SearchView /\ SameInside(Paged(c), c) /\ FaceFits(Paged(c))
           /\ Paged(c).shows = "page"
<1> DEFINE items == PageOf(c.results, c.page)
           more == HasNext(c)
<1>1. c.results \in Seq(SearchTitles) /\ c.page \in Nat
  BY DEF SearchView
<1>2. items \in Seq(SearchTitles) /\ more \in BOOLEAN /\ "page" \in Faces
  BY <1>1, PageOfIs DEF HasNext, Faces
<1>3. Paged(c) = [c EXCEPT !.shows = "page", !.enabled = TRUE, !.at = c.page, !.items = items,
                           !.more = more]
  BY DEF Paged
<1> HIDE DEF items, more
<1>4. PICK r : r = [c EXCEPT !.shows = "page", !.enabled = TRUE, !.at = c.page, !.items = items,
                             !.more = more]
  OBVIOUS
<1>5. /\ r \in SearchView /\ SameInside(r, c)
      /\ r.shows = "page" /\ r.at = c.page /\ r.items = items
  BY ONLY <1>1, <1>2, <1>4, c \in SearchView DEF SearchView, SameInside
<1>6. FaceFits(r)
  <2>1. \A slot \in DOMAIN items : /\ c.page * PageSize + slot \in DOMAIN c.results
                                   /\ items[slot] = c.results[c.page * PageSize + slot]
    <3>1. PICK results \in Seq(SearchTitles) : results = c.results
      BY <1>1
    <3>2. PICK page \in Nat : page = c.page
      BY <1>1
    <3>3. \A slot \in DOMAIN PageOf(results, page) :
             /\ page * PageSize + slot \in DOMAIN results
             /\ PageOf(results, page)[slot] = results[page * PageSize + slot]
      BY PageOfIs
    <3>4. QED BY <3>1, <3>2, <3>3 DEF items
  <2>2. QED BY <1>5, <2>1 DEF FaceFits, Stands, SameInside
<1>7. QED BY <1>3, <1>4, <1>5, <1>6

\* An edit takes place or not; the view goes on all the same.
LEMMA EditedIs ==
    ASSUME NEW c \in SearchView, NEW new \in SearchView, Edited(c, new),
           FaceFits(c), FaceFits(new),
           new.results = c.results /\ new.reordered = c.reordered
    PROVE  /\ view' \in SearchView /\ SameInside(view', new) /\ FaceFits(view')
           /\ view'.shows \in {c.shows, new.shows}
<1>1. CASE view' = new
  BY <1>1 DEF SameInside
<1>2. CASE view' = [new EXCEPT !.shows = c.shows, !.enabled = c.enabled, !.at = c.at,
                               !.items = c.items, !.more = c.more]
  <2>1. /\ view' \in SearchView /\ SameInside(view', new)
        /\ view'.shows = c.shows /\ view'.at = c.at /\ view'.items = c.items
    BY ONLY <1>2, c \in SearchView, new \in SearchView DEF SearchView, SameInside
  <2>2. FaceFits(view')
    BY <2>1 DEF FaceFits, Stands, SameInside
  <2>3. QED BY <2>1, <2>2
<1>3. QED BY <1>1, <1>2 DEF Edited

\* What a step that fetches no page may change: the results stay where they are, and no
\* button is pressed.
Aside == [command : BOOLEAN, request : {"none", "open", "gone"}]
Rateds == [SearchTitles -> {"none", "local", "synced"}]
SameResults == view'.results = view.results /\ view'.reordered = view.reordered
Handled ==
    /\ view' \in SearchView /\ SameResults /\ FaceFits(view') /\ InsideFits(view')
    /\ clicks' \subseteq clicks /\ pressed' = pressed /\ aside' \in Aside

\* The receipt of a rating is kept by a step: the action property's step.
Receipt ==
    view.saves > 0 /\ ~(view.acts = "dismissed" \/ view'.acts = "dismissed") =>
          /\ \A t \in SearchTitles : rated[t] # "none" => rated'[t] # "none"
          /\ aside.command => aside'.command
          /\ view'.shows = "gone" => view.shows = "gone"

\* The parts of the invariant.
LEMMA SearchParts ==
    SearchIInv =>
        /\ view \in SearchView /\ IsInjective(view.results) /\ clicks \subseteq SearchClick
        /\ pressed \in Nat /\ rated \in Rateds /\ aside \in Aside
        /\ InsideFits(view) /\ FaceFits(view) /\ RatedFits
        /\ \A c \in clicks : ClickFits(view, c)
BY DEF SearchIInv, SearchShape, Rateds, Aside

\* A step that handles what was pressed, and no more, keeps the invariant if it keeps what
\* is said of the ratings.
LEMMA HandledKeeps ==
    ASSUME SearchIInv, Handled, rated' \in Rateds, RatedFits'
    PROVE  SearchIInv'
<1>1. \A c \in clicks' : ClickFits(view', c)
  BY DEF SearchIInv, Handled, SameResults, ClickFits, Stands
<1>2. SearchShape'
  BY DEF SearchIInv, SearchShape, Handled, SameResults, Rateds, Aside
<1>3. QED BY <1>1, <1>2 DEF SearchIInv, Handled

\* So does one that leaves ratings and pick as they are.
LEMMA UnratedKeeps ==
    ASSUME SearchIInv, Handled, rated' = rated, view'.saves = view.saves,
           view.saves > 0 => view'.picked = view.picked
    PROVE  SearchIInv'
<1>1. RatedFits'
  BY DEF SearchIInv, RatedFits
<1>2. rated' \in Rateds
  BY SearchParts
<1>3. QED BY <1>1, <1>2, HandledKeeps

\* A view with the same inside fits as well as it did.
LEMMA SameFits ==
    ASSUME NEW v, NEW c, SameInside(v, c)
    PROVE  InsideFits(c) => InsideFits(v)
BY DEF SameInside, InsideFits

\* A press of a button of the page.
LEMMA PressKeeps ==
    ASSUME SearchAssumption, SearchIInv, Press PROVE SearchIInv' /\ Receipt
<1>1. view' = view /\ rated' = rated /\ aside' = aside /\ pressed' = pressed + 1
  BY DEF Press
<1>2. /\ view.at \in Nat /\ view.items \in Seq(SearchTitles) /\ pressed \in Nat
      /\ FaceFits(view) /\ clicks \subseteq SearchClick
  BY SearchParts DEF SearchView
<1>3. \E c \in SearchClick : clicks' = clicks \union {c} /\ ClickFits(view, c)
  <2>1. CASE \E slot \in DOMAIN view.items :
                clicks' = clicks \union {[n |-> pressed, kind |-> "pick", page |-> view.at,
                                          slot |-> slot, seen |-> view.items[slot], waits |-> FALSE]}
    <3>1. PICK slot \in DOMAIN view.items :
                clicks' = clicks \union {[n |-> pressed, kind |-> "pick", page |-> view.at,
                                          slot |-> slot, seen |-> view.items[slot], waits |-> FALSE]}
      BY <2>1
    <3>2. slot \in Nat \ {0} /\ view.items[slot] \in SearchTitles
      <4>1. slot \in 1..Len(view.items) /\ Len(view.items) \in Nat
        BY <1>2, LenProperties
      <4>2. QED BY <1>2, <4>1, ElementOfSeq
    <3>3. PICK c : c = [n |-> pressed, kind |-> "pick", page |-> view.at,
                        slot |-> slot, seen |-> view.items[slot], waits |-> FALSE]
      OBVIOUS
    <3>4. /\ c \in SearchClick /\ c.page = view.at /\ c.slot = slot
          /\ c.seen = view.items[slot]
      BY <1>2, <3>2, <3>3 DEF SearchClick, MaybeTitle
    <3>5. ClickFits(view, c)
      BY <1>2, <3>1, <3>2, <3>4 DEF ClickFits, FaceFits
    <3>6. QED BY <3>1, <3>3, <3>4, <3>5
  <2>2. CASE \E kind \in {"previous", "next", "cancel"} :
                clicks' = clicks \union {[n |-> pressed, kind |-> kind, page |-> view.at,
                                          slot |-> 0, seen |-> NoTitle, waits |-> FALSE]}
    <3>1. PICK kind \in {"previous", "next", "cancel"} :
                clicks' = clicks \union {[n |-> pressed, kind |-> kind, page |-> view.at,
                                          slot |-> 0, seen |-> NoTitle, waits |-> FALSE]}
      BY <2>2
    <3>2. PICK c : c = [n |-> pressed, kind |-> kind, page |-> view.at,
                        slot |-> 0, seen |-> NoTitle, waits |-> FALSE]
      OBVIOUS
    <3>3. c \in SearchClick /\ c.kind = kind
      BY <1>2, <3>2 DEF SearchClick, MaybeTitle
    <3>4. QED BY <3>1, <3>2, <3>3 DEF ClickFits
  <2>3. QED BY <2>1, <2>2 DEF Press
<1>4. PICK c \in SearchClick : clicks' = clicks \union {c} /\ ClickFits(view, c)
  BY <1>3
<1>5. SearchShape'
  BY <1>1, <1>2, <1>4 DEF SearchIInv, SearchShape
<1>6. RatedFits' /\ FaceFits(view') /\ InsideFits(view')
  BY <1>1 DEF SearchIInv, RatedFits
<1>7. \A d \in clicks' : ClickFits(view', d)
  BY <1>1, <1>4 DEF SearchIInv
<1>8. Receipt
  BY <1>1 DEF Receipt
<1>9. QED BY <1>5, <1>6, <1>7, <1>8 DEF SearchIInv

\* A click waits for the lock.
LEMMA ArriveKeeps ==
    ASSUME SearchIInv, NEW click \in clicks, Arrive(click) PROVE SearchIInv' /\ Receipt
<1>1. /\ view' = view /\ rated' = rated /\ aside' = aside /\ pressed' = pressed
      /\ clicks' = (clicks \ {click}) \union {[click EXCEPT !.waits = TRUE]}
  BY DEF Arrive
<1>2. click \in SearchClick /\ ClickFits(view, click)
  BY SearchParts
<1>3. PICK c : c = [click EXCEPT !.waits = TRUE]
  OBVIOUS
<1>4. /\ c \in SearchClick /\ c.kind = click.kind /\ c.page = click.page
      /\ c.slot = click.slot /\ c.seen = click.seen
  BY ONLY <1>2, <1>3 DEF SearchClick
<1>5. ClickFits(view, c)
  BY <1>2, <1>4 DEF ClickFits, Stands
<1>6. SearchShape'
  BY <1>1, <1>3, <1>4 DEF SearchIInv, SearchShape
<1>7. RatedFits' /\ FaceFits(view') /\ InsideFits(view')
  BY <1>1 DEF SearchIInv, RatedFits
<1>8. \A d \in clicks' : ClickFits(view', d)
  BY <1>1, <1>3, <1>5 DEF SearchIInv
<1>9. Receipt
  BY <1>1 DEF Receipt
<1>10. QED BY <1>6, <1>7, <1>8, <1>9 DEF SearchIInv

\* An edit of a view that is at the same results.
LEMMA EditedHandles ==
    ASSUME SearchIInv, NEW new \in SearchView, Edited(view, new), FaceFits(new), InsideFits(new),
           new.results = view.results, new.reordered = view.reordered
    PROVE  /\ view' \in SearchView /\ SameResults /\ FaceFits(view') /\ InsideFits(view')
           /\ SameInside(view', new) /\ view'.shows \in {view.shows, new.shows}
<1>1. view \in SearchView /\ FaceFits(view)
  BY SearchParts
<1>2. /\ view' \in SearchView /\ SameInside(view', new) /\ FaceFits(view')
      /\ view'.shows \in {view.shows, new.shows}
  BY <1>1, EditedIs
<1>3. InsideFits(view') /\ SameResults
  BY <1>2, SameFits DEF SameInside, SameResults
<1>4. QED BY <1>2, <1>3

\* The page before is shown.
LEMMA PreviousKeeps ==
    ASSUME SearchAssumption, SearchIInv, NEW click \in clicks, PreviousPage(click)
    PROVE  SearchIInv' /\ Receipt
<1>1. view \in SearchView /\ aside \in Aside /\ InsideFits(view) /\ FaceFits(view)
  BY SearchParts
<1>2. /\ clicks' \subseteq clicks /\ pressed' = pressed /\ rated' = rated /\ aside' = aside
  BY DEF PreviousPage, Take
<1>3. CASE view' = view
  <2>1. Handled
    BY <1>1, <1>2, <1>3 DEF Handled, SameResults
  <2>2. SearchIInv'
    BY <1>2, <1>3, <2>1, UnratedKeeps
  <2>3. QED BY <1>2, <1>3, <2>2 DEF Receipt
<1>4. CASE view.page # 0 /\ Edited(view, Paged([view EXCEPT !.page = @ - 1]))
  <2>1. PICK r : r = [view EXCEPT !.page = @ - 1]
    OBVIOUS
  <2>2. view.page - 1 \in Nat
    BY <1>1, <1>4 DEF SearchView
  <2>3. r \in SearchView /\ InsideFits(r)
    BY ONLY <1>1, <2>1, <2>2 DEF SearchView, InsideFits
  <2>4. /\ r.results = view.results /\ r.reordered = view.reordered /\ r.saves = view.saves
        /\ r.picked = view.picked
    BY ONLY <1>1, <2>1 DEF SearchView
  <2>5. PICK new : new = Paged(r)
    OBVIOUS
  <2>6. new \in SearchView /\ SameInside(new, r) /\ FaceFits(new) /\ new.shows = "page"
    BY <2>3, <2>5, PagedIs
  <2>7. InsideFits(new)
    BY <2>3, <2>6, SameFits
  <2>8. Edited(view, new)
    BY <1>4, <2>1, <2>5
  <2>9. new.results = view.results /\ new.reordered = view.reordered
    BY <2>4, <2>6 DEF SameInside
  <2>10. /\ view' \in SearchView /\ SameResults /\ FaceFits(view') /\ InsideFits(view')
         /\ SameInside(view', new) /\ view'.shows \in {view.shows, new.shows}
    BY <2>6, <2>7, <2>8, <2>9, EditedHandles
  <2>11. view'.saves = view.saves /\ view'.picked = view.picked
    BY <2>4, <2>6, <2>10 DEF SameInside
  <2>12. Handled
    BY <1>1, <1>2, <2>10 DEF Handled
  <2>13. SearchIInv'
    BY <1>2, <2>11, <2>12, UnratedKeeps
  <2>14. QED BY <1>2, <2>6, <2>10, <2>13 DEF Receipt
<1>5. QED BY <1>3, <1>4 DEF PreviousPage

\* The page that was fetched is shown, or this one again.
LEMMA TurnKeeps ==
    ASSUME SearchAssumption, SearchIInv, TurnPage PROVE SearchIInv' /\ Receipt
<1>1. view \in SearchView /\ aside \in Aside /\ InsideFits(view) /\ FaceFits(view)
  BY SearchParts
<1>2. /\ clicks' \subseteq clicks /\ pressed' = pressed /\ rated' = rated /\ aside' = aside
      /\ view.pc = "loading" /\ Edited(view, Turned(view))
  BY DEF TurnPage
<1> DEFINE there == (view.page + 1) * PageSize < Len(view.results)
           page == IF there THEN view.page + 1 ELSE view.page
<1>3. view.page \in Nat /\ page \in Nat /\ "free" \in PCs
  BY <1>1 DEF SearchView, PCs
<1>4. Turned(view) = Paged([view EXCEPT !.pc = "free", !.page = page])
  BY DEF Turned
<1> HIDE DEF page
<1>5. PICK r : r = [view EXCEPT !.pc = "free", !.page = page]
  OBVIOUS
<1>6. r \in SearchView /\ InsideFits(r)
  BY ONLY <1>1, <1>2, <1>3, <1>5 DEF SearchView, InsideFits
<1>7. /\ r.results = view.results /\ r.reordered = view.reordered /\ r.saves = view.saves
      /\ r.picked = view.picked
  BY ONLY <1>1, <1>5 DEF SearchView
<1>8. PICK new : new = Paged(r)
  OBVIOUS
<1>9. new \in SearchView /\ SameInside(new, r) /\ FaceFits(new) /\ new.shows = "page"
  BY <1>6, <1>8, PagedIs
<1>10. InsideFits(new)
  BY <1>6, <1>9, SameFits
<1>11. Edited(view, new)
  BY <1>2, <1>4, <1>5, <1>8
<1>12. new.results = view.results /\ new.reordered = view.reordered
  BY <1>7, <1>9 DEF SameInside
<1>13. /\ view' \in SearchView /\ SameResults /\ FaceFits(view') /\ InsideFits(view')
       /\ SameInside(view', new) /\ view'.shows \in {view.shows, new.shows}
  BY <1>9, <1>10, <1>11, <1>12, EditedHandles
<1>14. view'.saves = view.saves /\ view'.picked = view.picked
  BY <1>7, <1>9, <1>13 DEF SameInside
<1>15. Handled
  BY <1>1, <1>2, <1>13 DEF Handled
<1>16. SearchIInv'
  BY <1>2, <1>14, <1>15, UnratedKeeps
<1>17. QED BY <1>2, <1>9, <1>13, <1>16 DEF Receipt

\* A view that keeps its results and its message.
SameFace(v, c) == v.shows = c.shows /\ v.at = c.at /\ v.items = c.items

\* It shows a page of its results if the other does.
LEMMA SameFaceFits ==
    ASSUME NEW v, NEW c, v.results = c.results, v.reordered = c.reordered,
           v.at = c.at, v.items = c.items, FaceFits(c)
    PROVE  FaceFits(v)
BY DEF FaceFits, Stands

\* A step that changes the view, but neither results nor ratings.
LEMMA ChangedKeeps ==
    ASSUME SearchIInv, NEW r \in SearchView, view' = r,
           r.results = view.results, r.reordered = view.reordered, r.at = view.at,
           r.items = view.items, InsideFits(r), r.saves = view.saves,
           view.saves > 0 => r.picked = view.picked,
           clicks' \subseteq clicks, pressed' = pressed, rated' = rated, aside' \in Aside
    PROVE  SearchIInv'
<1>1. FaceFits(r)
  BY SearchParts, SameFaceFits
<1>2. Handled
  BY <1>1 DEF Handled, SameResults
<1>3. QED BY <1>2, UnratedKeeps

\* The next page is asked for.
LEMMA NextKeeps ==
    ASSUME SearchIInv, NEW click \in clicks, NextPage(click) PROVE SearchIInv' /\ Receipt
<1>1. view \in SearchView /\ aside \in Aside /\ InsideFits(view)
  BY SearchParts
<1>2. /\ clicks' \subseteq clicks /\ pressed' = pressed /\ rated' = rated /\ aside' = aside
      /\ view.pc = "free" /\ view' = [view EXCEPT !.pc = "loading"] /\ "loading" \in PCs
  BY DEF NextPage, Take, PCs
<1>3. PICK r : r = [view EXCEPT !.pc = "loading"]
  OBVIOUS
<1>4. /\ r \in SearchView /\ InsideFits(r)
      /\ r.results = view.results /\ r.reordered = view.reordered /\ r.saves = view.saves
      /\ r.picked = view.picked /\ r.at = view.at /\ r.items = view.items /\ r.shows = view.shows
  BY ONLY <1>1, <1>2, <1>3 DEF SearchView, InsideFits
<1>5. SearchIInv'
  BY <1>1, <1>2, <1>3, <1>4, ChangedKeeps
<1>6. QED BY <1>2, <1>3, <1>4, <1>5 DEF Receipt

\* The card is cancelled, or its time is over.
LEMMA CloseKeeps ==
    ASSUME SearchIInv, (\E click \in clicks : CancelSearch(click)) \/ ExpireSearch
    PROVE  SearchIInv' /\ Receipt
<1>1. view \in SearchView /\ aside \in Aside /\ InsideFits(view) /\ rated \in Rateds
  BY SearchParts
<1>2. clicks' \subseteq clicks /\ pressed' = pressed /\ rated' = rated /\ view.pc = "free"
  BY DEF CancelSearch, ExpireSearch, Take
<1>3. CASE view' = view /\ aside' = aside
  <2>1. SearchIInv'
    BY <1>1, <1>2, <1>3, ChangedKeeps
  <2>2. QED BY <1>2, <1>3, <2>1 DEF Receipt
<1>4. CASE /\ MayClose(view) /\ aside' = [aside EXCEPT !.command = FALSE]
           /\ \/ view' = [view EXCEPT !.busy = TRUE, !.over = TRUE, !.shows = "gone"]
              \/ view' = [view EXCEPT !.over = TRUE, !.shows = "gone"]
  <2>1. ~view.over /\ ~view.busy /\ "gone" \in Faces
    BY <1>4 DEF MayClose, Faces
  <2>2. PICK r : /\ r = view'
                 /\ \/ r = [view EXCEPT !.busy = TRUE, !.over = TRUE, !.shows = "gone"]
                    \/ r = [view EXCEPT !.over = TRUE, !.shows = "gone"]
    BY <1>4
  <2>3. /\ r \in SearchView /\ InsideFits(r)
        /\ r.results = view.results /\ r.reordered = view.reordered /\ r.saves = view.saves
        /\ r.picked = view.picked /\ r.at = view.at /\ r.items = view.items
    <3>1. CASE r = [view EXCEPT !.busy = TRUE, !.over = TRUE, !.shows = "gone"]
      BY ONLY <1>1, <1>2, <2>1, <3>1 DEF SearchView, InsideFits
    <3>2. CASE r = [view EXCEPT !.over = TRUE, !.shows = "gone"]
      BY ONLY <1>1, <1>2, <2>1, <3>2 DEF SearchView, InsideFits
    <3>3. QED BY <2>2, <3>1, <3>2
  <2>4. aside' \in Aside
    BY <1>1, <1>4 DEF Aside
  <2>5. SearchIInv'
    BY <1>2, <2>2, <2>3, <2>4, ChangedKeeps
  <2>6. view.saves = 0
    BY ONLY <1>1, <2>1 DEF SearchView, InsideFits
  <2>7. Receipt
    BY <2>6 DEF Receipt
  <2>8. QED BY <2>5, <2>7
<1>5. QED BY <1>3, <1>4 DEF CancelSearch, ExpireSearch

\* A click that comes to nothing.
LEMMA RejectKeeps ==
    ASSUME SearchIInv, NEW click \in clicks, RejectPick(click) PROVE SearchIInv' /\ Receipt
<1>1. view \in SearchView /\ aside \in Aside /\ InsideFits(view)
  BY SearchParts
<1>2. /\ clicks' \subseteq clicks /\ pressed' = pressed /\ rated' = rated /\ aside' = aside
      /\ view' = view
  BY DEF RejectPick, Take
<1>3. SearchIInv'
  BY <1>1, <1>2, ChangedKeeps
<1>4. QED BY <1>2, <1>3 DEF Receipt

\* What is picked is what was seen, unless results were reordered.
LEMMA PickedKeeps ==
    ASSUME SearchAssumption, SearchIInv, NEW click \in clicks, OpenResult(click) \/ RateResult(click)
    PROVE  SearchIInv' /\ Receipt
<1>1. /\ view \in SearchView /\ aside \in Aside /\ InsideFits(view) /\ FaceFits(view)
      /\ click \in SearchClick /\ ClickFits(view, click) /\ rated \in Rateds
  BY SearchParts
<1>2. /\ clicks' \subseteq clicks /\ pressed' = pressed /\ rated' = rated /\ aside' = aside
      /\ view.pc = "free" /\ click.kind = "pick" /\ click.page = view.page /\ ~view.busy
      /\ click.slot \in DOMAIN PageOf(view.results, view.page)
  BY DEF OpenResult, RateResult, Take, SamePage
<1>3. PICK results \in Seq(SearchTitles) : results = view.results
  BY <1>1 DEF SearchView
<1>4. PICK page \in Nat : page = view.page
  BY <1>1 DEF SearchView
<1>5. PICK t : t = PageOf(view.results, view.page)[click.slot]
  OBVIOUS
<1>6. /\ page * PageSize + click.slot \in DOMAIN results
      /\ t = results[page * PageSize + click.slot]
  <2>1. PICK slot : slot = click.slot
    OBVIOUS
  <2>2. slot \in DOMAIN PageOf(results, page) /\ t = PageOf(results, page)[slot]
    BY <1>2, <1>3, <1>4, <1>5, <2>1
  <2>3. \A i \in DOMAIN PageOf(results, page) :
           /\ page * PageSize + i \in DOMAIN results
           /\ PageOf(results, page)[i] = results[page * PageSize + i]
    BY PageOfIs
  <2>4. QED BY <2>1, <2>2, <2>3
<1>7. t \in SearchTitles /\ t \in MaybeTitle /\ t # NoTitle
  <2>1. DOMAIN results = 1..Len(results)
    BY <1>3, LenProperties
  <2>2. QED BY <1>3, <1>6, <2>1, ElementOfSeq DEF MaybeTitle, SearchAssumption
<1>8. ~view.reordered => t = click.seen
  BY <1>1, <1>2, <1>3, <1>4, <1>6 DEF ClickFits, Stands
<1>9. click.seen \in MaybeTitle
  BY <1>1 DEF SearchClick
<1>10. \E pc \in {"opening", "preparing"} :
         /\ view' = Picked(click, pc)
         /\ pc = "opening" => view.kind = "request"
         /\ pc = "preparing" => view.kind = "rating"
  BY DEF OpenResult, RateResult
<1>11. PICK pc \in {"opening", "preparing"} :
         /\ view' = Picked(click, pc)
         /\ pc = "opening" => view.kind = "request"
         /\ pc = "preparing" => view.kind = "rating"
  BY <1>10
<1>12. PICK seen : seen = click.seen
  OBVIOUS
<1>13. PICK r : r = [view EXCEPT !.busy = TRUE, !.pc = pc, !.seen = seen, !.picked = t]
  OBVIOUS
<1>14. view' = r
  BY <1>5, <1>11, <1>12, <1>13 DEF Picked
<1>15. view.saves = 0
  BY ONLY <1>1, <1>2 DEF SearchView, InsideFits
<1>16. pc \in PCs
  BY <1>11 DEF PCs
<1>17. /\ r \in SearchView
       /\ r.results = view.results /\ r.reordered = view.reordered /\ r.saves = view.saves
       /\ r.picked = t /\ r.seen = seen /\ r.at = view.at /\ r.items = view.items
       /\ r.kind = view.kind /\ r.busy /\ r.pc = pc /\ r.acts = view.acts
  BY ONLY <1>1, <1>7, <1>9, <1>12, <1>13, <1>16 DEF SearchView
<1>18. InsideFits(r)
  <2>1. view.acts = "none"
    BY <1>1, <1>15 DEF InsideFits
  <2>2. QED BY <1>7, <1>8, <1>11, <1>12, <1>15, <1>17, <2>1 DEF InsideFits
<1>19. SearchIInv'
  BY <1>1, <1>2, <1>14, <1>15, <1>17, <1>18, ChangedKeeps
<1>20. QED BY <1>15, <1>19 DEF Receipt

\* What stands in its place still does when results are only added.
LEMMA StandsLonger ==
    ASSUME NEW s \in Seq(SearchTitles), NEW t \in Seq(SearchTitles), IsPrefix(s, t)
    PROVE  \A i \in DOMAIN s : i \in DOMAIN t /\ t[i] = s[i]
<1>1. /\ Len(s) \in Nat /\ DOMAIN s = 1..Len(s) /\ Len(t) \in Nat /\ DOMAIN t = 1..Len(t)
      /\ \A i \in 1..Len(s) : s[i] \in SearchTitles
      /\ \A i \in 1..Len(t) : t[i] \in SearchTitles
  BY LenProperties, ElementOfSeq
<1>2. Len(s) <= Len(t) /\ SubSeq(s, 1, Len(s)) = SubSeq(t, 1, Len(s))
  BY DEF IsPrefix
<1>3. PICK n : n = Len(s)
  OBVIOUS
<1>4. n \in Int /\ 1 \in Int /\ \A i \in 1..n : s[i] \in SearchTitles /\ t[i] \in SearchTitles
  BY <1>1, <1>2, <1>3
<1>5. \A i \in 1..(n - 1 + 1) : SubSeq(s, 1, n)[i] = s[1 + i - 1]
  BY ONLY <1>3, <1>4, SubSeqProperties
<1>6. \A i \in 1..(n - 1 + 1) : SubSeq(t, 1, n)[i] = t[1 + i - 1]
  BY ONLY <1>3, <1>4, SubSeqProperties
<1>7. ASSUME NEW i \in 1..n PROVE s[i] = t[i]
  <2>1. i \in 1..(n - 1 + 1) /\ 1 + i - 1 = i
    BY <1>3, <1>7
  <2>2. SubSeq(s, 1, n)[i] = s[i] /\ SubSeq(t, 1, n)[i] = t[i]
    BY <1>5, <1>6, <2>1
  <2>3. QED BY <1>2, <1>3, <2>2
<1>8. QED BY <1>1, <1>2, <1>3, <1>7

\* A page arrives: what it adds may reorder the results.
LEMMA FoundKeeps ==
    ASSUME SearchAssumption, SearchIInv, view.pc = "loading",
           view.fetched + 1 \in DOMAIN ProviderPages,
           NEW found, found = Appended(view.results, ProviderPages[view.fetched + 1]),
           view' = [view EXCEPT !.fetched = @ + 1, !.results = found,
                                !.reordered = @ \/ ~IsPrefix(view.results, found)],
           clicks' = clicks, pressed' = pressed, rated' = rated, aside' = aside
    PROVE  SearchIInv' /\ Receipt
<1>1. /\ view \in SearchView /\ aside \in Aside /\ InsideFits(view) /\ FaceFits(view)
      /\ clicks \subseteq SearchClick /\ \A c \in clicks : ClickFits(view, c)
  BY SearchParts
<1>2. view.results \in Seq(SearchTitles) /\ view.reordered \in BOOLEAN
  BY <1>1 DEF SearchView
<1>3. ProviderPages[view.fetched + 1] \in Seq(SearchTitles)
  <2>1. ProviderPages \in Seq(Seq(SearchTitles))
    BY DEF SearchAssumption
  <2>2. DOMAIN ProviderPages = 1..Len(ProviderPages)
    BY <2>1, LenProperties
  <2>3. PICK i \in DOMAIN ProviderPages : i = view.fetched + 1
    OBVIOUS
  <2>4. QED BY <2>1, <2>2, <2>3, ElementOfSeq
<1>4. found \in Seq(SearchTitles) /\ IsInjective(found)
  BY <1>2, <1>3, AppendedIs
<1>5. PICK again \in BOOLEAN : again = (view.reordered \/ ~IsPrefix(view.results, found))
  BY <1>2
<1>6. PICK next \in DOMAIN ProviderPages : next = view.fetched + 1
  OBVIOUS
<1>7. PICK r : r = [view EXCEPT !.fetched = next, !.results = found, !.reordered = again]
  OBVIOUS
<1>8. view' = r
  BY <1>5, <1>6, <1>7
<1>9. /\ r \in SearchView /\ r.results = found /\ r.reordered = again /\ r.at = view.at
      /\ r.items = view.items /\ r.saves = view.saves /\ r.picked = view.picked
      /\ r.shows = view.shows /\ r.kind = view.kind /\ r.busy = view.busy /\ r.pc = view.pc
      /\ r.over = view.over /\ r.seen = view.seen /\ r.acts = view.acts
  BY ONLY <1>1, <1>4, <1>7 DEF SearchView
<1>10. InsideFits(r)
  BY <1>1, <1>5, <1>9 DEF InsideFits
<1>11. ~again => \A i \in DOMAIN view.results : i \in DOMAIN found /\ found[i] = view.results[i]
  BY <1>2, <1>4, <1>5, StandsLonger
<1>12. ~again => ~view.reordered
  BY <1>5
<1>13. FaceFits(r)
  BY <1>1, <1>9, <1>11, <1>12 DEF FaceFits, Stands
<1>14. \A c \in clicks' : ClickFits(view', c)
  <2>1. SUFFICES ASSUME NEW c \in clicks, c.kind = "pick"
                 PROVE  c.slot > 0 /\ c.seen \in SearchTitles
                        /\ (~again => Stands(r, c.page, c.slot, c.seen))
    BY <1>8, <1>9 DEF ClickFits
  <2>2. /\ c.slot > 0 /\ c.seen \in SearchTitles
        /\ ~view.reordered => Stands(view, c.page, c.slot, c.seen)
    BY <1>1, <2>1 DEF ClickFits
  <2>3. ASSUME ~again PROVE Stands(r, c.page, c.slot, c.seen)
    <3>1. /\ c.page * PageSize + c.slot \in DOMAIN view.results
          /\ view.results[c.page * PageSize + c.slot] = c.seen
      BY <1>12, <2>2, <2>3 DEF Stands
    <3>2. QED BY <1>9, <1>11, <2>3, <3>1 DEF Stands
  <2>4. QED BY <2>2, <2>3
<1>15. RatedFits'
  BY <1>8, <1>9 DEF SearchIInv, RatedFits
<1>16. SearchShape'
  BY <1>4, <1>8, <1>9 DEF SearchIInv, SearchShape
<1>17. Receipt
  BY <1>8, <1>9 DEF Receipt
<1>18. QED BY <1>8, <1>10, <1>13, <1>14, <1>15, <1>16, <1>17 DEF SearchIInv

\* ensure_loaded asks for a page.
LEMMA FetchKeeps ==
    ASSUME SearchAssumption, SearchIInv, FetchPage PROVE SearchIInv' /\ Receipt
<1>1. view \in SearchView /\ aside \in Aside /\ InsideFits(view)
  BY SearchParts
<1>2. /\ UNCHANGED <<clicks, pressed, rated, aside>>
      /\ view.pc = "loading" /\ view.fetched # Len(ProviderPages)
  BY DEF FetchPage, Enough
<1>3. view.fetched + 1 \in DOMAIN ProviderPages
  <2>1. DOMAIN ProviderPages = 1..Len(ProviderPages) /\ Len(ProviderPages) \in Nat
    BY LenProperties DEF SearchAssumption
  <2>2. view.fetched \in DOMAIN ProviderPages
    BY <1>1 DEF SearchView
  <2>3. QED BY <1>2, <2>1, <2>2
<1>4. CASE view' = [view EXCEPT !.fetched = @ + 1, !.pc = "free"]
  <2>1. PICK next \in DOMAIN ProviderPages : next = view.fetched + 1
    BY <1>3
  <2>2. PICK r : r = [view EXCEPT !.fetched = next, !.pc = "free"]
    OBVIOUS
  <2>3. "free" \in PCs
    BY DEF PCs
  <2>4. /\ r \in SearchView /\ InsideFits(r)
        /\ r.results = view.results /\ r.reordered = view.reordered /\ r.saves = view.saves
        /\ r.picked = view.picked /\ r.at = view.at /\ r.items = view.items /\ r.shows = view.shows
    BY ONLY <1>1, <1>2, <2>1, <2>2, <2>3 DEF SearchView, InsideFits
  <2>5. view' = r
    BY <1>4, <2>1, <2>2
  <2>6. SearchIInv'
    BY <1>1, <1>2, <2>4, <2>5, ChangedKeeps
  <2>7. QED BY <1>2, <2>4, <2>5, <2>6 DEF Receipt
<1>5. CASE view' = [view EXCEPT !.fetched = @ + 1,
                       !.results = Appended(view.results, ProviderPages[view.fetched + 1]),
                       !.reordered = @ \/ ~IsPrefix(view.results,
                                             Appended(view.results, ProviderPages[view.fetched + 1]))]
  <2>1. PICK found : found = Appended(view.results, ProviderPages[view.fetched + 1])
    OBVIOUS
  <2>2. view' = [view EXCEPT !.fetched = @ + 1, !.results = found,
                             !.reordered = @ \/ ~IsPrefix(view.results, found)]
    BY <1>5, <2>1
  <2>3. QED BY <1>2, <1>3, <2>1, <2>2, FoundKeeps
<1>6. QED BY <1>4, <1>5 DEF FetchPage

\* A failed selection gives the card back.
LEMMA RetryKeeps ==
    ASSUME SearchAssumption, SearchIInv, view.pc \in {"opening", "confirming", "saving"},
           view' = Retryable(view),
           clicks' = clicks, pressed' = pressed, rated' = rated, aside' = aside
    PROVE  SearchIInv' /\ Receipt
<1>1. view \in SearchView /\ aside \in Aside /\ InsideFits(view)
  BY SearchParts
<1>2. view.saves = 0 /\ "free" \in PCs
  <2>1. view.saves \in Nat /\ ~(view.saves > 0)
    BY ONLY <1>1, view.pc \in {"opening", "confirming", "saving"} DEF SearchView, InsideFits
  <2>2. QED BY <2>1 DEF PCs
<1>3. PICK r : r = [view EXCEPT !.pc = "free", !.busy = FALSE]
  OBVIOUS
<1>4. /\ r \in SearchView /\ r.results = view.results /\ r.reordered = view.reordered
      /\ r.saves = view.saves /\ r.picked = view.picked /\ r.seen = view.seen
      /\ r.kind = view.kind /\ r.pc = "free" /\ ~r.busy /\ r.acts = view.acts
  BY ONLY <1>1, <1>2, <1>3 DEF SearchView
<1>5. InsideFits(r)
  BY <1>1, <1>2, <1>4 DEF InsideFits
<1>6. PICK new : new = Paged(r)
  OBVIOUS
<1>7. new \in SearchView /\ SameInside(new, r) /\ FaceFits(new) /\ new.shows = "page"
  BY <1>4, <1>6, PagedIs
<1>8. view' = new /\ InsideFits(new)
  BY <1>3, <1>5, <1>6, <1>7, SameFits DEF Retryable
<1>9. Handled /\ view'.saves = view.saves /\ view'.picked = view.picked
  BY <1>1, <1>4, <1>7, <1>8 DEF Handled, SameResults, SameInside
<1>10. SearchIInv'
  BY <1>9, UnratedKeeps
<1>11. QED BY <1>2, <1>10 DEF Receipt

\* An edit of a view, without a look at ratings.
LEMMA EditKeeps ==
    ASSUME SearchIInv, NEW r \in SearchView, Edited(view, r),
           r.results = view.results, r.reordered = view.reordered, r.at = view.at,
           r.items = view.items, InsideFits(r), r.saves = view.saves, r.picked = view.picked,
           clicks' = clicks, pressed' = pressed, rated' = rated, aside' \in Aside,
           r.shows # "gone", aside.command => aside'.command
    PROVE  SearchIInv' /\ Receipt
<1>1. FaceFits(r)
  BY SearchParts, SameFaceFits
<1>2. /\ view' \in SearchView /\ SameResults /\ FaceFits(view') /\ InsideFits(view')
      /\ SameInside(view', r) /\ view'.shows \in {view.shows, r.shows}
  BY <1>1, EditedHandles
<1>3. Handled /\ view'.saves = view.saves /\ view'.picked = view.picked
  BY <1>2 DEF Handled, SameInside
<1>4. SearchIInv'
  BY <1>3, UnratedKeeps
<1>5. QED BY <1>2, <1>4 DEF Receipt

\* Such a change without an edit.
LEMMA PlainKeeps ==
    ASSUME SearchIInv, NEW r \in SearchView, view' = r,
           r.results = view.results, r.reordered = view.reordered, r.at = view.at,
           r.items = view.items, InsideFits(r), r.saves = view.saves, r.picked = view.picked,
           clicks' = clicks, pressed' = pressed, rated' = rated, aside' \in Aside,
           r.shows # "gone" \/ r.shows = view.shows, aside.command => aside'.command
    PROVE  SearchIInv' /\ Receipt
<1>1. SearchIInv'
  BY ChangedKeeps
<1>2. QED BY <1>1 DEF Receipt

\* The details of a result that was opened.
LEMMA ShowKeeps ==
    ASSUME SearchAssumption, SearchIInv, ShowSelection PROVE SearchIInv' /\ Receipt
<1>1. view \in SearchView /\ aside \in Aside /\ InsideFits(view)
  BY SearchParts
<1>2. /\ clicks' = clicks /\ pressed' = pressed /\ rated' = rated /\ aside' = aside
      /\ view.pc = "opening"
  BY DEF ShowSelection
<1>3. {"free", "confirming"} \subseteq PCs /\ {"handled", "selected"} \subseteq Faces
  BY DEF PCs, Faces
<1>4. CASE Edited(view, [view EXCEPT !.pc = "free", !.over = TRUE, !.shows = "handled"])
  <2>1. PICK r : r = [view EXCEPT !.pc = "free", !.over = TRUE, !.shows = "handled"]
    OBVIOUS
  <2>2. /\ r \in SearchView /\ InsideFits(r) /\ r.shows = "handled"
        /\ r.results = view.results /\ r.reordered = view.reordered /\ r.saves = view.saves
        /\ r.picked = view.picked /\ r.at = view.at /\ r.items = view.items
    BY ONLY <1>1, <1>2, <1>3, <2>1 DEF SearchView, InsideFits
  <2>3. QED BY <1>1, <1>2, <1>4, <2>1, <2>2, EditKeeps
<1>5. CASE view' = [view EXCEPT !.pc = "free", !.busy = FALSE]
  <2>1. PICK r : r = [view EXCEPT !.pc = "free", !.busy = FALSE]
    OBVIOUS
  <2>2. /\ r \in SearchView /\ InsideFits(r) /\ r.shows = view.shows
        /\ r.results = view.results /\ r.reordered = view.reordered /\ r.saves = view.saves
        /\ r.picked = view.picked /\ r.at = view.at /\ r.items = view.items
    BY ONLY <1>1, <1>2, <1>3, <2>1 DEF SearchView, InsideFits
  <2>3. QED BY <1>1, <1>2, <1>5, <2>1, <2>2, PlainKeeps
<1>6. CASE view' = [view EXCEPT !.pc = "confirming", !.shows = "selected"]
  <2>1. PICK r : r = [view EXCEPT !.pc = "confirming", !.shows = "selected"]
    OBVIOUS
  <2>2. /\ r \in SearchView /\ InsideFits(r) /\ r.shows = "selected"
        /\ r.results = view.results /\ r.reordered = view.reordered /\ r.saves = view.saves
        /\ r.picked = view.picked /\ r.at = view.at /\ r.items = view.items
    BY ONLY <1>1, <1>2, <1>3, <2>1 DEF SearchView, InsideFits
  <2>3. QED BY <1>1, <1>2, <1>6, <2>1, <2>2, PlainKeeps
<1>7. CASE view' = Retryable(view)
  BY <1>2, <1>7, RetryKeeps
<1>8. QED BY <1>4, <1>5, <1>6, <1>7 DEF ShowSelection

\* The confirmation card of a result is sent, or the selection given back.
LEMMA SendKeeps ==
    ASSUME SearchAssumption, SearchIInv, SendConfirmation PROVE SearchIInv' /\ Receipt
<1>1. view \in SearchView /\ aside \in Aside /\ InsideFits(view)
  BY SearchParts
<1>2. /\ clicks' = clicks /\ pressed' = pressed /\ rated' = rated /\ aside' = aside
      /\ view.pc = "confirming" /\ "free" \in PCs
  BY DEF SendConfirmation, PCs
<1>3. CASE view' = [view EXCEPT !.pc = "free", !.over = TRUE]
  <2>1. PICK r : r = [view EXCEPT !.pc = "free", !.over = TRUE]
    OBVIOUS
  <2>2. /\ r \in SearchView /\ InsideFits(r) /\ r.shows = view.shows
        /\ r.results = view.results /\ r.reordered = view.reordered /\ r.saves = view.saves
        /\ r.picked = view.picked /\ r.at = view.at /\ r.items = view.items
    BY ONLY <1>1, <1>2, <2>1 DEF SearchView, InsideFits
  <2>3. QED BY <1>1, <1>2, <1>3, <2>1, <2>2, PlainKeeps
<1>4. CASE view' = Retryable(view)
  BY <1>2, <1>4, RetryKeeps
<1>5. QED BY <1>3, <1>4 DEF SendConfirmation

\* The buttons of a title to be rated are taken off, or could not be.
LEMMA PrepareKeeps ==
    ASSUME SearchIInv, PrepareRating PROVE SearchIInv' /\ Receipt
<1>1. view \in SearchView /\ aside \in Aside /\ InsideFits(view)
  BY SearchParts
<1>2. /\ clicks' = clicks /\ pressed' = pressed /\ rated' = rated /\ aside' = aside
      /\ view.pc = "preparing" /\ {"free", "saving"} \subseteq PCs
  BY DEF PrepareRating, PCs
<1>3. CASE view' = [view EXCEPT !.pc = "saving", !.enabled = FALSE]
  <2>1. PICK r : r = [view EXCEPT !.pc = "saving", !.enabled = FALSE]
    OBVIOUS
  <2>2. /\ r \in SearchView /\ InsideFits(r) /\ r.shows = view.shows
        /\ r.results = view.results /\ r.reordered = view.reordered /\ r.saves = view.saves
        /\ r.picked = view.picked /\ r.at = view.at /\ r.items = view.items
    BY ONLY <1>1, <1>2, <2>1 DEF SearchView, InsideFits
  <2>3. QED BY <1>1, <1>2, <1>3, <2>1, <2>2, PlainKeeps
<1>4. CASE view' = [view EXCEPT !.pc = "free"]
  <2>1. PICK r : r = [view EXCEPT !.pc = "free"]
    OBVIOUS
  <2>2. /\ r \in SearchView /\ InsideFits(r) /\ r.shows = view.shows
        /\ r.results = view.results /\ r.reordered = view.reordered /\ r.saves = view.saves
        /\ r.picked = view.picked /\ r.at = view.at /\ r.items = view.items
    BY ONLY <1>1, <1>2, <2>1 DEF SearchView, InsideFits
  <2>3. QED BY <1>1, <1>2, <1>4, <2>1, <2>2, PlainKeeps
<1>5. QED BY <1>3, <1>4 DEF PrepareRating

\* The rating is saved, or nothing is.
LEMMA SaveKeeps ==
    ASSUME SearchAssumption, SearchIInv, SaveRating PROVE SearchIInv' /\ Receipt
<1>1. /\ view \in SearchView /\ aside \in Aside /\ InsideFits(view) /\ FaceFits(view)
      /\ rated \in Rateds /\ RatedFits
  BY SearchParts
<1>2. /\ clicks' = clicks /\ pressed' = pressed /\ aside' = aside
      /\ view.pc = "saving" /\ "free" \in PCs /\ {"saved", "actions"} \subseteq Faces
  BY DEF SaveRating, PCs, Faces
<1>3. CASE view' = Retryable(view) /\ rated' = rated
  BY <1>2, <1>3, RetryKeeps
<1>4. CASE \E how \in {"local", "synced"}, face \in {"saved", "actions"} :
              /\ rated' = [rated EXCEPT ![view.picked] = how]
              /\ Edited(view, RatingShown(view, face))
  <2>1. PICK how \in {"local", "synced"}, face \in {"saved", "actions"} :
              /\ rated' = [rated EXCEPT ![view.picked] = how]
              /\ Edited(view, RatingShown(view, face))
    BY <1>4
  <2>2. view.saves = 0 /\ view.picked \in SearchTitles
    BY ONLY <1>1, <1>2 DEF SearchView, InsideFits
  <2>3. PICK acts \in {"idle", "none"} : acts = IF face = "actions" THEN "idle" ELSE "none"
    OBVIOUS
  <2>4. PICK one \in Nat : one = view.saves + 1 /\ one = 1
    BY <2>2
  <2>5. PICK r : r = [view EXCEPT !.pc = "free", !.over = TRUE, !.saves = one, !.shows = face,
                                  !.acts = acts]
    OBVIOUS
  <2>6. RatingShown(view, face) = r
    BY <2>3, <2>4, <2>5 DEF RatingShown
  <2>7. face \in Faces /\ face # "gone"
    BY <1>2, <2>1
  <2>8. /\ r \in SearchView /\ r.shows = face /\ r.saves = one /\ r.picked = view.picked
        /\ r.results = view.results /\ r.reordered = view.reordered
        /\ r.at = view.at /\ r.items = view.items /\ r.seen = view.seen /\ r.kind = view.kind
        /\ r.busy = view.busy /\ r.pc = "free" /\ r.acts = acts
    BY ONLY <1>1, <1>2, <2>3, <2>4, <2>5, <2>7 DEF SearchView
  <2>9. view.kind = "rating" /\ view.busy
    BY <1>1, <1>2 DEF InsideFits
  <2>10. view.picked # NoTitle /\ ~view.reordered => view.picked = view.seen
    BY <1>1 DEF InsideFits
  <2>11. InsideFits(r)
    BY <2>2, <2>4, <2>8, <2>9, <2>10 DEF InsideFits
  <2>12. FaceFits(r)
    BY <1>1, <2>8, SameFaceFits
  <2>13. /\ view' \in SearchView /\ SameResults /\ FaceFits(view') /\ InsideFits(view')
         /\ SameInside(view', r)
    BY <2>1, <2>6, <2>8, <2>11, <2>12, EditedHandles
  <2>14. Handled
    BY <1>1, <1>2, <2>13 DEF Handled
  <2>15. view'.saves = 1 /\ view'.picked = view.picked
    BY <2>4, <2>8, <2>13 DEF SameInside
  <2>16. rated' \in Rateds
    BY <1>1, <2>1 DEF Rateds
  <2>17. \A t \in SearchTitles : rated[t] = "none"
    <3>1. ~(view.saves > 0)
      BY <2>2
    <3>2. rated \in Rateds
      BY <1>1
    <3>3. QED BY <1>1, <3>1 DEF RatedFits
  <2>18. \A t \in SearchTitles : rated'[t] # "none" => t = view.picked
    BY <1>1, <2>1, <2>17 DEF Rateds
  <2>19. RatedFits'
    BY <2>15, <2>18 DEF RatedFits
  <2>20. SearchIInv'
    BY <2>14, <2>16, <2>19, HandledKeeps
  <2>21. QED BY <2>2, <2>20 DEF Receipt
<1>5. QED BY <1>3, <1>4 DEF SaveRating

\* The actions of a saved rating are taken, kept or given back.
LEMMA ActKeeps ==
    ASSUME SearchIInv, view.acts # "none",
           NEW acts \in {"idle", "syncing", "requesting", "stuck"},
           view' = [view EXCEPT !.acts = acts],
           clicks' = clicks, pressed' = pressed, rated' = rated, aside' \in Aside,
           aside.command => aside'.command
    PROVE  SearchIInv' /\ Receipt
<1>1. view \in SearchView /\ InsideFits(view)
  BY SearchParts
<1>2. PICK r : r = [view EXCEPT !.acts = acts]
  OBVIOUS
<1>3. /\ r \in SearchView /\ r.shows = view.shows
      /\ r.results = view.results /\ r.reordered = view.reordered /\ r.saves = view.saves
      /\ r.picked = view.picked /\ r.at = view.at /\ r.items = view.items
      /\ r.seen = view.seen /\ r.kind = view.kind /\ r.busy = view.busy /\ r.pc = view.pc
      /\ r.over = view.over
  BY ONLY <1>1, <1>2, acts \in {"idle", "syncing", "requesting", "stuck"} DEF SearchView
<1>4. InsideFits(r)
  BY <1>1, <1>3 DEF InsideFits
<1>5. QED BY <1>2, <1>3, <1>4, PlainKeeps

\* They are over, and the message says how, unless it could not be edited.
LEMMA DoneIs ==
    ASSUME SearchIInv, view.acts # "none", NEW face \in {"synced", "local", "requested"},
           Done(face)
    PROVE  \E r \in SearchView :
              /\ Edited(view, r) /\ InsideFits(r) /\ FaceFits(r) /\ r.shows = face
              /\ r.results = view.results /\ r.reordered = view.reordered
              /\ r.saves = view.saves /\ r.picked = view.picked /\ r.at = view.at
              /\ r.items = view.items
<1>1. view \in SearchView /\ InsideFits(view) /\ FaceFits(view) /\ face \in Faces
  BY SearchParts DEF Faces
<1>2. PICK r : r = [view EXCEPT !.acts = "over", !.shows = face]
  OBVIOUS
<1>3. /\ r \in SearchView /\ r.shows = face
      /\ r.results = view.results /\ r.reordered = view.reordered /\ r.saves = view.saves
      /\ r.picked = view.picked /\ r.at = view.at /\ r.items = view.items
      /\ r.seen = view.seen /\ r.kind = view.kind /\ r.busy = view.busy /\ r.pc = view.pc
      /\ r.over = view.over
  BY ONLY <1>1, <1>2 DEF SearchView
<1>4. InsideFits(r)
  BY <1>1, <1>3 DEF InsideFits
<1>5. FaceFits(r)
  BY <1>1, <1>3, SameFaceFits
<1>6. QED BY <1>2, <1>3, <1>4, <1>5 DEF Done

\* A rating is synced, or its actions are given back.
LEMMA SyncKeeps ==
    ASSUME SearchIInv, SyncToTrakt PROVE SearchIInv' /\ Receipt
<1>1. /\ view \in SearchView /\ aside \in Aside /\ InsideFits(view) /\ rated \in Rateds
      /\ RatedFits
  BY SearchParts
<1>2. /\ clicks' = clicks /\ pressed' = pressed /\ aside' = aside /\ view.acts = "syncing"
  BY DEF SyncToTrakt
<1>3. CASE view' = [view EXCEPT !.acts = "idle"] /\ rated' = rated
  BY <1>1, <1>2, <1>3, ActKeeps
<1>4. CASE rated' = [rated EXCEPT ![view.picked] = "synced"] /\ Done("synced")
  <2>1. PICK r \in SearchView :
           /\ Edited(view, r) /\ InsideFits(r) /\ FaceFits(r) /\ r.shows = "synced"
           /\ r.results = view.results /\ r.reordered = view.reordered
           /\ r.saves = view.saves /\ r.picked = view.picked
    BY <1>2, <1>4, DoneIs
  <2>2. /\ view' \in SearchView /\ SameResults /\ FaceFits(view') /\ InsideFits(view')
        /\ SameInside(view', r) /\ view'.shows \in {view.shows, r.shows}
    BY <2>1, EditedHandles
  <2>3. Handled
    BY <1>1, <1>2, <2>2 DEF Handled
  <2>4. view'.saves = view.saves /\ view'.picked = view.picked
    BY <2>1, <2>2 DEF SameInside
  <2>5. view.saves > 0
    BY <1>1, <1>2 DEF InsideFits
  <2>6. /\ rated' \in Rateds
        /\ \A t \in SearchTitles : rated'[t] # "none" => rated[t] # "none" \/ t = view.picked
        /\ \A t \in SearchTitles : rated[t] # "none" => rated'[t] # "none"
    BY <1>1, <1>4 DEF Rateds
  <2>7. RatedFits'
    BY <1>1, <2>4, <2>5, <2>6 DEF RatedFits
  <2>8. SearchIInv'
    BY <2>3, <2>6, <2>7, HandledKeeps
  <2>9. QED BY <1>2, <2>1, <2>2, <2>6, <2>8 DEF Receipt
<1>5. QED BY <1>3, <1>4 DEF SyncToTrakt

\* The rated title is requested, nothing was requested, or the actions stay taken.
LEMMA RequestKeeps ==
    ASSUME SearchIInv, RequestMedia PROVE SearchIInv' /\ Receipt
<1>1. view \in SearchView /\ aside \in Aside /\ InsideFits(view)
  BY SearchParts
<1>2. /\ clicks' = clicks /\ pressed' = pressed /\ rated' = rated /\ view.acts = "requesting"
  BY DEF RequestMedia
<1>3. aside' = aside \/ aside' = [aside EXCEPT !.request = "open"]
  BY DEF RequestMedia
<1>4. aside' \in Aside /\ aside'.command = aside.command
  BY <1>1, <1>3 DEF Aside
<1>5. CASE view' = [view EXCEPT !.acts = "idle"] \/ view' = [view EXCEPT !.acts = "stuck"]
  <2>1. PICK acts \in {"idle", "stuck"} : view' = [view EXCEPT !.acts = acts]
    BY <1>5
  <2>2. acts \in {"idle", "syncing", "requesting", "stuck"} /\ view.acts # "none"
    BY <1>2, <2>1
  <2>3. QED BY <1>2, <1>4, <2>1, <2>2, ActKeeps
<1>6. CASE Done("requested")
  <2>1. PICK r \in SearchView :
           /\ Edited(view, r) /\ InsideFits(r) /\ FaceFits(r) /\ r.shows = "requested"
           /\ r.results = view.results /\ r.reordered = view.reordered
           /\ r.saves = view.saves /\ r.picked = view.picked /\ r.at = view.at
           /\ r.items = view.items
    BY <1>2, <1>6, DoneIs
  <2>2. r.shows # "gone"
    BY <2>1
  <2>3. QED BY <1>2, <1>4, <2>1, <2>2, EditKeeps
<1>7. QED BY <1>5, <1>6 DEF RequestMedia

\* The request card of a rating is cancelled.
LEMMA CancelRequestKeeps ==
    ASSUME SearchIInv, CancelRequestCard PROVE SearchIInv' /\ Receipt
<1>1. view \in SearchView /\ aside \in Aside /\ InsideFits(view)
  BY SearchParts
<1>2. /\ clicks' = clicks /\ pressed' = pressed /\ rated' = rated /\ view' = view
      /\ aside' = [aside EXCEPT !.request = "gone"]
  BY DEF CancelRequestCard, RequestGone
<1>3. aside' \in Aside /\ aside'.command = aside.command
  BY <1>1, <1>2 DEF Aside
<1>4. QED BY <1>1, <1>2, <1>3, PlainKeeps

\* A rating is kept as it is, or dismissed with its card.
LEMMA KeepOrDismissKeeps ==
    ASSUME SearchIInv, KeepLocal \/ DismissRating \/ DismissedGone \/ BeginAct
    PROVE  SearchIInv' /\ Receipt
<1>1. /\ view \in SearchView /\ aside \in Aside /\ InsideFits(view) /\ FaceFits(view)
      /\ rated \in Rateds /\ RatedFits
  BY SearchParts
<1>2. clicks' = clicks /\ pressed' = pressed
  BY DEF KeepLocal, DismissRating, DismissedGone, BeginAct
<1>3. CASE KeepLocal
  <2>1. view.acts = "idle" /\ Done("local") /\ rated' = rated /\ aside' = aside
    BY <1>3 DEF KeepLocal
  <2>2. PICK r \in SearchView :
           /\ Edited(view, r) /\ InsideFits(r) /\ FaceFits(r) /\ r.shows = "local"
           /\ r.results = view.results /\ r.reordered = view.reordered
           /\ r.saves = view.saves /\ r.picked = view.picked /\ r.at = view.at
           /\ r.items = view.items
    BY <2>1, DoneIs
  <2>3. r.shows # "gone"
    BY <2>2
  <2>4. QED BY <1>1, <1>2, <2>1, <2>2, <2>3, EditKeeps
<1>4. CASE BeginAct
  <2>1. rated' = rated /\ aside' = aside /\ \E to \in {"syncing", "requesting"} : Act(to)
    BY <1>4 DEF BeginAct
  <2>2. PICK to \in {"syncing", "requesting"} : Act(to)
    BY <2>1
  <2>3. view.acts = "idle" /\ view' = [view EXCEPT !.acts = to]
    BY <2>2 DEF Act
  <2>4. QED BY <1>1, <1>2, <2>1, <2>3, ActKeeps
<1>5. CASE DismissRating
  <2>1. /\ view.acts = "idle" /\ view' = [view EXCEPT !.acts = "dismissed"] /\ aside' = aside
        /\ rated' = [rated EXCEPT ![view.picked] = "none"]
    BY <1>5 DEF DismissRating, Act
  <2>2. PICK r : r = [view EXCEPT !.acts = "dismissed"]
    OBVIOUS
  <2>3. /\ r \in SearchView /\ r.shows = view.shows /\ r.acts = "dismissed"
        /\ r.results = view.results /\ r.reordered = view.reordered /\ r.saves = view.saves
        /\ r.picked = view.picked /\ r.at = view.at /\ r.items = view.items
        /\ r.seen = view.seen /\ r.kind = view.kind /\ r.busy = view.busy /\ r.pc = view.pc
        /\ r.over = view.over
    BY ONLY <1>1, <2>2 DEF SearchView
  <2>4. InsideFits(r)
    BY <1>1, <2>1, <2>3 DEF InsideFits
  <2>5. FaceFits(r)
    BY <1>1, <2>3, SameFaceFits
  <2>6. Handled
    BY <1>1, <1>2, <2>1, <2>2, <2>3, <2>4, <2>5 DEF Handled, SameResults
  <2>7. /\ rated' \in Rateds
        /\ \A t \in SearchTitles : rated'[t] # "none" => rated[t] # "none"
    BY <1>1, <2>1 DEF Rateds
  <2>8. RatedFits'
    BY <1>1, <2>1, <2>2, <2>3, <2>7 DEF RatedFits
  <2>9. SearchIInv'
    BY <2>6, <2>7, <2>8, HandledKeeps
  <2>10. QED BY <2>1, <2>2, <2>3, <2>9 DEF Receipt
<1>6. CASE DismissedGone
  <2>1. /\ view.acts = "dismissed" /\ view' = [view EXCEPT !.shows = "gone"] /\ rated' = rated
        /\ aside' = [aside EXCEPT !.command = FALSE]
    BY <1>6 DEF DismissedGone
  <2>2. PICK r : r = [view EXCEPT !.shows = "gone"]
    OBVIOUS
  <2>3. "gone" \in Faces
    BY DEF Faces
  <2>4. /\ r \in SearchView
        /\ r.results = view.results /\ r.reordered = view.reordered /\ r.saves = view.saves
        /\ r.picked = view.picked /\ r.at = view.at /\ r.items = view.items
        /\ r.seen = view.seen /\ r.kind = view.kind /\ r.busy = view.busy /\ r.pc = view.pc
        /\ r.over = view.over /\ r.acts = view.acts
    BY ONLY <1>1, <2>2, <2>3 DEF SearchView
  <2>5. InsideFits(r)
    BY <1>1, <2>4 DEF InsideFits
  <2>6. aside' \in Aside
    BY <1>1, <2>1 DEF Aside
  <2>7. SearchIInv'
    BY <1>2, <2>1, <2>2, <2>4, <2>5, <2>6, ChangedKeeps
  <2>8. QED BY <2>1, <2>7 DEF Receipt
<1>7. QED BY <1>3, <1>4, <1>5, <1>6

\* A new card shows its first page.
LEMMA SearchStarts ==
    ASSUME SearchAssumption, SearchInit PROVE SearchIInv
<1>1. /\ clicks = {} /\ pressed = 0 /\ rated = [t \in SearchTitles |-> "none"]
      /\ aside = [command |-> TRUE, request |-> "none"]
  BY DEF SearchInit
<1>2. PICK results : results = Appended(<<>>, ProviderPages[1])
  OBVIOUS
<1>3. PICK kind \in Kinds :
          view = Paged([kind |-> kind, results |-> results, fetched |-> 1,
                        page |-> 0, busy |-> FALSE, over |-> FALSE, pc |-> "free",
                        picked |-> NoTitle, seen |-> NoTitle, saves |-> 0, reordered |-> FALSE, acts |-> "none",
                        shows |-> "page", enabled |-> TRUE, at |-> 0, items |-> <<>>, more |-> TRUE])
  BY <1>2 DEF SearchInit
<1>4. /\ ProviderPages \in Seq(Seq(SearchTitles)) /\ 1 \in DOMAIN ProviderPages
      /\ ProviderPages[1] \in Seq(SearchTitles)
  <2>1. ProviderPages \in Seq(Seq(SearchTitles)) /\ ProviderPages # <<>>
    BY DEF SearchAssumption
  <2>2. DOMAIN ProviderPages = 1..Len(ProviderPages) /\ Len(ProviderPages) \in Nat \ {0}
    BY <2>1, LenProperties, EmptySeq
  <2>3. 1 \in DOMAIN ProviderPages
    BY <2>2
  <2>4. QED BY <2>1, <2>2, <2>3, ElementOfSeq
<1>5. results \in Seq(SearchTitles) /\ IsInjective(results)
  <2>1. <<>> \in Seq(SearchTitles)
    OBVIOUS
  <2>2. QED BY <1>2, <1>4, <2>1, AppendedIs
<1>6. PICK c : c = [kind |-> kind, results |-> results, fetched |-> 1,
                    page |-> 0, busy |-> FALSE, over |-> FALSE, pc |-> "free",
                    picked |-> NoTitle, seen |-> NoTitle, saves |-> 0, reordered |-> FALSE, acts |-> "none",
                    shows |-> "page", enabled |-> TRUE, at |-> 0, items |-> <<>>, more |-> TRUE]
  OBVIOUS
<1>7. c \in SearchView
  <2>1. "free" \in PCs /\ "page" \in Faces /\ NoTitle \in MaybeTitle /\ <<>> \in Seq(SearchTitles)
    BY DEF PCs, Faces, MaybeTitle
  <2>2. QED BY ONLY <1>3, <1>4, <1>5, <1>6, <2>1 DEF SearchView
<1>8. /\ c.results = results /\ ~c.reordered /\ c.saves = 0 /\ c.pc = "free" /\ ~c.busy
      /\ c.picked = NoTitle /\ c.acts = "none"
  BY <1>6
<1>9. InsideFits(c)
  BY <1>8 DEF InsideFits
<1>10. view \in SearchView /\ SameInside(view, c) /\ FaceFits(view)
  BY <1>3, <1>6, <1>7, PagedIs
<1>11. InsideFits(view) /\ view.results = results
  BY <1>8, <1>9, <1>10, SameFits DEF SameInside
<1>12. SearchShape
  BY <1>1, <1>5, <1>10, <1>11 DEF SearchShape
<1>13. QED BY <1>1, <1>10, <1>11, <1>12 DEF SearchIInv, RatedFits

\* Every step keeps the invariant, and the receipt of a saved rating.
LEMMA SearchStep ==
    ASSUME SearchAssumption, SearchIInv, SearchNext PROVE SearchIInv' /\ Receipt
<1>1. CASE Press
  BY <1>1, PressKeeps
<1>2. CASE \E click \in clicks :
              \/ Arrive(click) \/ PreviousPage(click) \/ NextPage(click) \/ CancelSearch(click)
              \/ RejectPick(click) \/ OpenResult(click) \/ RateResult(click)
  BY <1>2, ArriveKeeps, PreviousKeeps, NextKeeps, CloseKeeps, RejectKeeps, PickedKeeps
<1>3. CASE FetchPage \/ TurnPage \/ ExpireSearch
  BY <1>3, FetchKeeps, TurnKeeps, CloseKeeps
<1>4. CASE ShowSelection \/ SendConfirmation \/ PrepareRating \/ SaveRating
  BY <1>4, ShowKeeps, SendKeeps, PrepareKeeps, SaveKeeps
<1>5. CASE SyncToTrakt \/ RequestMedia \/ CancelRequestCard
  BY <1>5, SyncKeeps, RequestKeeps, CancelRequestKeeps
<1>6. CASE BeginAct \/ KeepLocal \/ DismissRating \/ DismissedGone
  BY <1>6, KeepOrDismissKeeps
<1>7. QED BY <1>1, <1>2, <1>3, <1>4, <1>5, <1>6 DEF SearchNext

\* The inductive invariant of a search or rating card holds (SearchResultsView,
\* RatingSearchView, UnavailableRatingView).
THEOREM SearchInvariance == SearchSpec => []SearchIInv
<1>1. SearchAssumption
  BY SearchAssumption
<1>2. SearchInit => SearchIInv
  BY <1>1, SearchStarts
<1>3. SearchIInv /\ [SearchNext]_searchVars => SearchIInv'
  <2>1. ASSUME SearchIInv, UNCHANGED searchVars PROVE SearchIInv'
    BY <2>1 DEF searchVars, SearchIInv, SearchShape, RatedFits
  <2>2. QED BY <1>1, <2>1, SearchStep
<1>4. QED BY <1>2, <1>3, PTL DEF SearchSpec

\* The title that is opened or rated is the one that was seen unless results were
\* reordered, a card rates one title, and a request search that waits can be used.
THEOREM SearchHolds == SearchSpec => []SearchInv
<1>1. SearchIInv => SearchInv
  <2>1. SUFFICES ASSUME SearchIInv PROVE SearchInv
    OBVIOUS
  <2>2. /\ view \in SearchView /\ IsInjective(view.results) /\ rated \in Rateds
        /\ InsideFits(view) /\ RatedFits
    BY <2>1, SearchParts
  <2>3. ToSet(view.results) \subseteq SearchTitles
    <3>1. view.results \in Seq(SearchTitles)
      BY <2>2 DEF SearchView
    <3>2. DOMAIN view.results = 1..Len(view.results)
      BY <3>1, LenProperties
    <3>3. QED BY <3>1, <3>2, ElementOfSeq DEF ToSet
  <2>4. SearchTypeOK
    BY <2>2, <2>3 DEF SearchTypeOK, SearchView, MaybeTitle, Rateds
  <2>5. PickIsShown /\ OneRatingPerCard /\ RequestRetryable
    BY <2>2 DEF PickIsShown, OneRatingPerCard, RequestRetryable, InsideFits, RatedFits
  <2>6. QED BY <2>4, <2>5 DEF SearchInv
<1>2. QED BY <1>1, SearchInvariance, PTL

\* A saved rating goes only when its member dismisses it, and so do the command and the
\* card that tell of it.
THEOREM ReceiptIsKept == SearchSpec => ReceiptKept
<1>1. SearchAssumption
  BY SearchAssumption
<1>2. SearchIInv /\ [SearchNext]_searchVars => [Receipt]_searchVars
  BY <1>1, SearchStep
<1>3. Receipt <=> (view.saves > 0 /\ ~(view.acts = "dismissed" \/ view'.acts = "dismissed") =>
          /\ \A t \in SearchTitles : rated[t] # "none" => rated'[t] # "none"
          /\ aside.command => aside'.command
          /\ view'.shows = "gone" => view.shows = "gone")
  BY DEF Receipt
<1>4. QED BY <1>2, <1>3, SearchInvariance, PTL DEF SearchSpec, ReceiptKept

-----------------------------------------------------------------------------
(***************************************************************************)
(* A conversation with the model.                                          *)
(***************************************************************************)

\* The messages of a conversation, the clicks on their buttons, and the dialogs.
Button == [revision : Nat, q : Asked]
Message == [question : Asked, shows : {"prompt", "notice", "answer"}, controls : Button]
ChatPress == [kind : {"follow", "fresh", "cancel", "finish"}, q : Asked, revision : Nat,
              seen : Seq(Questions)]
Dialog == [revision : Nat, fresh : BOOLEAN, seen : Seq(Questions)]
ChatShape ==
    /\ chat \in Chat /\ talk \in Talk /\ Len(talk.context) <= KeptTurns
    /\ memory \in Seq(Questions) /\ Len(memory) <= KeptTurns + 1
    /\ cards \in Seq(Message) /\ Here > 0
    /\ presses \subseteq ChatPress /\ dialogs \subseteq Dialog
    /\ cancels \subseteq [q : withdrawn, search : BOOLEAN] /\ finishing \subseteq Questions
    /\ withdrawn \subseteq Questions /\ \A q \in withdrawn : q <= talk.q
    /\ stopped \subseteq withdrawn /\ unsent \subseteq {"answer", "buttons"} \X Questions
    /\ chatEffort \in [presses : Nat, progress : Nat, faults : Nat]

\* A question that is being answered is the current one; the idle timer runs between two,
\* and Cancel is remembered for as long as its question is.
Working == {"permit", "search", "searching", "ready", "asking", "answered", "failed"}
TurnFits(c, t) ==
    /\ c.current = IF c.closed \/ t.pc = "over" THEN NoQuestion ELSE t.q
    /\ c.timer => c.current = NoQuestion /\ ~c.closed
    /\ c.current \in withdrawn => c.cancel = c.current

\* The question that is being answered has its message, which shows no answer so far.
MessageFits(c, t, messages) ==
    /\ t.pc \in Working =>
          /\ c.visible /\ messages[Len(messages)].question = t.q
          /\ messages[Len(messages)].shows # "answer"
    /\ ~c.visible => \A j \in DOMAIN messages : messages[j].shows # "answer"

\* No button is newer than the view, and the member who uses one of the present revision
\* between two questions has the conversation before the eyes, or it was emptied since.
ButtonFits(c, p) ==
    /\ p.revision <= c.revision
    /\ p.kind \in {"cancel", "finish"} <=> p.q # NoQuestion
    /\ c.current = NoQuestion /\ ~c.closed /\ p.q = NoQuestion /\ p.revision = c.revision =>
          memory \in {<<>>, p.seen}
DialogFits(c, d) ==
    /\ d.revision <= c.revision
    /\ c.current = NoQuestion /\ ~c.closed /\ d.revision = c.revision =>
          memory \in {<<>>, d.seen} /\ (d.fresh => memory = <<>>)
HandlersFit ==
    /\ \A p \in presses : ButtonFits(chat, p)
    /\ \A d \in dialogs : DialogFits(chat, d)

\* What the model is told, now or with the next question, is shown, unless the edit that
\* was to show it failed.
ToldIsShown ==
    /\ \A i \in DOMAIN memory : ShowsAnswer(memory[i], cards) \/ <<"answer", memory[i]>> \in unsent
    /\ \A i \in DOMAIN talk.context :
          ShowsAnswer(talk.context[i], cards) \/ <<"answer", talk.context[i]>> \in unsent

\* No button is newer than the view.  Between two questions the last message has the
\* present ones, unless the edit failed that was to draw them, and those of any other
\* message are old; without a failed call no other message has any.
ControlsFit(c, messages) ==
    /\ \A j \in DOMAIN messages : messages[j].controls.revision <= c.revision
    /\ chatEffort.faults = 0 => \A j \in DOMAIN messages : j = Len(messages) \/ messages[j].controls = Unbound
    /\ talk.pc = "over" /\ ~c.closed =>
          /\ \A j \in DOMAIN messages : j = Len(messages) \/ messages[j].controls.revision < c.revision
          /\ messages[Len(messages)].controls = Bound(c) \/ <<"buttons", talk.q>> \in unsent

\* The inductive invariant of a conversation.
ChatIInv ==
    /\ ChatShape /\ TurnFits(chat, talk) /\ MessageFits(chat, talk, cards) /\ HandlersFit
    /\ ContextAsSeen /\ ToldIsShown /\ ControlsFit(chat, cards)

\* The questions are numbered from one on.
LEMMA QuestionsAre ==
    ASSUME ConversationAssumption
    PROVE  /\ Questions \subseteq Nat \ {0} /\ 1 \in Questions /\ NoQuestion \notin Questions
           /\ KeptTurns \in Nat
<1>1. Cardinality(Questions) \in Nat
  BY FS_CardinalityType DEF ConversationAssumption
<1>2. PICK n \in Nat : Questions = 1..n /\ Questions # {}
  BY <1>1 DEF ConversationAssumption
<1>3. QED BY <1>2 DEF ConversationAssumption, NoQuestion

\* append_prompt keeps so many of the last turns as there is room for.
LEMMA KeptIs ==
    ASSUME ConversationAssumption, NEW history \in Seq(Questions)
    PROVE  /\ Kept(history) \in Seq(Questions) /\ Len(Kept(history)) <= KeptTurns
           /\ \A i \in DOMAIN Kept(history) : \E k \in DOMAIN history : Kept(history)[i] = history[k]
           /\ Kept(<<>>) = <<>>
<1>1. /\ Len(history) \in Nat /\ DOMAIN history = 1..Len(history) /\ KeptTurns \in Nat
      /\ \A i \in 1..Len(history) : history[i] \in Questions
  BY LenProperties, ElementOfSeq, QuestionsAre
<1>2. Kept(<<>>) = <<>>
  BY <1>1 DEF Kept
<1>3. CASE Len(history) <= KeptTurns
  BY <1>1, <1>2, <1>3 DEF Kept
<1>4. CASE ~(Len(history) <= KeptTurns)
  <2>1. PICK m, n : m = Len(history) - KeptTurns + 1 /\ n = Len(history)
    OBVIOUS
  <2>2. m \in Int /\ n \in Int /\ m >= 1 /\ (m <= n \/ n - m + 1 = 0) /\ n - m + 1 = KeptTurns
    <3>1. n \in Nat /\ KeptTurns \in Nat /\ ~(n <= KeptTurns) /\ m = n - KeptTurns + 1
      BY <1>1, <1>4, <2>1
    <3>2. QED BY ONLY <3>1
  <2>3. Kept(history) = SubSeq(history, m, n)
    BY <1>4, <2>1 DEF Kept
  <2>4. \A i \in m..n : history[i] \in Questions
    BY <1>1, <2>1, <2>2
  <2>5. /\ SubSeq(history, m, n) \in Seq(Questions)
        /\ Len(SubSeq(history, m, n)) = IF m <= n THEN n - m + 1 ELSE 0
        /\ \A i \in 1..(n - m + 1) : SubSeq(history, m, n)[i] = history[m + i - 1]
    BY ONLY <2>2, <2>4, SubSeqProperties
  <2>6. PICK s : s = SubSeq(history, m, n)
    OBVIOUS
  <2>7. /\ s \in Seq(Questions) /\ Len(s) = KeptTurns
        /\ \A i \in 1..KeptTurns : s[i] = history[m + i - 1]
    BY <2>2, <2>5, <2>6
  <2>8. DOMAIN s = 1..KeptTurns
    BY <2>7, LenProperties
  <2>9. \A i \in DOMAIN s : \E k \in DOMAIN history : s[i] = history[k]
    <3>1. SUFFICES ASSUME NEW i \in 1..KeptTurns
                   PROVE  m + i - 1 \in DOMAIN history
      BY <2>7, <2>8
    <3>2. QED BY <1>1, <2>1, <2>2, <3>1
  <2>10. QED BY <1>1, <1>2, <2>3, <2>6, <2>7, <2>9
<1>5. QED BY <1>3, <1>4

\* Only the last message is changed by an edit.
LEMMA LastEdited ==
    ASSUME NEW s \in Seq(Message), Len(s) > 0, NEW k \in Message,
           NEW t, t = [s EXCEPT ![Len(s)] = k]
    PROVE  /\ t \in Seq(Message) /\ Len(t) = Len(s) /\ DOMAIN t = DOMAIN s
           /\ Len(s) \in DOMAIN s /\ t[Len(s)] = k /\ s[Len(s)] \in Message
           /\ \A j \in DOMAIN s : j # Len(s) => t[j] = s[j]
<1>1. /\ Len(s) \in Nat /\ DOMAIN s = 1..Len(s) /\ s \in [1..Len(s) -> Message]
  BY LenProperties
<1>2. Len(s) \in 1..Len(s)
  BY <1>1
<1>3. /\ t \in [1..Len(s) -> Message] /\ t[Len(s)] = k
      /\ \A j \in DOMAIN s : j # Len(s) => t[j] = s[j]
  BY <1>1, <1>2
<1>4. t \in Seq(Message)
  BY <1>1, <1>3, SeqDef
<1>5. Len(t) = Len(s) /\ DOMAIN t = DOMAIN s
  <2>1. PICK n \in Nat : n = Len(s)
    BY <1>1
  <2>2. t \in [1..n -> Message] /\ DOMAIN t = 1..n
    BY <1>3, <2>1
  <2>3. Len(t) = n
    BY <1>4, <2>2, LenProperties
  <2>4. QED BY <1>1, <2>1, <2>2, <2>3
<1>6. QED BY <1>1, <1>2, <1>3, <1>4, <1>5

\* Its buttons are exchanged.
LEMMA Recontrolled ==
    ASSUME NEW s \in Seq(Message), Len(s) > 0, NEW b \in Button,
           NEW t, t = [s EXCEPT ![Len(s)].controls = b]
    PROVE  /\ t \in Seq(Message) /\ Len(t) = Len(s) /\ DOMAIN t = DOMAIN s
           /\ Len(s) \in DOMAIN s /\ t[Len(s)].controls = b
           /\ \A j \in DOMAIN s : /\ t[j].question = s[j].question /\ t[j].shows = s[j].shows
                                  /\ j # Len(s) => t[j].controls = s[j].controls
<1>1. PICK n : n = Len(s)
  OBVIOUS
<1>2. PICK k : k = [s[n] EXCEPT !.controls = b]
  OBVIOUS
<1>3. t = [s EXCEPT ![n] = k]
  BY <1>1, <1>2
<1>4. s[n] \in Message /\ n \in DOMAIN s
  BY <1>1, LenProperties, ElementOfSeq
<1>5. k \in Message /\ k.question = s[n].question /\ k.shows = s[n].shows /\ k.controls = b
  BY ONLY <1>2, <1>4, b \in Button DEF Message
<1>6. /\ t \in Seq(Message) /\ Len(t) = Len(s) /\ DOMAIN t = DOMAIN s
      /\ n \in DOMAIN s /\ t[n] = k /\ \A j \in DOMAIN s : j # n => t[j] = s[j]
  BY <1>1, <1>3, <1>5, LastEdited
<1>7. QED BY <1>1, <1>5, <1>6

\* What it shows is exchanged.
LEMMA Reshown ==
    ASSUME NEW s \in Seq(Message), Len(s) > 0, NEW face \in {"prompt", "notice", "answer"},
           NEW t, t = [s EXCEPT ![Len(s)].shows = face]
    PROVE  /\ t \in Seq(Message) /\ Len(t) = Len(s) /\ DOMAIN t = DOMAIN s
           /\ Len(s) \in DOMAIN s /\ t[Len(s)].shows = face
           /\ \A j \in DOMAIN s : /\ t[j].question = s[j].question /\ t[j].controls = s[j].controls
                                  /\ j # Len(s) => t[j].shows = s[j].shows
<1>1. PICK n : n = Len(s)
  OBVIOUS
<1>2. PICK k : k = [s[n] EXCEPT !.shows = face]
  OBVIOUS
<1>3. t = [s EXCEPT ![n] = k]
  BY <1>1, <1>2
<1>4. s[n] \in Message /\ n \in DOMAIN s
  BY <1>1, LenProperties, ElementOfSeq
<1>5. k \in Message /\ k.question = s[n].question /\ k.controls = s[n].controls /\ k.shows = face
  BY ONLY <1>2, <1>4, face \in {"prompt", "notice", "answer"} DEF Message
<1>6. /\ t \in Seq(Message) /\ Len(t) = Len(s) /\ DOMAIN t = DOMAIN s
      /\ n \in DOMAIN s /\ t[n] = k /\ \A j \in DOMAIN s : j # n => t[j] = s[j]
  BY <1>1, <1>3, <1>5, LastEdited
<1>7. QED BY <1>1, <1>5, <1>6

\* A message is added.
LEMMA MessageAdded ==
    ASSUME NEW s \in Seq(Message), NEW k \in Message, NEW t, t = Append(s, k)
    PROVE  /\ t \in Seq(Message) /\ Len(t) > 0 /\ t[Len(t)] = k
           /\ \A j \in DOMAIN s : j \in DOMAIN t /\ t[j] = s[j]
           /\ \A j \in DOMAIN t : j = Len(t) \/ j \in DOMAIN s
<1>1. /\ t \in Seq(Message) /\ Len(t) = Len(s) + 1 /\ t[Len(s) + 1] = k
      /\ \A j \in 1..Len(s) : t[j] = s[j]
  BY AppendProperties
<1>2. /\ DOMAIN s = 1..Len(s) /\ Len(s) \in Nat /\ DOMAIN t = 1..Len(t)
  BY <1>1, LenProperties
<1>3. PICK n \in Nat : n = Len(s)
  BY <1>2
<1>4. /\ DOMAIN s = 1..n /\ DOMAIN t = 1..(n + 1) /\ Len(t) = n + 1
  BY <1>1, <1>2, <1>3
<1>5. QED BY <1>1, <1>3, <1>4

\* Two conversations that show the same answers.
SameAnswers(t, s) == \A q : ShowsAnswer(q, t) <=> ShowsAnswer(q, s)

\* They do when their messages differ in their buttons, or in what shows no answer.
LEMMA AnswersAreSame ==
    ASSUME NEW s, NEW t, DOMAIN s \subseteq DOMAIN t,
           \A j \in DOMAIN s : /\ t[j].shows = "answer" <=> s[j].shows = "answer"
                               /\ s[j].shows = "answer" => t[j].question = s[j].question,
           \A j \in DOMAIN t : j \notin DOMAIN s => t[j].shows # "answer"
    PROVE  SameAnswers(t, s)
<1>1. ASSUME NEW q, ShowsAnswer(q, t) PROVE ShowsAnswer(q, s)
  BY <1>1 DEF ShowsAnswer
<1>2. ASSUME NEW q, ShowsAnswer(q, s) PROVE ShowsAnswer(q, t)
  BY <1>2 DEF ShowsAnswer
<1>3. QED BY <1>1, <1>2 DEF SameAnswers

\* The parts of the invariant.
LEMMA ChatParts ==
    ChatIInv =>
        /\ chat \in Chat /\ talk \in Talk /\ Len(talk.context) <= KeptTurns
        /\ memory \in Seq(Questions) /\ Len(memory) <= KeptTurns + 1
        /\ cards \in Seq(Message) /\ Len(cards) > 0 /\ Len(cards) \in DOMAIN cards
        /\ presses \subseteq ChatPress /\ dialogs \subseteq Dialog
        /\ cancels \subseteq [q : withdrawn, search : BOOLEAN] /\ finishing \subseteq Questions
        /\ withdrawn \subseteq Questions /\ (\A q \in withdrawn : q <= talk.q)
        /\ stopped \subseteq withdrawn /\ unsent \subseteq {"answer", "buttons"} \X Questions
        /\ chatEffort \in [presses : Nat, progress : Nat, faults : Nat]
        /\ TurnFits(chat, talk) /\ MessageFits(chat, talk, cards) /\ HandlersFit
        /\ ContextAsSeen /\ ToldIsShown /\ ControlsFit(chat, cards)
<1>1. SUFFICES ASSUME ChatIInv PROVE Len(cards) \in DOMAIN cards
  BY DEF ChatIInv, ChatShape, Here
<1>2. cards \in Seq(Message) /\ Len(cards) > 0
  BY <1>1 DEF ChatIInv, ChatShape, Here
<1>3. QED BY <1>2, LenProperties

\* Clicks and dialogs that are there already: their revisions are not of a later view.
LEMMA HandlersStillFit ==
    ASSUME HandlersFit, chat \in Chat, chat' \in Chat, presses \subseteq ChatPress,
           dialogs \subseteq Dialog,
           chat.revision <= chat'.revision,
           chat'.current = NoQuestion /\ ~chat'.closed /\ chat'.revision = chat.revision =>
              chat.current = NoQuestion /\ ~chat.closed /\ memory' \in {memory, <<>>}
    PROVE  /\ \A p \in presses : ButtonFits(chat, p)'
           /\ \A d \in dialogs : DialogFits(chat, d)'
<1>1. chat.revision \in Nat /\ chat'.revision \in Nat
  BY DEF Chat
<1>2. ASSUME NEW p \in presses PROVE ButtonFits(chat, p)'
  <2>1. p.revision \in Nat /\ ButtonFits(chat, p)
    BY <1>2 DEF ChatPress, HandlersFit
  <2>2. p.revision <= chat.revision /\ (p.kind \in {"cancel", "finish"} <=> p.q # NoQuestion)
    BY <2>1 DEF ButtonFits
  <2>3. p.revision <= chat'.revision /\ (p.revision = chat'.revision => chat'.revision = chat.revision)
    BY <1>1, <2>1, <2>2
  <2>4. ASSUME chat'.current = NoQuestion, ~chat'.closed, p.q = NoQuestion, p.revision = chat'.revision
        PROVE  memory' \in {<<>>, p.seen}
    <3>1. chat.current = NoQuestion /\ ~chat.closed /\ memory' \in {memory, <<>>}
          /\ p.revision = chat.revision
      BY <2>3, <2>4
    <3>2. memory \in {<<>>, p.seen}
      BY <2>1, <2>4, <3>1 DEF ButtonFits
    <3>3. QED BY <3>1, <3>2
  <2>5. QED BY <2>2, <2>3, <2>4 DEF ButtonFits
<1>3. ASSUME NEW d \in dialogs PROVE DialogFits(chat, d)'
  <2>1. d.revision \in Nat /\ DialogFits(chat, d)
    BY <1>3 DEF Dialog, HandlersFit
  <2>2. d.revision <= chat.revision
    BY <2>1 DEF DialogFits
  <2>3. d.revision <= chat'.revision /\ (d.revision = chat'.revision => chat'.revision = chat.revision)
    BY <1>1, <2>1, <2>2
  <2>4. ASSUME chat'.current = NoQuestion, ~chat'.closed, d.revision = chat'.revision
        PROVE  memory' \in {<<>>, d.seen} /\ (d.fresh => memory' = <<>>)
    <3>1. chat.current = NoQuestion /\ ~chat.closed /\ memory' \in {memory, <<>>}
          /\ d.revision = chat.revision
      BY <2>3, <2>4
    <3>2. memory \in {<<>>, d.seen} /\ (d.fresh => memory = <<>>)
      BY <2>1, <2>4, <3>1 DEF DialogFits
    <3>3. QED BY <3>1, <3>2
  <2>5. QED BY <2>2, <2>3, <2>4 DEF DialogFits
<1>4. QED BY <1>2, <1>3

\* So they fit as long as none is added.
LEMMA HandlersKept ==
    ASSUME HandlersFit, chat \in Chat, chat' \in Chat, presses \subseteq ChatPress,
           dialogs \subseteq Dialog, presses' \subseteq presses, dialogs' \subseteq dialogs,
           chat.revision <= chat'.revision,
           chat'.current = NoQuestion /\ ~chat'.closed /\ chat'.revision = chat.revision =>
              chat.current = NoQuestion /\ ~chat.closed /\ memory' \in {memory, <<>>}
    PROVE  HandlersFit'
<1>1. /\ \A p \in presses : ButtonFits(chat, p)'
      /\ \A d \in dialogs : DialogFits(chat, d)'
  BY HandlersStillFit
<1>2. /\ \A p \in presses' : ButtonFits(chat, p)'
      /\ \A d \in dialogs' : DialogFits(chat, d)'
  BY <1>1
<1>3. QED BY <1>2 DEF HandlersFit

\* What is told stays shown, as long as the same answers are.
LEMMA ToldKept ==
    ASSUME ToldIsShown, SameAnswers(cards', cards), unsent \subseteq unsent',
           memory' \in {memory, <<>>}, talk'.context = talk.context
    PROVE  ToldIsShown'
<1>1. \A i \in DOMAIN memory' : i \in DOMAIN memory /\ memory'[i] = memory[i]
  <2>1. DOMAIN <<>> = {}
    OBVIOUS
  <2>2. QED BY <2>1
<1>2. QED BY <1>1 DEF ToldIsShown, SameAnswers

\* A failed call is counted.
LEMMA FaultsGrow ==
    ASSUME chatEffort \in [presses : Nat, progress : Nat, faults : Nat], ChatFault \/ NoChatFault
    PROVE  /\ chatEffort' \in [presses : Nat, progress : Nat, faults : Nat]
           /\ chatEffort'.faults = 0 => chatEffort.faults = 0 /\ NoChatFault
<1>1. CASE NoChatFault
  BY <1>1 DEF NoChatFault
<1>2. CASE ChatFault
  <2>1. chatEffort.faults \in Nat /\ chatEffort' = [chatEffort EXCEPT !.faults = @ + 1]
    BY <1>2 DEF ChatFault
  <2>2. PICK n \in Nat : n = chatEffort.faults + 1 /\ n # 0
    BY <2>1
  <2>3. chatEffort' = [chatEffort EXCEPT !.faults = n]
    BY <2>1, <2>2
  <2>4. chatEffort' \in [presses : Nat, progress : Nat, faults : Nat] /\ chatEffort'.faults = n
    BY ONLY <2>2, <2>3, chatEffort \in [presses : Nat, progress : Nat, faults : Nat]
  <2>5. QED BY <2>2, <2>4
<1>3. QED BY <1>1, <1>2

\* What a step that moves the coroutine on leaves of the view.
SameView(c) ==
    /\ c.closed = chat.closed /\ c.current = chat.current /\ c.cancel = chat.cancel
    /\ c.timer = chat.timer /\ c.revision = chat.revision /\ c.visible = chat.visible

\* The answers' step: they stay, and none appears after its question's Cancel.
AnswersStep ==
    \A q \in Questions :
          /\ ShowsAnswer(q, cards) => ShowsAnswer(q, cards')
          /\ q \in withdrawn /\ ShowsAnswer(q, cards') => ShowsAnswer(q, cards)

\* The coroutine goes on, with the message as it was or with a notice in it.
LEMMA MoveKeeps ==
    ASSUME ChatIInv, UNCHANGED handlers, unsent' = unsent, memory' = memory, talk.pc \in Working,
           NEW pc \in Working \union {"ending"}, Goes(pc),
           NEW c \in Chat, chat' = c, SameView(c),
           UNCHANGED <<cards, chatEffort>> \/ Notice
    PROVE  ChatIInv' /\ AnswersStep
<1>1. /\ chat \in Chat /\ talk \in Talk /\ cards \in Seq(Message) /\ Len(cards) > 0
      /\ chatEffort \in [presses : Nat, progress : Nat, faults : Nat]
      /\ Len(cards) \in DOMAIN cards /\ HandlersFit /\ ToldIsShown /\ ContextAsSeen
      /\ presses \subseteq ChatPress /\ dialogs \subseteq Dialog
      /\ TurnFits(chat, talk) /\ MessageFits(chat, talk, cards) /\ ControlsFit(chat, cards)
  BY ChatParts
<1>2. /\ presses' = presses /\ dialogs' = dialogs /\ cancels' = cancels
      /\ finishing' = finishing /\ withdrawn' = withdrawn /\ stopped' = stopped
  BY DEF handlers
<1>3. PICK t : t = [talk EXCEPT !.pc = pc]
  OBVIOUS
<1>4. pc \in {"opening", "permit", "search", "searching", "ready", "asking", "answered",
               "failed", "ending", "over"} /\ pc # "over" /\ talk.pc # "over"
  BY DEF Working
<1>5. /\ t \in Talk /\ t.q = talk.q /\ t.context = talk.context /\ t.seen = talk.seen
      /\ t.fresh = talk.fresh /\ t.pc = pc
  BY ONLY <1>1, <1>3, <1>4 DEF Talk
<1>6. talk' = t
  BY <1>3 DEF Goes
<1>7. /\ cards' \in Seq(Message) /\ Len(cards') = Len(cards) /\ DOMAIN cards' = DOMAIN cards
      /\ \A j \in DOMAIN cards : /\ cards'[j].question = cards[j].question
                                 /\ cards'[j].controls = cards[j].controls
                                 /\ j # Len(cards) => cards'[j].shows = cards[j].shows
      /\ cards'[Len(cards)].shows \in {cards[Len(cards)].shows, "notice"}
  <2>1. CASE cards' = cards
    BY <1>1, <2>1
  <2>2. CASE cards' = [cards EXCEPT ![Here].shows = "notice"]
    <3>1. cards' = [cards EXCEPT ![Len(cards)].shows = "notice"]
      BY <2>2 DEF Here
    <3>2. PICK face \in {"prompt", "notice", "answer"} : face = "notice"
      OBVIOUS
    <3>3. PICK s \in Seq(Message) : s = cards /\ Len(s) > 0
      BY <1>1
    <3>4. PICK cs : cs = [s EXCEPT ![Len(s)].shows = face]
      OBVIOUS
    <3>5. /\ cs \in Seq(Message) /\ Len(cs) = Len(s) /\ DOMAIN cs = DOMAIN s
          /\ cs[Len(s)].shows = face
          /\ \A j \in DOMAIN s : /\ cs[j].question = s[j].question /\ cs[j].controls = s[j].controls
                                 /\ j # Len(s) => cs[j].shows = s[j].shows
      BY ONLY <3>3, <3>4, face \in {"prompt", "notice", "answer"}, Reshown
    <3>6. QED BY <3>1, <3>2, <3>3, <3>4, <3>5
  <2>3. QED BY <2>1, <2>2 DEF Notice, Edit
<1>8. /\ chatEffort' \in [presses : Nat, progress : Nat, faults : Nat]
      /\ chatEffort'.faults = 0 => chatEffort.faults = 0
  BY <1>1, FaultsGrow DEF Notice, Edit
<1>9. cards[Len(cards)].shows # "answer" /\ cards'[Len(cards)].shows # "answer"
  BY <1>1, <1>7 DEF MessageFits
<1>10. SameAnswers(cards', cards)
  BY <1>7, <1>9, AnswersAreSame
<1>11. ChatShape'
  BY <1>2, <1>5, <1>6, <1>7, <1>8 DEF ChatIInv, ChatShape, Here
<1>12. TurnFits(chat, talk)'
  BY <1>1, <1>2, <1>4, <1>5, <1>6 DEF TurnFits, SameView
<1>13. MessageFits(chat, talk, cards)'
  BY <1>1, <1>5, <1>6, <1>7, <1>9 DEF MessageFits, SameView
<1>14. HandlersFit'
  <2>1. chat.revision <= chat'.revision
    BY <1>1 DEF SameView, Chat
  <2>2. QED BY <1>1, <1>2, <2>1, HandlersKept DEF SameView
<1>15. ContextAsSeen'
  BY <1>1, <1>5, <1>6 DEF ContextAsSeen, Kept
<1>16. ToldIsShown'
  BY <1>1, <1>5, <1>6, <1>8, <1>10, ToldKept
<1>17. ControlsFit(chat, cards)'
  BY <1>1, <1>4, <1>5, <1>6, <1>7, <1>8 DEF ControlsFit, SameView
<1>18. AnswersStep
  BY <1>10 DEF AnswersStep, SameAnswers
<1>19. QED BY <1>11, <1>12, <1>13, <1>14, <1>15, <1>16, <1>17, <1>18 DEF ChatIInv

\* Moves that leave the view alone.
LEMMA StayKeeps ==
    ASSUME ChatIInv, UNCHANGED handlers, unsent' = unsent, memory' = memory, talk.pc \in Working, chat' = chat,
           NEW pc \in Working \union {"ending"}, Goes(pc),
           UNCHANGED <<cards, chatEffort>> \/ Notice
    PROVE  ChatIInv' /\ AnswersStep
<1>1. chat \in Chat /\ SameView(chat)
  BY ChatParts DEF SameView
<1>2. QED BY <1>1, MoveKeeps

\* Permissions are read, the search ends, the model has answered, or an error is shown.
LEMMA WaitsKeep ==
    ASSUME ChatIInv, ReadPermissions \/ EndSearch \/ EndInference \/ ShowError
    PROVE  ChatIInv' /\ AnswersStep
<1>1. UNCHANGED handlers /\ memory' = memory /\ chat' = chat /\ unsent' = unsent
  BY DEF ReadPermissions, EndSearch, EndInference, ShowError
<1>2. talk.pc \in Working
  BY DEF ReadPermissions, EndSearch, EndInference, ShowError, Working
<1>3. UNCHANGED <<cards, chatEffort>> \/ Notice
  BY DEF ReadPermissions, EndSearch, EndInference, ShowError
<1>4. \E pc \in Working \union {"ending"} : Goes(pc)
  <2>1. CASE ReadPermissions
    <3>1. ASSUME InTurn, \E pc \in {"failed", IF talk.web /\ chat.phase = "none" THEN "search" ELSE "ready"} :
                            Goes(pc)
          PROVE  \E pc \in Working \union {"ending"} : Goes(pc)
      BY <3>1 DEF Working
    <3>2. QED BY <2>1, <3>1 DEF ReadPermissions
  <2>2. CASE EndSearch
    BY <2>2 DEF EndSearch, Working
  <2>3. CASE EndInference
    BY <2>3 DEF EndInference, Working
  <2>4. CASE ShowError
    BY <2>4 DEF ShowError
  <2>5. QED BY <2>1, <2>2, <2>3, <2>4
<1>5. PICK pc \in Working \union {"ending"} : Goes(pc)
  BY <1>4
<1>6. QED BY <1>1, <1>2, <1>3, <1>5, StayKeeps

\* The search or the question is begun, unless Cancel was taken.
LEMMA BeginKeeps ==
    ASSUME ChatIInv, BeginSearch \/ AskModel PROVE ChatIInv' /\ AnswersStep
<1>1. \E pc \in {"search", "ready"}, phase \in {"search", "model"}, next \in {"searching", "asking"} :
         Begin(pc, phase, next)
  BY DEF BeginSearch, AskModel
<1>2. PICK pc \in {"search", "ready"}, phase \in {"search", "model"}, next \in {"searching", "asking"} :
         Begin(pc, phase, next)
  BY <1>1
<1>3. UNCHANGED handlers /\ unsent' = unsent /\ memory' = memory /\ talk.pc \in Working /\ next \in Working
  BY <1>2 DEF Begin, Working
<1>4. CASE /\ chat' = chat /\ Goes("ending")
           /\ UNCHANGED <<cards, chatEffort>> \/ Notice
  BY <1>3, <1>4, StayKeeps
<1>5. CASE /\ chat' = [chat EXCEPT !.phase = phase] /\ Goes(next) /\ UNCHANGED <<cards, chatEffort>>
  <2>1. chat \in Chat
    BY ChatParts
  <2>2. PICK c : c = [chat EXCEPT !.phase = phase]
    OBVIOUS
  <2>3. c \in Chat /\ SameView(c)
    BY ONLY <2>1, <2>2, phase \in {"search", "model"} DEF Chat, SameView
  <2>4. QED BY <1>3, <1>5, <2>2, <2>3, MoveKeeps
<1>6. QED BY <1>2, <1>4, <1>5 DEF Begin, SetChat

\* Progress is shown, or Finish sooner taken away: the buttons are drawn again, if the
\* call succeeds.
LEMMA RedrawKeeps ==
    ASSUME ChatIInv, NEW c \in Chat, chat' = c, talk' = talk, memory' = memory,
           chat.current # NoQuestion,
           c.closed = chat.closed, c.current = chat.current, c.cancel = chat.cancel,
           c.timer = chat.timer, c.visible = chat.visible, c.revision = chat.revision + 1,
           chatEffort' \in [presses : Nat, progress : Nat, faults : Nat],
           chatEffort'.faults = 0 => chatEffort.faults = 0,
           cards' \in {cards, Drawn(c)},
           unsent' = unsent, presses' = presses, dialogs' = dialogs, cancels' = cancels, withdrawn' = withdrawn,
           stopped' = stopped, finishing' \subseteq finishing
    PROVE  ChatIInv' /\ AnswersStep
<1>1. /\ chat \in Chat /\ talk \in Talk /\ cards \in Seq(Message) /\ Len(cards) > 0
      /\ Len(cards) \in DOMAIN cards /\ HandlersFit /\ ToldIsShown /\ ContextAsSeen
      /\ presses \subseteq ChatPress /\ dialogs \subseteq Dialog
      /\ TurnFits(chat, talk) /\ MessageFits(chat, talk, cards) /\ ControlsFit(chat, cards)
  BY ChatParts
<1>2. c.revision \in Nat /\ chat.revision \in Nat /\ chat.revision <= c.revision
      /\ chat.revision # c.revision /\ c.current \in Asked
  BY <1>1 DEF Chat
<1>3. PICK b : b = Bound(c)
  OBVIOUS
<1>4. b \in Button /\ b.revision = c.revision
  BY <1>2, <1>3 DEF Bound, Button
<1>5. /\ cards' \in Seq(Message) /\ Len(cards') = Len(cards) /\ DOMAIN cards' = DOMAIN cards
      /\ \A j \in DOMAIN cards : /\ cards'[j].question = cards[j].question
                                 /\ cards'[j].shows = cards[j].shows
                                 /\ j # Len(cards) => cards'[j].controls = cards[j].controls
      /\ cards'[Len(cards)].controls \in {cards[Len(cards)].controls, b}
  <2>1. CASE cards' = cards
    BY <1>1, <2>1
  <2>2. CASE cards' = Drawn(c)
    <3>1. PICK s \in Seq(Message) : s = cards /\ Len(s) > 0
      BY <1>1
    <3>2. PICK cs : cs = [s EXCEPT ![Len(s)].controls = b]
      OBVIOUS
    <3>3. /\ cs \in Seq(Message) /\ Len(cs) = Len(s) /\ DOMAIN cs = DOMAIN s
          /\ cs[Len(s)].controls = b
          /\ \A j \in DOMAIN s : /\ cs[j].question = s[j].question /\ cs[j].shows = s[j].shows
                                 /\ j # Len(s) => cs[j].controls = s[j].controls
      BY ONLY <1>4, <3>1, <3>2, Recontrolled
    <3>4. cards' = cs
      BY <1>3, <2>2, <3>1, <3>2 DEF Drawn, Here
    <3>5. QED BY <3>1, <3>3, <3>4
  <2>3. QED BY <2>1, <2>2
<1>6. SameAnswers(cards', cards)
  BY <1>5, AnswersAreSame
<1>7. talk.pc # "over"
  BY <1>1 DEF TurnFits
<1>8. ChatShape'
  BY <1>5 DEF ChatIInv, ChatShape, Here
<1>9. TurnFits(chat, talk)'
  BY <1>1 DEF TurnFits
<1>10. MessageFits(chat, talk, cards)'
  BY <1>1, <1>5 DEF MessageFits
<1>11. HandlersFit'
  BY <1>1, <1>2, HandlersKept
<1>12. ContextAsSeen'
  BY <1>1 DEF ContextAsSeen, Kept
<1>13. ToldIsShown'
  BY <1>1, <1>6, ToldKept
<1>14. ControlsFit(chat, cards)'
  <2>1. \A j \in DOMAIN cards' : cards'[j].controls.revision <= c.revision
    <3>1. SUFFICES ASSUME NEW j \in DOMAIN cards PROVE cards'[j].controls.revision <= c.revision
      BY <1>5
    <3>2. cards[j].controls.revision \in Nat /\ cards[j].controls.revision <= chat.revision
      <4>1. cards[j] \in Message
        BY <1>1, LenProperties, ElementOfSeq
      <4>2. QED BY <1>1, <4>1 DEF Message, Button, ControlsFit
    <3>3. cards'[j].controls \in {cards[j].controls, b}
      BY <1>5
    <3>4. CASE cards'[j].controls = cards[j].controls
      BY <1>2, <3>2, <3>4
    <3>5. CASE cards'[j].controls = b
      BY <1>2, <1>4, <3>5
    <3>6. QED BY <3>3, <3>4, <3>5
  <2>2. QED BY <1>1, <1>5, <1>7, <2>1 DEF ControlsFit
<1>15. AnswersStep
  BY <1>6 DEF AnswersStep, SameAnswers
<1>16. QED BY <1>8, <1>9, <1>10, <1>11, <1>12, <1>13, <1>14, <1>15 DEF ChatIInv

\* progress()
LEMMA ProgressKeeps ==
    ASSUME ChatIInv, ShowProgress PROVE ChatIInv' /\ AnswersStep
<1>1. /\ chat \in Chat /\ talk \in Talk /\ finishing \subseteq Questions
      /\ chatEffort \in [presses : Nat, progress : Nat, faults : Nat] /\ TurnFits(chat, talk)
  BY ChatParts
<1>2. /\ UNCHANGED handlers /\ unsent' = unsent /\ memory' = memory /\ talk.pc \in Working /\ talk.pc = "asking"
  BY DEF ShowProgress, Working
<1>3. CASE Goes("failed") /\ UNCHANGED <<chat, cards, chatEffort>>
  <2>1. "failed" \in Working \union {"ending"}
    BY DEF Working
  <2>2. QED BY <1>2, <1>3, <2>1, StayKeeps
<1>4. CASE InTurn /\ talk' = talk /\ \E phase \in {"queued", "model"} :
              LET c == Rebuilt([chat EXCEPT !.phase = phase])
                  spent == [chatEffort EXCEPT !.progress = @ + 1]
              IN /\ SetChat(c)
                 /\ \/ cards' = Drawn(c) /\ chatEffort' = spent
                    \/ /\ UNCHANGED cards
                       /\ chatEffort' = [spent EXCEPT !.faults = @ + 1]
  <2>1. PICK phase \in {"queued", "model"} :
              LET c == Rebuilt([chat EXCEPT !.phase = phase])
                  spent == [chatEffort EXCEPT !.progress = @ + 1]
              IN /\ SetChat(c)
                 /\ \/ cards' = Drawn(c) /\ chatEffort' = spent
                    \/ /\ UNCHANGED cards
                       /\ chatEffort' = [spent EXCEPT !.faults = @ + 1]
    BY <1>4
  <2>2. PICK d : d = [chat EXCEPT !.phase = phase]
    OBVIOUS
  <2>3. d \in Chat /\ SameView(d)
    BY ONLY <1>1, <2>2, phase \in {"queued", "model"} DEF Chat, SameView
  <2>4. PICK n \in Nat : n = d.revision + 1
    BY <2>3 DEF Chat
  <2>5. PICK c : c = [d EXCEPT !.revision = n]
    OBVIOUS
  <2>6. /\ c \in Chat /\ c.closed = d.closed /\ c.current = d.current /\ c.cancel = d.cancel
        /\ c.timer = d.timer /\ c.visible = d.visible /\ c.revision = n
    BY ONLY <2>3, <2>4, <2>5 DEF Chat
  <2>7. c = Rebuilt([chat EXCEPT !.phase = phase])
    BY <2>2, <2>4, <2>5 DEF Rebuilt
  <2>8. chat' = c /\ cards' \in {cards, Drawn(c)}
    BY <2>1, <2>7 DEF SetChat
  <2>9. PICK m \in Nat, f \in Nat : m = chatEffort.progress + 1 /\ f = chatEffort.faults + 1
    BY <1>1
  <2>10. \/ chatEffort' = [chatEffort EXCEPT !.progress = m]
         \/ chatEffort' = [[chatEffort EXCEPT !.progress = m] EXCEPT !.faults = f]
    <3>1. CASE chatEffort' = [chatEffort EXCEPT !.progress = @ + 1]
      BY <2>9, <3>1
    <3>2. CASE chatEffort' = [[chatEffort EXCEPT !.progress = @ + 1] EXCEPT !.faults = @ + 1]
      <4>1. PICK e : e = [chatEffort EXCEPT !.progress = m]
        OBVIOUS
      <4>2. e.faults = chatEffort.faults
        BY ONLY <1>1, <4>1
      <4>3. e = [chatEffort EXCEPT !.progress = @ + 1]
        BY <2>9, <4>1
      <4>4. QED BY <2>9, <3>2, <4>1, <4>2, <4>3
    <3>3. QED BY <2>1, <3>1, <3>2
  <2>11. /\ chatEffort' \in [presses : Nat, progress : Nat, faults : Nat]
         /\ chatEffort'.faults = 0 => chatEffort.faults = 0
    <3>1. chatEffort.faults \in Nat /\ f # 0
      BY <1>1, <2>9
    <3>2. CASE chatEffort' = [chatEffort EXCEPT !.progress = m]
      BY ONLY <1>1, <2>9, <3>1, <3>2
    <3>3. CASE chatEffort' = [[chatEffort EXCEPT !.progress = m] EXCEPT !.faults = f]
      BY ONLY <1>1, <2>9, <3>1, <3>3
    <3>4. QED BY <2>10, <3>2, <3>3
  <2>12. chat.current # NoQuestion
    <3>1. chat.current = talk.q /\ talk.q \in Questions
      BY <1>1, <1>4 DEF InTurn, Current, Talk
    <3>2. QED BY <3>1, QuestionsAre, ConversationAssumption
  <2>13. QED BY <1>2, <1>4, <2>3, <2>4, <2>6, <2>8, <2>11, <2>12, RedrawKeeps DEF SameView, handlers
<1>5. QED BY <1>3, <1>4 DEF ShowProgress

\* A callback that leaves coroutine and messages alone.
LEMMA CallbackKeeps ==
    ASSUME ChatIInv, talk' = talk, cards' = cards, unsent' = unsent, memory' \in {memory, <<>>},
           NEW c \in Chat, chat' = c, c.closed = chat.closed, c.current = chat.current,
           c.timer = chat.timer, c.visible = chat.visible, c.revision = chat.revision,
           chatEffort' \in [presses : Nat, progress : Nat, faults : Nat],
           chatEffort'.faults = 0 => chatEffort.faults = 0,
           presses' \subseteq ChatPress, dialogs' \subseteq Dialog, HandlersFit',
           cancels' \subseteq [q : withdrawn', search : BOOLEAN], finishing' \subseteq Questions,
           withdrawn' \subseteq Questions, \A q \in withdrawn' : q <= talk.q,
           stopped' \subseteq withdrawn', c.current \in withdrawn' => c.cancel = c.current
    PROVE  ChatIInv' /\ AnswersStep
<1>1. /\ chat \in Chat /\ talk \in Talk /\ memory \in Seq(Questions) /\ cards \in Seq(Message)
      /\ HandlersFit /\ ToldIsShown /\ ContextAsSeen
      /\ TurnFits(chat, talk) /\ MessageFits(chat, talk, cards) /\ ControlsFit(chat, cards)
      /\ Len(memory) <= KeptTurns + 1
  BY ChatParts
<1>2. memory' \in Seq(Questions) /\ Len(memory') <= KeptTurns + 1
  <2>1. CASE memory' = memory
    BY <1>1, <2>1
  <2>2. CASE memory' = <<>>
    <3>1. Len(<<>>) = 0 /\ <<>> \in Seq(Questions) /\ KeptTurns \in Nat
      BY QuestionsAre, ConversationAssumption
    <3>2. QED BY <2>2, <3>1
  <2>3. QED BY <2>1, <2>2
<1>3. ChatShape'
  BY <1>2 DEF ChatIInv, ChatShape, Here
<1>4. TurnFits(chat, talk)'
  BY <1>1 DEF TurnFits
<1>5. MessageFits(chat, talk, cards)'
  BY <1>1 DEF MessageFits
<1>6. ContextAsSeen'
  BY <1>1 DEF ContextAsSeen, Kept
<1>7. SameAnswers(cards', cards)
  BY DEF SameAnswers
<1>8. ToldIsShown'
  BY <1>1, <1>7, ToldKept
<1>9. ControlsFit(chat, cards)'
  BY <1>1 DEF ControlsFit, Bound
<1>10. AnswersStep
  BY <1>7 DEF AnswersStep, SameAnswers
<1>11. QED BY <1>3, <1>4, <1>5, <1>6, <1>8, <1>9, <1>10 DEF ChatIInv

\* A button is pressed.
LEMMA PressChatKeeps ==
    ASSUME ChatIInv, PressChat PROVE ChatIInv' /\ AnswersStep
<1>1. /\ chat \in Chat /\ memory \in Seq(Questions) /\ cards \in Seq(Message)
      /\ HandlersFit /\ ControlsFit(chat, cards) /\ TurnFits(chat, talk)
      /\ presses \subseteq ChatPress /\ dialogs \subseteq Dialog
      /\ chatEffort \in [presses : Nat, progress : Nat, faults : Nat]
      /\ cancels \subseteq [q : withdrawn, search : BOOLEAN] /\ finishing \subseteq Questions
      /\ withdrawn \subseteq Questions /\ (\A q \in withdrawn : q <= talk.q)
      /\ stopped \subseteq withdrawn
  BY ChatParts
<1>2. /\ chat' = chat /\ memory' = memory /\ talk' = talk /\ cards' = cards /\ dialogs' = dialogs
      /\ cancels' = cancels /\ finishing' = finishing /\ withdrawn' = withdrawn /\ stopped' = stopped
      /\ unsent' = unsent /\ chatEffort' = [chatEffort EXCEPT !.presses = @ + 1]
  BY DEF PressChat
<1>3. PICK i \in DOMAIN cards :
         LET b == cards[i].controls IN
         \E kind \in (IF b.q = NoQuestion THEN {"follow", "fresh"} ELSE {"cancel", "finish"}) :
              presses' = presses \union {[kind |-> kind, q |-> b.q, revision |-> b.revision,
                                          seen |-> memory]}
  BY DEF PressChat
<1>4. PICK b : b = cards[i].controls
  OBVIOUS
<1>5. PICK kind \in {"follow", "fresh", "cancel", "finish"} :
         /\ kind \in {"cancel", "finish"} <=> b.q # NoQuestion
         /\ presses' = presses \union {[kind |-> kind, q |-> b.q, revision |-> b.revision,
                                        seen |-> memory]}
  <2>1. CASE b.q = NoQuestion
    BY <1>3, <1>4, <2>1
  <2>2. CASE b.q # NoQuestion
    BY <1>3, <1>4, <2>2
  <2>3. QED BY <2>1, <2>2
<1>6. b \in Button /\ b.revision <= chat.revision
  <2>1. cards[i] \in Message
    BY <1>1, LenProperties, ElementOfSeq
  <2>2. QED BY <1>1, <1>4, <2>1 DEF Message, ControlsFit
<1>7. PICK p : p = [kind |-> kind, q |-> b.q, revision |-> b.revision, seen |-> memory]
  OBVIOUS
<1>8. /\ p \in ChatPress /\ p.kind = kind /\ p.q = b.q /\ p.revision = b.revision
      /\ p.seen = memory
  BY ONLY <1>1, <1>6, <1>7, kind \in {"follow", "fresh", "cancel", "finish"} DEF ChatPress, Button
<1>9. ButtonFits(chat, p)'
  BY <1>2, <1>5, <1>6, <1>8 DEF ButtonFits
<1>10. /\ \A x \in presses : ButtonFits(chat, x)'
       /\ \A d \in dialogs : DialogFits(chat, d)'
  <2>1. chat.revision <= chat'.revision
    BY <1>1, <1>2 DEF Chat
  <2>2. QED BY <1>1, <1>2, <2>1, HandlersStillFit
<1>11. presses' = presses \union {p}
  BY <1>5, <1>7
<1>12. HandlersFit'
  <2>1. /\ \A x \in presses' : ButtonFits(chat, x)'
        /\ \A d \in dialogs' : DialogFits(chat, d)'
    BY <1>2, <1>9, <1>10, <1>11
  <2>2. QED BY <2>1 DEF HandlersFit
<1>13. /\ chatEffort' \in [presses : Nat, progress : Nat, faults : Nat]
       /\ chatEffort'.faults = 0 => chatEffort.faults = 0
  BY ONLY <1>1, <1>2
<1>14. presses' \subseteq ChatPress
  BY <1>1, <1>8, <1>11
<1>15. chat.current \in withdrawn => chat.cancel = chat.current
  BY <1>1 DEF TurnFits
<1>16. QED BY <1>1, <1>2, <1>12, <1>13, <1>14, <1>15, CallbackKeeps

\* Ask a follow-up, or New topic.
LEMMA OpenDialogKeeps ==
    ASSUME ChatIInv, NEW p \in presses, NEW kind \in {"follow", "fresh"}, OpenDialog(p, kind)
    PROVE  ChatIInv' /\ AnswersStep
<1>1. /\ chat \in Chat /\ memory \in Seq(Questions) /\ HandlersFit /\ TurnFits(chat, talk)
      /\ presses \subseteq ChatPress /\ dialogs \subseteq Dialog
      /\ chatEffort \in [presses : Nat, progress : Nat, faults : Nat]
      /\ cancels \subseteq [q : withdrawn, search : BOOLEAN] /\ finishing \subseteq Questions
      /\ withdrawn \subseteq Questions /\ (\A q \in withdrawn : q <= talk.q)
      /\ stopped \subseteq withdrawn
  BY ChatParts
<1>2. /\ chat' = chat /\ talk' = talk /\ cards' = cards /\ cancels' = cancels
      /\ finishing' = finishing /\ withdrawn' = withdrawn /\ stopped' = stopped
      /\ presses' \subseteq presses /\ p.kind = kind /\ unsent' = unsent
  BY DEF OpenDialog, Taken
<1>3. ChatFault \/ NoChatFault
  BY DEF OpenDialog, NoChatFault
<1>4. /\ chatEffort' \in [presses : Nat, progress : Nat, faults : Nat]
      /\ chatEffort'.faults = 0 => chatEffort.faults = 0
  BY <1>1, <1>3, FaultsGrow
<1>5. chat.revision <= chat'.revision
  BY <1>1, <1>2 DEF Chat
<1>6. chat.current \in withdrawn => chat.cancel = chat.current
  BY <1>1 DEF TurnFits
<1>7. CASE ~Valid(p)
  <2>1. memory' = memory /\ dialogs' = dialogs
    BY <1>7 DEF OpenDialog
  <2>2. HandlersFit'
    BY <1>1, <1>2, <1>5, <2>1, HandlersKept
  <2>3. QED BY <1>1, <1>2, <1>4, <1>6, <2>1, <2>2, CallbackKeeps
<1>8. CASE Valid(p)
  <2>1. p \in ChatPress /\ ButtonFits(chat, p)
    BY <1>1 DEF HandlersFit
  <2>2. /\ p.q = NoQuestion /\ p.seen \in Seq(Questions) /\ p.revision \in Nat
        /\ chat.current = NoQuestion /\ ~chat.closed /\ p.revision = chat.revision
    BY <1>2, <1>8, <2>1 DEF ButtonFits, Valid, Current, ChatPress
  <2>3. memory \in {<<>>, p.seen}
    BY <2>1, <2>2 DEF ButtonFits
  <2>4. /\ memory' \in {memory, <<>>} /\ memory' \in {<<>>, p.seen}
        /\ kind = "fresh" => memory' = <<>>
    BY <1>8, <2>3 DEF OpenDialog
  <2>5. PICK fresh \in BOOLEAN : fresh = (kind = "fresh")
    OBVIOUS
  <2>6. PICK d : d = [revision |-> p.revision, fresh |-> fresh, seen |-> p.seen]
    OBVIOUS
  <2>7. d \in Dialog /\ d.revision = p.revision /\ d.fresh = fresh /\ d.seen = p.seen
    BY ONLY <2>2, <2>5, <2>6 DEF Dialog
  <2>8. dialogs' \subseteq dialogs \union {d}
    BY <1>8, <2>5, <2>6 DEF OpenDialog
  <2>9. DialogFits(chat, d)'
    <3>1. d.revision <= chat'.revision
      BY <1>1, <1>2, <2>2, <2>7 DEF Chat
    <3>2. memory' \in {<<>>, d.seen} /\ (d.fresh => memory' = <<>>)
      BY <2>4, <2>5, <2>7
    <3>3. QED BY <3>1, <3>2 DEF DialogFits
  <2>10. /\ \A x \in presses : ButtonFits(chat, x)'
         /\ \A x \in dialogs : DialogFits(chat, x)'
    BY <1>1, <1>2, <1>5, <2>2, <2>4, HandlersStillFit
  <2>11. HandlersFit'
    <3>1. /\ \A x \in presses' : ButtonFits(chat, x)'
          /\ \A x \in dialogs' : DialogFits(chat, x)'
      BY <1>2, <2>8, <2>9, <2>10
    <3>2. QED BY <3>1 DEF HandlersFit
  <2>12. presses' \subseteq ChatPress /\ dialogs' \subseteq Dialog
    BY <1>1, <1>2, <2>7, <2>8
  <2>13. QED BY <1>1, <1>2, <1>4, <1>6, <2>4, <2>11, <2>12, CallbackKeeps
<1>9. QED BY <1>7, <1>8

\* Cancel is taken.
LEMMA TakeCancelKeeps ==
    ASSUME ChatIInv, NEW p \in presses, TakeCancel(p) PROVE ChatIInv' /\ AnswersStep
<1>1. /\ chat \in Chat /\ talk \in Talk /\ HandlersFit /\ TurnFits(chat, talk)
      /\ presses \subseteq ChatPress /\ dialogs \subseteq Dialog
      /\ chatEffort \in [presses : Nat, progress : Nat, faults : Nat]
      /\ cancels \subseteq [q : withdrawn, search : BOOLEAN] /\ finishing \subseteq Questions
      /\ withdrawn \subseteq Questions /\ (\A q \in withdrawn : q <= talk.q)
      /\ stopped \subseteq withdrawn
  BY ChatParts
<1>2. /\ memory' = memory /\ talk' = talk /\ cards' = cards /\ dialogs' = dialogs
      /\ finishing' = finishing /\ stopped' = stopped /\ chatEffort' = chatEffort
      /\ unsent' = unsent /\ presses' \subseteq presses /\ p.kind = "cancel"
  BY DEF TakeCancel, Taken
<1>3. CASE ~Valid(p)
  <2>1. chat' = chat /\ withdrawn' = withdrawn /\ cancels' = cancels
    BY <1>3 DEF TakeCancel
  <2>2. chat.revision <= chat'.revision
    BY <1>1, <2>1 DEF Chat
  <2>3. HandlersFit'
    BY <1>1, <1>2, <2>1, <2>2, HandlersKept
  <2>4. chat.current \in withdrawn => chat.cancel = chat.current
    BY <1>1 DEF TurnFits
  <2>5. QED BY <1>1, <1>2, <2>1, <2>3, <2>4, CallbackKeeps
<1>4. CASE Valid(p)
  <2>1. p \in ChatPress /\ ButtonFits(chat, p)
    BY <1>1 DEF HandlersFit
  <2>2. p.q # NoQuestion /\ p.q \in Questions /\ chat.current = p.q /\ ~chat.closed
    BY <1>2, <1>4, <2>1 DEF ButtonFits, Valid, Current, ChatPress, Asked
  <2>3. p.q = talk.q /\ talk.q \in Nat
    BY <1>1, <2>2, QuestionsAre, ConversationAssumption DEF TurnFits, Talk
  <2>4. PICK c : c = [chat EXCEPT !.cancel = p.q]
    OBVIOUS
  <2>5. /\ c \in Chat /\ c.closed = chat.closed /\ c.current = chat.current /\ c.timer = chat.timer
        /\ c.visible = chat.visible /\ c.revision = chat.revision /\ c.cancel = p.q
    BY ONLY <1>1, <2>2, <2>4 DEF Chat, Asked
  <2>6. PICK search \in BOOLEAN : search = (talk.pc = "searching")
    OBVIOUS
  <2>7. /\ chat' = c /\ withdrawn' = withdrawn \union {p.q}
        /\ cancels' = cancels \union {[q |-> p.q, search |-> search]}
    BY <1>4, <2>4, <2>6 DEF TakeCancel, SetChat
  <2>8. /\ withdrawn' \subseteq Questions /\ (\A q \in withdrawn' : q <= talk.q)
        /\ stopped' \subseteq withdrawn' /\ cancels' \subseteq [q : withdrawn', search : BOOLEAN]
    <3>1. cancels' \subseteq [q : withdrawn', search : BOOLEAN]
      <4>1. p.q \in withdrawn' /\ withdrawn \subseteq withdrawn'
        BY <2>7
      <4>2. [q |-> p.q, search |-> search] \in [q : withdrawn', search : BOOLEAN]
        BY ONLY <4>1, <2>6
      <4>3. cancels \subseteq [q : withdrawn', search : BOOLEAN]
        BY <1>1, <4>1
      <4>4. QED BY <2>7, <4>2, <4>3
    <3>2. QED BY <1>1, <1>2, <2>2, <2>3, <2>7, <3>1
  <2>9. chat.revision <= chat'.revision
    BY <1>1, <2>5, <2>7 DEF Chat
  <2>10. HandlersFit'
    BY <1>1, <1>2, <2>5, <2>7, <2>9, HandlersKept
  <2>11. presses' \subseteq ChatPress
    BY <1>1, <1>2
  <2>12. QED BY <1>1, <1>2, <2>2, <2>5, <2>7, <2>8, <2>10, <2>11, CallbackKeeps
<1>5. QED BY <1>3, <1>4

\* Cancel is carried out, or Finish sooner taken, or it comes to nothing.
LEMMA CarryKeeps ==
    ASSUME ChatIInv, \/ \E x \in cancels : CarryCancel(x)
                     \/ \E p \in presses : TakeFinish(p)
                     \/ \E q \in finishing : CarryFinish(q) /\ UNCHANGED <<chat, cards>>
    PROVE  ChatIInv' /\ AnswersStep
<1>1. /\ chat \in Chat /\ talk \in Talk /\ HandlersFit /\ TurnFits(chat, talk)
      /\ presses \subseteq ChatPress /\ dialogs \subseteq Dialog
      /\ chatEffort \in [presses : Nat, progress : Nat, faults : Nat]
      /\ cancels \subseteq [q : withdrawn, search : BOOLEAN] /\ finishing \subseteq Questions
      /\ withdrawn \subseteq Questions /\ (\A q \in withdrawn : q <= talk.q)
      /\ stopped \subseteq withdrawn
  BY ChatParts
<1>2. /\ chat' = chat /\ memory' = memory /\ talk' = talk /\ cards' = cards /\ dialogs' = dialogs
      /\ presses' \subseteq presses /\ withdrawn' = withdrawn /\ unsent' = unsent
  BY DEF CarryCancel, TakeFinish, CarryFinish, Taken
<1>3. ChatFault \/ NoChatFault
  BY DEF CarryCancel, TakeFinish, CarryFinish, NoChatFault, Edit
<1>4. /\ chatEffort' \in [presses : Nat, progress : Nat, faults : Nat]
      /\ chatEffort'.faults = 0 => chatEffort.faults = 0
  BY <1>1, <1>3, FaultsGrow
<1>5. finishing' \subseteq Questions
  <2>1. ASSUME NEW p \in presses, TakeFinish(p) PROVE finishing' \subseteq Questions
    <3>1. CASE finishing' = finishing
      BY <1>1, <3>1
    <3>2. CASE Valid(p) /\ finishing' = finishing \union {p.q}
      <4>1. p \in ChatPress /\ ButtonFits(chat, p) /\ p.kind = "finish"
        BY <1>1, <2>1 DEF HandlersFit, TakeFinish, Taken
      <4>2. p.q \in Questions
        BY <4>1 DEF ButtonFits, ChatPress, Asked
      <4>3. QED BY <1>1, <3>2, <4>2
    <3>3. QED BY <2>1, <3>1, <3>2 DEF TakeFinish
  <2>2. QED BY <1>1, <2>1 DEF CarryCancel, CarryFinish
<1>6. cancels' \subseteq cancels /\ stopped' \subseteq withdrawn
  <2>1. ASSUME NEW x \in cancels, CarryCancel(x) PROVE cancels' \subseteq cancels /\ stopped' \subseteq withdrawn
    BY <1>1, <2>1 DEF CarryCancel, StopOwn
  <2>2. QED BY <1>1, <2>1 DEF TakeFinish, CarryFinish
<1>7. chat.revision <= chat'.revision
  BY <1>1, <1>2 DEF Chat
<1>8. HandlersFit'
  BY <1>1, <1>2, <1>7, HandlersKept
<1>9. chat.current \in withdrawn => chat.cancel = chat.current
  BY <1>1 DEF TurnFits
<1>10. presses' \subseteq ChatPress /\ cancels' \subseteq [q : withdrawn', search : BOOLEAN]
  BY <1>1, <1>2, <1>6
<1>11. QED BY <1>1, <1>2, <1>4, <1>5, <1>6, <1>8, <1>9, <1>10, CallbackKeeps

\* Finish sooner is carried out, and its button taken away.
LEMMA FinishKeeps ==
    ASSUME ChatIInv, NEW q \in finishing, CarryFinish(q) PROVE ChatIInv' /\ AnswersStep
<1>1. /\ chat \in Chat /\ finishing \subseteq Questions /\ q \in Questions
      /\ chatEffort \in [presses : Nat, progress : Nat, faults : Nat]
  BY ChatParts
<1>2. CASE UNCHANGED <<chat, cards>>
  BY <1>2, CarryKeeps
<1>3. CASE Current(q) /\ SetChat(Rebuilt([chat EXCEPT !.finish = q]))
           /\ Edit(Drawn(Rebuilt([chat EXCEPT !.finish = q])))
  <2>1. PICK d : d = [chat EXCEPT !.finish = q]
    OBVIOUS
  <2>2. /\ d \in Chat /\ SameView(d)
    BY ONLY <1>1, <2>1 DEF Chat, SameView, Asked
  <2>3. PICK n \in Nat : n = d.revision + 1
    BY <2>2 DEF Chat
  <2>4. PICK c : c = [d EXCEPT !.revision = n]
    OBVIOUS
  <2>5. /\ c \in Chat /\ c.closed = d.closed /\ c.current = d.current /\ c.cancel = d.cancel
        /\ c.timer = d.timer /\ c.visible = d.visible /\ c.revision = n
    BY ONLY <2>2, <2>3, <2>4 DEF Chat
  <2>6. c = Rebuilt([chat EXCEPT !.finish = q])
    BY <2>1, <2>3, <2>4 DEF Rebuilt
  <2>7. chat' = c /\ cards' \in {cards, Drawn(c)} /\ (ChatFault \/ NoChatFault)
    BY <1>3, <2>6 DEF SetChat, Edit
  <2>8. /\ chatEffort' \in [presses : Nat, progress : Nat, faults : Nat]
        /\ chatEffort'.faults = 0 => chatEffort.faults = 0
    BY <1>1, <2>7, FaultsGrow
  <2>9. chat.current # NoQuestion
    BY <1>1, <1>3, QuestionsAre, ConversationAssumption DEF Current
  <2>10. /\ memory' = memory /\ talk' = talk /\ presses' = presses /\ dialogs' = dialogs
         /\ cancels' = cancels /\ withdrawn' = withdrawn /\ stopped' = stopped
         /\ finishing' \subseteq finishing /\ unsent' = unsent
    BY DEF CarryFinish
  <2>11. QED BY <2>2, <2>3, <2>5, <2>7, <2>8, <2>9, <2>10, RedrawKeeps DEF SameView
<1>4. QED BY <1>2, <1>3 DEF CarryFinish

\* The answer is shown and joins the history.
LEMMA AnswerKeeps ==
    ASSUME ChatIInv, InTurn, ~Withheld, talk.pc = "answered", Goes("ending"), chat' = chat,
           UNCHANGED handlers, memory' = Append(talk.context, talk.q),
           EditOwn("answer", [cards EXCEPT ![Here].shows = "answer"])
    PROVE  ChatIInv' /\ AnswersStep
<1>1. /\ chat \in Chat /\ talk \in Talk /\ cards \in Seq(Message) /\ Len(cards) > 0
      /\ chatEffort \in [presses : Nat, progress : Nat, faults : Nat]
      /\ unsent \subseteq {"answer", "buttons"} \X Questions
      /\ Len(cards) \in DOMAIN cards /\ HandlersFit /\ ToldIsShown /\ ContextAsSeen
      /\ presses \subseteq ChatPress /\ dialogs \subseteq Dialog /\ Len(talk.context) <= KeptTurns
      /\ TurnFits(chat, talk) /\ MessageFits(chat, talk, cards) /\ ControlsFit(chat, cards)
  BY ChatParts
<1>2. /\ presses' = presses /\ dialogs' = dialogs /\ cancels' = cancels
      /\ finishing' = finishing /\ withdrawn' = withdrawn /\ stopped' = stopped
  BY DEF handlers
<1>3. /\ talk.pc \in Working /\ chat.visible /\ cards[Len(cards)].question = talk.q
      /\ cards[Len(cards)].shows # "answer" /\ KeptTurns \in Nat
  BY <1>1, QuestionsAre, ConversationAssumption DEF MessageFits, Working
<1>4. PICK t : t = [talk EXCEPT !.pc = "ending"]
  OBVIOUS
<1>5. /\ t \in Talk /\ t.q = talk.q /\ t.context = talk.context /\ t.seen = talk.seen
      /\ t.fresh = talk.fresh /\ t.pc = "ending" /\ talk' = t
  BY <1>1, <1>4 DEF Talk, Goes
<1>6. /\ talk.q \in Questions /\ talk.context \in Seq(Questions) /\ chat.current = talk.q
      /\ ~chat.closed /\ chat.current # NoQuestion
  BY <1>1, QuestionsAre, ConversationAssumption DEF Talk, InTurn, Current
<1>7. /\ memory' \in Seq(Questions) /\ Len(memory') <= KeptTurns + 1
      /\ \A i \in DOMAIN memory' : memory'[i] = talk.q
            \/ \E k \in DOMAIN talk.context : memory'[i] = talk.context[k]
  <2>1. PICK s \in Seq(Questions) : s = talk.context
    BY <1>6
  <2>2. PICK m : m = Append(s, talk.q)
    OBVIOUS
  <2>3. /\ m \in Seq(Questions) /\ Len(m) = Len(s) + 1 /\ Len(s) \in Nat
        /\ DOMAIN s = 1..Len(s) /\ DOMAIN m = 1..(Len(s) + 1)
        /\ m[Len(s) + 1] = talk.q /\ \A j \in DOMAIN s : m[j] = s[j]
    BY <1>6, <2>1, <2>2, AppendProperties, LenProperties
  <2>4. \A i \in DOMAIN m : i = Len(s) + 1 \/ i \in DOMAIN s
    BY <2>3
  <2>5. QED BY <1>1, <1>3, <2>1, <2>2, <2>3, <2>4
<1>8. /\ cards' \in Seq(Message) /\ Len(cards') = Len(cards) /\ DOMAIN cards' = DOMAIN cards
      /\ \A j \in DOMAIN cards : /\ cards'[j].question = cards[j].question
                                 /\ cards'[j].controls = cards[j].controls
                                 /\ j # Len(cards) => cards'[j].shows = cards[j].shows
      /\ cards' = cards \/ cards'[Len(cards)].shows = "answer"
      /\ ChatFault \/ NoChatFault
      /\ cards'[Len(cards)].shows = "answer" \/ <<"answer", talk.q>> \in unsent'
      /\ unsent \subseteq unsent' /\ unsent' \subseteq {"answer", "buttons"} \X Questions
  <2>1. PICK s \in Seq(Message) : s = cards /\ Len(s) > 0
    BY <1>1
  <2>2. PICK face \in {"prompt", "notice", "answer"} : face = "answer"
    OBVIOUS
  <2>3. PICK cs : cs = [s EXCEPT ![Len(s)].shows = face]
    OBVIOUS
  <2>4. /\ cs \in Seq(Message) /\ Len(cs) = Len(s) /\ DOMAIN cs = DOMAIN s
        /\ cs[Len(s)].shows = face
        /\ \A j \in DOMAIN s : /\ cs[j].question = s[j].question /\ cs[j].controls = s[j].controls
                               /\ j # Len(s) => cs[j].shows = s[j].shows
    BY ONLY <2>1, <2>3, face \in {"prompt", "notice", "answer"}, Reshown
  <2>5. CASE cards' = [cards EXCEPT ![Here].shows = "answer"] /\ NoChatFault /\ UNCHANGED unsent
    <3>1. cards' = cs
      BY <2>1, <2>2, <2>3, <2>5 DEF Here
    <3>2. QED BY <1>1, <2>1, <2>2, <2>4, <2>5, <3>1
  <2>6. CASE UNCHANGED cards /\ ChatFault /\ unsent' = unsent \union {<<"answer", talk.q>>}
    <3>1. <<"answer", talk.q>> \in {"answer", "buttons"} \X Questions
      BY <1>6
    <3>2. QED BY <1>1, <2>6, <3>1
  <2>7. QED BY <2>5, <2>6 DEF EditOwn
<1>9. /\ chatEffort' \in [presses : Nat, progress : Nat, faults : Nat]
      /\ chatEffort'.faults = 0 => chatEffort.faults = 0
  BY <1>1, <1>8, FaultsGrow
<1>10. \A q : ShowsAnswer(q, cards) => ShowsAnswer(q, cards')
  <2>1. SUFFICES ASSUME NEW q, NEW j \in DOMAIN cards, cards[j].question = q,
                        cards[j].shows = "answer"
                 PROVE  cards'[j].question = q /\ cards'[j].shows = "answer"
    BY <1>8 DEF ShowsAnswer
  <2>2. j # Len(cards)
    BY <1>3, <2>1
  <2>3. QED BY <1>8, <2>1, <2>2
<1>11. \A q : ShowsAnswer(q, cards') => ShowsAnswer(q, cards) \/ q = talk.q
  <2>1. SUFFICES ASSUME NEW q, NEW j \in DOMAIN cards, cards'[j].question = q,
                        cards'[j].shows = "answer", q # talk.q
                 PROVE  cards[j].question = q /\ cards[j].shows = "answer"
    BY <1>8 DEF ShowsAnswer
  <2>2. j # Len(cards)
    BY <1>3, <1>8, <2>1
  <2>3. QED BY <1>8, <2>1, <2>2
<1>12. talk.q \notin withdrawn
  BY <1>1, <1>6 DEF TurnFits, Withheld
<1>13. AnswersStep
  BY <1>10, <1>11, <1>12 DEF AnswersStep
<1>14. ChatShape'
  BY <1>2, <1>5, <1>7, <1>8, <1>9 DEF ChatIInv, ChatShape, Here
<1>15. TurnFits(chat, talk)'
  BY <1>1, <1>2, <1>3, <1>5 DEF TurnFits
<1>16. MessageFits(chat, talk, cards)'
  BY <1>3, <1>5 DEF MessageFits, Working
<1>17. HandlersFit'
  <2>1. chat.revision <= chat'.revision
    BY <1>1 DEF Chat
  <2>2. QED BY <1>1, <1>2, <1>6, <2>1, HandlersKept
<1>18. ContextAsSeen'
  BY <1>1, <1>5 DEF ContextAsSeen, Kept
<1>19. ToldIsShown'
  <2>1. \A i \in DOMAIN talk.context : \/ ShowsAnswer(talk.context[i], cards')
                                      \/ <<"answer", talk.context[i]>> \in unsent'
    BY <1>1, <1>8, <1>10 DEF ToldIsShown
  <2>2. ShowsAnswer(talk.q, cards') \/ <<"answer", talk.q>> \in unsent'
    BY <1>1, <1>3, <1>8 DEF ShowsAnswer
  <2>3. QED BY <1>5, <1>7, <2>1, <2>2 DEF ToldIsShown
<1>20. ControlsFit(chat, cards)'
  BY <1>1, <1>3, <1>5, <1>8, <1>9 DEF ControlsFit
<1>21. QED BY <1>13, <1>14, <1>15, <1>16, <1>17, <1>18, <1>19, <1>20 DEF ChatIInv

\* ShowAnswer, whatever became of the question.
LEMMA ShowAnswerKeeps ==
    ASSUME ChatIInv, ShowAnswer PROVE ChatIInv' /\ AnswersStep
<1>1. UNCHANGED handlers /\ chat' = chat /\ talk.pc \in Working /\ talk.pc = "answered"
      /\ Goes("ending")
  BY DEF ShowAnswer, Working
<1>2. CASE memory' = memory /\ unsent' = unsent /\ (UNCHANGED <<cards, chatEffort>> \/ Notice)
  BY <1>1, <1>2, StayKeeps
<1>3. CASE /\ InTurn /\ ~Withheld /\ memory' = Append(talk.context, talk.q)
           /\ EditOwn("answer", [cards EXCEPT ![Here].shows = "answer"])
  BY <1>1, <1>3, AnswerKeeps
<1>4. QED BY <1>2, <1>3 DEF ShowAnswer

\* The view is changed for good: another revision, with the messages' buttons as they are
\* or exchanged.
LEMMA RevisedKeeps ==
    ASSUME ChatIInv, NEW c \in Chat, chat' = c, c.revision = chat.revision + 1,
           c.visible = chat.visible, NEW t \in Talk, talk' = t, t.pc \notin Working,
           Len(t.context) <= KeptTurns, talk.q <= t.q, TurnFits(chat, talk)',
           memory' \in {memory, <<>>}, ContextAsSeen',
           \A i \in DOMAIN t.context : \/ \E k \in DOMAIN talk.context : t.context[i] = talk.context[k]
                                       \/ \E k \in DOMAIN memory : t.context[i] = memory[k],
           chatEffort' \in [presses : Nat, progress : Nat, faults : Nat],
           chatEffort'.faults = 0 => chatEffort.faults = 0,
           NEW b \in Button, b.revision <= c.revision,
           cards' \in {cards, [cards EXCEPT ![Len(cards)].controls = b]},
           unsent \subseteq unsent', unsent' \subseteq {"answer", "buttons"} \X Questions,
           t.pc = "over" /\ ~c.closed =>
              \/ b = Bound(c) /\ cards' = [cards EXCEPT ![Len(cards)].controls = b]
              \/ <<"buttons", t.q>> \in unsent',
           presses' = presses, dialogs' \subseteq dialogs, cancels' = cancels,
           finishing' = finishing, withdrawn' = withdrawn, stopped' = stopped
    PROVE  ChatIInv' /\ AnswersStep
<1>1. /\ chat \in Chat /\ talk \in Talk /\ cards \in Seq(Message) /\ Len(cards) > 0
      /\ Len(cards) \in DOMAIN cards /\ HandlersFit /\ ToldIsShown /\ ContextAsSeen
      /\ presses \subseteq ChatPress /\ dialogs \subseteq Dialog
      /\ memory \in Seq(Questions) /\ Len(memory) <= KeptTurns + 1
      /\ cancels \subseteq [q : withdrawn, search : BOOLEAN] /\ finishing \subseteq Questions
      /\ withdrawn \subseteq Questions /\ (\A q \in withdrawn : q <= talk.q)
      /\ stopped \subseteq withdrawn
      /\ TurnFits(chat, talk) /\ MessageFits(chat, talk, cards) /\ ControlsFit(chat, cards)
  BY ChatParts
<1>2. c.revision \in Nat /\ chat.revision \in Nat /\ chat.revision <= c.revision
      /\ chat.revision # c.revision
  BY <1>1 DEF Chat
<1>3. /\ cards' \in Seq(Message) /\ Len(cards') = Len(cards) /\ DOMAIN cards' = DOMAIN cards
      /\ \A j \in DOMAIN cards : /\ cards'[j].question = cards[j].question
                                 /\ cards'[j].shows = cards[j].shows
                                 /\ j # Len(cards) => cards'[j].controls = cards[j].controls
      /\ cards'[Len(cards)].controls \in {cards[Len(cards)].controls, b}
      /\ cards' = cards \/ cards'[Len(cards)].controls = b
      /\ cards' = [cards EXCEPT ![Len(cards)].controls = b] => cards'[Len(cards)].controls = b
  <2>1. PICK s \in Seq(Message) : s = cards /\ Len(s) > 0
    BY <1>1
  <2>2. PICK cs : cs = [s EXCEPT ![Len(s)].controls = b]
    OBVIOUS
  <2>3. /\ cs \in Seq(Message) /\ Len(cs) = Len(s) /\ DOMAIN cs = DOMAIN s
        /\ cs[Len(s)].controls = b
        /\ \A j \in DOMAIN s : /\ cs[j].question = s[j].question /\ cs[j].shows = s[j].shows
                               /\ j # Len(s) => cs[j].controls = s[j].controls
    BY ONLY b \in Button, <2>1, <2>2, Recontrolled
  <2>4. CASE cards' = cs
    BY <2>1, <2>2, <2>3, <2>4
  <2>5. CASE cards' = cards
    BY <1>1, <2>1, <2>2, <2>3, <2>5
  <2>6. QED BY <2>1, <2>2, <2>4, <2>5
<1>4. SameAnswers(cards', cards)
  BY <1>3, AnswersAreSame
<1>5. memory' \in Seq(Questions) /\ Len(memory') <= KeptTurns + 1
  <2>1. CASE memory' = memory
    BY <1>1, <2>1
  <2>2. CASE memory' = <<>>
    <3>1. Len(<<>>) = 0 /\ <<>> \in Seq(Questions) /\ KeptTurns \in Nat
      BY QuestionsAre, ConversationAssumption
    <3>2. QED BY <2>2, <3>1
  <2>3. QED BY <2>1, <2>2
<1>6. \A q \in withdrawn : q <= t.q
  <2>1. SUFFICES ASSUME NEW q \in withdrawn PROVE q <= t.q
    OBVIOUS
  <2>2. q \in Nat /\ talk.q \in Nat /\ t.q \in Nat /\ q <= talk.q
    BY <1>1, <2>1, QuestionsAre, ConversationAssumption DEF Talk
  <2>3. QED BY <2>2
<1>7. ChatShape'
  BY <1>1, <1>3, <1>5, <1>6 DEF ChatShape, Here
<1>8. MessageFits(chat, talk, cards)'
  BY <1>1, <1>3 DEF MessageFits
<1>9. HandlersFit'
  BY <1>1, <1>2, HandlersKept
<1>10. ToldIsShown'
  <2>1. \A i \in DOMAIN memory' : i \in DOMAIN memory /\ memory'[i] = memory[i]
    <3>1. DOMAIN <<>> = {}
      OBVIOUS
    <3>2. QED BY <3>1
  <2>2. QED BY <1>1, <1>4, <2>1 DEF ToldIsShown, SameAnswers
<1>11. ControlsFit(chat, cards)'
  <2>1. \A j \in DOMAIN cards' : cards'[j].controls.revision <= c.revision
    <3>1. SUFFICES ASSUME NEW j \in DOMAIN cards PROVE cards'[j].controls.revision <= c.revision
      BY <1>3
    <3>2. cards[j].controls.revision \in Nat /\ cards[j].controls.revision <= chat.revision
      <4>1. cards[j] \in Message
        BY <1>1, LenProperties, ElementOfSeq
      <4>2. QED BY <1>1, <4>1 DEF Message, Button, ControlsFit
    <3>3. cards'[j].controls \in {cards[j].controls, b}
      BY <1>3
    <3>4. CASE cards'[j].controls = cards[j].controls
      BY <1>2, <3>2, <3>4
    <3>5. CASE cards'[j].controls = b
      BY <3>5
    <3>6. QED BY <3>3, <3>4, <3>5
  <2>2. ASSUME chatEffort'.faults = 0
        PROVE  \A j \in DOMAIN cards' : j = Len(cards') \/ cards'[j].controls = Unbound
    BY <1>1, <1>3, <2>2 DEF ControlsFit
  <2>3. ASSUME t.pc = "over", ~c.closed
        PROVE  cards'[Len(cards')].controls = Bound(c) \/ <<"buttons", t.q>> \in unsent'
    BY <1>3, <2>3
  <2>4. ASSUME NEW j \in DOMAIN cards', j # Len(cards') PROVE cards'[j].controls.revision < c.revision
    <3>1. j \in DOMAIN cards /\ cards'[j].controls = cards[j].controls
      BY <1>3, <2>4
    <3>2. cards[j].controls.revision \in Nat /\ cards[j].controls.revision <= chat.revision
      <4>1. cards[j] \in Message
        BY <1>1, <3>1, LenProperties, ElementOfSeq
      <4>2. QED BY <1>1, <3>1, <4>1 DEF Message, Button, ControlsFit
    <3>3. QED BY <1>2, <3>1, <3>2
  <2>5. QED BY <2>1, <2>2, <2>3, <2>4 DEF ControlsFit
<1>12. AnswersStep
  BY <1>4 DEF AnswersStep, SameAnswers
<1>13. QED BY <1>7, <1>8, <1>9, <1>10, <1>11, <1>12 DEF ChatIInv

\* The finally of generate().
LEMMA EndTurnKeeps ==
    ASSUME ChatIInv, EndTurn PROVE ChatIInv' /\ AnswersStep
<1>1. /\ chat \in Chat /\ talk \in Talk /\ cards \in Seq(Message) /\ Len(cards) > 0
      /\ Len(cards) \in DOMAIN cards /\ HandlersFit /\ ToldIsShown /\ ContextAsSeen
      /\ presses \subseteq ChatPress /\ dialogs \subseteq Dialog /\ Len(talk.context) <= KeptTurns
      /\ chatEffort \in [presses : Nat, progress : Nat, faults : Nat]
      /\ TurnFits(chat, talk) /\ MessageFits(chat, talk, cards) /\ ControlsFit(chat, cards)
      /\ withdrawn \subseteq Questions /\ unsent \subseteq {"answer", "buttons"} \X Questions
  BY ChatParts
<1>2. /\ memory' = memory /\ presses' = presses /\ dialogs' = dialogs /\ cancels' = cancels
      /\ finishing' = finishing /\ withdrawn' = withdrawn /\ stopped' = stopped
      /\ talk.pc = "ending"
  BY DEF EndTurn, handlers
<1>3. PICK t : t = [talk EXCEPT !.pc = "over"]
  OBVIOUS
<1>4. /\ t \in Talk /\ t.q = talk.q /\ t.context = talk.context /\ t.seen = talk.seen
      /\ t.fresh = talk.fresh /\ t.pc = "over"
  BY ONLY <1>1, <1>3 DEF Talk
<1>5. talk' = t
  BY <1>3 DEF EndTurn, Goes
<1>6. ContextAsSeen'
  BY <1>1, <1>4, <1>5 DEF ContextAsSeen, Kept
<1>7. talk.q \in Questions /\ talk.q # NoQuestion /\ talk.q \in Nat
  BY <1>1, QuestionsAre, ConversationAssumption DEF Talk
<1>8. CASE chat.current # talk.q /\ UNCHANGED <<chat, cards, unsent, chatEffort>>
  <2>1. chat.closed /\ chat.current = NoQuestion
    BY <1>1, <1>2, <1>8 DEF TurnFits
  <2>2. ChatShape'
    BY <1>2, <1>4, <1>5, <1>8 DEF ChatIInv, ChatShape, Here
  <2>3. TurnFits(chat, talk)'
    BY <1>1, <1>2, <1>5, <1>8, <2>1 DEF TurnFits
  <2>4. MessageFits(chat, talk, cards)'
    BY <1>1, <1>4, <1>5, <1>8 DEF MessageFits, Working
  <2>5. HandlersFit'
    <3>1. chat.revision <= chat'.revision
      BY <1>1, <1>8 DEF Chat
    <3>2. QED BY <1>1, <1>2, <1>8, <2>1, <3>1, HandlersKept
  <2>6. SameAnswers(cards', cards)
    BY <1>8 DEF SameAnswers
  <2>7. ToldIsShown'
    BY <1>1, <1>2, <1>4, <1>5, <1>8, <2>6, ToldKept
  <2>8. ControlsFit(chat, cards)'
    BY <1>1, <1>8, <2>1 DEF ControlsFit
  <2>9. AnswersStep
    BY <2>6 DEF AnswersStep, SameAnswers
  <2>10. QED BY <1>6, <2>2, <2>3, <2>4, <2>5, <2>7, <2>8, <2>9 DEF ChatIInv
<1>9. CASE LET c == Rebuilt([chat EXCEPT !.current = NoQuestion, !.cancel = NoQuestion,
                                         !.phase = "none", !.timer = TRUE])
           IN chat.current = talk.q /\ SetChat(c) /\ Redrawn(c)
  <2>1. PICK n \in Nat : n = chat.revision + 1
    BY <1>1 DEF Chat
  <2>2. PICK d : d = [chat EXCEPT !.current = NoQuestion, !.cancel = NoQuestion,
                                  !.phase = "none", !.timer = TRUE]
    OBVIOUS
  <2>3. NoQuestion \in Asked
    BY DEF Asked
  <2>4. /\ d \in Chat /\ d.closed = chat.closed /\ d.current = NoQuestion
        /\ d.visible = chat.visible /\ d.revision = chat.revision
    BY ONLY <1>1, <2>2, <2>3 DEF Chat
  <2>5. PICK c : c = [d EXCEPT !.revision = n]
    OBVIOUS
  <2>6. /\ c \in Chat /\ c.closed = chat.closed /\ c.current = NoQuestion
        /\ c.visible = chat.visible /\ c.revision = n
    BY ONLY <2>1, <2>4, <2>5 DEF Chat
  <2>7. c = Rebuilt([chat EXCEPT !.current = NoQuestion, !.cancel = NoQuestion,
                                 !.phase = "none", !.timer = TRUE])
    BY <2>1, <2>2, <2>4, <2>5 DEF Rebuilt
  <2>8. chat' = c /\ EditOwn("buttons", Drawn(c))
    BY <1>9, <2>7 DEF SetChat, Redrawn
  <2>9. PICK b : b = Bound(c)
    OBVIOUS
  <2>10. b \in Button /\ b.revision = n /\ b.revision <= c.revision
    BY <2>1, <2>3, <2>6, <2>9 DEF Bound, Button
  <2>11. /\ chatEffort' \in [presses : Nat, progress : Nat, faults : Nat]
         /\ chatEffort'.faults = 0 => chatEffort.faults = 0
    BY <1>1, <2>8, FaultsGrow DEF EditOwn
  <2>12. /\ cards' \in {cards, [cards EXCEPT ![Len(cards)].controls = b]}
         /\ \/ cards' = [cards EXCEPT ![Len(cards)].controls = b]
            \/ <<"buttons", t.q>> \in unsent'
         /\ unsent \subseteq unsent' /\ unsent' \subseteq {"answer", "buttons"} \X Questions
    <3>1. CASE cards' = Drawn(c) /\ UNCHANGED unsent
      BY <1>1, <2>9, <3>1 DEF Drawn, Here
    <3>2. CASE UNCHANGED cards /\ unsent' = unsent \union {<<"buttons", talk.q>>}
      <4>1. <<"buttons", talk.q>> \in {"answer", "buttons"} \X Questions
        BY <1>7
      <4>2. QED BY <1>1, <1>4, <3>2, <4>1
    <3>3. QED BY <2>8, <3>1, <3>2 DEF EditOwn
  <2>13. TurnFits(chat, talk)'
    <3>1. ~chat.closed
      BY <1>1, <1>7, <1>9 DEF TurnFits
    <3>2. QED BY <1>1, <1>2, <1>4, <1>5, <2>6, <2>8, <3>1, QuestionsAre, ConversationAssumption
             DEF TurnFits
  <2>14. t.pc \notin Working
    BY <1>4 DEF Working
  <2>15. talk.q <= t.q
    BY <1>4, <1>7
  <2>16. QED BY <1>1, <1>2, <1>4, <1>5, <1>6, <2>1, <2>6, <2>8, <2>9, <2>10, <2>11, <2>12, <2>13,
                <2>14, <2>15, RevisedKeeps
<1>10. QED BY <1>8, <1>9 DEF EndTurn

\* The idle timer closes the view.
LEMMA CloseChatKeeps ==
    ASSUME ChatIInv, CloseChat PROVE ChatIInv' /\ AnswersStep
<1>1. /\ chat \in Chat /\ talk \in Talk /\ cards \in Seq(Message) /\ Len(cards) > 0
      /\ chatEffort \in [presses : Nat, progress : Nat, faults : Nat]
      /\ unsent \subseteq {"answer", "buttons"} \X Questions
      /\ ContextAsSeen /\ Len(talk.context) <= KeptTurns /\ withdrawn \subseteq Questions
      /\ TurnFits(chat, talk)
  BY ChatParts
<1>2. /\ chat.timer /\ memory' = <<>> /\ talk' = talk /\ presses' = presses /\ dialogs' = dialogs
      /\ unsent' = unsent /\ cancels' = cancels /\ finishing' = finishing /\ withdrawn' = withdrawn
      /\ stopped' = stopped \union ({chat.current} \ {NoQuestion})
      /\ Edit([cards EXCEPT ![Here].controls = Unbound])
  BY DEF CloseChat
<1>3. chat.current = NoQuestion /\ ~chat.closed
  BY <1>1, <1>2 DEF TurnFits
<1>4. talk.q \in Questions /\ talk.q # NoQuestion /\ talk.q \in Nat /\ NoQuestion \notin Questions
  BY <1>1, QuestionsAre, ConversationAssumption DEF Talk
<1>5. talk.pc = "over" /\ talk.pc \notin Working
  BY <1>1, <1>3, <1>4 DEF TurnFits, Working
<1>6. stopped' = stopped
  BY <1>2, <1>3
<1>7. PICK d : d = [chat EXCEPT !.closed = TRUE, !.current = NoQuestion, !.cancel = NoQuestion,
                                !.timer = FALSE]
  OBVIOUS
<1>8. NoQuestion \in Asked
  BY DEF Asked
<1>9. /\ d \in Chat /\ d.closed /\ d.current = NoQuestion /\ ~d.timer
      /\ d.visible = chat.visible /\ d.revision = chat.revision
  BY ONLY <1>1, <1>7, <1>8 DEF Chat
<1>10. PICK n \in Nat : n = chat.revision + 1
  BY <1>1 DEF Chat
<1>11. PICK c : c = [d EXCEPT !.revision = n]
  OBVIOUS
<1>12. /\ c \in Chat /\ c.closed /\ c.current = NoQuestion /\ ~c.timer
       /\ c.visible = chat.visible /\ c.revision = n
  BY ONLY <1>9, <1>10, <1>11 DEF Chat
<1>13. chat' = c
  BY <1>7, <1>9, <1>10, <1>11 DEF CloseChat, SetChat, Rebuilt
<1>14. TurnFits(chat, talk)'
  BY <1>2, <1>4, <1>1, <1>12, <1>13 DEF TurnFits
<1>15. ContextAsSeen'
  BY <1>1, <1>2 DEF ContextAsSeen, Kept
<1>16. PICK b : b = Unbound
  OBVIOUS
<1>17. b \in Button /\ b.revision <= c.revision
  BY <1>8, <1>10, <1>12, <1>16 DEF Unbound, Button
<1>18. /\ cards' \in {cards, [cards EXCEPT ![Len(cards)].controls = b]}
       /\ ChatFault \/ NoChatFault
  BY <1>2, <1>16 DEF Edit, Here
<1>19. /\ chatEffort' \in [presses : Nat, progress : Nat, faults : Nat]
       /\ chatEffort'.faults = 0 => chatEffort.faults = 0
  BY <1>1, <1>18, FaultsGrow
<1>20. talk.q <= talk.q
  BY <1>4
<1>21. QED BY <1>1, <1>2, <1>5, <1>6, <1>10, <1>12, <1>13, <1>14, <1>15, <1>17, <1>18, <1>19, <1>20,
              RevisedKeeps

\* A dialog is sent, and the next turn begins.
LEMMA SendDialogKeeps ==
    ASSUME ChatIInv, NEW d \in dialogs, SendDialog(d) PROVE ChatIInv' /\ AnswersStep
<1>1. /\ chat \in Chat /\ talk \in Talk /\ cards \in Seq(Message) /\ Len(cards) > 0
      /\ chatEffort \in [presses : Nat, progress : Nat, faults : Nat]
      /\ unsent \subseteq {"answer", "buttons"} \X Questions
      /\ dialogs \subseteq Dialog /\ HandlersFit /\ withdrawn \subseteq Questions
      /\ memory \in Seq(Questions) /\ (\A q \in withdrawn : q <= talk.q)
      /\ TurnFits(chat, talk)
  BY ChatParts
<1>2. /\ memory' = memory /\ cards' = cards /\ presses' = presses /\ dialogs' \subseteq dialogs
      /\ cancels' = cancels /\ finishing' = finishing /\ withdrawn' = withdrawn
      /\ unsent' = unsent /\ stopped' = stopped /\ chatEffort' = chatEffort
  BY DEF SendDialog
<1>3. CASE UNCHANGED <<talk, chat>>
  <2>1. /\ presses \subseteq ChatPress /\ cancels \subseteq [q : withdrawn, search : BOOLEAN]
        /\ finishing \subseteq Questions /\ stopped \subseteq withdrawn
    BY ChatParts
  <2>2. chat.revision <= chat'.revision
    BY <1>1, <1>3 DEF Chat
  <2>3. HandlersFit'
    BY <1>1, <1>2, <1>3, <2>1, <2>2, HandlersKept
  <2>4. chat.current \in withdrawn => chat.cancel = chat.current
    BY <1>1 DEF TurnFits
  <2>5. dialogs' \subseteq Dialog
    BY <1>1, <1>2
  <2>6. QED BY <1>1, <1>2, <1>3, <2>1, <2>3, <2>4, <2>5, CallbackKeeps
<1>4. CASE /\ Current(NoQuestion) /\ SameTurn(d) /\ talk.q + 1 \in Questions
           /\ talk' = [talk EXCEPT !.q = talk.q + 1, !.context = Kept(memory), !.seen = d.seen,
                                   !.fresh = d.fresh, !.pc = "opening"]
           /\ SetChat(Rebuilt(TimerOff([chat EXCEPT !.current = talk.q + 1, !.cancel = NoQuestion,
                                                    !.finish = NoQuestion])))
  <2>1. PICK q \in Questions : q = talk.q + 1
    BY <1>4
  <2>2. talk.q \in Nat /\ q \in Nat /\ talk.q <= q /\ q \notin withdrawn /\ q # NoQuestion
        /\ NoQuestion \notin Questions
    <3>1. talk.q \in Nat /\ q \in Nat /\ q # NoQuestion /\ NoQuestion \notin Questions
      BY <1>1, QuestionsAre, ConversationAssumption DEF Talk
    <3>2. talk.q <= q /\ ~(q <= talk.q)
      BY <2>1, <3>1
    <3>3. QED BY <1>1, <3>1, <3>2
  <2>3. /\ d \in Dialog /\ DialogFits(chat, d) /\ ~chat.closed /\ chat.current = NoQuestion
        /\ d.revision = chat.revision
    BY <1>1, <1>4 DEF HandlersFit, Current, SameTurn
  <2>4. memory \in {<<>>, d.seen} /\ (d.fresh => memory = <<>>)
    BY <2>3 DEF DialogFits
  <2>5. PICK context \in Seq(Questions) : context = Kept(memory)
    BY <1>1, KeptIs, ConversationAssumption
  <2>6. /\ Len(context) <= KeptTurns /\ Kept(<<>>) = <<>>
        /\ \A i \in DOMAIN context : \E k \in DOMAIN memory : context[i] = memory[k]
    BY <1>1, <2>5, KeptIs, ConversationAssumption
  <2>7. PICK t : t = [talk EXCEPT !.q = q, !.context = context, !.seen = d.seen,
                                  !.fresh = d.fresh, !.pc = "opening"]
    OBVIOUS
  <2>8. d.seen \in Seq(Questions) /\ d.fresh \in BOOLEAN
    BY <2>3 DEF Dialog
  <2>9. /\ t \in Talk /\ t.q = q /\ t.context = context /\ t.seen = d.seen
        /\ t.fresh = d.fresh /\ t.pc = "opening"
    BY ONLY <1>1, <2>1, <2>5, <2>7, <2>8 DEF Talk
  <2>10. talk' = t
    BY <1>4, <2>1, <2>5, <2>7
  <2>11. ContextAsSeen'
    BY <2>4, <2>5, <2>6, <2>9, <2>10 DEF ContextAsSeen, Kept
  <2>12. PICK e : e = [chat EXCEPT !.current = q, !.cancel = NoQuestion, !.finish = NoQuestion]
    OBVIOUS
  <2>13. NoQuestion \in Asked /\ q \in Asked
    BY <2>1 DEF Asked
  <2>14. /\ e \in Chat /\ e.closed = chat.closed /\ e.current = q
         /\ e.visible = chat.visible /\ e.revision = chat.revision
    BY ONLY <1>1, <2>12, <2>13 DEF Chat
  <2>15. PICK f : f = [e EXCEPT !.timer = FALSE]
    OBVIOUS
  <2>16. /\ f \in Chat /\ f.closed = chat.closed /\ f.current = q /\ ~f.timer
         /\ f.visible = chat.visible /\ f.revision = chat.revision
    BY ONLY <2>14, <2>15 DEF Chat
  <2>17. PICK n \in Nat : n = chat.revision + 1
    BY <1>1 DEF Chat
  <2>18. PICK c : c = [f EXCEPT !.revision = n]
    OBVIOUS
  <2>19. /\ c \in Chat /\ c.closed = chat.closed /\ c.current = q /\ ~c.timer
         /\ c.visible = chat.visible /\ c.revision = n
    BY ONLY <2>16, <2>17, <2>18 DEF Chat
  <2>20. chat' = c
    BY <1>4, <2>1, <2>12, <2>15, <2>16, <2>17, <2>18 DEF SetChat, Rebuilt, TimerOff
  <2>21. TurnFits(chat, talk)'
    BY <1>2, <2>2, <2>3, <2>9, <2>10, <2>19, <2>20 DEF TurnFits
  <2>22. PICK b : b = Unbound
    OBVIOUS
  <2>23. b \in Button /\ b.revision <= c.revision
    BY <2>13, <2>17, <2>19, <2>22 DEF Unbound, Button
  <2>24. t.pc \notin Working /\ t.pc # "over"
    BY <2>9 DEF Working
  <2>25. QED BY <1>1, <1>2, <2>2, <2>6, <2>9, <2>10, <2>11, <2>17, <2>19, <2>20, <2>21, <2>23, <2>24,
                RevisedKeeps
<1>5. QED BY <1>3, <1>4 DEF SendDialog

\* generate() goes from its first edit to the permissions, or to its end.
LEMMA OpeningKeeps ==
    ASSUME ChatIInv, talk.pc = "opening", NEW pc \in {"permit", "ending"}, Goes(pc),
           UNCHANGED handlers, unsent' = unsent, memory' = memory,
           NEW c \in Chat, chat' = c, c.closed = chat.closed, c.current = chat.current,
           c.cancel = chat.cancel, c.timer = chat.timer, c.revision = chat.revision,
           c.visible = chat.visible \/ c.visible,
           cards' \in Seq(Message), Len(cards') > 0, SameAnswers(cards', cards),
           pc = "permit" => /\ c.visible /\ cards'[Len(cards')].question = talk.q
                            /\ cards'[Len(cards')].shows # "answer",
           \A j \in DOMAIN cards' : cards'[j].controls.revision <= chat.revision,
           chatEffort'.faults = 0 =>
              \A j \in DOMAIN cards' : j = Len(cards') \/ cards'[j].controls = Unbound,
           chatEffort' \in [presses : Nat, progress : Nat, faults : Nat],
           chatEffort'.faults = 0 => chatEffort.faults = 0
    PROVE  ChatIInv' /\ AnswersStep
<1>1. /\ chat \in Chat /\ talk \in Talk /\ HandlersFit /\ ToldIsShown /\ ContextAsSeen
      /\ presses \subseteq ChatPress /\ dialogs \subseteq Dialog
      /\ TurnFits(chat, talk) /\ MessageFits(chat, talk, cards)
  BY ChatParts
<1>2. /\ presses' = presses /\ dialogs' = dialogs /\ cancels' = cancels
      /\ finishing' = finishing /\ withdrawn' = withdrawn /\ stopped' = stopped
  BY DEF handlers
<1>3. PICK t : t = [talk EXCEPT !.pc = pc]
  OBVIOUS
<1>4. /\ t \in Talk /\ t.q = talk.q /\ t.context = talk.context /\ t.seen = talk.seen
      /\ t.fresh = talk.fresh /\ t.pc = pc
  BY ONLY <1>1, <1>3, pc \in {"permit", "ending"} DEF Talk
<1>5. talk' = t
  BY <1>3 DEF Goes
<1>6. ChatShape'
  BY <1>2, <1>4, <1>5 DEF ChatIInv, ChatShape, Here
<1>7. TurnFits(chat, talk)'
  BY <1>1, <1>2, <1>4, <1>5 DEF TurnFits
<1>8. MessageFits(chat, talk, cards)'
  <2>1. pc = "ending" => pc \notin Working
    BY DEF Working
  <2>2. ASSUME ~c.visible, NEW j \in DOMAIN cards' PROVE cards'[j].shows # "answer"
    <3>1. \A k \in DOMAIN cards : cards[k].shows # "answer"
      BY <1>1, <2>2 DEF MessageFits
    <3>2. \A q : ~ShowsAnswer(q, cards)
      BY <3>1 DEF ShowsAnswer
    <3>3. ~ShowsAnswer(cards'[j].question, cards')
      BY <3>2 DEF SameAnswers
    <3>4. QED BY <2>2, <3>3 DEF ShowsAnswer
  <2>3. QED BY <1>4, <1>5, <2>1, <2>2 DEF MessageFits
<1>9. HandlersFit'
  <2>1. chat.revision <= chat'.revision
    BY <1>1 DEF Chat
  <2>2. QED BY <1>1, <1>2, <2>1, HandlersKept
<1>10. ContextAsSeen'
  BY <1>1, <1>4, <1>5 DEF ContextAsSeen, Kept
<1>11. ToldIsShown'
  BY <1>1, <1>4, <1>5, ToldKept
<1>12. ControlsFit(chat, cards)'
  BY <1>4, <1>5 DEF ControlsFit
<1>13. AnswersStep
  BY DEF AnswersStep, SameAnswers
<1>14. QED BY <1>6, <1>7, <1>8, <1>9, <1>10, <1>11, <1>12, <1>13 DEF ChatIInv

\* A card with no answer follows the others: the same answers are shown.
LEMMA CardAdded ==
    ASSUME NEW s \in Seq(Message), NEW k \in Message, k.shows # "answer", NEW r,
           k.controls.revision <= r, \A j \in DOMAIN s : s[j].controls.revision <= r,
           NEW t, t = Append(s, k)
    PROVE  /\ t \in Seq(Message) /\ Len(t) > 0 /\ t[Len(t)] = k /\ SameAnswers(t, s)
           /\ \A j \in DOMAIN t : t[j].controls.revision <= r
<1>1. /\ t \in Seq(Message) /\ Len(t) > 0 /\ t[Len(t)] = k
      /\ \A j \in DOMAIN s : j \in DOMAIN t /\ t[j] = s[j]
      /\ \A j \in DOMAIN t : j = Len(t) \/ j \in DOMAIN s
  BY MessageAdded
<1>2. DOMAIN s \subseteq DOMAIN t
  BY ONLY <1>1
<1>3. \A j \in DOMAIN s : /\ t[j].shows = "answer" <=> s[j].shows = "answer"
                          /\ s[j].shows = "answer" => t[j].question = s[j].question
  BY ONLY <1>1
<1>4. \A j \in DOMAIN t : j \notin DOMAIN s => t[j].shows # "answer"
  BY <1>1
<1>5. SameAnswers(t, s)
  BY ONLY <1>2, <1>3, <1>4, AnswersAreSame
<1>6. \A j \in DOMAIN t : t[j].controls.revision <= r
  BY <1>1
<1>7. QED BY <1>1, <1>5, <1>6

\* What becomes of the messages when a question gets its card: nothing, another message,
\* or the last one, which has no answer.
LEMMA CardOpened ==
    ASSUME ChatIInv,
           NEW bare, bare = [cards EXCEPT ![Len(cards)].controls = Unbound],
           NEW new, new = Card(talk.q, "prompt", Bound(chat)),
           NEW opened \in BOOLEAN,
           \/ ~opened /\ cards' = cards
           \/ cards' = Append(bare, new)
           \/ cards' = Append(cards, new) /\ chatEffort'.faults # 0
           \/ cards' = [cards EXCEPT ![Len(cards)] = new] /\ ~chat.visible,
           chatEffort'.faults = 0 => chatEffort.faults = 0
    PROVE  /\ cards' \in Seq(Message) /\ Len(cards') > 0 /\ SameAnswers(cards', cards)
           /\ opened => cards'[Len(cards')] = new
           /\ new.question = talk.q /\ new.shows # "answer"
           /\ \A j \in DOMAIN cards' : cards'[j].controls.revision <= chat.revision
           /\ chatEffort'.faults = 0 =>
                 \A j \in DOMAIN cards' : j = Len(cards') \/ cards'[j].controls = Unbound
<1>1. /\ chat \in Chat /\ talk \in Talk /\ cards \in Seq(Message) /\ Len(cards) > 0
      /\ Len(cards) \in DOMAIN cards
      /\ MessageFits(chat, talk, cards) /\ ControlsFit(chat, cards)
  BY ChatParts
<1>2. /\ new \in Message /\ new.question = talk.q /\ new.shows = "prompt"
      /\ new.controls.revision = chat.revision
  BY <1>1 DEF Card, Bound, Message, Button, Chat, Talk, Asked
<1>3. PICK b : b = Unbound
  OBVIOUS
<1>4. b \in Button /\ b.revision = 0
  BY <1>3 DEF Unbound, Button, Asked
<1>5. /\ bare \in Seq(Message) /\ Len(bare) = Len(cards) /\ DOMAIN bare = DOMAIN cards
      /\ bare[Len(cards)].controls = b
      /\ \A j \in DOMAIN cards : /\ bare[j].question = cards[j].question
                                 /\ bare[j].shows = cards[j].shows
                                 /\ j # Len(cards) => bare[j].controls = cards[j].controls
  <2>1. PICK s \in Seq(Message) : s = cards /\ Len(s) > 0
    BY <1>1
  <2>2. bare = [s EXCEPT ![Len(s)].controls = b]
    BY <1>3, <2>1
  <2>3. /\ bare \in Seq(Message) /\ Len(bare) = Len(s) /\ DOMAIN bare = DOMAIN s
        /\ bare[Len(s)].controls = b
        /\ \A j \in DOMAIN s : /\ bare[j].question = s[j].question /\ bare[j].shows = s[j].shows
                               /\ j # Len(s) => bare[j].controls = s[j].controls
    BY ONLY <1>4, <2>1, <2>2, Recontrolled
  <2>4. QED BY <2>1, <2>3
<1>6. chat.revision \in Nat /\ 0 <= chat.revision /\ chat.revision <= chat.revision
  BY <1>1 DEF Chat
<1>7. \A j \in DOMAIN cards : cards[j].controls.revision <= chat.revision
  BY <1>1 DEF ControlsFit
<1>8. chatEffort'.faults = 0 =>
         \A j \in DOMAIN cards : j = Len(cards) \/ cards[j].controls = Unbound
  BY <1>1 DEF ControlsFit
<1>9. CASE ~opened /\ cards' = cards
  <2>1. SameAnswers(cards', cards)
    BY <1>9 DEF SameAnswers
  <2>2. QED BY <1>1, <1>2, <1>7, <1>8, <1>9, <2>1
<1>10. CASE cards' = Append(bare, new)
  <2>1. \A j \in DOMAIN bare : bare[j].controls.revision <= chat.revision
    BY <1>4, <1>5, <1>6, <1>7
  <2>2. chatEffort'.faults = 0 => \A j \in DOMAIN bare : bare[j].controls = Unbound
    BY <1>3, <1>5, <1>8
  <2>3. SameAnswers(bare, cards)
    BY <1>5, AnswersAreSame
  <2>4. PICK k : k = new
    OBVIOUS
  <2>5. k \in Message /\ k.shows # "answer" /\ k.controls.revision <= chat.revision
    BY <1>2, <1>6, <2>4
  <2>6. cards' = Append(bare, k)
    BY <1>10, <2>4
  <2>7. /\ cards' \in Seq(Message) /\ Len(cards') > 0 /\ cards'[Len(cards')] = k
        /\ SameAnswers(cards', bare)
        /\ \A j \in DOMAIN cards' : cards'[j].controls.revision <= chat.revision
        /\ (\A j \in DOMAIN bare : bare[j].controls = Unbound) =>
              \A j \in DOMAIN cards' : j = Len(cards') \/ cards'[j].controls = Unbound
    <3>1. PICK s \in Seq(Message) : s = bare
      BY <1>5
    <3>2. PICK r \in Nat : r = chat.revision
      BY <1>6
    <3>3. PICK t : t = Append(s, k)
      OBVIOUS
    <3>4. k \in Message /\ k.shows # "answer" /\ k.controls.revision <= r
          /\ \A j \in DOMAIN s : s[j].controls.revision <= r
      BY <2>1, <2>5, <3>1, <3>2
    <3>5. /\ t \in Seq(Message) /\ Len(t) > 0 /\ t[Len(t)] = k /\ SameAnswers(t, s)
          /\ \A j \in DOMAIN t : t[j].controls.revision <= r
      BY ONLY <3>3, <3>4, s \in Seq(Message), CardAdded
    <3>6. (\A j \in DOMAIN s : s[j].controls = Unbound) =>
             \A j \in DOMAIN t : j = Len(t) \/ t[j].controls = Unbound
      <4>1. /\ \A j \in DOMAIN s : t[j] = s[j]
            /\ \A j \in DOMAIN t : j = Len(t) \/ j \in DOMAIN s
        BY ONLY <3>3, <3>4, s \in Seq(Message), MessageAdded
      <4>2. QED BY <4>1
    <3>7. QED BY <2>6, <3>1, <3>2, <3>3, <3>5, <3>6
  <2>8. SameAnswers(cards', cards)
    BY <2>3, <2>7 DEF SameAnswers
  <2>9. QED BY <1>2, <2>2, <2>4, <2>7, <2>8
<1>11. CASE cards' = Append(cards, new) /\ chatEffort'.faults # 0
  <2>1. PICK k : k = new
    OBVIOUS
  <2>2. k \in Message /\ k.shows # "answer" /\ k.controls.revision <= chat.revision
    BY <1>2, <1>6, <2>1
  <2>3. cards' = Append(cards, k) /\ cards \in Seq(Message)
    BY <1>1, <1>11, <2>1
  <2>4. /\ cards' \in Seq(Message) /\ Len(cards') > 0 /\ cards'[Len(cards')] = k
        /\ SameAnswers(cards', cards)
        /\ \A j \in DOMAIN cards' : cards'[j].controls.revision <= chat.revision
    <3>1. PICK s \in Seq(Message) : s = cards
      BY <2>3
    <3>2. PICK r \in Nat : r = chat.revision
      BY <1>6
    <3>3. PICK t : t = Append(s, k)
      OBVIOUS
    <3>4. k \in Message /\ k.shows # "answer" /\ k.controls.revision <= r
          /\ \A j \in DOMAIN s : s[j].controls.revision <= r
      BY <1>7, <2>2, <3>1, <3>2
    <3>5. /\ t \in Seq(Message) /\ Len(t) > 0 /\ t[Len(t)] = k /\ SameAnswers(t, s)
          /\ \A j \in DOMAIN t : t[j].controls.revision <= r
      BY ONLY <3>3, <3>4, s \in Seq(Message), CardAdded
    <3>6. QED BY <2>3, <3>1, <3>2, <3>3, <3>5
  <2>5. QED BY <1>2, <1>11, <2>1, <2>4
<1>12. CASE cards' = [cards EXCEPT ![Len(cards)] = new] /\ ~chat.visible
  <2>1. /\ cards' \in Seq(Message) /\ Len(cards') = Len(cards) /\ DOMAIN cards' = DOMAIN cards
        /\ cards'[Len(cards)] = new
        /\ \A j \in DOMAIN cards : j # Len(cards) => cards'[j] = cards[j]
    BY <1>1, <1>2, <1>12, LastEdited
  <2>2. \A j \in DOMAIN cards : cards[j].shows # "answer"
    BY <1>1, <1>12 DEF MessageFits
  <2>3. SameAnswers(cards', cards)
    BY <1>2, <2>1, <2>2, AnswersAreSame
  <2>4. \A j \in DOMAIN cards' : cards'[j].controls.revision <= chat.revision
    BY <1>2, <1>6, <1>7, <2>1
  <2>5. QED BY <1>1, <1>2, <1>8, <2>1, <2>3, <2>4
<1>13. QED BY <1>9, <1>10, <1>11, <1>12

\* The card of a question.
LEMMA OpenTurnKeeps ==
    ASSUME ChatIInv, OpenTurn PROVE ChatIInv' /\ AnswersStep
<1>1. /\ chat \in Chat /\ chatEffort \in [presses : Nat, progress : Nat, faults : Nat]
  BY ChatParts
<1>2. talk.pc = "opening" /\ memory' = memory /\ UNCHANGED handlers /\ unsent' = unsent
  BY DEF OpenTurn
<1>3. PICK new : new = Card(talk.q, "prompt", Bound(chat))
  OBVIOUS
<1>4. PICK bare : bare = [cards EXCEPT ![Len(cards)].controls = Unbound]
  OBVIOUS
<1>5. ChatFault => chatEffort'.faults # 0
  <2>1. SUFFICES ASSUME ChatFault PROVE chatEffort'.faults # 0
    OBVIOUS
  <2>2. chatEffort.faults \in Nat /\ chatEffort' = [chatEffort EXCEPT !.faults = @ + 1]
    BY <1>1, <2>1 DEF ChatFault
  <2>3. chatEffort'.faults = chatEffort.faults + 1
    BY ONLY <1>1, <2>2
  <2>4. QED BY <2>2, <2>3
<1>6. ChatFault \/ NoChatFault =>
         /\ chatEffort' \in [presses : Nat, progress : Nat, faults : Nat]
         /\ chatEffort'.faults = 0 => chatEffort.faults = 0
  BY <1>1, FaultsGrow
<1>7. CASE /\ Goes("ending") /\ chat' = chat /\ cards' \in {cards, Append(bare, new)}
           /\ ChatFault \/ NoChatFault
  <2>1. PICK pc \in {"permit", "ending"} : pc = "ending"
    OBVIOUS
  <2>2. PICK opened \in BOOLEAN : ~opened
    OBVIOUS
  <2>3. /\ cards' \in Seq(Message) /\ Len(cards') > 0 /\ SameAnswers(cards', cards)
        /\ \A j \in DOMAIN cards' : cards'[j].controls.revision <= chat.revision
        /\ chatEffort'.faults = 0 =>
              \A j \in DOMAIN cards' : j = Len(cards') \/ cards'[j].controls = Unbound
    BY <1>3, <1>4, <1>6, <1>7, <2>2, CardOpened
  <2>4. QED BY <1>1, <1>2, <1>6, <1>7, <2>1, <2>3, OpeningKeeps
<1>8. CASE /\ Goes("permit") /\ chat' = [chat EXCEPT !.visible = TRUE]
           /\ \/ cards' = Append(bare, new) /\ NoChatFault
              \/ cards' = Append(cards, new) /\ ChatFault
              \/ cards' = [cards EXCEPT ![Len(cards)] = new] /\ ~chat.visible /\ NoChatFault
  <2>1. PICK pc \in {"permit", "ending"} : pc = "permit"
    OBVIOUS
  <2>2. PICK c : c = [chat EXCEPT !.visible = TRUE]
    OBVIOUS
  <2>3. /\ c \in Chat /\ c.closed = chat.closed /\ c.current = chat.current
        /\ c.cancel = chat.cancel /\ c.timer = chat.timer /\ c.revision = chat.revision
        /\ c.visible
    BY ONLY <1>1, <2>2 DEF Chat
  <2>4. PICK opened \in BOOLEAN : opened
    OBVIOUS
  <2>5. /\ cards' \in Seq(Message) /\ Len(cards') > 0 /\ SameAnswers(cards', cards)
        /\ cards'[Len(cards')] = new
        /\ new.question = talk.q /\ new.shows # "answer"
        /\ \A j \in DOMAIN cards' : cards'[j].controls.revision <= chat.revision
        /\ chatEffort'.faults = 0 =>
              \A j \in DOMAIN cards' : j = Len(cards') \/ cards'[j].controls = Unbound
    BY <1>3, <1>4, <1>5, <1>6, <1>8, <2>4, CardOpened
  <2>6. QED BY <1>1, <1>2, <1>6, <1>8, <2>1, <2>2, <2>3, <2>5, OpeningKeeps
<1>9. QED
  <2>1. [cards EXCEPT ![Here].controls = Unbound] = bare
    BY <1>4 DEF Here
  <2>2. CASE ~InTurn /\ Goes("ending") /\ UNCHANGED <<chat, cards, chatEffort>>
    BY <1>7, <2>2 DEF NoChatFault
  <2>3. CASE /\ InTurn /\ ChatFault /\ Goes("ending") /\ UNCHANGED chat
             /\ cards' \in {cards} \union (IF HasTurn THEN {Append(bare, new)} ELSE {})
    BY <1>7, <2>3
  <2>4. CASE /\ InTurn /\ Goes("permit") /\ SetChat([chat EXCEPT !.visible = TRUE])
             /\ IF HasTurn
                THEN \/ cards' = Append(bare, new) /\ NoChatFault
                     \/ cards' = Append(cards, new) /\ ChatFault
                ELSE cards' = [cards EXCEPT ![Here] = new] /\ NoChatFault
    BY <1>8, <2>4 DEF HasTurn, Here, SetChat
  <2>5. QED BY <1>3, <2>1, <2>2, <2>3, <2>4 DEF OpenTurn

\* The first question of a conversation.
LEMMA ChatStarts ==
    ASSUME ConversationAssumption, ChatInit PROVE ChatIInv
<1>1. /\ 1 \in Questions /\ KeptTurns \in Nat /\ NoQuestion \notin Questions
  BY QuestionsAre
<1>2. /\ memory = <<>> /\ presses = {} /\ dialogs = {} /\ cancels = {} /\ finishing = {}
      /\ withdrawn = {} /\ stopped = {} /\ unsent = {}
      /\ chatEffort = [presses |-> 0, progress |-> 0, faults |-> 0]
      /\ cards = <<Card(NoQuestion, "prompt", [revision |-> 1, q |-> NoQuestion])>>
      /\ chat = [closed |-> FALSE, current |-> 1, cancel |-> NoQuestion, finish |-> NoQuestion,
                 timer |-> FALSE, phase |-> "none", revision |-> 2, visible |-> FALSE]
  BY DEF ChatInit
<1>3. PICK web \in BOOLEAN :
         talk = [q |-> 1, context |-> <<>>, seen |-> <<>>, fresh |-> FALSE,
                 web |-> web, pc |-> "opening"]
  BY DEF ChatInit
<1>4. <<>> \in Seq(Questions) /\ Len(<<>>) = 0 /\ DOMAIN <<>> = {}
  OBVIOUS
<1>5. talk \in Talk /\ talk.q = 1 /\ talk.context = <<>> /\ ~talk.fresh /\ talk.pc = "opening"
  BY ONLY <1>1, <1>3, <1>4 DEF Talk
<1>6. NoQuestion \in Asked /\ 1 \in Asked
  BY <1>1 DEF Asked
<1>7. /\ chat \in Chat /\ ~chat.closed /\ chat.current = 1 /\ ~chat.timer /\ ~chat.visible
      /\ chat.revision = 2
  BY ONLY <1>2, <1>6 DEF Chat
<1>8. PICK k : k = Card(NoQuestion, "prompt", [revision |-> 1, q |-> NoQuestion])
  OBVIOUS
<1>9. k \in Message /\ k.shows = "prompt" /\ k.controls.revision = 1
  BY <1>6, <1>8 DEF Card, Message, Button
<1>10. cards = <<k>> /\ cards \in Seq(Message) /\ Len(cards) = 1 /\ DOMAIN cards = {1} /\ cards[1] = k
  <2>1. cards = <<k>>
    BY <1>2, <1>8
  <2>2. <<k>> \in Seq(Message) /\ Len(<<k>>) = 1 /\ <<k>>[1] = k
    <3>1. PICK m \in Message : m = k
      BY <1>9
    <3>2. <<m>> \in Seq(Message) /\ Len(<<m>>) = 1 /\ <<m>>[1] = m
      BY ONLY m \in Message
    <3>3. QED BY <3>1, <3>2
  <2>3. DOMAIN cards = 1..1
    BY <2>1, <2>2, LenProperties
  <2>4. QED BY <2>1, <2>2, <2>3
<1>11. chatEffort \in [presses : Nat, progress : Nat, faults : Nat]
  BY <1>2
<1>12. ChatShape
  <2>1. Len(talk.context) <= KeptTurns /\ Len(memory) <= KeptTurns + 1
    BY <1>1, <1>2, <1>4, <1>5
  <2>2. QED BY <1>2, <1>4, <1>5, <1>7, <1>10, <1>11, <2>1 DEF ChatShape, Here
<1>13. TurnFits(chat, talk)
  BY <1>2, <1>5, <1>7 DEF TurnFits
<1>14. MessageFits(chat, talk, cards)
  BY <1>5, <1>9, <1>10 DEF MessageFits, Working
<1>15. HandlersFit
  BY <1>2 DEF HandlersFit
<1>16. ContextAsSeen /\ ToldIsShown
  BY <1>2, <1>4, <1>5 DEF ContextAsSeen, ToldIsShown
<1>17. ControlsFit(chat, cards)
  <2>1. \A j \in DOMAIN cards : cards[j].controls.revision <= chat.revision
    BY <1>7, <1>9, <1>10
  <2>2. \A j \in DOMAIN cards : j = Len(cards)
    BY <1>10
  <2>3. QED BY <1>5, <2>1, <2>2 DEF ControlsFit
<1>18. QED BY <1>12, <1>13, <1>14, <1>15, <1>16, <1>17 DEF ChatIInv

\* Every step keeps the invariant, and the answers.
LEMMA ChatStep ==
    ASSUME ChatIInv, ChatNext PROVE ChatIInv' /\ AnswersStep
<1>1. CASE \E d \in dialogs : SendDialog(d)
  BY <1>1, SendDialogKeeps
<1>2. CASE OpenTurn \/ ReadPermissions \/ BeginSearch \/ EndSearch \/ AskModel
  BY <1>2, OpenTurnKeeps, WaitsKeep, BeginKeeps
<1>3. CASE ShowProgress \/ EndInference \/ ShowAnswer \/ ShowError \/ EndTurn
  BY <1>3, ProgressKeeps, WaitsKeep, ShowAnswerKeeps, EndTurnKeeps
<1>4. CASE PressChat \/ CloseChat
  BY <1>4, PressChatKeeps, CloseChatKeeps
<1>5. CASE \E p \in presses : \/ OpenDialog(p, "follow") \/ OpenDialog(p, "fresh")
                              \/ TakeCancel(p) \/ TakeFinish(p)
  <2>1. PICK p \in presses : \/ OpenDialog(p, "follow") \/ OpenDialog(p, "fresh")
                             \/ TakeCancel(p) \/ TakeFinish(p)
    BY <1>5
  <2>2. CASE TakeFinish(p)
    BY <2>2, CarryKeeps
  <2>3. QED BY <2>1, <2>2, OpenDialogKeeps, TakeCancelKeeps
<1>6. CASE (\E x \in cancels : CarryCancel(x)) \/ \E q \in finishing : CarryFinish(q)
  BY <1>6, CarryKeeps, FinishKeeps
<1>7. QED BY <1>1, <1>2, <1>3, <1>4, <1>5, <1>6 DEF ChatNext

\* The inductive invariant of a conversation holds (LocalChatView).
THEOREM ChatInvariance == ChatSpec => []ChatIInv
<1>1. ChatInit => ChatIInv
  BY ConversationAssumption, ChatStarts
<1>2. ChatIInv /\ [ChatNext]_chatVars => ChatIInv'
  <2>1. ASSUME ChatIInv, UNCHANGED chatVars PROVE ChatIInv'
    BY <2>1 DEF chatVars, ChatIInv, ChatShape, Here, TurnFits, MessageFits, HandlersFit, ButtonFits,
                DialogFits, ContextAsSeen, Kept, ToldIsShown, ControlsFit
  <2>2. QED BY <2>1, ChatStep
<1>3. QED BY <1>1, <1>2, PTL DEF ChatSpec

\* The model is told only of answers that are shown, or whose own edit failed, in the
\* conversation the member saw; the buttons between two questions can be used unless the
\* edit failed that drew them, no other message has any that are taken, and only what was
\* cancelled is stopped.
THEOREM ChatHolds == ChatSpec => []ConversationInv
<1>1. ChatIInv => ConversationInv
  <2>1. SUFFICES ASSUME ChatIInv PROVE ConversationInv
    OBVIOUS
  <2>2. /\ chat \in Chat /\ talk \in Talk /\ memory \in Seq(Questions)
        /\ Len(memory) <= KeptTurns + 1 /\ cards \in Seq(Message)
        /\ withdrawn \subseteq Questions /\ stopped \subseteq withdrawn
        /\ unsent \subseteq {"answer", "buttons"} \X Questions
        /\ chatEffort \in [presses : Nat, progress : Nat, faults : Nat]
        /\ ContextAsSeen /\ ToldIsShown /\ ControlsFit(chat, cards)
    BY <2>1, ChatParts
  <2>3. \A i \in DOMAIN cards : cards[i].question \in Asked
    <3>1. DOMAIN cards = 1..Len(cards)
      BY <2>2, LenProperties
    <3>2. \A i \in DOMAIN cards : cards[i] \in Message
      BY <2>2, <3>1, ElementOfSeq
    <3>3. QED BY <3>2 DEF Message
  <2>4. ChatTypeOK
    BY <2>2, <2>3 DEF ChatTypeOK, Talk
  <2>5. MemoryShown
    BY <2>2 DEF MemoryShown, ToldIsShown, ShowsAnswer
  <2>6. ControlsUsable
    BY <2>2 DEF ControlsUsable, ControlsFit, Here
  <2>7. StoppedAsAsked
    BY <2>2 DEF StoppedAsAsked
  <2>8. QED BY <2>2, <2>4, <2>5, <2>6, <2>7 DEF ConversationInv
<1>2. QED BY <1>1, ChatInvariance, PTL

\* An answer that was shown stays, and none appears once its question's Cancel was taken
\* (LocalChatView.cancel, generate).
THEOREM AnswersAlwaysStand == ChatSpec => AnswersStand
<1>1. ChatIInv /\ [ChatNext]_chatVars => [AnswersStep]_chatVars
  BY ChatStep
<1>2. AnswersStep <=> \A q \in Questions :
          /\ ShowsAnswer(q, cards) => ShowsAnswer(q, cards')
          /\ q \in withdrawn /\ ShowsAnswer(q, cards') => ShowsAnswer(q, cards)
  BY DEF AnswersStep
<1>3. QED BY <1>1, <1>2, ChatInvariance, PTL DEF ChatSpec, AnswersStand

-----------------------------------------------------------------------------
(***************************************************************************)
(* The Life inbox.                                                         *)
(***************************************************************************)

\* The requests to the gateway that can be on their way.
Post == [by : LifeProposals, n : Nat, id : LifeProposals \X {0}, reply : {"none", "ok", "conflict"}]
LifeShape ==
    /\ thought \in [Captures -> Thought]
    /\ cloud \in [LifeTasks -> [etag : Nat, done : BOOLEAN]] /\ made \subseteq Captures
    /\ proposal \in [LifeProposals -> Proposal] /\ modals \subseteq Captures
    /\ posts \subseteq Post /\ receipts \subseteq LifeProposals \X {0}

\* A thought's message is there until its file is whole and durable.
ThoughtFits(t) ==
    /\ t.message \/ (t.entry = "durable" /\ t.whole)
    /\ t.entry # "none" => t.whole
    /\ t.pc \in {"typed", "opened", "synced", "linked"} => t.message
    /\ t.pc = "synced" => t.whole
    /\ t.pc = "saved" => t.entry = "durable"
ThoughtsFit == \A c \in Captures : ThoughtFits(thought[c])

\* A task that was listed: its version is no newer than Nextcloud's, and if it is that
\* version it is that task.
Known(i) ==
    /\ i \in Item
    /\ i.id \notin Captures =>
          /\ i.etag <= cloud[i.id].etag
          /\ i.etag = cloud[i.id].etag => i.done = cloud[i.id].done

\* What the view, its card and the clicks on it have are items that were listed.
LifeView == [open : BOOLEAN, lock : Modes \union {"free", "draw"}, mode : Modes,
             items : SUBSET Item, selected : Item \union {NoItem}]
ViewFits ==
    /\ life \in LifeView
    /\ life.selected \in life.items \union {NoItem} /\ \A i \in life.items : Known(i)
    /\ lifeCard.selected \in lifeCard.items \union {NoItem} /\ \A i \in lifeCard.items : Known(i)
    /\ \A c \in lifeClicks : /\ c.kind = "select" => c.item \in c.menu
                             /\ c.kind = "act" => Known(c.item)

\* The gateway will not do what this proposal asks, now or later.
Refused(p, r) ==
    /\ <<p, 0>> \notin receipts
    /\ r.kind = "create" => r.item.id \in made
    /\ r.kind = "complete" => r.item.done \/ TaskItem(r.item.id) # r.item

\* What a proposal is about, and what its card has said.
ProposalFits(p, r) ==
    /\ r.item = r.seen
    /\ r.kind = "none" => ~r.drawn /\ r.waiting = {} /\ <<p, 0>> \notin receipts
    /\ r.kind = "create" => r.item.id \in Captures
    /\ r.kind = "complete" => Known(r.item) /\ r.item.id \notin Captures
    /\ r.state = "cancelled" => ~r.calling
    /\ r.state = "done" => <<p, 0>> \in receipts
    /\ r.told = "conflict" => Refused(p, r)
ProposalsFit == \A p \in LifeProposals : ProposalFits(p, proposal[p])

\* A request on its way is its proposal's, and so is what the gateway answered.
PostFits(m, r) ==
    /\ m.id = <<m.by, 0>> /\ r.kind # "none"
    /\ m.reply = "ok" => m.id \in receipts
    /\ m.reply = "conflict" => Refused(m.by, r)
PostsFit == \A m \in posts : PostFits(m, proposal[m.by])

\* The inductive invariant of the Life inbox.
LifeIInv == LifeShape /\ ThoughtsFit /\ ViewFits /\ ProposalsFit /\ PostsFit

\* Nextcloud's tasks change by new versions.
CloudGrows == \A t \in LifeTasks : cloud'[t] = cloud[t] \/ cloud'[t].etag > cloud[t].etag

\* An item that was listed stays one.
LEMMA KnownStays ==
    ASSUME LifeShape, LifeShape', CloudGrows, NEW i, Known(i)
    PROVE  Known(i)'
<1>1. CASE i.id \in Captures
    BY <1>1 DEF Known
<1>2. CASE i.id \notin Captures
  <2>1. PICK t \in LifeTasks : t = i.id /\ i \in Item /\ i.etag <= cloud[t].etag
                               /\ (i.etag = cloud[t].etag => i.done = cloud[t].done)
      BY <1>2 DEF Known, Item
  <2>2. i.etag \in Nat /\ cloud[t].etag \in Nat /\ cloud'[t].etag \in Nat
      BY <2>1 DEF Item, LifeShape
  <2>3. cloud'[t] = cloud[t] \/ cloud'[t].etag > cloud[t].etag
      BY DEF CloudGrows
  <2>4. i.etag <= cloud'[t].etag /\ (i.etag = cloud'[t].etag => i.done = cloud'[t].done)
      BY <2>1, <2>2, <2>3
  <2>. QED  BY <2>1, <2>4 DEF Known
<1>. QED  BY <1>1, <1>2

\* What the gateway refuses it goes on to refuse.
LEMMA RefusedStays ==
    ASSUME LifeShape, LifeShape', CloudGrows, made \subseteq made', NEW p, NEW r, Refused(p, r),
           r.kind = "complete" => Known(r.item) /\ r.item.id \notin Captures, <<p, 0>> \notin receipts'
    PROVE  Refused(p, r)'
<1>1. ASSUME r.kind = "complete"
      PROVE  r.item.done \/ TaskItem(r.item.id)' # r.item
  <2>1. PICK i : i = r.item
      OBVIOUS
  <2>2. i \in Item /\ i.id \in LifeTasks
      BY <1>1, <2>1 DEF Known, Item
  <2>3. i.etag \in Nat /\ cloud[i.id].etag \in Nat /\ cloud'[i.id].etag \in Nat
        /\ i.etag <= cloud[i.id].etag /\ (i.etag = cloud[i.id].etag => i.done = cloud[i.id].done)
      BY <1>1, <2>1, <2>2 DEF Known, Item, LifeShape
  <2>4. CASE i.done
      BY <2>1, <2>4
  <2>5. CASE ~i.done
    <3>1. TaskItem(i.id) # i
        BY <1>1, <2>1, <2>5 DEF Refused
    <3>2. i.etag # cloud[i.id].etag
      <4>1. SUFFICES ASSUME i.etag = cloud[i.id].etag
                     PROVE  TaskItem(i.id) = i
          BY <3>1
      <4>2. i.done = cloud[i.id].done
          BY <2>3, <4>1
      <4>. QED  BY <2>2, <4>1, <4>2 DEF TaskItem, Item
    <3>3. cloud'[i.id].etag # i.etag
        BY <2>2, <2>3, <3>2 DEF CloudGrows
    <3>4. TaskItem(i.id)' # i
        BY <3>3 DEF TaskItem
    <3>. QED  BY <2>1, <3>4
  <2>. QED  BY <2>4, <2>5
<1>. QED  BY <1>1 DEF Refused

\* The view rests.
LEMMA ViewRests ==
    ASSUME LifeShape, LifeShape', ViewFits, CloudGrows, UNCHANGED <<life, lifeCard, lifeClicks>>
    PROVE  ViewFits'
<1>1. \A i : Known(i) => Known(i)'
    BY KnownStays
<1>. QED  BY <1>1 DEF ViewFits

\* A proposal that rests goes on to be right.
LEMMA ProposalRests ==
    ASSUME LifeShape, LifeShape', CloudGrows, made \subseteq made', NEW p, NEW r, ProposalFits(p, r),
           <<p, 0>> \in receipts' <=> <<p, 0>> \in receipts
    PROVE  ProposalFits(p, r)'
<1>1. r.kind = "complete" => Known(r.item)'
  <2>1. PICK i : i = r.item
      OBVIOUS
  <2>2. Known(i) => Known(i)'
      BY KnownStays
  <2>. QED  BY <2>1, <2>2 DEF ProposalFits
<1>2. r.told = "conflict" => Refused(p, r)'
    BY RefusedStays DEF ProposalFits, Refused
<1>. QED  BY <1>1, <1>2 DEF ProposalFits

\* Nothing happens in Nextcloud, and nobody is told.
LEMMA CloudRests ==
    ASSUME UNCHANGED nextcloud
    PROVE  /\ CloudGrows /\ cloud' = cloud /\ made' = made /\ receipts' = receipts
           /\ \A i : Known(i)' <=> Known(i)
           /\ \A p, r : Refused(p, r)' <=> Refused(p, r)
           /\ \A p, r : ProposalFits(p, r)' <=> ProposalFits(p, r)
           /\ \A m, r : PostFits(m, r)' <=> PostFits(m, r)
  BY DEF CloudGrows, nextcloud, Known, Refused, ProposalFits, PostFits, TaskItem

\* A proposal changes, and its request may be sent.
LEMMA ProposalStep ==
    ASSUME LifeIInv, UNCHANGED nextcloud, NEW p \in LifeProposals, NEW r \in Proposal,
           proposal' = [proposal EXCEPT ![p] = r], ProposalFits(p, r),
           \/ proposal[p].kind = "none"
           \/ r.kind = proposal[p].kind /\ r.item = proposal[p].item,
           \A m \in posts' : \/ m \in posts
                             \/ m \in Post /\ m.by = p /\ m.id = <<p, 0>> /\ m.reply = "none" /\ r.kind # "none"
    PROVE  /\ proposal' \in [LifeProposals -> Proposal] /\ posts' \subseteq Post
           /\ ProposalsFit' /\ PostsFit'
<1>1. LifeShape /\ ProposalsFit /\ PostsFit
    BY DEF LifeIInv
<1>2. /\ \A q, s : ProposalFits(q, s)' <=> ProposalFits(q, s)
      /\ \A m, s : PostFits(m, s)' <=> PostFits(m, s)
    BY CloudRests
<1>3. proposal' \in [LifeProposals -> Proposal] /\ proposal'[p] = r
      /\ \A q \in LifeProposals : q # p => proposal'[q] = proposal[q]
    BY <1>1 DEF LifeShape
<1>4. posts' \subseteq Post
    BY <1>1 DEF LifeShape
<1>5. ProposalsFit'
    BY <1>1, <1>2, <1>3 DEF ProposalsFit
<1>6. ASSUME NEW m \in posts'
      PROVE  PostFits(m, proposal'[m.by])
  <2>1. m.by \in LifeProposals
      BY <1>4 DEF Post
  <2>2. CASE m \in posts /\ m.by # p
      BY <1>1, <1>3, <2>1, <2>2 DEF PostsFit
  <2>3. CASE m \in posts /\ m.by = p
    <3>1. PostFits(m, proposal[p])
        BY <1>1, <2>3 DEF PostsFit
    <3>2. r.kind = proposal[p].kind /\ r.item = proposal[p].item
        BY <3>1 DEF PostFits
    <3>. QED  BY <1>3, <2>3, <3>1, <3>2 DEF PostFits, Refused
  <2>4. CASE m.by = p /\ m.id = <<p, 0>> /\ m.reply = "none" /\ r.kind # "none"
      BY <1>3, <2>4 DEF PostFits
  <2>. QED  BY <2>2, <2>3, <2>4
<1>7. PostsFit'
    BY <1>2, <1>6 DEF PostsFit
<1>. QED  BY <1>3, <1>4, <1>5, <1>7

\* A thought's handler goes on.
LEMMA ThoughtStep ==
    ASSUME LifeIInv, NEW c \in Captures, NEW t \in Thought, ThoughtFits(t), SetThought(c, t),
           UNCHANGED <<nextcloud, posts, lifeUI, proposal>>
    PROVE  LifeIInv'
<1>1. /\ LifeShape /\ ThoughtsFit /\ ViewFits /\ ProposalsFit /\ PostsFit
      /\ UNCHANGED <<cloud, made, receipts, posts, life, lifeCard, lifeClicks, modals, proposal>>
    BY DEF LifeIInv, nextcloud, lifeUI
<1>2. thought' = [thought EXCEPT ![c] = t]
    BY DEF SetThought
<1>3. LifeShape'
    BY <1>1, <1>2 DEF LifeShape
<1>4. ThoughtsFit'
    BY <1>1, <1>2 DEF LifeShape, ThoughtsFit
<1>5. CloudGrows
    BY <1>1 DEF CloudGrows
<1>6. ViewFits'
    BY <1>1, <1>3, <1>5, ViewRests
<1>7. ProposalsFit' /\ PostsFit'
    BY <1>1, CloudRests DEF ProposalsFit, PostsFit
<1>. QED  BY <1>3, <1>4, <1>6, <1>7 DEF LifeIInv

\* capture() takes a step: the content is on the disk before its name.
LEMMA StoreThoughtStep ==
    ASSUME LifeIInv, NEW c \in Captures, StoreThought(c)
    PROVE  LifeIInv'
<1>. PICK o : o = thought[c]
    OBVIOUS
<1>1. o \in Thought /\ ThoughtFits(o) /\ o.pc \in {"typed", "opened", "synced", "linked", "kept"}
    BY DEF LifeIInv, LifeShape, ThoughtsFit, StoreThought, Storing
<1>. PICK s : s = StoreSteps(o.pc)
    OBVIOUS
<1>. PICK t : t = [o EXCEPT !.pc = s.pc, !.entry = s.entry, !.whole = s.whole]
    OBVIOUS
<1>2. SetThought(c, t) /\ UNCHANGED <<nextcloud, posts, lifeUI, proposal>>
    BY DEF StoreThought
<1>3. t = [pc |-> s.pc, entry |-> s.entry, whole |-> s.whole, message |-> o.message, told |-> o.told]
    BY <1>1 DEF Thought
<1>4. /\ s.pc \in {"opened", "synced", "linked", "kept", "saved"} /\ s.entry \in {"none", "cached", "durable"}
      /\ s.whole \in BOOLEAN
      /\ s.entry # "none" => s.whole
      /\ s.pc = "synced" => s.whole
      /\ s.pc = "saved" => s.entry = "durable"
      /\ s.pc \in {"opened", "synced", "linked"} => o.message
      /\ o.message \/ (s.entry = "durable" /\ s.whole)
  <2>1. CASE o.pc = "typed"
    <3>1. s.pc = "opened" /\ s.entry = "none" /\ s.whole = FALSE
        BY <2>1 DEF StoreSteps
    <3>. QED  BY <1>1, <2>1, <3>1 DEF ThoughtFits
  <2>2. CASE o.pc = "opened"
    <3>1. s.pc = "synced" /\ s.entry = "none" /\ s.whole = TRUE
        BY <2>2 DEF StoreSteps
    <3>. QED  BY <1>1, <2>2, <3>1 DEF ThoughtFits
  <2>3. CASE o.pc = "synced"
    <3>1. s.pc = "linked" /\ s.entry = "cached" /\ s.whole = TRUE
        BY <2>3 DEF StoreSteps
    <3>. QED  BY <1>1, <2>3, <3>1 DEF ThoughtFits
  <2>4. CASE o.pc = "linked"
    <3>1. s.pc = "kept" /\ s.entry = "durable" /\ s.whole = TRUE
        BY <2>4 DEF StoreSteps
    <3>. QED  BY <1>1, <2>4, <3>1 DEF ThoughtFits
  <2>5. CASE o.pc = "kept"
    <3>1. s.pc = "saved" /\ s.entry = "durable" /\ s.whole = TRUE
        BY <2>5 DEF StoreSteps
    <3>. QED  BY <1>1, <2>5, <3>1 DEF ThoughtFits
  <2>. QED  BY <1>1, <2>1, <2>2, <2>3, <2>4, <2>5
<1>5. t \in Thought
    BY ONLY <1>1, <1>3, <1>4 DEF Thought
<1>6. ThoughtFits(t)
    BY ONLY <1>3, <1>4 DEF ThoughtFits
<1>. QED  BY <1>2, <1>5, <1>6, ThoughtStep

\* A call of capture() fails.
LEMMA StoreFailsStep ==
    ASSUME LifeIInv, NEW c \in Captures, StoreFails(c)
    PROVE  LifeIInv'
<1>. PICK o : o = thought[c]
    OBVIOUS
<1>1. o \in Thought /\ ThoughtFits(o)
    BY DEF LifeIInv, LifeShape, ThoughtsFit
<1>. PICK t : t = [o EXCEPT !.pc = "over", !.told = "failed"]
    OBVIOUS
<1>2. SetThought(c, t) /\ UNCHANGED <<nextcloud, posts, lifeUI, proposal>>
    BY DEF StoreFails
<1>3. t = [pc |-> "over", entry |-> o.entry, whole |-> o.whole, message |-> o.message, told |-> "failed"]
    BY <1>1 DEF Thought
<1>4. t \in Thought /\ ThoughtFits(t)
    BY <1>1, <1>3 DEF Thought, ThoughtFits
<1>. QED  BY <1>2, <1>4, ThoughtStep

\* The owner is told that the thought is captured, and its message may go.
LEMMA AnswerThoughtStep ==
    ASSUME LifeIInv, NEW c \in Captures, AnswerThought(c)
    PROVE  LifeIInv'
<1>. PICK o : o = thought[c]
    OBVIOUS
<1>1. o \in Thought /\ ThoughtFits(o) /\ o.pc = "saved"
    BY DEF LifeIInv, LifeShape, ThoughtsFit, AnswerThought, Returned
<1>2. PICK kept \in BOOLEAN, pc \in {"checking", "over"} :
          SetThought(c, [o EXCEPT !.pc = pc, !.message = kept, !.told = "captured"])
    BY DEF AnswerThought
<1>. PICK t : t = [o EXCEPT !.pc = pc, !.message = kept, !.told = "captured"]
    OBVIOUS
<1>3. t = [pc |-> pc, entry |-> o.entry, whole |-> o.whole, message |-> kept, told |-> "captured"]
    BY <1>1 DEF Thought
<1>4. t \in Thought /\ ThoughtFits(t)
    BY <1>1, <1>3 DEF Thought, ThoughtFits
<1>5. SetThought(c, t) /\ UNCHANGED <<nextcloud, posts, lifeUI, proposal>>
    BY <1>2 DEF AnswerThought
<1>. QED  BY <1>4, <1>5, ThoughtStep

\* Only the view, its card, its clicks and its dialogs change.
LEMMA ViewStep ==
    ASSUME LifeIInv, UNCHANGED <<thought, nextcloud, posts, proposal>>, ViewFits', modals' \subseteq Captures
    PROVE  LifeIInv'
<1>1. /\ LifeShape /\ ThoughtsFit /\ ProposalsFit /\ PostsFit
      /\ UNCHANGED <<thought, cloud, made, receipts, posts, proposal>>
    BY DEF LifeIInv, nextcloud
<1>2. LifeShape'
    BY <1>1 DEF LifeShape
<1>3. ThoughtsFit'
    BY <1>1 DEF ThoughtsFit
<1>4. ProposalsFit' /\ PostsFit'
    BY <1>1, CloudRests DEF ProposalsFit, PostsFit
<1>. QED  BY <1>2, <1>3, <1>4 DEF LifeIInv

\* What is listed is known.
LEMMA ListedIsKnown ==
    ASSUME LifeShape, NEW mode, NEW i \in Listed(mode)
    PROVE  Known(i)
<1>1. CASE mode = "tasks"
  <2>1. PICK t \in LifeTasks : i = TaskItem(t)
      BY <1>1 DEF Listed
  <2>2. cloud[t].etag \in Nat /\ cloud[t].done \in BOOLEAN
      BY DEF LifeShape
  <2>3. i = [id |-> t, etag |-> cloud[t].etag, done |-> cloud[t].done]
      BY <2>1 DEF TaskItem
  <2>. QED  BY <2>2, <2>3 DEF Known, Item
<1>2. CASE mode # "tasks"
  <2>1. PICK c \in Captures : i = CaptureItem(c)
      BY <1>2 DEF Listed
  <2>. QED  BY <2>1 DEF CaptureItem, Known, Item
<1>. QED  BY <1>1, <1>2

\* The view is given another state, its card and clicks rest or are among what they were.
LEMMA LifeStep ==
    ASSUME LifeIInv, UNCHANGED <<thought, nextcloud, posts, proposal>>, modals' \subseteq Captures,
           lifeClicks' \subseteq lifeClicks,
           life' \in LifeView,
           life'.selected \in life'.items \union {NoItem}, \A i \in life'.items : Known(i),
           lifeCard' = lifeCard \/ lifeCard' = Shows(life)
    PROVE  LifeIInv'
<1>1. \A i : Known(i)' <=> Known(i)
    BY CloudRests
<1>2. lifeCard'.selected \in lifeCard'.items \union {NoItem} /\ \A i \in lifeCard'.items : Known(i)
    BY DEF LifeIInv, ViewFits, Shows
<1>3. ViewFits'
    BY <1>1, <1>2 DEF LifeIInv, ViewFits
<1>. QED  BY <1>3, ViewStep

\* A button or the menu of the card is pressed.
LEMMA PressLifeStep ==
    ASSUME LifeIInv, PressLife
    PROVE  LifeIInv'
<1>1. UNCHANGED <<thought, nextcloud, posts, life, lifeCard, modals, proposal>>
    BY DEF PressLife
<1>2. PICK c : /\ \/ c \in [kind : Modes, item : {NoItem}, menu : {lifeCard.items}]
                  \/ c \in [kind : {"select"}, item : lifeCard.items, menu : {lifeCard.items}]
                  \/ c \in [kind : {"act"}, menu : {lifeCard.items},
                            item : {i \in {lifeCard.selected} \ {NoItem} : ~i.done}]
               /\ lifeClicks' = lifeClicks \union {c}
    BY DEF PressLife
<1>3. \A i : Known(i)' <=> Known(i)
    BY <1>1, CloudRests
<1>4. ViewFits
    BY DEF LifeIInv
<1>5. (c.kind = "select" => c.item \in c.menu) /\ (c.kind = "act" => Known(c.item))
  <2>1. CASE c \in [kind : Modes, item : {NoItem}, menu : {lifeCard.items}]
      BY <2>1 DEF Modes
  <2>2. CASE c \in [kind : {"select"}, item : lifeCard.items, menu : {lifeCard.items}]
      BY <2>2
  <2>3. CASE c \in [kind : {"act"}, menu : {lifeCard.items},
                    item : {i \in {lifeCard.selected} \ {NoItem} : ~i.done}]
      BY <1>4, <2>3 DEF ViewFits
  <2>. QED  BY <1>2, <2>1, <2>2, <2>3
<1>6. ViewFits'
    BY <1>1, <1>2, <1>3, <1>4, <1>5 DEF ViewFits
<1>7. modals' \subseteq Captures
    BY <1>1 DEF LifeIInv, LifeShape
<1>. QED  BY <1>1, <1>6, <1>7, ViewStep

\* A list is asked for, has come, is drawn, an item is selected, the view expires.
LEMMA LoadingStep ==
    ASSUME LifeIInv, (\E c \in lifeClicks : StartLoad(c) \/ SelectItem(c)) \/ Loaded \/ DrawLife \/ ExpireLife
    PROVE  LifeIInv'
<1>1. /\ life \in LifeView
      /\ life.selected \in life.items \union {NoItem} /\ (\A i \in life.items : Known(i))
      /\ \A c \in lifeClicks : c.kind = "select" => c.item \in c.menu
      /\ modals \subseteq Captures /\ LifeShape
    BY DEF LifeIInv, ViewFits, LifeShape
<1>. PICK o : o = life
    OBVIOUS
<1>2. ASSUME NEW c \in lifeClicks, StartLoad(c)
      PROVE  LifeIInv'
  <2>1. UNCHANGED <<thought, nextcloud, posts, lifeCard, modals, proposal>> /\ lifeClicks' \subseteq lifeClicks
        /\ life' = [o EXCEPT !.lock = c.kind] /\ c.kind \in Modes
      BY <1>2 DEF StartLoad, SetLife
  <2>2. life' \in LifeView /\ life'.items = life.items /\ life'.selected = life.selected
      BY ONLY <1>1, <2>1, o = life DEF LifeView
  <2>. QED  BY <1>1, <2>1, <2>2, LifeStep
<1>3. ASSUME NEW c \in lifeClicks, SelectItem(c)
      PROVE  LifeIInv'
  <2>1. UNCHANGED <<thought, nextcloud, posts, lifeCard, modals, proposal>> /\ lifeClicks' \subseteq lifeClicks
        /\ life' = (IF c.menu = o.items THEN [o EXCEPT !.selected = c.item, !.lock = "draw"] ELSE o)
        /\ c.item \in c.menu
      BY <1>1, <1>3 DEF SelectItem, SetLife, SameMenu
  <2>2. life' \in LifeView /\ life'.items = life.items /\ life'.selected \in life'.items \union {NoItem}
    <3>1. CASE c.menu = o.items
      <4>1. c.item \in Item /\ life' = [o EXCEPT !.selected = c.item, !.lock = "draw"]
          BY <1>1, <2>1, <3>1 DEF Known
      <4>. QED  BY ONLY <1>1, <2>1, <3>1, <4>1, o = life DEF LifeView
    <3>2. CASE c.menu # o.items
        BY <1>1, <2>1, <3>2
    <3>. QED  BY <3>1, <3>2
  <2>. QED  BY <1>1, <2>1, <2>2, LifeStep
<1>4. ASSUME Loaded
      PROVE  LifeIInv'
  <2>. PICK l : l = Listed(o.lock)
      OBVIOUS
  <2>1. UNCHANGED <<thought, nextcloud, posts, lifeCard, lifeClicks, modals, proposal>> /\ o.lock \in Modes
        /\ \/ life' = [o EXCEPT !.lock = "draw", !.mode = o.lock, !.items = l, !.selected = NoItem]
           \/ life' = [o EXCEPT !.lock = "free"]
      BY <1>4 DEF Loaded, SetLife
  <2>2. \A i \in l : Known(i) /\ i \in Item
      BY <1>1, ListedIsKnown DEF Known
  <2>3. life' \in LifeView /\ (life'.items = l \/ life'.items = life.items)
        /\ life'.selected \in life'.items \union {NoItem}
      BY ONLY <1>1, <2>1, <2>2, o = life DEF LifeView
  <2>. QED  BY <1>1, <2>1, <2>2, <2>3, LifeStep
<1>5. ASSUME DrawLife
      PROVE  LifeIInv'
  <2>1. UNCHANGED <<thought, nextcloud, posts, lifeClicks, modals, proposal>>
        /\ life' = [o EXCEPT !.lock = "free"] /\ (lifeCard' = lifeCard \/ lifeCard' = Shows(life))
      BY <1>5 DEF DrawLife, SetLife
  <2>2. life' \in LifeView /\ life'.items = life.items /\ life'.selected = life.selected
      BY ONLY <1>1, <2>1, o = life DEF LifeView
  <2>. QED  BY <1>1, <2>1, <2>2, LifeStep
<1>6. ASSUME ExpireLife
      PROVE  LifeIInv'
  <2>1. UNCHANGED <<thought, nextcloud, posts, lifeCard, lifeClicks, modals, proposal>>
        /\ life' = [o EXCEPT !.open = FALSE]
      BY <1>6 DEF ExpireLife, SetLife
  <2>2. life' \in LifeView /\ life'.items = life.items /\ life'.selected = life.selected
      BY ONLY <1>1, <2>1, o = life DEF LifeView
  <2>. QED  BY <1>1, <2>1, <2>2, LifeStep
<1>. QED  BY <1>2, <1>3, <1>4, <1>5, <1>6

\* A proposal changes, its request may be sent, and clicks or dialogs are used up.
LEMMA ProposalMoves ==
    ASSUME LifeIInv, UNCHANGED nextcloud, NEW p \in LifeProposals, NEW r \in Proposal,
           SetProposal(p, r), ProposalFits(p, r),
           \/ proposal[p].kind = "none"
           \/ r.kind = proposal[p].kind /\ r.item = proposal[p].item,
           \A m \in posts' : \/ m \in posts
                             \/ m \in Post /\ m.by = p /\ m.id = <<p, 0>> /\ m.reply = "none" /\ r.kind # "none",
           thought' = thought \/ \E c \in Captures, t \in Thought : SetThought(c, t) /\ ThoughtFits(t),
           UNCHANGED <<life, lifeCard>>, lifeClicks' \subseteq lifeClicks, modals' \subseteq modals
    PROVE  LifeIInv'
<1>1. LifeShape /\ ThoughtsFit /\ ViewFits
    BY DEF LifeIInv
<1>2. proposal' = [proposal EXCEPT ![p] = r]
    BY DEF SetProposal
<1>3. /\ proposal' \in [LifeProposals -> Proposal] /\ posts' \subseteq Post
      /\ ProposalsFit' /\ PostsFit'
    BY <1>2, ProposalStep
<1>4. thought' \in [Captures -> Thought] /\ ThoughtsFit'
  <2>1. CASE thought' = thought
      BY <1>1, <2>1 DEF LifeShape, ThoughtsFit
  <2>2. CASE \E c \in Captures, t \in Thought : SetThought(c, t) /\ ThoughtFits(t)
    <3>1. PICK c \in Captures, t \in Thought : SetThought(c, t) /\ ThoughtFits(t)
        BY <2>2
    <3>. QED  BY <1>1, <3>1 DEF LifeShape, ThoughtsFit, SetThought
  <2>. QED  BY <2>1, <2>2
<1>5. LifeShape'
    BY <1>1, <1>3, <1>4 DEF LifeShape, nextcloud
<1>6. ViewFits'
    BY <1>1, CloudRests DEF ViewFits
<1>. QED  BY <1>3, <1>4, <1>5, <1>6 DEF LifeIInv

\* The clauses of a proposal, as the steps use them.
LEMMA ProposalIs ==
    ASSUME LifeIInv, NEW p \in LifeProposals
    PROVE  proposal[p] \in Proposal /\ ProposalFits(p, proposal[p])
  BY DEF LifeIInv, LifeShape, ProposalsFit

\* A proposal is opened.
LEMMA OpeningStep ==
    ASSUME LifeIInv, UNCHANGED <<thought, nextcloud, posts, life, lifeCard>>,
           lifeClicks' \subseteq lifeClicks, modals' \subseteq modals,
           NEW p \in LifeProposals, NEW kind \in {"create", "complete"}, NEW item, Known(item),
           kind = "create" => item.id \in Captures, kind = "complete" => item.id \notin Captures,
           Opened(p, kind, item, item)
    PROVE  LifeIInv'
<1>. PICK r : r = [NoProposal EXCEPT !.kind = kind, !.item = item, !.seen = item, !.drawn = TRUE]
    OBVIOUS
<1>1. SetProposal(p, r) /\ proposal[p].kind = "none"
    BY DEF Opened, FreeProposal
<1>2. r = [kind |-> kind, item |-> item, seen |-> item, drawn |-> TRUE, calling |-> FALSE, tries |-> 0,
           waiting |-> {}, state |-> "open", told |-> "nothing"]
    BY DEF NoProposal
<1>3. r \in Proposal
  <2>1. item \in Item /\ {} \in SUBSET {"confirm", "cancel"} /\ 0 \in Nat
      BY DEF Known
  <2>. QED  BY ONLY <1>2, <2>1, kind \in {"create", "complete"} DEF Proposal
<1>5. /\ r.kind = kind /\ r.item = item /\ r.seen = item /\ r.state = "open" /\ r.told = "nothing"
      /\ ~r.calling
    BY ONLY <1>2
<1>4. ProposalFits(p, r)
    BY <1>5 DEF ProposalFits
<1>. QED  BY <1>1, <1>3, <1>4, ProposalMoves

\* The button of a card is used, or a dialog is sent.
LEMMA ProposingStep ==
    ASSUME LifeIInv, (\E c \in lifeClicks : ActOn(c)) \/ (\E c \in modals : SendModal(c))
    PROVE  LifeIInv'
<1>1. ASSUME NEW c \in lifeClicks, ActOn(c)
      PROVE  LifeIInv'
  <2>1. /\ UNCHANGED <<thought, nextcloud, posts, life, lifeCard>> /\ lifeClicks' \subseteq lifeClicks
        /\ c.kind = "act"
      BY <1>1 DEF ActOn
  <2>2. Known(c.item) /\ c.item.id \in Captures \union LifeTasks
      BY <1>1, <2>1 DEF LifeIInv, ViewFits, Known, Item
  <2>3. CASE modals' \subseteq Captures /\ UNCHANGED proposal
    <3>1. UNCHANGED <<thought, nextcloud, posts, proposal>>
        BY <2>1, <2>3
    <3>2. \A i : Known(i)' <=> Known(i)
        BY <2>1, CloudRests
    <3>3. ViewFits'
        BY <2>1, <3>2 DEF LifeIInv, ViewFits
    <3>. QED  BY <2>3, <3>1, <3>3, ViewStep
  <2>4. CASE modals' = modals /\ c.item.id \notin Captures
             /\ \E p \in LifeProposals : Opened(p, "complete", c.item, c.item)
    <3>1. PICK p \in LifeProposals : Opened(p, "complete", c.item, c.item)
        BY <2>4
    <3>. QED  BY <2>1, <2>2, <2>4, <3>1, OpeningStep
  <2>5. modals \subseteq Captures
      BY DEF LifeIInv, LifeShape
  <2>. QED  BY <1>1, <2>2, <2>3, <2>4, <2>5 DEF ActOn, StillSelected
<1>2. ASSUME NEW c \in modals, SendModal(c)
      PROVE  LifeIInv'
  <2>1. /\ UNCHANGED <<thought, nextcloud, posts, life, lifeCard, lifeClicks>> /\ modals' \subseteq modals
        /\ \/ \E p \in LifeProposals : Opened(p, "create", CaptureItem(c), CaptureItem(c))
           \/ UNCHANGED proposal
      BY <1>2 DEF SendModal
  <2>2. c \in Captures /\ modals' \subseteq Captures
      BY <2>1 DEF LifeIInv, LifeShape
  <2>3. Known(CaptureItem(c)) /\ CaptureItem(c).id \in Captures
      BY <2>2 DEF Known, CaptureItem, Item
  <2>4. CASE UNCHANGED proposal
    <3>1. \A i : Known(i)' <=> Known(i)
        BY <2>1, CloudRests
    <3>2. ViewFits'
        BY <2>1, <3>1 DEF LifeIInv, ViewFits
    <3>. QED  BY <2>1, <2>2, <2>4, <3>2, ViewStep
  <2>5. CASE \E p \in LifeProposals : Opened(p, "create", CaptureItem(c), CaptureItem(c))
    <3>1. PICK p \in LifeProposals : Opened(p, "create", CaptureItem(c), CaptureItem(c))
        BY <2>5
    <3>. QED  BY <2>1, <2>3, <3>1, OpeningStep
  <2>. QED  BY <2>1, <2>4, <2>5
<1>. QED  BY <1>1, <1>2

\* The classifier quotes a task from a thought, and submits it.
LEMMA ClassifyStep ==
    ASSUME LifeIInv, NEW c \in Captures, Classify(c)
    PROVE  LifeIInv'
<1>. PICK o : o = thought[c]
    OBVIOUS
<1>. PICK t : t = [o EXCEPT !.pc = "over"]
    OBVIOUS
<1>1. o \in Thought /\ ThoughtFits(o) /\ SetThought(c, t) /\ UNCHANGED <<nextcloud, lifeUI>>
    BY DEF LifeIInv, LifeShape, ThoughtsFit, Classify
<1>2. t = [pc |-> "over", entry |-> o.entry, whole |-> o.whole, message |-> o.message, told |-> o.told]
    BY <1>1 DEF Thought
<1>3. t \in Thought /\ ThoughtFits(t)
    BY <1>1, <1>2 DEF Thought, ThoughtFits
<1>4. CASE UNCHANGED <<proposal, posts>>
    BY <1>1, <1>3, <1>4, ThoughtStep
<1>5. ASSUME NEW p \in LifeProposals, FreeProposal(p),
             SetProposal(p, [NoProposal EXCEPT !.kind = "create", !.item = CaptureItem(c),
                    !.seen = CaptureItem(c), !.calling = TRUE, !.tries = 1]),
             posts' = posts \union {Ask(p, 1)}
      PROVE  LifeIInv'
  <2>. PICK i : i = CaptureItem(c)
      OBVIOUS
  <2>. PICK r : r = [NoProposal EXCEPT !.kind = "create", !.item = i, !.seen = i, !.calling = TRUE, !.tries = 1]
      OBVIOUS
  <2>1. SetProposal(p, r) /\ proposal[p].kind = "none"
      BY <1>5 DEF FreeProposal
  <2>2. r = [kind |-> "create", item |-> i, seen |-> i, drawn |-> FALSE, calling |-> TRUE, tries |-> 1,
             waiting |-> {}, state |-> "open", told |-> "nothing"]
      BY DEF NoProposal
  <2>3. i \in Item /\ i.id \in Captures
      BY DEF CaptureItem, Item
  <2>4. r \in Proposal
    <3>1. {} \in SUBSET {"confirm", "cancel"} /\ 0 \in Nat /\ 1 \in Nat
        OBVIOUS
    <3>. QED  BY ONLY <2>2, <2>3, <3>1 DEF Proposal
  <2>8. r.kind = "create" /\ r.item = i /\ r.seen = i /\ r.state = "open" /\ r.told = "nothing"
      BY ONLY <2>2
  <2>5. ProposalFits(p, r)
      BY <2>3, <2>8 DEF ProposalFits
  <2>6. Ask(p, 1) \in Post /\ Ask(p, 1).by = p /\ Ask(p, 1).id = <<p, 0>> /\ Ask(p, 1).reply = "none"
      BY DEF Ask, RequestId, Post
  <2>7. \A m \in posts' : \/ m \in posts
                          \/ m \in Post /\ m.by = p /\ m.id = <<p, 0>> /\ m.reply = "none" /\ r.kind # "none"
      BY <1>5, <2>2, <2>6
  <2>. QED  BY <1>1, <1>3, <2>1, <2>4, <2>5, <2>7, ProposalMoves DEF lifeUI
<1>. QED  BY <1>4, <1>5 DEF Classify

\* A proposal that has been opened is given another state.
LEMMA ProposalGiven ==
    ASSUME LifeIInv, UNCHANGED <<thought, nextcloud, lifeUI>>,
           NEW p \in LifeProposals, proposal[p].kind # "none",
           NEW r \in Proposal, SetProposal(p, r),
           r.kind = proposal[p].kind, r.item = proposal[p].item, r.seen = proposal[p].seen,
           r.state = "cancelled" => ~r.calling,
           r.state = "done" => <<p, 0>> \in receipts,
           r.told = "conflict" => Refused(p, proposal[p]),
           \A m \in posts' : \/ m \in posts
                             \/ m \in Post /\ m.by = p /\ m.id = <<p, 0>> /\ m.reply = "none"
    PROVE  LifeIInv'
<1>1. ProposalFits(p, proposal[p])
    BY ProposalIs
<1>2. ProposalFits(p, r)
    BY <1>1 DEF ProposalFits, Refused
<1>. QED  BY <1>2, ProposalMoves DEF lifeUI

\* Confirm or Cancel is pressed.
LEMMA PressProposalStep ==
    ASSUME LifeIInv, NEW p \in LifeProposals, NEW button \in {"confirm", "cancel"}, PressProposal(p, button)
    PROVE  LifeIInv'
<1>. PICK o : o = proposal[p]
    OBVIOUS
<1>1. o \in Proposal /\ ProposalFits(p, o)
    BY ProposalIs
<1>2. o.drawn /\ o.state = "open" /\ UNCHANGED <<thought, nextcloud, posts, lifeUI>>
    BY DEF PressProposal
<1>. PICK r : r = [o EXCEPT !.waiting = @ \union {button}]
    OBVIOUS
<1>3. SetProposal(p, r)
    BY DEF PressProposal
<1>4. /\ r \in Proposal /\ r.kind = o.kind /\ r.item = o.item /\ r.seen = o.seen
      /\ r.state = o.state /\ r.told = o.told
    BY ONLY <1>1, r = [o EXCEPT !.waiting = @ \union {button}], button \in {"confirm", "cancel"} DEF Proposal
<1>5. o.kind # "none"
    BY <1>1, <1>2 DEF ProposalFits
<1>6. r.told = "conflict" => Refused(p, o)
    BY <1>1, <1>4 DEF ProposalFits
<1>7. r.state # "cancelled" /\ r.state # "done"
    BY <1>2, <1>4
<1>. QED  BY <1>2, <1>3, <1>4, <1>5, <1>6, <1>7, ProposalGiven

\* A confirmation has its turn.
LEMMA ConfirmStep ==
    ASSUME LifeIInv, NEW p \in LifeProposals, Confirm(p)
    PROVE  LifeIInv'
<1>. PICK o : o = proposal[p]
    OBVIOUS
<1>1. o \in Proposal /\ ProposalFits(p, o)
    BY ProposalIs
<1>2. "confirm" \in o.waiting /\ ~o.calling /\ UNCHANGED <<thought, nextcloud, lifeUI>>
    BY DEF Confirm
<1>. PICK r : r = [o EXCEPT !.waiting = @ \ {"confirm"}]
    OBVIOUS
<1>3. /\ r \in Proposal /\ r.kind = o.kind /\ r.item = o.item /\ r.seen = o.seen
      /\ r.state = o.state /\ r.told = o.told /\ r.calling = o.calling
    BY ONLY <1>1, r = [o EXCEPT !.waiting = @ \ {"confirm"}] DEF Proposal
<1>4. o.kind # "none"
    BY <1>1, <1>2 DEF ProposalFits
<1>5. o.told = "conflict" => Refused(p, o)
    BY <1>1 DEF ProposalFits
<1>6. o.state = "done" => <<p, 0>> \in receipts
    BY <1>1 DEF ProposalFits
<1>7. CASE r.state = "open"
  <2>. PICK n : n = r.tries + 1
      OBVIOUS
  <2>. PICK s : s = [r EXCEPT !.calling = TRUE, !.tries = @ + 1]
      OBVIOUS
  <2>1. SetProposal(p, s) /\ posts' = posts \union {Ask(p, n)}
      BY <1>7 DEF Confirm
  <2>2. n \in Nat /\ r.tries \in Nat
      BY <1>3 DEF Proposal
  <2>3. /\ s \in Proposal /\ s.kind = o.kind /\ s.item = o.item /\ s.seen = o.seen
        /\ s.state = r.state /\ s.told = o.told
      BY ONLY <1>3, <2>2, n = r.tries + 1, s = [r EXCEPT !.calling = TRUE, !.tries = @ + 1] DEF Proposal
  <2>4. Ask(p, n) \in Post /\ Ask(p, n).by = p /\ Ask(p, n).id = <<p, 0>> /\ Ask(p, n).reply = "none"
      BY <2>2 DEF Ask, RequestId, Post
  <2>5. \A m \in posts' : m \in posts \/ (m \in Post /\ m.by = p /\ m.id = <<p, 0>> /\ m.reply = "none")
      BY <2>1, <2>4
  <2>6. s.state # "cancelled" /\ s.state # "done"
      BY <1>7, <2>3
  <2>. QED  BY <1>2, <1>4, <1>5, <2>1, <2>3, <2>5, <2>6, ProposalGiven
<1>8. CASE r.state # "open"
  <2>1. SetProposal(p, r) /\ UNCHANGED posts
      BY <1>8 DEF Confirm
  <2>2. ~r.calling
      BY <1>2, <1>3
  <2>. QED  BY <1>2, <1>3, <1>4, <1>5, <1>6, <2>1, <2>2, ProposalGiven
<1>. QED  BY <1>7, <1>8

\* A cancellation has its turn: no confirmation is under way.
LEMMA CancelProposalStep ==
    ASSUME LifeIInv, NEW p \in LifeProposals, CancelProposal(p)
    PROVE  LifeIInv'
<1>. PICK o : o = proposal[p]
    OBVIOUS
<1>1. o \in Proposal /\ ProposalFits(p, o)
    BY ProposalIs
<1>2. "cancel" \in o.waiting /\ ~o.calling /\ UNCHANGED <<thought, nextcloud, posts, lifeUI>>
    BY DEF CancelProposal, NotCalling
<1>. PICK r : r = [o EXCEPT !.waiting = @ \ {"cancel"}]
    OBVIOUS
<1>3. /\ r \in Proposal /\ r.kind = o.kind /\ r.item = o.item /\ r.seen = o.seen
      /\ r.state = o.state /\ r.told = o.told /\ r.calling = o.calling
    BY ONLY <1>1, r = [o EXCEPT !.waiting = @ \ {"cancel"}] DEF Proposal
<1>. PICK s : s = [r EXCEPT !.state = "cancelled"]
    OBVIOUS
<1>4. /\ s \in Proposal /\ s.kind = o.kind /\ s.item = o.item /\ s.seen = o.seen
      /\ s.state = "cancelled" /\ s.told = o.told /\ s.calling = o.calling
    BY ONLY <1>3, s = [r EXCEPT !.state = "cancelled"] DEF Proposal
<1>5. SetProposal(p, s) \/ SetProposal(p, r)
    BY DEF CancelProposal
<1>6. /\ o.kind # "none" /\ (o.told = "conflict" => Refused(p, o))
      /\ (o.state = "done" => <<p, 0>> \in receipts)
    BY <1>1, <1>2 DEF ProposalFits
<1>7. ~r.calling /\ ~s.calling
    BY <1>2, <1>3, <1>4
<1>8. CASE SetProposal(p, s)
  <2>1. s.state # "done"
      BY <1>4
  <2>. QED  BY <1>2, <1>4, <1>6, <1>7, <1>8, <2>1, ProposalGiven
<1>9. CASE SetProposal(p, r)
    BY <1>2, <1>3, <1>6, <1>7, <1>9, ProposalGiven
<1>. QED  BY <1>5, <1>8, <1>9

\* The view of a proposal expires.
LEMMA ExpireProposalStep ==
    ASSUME LifeIInv, NEW p \in LifeProposals, ExpireProposal(p)
    PROVE  LifeIInv'
<1>. PICK o : o = proposal[p]
    OBVIOUS
<1>1. o \in Proposal /\ ProposalFits(p, o)
    BY ProposalIs
<1>. PICK r : r = [o EXCEPT !.state = "expired"]
    OBVIOUS
<1>2. o.drawn /\ SetProposal(p, r) /\ UNCHANGED <<thought, nextcloud, posts, lifeUI>>
    BY DEF ExpireProposal
<1>3. /\ r \in Proposal /\ r.kind = o.kind /\ r.item = o.item /\ r.seen = o.seen
      /\ r.state = "expired" /\ r.told = o.told
    BY ONLY <1>1, r = [o EXCEPT !.state = "expired"] DEF Proposal
<1>4. o.kind # "none" /\ (r.told = "conflict" => Refused(p, o))
    BY <1>1, <1>2, <1>3 DEF ProposalFits
<1>5. r.state # "cancelled" /\ r.state # "done"
    BY <1>3
<1>. QED  BY <1>2, <1>3, <1>4, <1>5, ProposalGiven

\* An answer comes back, or none does.
LEMMA AnsweredStep ==
    ASSUME LifeIInv, NEW m \in posts, TakeAnswer(m) \/ GiveUp(m)
    PROVE  LifeIInv'
<1>. PICK p : p = m.by
    OBVIOUS
<1>. PICK o : o = proposal[p]
    OBVIOUS
<1>1. p \in LifeProposals /\ PostFits(m, o) /\ m.reply \in {"none", "ok", "conflict"}
    BY DEF LifeIInv, LifeShape, PostsFit, Post
<1>2. o \in Proposal /\ ProposalFits(p, o)
    BY <1>1, ProposalIs
<1>3. /\ o.kind # "none" /\ (m.reply = "ok" => <<p, 0>> \in receipts)
      /\ (m.reply = "conflict" => Refused(p, o))
    BY <1>1 DEF PostFits
<1>4. (o.told = "conflict" => Refused(p, o)) /\ (o.state = "done" => <<p, 0>> \in receipts)
    BY <1>2 DEF ProposalFits
<1>5. UNCHANGED <<thought, nextcloud, lifeUI>> /\ posts' \subseteq posts
    BY DEF TakeAnswer, GiveUp
<1>6. CASE TakeAnswer(m)
  <2>. PICK r : r = [o EXCEPT !.calling = FALSE]
      OBVIOUS
  <2>1. PICK shown \in {TRUE, o.drawn} :
            SetProposal(p, IF m.reply = "ok" THEN [r EXCEPT !.state = "done"]
                           ELSE [r EXCEPT !.told = "conflict", !.drawn = shown])
      BY <1>6 DEF TakeAnswer
  <2>2. m.reply # "none" /\ shown \in BOOLEAN
      BY <1>2, <1>6, <2>1 DEF TakeAnswer, Proposal
  <2>3. /\ r \in Proposal /\ r.kind = o.kind /\ r.item = o.item /\ r.seen = o.seen
        /\ r.state = o.state /\ r.told = o.told /\ ~r.calling
      BY ONLY <1>2, r = [o EXCEPT !.calling = FALSE] DEF Proposal
  <2>4. CASE m.reply = "ok"
    <3>. PICK s : s = [r EXCEPT !.state = "done"]
        OBVIOUS
    <3>1. /\ s \in Proposal /\ s.kind = o.kind /\ s.item = o.item /\ s.seen = o.seen
          /\ s.state = "done" /\ s.told = o.told
        BY ONLY <2>3, s = [r EXCEPT !.state = "done"] DEF Proposal
    <3>2. SetProposal(p, s)
        BY <2>1, <2>4
    <3>3. s.state # "cancelled"
        BY <3>1
    <3>. QED  BY <1>1, <1>3, <1>4, <1>5, <2>4, <3>1, <3>2, <3>3, ProposalGiven
  <2>5. CASE m.reply = "conflict"
    <3>. PICK s : s = [r EXCEPT !.told = "conflict", !.drawn = shown]
        OBVIOUS
    <3>1. /\ s \in Proposal /\ s.kind = o.kind /\ s.item = o.item /\ s.seen = o.seen
          /\ s.state = o.state /\ s.told = "conflict" /\ ~s.calling
        BY ONLY <2>2, <2>3, s = [r EXCEPT !.told = "conflict", !.drawn = shown] DEF Proposal
    <3>2. SetProposal(p, s)
        BY <2>1, <2>5
    <3>. QED  BY <1>1, <1>3, <1>4, <1>5, <2>5, <3>1, <3>2, ProposalGiven
  <2>. QED  BY <1>1, <2>2, <2>4, <2>5
<1>7. CASE GiveUp(m)
  <2>. PICK r : r = [o EXCEPT !.calling = FALSE, !.told = "unconfirmed"]
      OBVIOUS
  <2>1. PICK shown \in {TRUE, o.drawn} : SetProposal(p, [r EXCEPT !.drawn = shown])
      BY <1>7 DEF GiveUp
  <2>2. shown \in BOOLEAN
      BY <1>2, <2>1 DEF Proposal
  <2>3. /\ r \in Proposal /\ r.kind = o.kind /\ r.item = o.item /\ r.seen = o.seen
        /\ r.state = o.state /\ r.told = "unconfirmed" /\ ~r.calling
      BY ONLY <1>2, r = [o EXCEPT !.calling = FALSE, !.told = "unconfirmed"] DEF Proposal
  <2>. PICK s : s = [r EXCEPT !.drawn = shown]
      OBVIOUS
  <2>4. /\ s \in Proposal /\ s.kind = o.kind /\ s.item = o.item /\ s.seen = o.seen
        /\ s.state = o.state /\ s.told = "unconfirmed" /\ ~s.calling
      BY ONLY <2>2, <2>3, s = [r EXCEPT !.drawn = shown] DEF Proposal
  <2>5. SetProposal(p, s) /\ s.told # "conflict"
      BY <2>1, <2>4
  <2>. QED  BY <1>1, <1>3, <1>4, <1>5, <2>4, <2>5, ProposalGiven
<1>. QED  BY <1>6, <1>7

\* Nextcloud changes: the tasks get new versions, captures tasks, and at most one request
\* its receipt, of a proposal that is not refused.
LEMMA CloudStep ==
    ASSUME LifeIInv, UNCHANGED <<thought, lifeUI, proposal>>,
           cloud' \in [LifeTasks -> [etag : Nat, done : BOOLEAN]], CloudGrows,
           made \subseteq made', made' \subseteq Captures, NEW p \in LifeProposals,
           receipts' = receipts \/ (receipts' = receipts \union {<<p, 0>>} /\ ~Refused(p, proposal[p])
                                    /\ proposal[p].kind # "none"),
           \A m \in posts' : \/ m \in posts
                             \/ /\ m \in Post /\ m.by = p /\ m.id = <<p, 0>> /\ proposal[p].kind # "none"
                                /\ m.reply = "ok" => <<p, 0>> \in receipts'
                                /\ m.reply = "conflict" => Refused(p, proposal[p]) /\ <<p, 0>> \notin receipts'
    PROVE  LifeIInv'
<1>1. /\ LifeShape /\ ThoughtsFit /\ ViewFits /\ ProposalsFit /\ PostsFit
      /\ UNCHANGED <<thought, life, lifeCard, lifeClicks, modals, proposal>>
    BY DEF LifeIInv, lifeUI
<1>2. LifeShape'
  <2>1. receipts' \subseteq LifeProposals \X {0}
      BY <1>1 DEF LifeShape
  <2>2. posts' \subseteq Post
      BY <1>1 DEF LifeShape
  <2>. QED  BY <1>1, <2>1, <2>2 DEF LifeShape
<1>3. ThoughtsFit' /\ ViewFits'
    BY <1>1, <1>2, ViewRests DEF ThoughtsFit
<1>4. ASSUME NEW q \in LifeProposals
      PROVE  ProposalFits(q, proposal[q])'
  <2>. PICK r : r = proposal[q]
      OBVIOUS
  <2>1. ProposalFits(q, r)
      BY <1>1 DEF ProposalsFit
  <2>2. CASE <<q, 0>> \in receipts' <=> <<q, 0>> \in receipts
    <3>1. ProposalFits(q, r)'
        BY <1>1, <1>2, <2>1, <2>2, ProposalRests
    <3>. QED  BY <1>1, <3>1
  <2>3. CASE q = p /\ receipts' = receipts \union {<<p, 0>>} /\ ~Refused(p, r) /\ r.kind # "none"
    <3>1. r.told # "conflict"
        BY <2>1, <2>3 DEF ProposalFits
    <3>2. r.kind = "complete" => Known(r.item)'
      <4>. PICK i : i = r.item
          OBVIOUS
      <4>1. Known(i) => Known(i)'
          BY <1>1, <1>2, KnownStays
      <4>. QED  BY <2>1, <4>1 DEF ProposalFits
    <3>3. ProposalFits(q, r)'
        BY <2>1, <2>3, <3>1, <3>2 DEF ProposalFits
    <3>. QED  BY <1>1, <3>3
  <2>. QED  BY <2>2, <2>3
<1>5. ProposalsFit'
    BY <1>4 DEF ProposalsFit
<1>6. ASSUME NEW q \in LifeProposals, NEW r, r = proposal[q], Refused(q, r), <<q, 0>> \notin receipts'
      PROVE  Refused(q, r)'
  <2>1. ProposalFits(q, r)
      BY <1>1, <1>6 DEF ProposalsFit
  <2>2. r.kind = "complete" => Known(r.item) /\ r.item.id \notin Captures
      BY <2>1 DEF ProposalFits
  <2>. QED  BY <1>1, <1>2, <1>6, <2>2, RefusedStays
<1>7. ASSUME NEW m \in posts'
      PROVE  PostFits(m, proposal[m.by])'
  <2>. PICK r : r = proposal[m.by]
      OBVIOUS
  <2>1. m \in Post /\ m.by \in LifeProposals
      BY <1>2 DEF LifeShape, Post
  <2>2. CASE m \in posts
    <3>1. PostFits(m, r)
        BY <1>1, <2>2 DEF PostsFit
    <3>2. m.reply = "conflict" => <<m.by, 0>> \notin receipts'
        BY <3>1 DEF PostFits, Refused
    <3>3. m.reply = "conflict" => Refused(m.by, r)'
        BY <1>6, <2>1, <3>1, <3>2 DEF PostFits
    <3>. QED  BY <1>1, <3>1, <3>3 DEF PostFits
  <2>3. CASE /\ m.by = p /\ m.id = <<p, 0>> /\ proposal[p].kind # "none"
             /\ m.reply = "ok" => <<p, 0>> \in receipts'
             /\ m.reply = "conflict" => Refused(p, proposal[p]) /\ <<p, 0>> \notin receipts'
    <3>1. m.reply = "conflict" => Refused(m.by, r)'
        BY <1>6, <2>1, <2>3
    <3>. QED  BY <1>1, <2>3, <3>1 DEF PostFits
  <2>. QED  BY <2>2, <2>3
<1>8. PostsFit'
    BY <1>7 DEF PostsFit
<1>. QED  BY <1>2, <1>3, <1>5, <1>8 DEF LifeIInv

\* The gateway takes a request.
LEMMA GatewayTakesStep ==
    ASSUME LifeIInv, NEW m \in posts, GatewayTakes(m)
    PROVE  LifeIInv'
<1>. PICK p : p = m.by
    OBVIOUS
<1>. PICK r : r = proposal[p]
    OBVIOUS
<1>1. /\ m \in Post /\ p \in LifeProposals /\ PostFits(m, r) /\ LifeShape
      /\ UNCHANGED <<thought, lifeUI, proposal>>
    BY DEF LifeIInv, LifeShape, PostsFit, Post, GatewayTakes
<1>2. r \in Proposal /\ ProposalFits(p, r) /\ r.kind # "none" /\ m.id = <<p, 0>>
    BY <1>1, ProposalIs DEF PostFits
<1>3. PICK known \in BOOLEAN : known <=> m.id \in receipts
    OBVIOUS
<1>4. PICK fits \in BOOLEAN : fits <=> (IF r.kind = "create" THEN r.item.id \notin made
                                        ELSE TaskItem(r.item.id) = r.item /\ ~r.item.done)
    OBVIOUS
<1>. PICK reply : reply = IF known \/ fits THEN "ok" ELSE "conflict"
    OBVIOUS
<1>. PICK n : n = [m EXCEPT !.reply = reply]
    OBVIOUS
<1>5. /\ posts' \subseteq posts \union {n}
      /\ IF fits /\ ~known
         THEN /\ receipts' = receipts \union {m.id}
              /\ made' = IF r.kind = "create" THEN made \union {r.item.id} ELSE made
              /\ cloud' = IF r.kind = "create" THEN cloud
                          ELSE [cloud EXCEPT ![r.item.id] = [etag |-> @.etag + 1, done |-> TRUE]]
         ELSE UNCHANGED nextcloud
    BY <1>3, <1>4 DEF GatewayTakes
<1>6. n \in Post /\ n.by = p /\ n.id = <<p, 0>> /\ n.reply = reply
  <2>1. reply \in {"none", "ok", "conflict"}
      OBVIOUS
  <2>. QED  BY ONLY <1>1, <1>2, <2>1, p = m.by, n = [m EXCEPT !.reply = reply] DEF Post
<1>7. fits => ~Refused(p, r)
    BY <1>2, <1>4 DEF Refused, Proposal
<1>8. ~fits /\ ~known => Refused(p, r)
    BY <1>2, <1>3, <1>4 DEF Refused, Proposal
<1>9. CASE fits /\ ~known
  <2>1. receipts' = receipts \union {<<p, 0>>} /\ reply = "ok"
      BY <1>2, <1>5, <1>9
  <2>2. /\ cloud' \in [LifeTasks -> [etag : Nat, done : BOOLEAN]] /\ CloudGrows
        /\ made \subseteq made' /\ made' \subseteq Captures
    <3>1. CASE r.kind = "create"
      <4>1. r.item.id \in Captures /\ made' = made \union {r.item.id} /\ cloud' = cloud
          BY <1>2, <1>5, <1>9, <3>1 DEF ProposalFits
      <4>. QED  BY <1>1, <4>1 DEF LifeShape, CloudGrows
    <3>2. CASE r.kind = "complete"
      <4>1. PICK t \in LifeTasks : t = r.item.id
          BY <1>2, <3>2 DEF ProposalFits, Known, Item
      <4>2. made' = made /\ cloud' = [cloud EXCEPT ![t] = [etag |-> cloud[t].etag + 1, done |-> TRUE]]
          BY <1>1, <1>5, <1>9, <3>2, <4>1 DEF LifeShape
      <4>3. cloud[t].etag \in Nat
          BY <1>1 DEF LifeShape
      <4>4. cloud' \in [LifeTasks -> [etag : Nat, done : BOOLEAN]]
          BY <1>1, <4>2, <4>3 DEF LifeShape
      <4>5. \A u \in LifeTasks : cloud'[u] = cloud[u] \/ cloud'[u].etag > cloud[u].etag
          BY <1>1, <4>2, <4>3 DEF LifeShape
      <4>. QED  BY <1>1, <4>2, <4>4, <4>5 DEF LifeShape, CloudGrows
    <3>. QED  BY <1>2, <3>1, <3>2 DEF Proposal
  <2>3. \A k \in posts' : \/ k \in posts
                          \/ /\ k \in Post /\ k.by = p /\ k.id = <<p, 0>> /\ proposal[p].kind # "none"
                             /\ k.reply = "ok" => <<p, 0>> \in receipts'
                             /\ k.reply = "conflict" => Refused(p, proposal[p]) /\ <<p, 0>> \notin receipts'
      BY <1>2, <1>5, <1>6, <2>1
  <2>. QED  BY <1>1, <1>2, <1>7, <1>9, <2>1, <2>2, <2>3, CloudStep
<1>10. CASE ~(fits /\ ~known)
  <2>1. cloud' = cloud /\ made' = made /\ receipts' = receipts
      BY <1>5, <1>10 DEF nextcloud
  <2>2. cloud' \in [LifeTasks -> [etag : Nat, done : BOOLEAN]] /\ CloudGrows /\ made' \subseteq Captures
      BY <1>1, <2>1 DEF LifeShape, CloudGrows
  <2>3. (reply = "ok" => <<p, 0>> \in receipts') /\ (reply = "conflict" => Refused(p, r) /\ <<p, 0>> \notin receipts')
      BY <1>2, <1>3, <1>8, <1>10, <2>1
  <2>4. \A k \in posts' : \/ k \in posts
                          \/ /\ k \in Post /\ k.by = p /\ k.id = <<p, 0>> /\ proposal[p].kind # "none"
                             /\ k.reply = "ok" => <<p, 0>> \in receipts'
                             /\ k.reply = "conflict" => Refused(p, proposal[p]) /\ <<p, 0>> \notin receipts'
      BY <1>2, <1>5, <1>6, <2>3
  <2>. QED  BY <1>1, <2>1, <2>2, <2>4, CloudStep
<1>. QED  BY <1>9, <1>10

\* Somebody edits a task in Nextcloud.
LEMMA EditedElsewhereStep ==
    ASSUME LifeIInv, NEW t \in LifeTasks, EditedElsewhere(t)
    PROVE  LifeIInv'
<1>1. LifeShape /\ UNCHANGED <<thought, made, receipts, posts, lifeUI, proposal>>
    BY DEF LifeIInv, EditedElsewhere
<1>2. PICK done \in BOOLEAN : cloud' = [cloud EXCEPT ![t] = [etag |-> cloud[t].etag + 1, done |-> done]]
    BY <1>1 DEF EditedElsewhere, LifeShape
<1>3. cloud[t].etag \in Nat
    BY <1>1 DEF LifeShape
<1>4. cloud' \in [LifeTasks -> [etag : Nat, done : BOOLEAN]]
    BY <1>1, <1>2, <1>3 DEF LifeShape
<1>5. \A u \in LifeTasks : cloud'[u] = cloud[u] \/ cloud'[u].etag > cloud[u].etag
    BY <1>1, <1>2, <1>3 DEF LifeShape
<1>6. CloudGrows /\ made' \subseteq Captures
    BY <1>1, <1>5 DEF LifeShape, CloudGrows
<1>7. CASE LifeProposals # {}
    BY <1>1, <1>4, <1>6, <1>7, CloudStep
<1>8. CASE LifeProposals = {}
  <2>1. LifeShape'
      BY <1>1, <1>4 DEF LifeShape, lifeUI
  <2>2. ThoughtsFit'
      BY <1>1 DEF LifeIInv, ThoughtsFit
  <2>3. ViewFits'
      BY <1>1, <1>6, <2>1, ViewRests DEF LifeIInv, lifeUI
  <2>4. posts' = {}
      BY <1>1, <1>8 DEF LifeShape, Post
  <2>5. ProposalsFit' /\ PostsFit'
      BY <1>8, <2>4 DEF ProposalsFit, PostsFit
  <2>. QED  BY <2>1, <2>2, <2>3, <2>5 DEF LifeIInv
<1>. QED  BY <1>7, <1>8

\* The power fails: a name that was not on the disk may go, the thought's message is there.
LEMMA PowerFailsStep ==
    ASSUME LifeIInv, PowerFails
    PROVE  LifeIInv'
<1>1. /\ LifeShape /\ ThoughtsFit /\ ViewFits /\ ProposalsFit /\ PostsFit
      /\ UNCHANGED <<nextcloud, cloud, made, receipts, posts, lifeCard>> /\ lifeClicks' = {} /\ modals' = {}
    BY DEF LifeIInv, PowerFails, nextcloud
<1>2. \A i : Known(i)' <=> Known(i)
    BY <1>1, CloudRests
<1>3. \A c \in Captures : thought'[c] \in Thought /\ ThoughtFits(thought'[c])
  <2>. SUFFICES ASSUME NEW c \in Captures
                PROVE  thought'[c] \in Thought /\ ThoughtFits(thought'[c])
      OBVIOUS
  <2>. PICK o : o = thought[c]
      OBVIOUS
  <2>1. o \in Thought /\ ThoughtFits(o)
      BY <1>1 DEF LifeShape, ThoughtsFit
  <2>2. PICK lost \in SUBSET {d \in Captures : thought[d].entry = "cached"} :
            thought' = [d \in Captures |-> [thought[d] EXCEPT !.pc = "over",
                !.entry = IF d \in lost THEN "none" ELSE IF @ = "cached" THEN "durable" ELSE @]]
      BY DEF PowerFails
  <2>. PICK e : e = IF c \in lost THEN "none" ELSE IF o.entry = "cached" THEN "durable" ELSE o.entry
      OBVIOUS
  <2>. PICK t : t = [o EXCEPT !.pc = "over", !.entry = e]
      OBVIOUS
  <2>3. thought'[c] = t
    <3>1. thought'[c] = [o EXCEPT !.pc = "over",
                !.entry = IF c \in lost THEN "none" ELSE IF @ = "cached" THEN "durable" ELSE @]
        BY <2>2
    <3>. QED  BY <2>1, <3>1 DEF Thought
  <2>4. t = [pc |-> "over", entry |-> e, whole |-> o.whole, message |-> o.message, told |-> o.told]
      BY ONLY <2>1, t = [o EXCEPT !.pc = "over", !.entry = e] DEF Thought
  <2>5. /\ e \in {"none", "cached", "durable"} /\ (e # "none" => o.whole)
        /\ o.message \/ (e = "durable" /\ o.whole)
    <3>1. CASE c \in lost
      <4>1. o.entry = "cached" /\ e = "none"
          BY <2>2, <3>1
      <4>. QED  BY <2>1, <4>1 DEF ThoughtFits
    <3>2. CASE c \notin lost
        BY <2>1, <3>2 DEF Thought, ThoughtFits
    <3>. QED  BY <3>1, <3>2
  <2>6. t \in Thought
      BY ONLY <2>1, <2>4, <2>5 DEF Thought
  <2>7. ThoughtFits(t)
      BY ONLY <2>4, <2>5 DEF ThoughtFits
  <2>. QED  BY <2>3, <2>6, <2>7
<1>4. thought' \in [Captures -> Thought] /\ ThoughtsFit'
  <2>1. PICK lost : thought' = [c \in Captures |-> [thought[c] EXCEPT !.pc = "over",
            !.entry = IF c \in lost THEN "none" ELSE IF @ = "cached" THEN "durable" ELSE @]]
      BY DEF PowerFails
  <2>. DEFINE F(c) == [thought[c] EXCEPT !.pc = "over",
            !.entry = IF c \in lost THEN "none" ELSE IF @ = "cached" THEN "durable" ELSE @]
  <2>2. thought' = [c \in Captures |-> F(c)]
      BY <2>1
  <2>. HIDE DEF F
  <2>3. thought' \in [Captures -> Thought]
      BY <1>3, <2>2
  <2>. QED  BY <1>3, <2>3 DEF ThoughtsFit
<1>5. ViewFits'
  <2>. PICK o : o = life
      OBVIOUS
  <2>1. life' = [o EXCEPT !.open = FALSE, !.lock = "free"] /\ o \in LifeView
      BY <1>1 DEF PowerFails, SetLife, ViewFits
  <2>2. life' \in LifeView /\ life'.items = o.items /\ life'.selected = o.selected
      BY ONLY <2>1 DEF LifeView
  <2>. QED  BY <1>1, <1>2, <2>2 DEF ViewFits
<1>6. \A p \in LifeProposals :
          /\ proposal'[p] \in Proposal /\ ProposalFits(p, proposal'[p])
          /\ proposal'[p].kind = proposal[p].kind /\ proposal'[p].item = proposal[p].item
  <2>. SUFFICES ASSUME NEW p \in LifeProposals
                PROVE  /\ proposal'[p] \in Proposal /\ ProposalFits(p, proposal'[p])
                       /\ proposal'[p].kind = proposal[p].kind /\ proposal'[p].item = proposal[p].item
      OBVIOUS
  <2>. PICK o : o = proposal[p]
      OBVIOUS
  <2>. PICK s : s = IF o.state = "open" THEN "expired" ELSE o.state
      OBVIOUS
  <2>. PICK r : r = [o EXCEPT !.calling = FALSE, !.waiting = {}, !.state = s]
      OBVIOUS
  <2>1. o \in Proposal /\ ProposalFits(p, o)
      BY <1>1 DEF LifeShape, ProposalsFit
  <2>2. proposal'[p] = r
    <3>1. proposal'[p] = [o EXCEPT !.calling = FALSE, !.waiting = {}, !.state = IF @ = "open" THEN "expired" ELSE @]
        BY DEF PowerFails
    <3>. QED  BY <2>1, <3>1 DEF Proposal
  <2>3. s \in {"open", "done", "cancelled", "expired"} /\ {} \in SUBSET {"confirm", "cancel"}
        /\ (s = "done" => o.state = "done")
      BY <2>1 DEF Proposal
  <2>4. /\ r \in Proposal /\ r.kind = o.kind /\ r.item = o.item /\ r.seen = o.seen /\ r.drawn = o.drawn
        /\ r.waiting = {} /\ r.state = s /\ r.told = o.told /\ ~r.calling
      BY ONLY <2>1, <2>3, r = [o EXCEPT !.calling = FALSE, !.waiting = {}, !.state = s] DEF Proposal
  <2>5. ProposalFits(p, r)
      BY <2>1, <2>3, <2>4 DEF ProposalFits, Refused
  <2>. QED  BY <2>2, <2>4, <2>5
<1>7. proposal' \in [LifeProposals -> Proposal]
  <2>. DEFINE F(p) == [proposal[p] EXCEPT !.calling = FALSE, !.waiting = {},
                       !.state = IF @ = "open" THEN "expired" ELSE @]
  <2>1. proposal' = [p \in LifeProposals |-> F(p)]
      BY DEF PowerFails
  <2>. HIDE DEF F
  <2>. QED  BY <1>6, <2>1
<1>8. ProposalsFit'
    BY <1>1, <1>6, CloudRests DEF ProposalsFit
<1>9. PostsFit'
  <2>. SUFFICES ASSUME NEW m \in posts
                PROVE  PostFits(m, proposal'[m.by])
      BY <1>1, CloudRests DEF PostsFit
  <2>1. m.by \in LifeProposals /\ PostFits(m, proposal[m.by])
      BY <1>1 DEF LifeShape, Post, PostsFit
  <2>. QED  BY <1>6, <2>1 DEF PostFits, Refused
<1>10. LifeShape'
    BY <1>1, <1>4, <1>7 DEF LifeShape
<1>. QED  BY <1>4, <1>5, <1>8, <1>9, <1>10 DEF LifeIInv

\* A step of the Life inbox.
LEMMA LifeGoesOn ==
    ASSUME LifeIInv, LifeNext
    PROVE  LifeIInv'
<1>1. ASSUME NEW c \in Captures, StoreThought(c) \/ StoreFails(c) \/ AnswerThought(c) \/ Classify(c)
      PROVE  LifeIInv'
    BY <1>1, StoreThoughtStep, StoreFailsStep, AnswerThoughtStep, ClassifyStep
<1>2. ASSUME NEW p \in LifeProposals,
             \/ PressProposal(p, "confirm") \/ PressProposal(p, "cancel")
             \/ Confirm(p) \/ CancelProposal(p) \/ ExpireProposal(p)
      PROVE  LifeIInv'
    BY <1>2, PressProposalStep, ConfirmStep, CancelProposalStep, ExpireProposalStep
<1>3. ASSUME NEW m \in posts, GatewayTakes(m) \/ TakeAnswer(m) \/ GiveUp(m)
      PROVE  LifeIInv'
    BY <1>3, GatewayTakesStep, AnsweredStep
<1>4. ASSUME \/ \E c \in lifeClicks : StartLoad(c) \/ SelectItem(c) \/ ActOn(c)
             \/ \E c \in modals : SendModal(c)
      PROVE  LifeIInv'
    BY <1>4, LoadingStep, ProposingStep
<1>5. ASSUME PressLife \/ Loaded \/ DrawLife \/ ExpireLife \/ PowerFails
      PROVE  LifeIInv'
    BY <1>5, PressLifeStep, LoadingStep, PowerFailsStep
<1>. QED  BY <1>1, <1>2, <1>3, <1>4, <1>5, EditedElsewhereStep DEF LifeNext

\* Nothing happens to the Life inbox.
LEMMA LifeRests ==
    ASSUME LifeIInv, UNCHANGED lifeVars
    PROVE  LifeIInv'
<1>1. UNCHANGED <<thought, nextcloud, posts, life, lifeCard, lifeClicks, modals, proposal>>
    BY DEF lifeVars, nextcloud
<1>2. ViewFits' /\ modals' \subseteq Captures
    BY <1>1, CloudRests DEF LifeIInv, LifeShape, ViewFits
<1>. QED  BY <1>1, <1>2, ViewStep

\* The Life inbox begins.
LEMMA LifeStarts ==
    ASSUME LifeInit
    PROVE  LifeIInv
<1>1. PICK typed \in SUBSET Captures :
          thought = [c \in Captures |-> IF c \in typed THEN NewThought ELSE OldThought]
    BY DEF LifeInit
<1>2. /\ cloud = [t \in LifeTasks |-> [etag |-> 1, done |-> FALSE]]
      /\ made = {} /\ receipts = {} /\ posts = {} /\ lifeCard = Shows(life) /\ lifeClicks = {} /\ modals = {}
      /\ proposal = [p \in LifeProposals |-> NoProposal]
    BY DEF LifeInit
<1>3. NewThought \in Thought /\ ThoughtFits(NewThought) /\ OldThought \in Thought /\ ThoughtFits(OldThought)
    BY DEF NewThought, OldThought, Thought, ThoughtFits
<1>4. thought \in [Captures -> Thought] /\ ThoughtsFit
    BY <1>1, <1>3 DEF ThoughtsFit
<1>5. NoProposal \in Proposal
  <2>1. {} \in SUBSET {"confirm", "cancel"} /\ 0 \in Nat
      OBVIOUS
  <2>. QED  BY ONLY <2>1 DEF NoProposal, Proposal
<1>6. \A p : ProposalFits(p, NoProposal)
    BY <1>2 DEF ProposalFits, NoProposal
<1>7. cloud \in [LifeTasks -> [etag : Nat, done : BOOLEAN]]
    BY <1>2
<1>8. LifeShape
    BY <1>2, <1>4, <1>5, <1>7 DEF LifeShape
<1>9. ProposalsFit /\ PostsFit
    BY <1>2, <1>6 DEF ProposalsFit, PostsFit
<1>10. PICK mode, items, selected :
          /\ mode \in Modes
          /\ life = [open |-> TRUE, lock |-> "free", mode |-> mode, items |-> items, selected |-> selected]
          /\ selected \in items \union {NoItem} /\ \A i \in items : Known(i)
  <2>1. CASE \E i \in Listed("captures") :
                life = [open |-> TRUE, lock |-> "free", mode |-> "captures", items |-> {i}, selected |-> i]
    <3>1. PICK i \in Listed("captures") :
                life = [open |-> TRUE, lock |-> "free", mode |-> "captures", items |-> {i}, selected |-> i]
        BY <2>1
    <3>. PICK l : l = {i}
        OBVIOUS
    <3>2. (\A k \in l : Known(k)) /\ i \in l \union {NoItem} /\ "captures" \in Modes
        BY <1>8, ListedIsKnown DEF Modes
    <3>3. life = [open |-> TRUE, lock |-> "free", mode |-> "captures", items |-> l, selected |-> i]
        BY <3>1
    <3>. QED  BY <3>2, <3>3
  <2>2. CASE \E mode \in Modes : life = [open |-> TRUE, lock |-> "free", mode |-> mode,
                                         items |-> Listed(mode), selected |-> NoItem]
    <3>1. PICK mode \in Modes : life = [open |-> TRUE, lock |-> "free", mode |-> mode,
                                        items |-> Listed(mode), selected |-> NoItem]
        BY <2>2
    <3>. PICK l : l = Listed(mode)
        OBVIOUS
    <3>2. \A i \in l : Known(i)
        BY <1>8, ListedIsKnown
    <3>3. life = [open |-> TRUE, lock |-> "free", mode |-> mode, items |-> l, selected |-> NoItem]
        BY <3>1
    <3>4. NoItem \in l \union {NoItem}
        OBVIOUS
    <3>. QED  BY <3>2, <3>3, <3>4
  <2>. QED  BY <2>1, <2>2 DEF LifeInit
<1>11. life \in LifeView
  <2>1. items \in SUBSET Item /\ selected \in Item \union {NoItem}
      BY <1>10 DEF Known
  <2>. QED  BY <1>10, <2>1 DEF LifeView
<1>12. lifeCard.items = items /\ lifeCard.selected = selected
    BY <1>2, <1>10 DEF Shows
<1>13. ViewFits
    BY <1>2, <1>10, <1>11, <1>12 DEF ViewFits
<1>. QED  BY <1>4, <1>8, <1>9, <1>13 DEF LifeIInv

\* What the invariant of the Life inbox says follows from the inductive one.
LEMMA LifeIsRight ==
    ASSUME LifeIInv
    PROVE  LifeInv
<1>1. LifeShape /\ ThoughtsFit /\ ViewFits /\ receipts \subseteq LifeProposals \X {0}
    BY DEF LifeIInv, LifeShape
<1>2. LifeTypeOK
    BY <1>1 DEF LifeTypeOK, LifeShape, ViewFits, LifeView
<1>3. ThoughtKept
    BY <1>1 DEF ThoughtKept, ThoughtsFit, ThoughtFits
<1>4. \A p \in LifeProposals : ProposalFits(p, proposal[p])
    BY DEF LifeIInv, ProposalsFit
<1>5. ProposedAsShown
    BY <1>4 DEF ProposedAsShown, ProposalFits
<1>6. RefusedOnlyByOthers
    BY <1>1, <1>4 DEF RefusedOnlyByOthers, ProposalFits, Refused
<1>7. ClosedAsSaid
    BY <1>1, <1>4 DEF ClosedAsSaid, ProposalFits
<1>. QED  BY <1>2, <1>3, <1>5, <1>6, <1>7 DEF LifeInv

\* However captures, confirmations, answers, edits elsewhere and power failures interleave,
\* the thoughts, the view, the proposals and the requests fit one another.
THEOREM LifeInvariance == LifeSpec => []LifeIInv
<1>1. LifeIInv /\ [LifeNext]_lifeVars => LifeIInv'
    BY LifeGoesOn, LifeRests
<1>. QED  BY <1>1, LifeStarts, PTL DEF LifeSpec

\* A thought is never lost, a proposal is for what the owner saw, and its card never says
\* refused of what it did, or done or cancelled of what was not.
THEOREM LifeHolds == LifeSpec => []LifeInv
  BY LifeInvariance, LifeIsRight, PTL

=============================================================================
