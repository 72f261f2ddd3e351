--------------------------- MODULE MusicRequests ---------------------------
(***************************************************************************)
(* $music: a track is chosen from the results, confirmed, and asked of     *)
(* SoulSync once; $status writes what SoulSync and the library say into    *)
(* the same rows.                                                          *)
(*                                                                         *)
(* A card is one $music command: its search view and the confirmation      *)
(* views that were opened from it.  The pages of the search turn as those  *)
(* of SearchCards do.  SoulSync is external: it owns the jobs.             *)
(***************************************************************************)
EXTENDS Naturals, FiniteSets, Sequences, SequencesExt

CONSTANTS
    MusicCards,
    Tracks,
    TrackOf,        \* the track that a card's member is after
    Similar,        \* pairs of tracks of which one query contains the other
    MusicMember,         \* the member of a card
    Scope,          \* its server, or Direct
    Direct,
    Hasty,          \* the cards whose member may click a result twice
    RecentHours,    \* max_age_minutes: how long a row blocks another request of its track
    MaxHour,        \* bound: the hours that pass
    MaxMusicFaults  \* bound: calls that fail

ASSUME MusicAssumption ==
    /\ TrackOf \in [MusicCards -> Tracks] /\ IsFiniteSet(MusicCards) /\ Similar \subseteq Tracks \X Tracks
    /\ {RecentHours, MaxHour, MaxMusicFaults} \subseteq Nat

VARIABLES
    music,        \* music_requests
    mcard,        \* what the message of a card shows, its search view, whether its command is there
    confirm,      \* the confirmation views of a card, oldest first
    jobs,         \* what SoulSync has taken on
    library,      \* the tracks in its library
    refresh,      \* a $status between its read and its write
    hour,         \* the database's clock
    musicFaults

musicVars == <<music, mcard, confirm, jobs, library, refresh, hour, musicFaults>>

-----------------------------------------------------------------------------
\* "queued" is also searching and downloading, "failed" also not_found
Live == {"submitting", "ambiguous", "queued", "downloaded", "completed"}
JobStates == {"queued", "completed", "failed"}
Row == [track : Tracks, card : MusicCards, status : Live \union {"failed"},
        job : Nat,        \* the number of its job, soulsync_request_id, or 0
        created : Nat]    \* created_at, which no later write moves
Job == [row : Nat, state : JobStates]    \* row: the request that it came of
View == [pc : {"shown", "checking", "sending", "over"}, row : Nat]
Idle == [row |-> 0, seen |-> "none"]

\* some of the commands are given
MusicInit ==
    /\ music = <<>>
    /\ \E given \in SUBSET MusicCards :
          mcard = [c \in MusicCards |-> [shows |-> IF c \in given THEN "search" ELSE "gone",
                                         over |-> c \notin given, picks |-> 0,
                                         command |-> c \in given]]
    /\ confirm = [c \in MusicCards |-> <<>>]
    /\ jobs = <<>>
    /\ library \in SUBSET Tracks
    /\ refresh = Idle
    /\ hour = 0 /\ musicFaults = 0

MusicFault == musicFaults < MaxMusicFaults /\ musicFaults' = musicFaults + 1
MusicWorks == UNCHANGED musicFaults

ShowMusic(c, what) == mcard' = [mcard EXCEPT ![c].shows = what]
SetView(c, v, pc, row) == confirm' = [confirm EXCEPT ![c][v] = [pc |-> pc, row |-> row]]

\* cleanup_unsuccessful_request: the message goes, and the command with it
Removed(c) == [mcard EXCEPT ![c] = [@ EXCEPT !.shows = "gone", !.over = TRUE, !.command = FALSE]]

-----------------------------------------------------------------------------
(***************************************************************************)
(* The search.                                                             *)
(***************************************************************************)

\* A click on a result is dispatched while the view is not stopped, and then waits for
\* action_lock: a double click puts two there.
ClickTrack(c) ==
    /\ mcard[c].shows = "search" /\ ~mcard[c].over /\ mcard[c].picks < (IF c \in Hasty THEN 2 ELSE 1)
    /\ mcard' = [mcard EXCEPT ![c].picks = @ + 1]
    /\ UNCHANGED <<music, confirm, jobs, library, refresh, hour, musicFaults>>

\* select_track does not ask whether the view is over: it opens one more confirmation.
SelectTrack(c) ==
    LET r == [mcard[c] EXCEPT !.picks = @ - 1, !.over = TRUE] IN
    /\ mcard[c].picks > 0
    /\ \/ /\ MusicWorks
          /\ mcard' = [mcard EXCEPT ![c] = [r EXCEPT !.shows = IF @ = "gone" THEN "gone" ELSE "confirm"]]
          /\ confirm' = [confirm EXCEPT ![c] = Append(@, [pc |-> "shown", row |-> 0])]
       \/ /\ MusicFault
          /\ mcard' = [mcard EXCEPT ![c] = r]
          /\ UNCHANGED confirm
    /\ UNCHANGED <<music, jobs, library, refresh, hour>>

\* Dismiss, or the timeout of the search
CloseMusicSearch(c) ==
    /\ ~mcard[c].over
    /\ mcard' = Removed(c)
    /\ UNCHANGED <<music, confirm, jobs, library, refresh, hour, musicFaults>>

-----------------------------------------------------------------------------
(***************************************************************************)
(* The confirmation.  The message has the buttons of the newest view; the  *)
(* older ones only wait for their timeout.                                 *)
(***************************************************************************)
ConfirmTrack(c) ==
    LET v == Len(confirm[c]) IN
    /\ mcard[c].shows = "confirm" /\ v > 0 /\ confirm[c][v].pc = "shown"
    /\ SetView(c, v, "checking", 0)
    /\ ShowMusic(c, "checking")
    /\ UNCHANGED <<music, jobs, library, refresh, hour, musicFaults>>

\* mutant: only a request under way counts, one without an answer does not
RecentAnswered(c) ==
    {i \in DOMAIN music : /\ music[i].track = TrackOf[c] /\ music[i].status \in Live \ {"ambiguous"}
                          /\ hour <= music[i].created + RecentHours
                          /\ Scope[c] = Direct \/ Scope[music[i].card] = Scope[c]}

\* mutant: a row that is a day old to the hour does not count
RecentBefore(c) ==
    {i \in DOMAIN music : /\ music[i].track = TrackOf[c] /\ music[i].status \in Live
                          /\ hour < music[i].created + RecentHours
                          /\ Scope[c] = Direct \/ Scope[music[i].card] = Scope[c]}

\* recent_music_request: a row of the last day that has not failed, of this server, or of
\* any when the confirmation is in a DM.  An older one blocks nothing, whatever became of it.
Recent(c) ==
    {i \in DOMAIN music : /\ music[i].track = TrackOf[c] /\ music[i].status \in Live
                          /\ hour <= music[i].created + RecentHours
                          /\ Scope[c] = Direct \/ Scope[music[i].card] = Scope[c]}

\* mutant: any row of the member will do
LatestOwn(c) == {i \in DOMAIN music : MusicMember[music[i].card] = MusicMember[c]}

\* latest_music_request finds the row of the same query, or else one whose query contains
\* it or is contained in it: the member's own, of any age.
Latest(c) ==
    LET own(t) == {i \in DOMAIN music : /\ music[i].track = t /\ MusicMember[music[i].card] = MusicMember[c]
                                        /\ Scope[c] = Direct \/ Scope[music[i].card] = Scope[c]}
        alike == UNION {own(t) : t \in {u \in Tracks : <<u, TrackOf[c]>> \in Similar}}
    IN  IF own(TrackOf[c]) # {} THEN own(TrackOf[c]) ELSE alike

\* mutant: a row begins with a status that no reader of the table knows
PendingRow(c, status) == [track |-> TrackOf[c], card |-> c, job |-> 0, created |-> hour,
                          status |-> IF status = "submitting" THEN "pending" ELSE status]

NewRow(c, status) == [track |-> TrackOf[c], card |-> c, status |-> status, job |-> 0,
                      created |-> hour]

\* The library has the track: its row is written, or the member's row alike, or a new one.
NoteDownloaded(c) ==
    \/ \E i \in Latest(c) : music' = [music EXCEPT ![i].status = "downloaded"]
    \/ Latest(c) = {} /\ music' = Append(music, NewRow(c, "downloaded"))

\* The library has answered, or could not: already there, a duplicate, or a row of its own
\* and SoulSync is asked.  Nothing is awaited between the check and the row.
CheckTrack(c, v) ==
    /\ confirm[c][v].pc = "checking"
    /\ \/ /\ TrackOf[c] \in library /\ MusicWorks
          /\ NoteDownloaded(c)
          /\ SetView(c, v, "over", 0) /\ ShowMusic(c, "library")
       \/ /\ \/ TrackOf[c] \notin library /\ MusicWorks
             \/ MusicFault
          /\ \/ /\ Recent(c) # {}
                /\ SetView(c, v, "over", 0) /\ mcard' = Removed(c)
                /\ UNCHANGED music
             \/ /\ Recent(c) = {}
                /\ music' = Append(music, NewRow(c, "submitting"))
                /\ SetView(c, v, "sending", Len(music'))
                /\ UNCHANGED mcard
    /\ UNCHANGED <<jobs, library, refresh, hour>>

\* mutant: SoulSync's answer replaces the row's number whether it has one or not
Overwritten(i, status, job) == [music EXCEPT ![i].status = status, ![i].job = job]

\* update_music_request keeps the number SoulSync gave when it is told none
Updated(i, status, job) ==
    [music EXCEPT ![i].status = status, ![i].job = IF job = 0 THEN @ ELSE job]

\* create_music_request: SoulSync takes the job on and says so; it says no; or a failure
\* leaves open what it did, and the row stays to block another try.
SendTrack(c, v) ==
    LET i == confirm[c][v].row
        taken == Append(jobs, [row |-> i, state |-> "queued"])
    IN
    /\ confirm[c][v].pc = "sending"
    /\ SetView(c, v, "over", i)
    /\ \/ /\ MusicWorks /\ jobs' = taken
          /\ music' = Updated(i, "queued", Len(taken))
          /\ ShowMusic(c, "accepted")
       \/ /\ MusicFault /\ jobs' \in {jobs, taken}
          /\ music' = Updated(i, "ambiguous", 0)
          /\ ShowMusic(c, "accepted")
       \/ /\ MusicWorks /\ UNCHANGED jobs
          /\ music' = Updated(i, "failed", 0)
          /\ mcard' = Removed(c)
    /\ UNCHANGED <<library, refresh, hour>>

\* The bot stops: no view is left, SoulSync may or may not have got what was being sent,
\* and the rows stay as they are.
StopMusic ==
    LET sending == {i \in DOMAIN music : \E c \in MusicCards : \E v \in DOMAIN confirm[c] :
                        confirm[c][v].pc = "sending" /\ confirm[c][v].row = i}
    IN
    /\ MusicFault
    /\ \E got \in SUBSET sending :
          jobs' = jobs \o [k \in 1..Cardinality(got) |-> [row |-> SetToSeq(got)[k], state |-> "queued"]]
    /\ confirm' = [c \in MusicCards |-> [v \in DOMAIN confirm[c] |-> [confirm[c][v] EXCEPT !.pc = "over"]]]
    /\ mcard' = [c \in MusicCards |-> [mcard[c] EXCEPT !.over = TRUE, !.picks = 0]]
    /\ refresh' = Idle
    /\ UNCHANGED <<music, library, hour>>

\* mutant: a view that has been confirmed times out all the same
UsableOrSent(view) == view.pc # "checking"

Usable(view) == view.pc = "shown"

\* Cancel, or the timeout of a view that was never confirmed
CloseConfirm(c, v) ==
    /\ Usable(confirm[c][v])
    /\ SetView(c, v, "over", 0)
    /\ mcard' = Removed(c)
    /\ UNCHANGED <<music, jobs, library, refresh, hour, musicFaults>>

-----------------------------------------------------------------------------
(***************************************************************************)
(* SoulSync, and $status.                                                  *)
(***************************************************************************)
WorkJob(j) ==
    /\ jobs[j].state = "queued"
    /\ \E s \in {"completed", "failed"} : jobs' = [jobs EXCEPT ![j].state = s]
    /\ library' = IF jobs'[j].state = "completed" THEN library \union {music[jobs[j].row].track} ELSE library
    /\ UNCHANGED <<music, mcard, confirm, refresh, hour, musicFaults>>

\* reply_with_music_status reads its row and asks the library, and SoulSync when the row
\* has a number.
ReadStatus(i) ==
    /\ refresh = Idle
    /\ \/ music[i].track \in library /\ refresh' = [row |-> i, seen |-> "downloaded"]
       \/ /\ music[i].track \notin library /\ music[i].job # 0
          /\ refresh' = [row |-> i, seen |-> jobs[music[i].job].state]
    /\ UNCHANGED <<music, mcard, confirm, jobs, library, hour, musicFaults>>

\* ... and writes what they said, with the number it read at first.
WriteStatus ==
    /\ refresh # Idle
    /\ \E job \in {0, music[refresh.row].job} : music' = Updated(refresh.row, refresh.seen, job)
    /\ refresh' = Idle
    /\ UNCHANGED <<mcard, confirm, jobs, library, hour, musicFaults>>

\* Time passes, whatever is under way.
PassHour ==
    /\ hour < MaxHour /\ hour' = hour + 1
    /\ UNCHANGED <<music, mcard, confirm, jobs, library, refresh, musicFaults>>

-----------------------------------------------------------------------------
MusicNext ==
    \/ \E c \in MusicCards :
          \/ ClickTrack(c) \/ SelectTrack(c) \/ CloseMusicSearch(c) \/ ConfirmTrack(c)
          \/ \E v \in DOMAIN confirm[c] :
                CheckTrack(c, v) \/ SendTrack(c, v) \/ CloseConfirm(c, v)
    \/ \E j \in DOMAIN jobs : WorkJob(j)
    \/ \E i \in DOMAIN music : ReadStatus(i)
    \/ WriteStatus \/ StopMusic \/ PassHour

MusicSpec == MusicInit /\ [][MusicNext]_musicVars

-----------------------------------------------------------------------------
(***************************************************************************)
(* Properties                                                              *)
(***************************************************************************)

\* Types of the variables.
MusicTypeOK ==
    /\ music \in Seq(Row) /\ jobs \in Seq(Job)
    /\ confirm \in [MusicCards -> Seq(View)]
    /\ \A i \in DOMAIN music : music[i].job \in {0} \union DOMAIN jobs
    /\ \A j \in DOMAIN jobs : jobs[j].row \in DOMAIN music
    /\ library \subseteq Tracks

\* Two requests for one track in one server, or in direct messages.  (A request made in a
\* DM is not seen from a server.)
Alike(r, s) == r.track = s.track /\ Scope[r.card] = Scope[s.card]

\* Whatever SoulSync answers, fails to answer or loses, and whoever confirms: of two jobs
\* for one track and server the one asked for first has failed, or more than a day lies
\* between the two requests.  Within a day SoulSync never works on a track twice; an older
\* request, answered or not, no longer keeps a second one back.
NoDuplicateDownload ==
    \A i, j \in DOMAIN jobs :
        LET first == music[jobs[i].row]
            second == music[jobs[j].row]
        IN  i # j /\ jobs[i].row <= jobs[j].row /\ Alike(first, second)
            => jobs[i].state = "failed" \/ second.created > first.created + RecentHours

\* SoulSync's number of a request is never lost or changed, although $status may write
\* back a row that it read before the number was there.
NumberKept ==
    [][\A i \in DOMAIN music : music[i].job # 0 => music'[i].job = music[i].job]_musicVars

\* A row says downloaded only when the library has the track, or one whose query contains
\* it or is contained in it.
DownloadedIsTrue ==
    \A i \in DOMAIN music : music[i].status = "downloaded" =>
        \E t \in library : t = music[i].track \/ <<music[i].track, t>> \in Similar

\* The message of an accepted request stays, and so does its command: no view that is
\* left over deletes them, as long as the result was not clicked twice.
AcceptedKept ==
    [][\A c \in MusicCards : mcard[c].shows = "accepted" /\ Len(confirm[c]) = 1 /\ mcard[c].picks = 0 =>
          mcard'[c].shows = "accepted" /\ mcard'[c].command]_musicVars

\* The invariant of the music cards, from its parts.
MusicInv == MusicTypeOK /\ NoDuplicateDownload /\ DownloadedIsTrue

\* What was accepted stays so: its number, and its card.
AcceptanceStands == NumberKept /\ AcceptedKept

=============================================================================
