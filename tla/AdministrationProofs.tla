------------------------ MODULE AdministrationProofs ------------------------
(***************************************************************************)
(* Proofs about what the background loops and the administrators keep: the *)
(* dashboard of an event (EventDashboard), the private review of a download *)
(* (TorrentReview), the owner's cards (OwnerCards) and reports with their  *)
(* tickets (MediaReports), for every value of their constants.             *)
(***************************************************************************)
EXTENDS EventDashboard, TorrentReview, OwnerCards, MediaReports,
        FiniteSetTheorems, SequenceTheorems, TLAPS

-----------------------------------------------------------------------------
(***************************************************************************)
(* The dashboard of an event.                                              *)
(***************************************************************************)

\* A record that was read is not newer than the event, and of the same revision only
\* if it says the same.
Dated(x) == x.revision <= plan.revision /\ (x.revision = plan.revision => x = Now)

RecordShape ==
    /\ Dated(dashboard.head) /\ Dated(dashboard.body)
    /\ \A e \in Editors : Dated(editor[e].head)

\* Whoever redraws holds the lock, the card is stored by then, and no redraw before it
\* had a later record.  The card is posted once, before anyone stores or deletes it.
PlaceShape ==
    \A e \in Editors :
        /\ editor[e].pc \in {"fetch", "edit"} <=> redrawing = e
        /\ redrawing = e => plan.stored /\ dashboard.head.revision <= editor[e].head.revision
        /\ At(e, "delete") => plan.stored
        /\ At(e, "post") =>
              /\ dashboard.up = "none" /\ ~plan.stored /\ editor[e].head.status \in LiveStatus
              /\ \A f \in Editors \ {e} : editor[f].pc \notin {"post", "save"}

\* A redraw with the present record is on its way.
Due(e) == \/ editor[e].pc \in {"answer", "lock"}
          \/ editor[e].pc \in {"fetch", "edit"} /\ editor[e].head = Now

\* What a card shows, or is about to show at its posting, is the event as it is, or
\* else a redraw is due or was lost; the archive takes the card with it likewise.
RedrawShape ==
    ~missed =>
        /\ plan.status = "archived" /\ dashboard.up # "gone" =>
              \E e \in Editors : At(e, "delete")
        /\ plan.status # "archived" =>
              \/ \E e \in Editors : Due(e)
              \/ /\ dashboard.up = "up" => dashboard.head = Now /\ dashboard.body = Now
                 /\ \A e \in Editors : At(e, "post") => editor[e].head = Now

\* A card that is or is about to be stored has a handler for its buttons.
ButtonShape ==
    (plan.stored \/ \E e \in Editors : At(e, "save")) /\ dashboard.up = "up" /\ ~missed
        /\ plan.status \in LiveStatus /\ dashboard.head.status \in LiveStatus
            => dashboard.head.status \in answered

\* The inductive invariant of the dashboard.
DashIInv == DashTypeOK /\ RecordShape /\ PlaceShape /\ RedrawShape /\ ButtonShape

-----------------------------------------------------------------------------
\* A handler that goes on keeps its record; the others stay where they are.
LEMMA EditorMoves ==
    ASSUME DashTypeOK, NEW e \in Editors, NEW pc \in EditorPcs, Goto(e, pc)
    PROVE  /\ editor' \in [Editors -> [pc : EditorPcs, head : Seen]]
           /\ editor'[e].pc = pc /\ editor'[e].head = editor[e].head
           /\ \A f \in Editors \ {e} : editor'[f] = editor[f]
  BY DEF DashTypeOK, Goto

\* What the event says now is a record a handler may hold.
LEMMA NowTyped ==
    ASSUME DashTypeOK
    PROVE  /\ plan.status \in PlanStatus /\ plan.revision \in 0..MaxDashChanges
           /\ Now \in Seen /\ Now.status = plan.status /\ Now.revision = plan.revision
           /\ plan.stored \in BOOLEAN /\ MaxDashChanges \in Nat /\ MaxDashFaults \in Nat
           /\ dashFaults \in 0..MaxDashFaults /\ LiveStatus \subseteq PlanStatus
           /\ NoEditor \notin Editors
  BY DashboardAssumption DEF DashTypeOK, Now, Seen, PlanStatus, LiveStatus

\* An event that is created has its card to post, and nothing stored.
LEMMA DashStart == DashInit => DashIInv
<1> SUFFICES ASSUME DashInit PROVE DashIInv
  OBVIOUS
<1>1. /\ plan = [status |-> "open", revision |-> 0, stored |-> FALSE]
      /\ Now = [status |-> "open", revision |-> 0] /\ Now \in Seen
      /\ dashboard = [up |-> "none", head |-> Now, body |-> Now]
      /\ {MaxDashChanges, MaxDashFaults} \subseteq Nat /\ NoEditor \notin Editors
  BY DashboardAssumption DEF DashInit, Now, Seen, PlanStatus, LiveStatus
<1>2. PICK e \in Editors :
        editor = [f \in Editors |-> [pc |-> IF f = e THEN "post" ELSE "idle", head |-> Now]]
  BY DEF DashInit
<1>3. /\ \A f \in Editors : editor[f].head = Now /\ editor[f].pc \in {"post", "idle"}
      /\ \A f \in Editors \ {e} : editor[f].pc = "idle"
      /\ editor \in [Editors -> [pc : EditorPcs, head : Seen]]
  BY <1>1, <1>2 DEF EditorPcs
<1>4. DashTypeOK
  <2>1. plan \in [status : PlanStatus, revision : 0..MaxDashChanges, stored : BOOLEAN]
    BY <1>1 DEF PlanStatus, LiveStatus
  <2>2. dashboard \in [up : {"none", "up", "gone"}, head : Seen, body : Seen]
    BY <1>1
  <2>3. answered = {} /\ redrawing = NoEditor /\ missed = FALSE /\ dashFaults \in 0..MaxDashFaults
    BY <1>1 DEF DashInit
  <2>4. QED BY <1>3, <2>1, <2>2, <2>3 DEF DashTypeOK
<1>5. RecordShape
  BY <1>1, <1>3 DEF RecordShape, Dated
<1>6. PlaceShape
  BY <1>1, <1>3 DEF DashInit, PlaceShape, At, LiveStatus
<1>7. RedrawShape /\ ButtonShape
  BY <1>1, <1>3 DEF RedrawShape, ButtonShape
<1>8. QED BY <1>4, <1>5, <1>6, <1>7 DEF DashIInv

\* The card is posted once, and shows the record of its creation.
LEMMA PostCardStep ==
    ASSUME DashIInv, NEW e \in Editors, PostCard(e)
    PROVE  DashIInv'
<1>1. DashTypeOK /\ RecordShape /\ PlaceShape /\ RedrawShape /\ ButtonShape
  BY DEF DashIInv
<1>2. /\ At(e, "post") /\ UNCHANGED <<plan, redrawing, missed>> /\ Now' = Now
      /\ dashboard' = [up |-> "up", head |-> editor[e].head, body |-> editor[e].head]
      /\ dashboard.up = "none" /\ plan.stored = FALSE
      /\ \A f \in Editors \ {e} : editor[f].pc \notin {"post", "save"}
      /\ editor[e].head \in Seen /\ editor[e].head.status \in LiveStatus
  BY <1>1 DEF PostCard, PlaceShape, DashTypeOK, Seen, Now
<1>3. PICK pc \in {"save", "idle"} :
        /\ Goto(e, pc) /\ dashFaults' \in 0..MaxDashFaults
        /\ pc = "save" => answered' = answered \union {editor[e].head.status}
        /\ pc = "idle" => answered' = answered
  BY <1>1, NowTyped DEF PostCard, Lucky, Unlucky
<1>4. /\ editor' \in [Editors -> [pc : EditorPcs, head : Seen]]
      /\ editor'[e].pc = pc /\ editor'[e].head = editor[e].head
      /\ \A f \in Editors \ {e} : editor'[f] = editor[f]
  BY <1>1, <1>3, EditorMoves DEF EditorPcs
<1>5. DashTypeOK'
  <2>1. answered' \subseteq LiveStatus
    BY <1>1, <1>2, <1>3 DEF DashTypeOK
  <2>2. dashboard' \in [up : {"none", "up", "gone"}, head : Seen, body : Seen]
    BY <1>2
  <2>3. QED BY <1>1, <1>2, <1>3, <1>4, <2>1, <2>2 DEF DashTypeOK
<1>6. RecordShape'
  BY <1>1, <1>2, <1>4 DEF RecordShape, Dated
<1>7. PlaceShape'
  BY <1>1, <1>2, <1>3, <1>4 DEF PlaceShape, At
<1>8. RedrawShape'
  <2> SUFFICES ASSUME missed = FALSE PROVE RedrawShape'
    BY <1>1, <1>2 DEF RedrawShape, DashTypeOK
  <2>1. plan.status # "archived"
    BY <1>1, <1>2 DEF RedrawShape, PlaceShape, At
  <2>2. CASE \E f \in Editors : Due(f)
    BY <1>2, <1>4, <2>1, <2>2 DEF RedrawShape, Due, At
  <2>3. CASE editor[e].head = Now
    BY <1>1, <1>2, <1>3, <1>4, <2>1, <2>3 DEF RedrawShape, At
  <2>4. QED BY <1>1, <1>2, <2>1, <2>2, <2>3 DEF RedrawShape
<1>9. ButtonShape'
  BY <1>1, <1>2, <1>3, <1>4 DEF ButtonShape, At
<1>10. QED BY <1>5, <1>6, <1>7, <1>8, <1>9 DEF DashIInv
\* The posting fails, or its reply is lost: there is no handler for the card, and
\* nobody will store it.
LEMMA PostFailsStep ==
    ASSUME DashIInv, NEW e \in Editors, PostFails(e)
    PROVE  DashIInv'
<1>1. DashTypeOK /\ RecordShape /\ PlaceShape /\ RedrawShape /\ ButtonShape
  BY DEF DashIInv
<1>2. /\ At(e, "post") /\ UNCHANGED <<plan, dashboard, answered, redrawing, missed>> /\ Now' = Now
      /\ Goto(e, "idle") /\ dashFaults' \in 0..MaxDashFaults
  BY <1>1, NowTyped DEF PostFails, Unlucky, Now
<1>3. /\ editor' \in [Editors -> [pc : EditorPcs, head : Seen]]
      /\ editor'[e].pc = "idle" /\ editor'[e].head = editor[e].head
      /\ \A f \in Editors \ {e} : editor'[f] = editor[f]
  BY <1>1, <1>2, EditorMoves DEF EditorPcs
<1>4. DashTypeOK' /\ RecordShape'
  BY <1>1, <1>2, <1>3 DEF DashTypeOK, RecordShape, Dated
<1>5. PlaceShape'
  BY <1>1, <1>2, <1>3 DEF PlaceShape, At
<1>6. RedrawShape'
  BY <1>1, <1>2, <1>3 DEF RedrawShape, Due, At
<1>7. ButtonShape'
  BY <1>1, <1>2, <1>3 DEF ButtonShape, At
<1>8. QED BY <1>4, <1>5, <1>6, <1>7 DEF DashIInv

\* The coordinates of the card are stored, or it stays an orphan.
LEMMA SaveStep ==
    ASSUME DashIInv, NEW e \in Editors, SaveCoordinates(e)
    PROVE  DashIInv'
<1>1. DashTypeOK /\ RecordShape /\ PlaceShape /\ RedrawShape /\ ButtonShape
  BY DEF DashIInv
<1>2. /\ At(e, "save") /\ UNCHANGED <<dashboard, answered, redrawing, missed>>
      /\ Goto(e, "idle") /\ dashFaults' \in 0..MaxDashFaults
  BY <1>1, NowTyped DEF SaveCoordinates, Lucky, Unlucky
<1>3. PICK b \in BOOLEAN : plan' = [plan EXCEPT !.stored = b]
  BY <1>1 DEF SaveCoordinates, DashTypeOK
<1>4. /\ plan'.status = plan.status /\ plan'.revision = plan.revision /\ Now' = Now
      /\ plan' \in [status : PlanStatus, revision : 0..MaxDashChanges, stored : BOOLEAN]
      /\ plan.stored \in BOOLEAN /\ plan'.stored \in BOOLEAN
      /\ plan.stored = TRUE => plan'.stored = TRUE
  <2>1. plan.stored = TRUE => b = TRUE
    BY <1>1, <1>3 DEF DashTypeOK, SaveCoordinates
  <2>2. QED BY <1>1, <1>3, <2>1 DEF DashTypeOK, Now
<1>5. /\ editor' \in [Editors -> [pc : EditorPcs, head : Seen]]
      /\ editor'[e].pc = "idle" /\ editor'[e].head = editor[e].head
      /\ \A f \in Editors \ {e} : editor'[f] = editor[f] /\ editor[f].pc # "post"
  BY <1>1, <1>2, EditorMoves DEF EditorPcs, PlaceShape, At
<1>6. DashTypeOK' /\ RecordShape'
  <2>1. DashTypeOK'
    BY <1>1, <1>2, <1>4, <1>5 DEF DashTypeOK
  <2>2. RecordShape'
    BY <1>1, <1>2, <1>4, <1>5 DEF RecordShape, Dated
  <2>3. QED BY <2>1, <2>2
<1>7. PlaceShape'
  BY <1>1, <1>2, <1>4, <1>5 DEF PlaceShape, At
<1>8. RedrawShape'
  BY <1>1, <1>2, <1>4, <1>5 DEF RedrawShape, Due, At
<1>9. ButtonShape'
  BY <1>1, <1>2, <1>4, <1>5 DEF ButtonShape, At
<1>10. QED BY <1>6, <1>7, <1>8, <1>9 DEF DashIInv

\* A change makes every record older than the event, and a redraw due.
LEMMA ChangeStep ==
    ASSUME DashIInv, NEW e \in Editors, NEW status \in PlanStatus, Change(e, status)
    PROVE  DashIInv'
<1>1. DashTypeOK /\ RecordShape /\ PlaceShape /\ RedrawShape /\ ButtonShape
  BY DEF DashIInv
<1>2. /\ At(e, "idle") /\ UNCHANGED <<dashboard, answered, redrawing, missed, dashFaults>>
      /\ plan.status \in LiveStatus /\ status \in LiveStatus \union {"closed"}
      /\ plan.revision < MaxDashChanges
      /\ plan' = [plan EXCEPT !.status = status, !.revision = @ + 1]
  BY DEF Change
<1>3. PICK now : now = [status |-> status, revision |-> plan.revision + 1]
  OBVIOUS
<1>4. PICK next \in {"answer", "lock"} : editor' = [editor EXCEPT ![e] = [pc |-> next, head |-> now]]
  BY <1>3 DEF Change
<1>5. /\ plan'.status = status /\ plan'.revision = plan.revision + 1 /\ plan'.stored = plan.stored
      /\ plan' \in [status : PlanStatus, revision : 0..MaxDashChanges, stored : BOOLEAN]
      /\ Now' = now /\ now \in Seen /\ now.revision = plan.revision + 1
  <2>1. /\ status \in PlanStatus /\ plan.revision + 1 \in 0..MaxDashChanges
        /\ plan.stored \in BOOLEAN
    BY <1>1, <1>2, NowTyped
  <2>2. /\ plan'.status = status /\ plan'.revision = plan.revision + 1 /\ plan'.stored = plan.stored
        /\ plan' \in [status : PlanStatus, revision : 0..MaxDashChanges, stored : BOOLEAN]
    BY <1>1, <1>2, <2>1 DEF DashTypeOK
  <2>3. QED BY <1>3, <2>1, <2>2 DEF Now, Seen
<1>6. /\ editor' \in [Editors -> [pc : EditorPcs, head : Seen]]
      /\ editor'[e].pc = next /\ editor'[e].head = now
      /\ \A f \in Editors \ {e} : editor'[f] = editor[f]
  BY <1>1, <1>4, <1>5 DEF EditorPcs, DashTypeOK
<1>7. DashTypeOK'
  BY <1>1, <1>2, <1>5, <1>6 DEF DashTypeOK
<1>8. RecordShape'
  <2>1. ASSUME NEW x \in Seen, Dated(x)
        PROVE  x.revision <= plan'.revision /\ x.revision # plan'.revision
    BY <1>5, <2>1, NowTyped, <1>1 DEF Dated, Seen
  <2>2. dashboard.head \in Seen /\ dashboard.body \in Seen /\ \A f \in Editors : editor[f].head \in Seen
    BY <1>1 DEF DashTypeOK
  <2>3. now.revision <= plan'.revision
    BY <1>1, <1>5, NowTyped
  <2>4. QED BY <1>1, <1>2, <1>5, <1>6, <2>1, <2>2, <2>3 DEF RecordShape, Dated
<1>9. PlaceShape'
  BY <1>1, <1>2, <1>4, <1>5, <1>6 DEF PlaceShape, At
<1>10. RedrawShape'
  BY <1>2, <1>4, <1>5, <1>6 DEF RedrawShape, Due, LiveStatus
<1>11. ButtonShape'
  BY <1>1, <1>2, <1>4, <1>5, <1>6 DEF ButtonShape, At
<1>12. QED BY <1>7, <1>8, <1>9, <1>10, <1>11 DEF DashIInv

\* A handler that has answered asks for the redraw; one that could not ends.
LEMMA AnswerEditorStep ==
    ASSUME DashIInv, NEW e \in Editors, AnswerEditor(e)
    PROVE  DashIInv'
<1>1. DashTypeOK /\ RecordShape /\ PlaceShape /\ RedrawShape /\ ButtonShape
  BY DEF DashIInv
<1>2. /\ At(e, "answer") /\ UNCHANGED <<plan, dashboard, answered, redrawing>> /\ Now' = Now
      /\ dashFaults' \in 0..MaxDashFaults
  BY <1>1, NowTyped DEF AnswerEditor, Lucky, Unlucky, Now
<1>3. PICK pc \in {"lock", "idle"} :
        /\ Goto(e, pc) /\ (pc = "lock" => missed' = missed) /\ (pc = "idle" => missed' = TRUE)
  BY DEF AnswerEditor
<1>4. /\ editor' \in [Editors -> [pc : EditorPcs, head : Seen]]
      /\ editor'[e].pc = pc /\ editor'[e].head = editor[e].head
      /\ \A f \in Editors \ {e} : editor'[f] = editor[f]
  BY <1>1, <1>3, EditorMoves DEF EditorPcs
<1>5. missed' \in BOOLEAN
  BY <1>1, <1>3 DEF DashTypeOK
<1>6. DashTypeOK' /\ RecordShape'
  BY <1>1, <1>2, <1>4, <1>5 DEF DashTypeOK, RecordShape, Dated
<1>7. PlaceShape'
  BY <1>1, <1>2, <1>3, <1>4 DEF PlaceShape, At
<1>8. RedrawShape'
  BY <1>1, <1>2, <1>3, <1>4 DEF RedrawShape, Due, At
<1>9. ButtonShape'
  BY <1>1, <1>2, <1>3, <1>4 DEF ButtonShape, At
<1>10. QED BY <1>6, <1>7, <1>8, <1>9 DEF DashIInv

\* The record that is read under the lock is the event's present one, and not older
\* than any that was drawn.
LEMMA LoadStep ==
    ASSUME DashIInv, NEW e \in Editors, Load(e)
    PROVE  DashIInv'
<1>1. DashTypeOK /\ RecordShape /\ PlaceShape /\ RedrawShape /\ ButtonShape
  BY DEF DashIInv
<1>2. /\ At(e, "lock") /\ redrawing = NoEditor /\ UNCHANGED <<plan, dashboard, answered, dashFaults>>
      /\ Now' = Now
  BY DEF Load, Now
<1>3. \A f \in Editors : editor[f].pc \notin {"fetch", "edit"}
  BY <1>1, <1>2, NowTyped DEF PlaceShape
<1>4. CASE plan.stored
  <2>1. /\ redrawing' = e /\ missed' = missed
        /\ editor' = [editor EXCEPT ![e] = [pc |-> "fetch", head |-> Now]]
    BY <1>4 DEF Load, LoadedUnderLock
  <2>2. /\ editor' \in [Editors -> [pc : EditorPcs, head : Seen]]
        /\ editor'[e].pc = "fetch" /\ editor'[e].head = Now
        /\ \A f \in Editors \ {e} : editor'[f] = editor[f]
    BY <1>1, <2>1, NowTyped DEF EditorPcs, DashTypeOK
  <2>3. DashTypeOK'
    BY <1>1, <1>2, <2>1, <2>2 DEF DashTypeOK
  <2>4. RecordShape'
    BY <1>1, <1>2, <2>2, NowTyped DEF RecordShape, Dated
  <2>5. PlaceShape'
    BY <1>1, <1>2, <1>3, <1>4, <2>1, <2>2, NowTyped DEF PlaceShape, RecordShape, Dated, At
  <2>6. RedrawShape'
    BY <1>1, <1>2, <2>1, <2>2 DEF RedrawShape, Due, At
  <2>7. ButtonShape'
    BY <1>1, <1>2, <1>4, <2>1 DEF ButtonShape
  <2>8. QED BY <2>3, <2>4, <2>5, <2>6, <2>7 DEF DashIInv
<1>5. CASE ~plan.stored
  <2>1. redrawing' = redrawing /\ missed' = TRUE /\ Goto(e, "idle")
    BY <1>5 DEF Load
  <2>2. /\ editor' \in [Editors -> [pc : EditorPcs, head : Seen]]
        /\ editor'[e].pc = "idle" /\ editor'[e].head = editor[e].head
        /\ \A f \in Editors \ {e} : editor'[f] = editor[f]
    BY <1>1, <2>1, EditorMoves DEF EditorPcs
  <2>3. DashTypeOK' /\ RecordShape'
    BY <1>1, <1>2, <2>1, <2>2 DEF DashTypeOK, RecordShape, Dated
  <2>4. PlaceShape'
    BY <1>1, <1>2, <1>3, <2>1, <2>2 DEF PlaceShape, At
  <2>5. RedrawShape' /\ ButtonShape'
    BY <2>1 DEF RedrawShape, ButtonShape
  <2>6. QED BY <2>3, <2>4, <2>5 DEF DashIInv
<1>6. QED BY <1>4, <1>5

\* A handler that holds the lock stores its card nowhere and posts none.
LEMMA HoldsLock ==
    ASSUME DashIInv, NEW e \in Editors, editor[e].pc \in {"fetch", "edit"}
    PROVE  /\ redrawing = e /\ plan.stored = TRUE
           /\ \A f \in Editors : editor[f].pc # "post"
           /\ \A f \in Editors \ {e} : editor[f].pc \notin {"fetch", "edit"}
           /\ Dated(editor[e].head) /\ Dated(dashboard.head) /\ Dated(dashboard.body)
           /\ dashboard.head.revision <= editor[e].head.revision
  BY DEF DashIInv, DashTypeOK, RecordShape, PlaceShape, At

\* The message is there, or the redraw ends without it.
LEMMA FetchStep ==
    ASSUME DashIInv, NEW e \in Editors, FetchDashboard(e)
    PROVE  DashIInv'
<1>1. DashTypeOK /\ RecordShape /\ PlaceShape /\ RedrawShape /\ ButtonShape
  BY DEF DashIInv
<1>2. /\ At(e, "fetch") /\ UNCHANGED <<plan, dashboard, answered>> /\ Now' = Now
      /\ dashFaults' \in 0..MaxDashFaults
  BY <1>1, NowTyped DEF FetchDashboard, Lucky, Unlucky, Now
<1>3. /\ redrawing = e /\ plan.stored = TRUE /\ \A f \in Editors : editor[f].pc # "post"
      /\ \A f \in Editors \ {e} : editor[f].pc \notin {"fetch", "edit"}
  BY <1>2, HoldsLock DEF At
<1>4. PICK pc \in {"edit", "idle"} :
        /\ Goto(e, pc) /\ redrawing' = (IF pc = "edit" THEN e ELSE NoEditor)
        /\ missed' # missed => missed' = TRUE
        /\ pc = "edit" => missed' = missed
        /\ pc = "idle" => missed' = TRUE \/ dashboard.up # "up"
  BY <1>3 DEF FetchDashboard, Leave
<1>5. /\ editor' \in [Editors -> [pc : EditorPcs, head : Seen]]
      /\ editor'[e].pc = pc /\ editor'[e].head = editor[e].head
      /\ \A f \in Editors \ {e} : editor'[f] = editor[f]
  BY <1>1, <1>4, EditorMoves DEF EditorPcs
<1>6. missed' \in BOOLEAN
  BY <1>1, <1>4 DEF DashTypeOK
<1>7. DashTypeOK' /\ RecordShape'
  BY <1>1, <1>2, <1>4, <1>5, <1>6, NowTyped DEF DashTypeOK, RecordShape, Dated
<1>8. PlaceShape'
  BY <1>1, <1>2, <1>3, <1>4, <1>5, NowTyped DEF PlaceShape, At
<1>9. RedrawShape'
  BY <1>1, <1>2, <1>3, <1>4, <1>5 DEF RedrawShape, Due, At
<1>10. ButtonShape'
  BY <1>1, <1>2, <1>3, <1>4, <1>5 DEF ButtonShape, At
<1>11. QED BY <1>7, <1>8, <1>9, <1>10 DEF DashIInv

\* The card shows the record read under the lock, with the store as it is: unless
\* somebody changed the event since, and then his own redraw is due.
LEMMA EditCardStep ==
    ASSUME DashIInv, NEW e \in Editors, EditCard(e)
    PROVE  DashIInv'
<1>1. DashTypeOK /\ RecordShape /\ PlaceShape /\ RedrawShape /\ ButtonShape
  BY DEF DashIInv
<1>2. /\ At(e, "edit") /\ plan' = plan /\ Now' = Now /\ redrawing' = NoEditor /\ Goto(e, "idle")
      /\ dashFaults' \in 0..MaxDashFaults
  BY <1>1, NowTyped DEF EditCard, Leave, Lucky, Unlucky, Now
<1>3. /\ redrawing = e /\ plan.stored = TRUE /\ \A f \in Editors : editor[f].pc # "post"
      /\ \A f \in Editors \ {e} : editor[f].pc \notin {"fetch", "edit"}
      /\ Dated(editor[e].head) /\ Dated(dashboard.head) /\ Dated(dashboard.body)
      /\ dashboard.head.revision <= editor[e].head.revision
  BY <1>2, HoldsLock DEF At
<1>4. /\ editor' \in [Editors -> [pc : EditorPcs, head : Seen]]
      /\ editor'[e].pc = "idle" /\ editor'[e].head = editor[e].head
      /\ \A f \in Editors \ {e} : editor'[f] = editor[f]
  BY <1>1, <1>2, EditorMoves DEF EditorPcs
<1>5. PICK drawn : drawn = [up |-> "up", head |-> editor[e].head, body |-> Now]
  OBVIOUS
<1>6. \/ /\ dashboard.up = "up" /\ dashboard' = drawn
         /\ answered' = answered \union ({editor[e].head.status} \intersect LiveStatus)
         /\ missed' = (missed /\ (editor[e].head # Now \/ plan.status = "archived"))
      \/ dashboard.up # "up" /\ UNCHANGED <<dashboard, answered, missed>>
      \/ dashboard.up = "up" /\ dashboard' = drawn /\ answered' = answered /\ missed' = TRUE
      \/ dashboard' = dashboard /\ answered' = answered /\ missed' = TRUE
  BY <1>5 DEF EditCard, ShownBy
<1>7. /\ drawn \in [up : {"none", "up", "gone"}, head : Seen, body : Seen]
      /\ drawn.up = "up" /\ drawn.head = editor[e].head /\ drawn.body = Now
      /\ dashboard \in [up : {"none", "up", "gone"}, head : Seen, body : Seen]
      /\ missed \in BOOLEAN
  BY <1>1, <1>5, NowTyped DEF DashTypeOK
<1>8. dashboard' \in {dashboard, drawn} /\ missed' \in BOOLEAN
  BY <1>6, <1>7
<1>9. answered' \subseteq LiveStatus
  BY <1>1, <1>6 DEF DashTypeOK
<1>10. DashTypeOK'
  BY <1>1, <1>2, <1>4, <1>7, <1>8, <1>9 DEF DashTypeOK
<1>11. RecordShape'
  <2>1. Dated(Now)
    BY <1>1, NowTyped DEF Dated
  <2>2. Dated(dashboard.head)' /\ Dated(dashboard.body)'
    BY <1>2, <1>3, <1>7, <1>8, <2>1 DEF Dated
  <2>3. QED BY <1>1, <1>2, <1>4, <2>2 DEF RecordShape, Dated
<1>12. PlaceShape'
  BY <1>1, <1>2, <1>3, <1>4, NowTyped DEF PlaceShape, At
<1>13. RedrawShape'
  <2> SUFFICES ASSUME missed' = FALSE PROVE RedrawShape'
    BY <1>8 DEF RedrawShape
  <2>1. CASE dashboard.up # "up"
    BY <1>1, <1>2, <1>3, <1>4, <1>6, <2>1 DEF RedrawShape, Due, At
  <2>2. CASE dashboard.up = "up"
    <3>1. /\ dashboard' = drawn
          /\ missed = FALSE \/ (editor[e].head = Now /\ plan.status # "archived")
      BY <1>6, <1>7, <2>2
    <3>2. CASE editor[e].head = Now /\ plan.status # "archived"
      BY <1>2, <1>3, <1>4, <1>7, <3>1, <3>2 DEF RedrawShape, At
    <3>3. CASE missed = FALSE /\ plan.status = "archived"
      BY <1>1, <1>2, <1>4, <2>2, <3>3 DEF RedrawShape, At
    <3>4. CASE missed = FALSE /\ plan.status # "archived" /\ editor[e].head # Now
      <4>1. PICK f \in Editors : Due(f)
        <5>1. dashboard.head # Now
          BY <1>1, <1>3, <3>4, NowTyped DEF Dated, DashTypeOK, Seen
        <5>2. QED BY <1>1, <2>2, <3>4, <5>1 DEF RedrawShape
      <4>2. f # e /\ editor'[f] = editor[f]
        BY <1>2, <1>4, <3>4, <4>1 DEF Due, At
      <4>3. QED BY <1>2, <3>4, <4>1, <4>2 DEF RedrawShape, Due
    <3>5. QED BY <3>1, <3>2, <3>3, <3>4
  <2>3. QED BY <2>1, <2>2
<1>14. ButtonShape'
  BY <1>1, <1>2, <1>3, <1>4, <1>6, <1>7 DEF ButtonShape, At
<1>15. QED BY <1>10, <1>11, <1>12, <1>13, <1>14 DEF DashIInv

\* The archive comes for the card that the row names.
LEMMA ArchiveStep ==
    ASSUME DashIInv, NEW e \in Editors, ArchivePlan(e)
    PROVE  DashIInv'
<1>1. DashTypeOK /\ RecordShape /\ PlaceShape /\ RedrawShape /\ ButtonShape
  BY DEF DashIInv
<1>2. /\ At(e, "idle") /\ UNCHANGED <<dashboard, answered, redrawing, dashFaults>>
      /\ plan.revision < MaxDashChanges
      /\ plan' = [plan EXCEPT !.status = "archived", !.revision = @ + 1]
  BY DEF ArchivePlan
<1>3. /\ plan'.status = "archived" /\ plan'.revision = plan.revision + 1
      /\ plan'.stored = plan.stored /\ plan.stored \in BOOLEAN
      /\ plan' \in [status : PlanStatus, revision : 0..MaxDashChanges, stored : BOOLEAN]
  <2>1. "archived" \in PlanStatus /\ plan.revision + 1 \in 0..MaxDashChanges
    BY <1>1, <1>2, NowTyped DEF PlanStatus
  <2>2. QED BY <1>1, <1>2, <2>1 DEF DashTypeOK
<1>4. PICK pc \in {"delete", "idle"} :
        /\ Goto(e, pc) \/ (pc = "idle" /\ editor' = editor)
        /\ pc = "delete" => plan.stored = TRUE /\ missed' = missed
        /\ pc = "idle" => missed' = TRUE
  BY <1>3 DEF ArchivePlan
<1>5. /\ editor' \in [Editors -> [pc : EditorPcs, head : Seen]]
      /\ editor'[e].pc = pc /\ editor'[e].head = editor[e].head
      /\ \A f \in Editors \ {e} : editor'[f] = editor[f]
  <2>1. CASE Goto(e, pc)
    BY <1>1, <1>4, <2>1, EditorMoves DEF EditorPcs
  <2>2. CASE pc = "idle" /\ editor' = editor
    BY <1>1, <1>2, <2>2 DEF DashTypeOK, At
  <2>3. QED BY <1>4, <2>1, <2>2
<1>6. missed' \in BOOLEAN
  BY <1>1, <1>4 DEF DashTypeOK
<1>7. DashTypeOK'
  BY <1>1, <1>2, <1>3, <1>5, <1>6 DEF DashTypeOK
<1>8. RecordShape'
  <2>1. ASSUME NEW x \in Seen, Dated(x)
        PROVE  x.revision <= plan'.revision /\ x.revision # plan'.revision
    BY <1>3, <2>1, NowTyped, <1>1 DEF Dated, Seen
  <2>2. dashboard.head \in Seen /\ dashboard.body \in Seen /\ \A f \in Editors : editor[f].head \in Seen
    BY <1>1 DEF DashTypeOK
  <2>3. QED BY <1>1, <1>2, <1>5, <2>1, <2>2 DEF RecordShape, Dated
<1>9. PlaceShape'
  BY <1>1, <1>2, <1>3, <1>4, <1>5 DEF PlaceShape, At
<1>10. RedrawShape'
  BY <1>3, <1>4, <1>5 DEF RedrawShape, At
<1>11. ButtonShape'
  BY <1>3 DEF ButtonShape, LiveStatus
<1>12. QED BY <1>7, <1>8, <1>9, <1>10, <1>11 DEF DashIInv

\* The archived card is gone, or its deletion was lost.
LEMMA DeleteCardStep ==
    ASSUME DashIInv, NEW e \in Editors, DeleteCard(e)
    PROVE  DashIInv'
<1>1. DashTypeOK /\ RecordShape /\ PlaceShape /\ RedrawShape /\ ButtonShape
  BY DEF DashIInv
<1>2. /\ At(e, "delete") /\ UNCHANGED <<plan, answered, redrawing>> /\ Now' = Now
      /\ Goto(e, "idle") /\ dashFaults' \in 0..MaxDashFaults
  BY <1>1, NowTyped DEF DeleteCard, Lucky, Unlucky, Now
<1>3. /\ editor' \in [Editors -> [pc : EditorPcs, head : Seen]]
      /\ editor'[e].pc = "idle" /\ editor'[e].head = editor[e].head
      /\ \A f \in Editors \ {e} : editor'[f] = editor[f]
  BY <1>1, <1>2, EditorMoves DEF EditorPcs
<1>4. plan.stored = TRUE /\ \A f \in Editors : editor[f].pc # "post"
  BY <1>1, <1>2 DEF PlaceShape, DashTypeOK, At
<1>5. PICK gone \in {"gone"} :
        \/ dashboard' = [dashboard EXCEPT !.up = gone] /\ missed' = missed
        \/ dashboard' = dashboard /\ missed' = TRUE
  BY DEF DeleteCard
<1>6. /\ dashboard' \in [up : {"none", "up", "gone"}, head : Seen, body : Seen]
      /\ dashboard'.head = dashboard.head /\ dashboard'.body = dashboard.body
      /\ \/ dashboard'.up = "gone" /\ missed' = missed
         \/ dashboard'.up = dashboard.up /\ missed' = TRUE
      /\ missed' \in BOOLEAN
  BY <1>1, <1>5 DEF DashTypeOK
<1>7. DashTypeOK' /\ RecordShape'
  BY <1>1, <1>2, <1>3, <1>6 DEF DashTypeOK, RecordShape, Dated
<1>8. PlaceShape'
  BY <1>1, <1>2, <1>3, <1>4, <1>6 DEF PlaceShape, At
<1>9. RedrawShape'
  BY <1>1, <1>2, <1>3, <1>4, <1>6 DEF RedrawShape, Due, At
<1>10. ButtonShape'
  BY <1>1, <1>2, <1>3, <1>6 DEF ButtonShape, At
<1>11. QED BY <1>7, <1>8, <1>9, <1>10 DEF DashIInv

\* A card that a moderator took away shows nothing wrong.
LEMMA CardRemovedStep ==
    ASSUME DashIInv, CardRemoved
    PROVE  DashIInv'
<1>1. DashTypeOK /\ RecordShape /\ PlaceShape /\ RedrawShape /\ ButtonShape
  BY DEF DashIInv
<1>2. /\ dashboard.up = "up" /\ UNCHANGED <<plan, answered, editor, redrawing, missed>> /\ Now' = Now
      /\ dashFaults' \in 0..MaxDashFaults
  BY <1>1, NowTyped DEF CardRemoved, Unlucky, Now
<1>3. PICK gone \in {"gone"} : dashboard' = [dashboard EXCEPT !.up = gone]
  BY DEF CardRemoved
<1>4. /\ dashboard' \in [up : {"none", "up", "gone"}, head : Seen, body : Seen]
      /\ dashboard'.head = dashboard.head /\ dashboard'.body = dashboard.body
      /\ dashboard'.up = "gone"
  BY <1>1, <1>3 DEF DashTypeOK
<1>5. DashTypeOK' /\ RecordShape'
  BY <1>1, <1>2, <1>4 DEF DashTypeOK, RecordShape, Dated
<1>6. PlaceShape'
  BY <1>1, <1>2, <1>4 DEF PlaceShape, At
<1>7. RedrawShape' /\ ButtonShape'
  BY <1>1, <1>2, <1>4 DEF RedrawShape, ButtonShape, Due, At
<1>8. QED BY <1>5, <1>6, <1>7 DEF DashIInv

\* A stop loses every handler: a redraw that was due is lost with it.  If none was, the
\* stored card shows the present status, for which buttons are registered again.
LEMMA DashRestartStep ==
    ASSUME DashIInv, DashRestart
    PROVE  DashIInv'
<1>1. DashTypeOK /\ RecordShape /\ PlaceShape /\ RedrawShape /\ ButtonShape
  BY DEF DashIInv
<1>2. /\ UNCHANGED <<plan, dashboard>> /\ Now' = Now /\ redrawing' = NoEditor
      /\ dashFaults' \in 0..MaxDashFaults /\ answered' = Registered
      /\ editor' = [e \in Editors |-> [pc |-> "idle", head |-> Now]]
      /\ missed' = (missed \/ \E e \in Editors : ~At(e, "idle"))
  BY <1>1, NowTyped DEF DashRestart, Unlucky, IdleEditor, Now
<1>3. /\ editor' \in [Editors -> [pc : EditorPcs, head : Seen]]
      /\ \A e \in Editors : editor'[e].pc = "idle" /\ editor'[e].head = Now
  BY <1>1, <1>2, NowTyped DEF EditorPcs
<1>4. answered' \subseteq LiveStatus /\ missed' \in BOOLEAN
  BY <1>1, <1>2 DEF Registered, DashTypeOK
<1>5. DashTypeOK'
  BY <1>1, <1>2, <1>3, <1>4 DEF DashTypeOK
<1>6. RecordShape' /\ PlaceShape'
  BY <1>1, <1>2, <1>3, NowTyped DEF RecordShape, Dated, PlaceShape, At
<1>7. ASSUME missed' = FALSE
      PROVE  /\ missed = FALSE /\ \A e \in Editors : editor[e].pc = "idle"
             /\ plan.status = "archived" => dashboard.up = "gone"
             /\ plan.status # "archived" /\ dashboard.up = "up" =>
                   dashboard.head = Now /\ dashboard.body = Now
  <2>1. missed = FALSE /\ \A e \in Editors : editor[e].pc = "idle"
    BY <1>1, <1>2, <1>7 DEF At, DashTypeOK
  <2>2. QED BY <1>1, <2>1 DEF RedrawShape, Due, At
<1>8. RedrawShape'
  BY <1>2, <1>3, <1>4, <1>7 DEF RedrawShape, At
<1>9. ButtonShape'
  <2> SUFFICES ASSUME missed' = FALSE, plan.stored, dashboard.up = "up", plan.status \in LiveStatus
               PROVE  dashboard.head.status \in answered'
    BY <1>2, <1>3, <1>4 DEF ButtonShape, At
  <2>1. dashboard.head.status = plan.status
    BY <1>1, <1>7, NowTyped DEF LiveStatus
  <2>2. QED BY <1>2, <2>1 DEF Registered
<1>10. QED BY <1>5, <1>6, <1>8, <1>9 DEF DashIInv

\* What happens to no variable of the dashboard changes nothing of its invariant.
LEMMA DashRests == DashIInv /\ UNCHANGED dashVars => DashIInv'
  BY DEF DashIInv, DashTypeOK, RecordShape, Dated, PlaceShape, RedrawShape, Due, ButtonShape,
         At, Now, dashVars

\* Every step of a handler, of a moderator or of the process keeps the invariant.
LEMMA DashStep == DashIInv /\ [DashNext]_dashVars => DashIInv'
<1>1. ASSUME DashIInv, NEW e \in Editors,
             \/ PostCard(e) \/ PostFails(e) \/ SaveCoordinates(e)
             \/ \E status \in PlanStatus : Change(e, status)
             \/ AnswerEditor(e) \/ Load(e) \/ FetchDashboard(e) \/ EditCard(e)
             \/ ArchivePlan(e) \/ DeleteCard(e)
      PROVE  DashIInv'
  BY <1>1, PostCardStep, PostFailsStep, SaveStep, ChangeStep, AnswerEditorStep, LoadStep,
     FetchStep, EditCardStep, ArchiveStep, DeleteCardStep
<1>2. QED BY <1>1, CardRemovedStep, DashRestartStep, DashRests DEF DashNext

\* The dashboard's inductive invariant holds, however many handlers change the event,
\* and however many calls fail, cards are removed and processes stop.
THEOREM DashInvariance == DashSpec => []DashIInv
  BY DashStart, DashStep, PTL DEF DashSpec

\* At rest the dashboard shows the event as it is, with buttons that answer, unless a
\* redraw was lost.
THEOREM DashHolds == DashSpec => []DashboardInv
<1>1. DashIInv => QuietShowsLatest
  BY DEF DashIInv, RedrawShape, QuietShowsLatest, Quiet, At, Due
<1>2. DashIInv => ButtonsAnswered
  BY DEF DashIInv, ButtonShape, ButtonsAnswered
<1>3. DashIInv => DashboardInv
  BY <1>1, <1>2 DEF DashIInv, DashboardInv
<1>4. QED BY <1>3, DashInvariance, PTL

\* Overlapping redraws never put an older record, or an older ballot, over a newer one.
THEOREM DashGoesForward == DashSpec => ShownForward
<1> DEFINE Forward == dashboard.up = "up" /\ dashboard'.up = "up" =>
                        /\ dashboard'.head.revision >= dashboard.head.revision
                        /\ dashboard'.body.revision >= dashboard.body.revision
<1>1. ASSUME DashIInv, [DashNext]_dashVars PROVE Forward
  <2>1. /\ dashboard.head.revision \in Nat /\ dashboard.body.revision \in Nat
        /\ plan.revision \in Nat /\ Now.revision = plan.revision
        /\ \A e \in Editors : editor[e].head.revision \in Nat
        /\ dashboard.body.revision <= plan.revision
    BY <1>1, NowTyped DEF DashIInv, DashTypeOK, Seen, RecordShape, Dated
  <2>2. ASSUME NEW e \in Editors, PostCard(e) PROVE Forward
    BY <1>1, <2>2 DEF PostCard, DashIInv, PlaceShape
  <2>3. ASSUME NEW e \in Editors, EditCard(e) PROVE Forward
    <3>1. dashboard.head.revision <= editor[e].head.revision
      BY <1>1, <2>3, HoldsLock DEF EditCard, At
    <3>2. dashboard' \in {dashboard, [up |-> "up", head |-> editor[e].head, body |-> Now]}
      BY <2>3 DEF EditCard, ShownBy
    <3>3. QED BY <2>1, <3>1, <3>2
  <2>4. ASSUME dashboard' = dashboard \/ dashboard' = [dashboard EXCEPT !.up = "gone"] PROVE Forward
    BY <1>1, <2>1, <2>4 DEF DashIInv, DashTypeOK
  <2>5. QED
    BY <1>1, <2>2, <2>3, <2>4 DEF DashNext, PostFails, SaveCoordinates, Change, AnswerEditor, Load,
       FetchDashboard, ArchivePlan, DeleteCard, CardRemoved, DashRestart, dashVars
<1>2. QED BY <1>1, DashInvariance, PTL DEF DashSpec, ShownForward

-----------------------------------------------------------------------------
(***************************************************************************)
(* The private review of a download.                                       *)
(***************************************************************************)

\* A session has chosen files once it is approved only, and from its own list.
Sound(g) ==
    \A s \in Sessions :
        /\ g[s].phase # "approved" => g[s].chosen = {}
        /\ g[s].phase = "ready" => g[s].manifest \in Manifests
        /\ \A x \in g[s].chosen : x[1] = g[s].manifest

\* A status the gateway gave, which may be old: that a session is settled stays true.
Status == [id : Sessions, phase : Phases \ {"none"}, manifest : Manifests \union {NoManifest},
           chosen : SUBSET Picks]
Given(g, x) ==
    \/ x = Listing
    \/ /\ x \in Status /\ g[x.id].phase # "none"
       /\ x.phase = "ready" => x.manifest \in Manifests
       /\ \A y \in x.chosen : y[1] = x.manifest
       /\ x.phase \in Settled => g[x.id].phase = x.phase

\* The view holds such a status and files of its list; a card that shows the gateway
\* at work is polled for.
View == [status : Status \union {Listing}, selected : SUBSET Picks, closing : BOOLEAN,
         open : BOOLEAN, expired : BOOLEAN, poll : {"none", "running", "told", "spent"},
         rounds : Int]
ViewShape ==
    /\ review \in View /\ Given(gate, review.status)
    /\ \A x \in review.selected : x[1] = review.status.manifest
    /\ review.poll = "running" => review.status # Listing
    /\ review.open /\ ~review.expired /\ reviewCard.phase \in Waiting => review.poll # "none"

\* So is the answer that the lock's holder waits for, and a session that was asked to
\* stop is over, or still looks for metadata.
CallShape ==
    /\ call.by \in {"free", "click", "poll"} /\ Given(gate, call.reply)
    /\ call.by = "poll" => review.poll = "running"
    /\ call.by = "click" /\ call.click.kind = "close" /\ call.reply # Listing =>
          call.reply.phase \in Waiting \union Settled

\* A click is one of the card's buttons, or a choice in a menu of its files.
Buttons == {"open", "status", "approve", "retry", "close"}
PressShape ==
    \A c \in reviewClicks :
        /\ c.kind \in Buttons \union {"select"}
        /\ c.kind = "select" => c.file \in Files

\* The inductive invariant of the review.
ReviewIInv ==
    /\ gate \in [Sessions -> Session] /\ Sound(gate)
    /\ ViewShape /\ CallShape /\ PressShape /\ ApprovedAsShown

\* The step of ClosedMeansSettled.
OverWhenClosed ==
    review.open /\ ~review'.open /\ ~review.expired /\ review'.status.id # 0
        => gate[review'.status.id].phase \in Settled

-----------------------------------------------------------------------------
\* Listing is no status of a session, since no session has the id 0.
LEMMA ListingIsNone ==
    /\ Listing \notin Status /\ 0 \notin Sessions /\ Listing.id = 0 /\ Listing.phase = "none"
    /\ Listing.manifest = NoManifest /\ Listing.chosen = {} /\ NoManifest \notin Manifests
    /\ PollRounds \in Nat
<1>1. 0 \notin Sessions
  <2>1. PICK n : n = Cardinality(Sessions)
    OBVIOUS
  <2>2. Sessions = 1..n
    BY <2>1, ReviewAssumption
  <2>3. 0 \notin 1..n
    OBVIOUS
  <2>4. QED BY <2>2, <2>3
<1>2. Listing.id = 0 /\ Listing.phase = "none" /\ Listing.manifest = NoManifest /\ Listing.chosen = {}
  BY DEF Listing
<1>3. QED BY <1>1, <1>2, ReviewAssumption DEF Status

\* What the gateway says of a session that is there.
LEMMA StatusGiven ==
    ASSUME NEW g \in [Sessions -> Session], Sound(g), NEW s \in Sessions, g[s].phase # "none"
    PROVE  /\ Given(g, StatusOf(g, s)) /\ StatusOf(g, s) \in Status
           /\ StatusOf(g, s).phase = g[s].phase /\ StatusOf(g, s).id = s
           /\ StatusOf(g, s) # Listing
<1>1. PICK x : x = StatusOf(g, s)
  OBVIOUS
<1>2. /\ x = [id |-> s, phase |-> g[s].phase, manifest |-> g[s].manifest, chosen |-> g[s].chosen]
      /\ g[s].phase \in Phases /\ g[s].manifest \in Manifests \union {NoManifest}
      /\ g[s].chosen \subseteq Picks
  BY <1>1 DEF StatusOf, Session
<1>3. /\ x \in Status /\ x.id = s /\ x.phase = g[s].phase /\ x.manifest = g[s].manifest
      /\ x.chosen = g[s].chosen
  BY <1>2 DEF Status
<1>4. Given(g, x)
  BY <1>3 DEF Given, Sound
<1>5. QED BY <1>1, <1>3, <1>4, ListingIsNone

\* What a step may do to the sessions: none disappears, and one that is settled stays so.
Later(g, h) ==
    /\ h \in [Sessions -> Session] /\ Sound(h)
    /\ \A s \in Sessions : /\ g[s].phase # "none" => h[s].phase # "none"
                           /\ g[s].phase \in Settled => h[s].phase = g[s].phase

\* A status that was given stays worth as much.
LEMMA GivenStays ==
    ASSUME NEW g, NEW h, Later(g, h), NEW x, Given(g, x)
    PROVE  Given(h, x)
  BY DEF Later, Given, Status

\* The sessions may change in one place.
LEMMA OneSession ==
    ASSUME NEW g \in [Sessions -> Session], Sound(g), NEW s \in Sessions, NEW x \in Session,
           x.phase # "approved" => x.chosen = {},
           x.phase = "ready" => x.manifest \in Manifests,
           \A y \in x.chosen : y[1] = x.manifest,
           g[s].phase # "none" => x.phase # "none",
           g[s].phase \in Settled => x.phase = g[s].phase
    PROVE  Later(g, [g EXCEPT ![s] = x])
<1>1. PICK h : h = [g EXCEPT ![s] = x]
  OBVIOUS
<1>2. h \in [Sessions -> Session] /\ h[s] = x /\ \A t \in Sessions \ {s} : h[t] = g[t]
  BY <1>1
<1>3. Sound(h)
  BY <1>2 DEF Sound
<1>4. QED BY <1>1, <1>2, <1>3 DEF Later

\* A new session waits for its list or has one.
LEMMA OpensLater ==
    ASSUME gate \in [Sessions -> Session], Sound(gate), GateOpens
    PROVE  /\ Later(gate, gate')
           /\ \E s \in Sessions : gate[s].phase = "none" /\ gate'[s].phase # "none"
<1>1. PICK s \in Sessions, found \in Found :
        gate[s].phase = "none" /\ gate' = [gate EXCEPT ![s] = found]
  BY DEF GateOpens, FreeSession
<1>2. /\ found \in Session /\ found.phase \in {"metadata", "ready"} /\ found.chosen = {}
      /\ found.phase = "ready" => found.manifest \in Manifests
  <2>1. \/ found = [phase |-> "metadata", manifest |-> NoManifest, chosen |-> {}, stopping |-> FALSE]
        \/ \E m \in Manifests :
              found = [phase |-> "ready", manifest |-> m, chosen |-> {}, stopping |-> FALSE]
    BY <1>1 DEF Found
  <2>2. CASE found = [phase |-> "metadata", manifest |-> NoManifest, chosen |-> {}, stopping |-> FALSE]
    BY ONLY <2>2 DEF Session, Phases, Waiting
  <2>3. ASSUME NEW m \in Manifests,
               found = [phase |-> "ready", manifest |-> m, chosen |-> {}, stopping |-> FALSE]
        PROVE  found \in Session /\ found.phase = "ready" /\ found.chosen = {} /\ found.manifest = m
    BY ONLY <2>3 DEF Session, Phases
  <2>4. QED BY <2>1, <2>2, <2>3
<1>3. Later(gate, gate')
  BY <1>1, <1>2, OneSession DEF Settled
<1>4. gate'[s].phase # "none"
  BY <1>1, <1>2
<1>5. QED BY <1>1, <1>3, <1>4

\* A cancellation settles the session, or has asked it to stop.
LEMMA CancelsLater ==
    ASSUME gate \in [Sessions -> Session], Sound(gate), NEW id \in Sessions, gate[id].phase # "none",
           GateCancels(id)
    PROVE  /\ Later(gate, gate') /\ gate'[id].phase \in Waiting \union Settled
           /\ \A s \in Sessions \ {id} : gate'[s] = gate[s]
<1>1. gate[id] \in Session /\ gate[id].phase # "approved" /\ gate[id].chosen = {}
  BY DEF Sound, GateCancels
<1>2. CASE gate[id].phase = "metadata" /\ gate' = [gate EXCEPT ![id].stopping = TRUE]
  <2>1. PICK x : x = [gate[id] EXCEPT !.stopping = TRUE]
    OBVIOUS
  <2>2. x \in Session /\ x.phase = "metadata" /\ x.chosen = {} /\ gate' = [gate EXCEPT ![id] = x]
    BY <1>1, <1>2, <2>1 DEF Session
  <2>3. gate[id].phase = "metadata" /\ "metadata" \notin Settled
    BY <1>2 DEF Settled
  <2>4. Later(gate, gate')
    BY ONLY gate \in [Sessions -> Session], Sound(gate), id \in Sessions, <2>2, <2>3, OneSession
  <2>5. QED BY <2>2, <2>4 DEF Waiting
<1>3. CASE gate' = [gate EXCEPT ![id].phase = IF @ \in Settled THEN @ ELSE "cancelled"]
  <2>1. PICK p : p = IF gate[id].phase \in Settled THEN gate[id].phase ELSE "cancelled"
    OBVIOUS
  <2>2. PICK x : x = [gate[id] EXCEPT !.phase = p]
    OBVIOUS
  <2>3. p \in Settled /\ p \in Phases /\ p # "approved"
    BY <1>1, <2>1 DEF Settled, Phases
  <2>4. x \in Session /\ x.phase = p /\ x.chosen = {} /\ gate' = [gate EXCEPT ![id] = x]
    BY <1>1, <1>3, <2>1, <2>2, <2>3 DEF Session
  <2>5. Later(gate, gate')
    BY <2>1, <2>3, <2>4, OneSession DEF Settled
  <2>6. QED BY <2>3, <2>4, <2>5
<1>4. QED BY <1>2, <1>3 DEF GateCancels

\* An approval is of the list and the selection the view holds.
LEMMA ApprovesLater ==
    ASSUME gate \in [Sessions -> Session], Sound(gate), ViewShape, NEW id \in Sessions, NEW snap,
           GateApproves(id, snap)
    PROVE  Later(gate, gate') /\ gate'[id].phase # "none"
<1>1. /\ gate[id] \in Session /\ gate[id].phase = "ready" /\ review.selected \subseteq Picks
      /\ \A x \in review.selected : x[1] = gate[id].manifest
      /\ gate' = [gate EXCEPT ![id].phase = "approved", ![id].chosen = review.selected]
  BY DEF GateApproves, ViewShape, View
<1>2. PICK x : x = [phase |-> "approved", manifest |-> gate[id].manifest, chosen |-> review.selected,
                    stopping |-> gate[id].stopping]
  OBVIOUS
<1>3. /\ x \in Session /\ x.phase = "approved" /\ x.chosen = review.selected
      /\ x.manifest = gate[id].manifest
  BY <1>1, <1>2 DEF Session, Phases, Settled
<1>4. gate' = [gate EXCEPT ![id] = x]
  <2>1. PICK a \in {"approved"} : gate' = [gate EXCEPT ![id].phase = a, ![id].chosen = review.selected]
    BY <1>1
  <2>2. PICK y : y = [gate[id] EXCEPT !.phase = a]
    OBVIOUS
  <2>3. x = [y EXCEPT !.chosen = review.selected]
    <3>1. gate[id] \in Session /\ a = "approved"
      BY <1>1
    <3>2. y = [phase |-> a, manifest |-> gate[id].manifest, chosen |-> gate[id].chosen,
               stopping |-> gate[id].stopping]
      BY ONLY <2>2, <3>1 DEF Session
    <3>3. [y EXCEPT !.chosen = review.selected] =
             [phase |-> a, manifest |-> gate[id].manifest, chosen |-> review.selected,
              stopping |-> gate[id].stopping]
      BY ONLY <3>2
    <3>4. QED BY <1>2, <3>1, <3>3
  <2>4. PICK h : h = [gate EXCEPT ![id] = y]
    OBVIOUS
  <2>5. h[id] = y /\ h = [gate EXCEPT ![id].phase = a]
    BY <2>2, <2>4
  <2>6. gate' = [h EXCEPT ![id].chosen = review.selected]
    BY <2>1, <2>5
  <2>7. QED BY <2>3, <2>4, <2>5, <2>6
<1>5. /\ gate[id].phase \notin Settled /\ x.phase # "ready" /\ x.phase # "none"
      /\ \A y \in x.chosen : y[1] = x.manifest
  BY <1>1, <1>3 DEF Settled
<1>6. Later(gate, gate')
  BY ONLY gate \in [Sessions -> Session], Sound(gate), id \in Sessions, <1>3, <1>4, <1>5,
     OneSession
<1>7. QED BY <1>3, <1>4, <1>6

\* The gateway on its own settles nothing again.
LEMMA MovesLater ==
    ASSUME gate \in [Sessions -> Session], Sound(gate), GateMoves
    PROVE  Later(gate, gate')
<1>1. PICK s \in Sessions :
        \/ gate[s].phase = "metadata" /\ \E m \in Manifests :
              gate' = [gate EXCEPT ![s].phase = "ready", ![s].manifest = m]
        \/ /\ gate[s].phase = "metadata"
           /\ gate' = [gate EXCEPT ![s].phase = IF gate[s].stopping THEN "cancelled" ELSE "failed"]
        \/ gate[s].phase = "ready" /\ \E m \in Manifests : gate' = [gate EXCEPT ![s].manifest = m]
  BY DEF GateMoves
<1>2. gate[s] \in Session /\ (gate[s].phase \in {"metadata", "ready"} => gate[s].chosen = {})
  BY DEF Sound
<1>3. ASSUME NEW m \in Manifests, gate[s].phase \in {"metadata", "ready"},
             \/ gate' = [gate EXCEPT ![s].phase = "ready", ![s].manifest = m]
             \/ gate[s].phase = "ready" /\ gate' = [gate EXCEPT ![s].manifest = m]
      PROVE  Later(gate, gate')
  <2>1. PICK x : x = [phase |-> "ready", manifest |-> m, chosen |-> {}, stopping |-> gate[s].stopping]
    OBVIOUS
  <2>2. x \in Session /\ x.phase = "ready" /\ x.chosen = {} /\ x.manifest = m
    BY <1>2, <2>1 DEF Session, Phases
  <2>3. gate' = [gate EXCEPT ![s] = x]
    BY <1>2, <1>3, <2>1 DEF Session
  <2>4. QED BY <1>3, <2>2, <2>3, OneSession DEF Settled
<1>4. ASSUME NEW p \in {"cancelled", "failed"}, gate[s].phase = "metadata",
             gate' = [gate EXCEPT ![s].phase = p]
      PROVE  Later(gate, gate')
  <2>1. PICK x : x = [gate[s] EXCEPT !.phase = p]
    OBVIOUS
  <2>2. x \in Session /\ x.phase = p /\ x.chosen = {}
    BY <1>2, <1>4, <2>1 DEF Session, Phases, Settled
  <2>3. gate' = [gate EXCEPT ![s] = x]
    BY <1>4, <2>1
  <2>4. p # "none" /\ p # "ready" /\ p # "approved" /\ gate[s].phase \notin Settled
    BY <1>4 DEF Settled
  <2>5. QED BY ONLY gate \in [Sessions -> Session], Sound(gate), s \in Sessions, <2>2, <2>3,
               <2>4, OneSession
<1>5. QED BY <1>1, <1>3, <1>4

\* What a view becomes with a status, and with its polling seen to.
LEMMA ViewAbsorbs ==
    ASSUME NEW r \in View, NEW x \in Status \union {Listing}, \A y \in r.selected : y[1] = r.status.manifest,
           \A y \in x.chosen : y[1] = x.manifest
    PROVE  LET n == Absorbed(r, x) IN
           /\ n \in View /\ n.status = x /\ \A y \in n.selected : y[1] = x.manifest
           /\ n.closing = r.closing /\ n.open = r.open /\ n.expired = r.expired /\ n.poll = r.poll
           /\ n.rounds = r.rounds
<1>1. PICK chosen : chosen = IF x.manifest # r.status.manifest \/ x.phase = "approved"
                               THEN x.chosen ELSE r.selected
  OBVIOUS
<1>2. PICK n : n = [status |-> x, selected |-> chosen, closing |-> r.closing, open |-> r.open,
                    expired |-> r.expired, poll |-> r.poll, rounds |-> r.rounds]
  OBVIOUS
<1>3. x.chosen \subseteq Picks
  BY ListingIsNone DEF Status
<1>4. chosen \subseteq Picks /\ \A y \in chosen : y[1] = x.manifest
  BY <1>1, <1>3 DEF View
<1>5. n = Absorbed(r, x)
  <2>1. PICK m : m = [r EXCEPT !.status = x]
    OBVIOUS
  <2>2. m = [status |-> x, selected |-> r.selected, closing |-> r.closing, open |-> r.open,
             expired |-> r.expired, poll |-> r.poll, rounds |-> r.rounds]
    BY ONLY <2>1, r \in View DEF View
  <2>3. n = [m EXCEPT !.selected = chosen]
    BY ONLY <1>2, <2>2
  <2>4. Absorbed(r, x) = [m EXCEPT !.selected = chosen]
    BY <1>1, <2>1, <2>2 DEF Absorbed
  <2>5. QED BY <2>3, <2>4
<1>6. n \in View
  BY <1>2, <1>4 DEF View
<1>7. QED BY <1>2, <1>4, <1>5, <1>6

\* What a view becomes when it is to be polled: only its task changes, and only while the gateway is at work.
LEMMA ViewPolls ==
    ASSUME NEW r \in View
    PROVE  LET n == Polled(r) IN
           /\ n \in View /\ n.status = r.status /\ n.selected = r.selected
           /\ n.closing = r.closing /\ n.open = r.open /\ n.expired = r.expired
           /\ r.status.phase \in Waiting => n.poll = "running"
           /\ r.status.phase \notin Waiting => n = r
           /\ n.poll \in {r.poll, "running"}
<1>1. CASE r.status.phase \in Waiting /\ r.poll # "running"
  <2>1. PICK p \in {"running"} : p = "running"
    OBVIOUS
  <2>2. Polled(r) = [r EXCEPT !.poll = p, !.rounds = PollRounds]
    BY <1>1, <2>1 DEF Polled
  <2>3. PICK m : m = [r EXCEPT !.poll = p]
    OBVIOUS
  <2>4. m = [status |-> r.status, selected |-> r.selected, closing |-> r.closing, open |-> r.open,
             expired |-> r.expired, poll |-> p, rounds |-> r.rounds]
    BY ONLY <2>3, r \in View DEF View
  <2>5. Polled(r) = [m EXCEPT !.rounds = PollRounds]
    BY <2>2, <2>3, <2>4
  <2>6. Polled(r) = [status |-> r.status, selected |-> r.selected, closing |-> r.closing,
                     open |-> r.open, expired |-> r.expired, poll |-> p, rounds |-> PollRounds]
    BY ONLY <2>4, <2>5
  <2>7. PICK n : n = Polled(r)
    OBVIOUS
  <2>8. /\ n \in View /\ n.status = r.status /\ n.selected = r.selected /\ n.closing = r.closing
        /\ n.open = r.open /\ n.expired = r.expired /\ n.poll = "running"
    BY <2>1, <2>6, <2>7, ListingIsNone DEF View
  <2>9. QED BY <1>1, <2>7, <2>8
<1>2. CASE ~(r.status.phase \in Waiting /\ r.poll # "running")
  BY <1>2 DEF Polled
<1>3. QED BY <1>1, <1>2

\* A view with other values for what its clicks, its answers and its end change.
Viewed(r, selected, closing, open, expired, poll, rounds) ==
    [status |-> r.status, selected |-> selected, closing |-> closing, open |-> open,
     expired |-> expired, poll |-> poll, rounds |-> rounds]

\* The end of a polling round.
RoundOf(r, n, o, p) == [r EXCEPT !.rounds = n, !.open = o, !.poll = p]

\* The assignments of the handlers, one field after the other.
LEMMA ViewFields ==
    ASSUME NEW r \in View
    PROVE  /\ \A o, p : [r EXCEPT !.open = o, !.poll = p] =
                           Viewed(r, r.selected, r.closing, o, r.expired, p, r.rounds)
           /\ \A x, p : [r EXCEPT !.expired = x, !.poll = p] =
                           Viewed(r, r.selected, r.closing, r.open, x, p, r.rounds)
           /\ \A s : [r EXCEPT !.selected = s] =
                           Viewed(r, s, r.closing, r.open, r.expired, r.poll, r.rounds)
           /\ \A c : [r EXCEPT !.closing = c] =
                           Viewed(r, r.selected, c, r.open, r.expired, r.poll, r.rounds)
           /\ \A o : [r EXCEPT !.open = o] =
                           Viewed(r, r.selected, r.closing, o, r.expired, r.poll, r.rounds)
           /\ \A p : [r EXCEPT !.poll = p] =
                           Viewed(r, r.selected, r.closing, r.open, r.expired, p, r.rounds)
<1>1. r = Viewed(r, r.selected, r.closing, r.open, r.expired, r.poll, r.rounds)
  BY DEF View, Viewed
<1>2. ASSUME NEW o, NEW p
      PROVE [r EXCEPT !.open = o, !.poll = p] =
               Viewed(r, r.selected, r.closing, o, r.expired, p, r.rounds)
  <2>1. PICK m : m = [r EXCEPT !.open = o]
    OBVIOUS
  <2>2. m = Viewed(r, r.selected, r.closing, o, r.expired, r.poll, r.rounds)
    BY ONLY <2>1, r \in View DEF View, Viewed
  <2>3. [m EXCEPT !.poll = p] = Viewed(r, r.selected, r.closing, o, r.expired, p, r.rounds)
    BY ONLY <2>2 DEF Viewed
  <2>4. QED BY <2>1, <2>3
<1>3. ASSUME NEW x, NEW p
      PROVE [r EXCEPT !.expired = x, !.poll = p] =
               Viewed(r, r.selected, r.closing, r.open, x, p, r.rounds)
  <2>1. PICK m : m = [r EXCEPT !.expired = x]
    OBVIOUS
  <2>2. m = Viewed(r, r.selected, r.closing, r.open, x, r.poll, r.rounds)
    BY ONLY <2>1, r \in View DEF View, Viewed
  <2>3. [m EXCEPT !.poll = p] = Viewed(r, r.selected, r.closing, r.open, x, p, r.rounds)
    BY ONLY <2>2 DEF Viewed
  <2>4. QED BY <2>1, <2>3
<1>4. ASSUME NEW s, NEW c, NEW o, NEW p
      PROVE  /\ [r EXCEPT !.selected = s] = Viewed(r, s, r.closing, r.open, r.expired, r.poll, r.rounds)
             /\ [r EXCEPT !.closing = c] = Viewed(r, r.selected, c, r.open, r.expired, r.poll, r.rounds)
             /\ [r EXCEPT !.open = o] = Viewed(r, r.selected, r.closing, o, r.expired, r.poll, r.rounds)
             /\ [r EXCEPT !.poll = p] = Viewed(r, r.selected, r.closing, r.open, r.expired, p, r.rounds)
  BY ONLY r \in View DEF View, Viewed
<1>5. QED BY <1>2, <1>3, <1>4

\* ... which is the view with those three fields.
LEMMA RoundIs ==
    ASSUME NEW r \in View, NEW n, NEW o, NEW p
    PROVE  RoundOf(r, n, o, p) = Viewed(r, r.selected, r.closing, o, r.expired, p, n)
<1>1. PICK m : m = [r EXCEPT !.rounds = n]
  OBVIOUS
<1>2. m = Viewed(r, r.selected, r.closing, r.open, r.expired, r.poll, n)
  BY ONLY <1>1, r \in View DEF View, Viewed
<1>3. PICK k : k = [m EXCEPT !.open = o]
  OBVIOUS
<1>4. k = Viewed(r, r.selected, r.closing, o, r.expired, r.poll, n)
  BY ONLY <1>2, <1>3 DEF Viewed
<1>5. [k EXCEPT !.poll = p] = Viewed(r, r.selected, r.closing, o, r.expired, p, n)
  BY ONLY <1>4 DEF Viewed
<1>6. QED BY <1>1, <1>3, <1>5 DEF RoundOf

\* Nothing changes at the gateway.
LEMMA LaterSame ==
    ASSUME gate \in [Sessions -> Session], Sound(gate), gate' = gate
    PROVE  Later(gate, gate')
  BY DEF Later

\* What is kept when the gateway goes on and the view rests.
LEMMA ViewRests ==
    ASSUME ViewShape, Later(gate, gate'), review' = review, reviewCard' = reviewCard
    PROVE  ViewShape'
  BY GivenStays DEF ViewShape

\* What is kept when the gateway goes on and the call rests.
LEMMA CallRests ==
    ASSUME CallShape, Later(gate, gate'), call' = call, call.by = "poll" => review'.poll = "running"
    PROVE  CallShape'
  BY GivenStays DEF CallShape

\* A call that is over says nothing of the gateway.
LEMMA CallEnds ==
    ASSUME call' = Idle0
    PROVE  CallShape'
  BY DEF CallShape, Idle0, Given

\* What the gateway answers is a status of the session asked about, or of a new one.
LEMMA AnsweredGiven ==
    ASSUME gate \in [Sessions -> Session], Sound(gate), Later(gate, gate'), NEW id,
           \/ id \in Sessions /\ gate[id].phase # "none"
           \/ \E s \in Sessions : gate[s].phase = "none" /\ gate'[s].phase # "none"
    PROVE  Given(gate', Answered(id))
<1>1. PICK fresh : fresh = {s \in Sessions : gate[s].phase = "none" /\ gate'[s].phase # "none"}
  OBVIOUS
<1>2. PICK s : s = IF fresh = {} THEN id ELSE CHOOSE t \in fresh : TRUE
  OBVIOUS
<1>3. Answered(id) = StatusOf(gate', s)
  BY <1>1, <1>2 DEF Answered
<1>4. s \in Sessions /\ gate'[s].phase # "none"
  <2>1. CASE fresh = {}
    BY <1>1, <1>2, <2>1 DEF Later
  <2>2. CASE fresh # {}
    BY <1>1, <1>2, <2>2
  <2>3. QED BY <2>1, <2>2
<1>5. QED BY <1>3, <1>4, StatusGiven DEF Later

\* The parts of the invariant, for the steps.
LEMMA ReviewParts ==
    ReviewIInv =>
      /\ gate \in [Sessions -> Session] /\ Sound(gate) /\ ViewShape /\ CallShape /\ PressShape
      /\ ApprovedAsShown /\ Later(gate, gate)
  BY DEF ReviewIInv, Later

\* No review is open, and the card lists the requests.
LEMMA ReviewStart == ReviewInit => ReviewIInv
<1> SUFFICES ASSUME ReviewInit PROVE ReviewIInv
  OBVIOUS
<1>1. gate \in [Sessions -> Session] /\ \A s \in Sessions : gate[s] = NoSession
  <2>1. NoSession \in Session
    BY DEF NoSession, Session, Phases
  <2>2. QED BY <2>1 DEF ReviewInit
<1>2. Sound(gate)
  BY <1>1 DEF Sound, NoSession
<1>3. /\ review = [status |-> Listing, selected |-> {}, closing |-> FALSE, open |-> TRUE,
                   expired |-> FALSE, poll |-> "none", rounds |-> 0]
      /\ reviewCard = [phase |-> "none", snap |-> Snapshot(Listing, {})]
  BY DEF ReviewInit
<1>4. ViewShape
  BY <1>3, ListingIsNone DEF ViewShape, View, Given, Waiting
<1>5. CallShape /\ PressShape /\ ApprovedAsShown
  BY DEF ReviewInit, CallShape, PressShape, ApprovedAsShown, Idle0, Given
<1>6. QED BY <1>1, <1>2, <1>4, <1>5 DEF ReviewIInv

\* A control of the card is pressed.
LEMMA PressReviewStep ==
    ASSUME ReviewIInv, PressReview
    PROVE  ReviewIInv'
<1>1. UNCHANGED <<gate, approvals, review, reviewCard, call>>
  BY DEF PressReview
<1>2. PICK c \in Offered(reviewCard) \union Menus(reviewCard) : reviewClicks' = reviewClicks \union {c}
  BY DEF PressReview
<1>3. c.kind \in Buttons \union {"select"} /\ (c.kind = "select" => c.file \in Files)
  <2>1. CASE c \in Offered(reviewCard)
    BY <2>1 DEF Offered, Buttons
  <2>2. CASE c \in Menus(reviewCard)
    BY <2>2 DEF Menus
  <2>3. QED BY <1>2, <2>1, <2>2
<1>4. PressShape'
  BY <1>2, <1>3, ReviewParts DEF PressShape
<1>5. QED BY <1>1, <1>4, ReviewParts, ViewRests, CallRests DEF ReviewIInv, ApprovedAsShown, CallShape

\* A call under the lock: what the gateway did and answered, whether it arrives or not.
LEMMA AskStep ==
    ASSUME ReviewIInv, NEW c \in reviewClicks, AskGate(c)
    PROVE  ReviewIInv'
<1>1. /\ gate \in [Sessions -> Session] /\ Sound(gate) /\ ViewShape /\ CallShape /\ PressShape
      /\ ApprovedAsShown
  BY ReviewParts
<1>2. /\ c.kind \in Buttons /\ MayAsk(c) /\ call.by = "free" /\ reviewClicks' \subseteq reviewClicks
      /\ review' = review /\ reviewCard' = reviewCard
  <2>1. c.kind # "select" /\ MayAsk(c) /\ Unlocked /\ reviewClicks' = reviewClicks \ {c}
    BY DEF AskGate
  <2>2. UNCHANGED <<review, reviewCard>>
    BY DEF AskGate
  <2>3. c.kind \in Buttons
    <3>1. c.kind \in Buttons \union {"select"}
      BY <1>1 DEF PressShape, Buttons
    <3>2. QED BY <2>1, <3>1
  <2>4. reviewClicks' \subseteq reviewClicks
    BY <2>1
  <2>5. QED BY <2>1, <2>2, <2>3, <2>4 DEF Unlocked
<1>3. PICK id : id = review.status.id
  OBVIOUS
<1>4. c.kind # "open" => id \in Sessions /\ gate[id].phase # "none"
  <2>1. c.kind # "open" => id # 0
    BY <1>2, <1>3, ListingIsNone, <1>1 DEF MayAsk, StillDisplayed, ViewShape, Given, Status, Buttons
  <2>2. QED BY <1>1, <1>3, <2>1, ListingIsNone DEF ViewShape, Given, Status
<1>5. \/ \/ c.kind = "open" /\ GateOpens /\ approvals' = approvals
         \/ c.kind = "status" /\ UNCHANGED <<gate, approvals>>
         \/ c.kind = "retry" /\ GateRetries(id) /\ approvals' = approvals
         \/ c.kind = "approve" /\ GateApproves(id, c.snap)
         \/ c.kind = "close" /\ GateCancels(id) /\ approvals' = approvals
      \/ UNCHANGED <<gate, approvals>>
  BY <1>2, <1>3 DEF AskGate, Buttons
<1>6. Later(gate, gate')
  BY <1>1, <1>4, <1>5, OpensLater, CancelsLater, ApprovesLater, LaterSame DEF GateRetries
<1>7. \/ call' = [by |-> "click", click |-> c, reply |-> Listing]
      \/ /\ call' = [by |-> "click", click |-> c, reply |-> Answered(id)]
         /\ \/ c.kind = "open" /\ GateOpens
            \/ c.kind = "status" /\ gate' = gate
            \/ c.kind = "retry" /\ GateRetries(id)
            \/ c.kind = "approve"
            \/ c.kind = "close" /\ GateCancels(id)
  BY <1>2, <1>3 DEF AskGate, Buttons
<1>8. CallShape'
  <2>1. CASE call' = [by |-> "click", click |-> c, reply |-> Listing]
    BY <2>1 DEF CallShape, Given
  <2>2. CASE /\ call' = [by |-> "click", click |-> c, reply |-> Answered(id)]
             /\ c.kind # "close" /\ (c.kind = "open" => GateOpens)
    <3>1. Given(gate', Answered(id))
      BY <1>1, <1>4, <1>6, <2>2, OpensLater, AnsweredGiven
    <3>2. QED BY <2>2, <3>1 DEF CallShape
  <2>3. CASE /\ call' = [by |-> "click", click |-> c, reply |-> Answered(id)]
             /\ c.kind = "close" /\ GateCancels(id)
    <3>1. Given(gate', Answered(id))
      BY <1>1, <1>4, <1>6, <2>3, AnsweredGiven
    <3>2. Answered(id) = StatusOf(gate', id)
      <4>1. {s \in Sessions : gate[s].phase = "none" /\ gate'[s].phase # "none"} = {}
        BY <1>1, <1>4, <2>3, CancelsLater
      <4>2. QED BY <4>1 DEF Answered
    <3>3. Answered(id).phase \in Waiting \union Settled
      BY <1>1, <1>4, <2>3, <3>2, CancelsLater DEF StatusOf
    <3>4. QED BY <2>3, <3>1, <3>3 DEF CallShape
  <2>4. QED BY <1>7, <2>1, <2>2, <2>3
<1>9. ApprovedAsShown'
  <2>1. CASE approvals' = approvals
    BY <1>1, <2>1 DEF ApprovedAsShown
  <2>2. CASE c.kind = "approve" /\ GateApproves(id, c.snap)
    <3>1. c.snap = [id |-> id, manifest |-> review.status.manifest, chosen |-> review.selected]
      BY <1>2, <1>3, <2>2 DEF MayAsk, StillDisplayed, Snapshot
    <3>2. PICK a : a = [id |-> id, manifest |-> gate[id].manifest, chosen |-> review.selected, shown |-> c.snap]
      OBVIOUS
    <3>3. approvals' = approvals \union {a} /\ gate[id].manifest = review.status.manifest
      BY <2>2, <3>2 DEF GateApproves
    <3>4. /\ a.shown = [id |-> a.id, manifest |-> a.manifest, chosen |-> a.chosen]
          /\ \A x \in a.chosen : x[1] = a.manifest
      BY <1>1, <3>1, <3>2, <3>3 DEF ViewShape
    <3>5. QED BY <1>1, <3>3, <3>4 DEF ApprovedAsShown
  <2>3. QED BY <1>5, <2>1, <2>2
<1>10. PressShape'
  BY <1>1, <1>2 DEF PressShape
<1>11. QED BY <1>1, <1>2, <1>6, <1>8, <1>9, <1>10, ViewRests DEF ReviewIInv, Later

\* A click that asks nothing: it is refused, or closes a card that has nothing to end.
LEMMA NotAskedStep ==
    ASSUME ReviewIInv, NEW c \in reviewClicks, NotAsked(c)
    PROVE  ReviewIInv' /\ OverWhenClosed
<1>1. /\ gate \in [Sessions -> Session] /\ Sound(gate) /\ ViewShape /\ CallShape /\ PressShape
      /\ ApprovedAsShown
  BY ReviewParts
<1>2. /\ UNCHANGED <<gate, approvals, reviewCard, call>> /\ reviewClicks' \subseteq reviewClicks
      /\ call.by = "free"
  BY DEF NotAsked, Unlocked
<1>3. PICK o, p : /\ review' = [review EXCEPT !.open = o, !.poll = p]
                  /\ \/ o = FALSE /\ p = "none" /\ (review.status.id = 0 \/ Receipt)
                     \/ o = review.open /\ p = review.poll
  <2>1. CASE c.kind = "close"
    BY <2>1 DEF NotAsked, MayAsk
  <2>2. CASE c.kind # "close"
    BY <2>2 DEF NotAsked
  <2>3. QED BY <2>1, <2>2
<1>4. /\ review' \in View /\ review'.status = review.status /\ review'.selected = review.selected
      /\ review'.expired = review.expired /\ review'.open = o /\ review'.poll = p
  <2>1. /\ review \in View /\ review.selected \in SUBSET Picks /\ review.closing \in BOOLEAN
        /\ o \in BOOLEAN /\ review.expired \in BOOLEAN /\ p \in {"none", "running", "told", "spent"}
        /\ review.rounds \in Int
    BY <1>1, <1>3 DEF ViewShape, View
  <2>2. review' = Viewed(review, review.selected, review.closing, o, review.expired, p, review.rounds)
    BY <1>3, <2>1, ViewFields
  <2>3. QED BY ONLY <2>1, <2>2 DEF View, Viewed
<1>5. ViewShape'
  BY <1>1, <1>2, <1>3, <1>4 DEF ViewShape
<1>6. CallShape' /\ PressShape' /\ ApprovedAsShown'
  BY <1>1, <1>2, LaterSame, CallRests DEF PressShape, ApprovedAsShown
<1>7. OverWhenClosed
  <2>1. Receipt => gate[review.status.id].phase \in Settled
    BY <1>1, ListingIsNone DEF Receipt, ViewShape, Given, Settled
  <2>2. QED BY <1>3, <1>4, <2>1 DEF OverWhenClosed
<1>8. QED BY <1>1, <1>2, <1>5, <1>6, <1>7 DEF ReviewIInv

\* A menu of the present list changes the selection of one file of it.
LEMMA SelectStep ==
    ASSUME ReviewIInv, NEW c \in reviewClicks, SelectFiles(c)
    PROVE  ReviewIInv' /\ review'.open = review.open
<1>1. /\ gate \in [Sessions -> Session] /\ Sound(gate) /\ ViewShape /\ CallShape /\ PressShape
      /\ ApprovedAsShown
  BY ReviewParts
<1>2. /\ UNCHANGED <<gate, approvals, call>> /\ reviewClicks' \subseteq reviewClicks
      /\ call.by = "free" /\ c.file \in Files
  BY <1>1 DEF SelectFiles, Unlocked, PressShape
<1>3. ViewShape' /\ review'.open = review.open
  <2>1. CASE UNCHANGED <<review, reviewCard>>
    BY <1>1, <1>2, <2>1, LaterSame, ViewRests
  <2>2. CASE MenuIsCurrent(c)
    <3>1. PICK s : s = {x \in review.selected : x[2] # c.file}
                         \union (IF c.on THEN {<<c.snap.manifest, c.file>>} ELSE {})
      OBVIOUS
    <3>2. /\ review' = [review EXCEPT !.selected = s]
          /\ reviewCard' \in (IF review.open THEN {SessionShows([review EXCEPT !.selected = s])}
                              ELSE {reviewCard})
      BY <2>2, <3>1 DEF SelectFiles
    <3>3. /\ review.status.phase = "ready" /\ review.status.manifest = c.snap.manifest
          /\ review.status.manifest \in Manifests
      BY <1>1, <2>2, ListingIsNone DEF MenuIsCurrent, ViewShape, Given
    <3>4. s \subseteq Picks /\ \A x \in s : x[1] = review.status.manifest
      <4>1. <<c.snap.manifest, c.file>> \in Picks
        BY <1>2, <3>3 DEF Picks
      <4>2. QED BY <1>1, <3>1, <3>3, <4>1 DEF ViewShape, View
    <3>5. /\ review' \in View /\ review'.status = review.status /\ review'.selected = s
          /\ review'.open = review.open /\ review'.expired = review.expired
          /\ review'.poll = review.poll
      <4>1. /\ review \in View /\ s \in SUBSET Picks /\ review.closing \in BOOLEAN
            /\ review.open \in BOOLEAN /\ review.expired \in BOOLEAN
            /\ review.poll \in {"none", "running", "told", "spent"} /\ review.rounds \in Int
        BY <1>1, <3>4 DEF ViewShape, View
      <4>2. review' = Viewed(review, s, review.closing, review.open, review.expired, review.poll,
                             review.rounds)
        BY <3>2, <4>1, ViewFields
      <4>3. QED BY ONLY <4>1, <4>2 DEF View, Viewed
    <3>6. reviewCard' = reviewCard \/ reviewCard'.phase = "ready"
      BY <3>2, <3>3, <3>5 DEF SessionShows
    <3>7. QED BY <1>1, <1>2, <3>4, <3>5, <3>6 DEF ViewShape, Waiting
  <2>3. QED BY <2>1, <2>2 DEF SelectFiles
<1>4. CallShape' /\ PressShape' /\ ApprovedAsShown'
  BY <1>1, <1>2, LaterSame, CallRests DEF PressShape, ApprovedAsShown
<1>5. QED BY <1>1, <1>2, <1>3, <1>4 DEF ReviewIInv

\* An answer that came is absorbed: what the view becomes by it.
LEMMA AnswerAbsorbed ==
    ASSUME ReviewIInv, call.reply # Listing
    PROVE  LET n == Absorbed(review, call.reply) IN
           /\ n \in View /\ n.status = call.reply /\ Given(gate, n.status)
           /\ \A y \in n.selected : y[1] = n.status.manifest
           /\ n.closing = review.closing /\ n.open = review.open /\ n.expired = review.expired
           /\ n.poll = review.poll /\ n.status # Listing
<1>1. /\ review \in View /\ \A y \in review.selected : y[1] = review.status.manifest
      /\ Given(gate, call.reply)
  BY ReviewParts DEF ViewShape, CallShape
<1>2. call.reply \in Status /\ \A y \in call.reply.chosen : y[1] = call.reply.manifest
  BY <1>1 DEF Given
<1>3. QED BY <1>1, <1>2, ViewAbsorbs

\* The answer for a click.
LEMMA AnswerClickStep ==
    ASSUME ReviewIInv, AnswerClick
    PROVE  ReviewIInv' /\ review'.open = review.open
<1>1. /\ gate \in [Sessions -> Session] /\ Sound(gate) /\ ViewShape /\ CallShape /\ PressShape
      /\ ApprovedAsShown
  BY ReviewParts
<1>2. UNCHANGED <<gate, approvals, reviewClicks>> /\ call' = Idle0
  BY DEF AnswerClick
<1>3. PICK n : n = Absorbed(review, call.reply)
  OBVIOUS
<1>4. \/ UNCHANGED <<review, reviewCard>>
      \/ call.reply # Listing /\ review' = Polled(n) /\ reviewCard' = SessionShows(n)
      \/ call.reply # Listing /\ review' = n /\ reviewCard' = reviewCard
  BY <1>3 DEF AnswerClick
<1>5. ViewShape' /\ review'.open = review.open
  <2>1. CASE UNCHANGED <<review, reviewCard>>
    BY <1>1, <1>2, <2>1, LaterSame, ViewRests
  <2>2. CASE call.reply # Listing /\ review' = Polled(n) /\ reviewCard' = SessionShows(n)
    <3>1. /\ n \in View /\ Given(gate, n.status) /\ n.status # Listing
          /\ \A y \in n.selected : y[1] = n.status.manifest
          /\ n.open = review.open
      BY <1>3, <2>2, AnswerAbsorbed
    <3>2. /\ review' \in View /\ review'.status = n.status /\ review'.selected = n.selected
          /\ n.status.phase \in Waiting => review'.poll = "running"
          /\ review'.open = n.open
      BY <2>2, <3>1, ViewPolls
    <3>3. reviewCard'.phase = n.status.phase
      BY <2>2 DEF SessionShows
    <3>4. QED BY <1>2, <3>1, <3>2, <3>3 DEF ViewShape
  <2>3. CASE call.reply # Listing /\ review' = n /\ reviewCard' = reviewCard
    <3>1. /\ n \in View /\ Given(gate, n.status) /\ n.status # Listing
          /\ \A y \in n.selected : y[1] = n.status.manifest
          /\ n.open = review.open /\ n.expired = review.expired /\ n.poll = review.poll
      BY <1>3, <2>3, AnswerAbsorbed
    <3>2. QED BY <1>1, <1>2, <2>3, <3>1 DEF ViewShape
  <2>4. QED BY <1>4, <2>1, <2>2, <2>3
<1>6. CallShape' /\ PressShape' /\ ApprovedAsShown'
  BY <1>1, <1>2, CallEnds DEF PressShape, ApprovedAsShown
<1>7. QED BY <1>1, <1>2, <1>5, <1>6 DEF ReviewIInv

\* The answer for Close: the card goes, or waits with its polling task.
LEMMA AnswerCloseStep ==
    ASSUME ReviewIInv, AnswerClose
    PROVE  ReviewIInv' /\ OverWhenClosed
<1>1. /\ gate \in [Sessions -> Session] /\ Sound(gate) /\ ViewShape /\ CallShape /\ PressShape
      /\ ApprovedAsShown
  BY ReviewParts
<1>2. UNCHANGED <<gate, approvals, reviewClicks>> /\ call' = Idle0
  BY DEF AnswerClose
<1>3. PICK n : n = Absorbed(review, call.reply)
  OBVIOUS
<1>4. PICK no \in {FALSE}, none \in {"none"}, yes \in {TRUE} :
      \/ UNCHANGED <<review, reviewCard>>
      \/ /\ call.reply # Listing /\ review' = [n EXCEPT !.open = no, !.poll = none]
         /\ reviewCard' = reviewCard /\ Stops(n.status)
      \/ /\ call.reply # Listing /\ review' = Polled([n EXCEPT !.closing = yes])
         /\ reviewCard' = SessionShows(n)
  BY <1>3 DEF AnswerClose
<1>5. ASSUME call.reply # Listing
      PROVE  /\ n \in View /\ n.status = call.reply /\ n.open = review.open
              /\ Given(gate, n.status) /\ n.status # Listing
             /\ \A y \in n.selected : y[1] = n.status.manifest
  BY <1>3, <1>5, AnswerAbsorbed
<1>6. ViewShape' /\ OverWhenClosed
  <2>1. CASE UNCHANGED <<review, reviewCard>>
    BY <1>1, <1>2, <2>1, LaterSame, ViewRests DEF OverWhenClosed
  <2>2. CASE /\ call.reply # Listing /\ review' = [n EXCEPT !.open = no, !.poll = none]
             /\ Stops(n.status)
    <3>1. review' = Viewed(n, n.selected, n.closing, no, n.expired, none, n.rounds)
      BY <1>5, <2>2, ViewFields
    <3>2. /\ review' \in View /\ review'.status = n.status /\ review'.selected = n.selected
          /\ review'.open = FALSE /\ review'.poll = "none"
      BY ONLY <1>4, <1>5, <2>2, <3>1 DEF View, Viewed
    <3>3. n.status.phase \in Settled
      <4>1. call.by = "click" /\ call.click.kind = "close"
        BY DEF AnswerClose
      <4>2. QED BY <1>1, <1>5, <2>2, <4>1 DEF CallShape, Stops, Waiting
    <3>4. n.status.id # 0 => gate[n.status.id].phase \in Settled
      BY <1>5, <2>2, <3>3 DEF Given
    <3>5. QED BY <1>2, <1>5, <2>2, <3>2, <3>4 DEF ViewShape, OverWhenClosed
  <2>3. CASE /\ call.reply # Listing /\ review' = Polled([n EXCEPT !.closing = yes])
             /\ reviewCard' = SessionShows(n)
    <3>1. PICK m : m = [n EXCEPT !.closing = yes]
      OBVIOUS
    <3>2. m = Viewed(n, n.selected, yes, n.open, n.expired, n.poll, n.rounds)
      BY <1>5, <2>3, <3>1, ViewFields
    <3>3. m \in View /\ m.status = n.status /\ m.selected = n.selected /\ m.open = n.open
      BY ONLY <1>4, <1>5, <2>3, <3>2 DEF View, Viewed
    <3>4. /\ review' \in View /\ review'.status = n.status /\ review'.selected = n.selected
          /\ n.status.phase \in Waiting => review'.poll = "running"
          /\ review'.open = review.open
      BY <1>5, <2>3, <3>1, <3>3, ViewPolls
    <3>5. reviewCard'.phase = n.status.phase
      BY <2>3 DEF SessionShows
    <3>6. QED BY <1>2, <1>5, <2>3, <3>4, <3>5 DEF ViewShape, OverWhenClosed
  <2>4. QED BY <1>4, <2>1, <2>2, <2>3
<1>7. CallShape' /\ PressShape' /\ ApprovedAsShown'
  BY <1>1, <1>2, CallEnds DEF PressShape, ApprovedAsShown
<1>8. QED BY <1>1, <1>2, <1>6, <1>7 DEF ReviewIInv

\* The polling task asks about the session of the view.
LEMMA PollAsksStep ==
    ASSUME ReviewIInv, PollAsks
    PROVE  ReviewIInv'
<1>1. /\ gate \in [Sessions -> Session] /\ Sound(gate) /\ ViewShape /\ CallShape /\ PressShape
      /\ ApprovedAsShown
  BY ReviewParts
<1>2. /\ UNCHANGED <<gate, approvals, review, reviewCard, reviewClicks>> /\ review.poll = "running"
      /\ call'.by = "poll" /\ call'.reply \in {StatusOf(gate, review.status.id), Listing}
  BY DEF PollAsks
<1>3. review.status.id \in Sessions /\ gate[review.status.id].phase # "none"
  BY <1>1, <1>2 DEF ViewShape, Given, Status
<1>4. Given(gate, call'.reply)
  BY <1>1, <1>2, <1>3, StatusGiven DEF Given
<1>5. CallShape'
  BY <1>2, <1>4 DEF CallShape
<1>6. QED BY <1>1, <1>2, <1>5, LaterSame, ViewRests DEF ReviewIInv, PressShape, ApprovedAsShown

\* The view after an answer for the polling task, or one that did not come.
LEMMA PollAnsweredStep ==
    ASSUME ReviewIInv, PollAnswered
    PROVE  ReviewIInv' /\ OverWhenClosed
<1>1. /\ gate \in [Sessions -> Session] /\ Sound(gate) /\ ViewShape /\ CallShape /\ PressShape
      /\ ApprovedAsShown
  BY ReviewParts
<1>2. /\ UNCHANGED <<gate, approvals, reviewClicks>> /\ call' = Idle0
      /\ call.by = "poll" /\ review.poll = "running"
  BY <1>1 DEF PollAnswered, CallShape
<1>3. PICK n : n = Absorbed(review, call.reply)
  OBVIOUS
<1>4. PICK ended, rounds, poll, open :
        /\ open = (n.open /\ ~ended)
        /\ ended = (n.closing /\ n.status.phase = "cancelled") /\ rounds = n.rounds - 1
        /\ poll = IF ended \/ n.status.phase \notin Waiting THEN "none"
                  ELSE IF n.rounds = 1 THEN "spent" ELSE n.poll
  OBVIOUS
<1>5. PICK tells \in {"told"} :
      \/ /\ call.reply # Listing /\ reviewCard' = SessionShows(n)
         /\ review' = [n EXCEPT !.rounds = rounds, !.open = open, !.poll = poll]
      \/ review' = [review EXCEPT !.poll = tells] /\ reviewCard' = reviewCard
      \/ call.reply # Listing /\ review' = [n EXCEPT !.poll = tells] /\ reviewCard' = reviewCard
  BY <1>3, <1>4 DEF PollAnswered
<1>6. ASSUME call.reply # Listing
      PROVE  /\ n \in View /\ Given(gate, n.status) /\ n.status # Listing /\ n.poll = "running"
             /\ \A y \in n.selected : y[1] = n.status.manifest
             /\ n.open = review.open /\ n.expired = review.expired
  BY <1>2, <1>3, <1>6, AnswerAbsorbed
<1>7. ViewShape' /\ OverWhenClosed
  <2>1. CASE /\ call.reply # Listing /\ reviewCard' = SessionShows(n)
             /\ review' = [n EXCEPT !.rounds = rounds, !.open = open, !.poll = poll]
    <3>1. review' = Viewed(n, n.selected, n.closing, open, n.expired, poll, rounds)
      <4>1. n \in View
        BY <1>6, <2>1
      <4>2. RoundOf(n, rounds, open, poll)
               = Viewed(n, n.selected, n.closing, open, n.expired, poll, rounds)
        BY ONLY <4>1, RoundIs
      <4>3. QED BY <2>1, <4>2 DEF RoundOf
    <3>2. /\ open \in BOOLEAN /\ poll \in {"none", "running", "spent"} /\ rounds \in Int
          /\ open /\ n.status.phase \in Waiting => poll # "none"
      <4>1. n.closing \in BOOLEAN /\ n.open \in BOOLEAN /\ n.rounds \in Int /\ n.poll = "running"
        BY <1>6, <2>1 DEF View
      <4>2. ended \in BOOLEAN /\ rounds \in Int /\ open \in BOOLEAN /\ (open => ~ended)
        <5>1. ended = TRUE \/ ended = FALSE
          BY <1>4
        <5>2. open = TRUE \/ open = FALSE
          BY <1>4
        <5>3. open = TRUE => ended = FALSE
          BY <1>4, <5>1
        <5>4. rounds \in Int
          BY ONLY <1>4, <4>1
        <5>5. QED BY <5>1, <5>2, <5>3, <5>4
      <4>3. poll \in {"none", "running", "spent"} /\ (~ended /\ n.status.phase \in Waiting => poll # "none")
        BY <1>4, <4>1, <4>2
      <4>4. QED BY <4>2, <4>3
    <3>3. /\ review' \in View /\ review'.status = n.status /\ review'.selected = n.selected
          /\ review'.open = open /\ review'.poll = poll
      BY ONLY <1>6, <2>1, <3>1, <3>2 DEF View, Viewed
    <3>4. reviewCard'.phase = n.status.phase
      BY <2>1 DEF SessionShows
    <3>5. ViewShape'
      BY <1>2, <1>6, <2>1, <3>2, <3>3, <3>4 DEF ViewShape
    <3>6. OverWhenClosed
      <4>1. review.open /\ ~open => n.status.phase = "cancelled"
        BY <1>4, <1>6, <2>1
      <4>2. n.status.phase = "cancelled" => gate[n.status.id].phase \in Settled
        BY <1>6, <2>1 DEF Given, Settled
      <4>3. QED BY <3>3, <4>1, <4>2 DEF OverWhenClosed
    <3>7. QED BY <3>5, <3>6
  <2>2. CASE review' = [review EXCEPT !.poll = tells] /\ reviewCard' = reviewCard
    <3>1. review' = Viewed(review, review.selected, review.closing, review.open, review.expired,
                           tells, review.rounds)
      BY <1>1, <2>2, ViewFields DEF ViewShape
    <3>2. /\ review' \in View /\ review'.status = review.status /\ review'.selected = review.selected
          /\ review'.open = review.open /\ review'.expired = review.expired /\ review'.poll = "told"
      <4>1. review \in View
        BY <1>1 DEF ViewShape
      <4>2. QED BY ONLY <1>5, <3>1, <4>1 DEF View, Viewed
    <3>3. QED BY <1>1, <1>2, <2>2, <3>2 DEF ViewShape, OverWhenClosed
  <2>3. CASE call.reply # Listing /\ review' = [n EXCEPT !.poll = tells] /\ reviewCard' = reviewCard
    <3>1. review' = Viewed(n, n.selected, n.closing, n.open, n.expired, tells, n.rounds)
      BY <1>6, <2>3, ViewFields
    <3>2. /\ review' \in View /\ review'.status = n.status /\ review'.selected = n.selected
          /\ review'.poll = "told" /\ review'.open = review.open
      BY ONLY <1>5, <1>6, <2>3, <3>1 DEF View, Viewed
    <3>3. QED BY <1>2, <1>6, <2>3, <3>2 DEF ViewShape, OverWhenClosed
  <2>4. QED BY <1>5, <2>1, <2>2, <2>3
<1>8. CallShape' /\ PressShape' /\ ApprovedAsShown'
  BY <1>1, <1>2, CallEnds DEF PressShape, ApprovedAsShown
<1>9. QED BY <1>1, <1>2, <1>7, <1>8 DEF ReviewIInv

\* The view times out; a polling call that is under way is cancelled with it.
LEMMA ExpiresStep ==
    ASSUME ReviewIInv, ReviewExpires
    PROVE  ReviewIInv' /\ review'.open = review.open
<1>1. /\ gate \in [Sessions -> Session] /\ Sound(gate) /\ ViewShape /\ CallShape /\ PressShape
      /\ ApprovedAsShown
  BY ReviewParts
<1>2. /\ UNCHANGED <<gate, approvals, reviewCard, reviewClicks>>
      /\ call' = IF call.by = "poll" THEN Idle0 ELSE call
  BY DEF ReviewExpires
<1>3. PICK x \in {TRUE}, none \in {"none"} : review' = [review EXCEPT !.expired = x, !.poll = none]
  BY DEF ReviewExpires
<1>4. /\ review' \in View /\ review'.status = review.status /\ review'.selected = review.selected
      /\ review'.expired = TRUE /\ review'.open = review.open /\ review'.poll = "none"
  <2>1. review \in View
    BY <1>1 DEF ViewShape
  <2>2. review' = Viewed(review, review.selected, review.closing, review.open, x, none, review.rounds)
    BY <1>3, <2>1, ViewFields
  <2>3. QED BY ONLY <1>3, <2>1, <2>2 DEF View, Viewed
<1>5. ViewShape'
  BY <1>1, <1>2, <1>4 DEF ViewShape
<1>6. CallShape'
  <2>1. CASE call.by = "poll"
    BY <1>2, <2>1, CallEnds
  <2>2. CASE call.by # "poll"
    BY <1>1, <1>2, <2>2, LaterSame, CallRests
  <2>3. QED BY <2>1, <2>2
<1>7. QED BY <1>1, <1>2, <1>4, <1>5, <1>6 DEF ReviewIInv, PressShape, ApprovedAsShown

\* What is left of the timeout, once it has the lock.
LEMMA ExpiryCleansStep ==
    ASSUME ReviewIInv, ExpiryCleans
    PROVE  ReviewIInv'
<1>1. /\ gate \in [Sessions -> Session] /\ Sound(gate) /\ ViewShape /\ CallShape /\ PressShape
      /\ ApprovedAsShown
  BY ReviewParts
<1>2. /\ UNCHANGED <<approvals, reviewCard, reviewClicks, call>> /\ call.by = "free"
      /\ review.expired
  BY DEF ExpiryCleans, Unlocked
<1>3. PICK no \in {FALSE} : review' = [review EXCEPT !.open = no]
  BY DEF ExpiryCleans
<1>4. /\ review' \in View /\ review'.status = review.status /\ review'.selected = review.selected
      /\ review'.open = FALSE /\ review'.poll = review.poll
  <2>1. review \in View
    BY <1>1 DEF ViewShape
  <2>2. review' = Viewed(review, review.selected, review.closing, no, review.expired, review.poll,
                         review.rounds)
    BY <1>3, <2>1, ViewFields
  <2>3. QED BY ONLY <1>3, <2>1, <2>2 DEF View, Viewed
<1>5. Later(gate, gate')
  <2>1. gate' = gate \/ (review.status.id # 0 /\ GateCancels(review.status.id))
    BY DEF ExpiryCleans
  <2>2. review.status.id # 0 => review.status.id \in Sessions /\ gate[review.status.id].phase # "none"
    BY <1>1, ListingIsNone DEF ViewShape, Given, Status
  <2>3. QED BY <1>1, <2>1, <2>2, LaterSame, CancelsLater
<1>6. ViewShape'
  BY <1>1, <1>4, <1>5, GivenStays DEF ViewShape
<1>7. CallShape'
  BY <1>1, <1>2, <1>5, CallRests
<1>8. QED BY <1>1, <1>2, <1>5, <1>6, <1>7 DEF ReviewIInv, Later, PressShape, ApprovedAsShown

\* The gateway on its own.
LEMMA GateMovesStep ==
    ASSUME ReviewIInv, GateMoves
    PROVE  ReviewIInv'
<1>1. UNCHANGED <<approvals, review, reviewCard, reviewClicks, call>>
  BY DEF GateMoves
<1>2. Later(gate, gate')
  BY ReviewParts, MovesLater
<1>3. ViewShape' /\ CallShape'
  BY <1>1, <1>2, ReviewParts, ViewRests, CallRests DEF CallShape
<1>4. QED BY <1>1, <1>2, <1>3, ReviewParts DEF ReviewIInv, Later, PressShape, ApprovedAsShown

\* Every step keeps the invariant, and closes a card only when its session is over.
LEMMA ReviewStep == ReviewIInv /\ [ReviewNext]_reviewVars => ReviewIInv' /\ OverWhenClosed
<1>1. ASSUME ReviewIInv, PressReview PROVE ReviewIInv' /\ OverWhenClosed
  BY <1>1, PressReviewStep DEF PressReview, OverWhenClosed
<1>2. ASSUME ReviewIInv, NEW c \in reviewClicks, AskGate(c) PROVE ReviewIInv' /\ OverWhenClosed
  <2>1. review' = review
    BY <1>2 DEF AskGate
  <2>2. QED BY <1>2, <2>1, AskStep DEF OverWhenClosed
<1>3. ASSUME ReviewIInv, NEW c \in reviewClicks, NotAsked(c) \/ SelectFiles(c)
      PROVE  ReviewIInv' /\ OverWhenClosed
  BY <1>3, NotAskedStep, SelectStep DEF OverWhenClosed
<1>4. ASSUME ReviewIInv, AnswerClick \/ AnswerClose \/ PollAnswered \/ ReviewExpires
      PROVE  ReviewIInv' /\ OverWhenClosed
  BY <1>4, AnswerClickStep, AnswerCloseStep, PollAnsweredStep, ExpiresStep DEF OverWhenClosed
<1>5. ASSUME ReviewIInv, PollAsks PROVE ReviewIInv' /\ OverWhenClosed
  BY <1>5, PollAsksStep DEF PollAsks, OverWhenClosed
<1>6. ASSUME ReviewIInv, ExpiryCleans PROVE ReviewIInv' /\ OverWhenClosed
  BY <1>6, ExpiryCleansStep DEF ExpiryCleans, OverWhenClosed
<1>7. ASSUME ReviewIInv, GateMoves PROVE ReviewIInv' /\ OverWhenClosed
  BY <1>7, GateMovesStep DEF GateMoves, OverWhenClosed
<1>8. ASSUME ReviewIInv, UNCHANGED reviewVars PROVE ReviewIInv' /\ OverWhenClosed
  <2>1. UNCHANGED <<gate, approvals, review, reviewCard, reviewClicks, call>>
    BY <1>8 DEF reviewVars
  <2>2. ViewShape' /\ CallShape'
    BY <1>8, <2>1, ReviewParts, LaterSame, ViewRests, CallRests DEF CallShape
  <2>3. QED BY <1>8, <2>1, <2>2, ReviewParts DEF ReviewIInv, OverWhenClosed, PressShape, ApprovedAsShown
<1>9. QED BY <1>1, <1>2, <1>3, <1>4, <1>5, <1>6, <1>7, <1>8 DEF ReviewNext

\* The review's inductive invariant holds, for any sessions, file lists, clicks and faults.
THEOREM ReviewInvariance == ReviewSpec => []ReviewIInv
  BY ReviewStart, ReviewStep, PTL DEF ReviewSpec

\* What the gateway approves is what the card showed when Approve was pressed, and a
\* card that shows the gateway at work is kept up to date.
THEOREM ReviewHolds == ReviewSpec => []ReviewInv
<1>1. ReviewIInv => ReviewTypeOK
  <2>1. ASSUME ReviewIInv PROVE ReviewTypeOK
    <3>1. review \in View /\ Given(gate, review.status)
      BY <2>1 DEF ReviewIInv, ViewShape
    <3>2. review.status.id \in Sessions \union {0} /\ review.status.phase \in Phases
      BY <3>1, ListingIsNone DEF Given, Status, Phases
    <3>3. QED BY <2>1, <3>1, <3>2 DEF ReviewIInv, ViewShape, View, ReviewTypeOK
  <2>2. QED BY <2>1
<1>2. ReviewIInv => PolledWhileWaiting
  BY DEF ReviewIInv, ViewShape, PolledWhileWaiting
<1>3. ReviewIInv => ReviewInv
  BY <1>1, <1>2 DEF ReviewIInv, ReviewInv
<1>4. QED BY <1>3, ReviewInvariance, PTL

\* A review whose card was closed is over at the gateway.
THEOREM ClosedReviewsAreSettled == ReviewSpec => ClosedMeansSettled
<1>1. ReviewIInv /\ [ReviewNext]_reviewVars => OverWhenClosed
  BY ReviewStep
<1>2. QED BY <1>1, ReviewInvariance, PTL DEF ReviewSpec, ClosedMeansSettled, OverWhenClosed

-----------------------------------------------------------------------------
(***************************************************************************)
(* The owner's cards.                                                      *)
(***************************************************************************)

\* Every torrent's row, notification and place in the list are of keys it has had, and
\* the cycle under way has listed no less than was recorded.
KeysShape ==
    \A t \in Torrents :
        /\ cardRow[t].key <= torrent[t] /\ toldRow[t] <= torrent[t]
        /\ sweep.list[t] <= torrent[t]
        /\ toldRow[t] # 0 => toldRow[t] \in Notable
        /\ sweep.pc # "idle" => cardRow[t].key <= sweep.list[t] /\ toldRow[t] <= sweep.list[t]

\* The cycle is at a torrent it has listed: it tells a stage not told yet, has a card to
\* fetch or edit, or sends one because none is up.
SweepShape ==
    sweep.pc # "idle" =>
        /\ sweep.cur \in Torrents /\ sweep.list[sweep.cur] > 0
        /\ sweep.pc = "home" =>
              /\ sweep.list[sweep.cur] \in Notable
              /\ toldRow[sweep.cur] # sweep.list[sweep.cur]
        /\ sweep.pc \in {"fetch", "edit"} => cardRow[sweep.cur].at # NoPlace
        /\ sweep.pc = "send" /\ cardRow[sweep.cur].at # NoPlace =>
              ~ownerCard[cardRow[sweep.cur].at].up

\* The messages of the direct chat were sent one after the other.
PlacesShape ==
    \E m \in Nat : \A p \in Places : /\ ownerCard[p].of # 0 <=> p <= m
                                     /\ ownerCard[p].up => p <= m

\* The card a row names is a card of its torrent, shows what the row claims and answers.
RowShape ==
    \A t \in Torrents : LET p == cardRow[t].at IN
        p # NoPlace =>
            /\ ownerCard[p].of = t
            /\ ownerCard[p].up => ownerCard[p].key >= cardRow[t].key /\ ownerCard[p].live

\* The cards of a torrent that no row names are no more than its unrecorded sends.
Loose(t) == {p \in Places : ownerCard[p].of = t /\ ownerCard[p].up /\ p # cardRow[t].at}
LooseShape == \A t \in Torrents : Cardinality(Loose(t)) <= unrecorded.cards[t]

\* Before a stage is noted, all that was told of it are unconfirmed notifications.
ToldShape ==
    \A t \in Torrents :
        /\ \A k \in Notable :
              /\ told[<<t, k>>] <= 1 + unrecorded.told[t]
              /\ k > toldRow[t] => told[<<t, k>>] <= unrecorded.told[t]
        /\ toldRow[t] # 0 => told[<<t, toldRow[t]>>] > 0

\* The inductive invariant of the owner's cards.
CardsIInv ==
    /\ CardsTypeOK /\ KeysShape /\ SweepShape /\ PlacesShape /\ RowShape
    /\ LooseShape /\ ToldShape

\* Torrents and places are numbered from 1, without gaps.
LEMMA Numbered ==
    /\ Torrents \subseteq Nat /\ 0 \notin Torrents /\ IsFiniteSet(Torrents)
    /\ Places \subseteq Nat /\ 0 \notin Places /\ IsFiniteSet(Places)
    /\ \A p \in Places, q \in Nat : 1 <= q /\ q <= p => q \in Places
    /\ LastKey \in Nat /\ Notable \subseteq 1..LastKey /\ NoPlace \notin Places
<1>1. Cardinality(Torrents) \in Nat /\ Cardinality(Places) \in Nat
    BY OwnerCardsAssumption, FS_CardinalityType
<1>2. /\ Torrents = 1..Cardinality(Torrents) /\ Places = 1..Cardinality(Places)
      /\ IsFiniteSet(Torrents) /\ IsFiniteSet(Places) /\ LastKey \in Nat /\ Notable \subseteq 1..LastKey
      /\ NoPlace \notin Places
    BY OwnerCardsAssumption DEF OwnerCardsAssumption
<1>3. Torrents \subseteq Nat /\ 0 \notin Torrents
    BY ONLY <1>1, <1>2
<1>4. Places \subseteq Nat /\ 0 \notin Places
    BY ONLY <1>1, <1>2
<1>5. \A p \in Places, q \in Nat : 1 <= q /\ q <= p => q \in Places
    BY ONLY <1>1, <1>2
<1>. QED  BY <1>2, <1>3, <1>4, <1>5

\* Of finitely many numbers one is the least: the one that has none of them below it.
LEMMA LeastOf ==
    ASSUME NEW S, S \subseteq Nat, IsFiniteSet(S), S # {}
    PROVE  \E x \in S : \A y \in S : x <= y
<1>. DEFINE Below(x) == {y \in S : y < x}
            T == {Below(x) : x \in S}
<1>1. IsWellFoundedOn(StrictSubsetOrdering(S), FiniteSubsetsOf(S))
    BY FS_StrictSubsetOrderingWellFounded
<1>2. T \subseteq FiniteSubsetsOf(S) /\ T # {}
  <2>1. ASSUME NEW x \in S  PROVE Below(x) \in FiniteSubsetsOf(S)
    <3>1. Below(x) \in SUBSET S
        OBVIOUS
    <3>2. IsFiniteSet(Below(x))
        BY <3>1, FS_Subset
    <3>. QED  BY <3>1, <3>2 DEF FiniteSubsetsOf
  <2>. QED  BY <2>1
<1>3. PICK B \in T : \A C \in T : ~ (<<C, B>> \in StrictSubsetOrdering(S))
  <2>. HIDE DEF T
  <2>. QED  BY <1>1, <1>2, WFMin
<1>4. PICK x \in S : B = Below(x)
    OBVIOUS
<1>5. ASSUME NEW y \in S, y < x  PROVE FALSE
  <2>1. x \in Nat /\ y \in Nat /\ \A z \in S : z \in Nat
      BY <1>4, <1>5
  <2>2. Below(y) \subseteq Below(x)
    <3>1. \A z \in S : z < y => z < x
        BY <2>1, <1>5
    <3>. QED  BY <3>1
  <2>3. y \in Below(x) /\ y \notin Below(y)
      BY <2>1, <1>5
  <2>4. <<Below(y), Below(x)>> \in StrictSubsetOrdering(S)
    <3>1. Below(x) \in SUBSET S /\ Below(y) \in SUBSET S /\ Below(y) # Below(x)
        BY <2>3
    <3>. HIDE DEF Below
    <3>. QED  BY <2>2, <3>1 DEF StrictSubsetOrdering
  <2>5. Below(y) \in T
      BY <1>5
  <2>. QED  BY <2>4, <2>5, <1>3, <1>4
<1>. QED  BY <1>5

\* What the records of the owner's cards are made of.
OwnerMessage == [of : Torrents \union {0}, key : Keys0, up : BOOLEAN, live : BOOLEAN]
OwnerRow == [key : Keys0, at : Places \union {NoPlace}]
Cycle == [pc : SweepPcs, list : [Torrents -> Keys0], cur : Torrents \union {0}]

\* Where the cycle is after a step: at rest, at the next torrent, or further with this one.
Moved(pcs) ==
    /\ sweep' \in Cycle /\ sweep'.pc \in pcs \union {"idle", "item"}
    /\ \A t \in Torrents : sweep'.list[t] <= sweep.list[t]
    /\ sweep'.pc # "idle" => sweep'.list = sweep.list /\ sweep'.cur \in Torrents
                             /\ sweep.list[sweep'.cur] > 0
    /\ sweep'.pc \in pcs => sweep'.cur = sweep.cur

\* The end of a cycle.
LEMMA AbortMoves ==
    ASSUME sweep \in Cycle, Abort, NEW pcs, "idle" \notin pcs
    PROVE  Moved(pcs)
<1>1. /\ sweep' = Resting /\ Resting \in Cycle /\ Resting.pc = "idle"
      /\ Resting.list = [t \in Torrents |-> 0]
    BY Numbered DEF Abort, Resting, Cycle, SweepPcs, Keys0
<1>2. /\ sweep' \in Cycle /\ sweep'.pc = "idle" /\ \A t \in Torrents : sweep'.list[t] = 0
    BY ONLY <1>1
<1>3. \A t \in Torrents : sweep.list[t] \in Nat
    BY Numbered DEF Cycle, Keys0
<1>. QED  BY <1>2, <1>3 DEF Moved

\* A step within a torrent.
LEMMA StepMoves ==
    ASSUME sweep \in Cycle, NEW pc \in SweepPcs \ {"idle", "item"}, Step(pc),
           sweep.cur \in Torrents, sweep.list[sweep.cur] > 0
    PROVE  Moved({pc}) /\ sweep'.pc = pc
<1>1. /\ sweep' \in Cycle /\ sweep'.pc = pc /\ sweep'.list = sweep.list /\ sweep'.cur = sweep.cur
    BY DEF Step, Cycle
<1>2. \A t \in Torrents : sweep.list[t] \in Nat
    BY Numbered DEF Cycle, Keys0
<1>. QED  BY <1>1, <1>2 DEF Moved

\* The next torrent of the list is one that was listed.
LEMMA ProceedMoves ==
    ASSUME sweep \in Cycle, sweep.cur \in Torrents, Proceed, NEW pcs,
           "idle" \notin pcs, "item" \notin pcs
    PROVE  Moved(pcs)
<1>. DEFINE rest == {t \in Torrents : t > Cur /\ sweep.list[t] > 0}
            next == CHOOSE t \in rest : \A u \in rest : t <= u
<1>1. CASE rest = {}
    BY <1>1, AbortMoves DEF Proceed
<1>2. CASE rest # {}
  <2>1. next \in rest
    <3>1. rest \subseteq Nat /\ IsFiniteSet(rest)
        BY Numbered, FS_Subset
    <3>2. \E t \in rest : \A u \in rest : t <= u
        BY <1>2, <3>1, LeastOf
    <3>. QED  BY <3>2
  <2>2. sweep' = [sweep EXCEPT !.pc = "item", !.cur = next]
    BY <1>2 DEF Proceed
  <2>3. next \in Torrents /\ sweep.list[next] > 0
    BY <2>1
  <2>. HIDE DEF next, rest
  <2>4. "item" \in SweepPcs
    BY DEF SweepPcs
  <2>5. /\ sweep' \in Cycle /\ sweep'.pc = "item" /\ sweep'.list = sweep.list /\ sweep'.cur = next
    BY <2>2, <2>3, <2>4 DEF Cycle
  <2>6. \A t \in Torrents : sweep.list[t] \in Nat
    BY Numbered DEF Cycle, Keys0
  <2>. QED  BY <2>3, <2>5, <2>6 DEF Moved
<1>. QED  BY <1>1, <1>2

\* The values of a typed state.
LEMMA CardValues ==
    ASSUME CardsTypeOK
    PROVE  /\ sweep \in Cycle /\ sweep.pc \in SweepPcs /\ sweep.list \in [Torrents -> Keys0]
           /\ cardRow \in [Torrents -> OwnerRow] /\ ownerCard \in [Places -> OwnerMessage]
           /\ unrecorded.cards \in [Torrents -> Nat] /\ unrecorded.told \in [Torrents -> Nat]
           /\ \A t \in Torrents :
                 /\ torrent[t] \in Keys0 /\ toldRow[t] \in Keys0 /\ sweep.list[t] \in Keys0
                 /\ cardRow[t] \in OwnerRow /\ cardRow[t].key \in Keys0
                 /\ cardRow[t].at \in Places \union {NoPlace}
           /\ \A p \in Places : ownerCard[p] \in OwnerMessage /\ ownerCard[p].key \in Keys0
           /\ Keys0 \subseteq Nat
  BY Numbered DEF CardsTypeOK, Cycle, OwnerRow, OwnerMessage, Keys0

\* A fault is counted up to the bound.
LEMMA FaultCounts ==
    ASSUME CardsTypeOK, Mishap \/ Smooth
    PROVE  cardFaults' \in 0..MaxCardFaults
<1>. MaxCardFaults \in Nat
    BY OwnerCardsAssumption DEF OwnerCardsAssumption
<1>. QED  BY DEF CardsTypeOK, Mishap, Smooth

\* Keys recorded in the middle of a cycle are the ones it has listed.
LEMMA CycleKeys ==
    ASSUME CardsIInv, sweep.pc # "idle", NEW pcs, Moved(pcs), torrent' = torrent,
           \A t \in Torrents : \/ cardRow'[t].key = cardRow[t].key
                               \/ t = sweep.cur /\ cardRow'[t].key = sweep.list[t],
           \A t \in Torrents : \/ toldRow'[t] = toldRow[t]
                               \/ t = sweep.cur /\ toldRow'[t] = sweep.list[t] /\ toldRow'[t] \in Notable
    PROVE  KeysShape'
<1>1. /\ \A t \in Torrents : sweep'.list[t] <= sweep.list[t]
      /\ sweep'.pc # "idle" => sweep'.list = sweep.list
    BY DEF Moved
<1>2. \A t \in Torrents : /\ torrent[t] \in Nat /\ toldRow[t] \in Nat /\ sweep.list[t] \in Nat
                          /\ cardRow[t].key \in Nat
    BY CardValues DEF CardsIInv
<1>3. \A t \in Torrents : sweep'.list[t] \in Nat
    BY Numbered DEF Moved, Cycle, Keys0
<1>4. ASSUME NEW t \in Torrents
      PROVE  /\ cardRow'[t].key <= torrent[t] /\ toldRow'[t] <= torrent[t]
             /\ sweep'.list[t] <= torrent[t]
             /\ toldRow'[t] # 0 => toldRow'[t] \in Notable
             /\ sweep'.pc # "idle" => cardRow'[t].key <= sweep.list[t] /\ toldRow'[t] <= sweep.list[t]
    BY <1>1, <1>2, <1>3 DEF CardsIInv, KeysShape
<1>. QED  BY <1>1, <1>4 DEF KeysShape

\* Between two torrents the cycle has nothing to fetch or to send.
LEMMA BetweenTorrents ==
    ASSUME Moved({})
    PROVE  SweepShape'
  BY DEF Moved, SweepShape

\* It begins with nothing listed, sent or told.
LEMMA CardsStart == CardsInit => CardsIInv
<1>. SUFFICES ASSUME CardsInit PROVE CardsIInv
    OBVIOUS
<1>. USE Numbered
<1>1. /\ \A t \in Torrents : /\ torrent[t] = 0 /\ cardRow[t] = NoCardRow /\ toldRow[t] = 0
                             /\ unrecorded.cards[t] = 0 /\ unrecorded.told[t] = 0
                             /\ sweep.list[t] = 0
      /\ \A p \in Places : ownerCard[p] = NoMessage
      /\ sweep = Resting /\ sweep.pc = "idle"
      /\ \A n \in Torrents \X Notable : told[n] = 0
    BY DEF CardsInit, Resting
<1>2. /\ NoCardRow \in [key : Keys0, at : Places \union {NoPlace}] /\ NoCardRow.key = 0
      /\ NoCardRow.at = NoPlace
      /\ NoMessage \in [of : Torrents \union {0}, key : Keys0, up : BOOLEAN, live : BOOLEAN]
      /\ NoMessage.of = 0 /\ NoMessage.up = FALSE
      /\ Resting \in [pc : SweepPcs, list : [Torrents -> Keys0], cur : Torrents \union {0}]
    BY DEF NoCardRow, NoMessage, Resting, SweepPcs, Keys0
<1>3. CardsTypeOK
  <2>1. /\ cardRow \in [Torrents -> [key : Keys0, at : Places \union {NoPlace}]]
        /\ ownerCard \in [Places -> [of : Torrents \union {0}, key : Keys0,
                                     up : BOOLEAN, live : BOOLEAN]]
      BY <1>2 DEF CardsInit
  <2>2. /\ torrent \in [Torrents -> Keys0] /\ toldRow \in [Torrents -> Keys0]
        /\ told \in [Torrents \X Notable -> Nat] /\ cardFaults \in 0..MaxCardFaults
        /\ unrecorded \in [cards : [Torrents -> Nat], told : [Torrents -> Nat]]
    <3>. MaxCardFaults \in Nat
        BY OwnerCardsAssumption DEF OwnerCardsAssumption
    <3>. QED  BY DEF CardsInit, Keys0
  <2>. QED  BY <1>1, <1>2, <2>1, <2>2 DEF CardsTypeOK
<1>4. KeysShape /\ SweepShape /\ RowShape
    BY <1>1, <1>2 DEF KeysShape, SweepShape, RowShape
<1>5. PlacesShape
  <2>1. \A p \in Places : ownerCard[p].of = 0 /\ ~(p <= 0) /\ ~ownerCard[p].up
      BY <1>1, <1>2
  <2>. QED  BY <2>1 DEF PlacesShape
<1>6. LooseShape
  <2>. \A p \in Places : ~ownerCard[p].up
      BY <1>1, <1>2
  <2>1. \A t \in Torrents : Loose(t) = {}
      BY DEF Loose
  <2>. QED  BY <1>1, <2>1, FS_EmptySet DEF LooseShape
<1>7. ToldShape
  <2>1. \A t \in Torrents, k \in Notable : told[<<t, k>>] = 0
      BY <1>1
  <2>. QED  BY <1>1, <2>1 DEF ToldShape
<1>. QED  BY <1>3, <1>4, <1>5, <1>6, <1>7 DEF CardsIInv

\* The gateway's keys grow.
LEMMA AdvanceKeeps ==
    ASSUME CardsIInv, NEW t \in Torrents, Advance(t)
    PROVE  CardsIInv'
<1>1. \A u \in Torrents : /\ torrent[u] \in Nat /\ torrent'[u] \in Keys0 /\ torrent'[u] \in Nat
                          /\ torrent[u] <= torrent'[u] /\ toldRow[u] \in Nat
                          /\ sweep.list[u] \in Nat /\ cardRow[u].key \in Nat
    BY CardValues, Numbered DEF CardsIInv, CardsTypeOK, Advance, Keys0
<1>2. CardsTypeOK'
  <2>1. torrent' \in [Torrents -> Keys0]
      BY <1>1 DEF Advance, CardsIInv, CardsTypeOK
  <2>. QED  BY <2>1 DEF Advance, CardsIInv, CardsTypeOK
<1>3. KeysShape'
    BY <1>1 DEF Advance, CardsIInv, KeysShape
<1>4. /\ SweepShape' /\ PlacesShape' /\ RowShape' /\ LooseShape' /\ ToldShape'
    BY DEF Advance, CardsIInv, SweepShape, PlacesShape, RowShape, LooseShape, Loose, ToldShape
<1>. QED  BY <1>2, <1>3, <1>4 DEF CardsIInv

\* A step that moves the cycle alone, to a place where what it does is due.
LEMMA MoveKeeps ==
    ASSUME CardsIInv, sweep' \in Cycle, KeysShape', SweepShape', Mishap \/ Smooth,
           UNCHANGED <<torrent, cardRow, toldRow, ownerCard, told, unrecorded>>
    PROVE  CardsIInv'
<1>1. CardsTypeOK'
    BY FaultCounts DEF CardsIInv, CardsTypeOK, Cycle
<1>2. PlacesShape' /\ RowShape' /\ LooseShape' /\ ToldShape'
    BY DEF CardsIInv, PlacesShape, RowShape, LooseShape, Loose, ToldShape
<1>. QED  BY <1>1, <1>2 DEF CardsIInv

\* A new cycle lists keys that are no older than the tables.
LEMMA ListKeeps ==
    ASSUME CardsIInv, ListTorrents
    PROVE  CardsIInv'
<1>. DEFINE listed == {t \in Torrents : torrent[t] > 0}
            first == CHOOSE t \in listed : \A u \in listed : t <= u
<1>1. first \in Torrents /\ torrent[first] > 0
  <2>1. listed # {} /\ listed \subseteq Nat /\ IsFiniteSet(listed)
      BY Numbered, FS_Subset DEF ListTorrents
  <2>2. \E t \in listed : \A u \in listed : t <= u
      BY <2>1, LeastOf
  <2>. QED  BY <2>2
<1>2. sweep' = [pc |-> "item", list |-> torrent, cur |-> first]
    BY DEF ListTorrents
<1>. HIDE DEF first, listed
<1>3. /\ sweep' \in Cycle /\ sweep'.pc = "item" /\ sweep'.list = torrent /\ sweep'.cur = first
    BY <1>1, <1>2 DEF Cycle, SweepPcs, CardsIInv, CardsTypeOK
<1>4. KeysShape'
  <2>1. \A u \in Torrents : torrent[u] \in Nat
      BY CardValues DEF CardsIInv
  <2>. QED  BY <1>3, <2>1 DEF ListTorrents, CardsIInv, KeysShape
<1>5. SweepShape'
    BY <1>1, <1>3 DEF SweepShape
<1>. QED  BY <1>3, <1>4, <1>5, MoveKeeps DEF ListTorrents, Smooth

\* The cycle is at a torrent of its list.
LEMMA AtTorrent ==
    ASSUME CardsIInv, sweep.pc # "idle"
    PROVE  /\ Cur = sweep.cur /\ Key = sweep.list[sweep.cur]
           /\ sweep.cur \in Torrents /\ Key > 0 /\ Key \in Keys0 /\ Key \in Nat
           /\ cardRow[sweep.cur].key <= Key /\ toldRow[sweep.cur] <= Key
  BY CardValues DEF Cur, Key, CardsIInv, SweepShape, KeysShape

\* The card of the torrent is next, or the next torrent.
LEMMA CardNext ==
    ASSUME CardsIInv, sweep.pc # "idle", Proceed \/ Step(CardStep),
           UNCHANGED <<cardRow, ownerCard>>
    PROVE  SweepShape' /\ \E pcs \in SUBSET SweepPcs : Moved(pcs)
<1>1. /\ sweep.cur \in Torrents /\ sweep.list[sweep.cur] > 0 /\ sweep \in Cycle
    BY AtTorrent, CardValues DEF CardsIInv
<1>2. CASE Proceed
  <2>1. Moved({})
      BY <1>1, <1>2, ProceedMoves
  <2>. QED  BY <2>1, BetweenTorrents
<1>3. CASE Step(CardStep)
  <2>1. CardStep \in {"send", "fetch"} /\ (CardStep = "send" <=> cardRow[sweep.cur].at = NoPlace)
      BY DEF CardStep, Cur
  <2>2. Moved({CardStep}) /\ sweep'.pc = CardStep
      BY <1>1, <1>3, <2>1, StepMoves DEF SweepPcs
  <2>3. SweepShape'
      BY <1>1, <2>1, <2>2 DEF Moved, SweepShape
  <2>4. {CardStep} \in SUBSET SweepPcs
      BY <2>1 DEF SweepPcs
  <2>. QED  BY <2>2, <2>3, <2>4
<1>. QED  BY <1>2, <1>3

\* Whether to tell, to fetch or to send is read from the tables.
LEMMA ConsiderKeeps ==
    ASSUME CardsIInv, Consider
    PROVE  CardsIInv'
<1>0. sweep.pc = "item" /\ sweep \in Cycle
    BY CardValues DEF Consider, CardsIInv
<1>1. /\ sweep.cur \in Torrents /\ sweep.list[sweep.cur] > 0
    BY <1>0, AtTorrent
<1>2. UNCHANGED <<torrent, cardRow, toldRow, ownerCard, told, cardFaults, unrecorded>>
    BY DEF Consider
<1>3. CASE Untold /\ Step("home")
  <2>1. Moved({"home"}) /\ sweep'.pc = "home"
      BY <1>0, <1>1, <1>3, StepMoves DEF SweepPcs
  <2>2. KeysShape'
      BY <1>0, <1>2, <2>1, CycleKeys
  <2>3. SweepShape'
      BY <1>1, <1>2, <1>3, <2>1 DEF Moved, SweepShape, Untold, Key, Cur
  <2>. QED  BY <1>2, <2>1, <2>2, <2>3, MoveKeeps DEF Moved, Smooth
<1>4. CASE Proceed \/ Step(CardStep)
  <2>1. SweepShape' /\ \E pcs \in SUBSET SweepPcs : Moved(pcs)
      BY <1>0, <1>2, <1>4, CardNext
  <2>2. KeysShape'
      BY <1>0, <1>2, <2>1, CycleKeys
  <2>. QED  BY <1>2, <2>1, <2>2, MoveKeeps DEF Moved, Smooth
<1>. QED  BY <1>3, <1>4 DEF Consider

\* The message of the row is there, is gone, or the cycle ends.
LEMMA FetchKeeps ==
    ASSUME CardsIInv, FetchCardMessage
    PROVE  CardsIInv'
<1>0. sweep.pc = "fetch" /\ sweep \in Cycle
    BY CardValues DEF FetchCardMessage, CardsIInv
<1>1. /\ sweep.cur \in Torrents /\ sweep.list[sweep.cur] > 0
      /\ cardRow[sweep.cur].at # NoPlace /\ Cur = sweep.cur
    BY <1>0, AtTorrent DEF CardsIInv, SweepShape
<1>2. UNCHANGED <<torrent, cardRow, toldRow, ownerCard, told, unrecorded>>
    BY DEF FetchCardMessage
<1>3. \/ Smooth /\ Step("edit")
      \/ Smooth /\ ~ownerCard[cardRow[sweep.cur].at].up /\ Step("send")
      \/ Mishap /\ Abort
    BY <1>1 DEF FetchCardMessage, MissingCard
<1>4. CASE Smooth /\ Step("edit")
  <2>1. Moved({"edit"}) /\ sweep'.pc = "edit"
      BY <1>0, <1>1, <1>4, StepMoves DEF SweepPcs
  <2>2. KeysShape'
      BY <1>0, <1>2, <2>1, CycleKeys
  <2>3. SweepShape'
      BY <1>1, <1>2, <2>1 DEF Moved, SweepShape
  <2>. QED  BY <1>2, <1>4, <2>1, <2>2, <2>3, MoveKeeps DEF Moved
<1>5. CASE Smooth /\ ~ownerCard[cardRow[sweep.cur].at].up /\ Step("send")
  <2>1. Moved({"send"}) /\ sweep'.pc = "send"
      BY <1>0, <1>1, <1>5, StepMoves DEF SweepPcs
  <2>2. KeysShape'
      BY <1>0, <1>2, <2>1, CycleKeys
  <2>3. SweepShape'
      BY <1>1, <1>2, <1>5, <2>1 DEF Moved, SweepShape
  <2>. QED  BY <1>2, <1>5, <2>1, <2>2, <2>3, MoveKeeps DEF Moved
<1>6. CASE Mishap /\ Abort
  <2>1. Moved({})
      BY <1>0, <1>6, AbortMoves
  <2>2. KeysShape'
      BY <1>0, <1>2, <2>1, CycleKeys
  <2>3. SweepShape'
      BY <2>1, BetweenTorrents
  <2>. QED  BY <1>2, <1>6, <2>1, <2>2, <2>3, MoveKeeps DEF Moved
<1>. QED  BY <1>3, <1>4, <1>5, <1>6

\* What a notification changes: the count of its stage, and what is recorded of it.
LEMMA NotifyChanges ==
    ASSUME CardsIInv, NotifyHome
    PROVE  \E n \in {0, 1}, lost \in {0, 1} :
              /\ n + lost > 0 /\ (lost = 0 => n = 1)
              /\ told' = [told EXCEPT ![<<Cur, Key>>] = @ + n]
              /\ toldRow' = [toldRow EXCEPT ![Cur] = IF lost = 0 THEN Key ELSE @]
              /\ unrecorded' = [unrecorded EXCEPT !.told[Cur] = @ + lost]
<1>1. PICK arrives \in BOOLEAN, ok \in BOOLEAN :
          /\ ok => arrives
          /\ told' = [told EXCEPT ![<<Cur, Key>>] = @ + (IF arrives THEN 1 ELSE 0)]
          /\ toldRow' = [toldRow EXCEPT ![Cur] = IF ok THEN Key ELSE @]
          /\ unrecorded' = [unrecorded EXCEPT !.told[Cur] = @ + (IF ok THEN 0 ELSE 1)]
    BY DEF NotifyHome, Noted
<1>2. CASE ok
    BY <1>1, <1>2
<1>3. CASE ~ok /\ arrives
    BY <1>1, <1>3
<1>4. CASE ~ok /\ ~arrives
    BY <1>1, <1>4
<1>. QED  BY <1>2, <1>3, <1>4

\* The same, value by value.
LEMMA NotifyValues ==
    ASSUME CardsIInv, NotifyHome
    PROVE  /\ told' \in [Torrents \X Notable -> Nat] /\ toldRow' \in [Torrents -> Keys0]
           /\ unrecorded' \in [cards : [Torrents -> Nat], told : [Torrents -> Nat]]
           /\ unrecorded'.cards = unrecorded.cards
           /\ \A t \in Torrents : t # sweep.cur =>
                 /\ toldRow'[t] = toldRow[t] /\ unrecorded'.told[t] = unrecorded.told[t]
                 /\ \A k \in Notable : told'[<<t, k>>] = told[<<t, k>>]
           /\ \A k \in Notable : k # Key => told'[<<sweep.cur, k>>] = told[<<sweep.cur, k>>]
           /\ \/ /\ toldRow'[sweep.cur] = Key
                 /\ unrecorded'.told[sweep.cur] = unrecorded.told[sweep.cur]
                 /\ told'[<<sweep.cur, Key>>] = told[<<sweep.cur, Key>>] + 1
              \/ /\ toldRow'[sweep.cur] = toldRow[sweep.cur]
                 /\ unrecorded'.told[sweep.cur] = unrecorded.told[sweep.cur] + 1
                 /\ \/ told'[<<sweep.cur, Key>>] = told[<<sweep.cur, Key>>]
                    \/ told'[<<sweep.cur, Key>>] = told[<<sweep.cur, Key>>] + 1
<1>1. PICK n \in {0, 1}, lost \in {0, 1} :
              /\ n + lost > 0 /\ (lost = 0 => n = 1)
              /\ told' = [told EXCEPT ![<<Cur, Key>>] = @ + n]
              /\ toldRow' = [toldRow EXCEPT ![Cur] = IF lost = 0 THEN Key ELSE @]
              /\ unrecorded' = [unrecorded EXCEPT !.told[Cur] = @ + lost]
    BY NotifyChanges
<1>2. /\ Cur = sweep.cur /\ sweep.cur \in Torrents /\ Key \in Keys0 /\ Key \in Notable
      /\ sweep.pc = "home"
    BY AtTorrent DEF NotifyHome, CardsIInv, SweepShape
<1>. DEFINE c == sweep.cur
            k == Key
            T == unrecorded.told
<1>3. /\ told \in [Torrents \X Notable -> Nat] /\ toldRow \in [Torrents -> Keys0]
      /\ T \in [Torrents -> Nat] /\ unrecorded.cards \in [Torrents -> Nat]
      /\ unrecorded \in [cards : [Torrents -> Nat], told : [Torrents -> Nat]]
    BY DEF CardsIInv, CardsTypeOK
<1>4. unrecorded' = [unrecorded EXCEPT !.told = [T EXCEPT ![c] = @ + lost]]
    BY <1>1, <1>2, Zenon
<1>5. PICK T2 : T2 = [T EXCEPT ![c] = T[c] + lost]
    OBVIOUS
<1>6. unrecorded' = [unrecorded EXCEPT !.told = T2]
    BY <1>4, <1>5, Zenon
<1>. HIDE DEF c, k, T
<1>7. /\ T2 \in [Torrents -> Nat] /\ T2[c] = T[c] + lost
      /\ \A t \in Torrents : t # c => T2[t] = T[t]
    BY <1>1, <1>2, <1>3, <1>5 DEF c
<1>8. /\ unrecorded' \in [cards : [Torrents -> Nat], told : [Torrents -> Nat]]
      /\ unrecorded'.cards = unrecorded.cards /\ unrecorded'.told = T2
    BY ONLY <1>3, <1>6, <1>7
<1>9. /\ told' \in [Torrents \X Notable -> Nat] /\ told'[<<c, k>>] = told[<<c, k>>] + n
      /\ \A t \in Torrents, j \in Notable : <<t, j>> # <<c, k>> => told'[<<t, j>>] = told[<<t, j>>]
  <2>1. told' = [told EXCEPT ![<<c, k>>] = told[<<c, k>>] + n]
      BY <1>1, <1>2 DEF c, k
  <2>2. <<c, k>> \in Torrents \X Notable
      BY <1>2 DEF c, k
  <2>3. told[<<c, k>>] \in Nat
      BY <1>3, <2>2
  <2>4. n \in Nat
      BY <1>1
  <2>5. told[<<c, k>>] + n \in Nat
      BY <2>3, <2>4
  <2>6. told' \in [Torrents \X Notable -> Nat] /\ told'[<<c, k>>] = told[<<c, k>>] + n
      BY ONLY <2>1, <2>2, <2>5, <1>3
  <2>7. ASSUME NEW t \in Torrents, NEW j \in Notable, <<t, j>> # <<c, k>>
        PROVE  told'[<<t, j>>] = told[<<t, j>>]
    <3>1. <<t, j>> \in Torrents \X Notable
        OBVIOUS
    <3>2. PICK x \in Torrents \X Notable : x = <<t, j>>
        BY <3>1
    <3>3. told'[x] = told[x]
        BY ONLY <2>1, <2>7, <3>2, <1>3
    <3>. QED  BY <3>2, <3>3
  <2>. QED  BY <2>6, <2>7
<1>10. /\ toldRow' \in [Torrents -> Keys0] /\ \A t \in Torrents : t # c => toldRow'[t] = toldRow[t]
       /\ lost = 0 => toldRow'[c] = k
       /\ lost # 0 => toldRow'[c] = toldRow[c]
    BY <1>1, <1>2, <1>3 DEF c, k
<1>11. \A t \in Torrents, j \in Notable : t # c \/ j # k => <<t, j>> # <<c, k>>
    OBVIOUS
<1>. QED
  <2>1. T[c] \in Nat /\ told[<<c, k>>] \in Nat
    <3>1. <<c, k>> \in Torrents \X Notable
        BY <1>2 DEF c, k
    <3>. QED  BY <1>2, <1>3, <3>1 DEF c
  <2>2. CASE lost = 0
    <3>1. n = 1 /\ T2[c] = T[c]
        BY <1>1, <1>7, <2>1, <2>2
    <3>. QED  BY <1>2, <1>7, <1>8, <1>9, <1>10, <1>11, <2>2, <3>1 DEF c, k, T
  <2>3. CASE lost = 1
      BY <1>1, <1>2, <1>7, <1>8, <1>9, <1>10, <1>11, <2>1, <2>3 DEF c, k, T
  <2>. QED  BY <1>1, <2>2, <2>3

\* Home Assistant hears of a stage, and the table of it once that is confirmed.
LEMMA NotifyKeeps ==
    ASSUME CardsIInv, NotifyHome
    PROVE  CardsIInv'
<1>. DEFINE c == sweep.cur
<1>1. /\ sweep.pc = "home" /\ Cur = c /\ c \in Torrents /\ Key = sweep.list[c] /\ Key \in Nat
      /\ Key \in Notable /\ toldRow[c] # Key /\ toldRow[c] <= Key /\ Key > 0
    BY AtTorrent DEF NotifyHome, CardsIInv, SweepShape
<1>2. UNCHANGED <<torrent, cardRow, ownerCard>> /\ (Mishap \/ Smooth)
    BY DEF NotifyHome
<1>3. SweepShape' /\ \E pcs \in SUBSET SweepPcs : Moved(pcs)
  <2>1. Proceed \/ Step(CardStep)
      BY DEF NotifyHome
  <2>. QED  BY <1>1, <1>2, <2>1, CardNext
<1>4. KeysShape'
  <2>1. \A t \in Torrents : \/ toldRow'[t] = toldRow[t]
                            \/ t = c /\ toldRow'[t] = sweep.list[t] /\ toldRow'[t] \in Notable
      BY <1>1, NotifyValues
  <2>. QED  BY <1>1, <1>2, <1>3, <2>1, CycleKeys
<1>5. CardsTypeOK'
  <2>1. sweep' \in Cycle
      BY <1>3 DEF Moved
  <2>. QED  BY <1>2, <2>1, NotifyValues, FaultCounts DEF CardsIInv, CardsTypeOK, Cycle
<1>6. PlacesShape' /\ RowShape'
    BY <1>2 DEF CardsIInv, PlacesShape, RowShape
<1>7. LooseShape'
    BY <1>2, NotifyValues DEF CardsIInv, LooseShape, Loose
<1>8. ToldShape'
  <2>1. ASSUME NEW t \in Torrents
        PROVE  /\ unrecorded.told[t] \in Nat /\ toldRow[t] \in Nat
               /\ \A k \in Notable : k \in Nat /\ told[<<t, k>>] \in Nat
    <3>1. \A k \in Notable : <<t, k>> \in Torrents \X Notable
        OBVIOUS
    <3>2. /\ unrecorded.told[t] \in Nat /\ toldRow[t] \in Nat /\ Notable \subseteq Nat
        BY CardValues, Numbered DEF CardsIInv
    <3>. QED  BY <3>1, <3>2 DEF CardsIInv, CardsTypeOK
  <2>2. ASSUME NEW t \in Torrents
        PROVE  /\ \A k \in Notable :
                      /\ told[<<t, k>>] <= 1 + unrecorded.told[t]
                      /\ k > toldRow[t] => told[<<t, k>>] <= unrecorded.told[t]
               /\ toldRow[t] # 0 => toldRow[t] \in Notable /\ told[<<t, toldRow[t]>>] > 0
      BY DEF CardsIInv, ToldShape, KeysShape
  <2>3. ASSUME NEW t \in Torrents, t # c
        PROVE  /\ \A k \in Notable :
                      /\ told'[<<t, k>>] <= 1 + unrecorded'.told[t]
                      /\ k > toldRow'[t] => told'[<<t, k>>] <= unrecorded'.told[t]
               /\ toldRow'[t] # 0 => told'[<<t, toldRow'[t]>>] > 0
    <3>1. /\ toldRow'[t] = toldRow[t] /\ unrecorded'.told[t] = unrecorded.told[t]
          /\ \A k \in Notable : told'[<<t, k>>] = told[<<t, k>>]
        BY <2>3, NotifyValues
    <3>2. toldRow'[t] # 0 => told'[<<t, toldRow[t]>>] = told[<<t, toldRow[t]>>]
        BY <2>2, <3>1
    <3>. QED  BY <2>2, <3>1, <3>2
  <2>4. /\ \A k \in Notable :
              /\ told'[<<c, k>>] <= 1 + unrecorded'.told[c]
              /\ k > toldRow'[c] => told'[<<c, k>>] <= unrecorded'.told[c]
        /\ toldRow'[c] # 0 => told'[<<c, toldRow'[c]>>] > 0
    <3>0. /\ unrecorded.told[c] \in Nat /\ toldRow[c] \in Nat
          /\ \A k \in Notable : /\ k \in Nat /\ told[<<c, k>>] \in Nat
                                /\ told[<<c, k>>] <= 1 + unrecorded.told[c]
                                /\ k > toldRow[c] => told[<<c, k>>] <= unrecorded.told[c]
          /\ toldRow[c] # 0 => toldRow[c] \in Notable /\ told[<<c, toldRow[c]>>] > 0
        BY <1>1, <2>1, <2>2
    <3>1. \A k \in Notable : k # Key => told'[<<c, k>>] = told[<<c, k>>]
        BY NotifyValues
    <3>. HIDE DEF c
    <3>2. CASE /\ toldRow'[c] = Key /\ unrecorded'.told[c] = unrecorded.told[c]
               /\ told'[<<c, Key>>] = told[<<c, Key>>] + 1
      <4>1. told[<<c, Key>>] <= unrecorded.told[c]
          BY ONLY <1>1, <3>0
      <4>2. told'[<<c, Key>>] <= 1 + unrecorded'.told[c] /\ told'[<<c, Key>>] > 0
          BY ONLY <1>1, <3>0, <3>2, <4>1
      <4>3. ASSUME NEW k \in Notable, k # Key
            PROVE  /\ told'[<<c, k>>] <= 1 + unrecorded'.told[c]
                   /\ k > Key => told'[<<c, k>>] <= unrecorded'.told[c]
          BY <1>1, <3>0, <3>1, <3>2, <4>3
      <4>. QED  BY <1>1, <3>0, <3>2, <4>2, <4>3
    <3>3. CASE /\ toldRow'[c] = toldRow[c] /\ unrecorded'.told[c] = unrecorded.told[c] + 1
               /\ \/ told'[<<c, Key>>] = told[<<c, Key>>]
                  \/ told'[<<c, Key>>] = told[<<c, Key>>] + 1
      <4>1. ASSUME NEW k \in Notable
            PROVE  /\ told'[<<c, k>>] >= told[<<c, k>>] /\ told'[<<c, k>>] <= told[<<c, k>>] + 1
                   /\ told'[<<c, k>>] \in Nat
          BY <1>1, <3>0, <3>1, <3>3
      <4>2. ASSUME NEW k \in Notable
            PROVE  /\ told'[<<c, k>>] <= 1 + unrecorded'.told[c]
                   /\ k > toldRow'[c] => told'[<<c, k>>] <= unrecorded'.told[c]
          BY <1>1, <3>0, <3>3, <4>1
      <4>3. toldRow'[c] # 0 => told'[<<c, toldRow[c]>>] > 0
          BY <1>1, <3>0, <3>3, <4>1
      <4>. QED  BY <3>3, <4>2, <4>3
    <3>. QED  BY <3>2, <3>3, NotifyValues DEF c
  <2>. QED  BY <2>3, <2>4 DEF ToldShape
<1>. QED  BY <1>3, <1>4, <1>5, <1>6, <1>7, <1>8 DEF CardsIInv

\* The cards no row names are finitely many; fewer are no more.
LEMMA FewerLoose ==
    ASSUME NEW t, NEW S, S \subseteq Loose(t)
    PROVE  /\ IsFiniteSet(Loose(t)) /\ Cardinality(Loose(t)) \in Nat
           /\ Cardinality(S) \in Nat /\ Cardinality(S) <= Cardinality(Loose(t))
<1>1. IsFiniteSet(Loose(t))
  <2>1. Loose(t) \in SUBSET Places
      BY DEF Loose
  <2>. QED  BY <2>1, Numbered, FS_Subset
<1>2. IsFiniteSet(S)
    BY <1>1, FS_Subset
<1>. QED  BY <1>1, <1>2, FS_Subset, FS_CardinalityType

\* One message changes, and at most the row that names it: it stays of its torrent, is
\* not up again, and shows what the row claims.
LEMMA RedrawKeeps ==
    ASSUME CardsIInv, NEW p \in Places, NEW n \in OwnerMessage,
           ownerCard' = [ownerCard EXCEPT ![p] = n],
           n.of = ownerCard[p].of, n.up => ownerCard[p].up,
           \A t \in Torrents : \/ cardRow'[t] = cardRow[t]
                               \/ cardRow[t].at = p /\ cardRow'[t].at = p,
           \A t \in Torrents : cardRow[t].at = p /\ n.up => n.key >= cardRow'[t].key /\ n.live,
           UNCHANGED unrecorded
    PROVE  /\ ownerCard' \in [Places -> OwnerMessage]
           /\ PlacesShape' /\ RowShape' /\ LooseShape'
<1>1. ownerCard \in [Places -> OwnerMessage] /\ \A t \in Torrents : unrecorded.cards[t] \in Nat
    BY CardValues DEF CardsIInv
<1>2. /\ ownerCard' \in [Places -> OwnerMessage]
      /\ ownerCard'[p] = n /\ \A q \in Places : q # p => ownerCard'[q] = ownerCard[q]
    BY <1>1
<1>3. \A q \in Places : /\ ownerCard'[q].of = ownerCard[q].of
                        /\ ownerCard'[q].up => ownerCard[q].up
    BY <1>2
<1>4. \A t \in Torrents : cardRow'[t].at = cardRow[t].at /\ cardRow[t].at \in Places \union {NoPlace}
    BY CardValues DEF CardsIInv
<1>5. PlacesShape'
  <2>1. PICK m \in Nat : \A q \in Places : /\ ownerCard[q].of # 0 <=> q <= m
                                           /\ ownerCard[q].up => q <= m
      BY DEF CardsIInv, PlacesShape
  <2>2. \A q \in Places : /\ ownerCard'[q].of # 0 <=> q <= m
                          /\ ownerCard'[q].up => q <= m
      BY ONLY <1>3, <2>1
  <2>. QED  BY <2>2 DEF PlacesShape
<1>6. RowShape'
  <2>1. ASSUME NEW t \in Torrents, cardRow'[t].at # NoPlace
        PROVE  /\ ownerCard'[cardRow'[t].at].of = t
               /\ ownerCard'[cardRow'[t].at].up =>
                     /\ ownerCard'[cardRow'[t].at].key >= cardRow'[t].key
                     /\ ownerCard'[cardRow'[t].at].live
    <3>1. /\ ownerCard[cardRow[t].at].of = t /\ cardRow[t].at \in Places
          /\ ownerCard[cardRow[t].at].up => /\ ownerCard[cardRow[t].at].key >= cardRow[t].key
                                            /\ ownerCard[cardRow[t].at].live
        BY <1>4, <2>1 DEF CardsIInv, RowShape
    <3>2. CASE cardRow[t].at = p
        BY <1>2, <1>3, <1>4, <3>1, <3>2
    <3>3. CASE cardRow[t].at # p
        BY <1>2, <1>4, <3>1, <3>3
    <3>. QED  BY <3>2, <3>3
  <2>. QED  BY <2>1 DEF RowShape
<1>7. LooseShape'
  <2>1. ASSUME NEW t \in Torrents  PROVE Cardinality(Loose(t)') <= unrecorded.cards[t]
    <3>1. Loose(t)' \subseteq Loose(t)
        BY <1>3, <1>4 DEF Loose
    <3>2. Cardinality(Loose(t)) <= unrecorded.cards[t]
        BY DEF CardsIInv, LooseShape
    <3>. QED  BY <1>1, <3>1, <3>2, FewerLoose
  <2>. QED  BY <2>1 DEF LooseShape, Loose
<1>. QED  BY <1>2, <1>5, <1>6, <1>7

\* A message as it is edited.
LEMMA EditedMessage ==
    ASSUME NEW m \in OwnerMessage, NEW k \in Keys0
    PROVE  /\ [m EXCEPT !.key = k] \in OwnerMessage
           /\ [m EXCEPT !.key = k].of = m.of /\ [m EXCEPT !.key = k].up = m.up
           /\ [m EXCEPT !.key = k].live = m.live /\ [m EXCEPT !.key = k].key = k
  BY DEF OwnerMessage

\* The card of a torrent is edited, or was deleted meanwhile, or the call fails.
LEMMA EditKeeps ==
    ASSUME CardsIInv, EditOwnerCard
    PROVE  CardsIInv'
<1>. DEFINE c == sweep.cur
            p == cardRow[c].at
            m == ownerCard[p]
<1>1. /\ sweep.pc = "edit" /\ Cur = c /\ c \in Torrents /\ Key = sweep.list[c] /\ Key \in Nat
      /\ p # NoPlace /\ Key > 0 /\ Key \in Keys0 /\ cardRow[c].key <= Key /\ sweep \in Cycle
    BY AtTorrent, CardValues DEF EditOwnerCard, CardsIInv, SweepShape
<1>2. /\ p \in Places /\ m \in OwnerMessage /\ m.of = c /\ cardRow[c].key \in Nat
      /\ m.up => m.key >= cardRow[c].key /\ m.live
      /\ \A t \in Torrents : cardRow[t].at = p => t = c
    BY <1>1, CardValues DEF CardsIInv, RowShape
<1>3. UNCHANGED <<torrent, toldRow, told, unrecorded>> /\ (Mishap \/ Smooth)
    BY DEF EditOwnerCard
<1>4. ToldShape'
    BY <1>3 DEF CardsIInv, ToldShape
<1>5. \/ /\ m.up /\ ownerCard' = [ownerCard EXCEPT ![p] = [m EXCEPT !.key = Key, !.live = TRUE]]
         /\ cardRow' = [cardRow EXCEPT ![c] = [key |-> Key, at |-> p]] /\ Proceed
      \/ ~m.up /\ Step("send") /\ UNCHANGED <<ownerCard, cardRow>>
      \/ Abort /\ UNCHANGED <<ownerCard, cardRow>>
      \/ /\ m.up /\ ownerCard' = [ownerCard EXCEPT ![p] = [m EXCEPT !.key = Key]]
         /\ Abort /\ UNCHANGED cardRow
  <2>. HIDE DEF m
  <2>0. m = ownerCard[p]
      BY DEF m
  <2>. HIDE DEF p
  <2>1. p = cardRow[c].at
      BY DEF p
  <2>. HIDE DEF c
  <2>. QED  BY <1>1, <2>0, <2>1, Zenon DEF EditOwnerCard, Saved, RowWhen
<1>6. CASE /\ m.up /\ ownerCard' = [ownerCard EXCEPT ![p] = [m EXCEPT !.key = Key, !.live = TRUE]]
           /\ cardRow' = [cardRow EXCEPT ![c] = [key |-> Key, at |-> p]] /\ Proceed
  <2>1. PICK n : n = [m EXCEPT !.key = Key, !.live = TRUE]
      OBVIOUS
  <2>2. n \in OwnerMessage /\ n.of = m.of /\ n.up = m.up /\ n.live /\ n.key = Key
    <3>1. m \in OwnerMessage /\ Key \in Keys0
        BY <1>1, <1>2
    <3>. HIDE DEF m
    <3>. QED  BY ONLY <2>1, <3>1 DEF OwnerMessage
  <2>3. ownerCard' = [ownerCard EXCEPT ![p] = n]
      BY <1>6, <2>1
  <2>4. /\ cardRow' \in [Torrents -> OwnerRow] /\ cardRow'[c].at = p /\ cardRow'[c].key = Key
        /\ \A t \in Torrents : t # c => cardRow'[t] = cardRow[t]
    <3>1. [key |-> Key, at |-> p] \in OwnerRow /\ cardRow \in [Torrents -> OwnerRow]
        BY <1>1, <1>2, CardValues DEF OwnerRow, CardsIInv
    <3>. HIDE DEF p, c
    <3>. QED  BY <1>1, <1>6, <3>1
  <2>5. /\ ownerCard' \in [Places -> OwnerMessage]
        /\ PlacesShape' /\ RowShape' /\ LooseShape'
    <3>1. \A t \in Torrents : \/ cardRow'[t] = cardRow[t]
                              \/ cardRow[t].at = p /\ cardRow'[t].at = p
        BY <2>4
    <3>2. n.key >= Key
        BY <1>1, <2>2
    <3>3. \A t \in Torrents : cardRow[t].at = p /\ n.up => n.key >= cardRow'[t].key /\ n.live
        BY <1>2, <2>2, <2>4, <3>2
    <3>. HIDE DEF m, p, c
    <3>. QED  BY <1>2, <1>3, <2>2, <2>3, <3>1, <3>3, RedrawKeeps DEF m
  <2>6. Moved({}) /\ sweep' \in Cycle
    <3>1. Moved({})
        BY <1>1, <1>6, ProceedMoves
    <3>. QED  BY <3>1 DEF Moved
  <2>7. KeysShape' /\ SweepShape'
    <3>1. \A t \in Torrents : \/ cardRow'[t].key = cardRow[t].key
                              \/ t = sweep.cur /\ cardRow'[t].key = sweep.list[t]
        BY <1>1, <2>4
    <3>. QED  BY <1>1, <1>3, <2>6, <3>1, CycleKeys, BetweenTorrents
  <2>8. CardsTypeOK'
      BY <1>3, <2>4, <2>5, <2>6, FaultCounts
         DEF CardsIInv, CardsTypeOK, Cycle, OwnerRow, OwnerMessage
  <2>. QED  BY <1>4, <2>5, <2>7, <2>8 DEF CardsIInv
<1>7. CASE ~m.up /\ Step("send") /\ UNCHANGED <<ownerCard, cardRow>>
  <2>1. Moved({"send"}) /\ sweep'.pc = "send" /\ sweep' \in Cycle
      BY <1>1, <1>7, StepMoves DEF SweepPcs, Moved
  <2>2. KeysShape'
      BY <1>1, <1>3, <1>7, <2>1, CycleKeys
  <2>3. SweepShape'
      BY <1>1, <1>7, <2>1 DEF Moved, SweepShape
  <2>. QED  BY <1>3, <1>7, <2>1, <2>2, <2>3, MoveKeeps
<1>8. CASE Abort /\ UNCHANGED <<ownerCard, cardRow>>
  <2>1. Moved({}) /\ sweep' \in Cycle
    <3>1. Moved({})
        BY <1>1, <1>8, AbortMoves
    <3>. QED  BY <3>1 DEF Moved
  <2>2. KeysShape' /\ SweepShape'
      BY <1>1, <1>3, <1>8, <2>1, CycleKeys, BetweenTorrents
  <2>. QED  BY <1>3, <1>8, <2>1, <2>2, MoveKeeps
<1>9. CASE /\ m.up /\ ownerCard' = [ownerCard EXCEPT ![p] = [m EXCEPT !.key = Key]]
           /\ Abort /\ UNCHANGED cardRow
  <2>1. PICK n : n = [m EXCEPT !.key = Key]
      OBVIOUS
  <2>2. n \in OwnerMessage /\ n.of = m.of /\ n.up = m.up /\ n.live = m.live /\ n.key = Key
      BY <1>1, <1>2, <2>1, EditedMessage
  <2>3. ownerCard' = [ownerCard EXCEPT ![p] = n]
      BY <1>9, <2>1
  <2>4. /\ ownerCard' \in [Places -> OwnerMessage]
        /\ PlacesShape' /\ RowShape' /\ LooseShape'
    <3>1. \A t \in Torrents : cardRow[t].at = p /\ n.up => n.key >= cardRow'[t].key /\ n.live
        BY <1>1, <1>2, <1>9, <2>2
    <3>2. \A t \in Torrents : cardRow'[t] = cardRow[t]
        BY <1>9
    <3>. HIDE DEF m, p, c
    <3>. QED  BY <1>2, <1>3, <2>2, <2>3, <3>1, <3>2, RedrawKeeps DEF m
  <2>5. Moved({}) /\ sweep' \in Cycle
    <3>1. Moved({})
        BY <1>1, <1>9, AbortMoves
    <3>. QED  BY <3>1 DEF Moved
  <2>6. KeysShape' /\ SweepShape'
      BY <1>1, <1>3, <1>9, <2>5, CycleKeys, BetweenTorrents
  <2>7. CardsTypeOK'
      BY <1>3, <1>9, <2>4, <2>5, FaultCounts DEF CardsIInv, CardsTypeOK, Cycle, OwnerMessage
  <2>. QED  BY <1>4, <2>4, <2>6, <2>7 DEF CardsIInv
<1>. QED  BY <1>5, <1>6, <1>7, <1>8, <1>9

\* Where the next message goes: behind those that were sent.
LEMMA NextPlace ==
    ASSUME CardsIInv, \E p \in Places : ownerCard[p].of = 0
    PROVE  /\ FreshPlace \in Places /\ ownerCard[FreshPlace].of = 0
           /\ \E m \in Nat : /\ FreshPlace = m + 1
                             /\ \A p \in Places : /\ ownerCard[p].of # 0 <=> p <= m
                                                  /\ ownerCard[p].up => p <= m
<1>1. PICK m \in Nat : \A p \in Places : /\ ownerCard[p].of # 0 <=> p <= m
                                         /\ ownerCard[p].up => p <= m
    BY DEF CardsIInv, PlacesShape
<1>2. PICK p \in Places : ownerCard[p].of = 0
    OBVIOUS
<1>3. m + 1 \in Places
    BY <1>1, <1>2, Numbered
<1>4. ownerCard[m + 1].of = 0
    BY <1>1, <1>3
<1>5. \A q \in 1..m : q \in Places /\ ownerCard[q].of # 0
    BY <1>1, <1>3, Numbered
<1>6. \A q \in Places : q \in Nat
    BY Numbered
<1>7. ASSUME NEW q \in Places, ownerCard[q].of = 0,
             \A r \in 1..(q - 1) : ownerCard[r].of # 0
      PROVE  q = m + 1
  <2>1. q \in Nat /\ q > m
      BY <1>1, <1>6, <1>7
  <2>2. ~(q > m + 1)
    <3>1. SUFFICES ASSUME q > m + 1  PROVE FALSE
        OBVIOUS
    <3>2. m + 1 \in 1..(q - 1)
        BY <2>1, <3>1
    <3>. QED  BY <1>4, <1>7, <3>2
  <2>. QED  BY <2>1, <2>2
<1>8. \A q \in 1..((m + 1) - 1) : ownerCard[q].of # 0
    BY <1>5
<1>9. FreshPlace = m + 1
    BY <1>3, <1>4, <1>7, <1>8 DEF FreshPlace
<1>. QED  BY <1>1, <1>3, <1>4, <1>9

\* What a message that was sent leaves of the other cards.
LEMMA SentLeaves ==
    ASSUME CardsIInv, NEW f \in Places, ownerCard[f].of = 0, NEW n \in OwnerMessage,
           ownerCard' = [ownerCard EXCEPT ![f] = n], n.of \in Torrents,
           NEW m \in Nat, f = m + 1,
           \A p \in Places : /\ ownerCard[p].of # 0 <=> p <= m
                             /\ ownerCard[p].up => p <= m
    PROVE  /\ ownerCard' \in [Places -> OwnerMessage] /\ PlacesShape'
           /\ ownerCard'[f] = n /\ \A q \in Places : q # f => ownerCard'[q] = ownerCard[q]
           /\ \A t \in Torrents : cardRow[t].at # NoPlace =>
                 /\ cardRow[t].at \in Places /\ cardRow[t].at # f
                 /\ ownerCard'[cardRow[t].at] = ownerCard[cardRow[t].at]
<1>1. /\ ownerCard \in [Places -> OwnerMessage]
      /\ \A t \in Torrents : cardRow[t].at \in Places \union {NoPlace}
    BY CardValues DEF CardsIInv
<1>2. /\ ownerCard' \in [Places -> OwnerMessage]
      /\ ownerCard'[f] = n /\ \A q \in Places : q # f => ownerCard'[q] = ownerCard[q]
    BY <1>1
<1>3. \A p \in Places : p \in Nat
    BY Numbered
<1>4. \A p \in Places : /\ ownerCard'[p].of # 0 <=> p <= m + 1
                        /\ ownerCard'[p].up => p <= m + 1
  <2>1. n.of # 0
      BY Numbered
  <2>. TAKE p \in Places
  <2>2. CASE p = f
      BY <1>2, <1>3, <2>1, <2>2
  <2>3. CASE p # f
    <3>1. p <= m + 1 <=> p <= m
        BY <1>3, <2>3
    <3>2. ownerCard'[p] = ownerCard[p]
        BY <1>2, <2>3
    <3>. QED  BY <3>1, <3>2
  <2>. QED  BY <2>2, <2>3
<1>5. PlacesShape'
  <2>1. m + 1 \in Nat
      OBVIOUS
  <2>. QED  BY <1>4, <2>1 DEF PlacesShape
<1>6. ASSUME NEW t \in Torrents, cardRow[t].at # NoPlace
      PROVE  /\ cardRow[t].at \in Places /\ cardRow[t].at # f
             /\ ownerCard'[cardRow[t].at] = ownerCard[cardRow[t].at]
  <2>1. ownerCard[cardRow[t].at].of = t /\ cardRow[t].at \in Places
      BY <1>1, <1>6 DEF CardsIInv, RowShape
  <2>2. t # 0
      BY Numbered
  <2>. QED  BY <1>2, <2>1, <2>2
<1>. QED  BY <1>2, <1>5, <1>6

\* A card is sent; its row is written, or it stays one that no row names.
LEMMA SendKeeps ==
    ASSUME CardsIInv, SendOwnerCard
    PROVE  CardsIInv'
<1>. DEFINE c == sweep.cur
            f == FreshPlace
            Sent(n) == ownerCard' = [ownerCard EXCEPT ![f] = n]
            New(n) == /\ n \in OwnerMessage /\ n.of = c /\ n.key = Key /\ n.up
<1>1. /\ sweep.pc = "send" /\ Cur = c /\ c \in Torrents /\ Key = sweep.list[c] /\ Key \in Nat
      /\ Key > 0 /\ Key \in Keys0 /\ sweep \in Cycle
      /\ cardRow[c].at # NoPlace => ~ownerCard[cardRow[c].at].up
    BY AtTorrent, CardValues DEF SendOwnerCard, CardsIInv, SweepShape
<1>2. /\ UNCHANGED <<torrent, toldRow, told>> /\ (Mishap \/ Smooth)
      /\ \E p \in Places : ownerCard[p].of = 0
    BY DEF SendOwnerCard
<1>3. /\ f \in Places /\ ownerCard[f].of = 0
      /\ \E m \in Nat : /\ f = m + 1
                        /\ \A p \in Places : /\ ownerCard[p].of # 0 <=> p <= m
                                             /\ ownerCard[p].up => p <= m
    BY <1>2, NextPlace
<1>4. \/ /\ ownerCard' = [ownerCard EXCEPT ![f] = [of |-> c, key |-> Key, up |-> TRUE, live |-> TRUE]]
         /\ cardRow' = [cardRow EXCEPT ![c] = [key |-> Key, at |-> f]]
         /\ Proceed /\ UNCHANGED unrecorded
      \/ /\ \/ ownerCard' = ownerCard
            \/ \E live \in BOOLEAN : ownerCard' =
                   [ownerCard EXCEPT ![f] = [of |-> c, key |-> Key, up |-> TRUE, live |-> live]]
         /\ unrecorded' = [unrecorded EXCEPT !.cards = [unrecorded.cards EXCEPT ![c] = @ + 1]]
         /\ Abort /\ UNCHANGED cardRow
  <2>. HIDE DEF f, c
  <2>1. f = FreshPlace
      BY DEF f
  <2>. QED  BY <1>1, <2>1, Zenon DEF SendOwnerCard, Saved
<1>5. \A live \in BOOLEAN : New([of |-> c, key |-> Key, up |-> TRUE, live |-> live])
    BY <1>1 DEF OwnerMessage
<1>6. /\ cardRow \in [Torrents -> OwnerRow] /\ unrecorded.cards \in [Torrents -> Nat]
      /\ unrecorded \in [cards : [Torrents -> Nat], told : [Torrents -> Nat]]
      /\ \A t \in Torrents : cardRow[t].at \in Places \union {NoPlace}
    BY CardValues DEF CardsIInv, CardsTypeOK
<1>. HIDE DEF f
<1>7. ASSUME NEW n, Sent(n), New(n)
      PROVE  /\ ownerCard' \in [Places -> OwnerMessage] /\ PlacesShape'
             /\ ownerCard'[f] = n /\ \A q \in Places : q # f => ownerCard'[q] = ownerCard[q]
             /\ \A t \in Torrents : cardRow[t].at # NoPlace =>
                   /\ cardRow[t].at \in Places /\ cardRow[t].at # f
                   /\ ownerCard'[cardRow[t].at] = ownerCard[cardRow[t].at]
    BY <1>1, <1>3, <1>7, SentLeaves
<1>8. CASE /\ ownerCard' = [ownerCard EXCEPT ![f] = [of |-> c, key |-> Key, up |-> TRUE, live |-> TRUE]]
           /\ cardRow' = [cardRow EXCEPT ![c] = [key |-> Key, at |-> f]]
           /\ Proceed /\ UNCHANGED unrecorded
  <2>1. PICK n : n = [of |-> c, key |-> Key, up |-> TRUE, live |-> TRUE]
      OBVIOUS
  <2>2. New(n) /\ n.live /\ Sent(n)
      BY <1>5, <1>8, <2>1
  <2>3. /\ cardRow' \in [Torrents -> OwnerRow] /\ cardRow'[c].at = f /\ cardRow'[c].key = Key
        /\ \A t \in Torrents : t # c => cardRow'[t] = cardRow[t]
    <3>1. [key |-> Key, at |-> f] \in OwnerRow
        BY <1>1, <1>3 DEF OwnerRow
    <3>. QED  BY <1>1, <1>6, <1>8, <3>1
  <2>4. /\ ownerCard' \in [Places -> OwnerMessage] /\ PlacesShape'
        /\ ownerCard'[f] = n /\ \A q \in Places : q # f => ownerCard'[q] = ownerCard[q]
        /\ \A t \in Torrents : cardRow[t].at # NoPlace =>
              /\ cardRow[t].at \in Places /\ cardRow[t].at # f
              /\ ownerCard'[cardRow[t].at] = ownerCard[cardRow[t].at]
      BY <2>2, <1>7
  <2>5. RowShape'
    <3>1. ASSUME NEW t \in Torrents, cardRow'[t].at # NoPlace
          PROVE  /\ ownerCard'[cardRow'[t].at].of = t
                 /\ ownerCard'[cardRow'[t].at].up =>
                       /\ ownerCard'[cardRow'[t].at].key >= cardRow'[t].key
                       /\ ownerCard'[cardRow'[t].at].live
      <4>1. CASE t = c
          BY <1>1, <2>2, <2>3, <2>4, <4>1
      <4>2. CASE t # c
        <5>1. cardRow'[t] = cardRow[t]
            BY <2>3, <4>2
        <5>. QED  BY <2>4, <3>1, <5>1 DEF CardsIInv, RowShape
      <4>. QED  BY <4>1, <4>2
    <3>. QED  BY <3>1 DEF RowShape
  <2>6. LooseShape'
    <3>1. ASSUME NEW t \in Torrents  PROVE Cardinality(Loose(t)') <= unrecorded.cards[t]
      <4>1. Loose(t)' \subseteq Loose(t)
        <5>1. SUFFICES ASSUME NEW p \in Places, ownerCard'[p].of = t, ownerCard'[p].up,
                              p # cardRow'[t].at
                       PROVE  ownerCard[p].of = t /\ ownerCard[p].up /\ p # cardRow[t].at
            BY DEF Loose
        <5>2. p # f
            BY <2>2, <2>3, <2>4, <5>1
        <5>3. ownerCard[p].of = t /\ ownerCard[p].up
            BY <2>4, <5>1, <5>2
        <5>4. p # cardRow[t].at
          <6>1. CASE t = c
            <7>1. p # NoPlace
                BY Numbered
            <7>. QED  BY <1>1, <5>3, <6>1, <7>1
          <6>2. CASE t # c
              BY <2>3, <5>1, <6>2
          <6>. QED  BY <6>1, <6>2
        <5>. QED  BY <5>3, <5>4
      <4>2. Cardinality(Loose(t)) <= unrecorded.cards[t] /\ unrecorded.cards[t] \in Nat
          BY <1>6 DEF CardsIInv, LooseShape
      <4>. QED  BY <4>1, <4>2, FewerLoose
    <3>. QED  BY <1>8, <3>1 DEF LooseShape, Loose
  <2>7. Moved({})
      BY <1>1, <1>8, ProceedMoves
  <2>8. KeysShape' /\ SweepShape'
    <3>1. \A t \in Torrents : \/ cardRow'[t].key = cardRow[t].key
                              \/ t = sweep.cur /\ cardRow'[t].key = sweep.list[t]
        BY <1>1, <2>3
    <3>. QED  BY <1>1, <1>2, <2>7, <3>1, CycleKeys, BetweenTorrents
  <2>9. CardsTypeOK'
    <3>1. sweep' \in Cycle
        BY <2>7 DEF Moved
    <3>. QED  BY <1>2, <1>8, <2>3, <2>4, <3>1, FaultCounts
              DEF CardsIInv, CardsTypeOK, Cycle, OwnerRow, OwnerMessage
  <2>10. ToldShape'
      BY <1>2, <1>8 DEF CardsIInv, ToldShape
  <2>. QED  BY <2>4, <2>5, <2>6, <2>8, <2>9, <2>10 DEF CardsIInv
<1>9. CASE /\ \/ ownerCard' = ownerCard
              \/ \E live \in BOOLEAN : ownerCard' =
                     [ownerCard EXCEPT ![f] = [of |-> c, key |-> Key, up |-> TRUE, live |-> live]]
           /\ unrecorded' = [unrecorded EXCEPT !.cards = [unrecorded.cards EXCEPT ![c] = @ + 1]]
           /\ Abort /\ UNCHANGED cardRow
  <2>1. /\ unrecorded' \in [cards : [Torrents -> Nat], told : [Torrents -> Nat]]
        /\ unrecorded'.told = unrecorded.told
        /\ unrecorded'.cards[c] = unrecorded.cards[c] + 1
        /\ \A t \in Torrents : t # c => unrecorded'.cards[t] = unrecorded.cards[t]
    <3>1. PICK u : u = [unrecorded.cards EXCEPT ![c] = unrecorded.cards[c] + 1]
        OBVIOUS
    <3>2. /\ u \in [Torrents -> Nat] /\ u[c] = unrecorded.cards[c] + 1
          /\ \A t \in Torrents : t # c => u[t] = unrecorded.cards[t]
        BY <1>1, <1>6, <3>1
    <3>3. unrecorded' = [unrecorded EXCEPT !.cards = u]
        BY <1>9, <3>1, Zenon
    <3>. QED  BY <1>6, <3>2, <3>3
  <2>2. \/ ownerCard' = ownerCard
        \/ \E n : Sent(n) /\ New(n)
      BY <1>5, <1>9
  <2>3. /\ ownerCard' \in [Places -> OwnerMessage] /\ PlacesShape'
        /\ \A q \in Places : q # f => ownerCard'[q] = ownerCard[q]
        /\ ownerCard'[f] = ownerCard[f] \/ ownerCard'[f].of = c
        /\ \A t \in Torrents : cardRow[t].at # NoPlace =>
              ownerCard'[cardRow[t].at] = ownerCard[cardRow[t].at]
    <3>1. CASE ownerCard' = ownerCard
        BY <3>1, CardValues DEF CardsIInv, PlacesShape
    <3>2. CASE \E n : Sent(n) /\ New(n)
      <4>1. PICK n : Sent(n) /\ New(n)
          BY <3>2
      <4>. QED  BY <4>1, <1>7
    <3>. QED  BY <2>2, <3>1, <3>2
  <2>4. RowShape'
    <3>. UNCHANGED cardRow
        BY <1>9
    <3>. QED  BY <2>3 DEF CardsIInv, RowShape
  <2>5. LooseShape'
    <3>1. ASSUME NEW t \in Torrents  PROVE Cardinality(Loose(t)') <= unrecorded'.cards[t]
      <4>1. Loose(t)' \subseteq Loose(t) \union {f} /\ (t # c => Loose(t)' \subseteq Loose(t))
        <5>1. UNCHANGED cardRow
            BY <1>9
        <5>. QED  BY <2>3, <5>1 DEF Loose
      <4>2. Cardinality(Loose(t)) <= unrecorded.cards[t] /\ unrecorded.cards[t] \in Nat
          BY <1>6 DEF CardsIInv, LooseShape
      <4>3. CASE t # c
          BY <2>1, <4>1, <4>2, <4>3, FewerLoose
      <4>4. CASE t = c
        <5>1. /\ IsFiniteSet(Loose(t)) /\ Cardinality(Loose(t)) \in Nat
            BY FewerLoose
        <5>2. /\ IsFiniteSet(Loose(t) \union {f})
              /\ Cardinality(Loose(t) \union {f}) <= Cardinality(Loose(t)) + 1
          <6>1. /\ IsFiniteSet(Loose(t) \union {f})
                /\ Cardinality(Loose(t) \union {f}) =
                      IF f \in Loose(t) THEN Cardinality(Loose(t)) ELSE Cardinality(Loose(t)) + 1
              BY ONLY <5>1, FS_AddElement
          <6>. QED  BY ONLY <5>1, <6>1
        <5>3. Cardinality(Loose(t)') <= Cardinality(Loose(t) \union {f}) /\ IsFiniteSet(Loose(t)')
            BY <4>1, <5>2, FS_Subset
        <5>4. Cardinality(Loose(t)') \in Nat /\ Cardinality(Loose(t) \union {f}) \in Nat
            BY <5>2, <5>3, FS_CardinalityType
        <5>. QED  BY <2>1, <4>2, <4>4, <5>1, <5>2, <5>3, <5>4
      <4>. QED  BY <4>3, <4>4
    <3>. QED  BY <3>1 DEF LooseShape, Loose
  <2>6. Moved({})
      BY <1>1, <1>9, AbortMoves
  <2>7. KeysShape' /\ SweepShape'
      BY <1>1, <1>2, <1>9, <2>6, CycleKeys, BetweenTorrents
  <2>8. CardsTypeOK'
    <3>1. sweep' \in Cycle
        BY <2>6 DEF Moved
    <3>. QED  BY <1>2, <1>9, <2>1, <2>3, <3>1, FaultCounts
              DEF CardsIInv, CardsTypeOK, Cycle, OwnerMessage
  <2>9. ToldShape'
      BY <1>2, <2>1 DEF CardsIInv, ToldShape
  <2>. QED  BY <2>3, <2>4, <2>5, <2>7, <2>8, <2>9 DEF CardsIInv
<1>. QED  BY <1>4, <1>8, <1>9

\* The owner deletes a message: it may be the one of a row.
LEMMA DeleteKeeps ==
    ASSUME CardsIInv, NEW p \in Places, OwnerDeletes(p)
    PROVE  CardsIInv'
<1>1. PICK n : n = [ownerCard[p] EXCEPT !.up = FALSE]
    OBVIOUS
<1>2. ownerCard' = [ownerCard EXCEPT ![p] = n]
    BY <1>1 DEF OwnerDeletes
<1>3. n \in OwnerMessage /\ n.of = ownerCard[p].of /\ n.up = FALSE
  <2>1. ownerCard[p] \in OwnerMessage
      BY CardValues DEF CardsIInv
  <2>. QED  BY ONLY <1>1, <2>1 DEF OwnerMessage
<1>4. UNCHANGED <<torrent, cardRow, toldRow, told, sweep, unrecorded>> /\ (Mishap \/ Smooth)
    BY DEF OwnerDeletes
<1>5. /\ ownerCard' \in [Places -> OwnerMessage]
      /\ PlacesShape' /\ RowShape' /\ LooseShape'
    BY <1>2, <1>3, <1>4, RedrawKeeps
<1>6. CardsTypeOK'
    BY <1>4, <1>5, FaultCounts DEF CardsIInv, CardsTypeOK, OwnerMessage
<1>7. KeysShape' /\ ToldShape'
    BY <1>4 DEF CardsIInv, KeysShape, ToldShape
<1>8. SweepShape'
  <2>1. \A q \in Places : ownerCard'[q].up => ownerCard[q].up
      BY <1>2, <1>3, CardValues DEF CardsIInv
  <2>2. \A t \in Torrents : cardRow[t].at # NoPlace => cardRow[t].at \in Places
      BY CardValues DEF CardsIInv
  <2>. QED  BY <1>4, <2>1, <2>2 DEF CardsIInv, SweepShape
<1>. QED  BY <1>5, <1>6, <1>7, <1>8 DEF CardsIInv

\* A restart forgets the cycle; the cards that rows name answer again.
LEMMA RestartKeepsCards ==
    ASSUME CardsIInv, CardsRestart
    PROVE  CardsIInv'
<1>1. /\ UNCHANGED <<torrent, cardRow, toldRow, told, unrecorded>> /\ Mishap /\ Abort
      /\ sweep \in Cycle /\ ownerCard \in [Places -> OwnerMessage]
    BY CardValues DEF CardsRestart, CardsIInv
<1>2. ASSUME NEW p \in Places
      PROVE  /\ ownerCard'[p] \in OwnerMessage
             /\ ownerCard'[p].of = ownerCard[p].of /\ ownerCard'[p].up = ownerCard[p].up
             /\ ownerCard'[p].key = ownerCard[p].key
             /\ (\E t \in Torrents : cardRow[t].at = p) => ownerCard'[p].live
  <2>1. ownerCard'[p] = [ownerCard[p] EXCEPT !.live = Restored(p)]
      BY DEF CardsRestart
  <2>2. PICK live \in BOOLEAN : live = Restored(p)
      BY DEF Restored
  <2>3. ownerCard'[p] = [ownerCard[p] EXCEPT !.live = live] /\ ownerCard[p] \in OwnerMessage
      BY <1>1, <2>1, <2>2
  <2>4. /\ ownerCard'[p] \in OwnerMessage /\ ownerCard'[p].live = live
        /\ ownerCard'[p].of = ownerCard[p].of /\ ownerCard'[p].up = ownerCard[p].up
        /\ ownerCard'[p].key = ownerCard[p].key
      BY ONLY <2>3 DEF OwnerMessage
  <2>. QED  BY <2>2, <2>4 DEF Restored
<1>3. ownerCard' \in [Places -> OwnerMessage]
  <2>1. DOMAIN ownerCard' = Places /\ ownerCard' = [p \in Places |-> ownerCard'[p]]
      BY DEF CardsRestart
  <2>. QED  BY <1>2, <2>1
<1>4. Moved({})
    BY <1>1, AbortMoves
<1>5. sweep' \in Cycle /\ sweep'.pc = "idle" /\ \A t \in Torrents : sweep'.list[t] <= sweep.list[t]
    BY <1>1, <1>4 DEF Moved, Abort, Resting
<1>6. KeysShape'
  <2>1. \A t \in Torrents : sweep'.list[t] \in Nat /\ sweep.list[t] \in Nat /\ torrent[t] \in Nat
      BY <1>1, <1>5, CardValues, Numbered DEF Cycle, Keys0, CardsIInv
  <2>. QED  BY <1>1, <1>5, <2>1 DEF CardsIInv, KeysShape
<1>7. SweepShape'
    BY <1>4, BetweenTorrents
<1>8. PlacesShape'
    BY <1>2 DEF CardsIInv, PlacesShape
<1>9. RowShape'
  <2>1. \A t \in Torrents : cardRow[t].at # NoPlace => cardRow[t].at \in Places
      BY CardValues DEF CardsIInv
  <2>. QED  BY <1>1, <1>2, <2>1 DEF CardsIInv, RowShape
<1>10. LooseShape'
  <2>1. \A t \in Torrents : Loose(t)' = Loose(t)
      BY <1>1, <1>2 DEF Loose
  <2>. QED  BY <1>1, <2>1 DEF CardsIInv, LooseShape
<1>11. ToldShape'
    BY <1>1 DEF CardsIInv, ToldShape
<1>12. CardsTypeOK'
    BY <1>1, <1>3, <1>5, FaultCounts DEF CardsIInv, CardsTypeOK, Cycle, OwnerMessage
<1>. QED  BY <1>6, <1>7, <1>8, <1>9, <1>10, <1>11, <1>12 DEF CardsIInv

\* The invariant of the owner's cards is inductive, whatever fails between two calls.
THEOREM CardsInvariance == CardsSpec => []CardsIInv
<1>1. CardsIInv /\ [CardsNext]_cardVars => CardsIInv'
  <2>. SUFFICES ASSUME CardsIInv, [CardsNext]_cardVars  PROVE CardsIInv'
      OBVIOUS
  <2>1. ASSUME NEW t \in Torrents, Advance(t)  PROVE CardsIInv'
      BY <2>1, AdvanceKeeps
  <2>2. CASE ListTorrents
      BY <2>2, ListKeeps
  <2>3. CASE Consider
      BY <2>3, ConsiderKeeps
  <2>4. CASE NotifyHome
      BY <2>4, NotifyKeeps
  <2>5. CASE FetchCardMessage
      BY <2>5, FetchKeeps
  <2>6. CASE EditOwnerCard
      BY <2>6, EditKeeps
  <2>7. CASE SendOwnerCard
      BY <2>7, SendKeeps
  <2>8. ASSUME NEW p \in Places, OwnerDeletes(p)  PROVE CardsIInv'
      BY <2>8, DeleteKeeps
  <2>9. CASE CardsRestart
      BY <2>9, RestartKeepsCards
  <2>10. CASE UNCHANGED cardVars
      BY <2>10 DEF cardVars, CardsIInv, CardsTypeOK, KeysShape, SweepShape, PlacesShape,
                   RowShape, LooseShape, Loose, ToldShape
  <2>. QED  BY <2>1, <2>2, <2>3, <2>4, <2>5, <2>6, <2>7, <2>8, <2>9, <2>10 DEF CardsNext
<1>. QED  BY CardsStart, <1>1, PTL DEF CardsSpec

\* A row is never ahead of its card, no torrent has more cards than lost sends account
\* for, the card a row names answers, and a stage is told once but for lost answers.
THEOREM OwnerCardsHold == CardsSpec => []OwnerCardsInv
<1>1. CardsIInv => OwnerCardsInv
  <2>. SUFFICES ASSUME CardsIInv  PROVE OwnerCardsInv
      OBVIOUS
  <2>1. CardsTypeOK /\ RowsNeverAhead
      BY DEF CardsIInv, KeysShape, RowShape, RowsNeverAhead
  <2>2. ASSUME NEW t \in Torrents
        PROVE  Cardinality(OwnerCardsOf(t)) <= 1 + unrecorded.cards[t]
    <3>. DEFINE q == cardRow[t].at
    <3>1. OwnerCardsOf(t) \subseteq Loose(t) \union {q}
        BY DEF OwnerCardsOf, Loose
    <3>2. IsFiniteSet(Loose(t)) /\ Cardinality(Loose(t)) \in Nat
        BY FewerLoose
    <3>3. /\ IsFiniteSet(Loose(t) \union {q})
          /\ Cardinality(Loose(t) \union {q}) =
                IF q \in Loose(t) THEN Cardinality(Loose(t)) ELSE Cardinality(Loose(t)) + 1
        BY ONLY <3>2, FS_AddElement
    <3>4. /\ Cardinality(OwnerCardsOf(t)) <= Cardinality(Loose(t) \union {q})
          /\ IsFiniteSet(OwnerCardsOf(t))
        BY <3>1, <3>3, FS_Subset
    <3>5. Cardinality(OwnerCardsOf(t)) \in Nat
        BY <3>4, FS_CardinalityType
    <3>6. Cardinality(Loose(t)) <= unrecorded.cards[t] /\ unrecorded.cards[t] \in Nat
        BY CardValues DEF CardsIInv, LooseShape
    <3>. QED  BY ONLY <3>2, <3>3, <3>4, <3>5, <3>6
  <2>3. OneCardEach
      BY <2>2 DEF OneCardEach
  <2>4. StoredCardAnswers
      BY DEF CardsIInv, RowShape, StoredCardAnswers
  <2>5. ToldOnce
      BY DEF CardsIInv, ToldShape, ToldOnce
  <2>. QED  BY <2>1, <2>3, <2>4, <2>5 DEF OwnerCardsInv
<1>. QED  BY CardsInvariance, <1>1, PTL

-----------------------------------------------------------------------------
(***************************************************************************)
(* Reports, their forms, and the queue.                                    *)
(***************************************************************************)

\* What a queue card is made of.
QueueRow == [id : Nat, status : Pending]
ShownCard == [id : Nat, revision : Nat, claimable : BOOLEAN]
QueueClick == [at : ShownCard, action : Targets \union {"previous", "next"}]
QueueAction == [id : Nat, target : Targets \union {"none"}, seen : Nat]
QueueCard == [pc : QueuePCs, rows : Seq(QueueRow), index : Nat, revision : Nat,
              shown : ShownCard, click : SUBSET QueueClick, acting : QueueAction]

\* Of n reports a card lists some; it has a current one unless that has just left it or
\* a call failed, what it shows and what is pressed are of a report, and what is worked
\* on is the report its administrator saw.
Fits(q, n, faults) ==
    /\ q \in QueueCard
    /\ \A j \in DOMAIN q.rows : q.rows[j].id \in 1..n
    /\ q.pc = "idle" => q.shown.id # 0
    /\ q.pc = "closed" => q.rows = <<>> /\ q.shown.id = 0
    /\ \A c \in q.click : c.at.id # 0
    /\ q.pc \in {"turning", "redraw", "deferring", "ticket", "refused"} => q.index \in DOMAIN q.rows
    /\ q.pc = "idle" => q.index \in DOMAIN q.rows \/ faults > 0
    /\ q.pc \in {"deferring", "ticket", "refused"} => q.acting.id \in 1..n /\ q.acting.target \in Targets
    /\ q.acting.id = q.acting.seen
    /\ q.pc = "idle" /\ faults = 0 => q.shown = Drawn(q)
QueueShape ==
    /\ queue \in [Queues -> QueueCard]
    /\ \A h \in Queues : Fits(queue[h], Len(report), reportFaults)

\* Reports, forms and calls are what they should be, whoever is at work on them.
ReportShape ==
    /\ report \in Seq(Report) /\ form \in [Forms -> Form]
    /\ submit \in [Forms -> [Submits -> SubmitCall]]
    /\ \A e \in edits : e.id \in DOMAIN report /\ e.status \in {"open"} \union Targets
    /\ reportFaults \in 0..MaxReportFaults

\* In the server one call at a time saves a form, which is live and taken; the form of a
\* ticket is neither live nor on its way out.
FormFits(r, calls) ==
    /\ r.live => ~r.going /\ r.shows # "gone"
    /\ \A s \in Submits :
          /\ calls[s].pc # "scoping"
          /\ calls[s].pc = "saving" =>
                r.live /\ r.busy /\ \A z \in Submits : calls[z].pc = "saving" => z = s
Kept(r) == ~r.live /\ ~r.going /\ r.shows # "gone"
ServerShape ==
    /\ \A f \in Forms \ DirectForms : FormFits(form[f], submit[f])
    /\ \A i \in DOMAIN report : report[i].form \notin DirectForms => Kept(form[report[i].form])

\* The inductive invariant of the reports.
ReportsIInv == ReportShape /\ ServerShape /\ QueueShape

\* list_media_reports orders the rows of different reports: open ones first, then by age.
LEMMA ListingOrder ==
    ASSUME NEW S, S \subseteq QueueRow, \A r, t \in S : r.id = t.id => r = t
    PROVE  /\ \A r \in S : ~ListedBefore(r, r)
           /\ \A r, t \in S : r # t => ListedBefore(r, t) \/ ListedBefore(t, r)
           /\ \A r, t, u \in S : ListedBefore(r, t) /\ ListedBefore(t, u) => ListedBefore(r, u)
<1>1. \A r \in S : r.id \in Nat /\ (r.status = "open" \/ r.status = "in_progress")
    BY DEF QueueRow, Pending
<1>2. \A r \in S : ~ListedBefore(r, r)
    BY <1>1 DEF ListedBefore
<1>3. ASSUME NEW r \in S, NEW t \in S, r # t
      PROVE  ListedBefore(r, t) \/ ListedBefore(t, r)
  <2>1. r.id < t.id \/ t.id < r.id
      BY <1>1, <1>3
  <2>. QED  BY <1>1, <2>1 DEF ListedBefore
<1>4. \A r, t, u \in S : ListedBefore(r, t) /\ ListedBefore(t, u) => ListedBefore(r, u)
    BY <1>1 DEF ListedBefore
<1>. QED  BY <1>2, <1>3, <1>4

\* So there is a list of them in that order.
LEMMA ListingExists ==
    ASSUME NEW S, IsFiniteSet(S), S \subseteq QueueRow, \A r, t \in S : r.id = t.id => r = t
    PROVE  \E rows \in [1..Cardinality(S) -> S] :
              \A m, n \in DOMAIN rows : m < n => ListedBefore(rows[m], rows[n])
<1>. DEFINE N == Cardinality(S)
            Ahead(x) == {y \in S : ListedBefore(y, x)}
            f == [x \in S |-> Cardinality(Ahead(x)) + 1]
            rows == [k \in 1..N |-> CHOOSE x \in S : f[x] = k]
<1>1. N \in Nat
    BY FS_CardinalityType
<1>2. ASSUME NEW x \in S
      PROVE  /\ IsFiniteSet(Ahead(x)) /\ Cardinality(Ahead(x)) \in Nat
             /\ Cardinality(Ahead(x)) + 1 \in 1..N
  <2>1. Ahead(x) \in SUBSET (S \ {x})
      BY ListingOrder
  <2>2. IsFiniteSet(S \ {x}) /\ Cardinality(S \ {x}) = N - 1
      BY FS_RemoveElement
  <2>. HIDE DEF Ahead, N
  <2>3. IsFiniteSet(Ahead(x)) /\ Cardinality(Ahead(x)) <= N - 1
      BY ONLY <2>1, <2>2, FS_Subset
  <2>4. Cardinality(Ahead(x)) \in Nat
      BY <2>3, FS_CardinalityType
  <2>. QED  BY <1>1, <2>3, <2>4
<1>3. ASSUME NEW x \in S, NEW y \in S, ListedBefore(x, y)
      PROVE  Cardinality(Ahead(x)) < Cardinality(Ahead(y))
  <2>1. Ahead(x) \in SUBSET Ahead(y) /\ x \in Ahead(y) /\ x \notin Ahead(x)
      BY <1>3, ListingOrder
  <2>2. IsFiniteSet(Ahead(y)) /\ Cardinality(Ahead(x)) \in Nat /\ Cardinality(Ahead(y)) \in Nat
      BY <1>2
  <2>. HIDE DEF Ahead
  <2>3. /\ Cardinality(Ahead(x)) <= Cardinality(Ahead(y))
        /\ Cardinality(Ahead(y)) = Cardinality(Ahead(x)) => Ahead(y) = Ahead(x)
      BY ONLY <2>1, <2>2, FS_Subset
  <2>. QED  BY <2>1, <2>2, <2>3
<1>4. f \in Injection(S, 1..N)
  <2>1. \A x, y \in S : f[x] = f[y] => x = y
    <3>1. SUFFICES ASSUME NEW x \in S, NEW y \in S, f[x] = f[y], x # y  PROVE FALSE
        OBVIOUS
    <3>2. ListedBefore(x, y) \/ ListedBefore(y, x)
        BY <3>1, ListingOrder
    <3>. HIDE DEF Ahead
    <3>3. Cardinality(Ahead(x)) = Cardinality(Ahead(y))
        BY <1>2, <3>1
    <3>. QED  BY <1>2, <1>3, <3>2, <3>3
  <2>2. f \in [S -> 1..N]
    <3>. HIDE DEF Ahead, N
    <3>. QED  BY <1>2
  <2>. QED  BY <2>1, <2>2 DEF Injection, IsInjective
<1>5. \A k \in 1..N : \E x \in S : f[x] = k
  <2>1. IsFiniteSet(1..N) /\ Cardinality(1..N) = N
      BY <1>1, FS_Interval
  <2>. HIDE DEF f
  <2>2. f \in Surjection(S, 1..N)
      BY <1>4, <2>1, FS_Injection
  <2>. QED  BY <2>2 DEF Surjection
<1>6. \A k \in 1..N : rows[k] \in S /\ f[rows[k]] = k
  <2>. HIDE DEF f
  <2>. QED  BY <1>5
<1>7. rows \in [1..N -> S]
  <2>. HIDE DEF f
  <2>. QED  BY <1>5
<1>8. ASSUME NEW m \in 1..N, NEW n \in 1..N, m < n
      PROVE  ListedBefore(rows[m], rows[n])
  <2>1. PICK x \in S, y \in S : x = rows[m] /\ y = rows[n] /\ f[x] = m /\ f[y] = n
    <3>. HIDE DEF f, rows
    <3>. QED  BY <1>6
  <2>2. Cardinality(Ahead(x)) + 1 = m /\ Cardinality(Ahead(y)) + 1 = n
      BY <2>1
  <2>. HIDE DEF f, rows, Ahead
  <2>3. x # y /\ ~(Cardinality(Ahead(y)) < Cardinality(Ahead(x)))
      BY <1>2, <1>8, <2>2
  <2>4. ListedBefore(x, y) \/ ListedBefore(y, x)
      BY <2>3, ListingOrder
  <2>. QED  BY <1>3, <2>1, <2>3, <2>4
<1>. HIDE DEF rows, N
<1>9. DOMAIN rows = 1..N
    BY <1>7
<1>. QED  BY <1>7, <1>8, <1>9 DEF N

\* The queue lists reports of the table.
LEMMA ListingTyped ==
    ASSUME report \in Seq(Report)
    PROVE  /\ QueueListed \in Seq(QueueRow)
           /\ \A j \in DOMAIN QueueListed : QueueListed[j].id \in 1..Len(report)
<1>. DEFINE I == {j \in DOMAIN report : report[j].status \in Pending}
            g == [i \in I |-> [id |-> i, status |-> report[i].status]]
<1>1. DOMAIN report = 1..Len(report) /\ Len(report) \in Nat
    BY LenProperties
<1>2. IsFiniteSet(Listable)
  <2>1. IsFiniteSet(I)
    <3>1. IsFiniteSet(1..Len(report)) /\ I \in SUBSET (1..Len(report))
        BY <1>1, FS_Interval
    <3>. QED  BY <3>1, FS_Subset
  <2>2. g \in Surjection(I, Listable)
      BY DEF Surjection, Listable
  <2>. HIDE DEF I, g
  <2>. QED  BY <2>1, <2>2, FS_Surjection
<1>3. \A r \in Listable : \E i \in I : r = [id |-> i, status |-> report[i].status]
    BY DEF Listable
<1>4. \A r \in Listable : /\ r \in QueueRow /\ r.id \in 1..Len(report)
                          /\ r = [id |-> r.id, status |-> report[r.id].status]
    BY <1>1, <1>3 DEF QueueRow
<1>5. \A r, t \in Listable : r.id = t.id => r = t
    BY <1>4
<1>. DEFINE Ordered(rows) == \A m, n \in DOMAIN rows : m < n => ListedBefore(rows[m], rows[n])
<1>6. \E rows \in [1..Cardinality(Listable) -> Listable] : Ordered(rows)
    BY <1>2, <1>4, <1>5, ListingExists
<1>7. QueueListed = CHOOSE rows \in [1..Cardinality(Listable) -> Listable] : Ordered(rows)
    BY DEF QueueListed
<1>. HIDE DEF Ordered
<1>8. QueueListed \in [1..Cardinality(Listable) -> Listable] /\ Cardinality(Listable) \in Nat
    BY <1>2, <1>6, <1>7, FS_CardinalityType
<1>9. QueueListed \in [1..Cardinality(Listable) -> QueueRow]
    BY <1>4, <1>8
<1>10. QueueListed \in Seq(QueueRow)
    BY <1>8, <1>9, SeqDef
<1>. QED  BY <1>4, <1>8, <1>10

\* A row taken out of a card leaves the others.
LEMMA WithoutTyped ==
    ASSUME NEW rows \in Seq(QueueRow), NEW i
    PROVE  /\ Without(rows, i) \in Seq(QueueRow)
           /\ \A k \in DOMAIN Without(rows, i) : \E j \in DOMAIN rows : Without(rows, i)[k] = rows[j]
<1>. DEFINE n == Len(rows)
            j == CHOOSE m \in DOMAIN rows : rows[m].id = i
            a == SubSeq(rows, 1, j - 1)
            b == SubSeq(rows, j + 1, n)
<1>1. n \in Nat /\ DOMAIN rows = 1..n /\ \A k \in 1..n : rows[k] \in QueueRow
    BY LenProperties, ElementOfSeq
<1>2. CASE \E m \in DOMAIN rows : rows[m].id = i
  <2>1. j \in 1..n
      BY <1>1, <1>2
  <2>. HIDE DEF j, n
  <2>2. /\ \A k \in 1..(j - 1) : rows[k] \in QueueRow /\ k \in 1..n
        /\ \A k \in (j + 1)..n : rows[k] \in QueueRow
        /\ j - 1 \in Int /\ j + 1 \in Int /\ n \in Int /\ 1 \in Int
      BY <1>1, <2>1
  <2>3. /\ a \in Seq(QueueRow) /\ Len(a) = j - 1
        /\ \A k \in 1..(j - 1) : a[k] = rows[k]
    <3>1. /\ a \in Seq(QueueRow) /\ Len(a) = (IF 1 <= j - 1 THEN (j - 1) - 1 + 1 ELSE 0)
          /\ \A k \in 1..((j - 1) - 1 + 1) : a[k] = rows[1 + k - 1]
        BY ONLY <2>2, SubSeqProperties
    <3>. HIDE DEF a
    <3>. QED  BY <1>1, <2>1, <3>1
  <2>4. /\ b \in Seq(QueueRow) /\ Len(b) = n - j
        /\ \A k \in 1..(n - j) : b[k] = rows[j + k]
    <3>1. /\ b \in Seq(QueueRow) /\ Len(b) = (IF j + 1 <= n THEN n - (j + 1) + 1 ELSE 0)
          /\ \A k \in 1..(n - (j + 1) + 1) : b[k] = rows[(j + 1) + k - 1]
        BY ONLY <2>2, SubSeqProperties
    <3>. HIDE DEF b
    <3>2. \A k \in 1..(n - j) : (j + 1) + k - 1 = j + k
        BY <1>1, <2>1
    <3>. QED  BY <1>1, <2>1, <3>1, <3>2
  <2>5. Without(rows, i) = a \o b
      BY <1>2 DEF Without, RemoveAt, j, n
  <2>. HIDE DEF a, b
  <2>6. /\ a \o b \in Seq(QueueRow) /\ Len(a \o b) = Len(a) + Len(b)
        /\ \A k \in 1..(Len(a) + Len(b)) : (a \o b)[k] = IF k <= Len(a) THEN a[k] ELSE b[k - Len(a)]
      BY <2>3, <2>4, ConcatProperties
  <2>7. DOMAIN (a \o b) = 1..(n - 1)
      BY <1>1, <2>1, <2>3, <2>4, <2>6, LenProperties
  <2>8. ASSUME NEW k \in 1..(n - 1)  PROVE \E m \in 1..n : (a \o b)[k] = rows[m]
    <3>1. CASE k <= j - 1
        BY <1>1, <2>1, <2>3, <2>4, <2>6, <3>1
    <3>2. CASE ~(k <= j - 1)
      <4>1. k - (j - 1) \in 1..(n - j) /\ k + 1 \in 1..n /\ j + (k - (j - 1)) = k + 1
          BY <1>1, <2>1, <3>2
      <4>2. (a \o b)[k] = b[k - (j - 1)]
          BY <1>1, <2>1, <2>3, <2>4, <2>6, <3>2
      <4>. QED  BY <2>4, <4>1, <4>2
    <3>. QED  BY <3>1, <3>2
  <2>. QED  BY <1>1, <2>5, <2>6, <2>7, <2>8
<1>3. CASE ~ \E m \in DOMAIN rows : rows[m].id = i
    BY <1>3 DEF Without
<1>. QED  BY <1>2, <1>3

\* What a card shows of its current report.
LEMMA DrawnOf ==
    ASSUME NEW q \in QueueCard
    PROVE  /\ Drawn(q) \in ShownCard /\ Drawn(q).revision = q.revision
           /\ q.index \in DOMAIN q.rows =>
                 /\ Drawn(q).id = q.rows[q.index].id
                 /\ q.rows[q.index] \in QueueRow
           /\ q.index \notin DOMAIN q.rows => Drawn(q).id = 0
<1>1. q.rows \in Seq(QueueRow) /\ q.index \in Nat /\ q.revision \in Nat
    BY DEF QueueCard
<1>2. q.index \in DOMAIN q.rows => q.rows[q.index] \in QueueRow
    BY <1>1, ElementOfSeq, LenProperties
<1>3. CASE q.index \in DOMAIN q.rows
    BY <1>1, <1>2, <1>3 DEF Drawn, QueueRow, ShownCard
<1>4. CASE q.index \notin DOMAIN q.rows
    BY <1>1, <1>4 DEF Drawn, ShownCard
<1>. QED  BY <1>3, <1>4

\* A card that is closed lists nothing.
LEMMA ClosedCard ==
    /\ NoQueue \in QueueCard /\ NoQueue.pc = "closed" /\ NoQueue.rows = <<>>
    /\ NoQueue.shown \in ShownCard /\ NoQueue.shown.id = 0
    /\ NoQueue.click = {} /\ NoQueue.acting.id = NoQueue.acting.seen /\ NoQueue.revision = 0
    /\ NoQueue.acting = NoAction /\ NoAction \in QueueAction /\ NoAction.id = NoAction.seen
    /\ \A n, faults : Fits(NoQueue, n, faults)
<1>1. <<>> \in Seq(QueueRow) /\ DOMAIN <<>> = {}
    BY EmptySeq, LenProperties
<1>2. /\ NoQueue \in QueueCard /\ NoQueue.pc = "closed" /\ NoQueue.rows = <<>>
      /\ NoQueue.shown \in ShownCard /\ NoQueue.shown.id = 0
      /\ NoQueue.click = {} /\ NoQueue.acting.id = NoQueue.acting.seen
      /\ NoQueue.acting = NoAction /\ NoAction \in QueueAction /\ NoAction.id = NoAction.seen
      /\ NoQueue.revision = 0
    BY <1>1 DEF NoQueue, NoAction, QueueCard, QueuePCs, ShownCard, QueueAction, Targets
<1>. QED  BY <1>1, <1>2 DEF Fits

\* Its fields one by one, as an update leaves them.
LEMMA CardParts ==
    ASSUME NEW q \in QueueCard
    PROVE  /\ q.pc \in QueuePCs /\ q.rows \in Seq(QueueRow) /\ q.index \in Nat
           /\ q.revision \in Nat /\ q.shown \in ShownCard /\ q.acting \in QueueAction
           /\ q.click \subseteq QueueClick /\ Len(q.rows) \in Nat
           /\ DOMAIN q.rows = 1..Len(q.rows) /\ q.acting.id \in Nat
           /\ q.acting.target \in Targets \union {"none"}
<1>1. /\ q.pc \in QueuePCs /\ q.rows \in Seq(QueueRow) /\ q.index \in Nat
      /\ q.revision \in Nat /\ q.shown \in ShownCard /\ q.acting \in QueueAction
      /\ q.click \subseteq QueueClick
    BY DEF QueueCard
<1>. QED  BY <1>1, LenProperties DEF QueueAction

\* previous, next and the end of an action leave the current report within the list.
LEMMA ClampedIn ==
    ASSUME NEW q \in QueueCard, NEW i \in Int, q.rows # <<>>
    PROVE  Clamped(i, q) \in DOMAIN q.rows /\ Clamped(i, q) \in Nat
<1>1. Len(q.rows) \in Nat /\ DOMAIN q.rows = 1..Len(q.rows) /\ Len(q.rows) # 0
    BY CardParts, EmptySeq
<1>. QED  BY <1>1 DEF Clamped

\* A card that fits goes on to fit, as reports are added and calls fail.
LEMMA FitsLater ==
    ASSUME NEW q, NEW n \in Nat, NEW m \in Nat, NEW e \in Nat, NEW g \in Nat,
           Fits(q, n, e), n <= m, e <= g
    PROVE  Fits(q, m, g)
<1>1. 1..n \subseteq 1..m
    OBVIOUS
<1>. QED  BY <1>1 DEF Fits

\* The table, and the calls that failed, only grow in number.
LEMMA Grows ==
    ASSUME ReportShape
    PROVE  /\ Len(report) \in Nat /\ DOMAIN report = 1..Len(report) /\ reportFaults \in Nat
           /\ ReportFault \/ NoReportFault \/ UNCHANGED reportFaults =>
                 reportFaults' \in 0..MaxReportFaults /\ reportFaults <= reportFaults'
                 /\ reportFaults' \in Nat
           /\ ReportFault => reportFaults' > 0
           /\ NoReportFault => reportFaults' = reportFaults
<1>1. MaxReportFaults \in Nat
    BY ReportsAssumption DEF ReportsAssumption
<1>2. Len(report) \in Nat /\ DOMAIN report = 1..Len(report)
    BY LenProperties DEF ReportShape
<1>. QED  BY <1>1, <1>2 DEF ReportShape, ReportFault, NoReportFault

\* A step that changes one card at most.
LEMMA OneCard ==
    ASSUME ReportShape, QueueShape, NEW h \in Queues, NEW r, SetQueue(h, r),
           Len(report') \in Nat, Len(report) <= Len(report'),
           reportFaults' \in Nat, reportFaults <= reportFaults',
           Fits(r, Len(report'), reportFaults')
    PROVE  QueueShape'
<1>1. /\ queue' = [queue EXCEPT ![h] = r] /\ queue \in [Queues -> QueueCard] /\ r \in QueueCard
    BY DEF SetQueue, QueueShape, Fits
<1>2. /\ queue' \in [Queues -> QueueCard] /\ queue'[h] = r
      /\ \A g \in Queues : g # h => queue'[g] = queue[g]
    BY <1>1
<1>3. ASSUME NEW g \in Queues  PROVE Fits(queue'[g], Len(report'), reportFaults')
  <2>1. CASE g = h
      BY <1>2, <2>1
  <2>2. CASE g # h
    <3>1. Fits(queue[g], Len(report), reportFaults)
        BY DEF QueueShape
    <3>2. Len(report) \in Nat /\ reportFaults \in Nat
        BY Grows
    <3>3. Fits(queue[g], Len(report'), reportFaults')
        BY <3>1, <3>2, FitsLater
    <3>. QED  BY <1>2, <2>2, <3>3
  <2>. QED  BY <2>1, <2>2
<1>. QED  BY <1>2, <1>3 DEF QueueShape

\* A step that changes none.
LEMMA NoCard ==
    ASSUME ReportShape, QueueShape, UNCHANGED queue,
           Len(report') \in Nat, Len(report) <= Len(report'),
           reportFaults' \in Nat, reportFaults <= reportFaults'
    PROVE  QueueShape'
<1>1. ASSUME NEW g \in Queues  PROVE Fits(queue[g], Len(report'), reportFaults')
  <2>1. Fits(queue[g], Len(report), reportFaults) /\ Len(report) \in Nat /\ reportFaults \in Nat
      BY Grows DEF QueueShape
  <2>. QED  BY <2>1, FitsLater
<1>. QED  BY <1>1 DEF QueueShape

\* A card is opened at a report of the list.
LEMMA OpenFits ==
    ASSUME ReportShape, QueueShape, NEW h \in Queues, OpenQueue(h)
    PROVE  QueueShape'
<1>. DEFINE L == QueueListed
<1>1. PICK i \in 1..Len(L) :
         SetQueue(h, [Refreshed([NoQueue EXCEPT !.pc = "idle", !.rows = L, !.index = i])
                         EXCEPT !.shown = Drawn(Refreshed([NoQueue EXCEPT !.pc = "idle",
                                                              !.rows = L, !.index = i]))])
    BY DEF OpenQueue
<1>2. L \in Seq(QueueRow) /\ \A j \in DOMAIN L : L[j].id \in 1..Len(report)
    BY ListingTyped DEF ReportShape
<1>. HIDE DEF L
<1>3. /\ Len(L) \in Nat /\ DOMAIN L = 1..Len(L) /\ i \in Nat
    BY <1>2, LenProperties
<1>4. PICK q : q = Refreshed([NoQueue EXCEPT !.pc = "idle", !.rows = L, !.index = i])
    OBVIOUS
<1>5. PICK p : p = [NoQueue EXCEPT !.pc = "idle", !.rows = L, !.index = i]
    OBVIOUS
<1>6. /\ p \in QueueCard /\ p.pc = "idle" /\ p.rows = L /\ p.index = i
      /\ p.click = {} /\ p.acting.id = p.acting.seen /\ p.revision \in Nat
  <2>1. "idle" \in QueuePCs /\ NoQueue \in QueueCard
      BY ClosedCard DEF QueuePCs
  <2>2. /\ p \in QueueCard /\ p.pc = "idle" /\ p.rows = L /\ p.index = i
        /\ p.click = NoQueue.click /\ p.acting = NoQueue.acting
      BY ONLY <1>2, <1>3, <1>5, <2>1 DEF QueueCard
  <2>. QED  BY <2>2, ClosedCard, CardParts
<1>7. /\ q \in QueueCard /\ q.pc = "idle" /\ q.rows = L /\ q.index = i
      /\ q.click = {} /\ q.acting.id = q.acting.seen
  <2>1. q = [p EXCEPT !.revision = p.revision + 1] /\ p.revision + 1 \in Nat
      BY <1>4, <1>5, <1>6 DEF Refreshed
  <2>2. /\ q \in QueueCard /\ q.pc = p.pc /\ q.rows = p.rows /\ q.index = p.index
        /\ q.click = p.click /\ q.acting = p.acting
      BY ONLY <1>6, <2>1 DEF QueueCard
  <2>. QED  BY <1>6, <2>2
<1>8. /\ Drawn(q) \in ShownCard /\ Drawn(q).id \in 1..Len(report)
    BY <1>2, <1>3, <1>7, DrawnOf
<1>9. PICK r : r = [q EXCEPT !.shown = Drawn(q)]
    OBVIOUS
<1>10. /\ r \in QueueCard /\ r.pc = q.pc /\ r.rows = q.rows /\ r.index = q.index
       /\ r.click = q.click /\ r.acting = q.acting /\ r.shown = Drawn(q) /\ r.revision = q.revision
    BY ONLY <1>7, <1>8, <1>9 DEF QueueCard
<1>11. Drawn(r) = Drawn(q)
    BY <1>10 DEF Drawn
<1>12. Fits(r, Len(report), reportFaults)
    BY <1>2, <1>3, <1>7, <1>8, <1>10, <1>11 DEF Fits
<1>13. SetQueue(h, r) /\ UNCHANGED <<report, reportFaults>>
    BY <1>1, <1>4, <1>9 DEF OpenQueue
<1>14. Fits(r, Len(report'), reportFaults') /\ Len(report') = Len(report)
    BY <1>12, <1>13
<1>. QED  BY <1>13, <1>14, Grows, OneCard

\* A button is pressed as it is shown.
LEMMA PressFits ==
    ASSUME ReportShape, QueueShape, NEW h \in Queues,
           NEW action \in Targets \union {"previous", "next"}, PressQueue(h, action)
    PROVE  QueueShape'
<1>. DEFINE q == queue[h]
<1>1. q \in QueueCard /\ Fits(q, Len(report), reportFaults) /\ q.pc # "closed" /\ q.shown.id # 0
    BY DEF QueueShape, PressQueue, Visible, Fits
<1>2. PICK c : c = [at |-> q.shown, action |-> action]
    OBVIOUS
<1>3. c \in QueueClick /\ c.at.id # 0
  <2>1. q.shown \in ShownCard
      BY <1>1, CardParts
  <2>. QED  BY <1>1, <1>2, <2>1 DEF QueueClick
<1>4. PICK r : r = [q EXCEPT !.click = {c}]
    OBVIOUS
<1>5. SetQueue(h, r) /\ UNCHANGED <<report, reportFaults>>
    BY <1>2, <1>4 DEF PressQueue
<1>. HIDE DEF q
<1>6. /\ r \in QueueCard /\ r.pc = q.pc /\ r.rows = q.rows /\ r.index = q.index
      /\ r.click = {c} /\ r.acting = q.acting /\ r.shown = q.shown /\ r.revision = q.revision
    BY ONLY <1>1, <1>3, <1>4 DEF QueueCard
<1>7. Drawn(r) = Drawn(q)
    BY <1>6 DEF Drawn
<1>8. Fits(r, Len(report), reportFaults)
    BY <1>1, <1>3, <1>6, <1>7 DEF Fits
<1>9. Fits(r, Len(report'), reportFaults') /\ Len(report') = Len(report)
    BY <1>5, <1>8
<1>. QED  BY <1>5, <1>9, Grows, OneCard

\* A press that is refused is gone.
LEMMA RefuseFits ==
    ASSUME ReportShape, QueueShape, NEW h \in Queues, RefuseClick(h)
    PROVE  QueueShape'
<1>. DEFINE q == queue[h]
<1>1. q \in QueueCard /\ Fits(q, Len(report), reportFaults)
    BY DEF QueueShape
<1>2. PICK r : r = [q EXCEPT !.click = {}]
    OBVIOUS
<1>3. SetQueue(h, r) /\ UNCHANGED <<report, reportFaults>>
    BY <1>2 DEF RefuseClick
<1>. HIDE DEF q
<1>4. /\ r \in QueueCard /\ r.pc = q.pc /\ r.rows = q.rows /\ r.index = q.index
      /\ r.click = {} /\ r.acting = q.acting /\ r.shown = q.shown /\ r.revision = q.revision
    BY ONLY <1>1, <1>2 DEF QueueCard
<1>5. Drawn(r) = Drawn(q)
    BY <1>4 DEF Drawn
<1>6. Fits(r, Len(report), reportFaults)
    BY <1>1, <1>4, <1>5 DEF Fits
<1>7. Fits(r, Len(report'), reportFaults') /\ Len(report') = Len(report)
    BY <1>3, <1>6
<1>. QED  BY <1>3, <1>7, Grows, OneCard

\* What is accepted is a press on the current report.
LEMMA AcceptedIsCurrent ==
    ASSUME ReportShape, QueueShape, NEW h \in Queues, NEW c \in queue[h].click,
           Accepts(queue[h], c)
    PROVE  /\ queue[h] \in QueueCard /\ Fits(queue[h], Len(report), reportFaults)
           /\ queue[h].index \in DOMAIN queue[h].rows /\ queue[h].rows # <<>>
           /\ c.at.id = Drawn(queue[h]).id /\ Drawn(queue[h]).id \in 1..Len(report)
           /\ c \in QueueClick
<1>. DEFINE q == queue[h]
<1>1. q \in QueueCard /\ Fits(q, Len(report), reportFaults)
    BY DEF QueueShape
<1>2. c.at.id = Drawn(q).id /\ c.at.id # 0
    BY <1>1 DEF Accepts, Fits
<1>3. q.index \in DOMAIN q.rows
    BY <1>1, <1>2, DrawnOf
<1>4. Drawn(q).id \in 1..Len(report)
    BY <1>1, <1>3, DrawnOf DEF Fits
<1>5. q.rows # <<>>
    BY <1>3, EmptySeq, LenProperties
<1>6. c \in QueueClick
    BY <1>1, CardParts
<1>. QED  BY <1>1, <1>2, <1>3, <1>4, <1>5, <1>6

\* previous and next stay within the list.
LEMMA TurnFits ==
    ASSUME ReportShape, QueueShape, NEW h \in Queues, TurnQueue(h)
    PROVE  QueueShape'
<1>. DEFINE q == queue[h]
<1>1. PICK c \in q.click : /\ Accepts(q, c)
                           /\ \/ SetQueue(h, Refreshed([q EXCEPT !.pc = "turning", !.click = {},
                                                                 !.index = Clamped(@ - 1, q)]))
                              \/ SetQueue(h, Refreshed([q EXCEPT !.pc = "turning", !.click = {},
                                                                 !.index = Clamped(@ + 1, q)]))
    BY DEF TurnQueue
<1>2. UNCHANGED <<report, reportFaults>>
    BY DEF TurnQueue
<1>3. /\ q \in QueueCard /\ Fits(q, Len(report), reportFaults) /\ q.rows # <<>> /\ q.index \in Nat
    BY <1>1, AcceptedIsCurrent, CardParts
<1>. HIDE DEF q
<1>4. PICK i \in Nat : /\ i \in DOMAIN q.rows
                       /\ SetQueue(h, Refreshed([q EXCEPT !.pc = "turning", !.click = {}, !.index = i]))
  <2>1. CASE SetQueue(h, Refreshed([q EXCEPT !.pc = "turning", !.click = {},
                                             !.index = Clamped(@ - 1, q)]))
    <3>0. q.index - 1 \in Int
        BY <1>3
    <3>1. Clamped(q.index - 1, q) \in DOMAIN q.rows /\ Clamped(q.index - 1, q) \in Nat
        BY <1>3, <3>0, ClampedIn
    <3>. QED  BY <2>1, <3>1
  <2>2. CASE SetQueue(h, Refreshed([q EXCEPT !.pc = "turning", !.click = {},
                                             !.index = Clamped(@ + 1, q)]))
    <3>0. q.index + 1 \in Int
        BY <1>3
    <3>1. Clamped(q.index + 1, q) \in DOMAIN q.rows /\ Clamped(q.index + 1, q) \in Nat
        BY <1>3, <3>0, ClampedIn
    <3>. QED  BY <2>2, <3>1
  <2>. QED  BY <1>1, <2>1, <2>2
<1>5. PICK p : p = [q EXCEPT !.pc = "turning", !.click = {}, !.index = i]
    OBVIOUS
<1>6. PICK r : r = [p EXCEPT !.revision = p.revision + 1]
    OBVIOUS
<1>7. SetQueue(h, r)
    BY <1>4, <1>5, <1>6 DEF Refreshed
<1>8. /\ p \in QueueCard /\ p.pc = "turning" /\ p.rows = q.rows /\ p.index = i
      /\ p.click = {} /\ p.acting = q.acting /\ p.shown = q.shown
  <2>1. "turning" \in QueuePCs
      BY DEF QueuePCs
  <2>. QED  BY ONLY <1>3, <1>4, <1>5, <2>1 DEF QueueCard
<1>9. /\ r \in QueueCard /\ r.pc = p.pc /\ r.rows = p.rows /\ r.index = p.index
      /\ r.click = p.click /\ r.acting = p.acting /\ r.shown = p.shown
  <2>1. p.revision + 1 \in Nat
      BY <1>8, CardParts
  <2>. QED  BY ONLY <1>6, <1>8, <2>1 DEF QueueCard
<1>10. Fits(r, Len(report), reportFaults)
  <2>1. q.shown.id # 0
    <3>1. q.pc = "idle"
        BY <1>1 DEF Accepts
    <3>. QED  BY <1>3, <3>1 DEF Fits
  <2>. QED  BY <1>3, <1>4, <1>8, <1>9, <2>1 DEF Fits
<1>11. Fits(r, Len(report'), reportFaults') /\ Len(report') = Len(report)
    BY <1>2, <1>10
<1>. QED  BY <1>2, <1>7, <1>11, Grows, OneCard

\* What is worked on is the report that was pressed.
LEMMA TakeFits ==
    ASSUME ReportShape, QueueShape, NEW h \in Queues, TakeReport(h)
    PROVE  QueueShape'
<1>. DEFINE q == queue[h]
<1>1. PICK c \in q.click :
         /\ Accepts(q, c) /\ c.action \in Targets
         /\ SetQueue(h, Refreshed([q EXCEPT !.pc = "deferring", !.click = {},
                 !.acting = [id |-> Drawn(q).id, target |-> c.action, seen |-> c.at.id]]))
    BY DEF TakeReport
<1>2. UNCHANGED <<report, reportFaults>> /\ Len(report) \in Nat
    BY Grows DEF TakeReport
<1>3. /\ q \in QueueCard /\ Fits(q, Len(report), reportFaults)
      /\ q.index \in DOMAIN q.rows
      /\ c.at.id = Drawn(q).id /\ Drawn(q).id \in 1..Len(report)
    BY <1>1, AcceptedIsCurrent
<1>. HIDE DEF q
<1>4. PICK a : a = [id |-> Drawn(q).id, target |-> c.action, seen |-> c.at.id]
    OBVIOUS
<1>5. a \in QueueAction /\ a.id \in 1..Len(report) /\ a.id = a.seen /\ a.target \in Targets
  <2>1. Drawn(q).id \in Nat
      BY <1>2, <1>3
  <2>. QED  BY <1>1, <1>3, <1>4, <2>1 DEF QueueAction
<1>6. PICK p : p = [q EXCEPT !.pc = "deferring", !.click = {}, !.acting = a]
    OBVIOUS
<1>7. PICK r : r = [p EXCEPT !.revision = p.revision + 1]
    OBVIOUS
<1>8. SetQueue(h, r)
    BY <1>1, <1>4, <1>6, <1>7 DEF Refreshed
<1>9. /\ p \in QueueCard /\ p.pc = "deferring" /\ p.rows = q.rows /\ p.index = q.index
      /\ p.click = {} /\ p.acting = a /\ p.shown = q.shown
  <2>1. "deferring" \in QueuePCs
      BY DEF QueuePCs
  <2>. QED  BY ONLY <1>3, <1>5, <1>6, <2>1 DEF QueueCard
<1>10. /\ r \in QueueCard /\ r.pc = p.pc /\ r.rows = p.rows /\ r.index = p.index
       /\ r.click = p.click /\ r.acting = p.acting /\ r.shown = p.shown
  <2>1. p.revision + 1 \in Nat
      BY <1>9, CardParts
  <2>. QED  BY ONLY <1>7, <1>9, <2>1 DEF QueueCard
<1>11. Fits(r, Len(report), reportFaults)
  <2>1. q.shown.id # 0
    <3>1. q.pc = "idle"
        BY <1>1 DEF Accepts
    <3>. QED  BY <1>3, <3>1 DEF Fits
  <2>. QED  BY <1>3, <1>5, <1>9, <1>10, <2>1 DEF Fits
<1>12. Fits(r, Len(report'), reportFaults') /\ Len(report') = Len(report)
    BY <1>2, <1>11
<1>. QED  BY <1>2, <1>8, <1>12, Grows, OneCard

\* The message is edited: it shows the current report.
LEMMA DrawFits ==
    ASSUME ReportShape, QueueShape, NEW h \in Queues, DrawQueue(h)
    PROVE  QueueShape'
<1>. DEFINE q == queue[h]
<1>1. /\ q \in QueueCard /\ Fits(q, Len(report), reportFaults) /\ q.index \in DOMAIN q.rows
    BY DEF QueueShape, Fits, DrawQueue
<1>2. UNCHANGED <<report, reportFaults>>
    BY DEF DrawQueue, NoReportFault
<1>3. PICK r : r = [q EXCEPT !.pc = "idle", !.shown = Drawn(q)]
    OBVIOUS
<1>4. SetQueue(h, r) \/ SetQueue(h, NoQueue)
    BY <1>3 DEF DrawQueue, Redrawn
<1>. HIDE DEF q
<1>5. Drawn(q) \in ShownCard /\ Drawn(q).id \in 1..Len(report)
    BY <1>1, DrawnOf DEF Fits
<1>6. /\ r \in QueueCard /\ r.pc = "idle" /\ r.rows = q.rows /\ r.index = q.index
      /\ r.click = q.click /\ r.acting = q.acting /\ r.shown = Drawn(q) /\ r.revision = q.revision
  <2>1. "idle" \in QueuePCs
      BY DEF QueuePCs
  <2>. QED  BY ONLY <1>1, <1>3, <1>5, <2>1 DEF QueueCard
<1>7. Drawn(r) = Drawn(q)
    BY <1>6 DEF Drawn
<1>8. Fits(r, Len(report), reportFaults)
    BY <1>1, <1>5, <1>6, <1>7 DEF Fits
<1>9. /\ Fits(r, Len(report'), reportFaults') /\ Fits(NoQueue, Len(report'), reportFaults')
      /\ Len(report') = Len(report)
    BY <1>2, <1>8, ClosedCard
<1>. QED  BY <1>2, <1>4, <1>9, Grows, OneCard

\* The timeout deletes a card; an action under way goes on as it was.
LEMMA ExpireFits ==
    ASSUME ReportShape, QueueShape, NEW h \in Queues, ExpireQueue(h)
    PROVE  QueueShape'
<1>. DEFINE q == queue[h]
<1>1. /\ q \in QueueCard /\ Fits(q, Len(report), reportFaults) /\ q.pc # "closed"
      /\ UNCHANGED <<report, reportFaults>>
    BY DEF QueueShape, Fits, ExpireQueue, Visible
<1>2. CASE q.pc = "idle"
  <2>1. SetQueue(h, NoQueue) /\ Fits(NoQueue, Len(report'), reportFaults')
      BY <1>2, ClosedCard DEF ExpireQueue
  <2>. QED  BY <1>1, <2>1, Grows, OneCard
<1>3. CASE q.pc # "idle"
  <2>1. PICK none : none = NoQueue.shown
      OBVIOUS
  <2>2. PICK r : r = [q EXCEPT !.click = {}, !.shown = none]
      OBVIOUS
  <2>3. SetQueue(h, r) /\ none \in ShownCard
      BY <1>3, <2>1, <2>2, ClosedCard DEF ExpireQueue
  <2>. HIDE DEF q
  <2>4. /\ r \in QueueCard /\ r.pc = q.pc /\ r.rows = q.rows /\ r.index = q.index
        /\ r.click = {} /\ r.acting = q.acting
      BY ONLY <1>1, <2>2, <2>3 DEF QueueCard
  <2>5. Fits(r, Len(report), reportFaults)
      BY <1>1, <1>3, <2>4 DEF Fits
  <2>6. Fits(r, Len(report'), reportFaults') /\ Len(report') = Len(report)
      BY <1>1, <2>5
  <2>. QED  BY <1>1, <2>3, <2>6, Grows, OneCard
<1>. QED  BY <1>2, <1>3

\* The conditional update of one report.
LEMMA TransitionChanges ==
    ASSUME ReportShape, NEW i \in DOMAIN report, NEW target \in Targets, NEW h \in Handlers,
           TransitionReport(i, target, h)
    PROVE  /\ report' \in Seq(Report) /\ Len(report') = Len(report)
           /\ DOMAIN report' = DOMAIN report
           /\ \A j \in DOMAIN report : /\ report'[j].form = report[j].form
                                       /\ j # i => report'[j] = report[j]
           /\ report[i].status \in Source(target) /\ report'[i].status = target
           /\ \A e \in edits' : e.id \in DOMAIN report' /\ e.status \in {"open"} \union Targets
<1>1. /\ report \in Seq(Report) /\ Len(report) \in Nat /\ DOMAIN report = 1..Len(report)
      /\ report[i] \in Report
    BY LenProperties, ElementOfSeq DEF ReportShape
<1>2. PICK r : r = [report[i] EXCEPT !.status = target, !.handler = h]
    OBVIOUS
<1>3. report' = [report EXCEPT ![i] = r] /\ report[i].status \in Source(target)
    BY <1>2 DEF TransitionReport
<1>4. r \in Report /\ r.status = target /\ r.form = report[i].form
    BY ONLY <1>1, <1>2 DEF Report, Targets
<1>5. /\ report' \in Seq(Report) /\ Len(report') = Len(report)
      /\ report'[i] = r /\ \A j \in 1..Len(report) : j # i => report'[j] = report[j]
    BY <1>1, <1>3, <1>4, ExceptSeq
<1>6. DOMAIN report' = DOMAIN report
    BY <1>1, <1>5, LenProperties
<1>7. \A e \in edits' : e.id \in DOMAIN report' /\ e.status \in {"open"} \union Targets
    BY <1>6 DEF TransitionReport, ReportShape
<1>8. \A j \in DOMAIN report : /\ report'[j].form = report[j].form
                               /\ j # i => report'[j] = report[j]
    BY <1>1, <1>4, <1>5
<1>. QED  BY <1>3, <1>4, <1>5, <1>6, <1>7, <1>8

\* A card whose report has left it, with nothing else touched.
LEMMA DroppedCard ==
    ASSUME NEW q \in QueueCard, NEW n, \A j \in DOMAIN q.rows : q.rows[j].id \in 1..n
    PROVE  /\ Dropped(q) \in QueueCard /\ Dropped(q).pc = "told"
           /\ Dropped(q).index = q.index /\ Dropped(q).revision = q.revision
           /\ Dropped(q).shown = q.shown /\ Dropped(q).click = q.click
           /\ Dropped(q).acting = q.acting
           /\ \A j \in DOMAIN Dropped(q).rows : Dropped(q).rows[j].id \in 1..n
<1>1. PICK rows : rows = Without(q.rows, q.acting.id)
    OBVIOUS
<1>2. /\ rows \in Seq(QueueRow) /\ \A k \in DOMAIN rows : \E j \in DOMAIN q.rows : rows[k] = q.rows[j]
    BY <1>1, WithoutTyped, CardParts
<1>3. PICK r : r = [q EXCEPT !.rows = rows, !.pc = "told"]
    OBVIOUS
<1>4. r = Dropped(q)
    BY <1>1, <1>3 DEF Dropped
<1>5. /\ r \in QueueCard /\ r.pc = "told" /\ r.rows = rows /\ r.index = q.index
      /\ r.revision = q.revision /\ r.shown = q.shown /\ r.click = q.click /\ r.acting = q.acting
  <2>1. "told" \in QueuePCs
      BY DEF QueuePCs
  <2>. QED  BY ONLY <1>2, <1>3, <2>1 DEF QueueCard
<1>. QED  BY <1>2, <1>4, <1>5

\* The update of the report that was taken; one that another has taken or closed is refused.
LEMMA UpdateFits ==
    ASSUME ReportShape, QueueShape, NEW h \in Queues, UpdateReport(h)
    PROVE  /\ QueueShape'
           /\ queue[h].acting.id \in DOMAIN report /\ queue[h].acting.target \in Targets
<1>. DEFINE q == queue[h]
<1>1. /\ q \in QueueCard /\ Fits(q, Len(report), reportFaults) /\ q.pc = "deferring"
      /\ q.index \in DOMAIN q.rows
      /\ q.acting.id \in 1..Len(report) /\ q.acting.target \in Targets
    BY DEF QueueShape, Fits, UpdateReport
<1>2. q.acting.id \in DOMAIN report /\ Len(report) \in Nat
    BY <1>1, Grows
<1>3. /\ UNCHANGED reportFaults /\ Len(report') = Len(report)
      /\ \E pc \in {"ticket", "refused"} : SetQueue(h, [q EXCEPT !.pc = pc])
  <2>1. CASE TransitionReport(q.acting.id, q.acting.target, h) /\ SetQueue(h, [q EXCEPT !.pc = "ticket"])
    <3>1. h \in Handlers
        BY ReportsAssumption DEF ReportsAssumption
    <3>2. Len(report') = Len(report)
        BY <1>1, <1>2, <2>1, <3>1, TransitionChanges
    <3>. QED  BY <2>1, <3>2 DEF UpdateReport, NoReportFault
  <2>2. CASE SetQueue(h, [q EXCEPT !.pc = "refused"]) /\ UNCHANGED report
      BY <2>2 DEF UpdateReport, NoReportFault
  <2>. QED  BY <2>1, <2>2 DEF UpdateReport
<1>4. PICK pc \in {"ticket", "refused"} : SetQueue(h, [q EXCEPT !.pc = pc])
    BY <1>3
<1>5. PICK r : r = [q EXCEPT !.pc = pc]
    OBVIOUS
<1>6. SetQueue(h, r)
    BY <1>4, <1>5
<1>. HIDE DEF q
<1>7. /\ r \in QueueCard /\ r.pc = pc /\ r.rows = q.rows /\ r.index = q.index
      /\ r.click = q.click /\ r.acting = q.acting /\ r.shown = q.shown
  <2>1. pc \in QueuePCs
      BY DEF QueuePCs
  <2>. QED  BY ONLY <1>1, <1>5, <2>1 DEF QueueCard
<1>8. Fits(r, Len(report), reportFaults)
    BY <1>1, <1>7 DEF Fits
<1>9. Fits(r, Len(report'), reportFaults')
    BY <1>3, <1>8
<1>10. QueueShape'
    BY <1>2, <1>3, <1>6, <1>9, Grows, OneCard
<1>. QED  BY <1>1, <1>2, <1>10 DEF q

\* The edit of the ticket is over: a claimed report has its new row, a closed one leaves.
LEMMA TicketFits ==
    ASSUME ReportShape, QueueShape, NEW h \in Queues, TicketEdited(h)
    PROVE  QueueShape'
<1>. DEFINE q == queue[h]
<1>1. /\ q \in QueueCard /\ Fits(q, Len(report), reportFaults) /\ q.pc = "ticket"
      /\ q.acting.id \in 1..Len(report)
    BY DEF QueueShape, Fits, TicketEdited
<1>2. UNCHANGED <<report, reportFaults>> /\ Len(report) \in Nat
    BY Grows DEF TicketEdited
<1>3. SetQueue(h, ClaimedBy(q)) \/ SetQueue(h, Dropped(q))
    BY DEF TicketEdited
<1>. HIDE DEF q
<1>4. \A j \in DOMAIN q.rows : q.rows[j].id \in 1..Len(report)
    BY <1>1 DEF Fits
<1>5. CASE SetQueue(h, Dropped(q))
  <2>1. Fits(Dropped(q), Len(report), reportFaults)
      BY <1>1, <1>4, DroppedCard DEF Fits
  <2>2. Fits(Dropped(q), Len(report'), reportFaults') /\ Len(report') = Len(report)
      BY <1>2, <2>1
  <2>. QED  BY <1>2, <1>5, <2>2, Grows, OneCard
<1>6. CASE SetQueue(h, ClaimedBy(q))
  <2>1. PICK rows : rows = [j \in DOMAIN q.rows |-> IF q.rows[j].id = q.acting.id
                                  THEN [id |-> q.acting.id, status |-> "in_progress"] ELSE q.rows[j]]
      OBVIOUS
  <2>2. PICK r : r = [q EXCEPT !.pc = "told", !.rows = rows]
      OBVIOUS
  <2>3. r = ClaimedBy(q)
      BY <2>1, <2>2 DEF ClaimedBy
  <2>4. rows \in Seq(QueueRow) /\ \A j \in DOMAIN rows : rows[j].id \in 1..Len(report)
    <3>1. /\ Len(q.rows) \in Nat /\ DOMAIN q.rows = 1..Len(q.rows)
          /\ \A j \in 1..Len(q.rows) : q.rows[j] \in QueueRow
        BY <1>1, CardParts, ElementOfSeq
    <3>2. \A j \in 1..Len(q.rows) : rows[j] \in QueueRow /\ rows[j].id \in 1..Len(report)
        BY <1>1, <1>2, <1>4, <2>1, <3>1 DEF QueueRow, Pending
    <3>3. rows \in [1..Len(q.rows) -> QueueRow]
        BY <2>1, <3>1, <3>2
    <3>. QED  BY <3>1, <3>2, <3>3, SeqDef
  <2>5. /\ r \in QueueCard /\ r.pc = "told" /\ r.rows = rows /\ r.index = q.index
        /\ r.click = q.click /\ r.acting = q.acting /\ r.shown = q.shown
    <3>1. "told" \in QueuePCs
        BY DEF QueuePCs
    <3>. QED  BY ONLY <1>1, <2>2, <2>4, <3>1 DEF QueueCard
  <2>6. Fits(r, Len(report), reportFaults)
      BY <1>1, <2>4, <2>5 DEF Fits
  <2>7. Fits(r, Len(report'), reportFaults') /\ Len(report') = Len(report) /\ SetQueue(h, r)
      BY <1>2, <1>6, <2>3, <2>6
  <2>. QED  BY <1>2, <2>7, Grows, OneCard
<1>. QED  BY <1>3, <1>5, <1>6

\* The administrator is told: the card is closed, or is about to show a report it lists.
LEMMA FinishFits ==
    ASSUME ReportShape, QueueShape, NEW h \in Queues, FinishAction(h)
    PROVE  QueueShape'
<1>. DEFINE q == IF queue[h].pc = "refused" THEN Dropped(queue[h]) ELSE queue[h]
<1>1. /\ q \in QueueCard
      /\ \A j \in DOMAIN q.rows : q.rows[j].id \in 1..Len(report)
      /\ \A c \in q.click : c.at.id # 0
  <2>1. /\ queue[h] \in QueueCard /\ Fits(queue[h], Len(report), reportFaults)
      BY DEF QueueShape
  <2>2. /\ \A c \in queue[h].click : c.at.id # 0
        /\ \A j \in DOMAIN queue[h].rows : queue[h].rows[j].id \in 1..Len(report)
      BY <2>1 DEF Fits
  <2>. QED  BY <2>1, <2>2, DroppedCard
<1>2. UNCHANGED <<report, reportFaults>>
    BY DEF FinishAction, NoReportFault
<1>3. SetQueue(h, IF q.rows = <<>> \/ ~Visible(q) THEN NoQueue
                  ELSE Refreshed([q EXCEPT !.index = Clamped(@, q), !.pc = "redraw",
                                           !.acting = NoAction]))
    BY DEF FinishAction
<1>. HIDE DEF q
<1>4. CASE q.rows = <<>> \/ ~Visible(q)
  <2>1. SetQueue(h, NoQueue) /\ Fits(NoQueue, Len(report'), reportFaults')
      BY <1>3, <1>4, ClosedCard
  <2>. QED  BY <1>2, <2>1, Grows, OneCard
<1>5. CASE q.rows # <<>> /\ Visible(q)
  <2>1. PICK i : i = Clamped(q.index, q)
      OBVIOUS
  <2>2. i \in DOMAIN q.rows /\ i \in Nat
    <3>1. q.index \in Int
        BY <1>1, CardParts
    <3>. QED  BY <1>1, <1>5, <2>1, <3>1, ClampedIn
  <2>3. PICK p : p = [q EXCEPT !.index = i, !.pc = "redraw", !.acting = NoAction]
      OBVIOUS
  <2>4. PICK r : r = [p EXCEPT !.revision = p.revision + 1]
      OBVIOUS
  <2>5. SetQueue(h, r)
      BY <1>3, <1>5, <2>1, <2>3, <2>4 DEF Refreshed
  <2>6. /\ p \in QueueCard /\ p.pc = "redraw" /\ p.rows = q.rows /\ p.index = i
        /\ p.click = q.click /\ p.acting = NoAction /\ p.shown = q.shown
    <3>1. "redraw" \in QueuePCs /\ NoAction \in QueueAction
        BY ClosedCard DEF QueuePCs
    <3>. QED  BY ONLY <1>1, <2>2, <2>3, <3>1 DEF QueueCard
  <2>7. /\ r \in QueueCard /\ r.pc = p.pc /\ r.rows = p.rows /\ r.index = p.index
        /\ r.click = p.click /\ r.acting = p.acting /\ r.shown = p.shown
    <3>1. p.revision + 1 \in Nat
        BY <2>6, CardParts
    <3>. QED  BY ONLY <2>4, <2>6, <3>1 DEF QueueCard
  <2>8. Fits(r, Len(report), reportFaults)
      BY <1>1, <2>2, <2>6, <2>7, ClosedCard DEF Fits
  <2>9. Fits(r, Len(report'), reportFaults') /\ Len(report') = Len(report)
      BY <1>2, <2>8
  <2>. QED  BY <1>2, <2>5, <2>9, Grows, OneCard
<1>. QED  BY <1>4, <1>5

\* A call fails: the card may be left without a current report.
LEMMA FailFits ==
    ASSUME ReportShape, QueueShape, NEW h \in Queues, ActionFails(h)
    PROVE  QueueShape'
<1>. DEFINE q == queue[h]
<1>1. /\ q \in QueueCard /\ Fits(q, Len(report), reportFaults)
    BY DEF QueueShape
<1>2. UNCHANGED report /\ ReportFault
    BY DEF ActionFails
<1>3. PICK p : p = [q EXCEPT !.pc = "idle", !.acting = NoAction]
    OBVIOUS
<1>4. \/ SetQueue(h, NoQueue)
      \/ Visible(p) /\ \E r \in {p, [p EXCEPT !.revision = p.revision + 1]} : SetQueue(h, r)
  <2>1. SetQueue(h, NoQueue) \/ (Visible(p) /\ (SetQueue(h, p) \/ SetQueue(h, Refreshed(p))))
      BY <1>3 DEF ActionFails
  <2>. QED  BY <2>1 DEF Refreshed
<1>. HIDE DEF q
<1>5. /\ p \in QueueCard /\ p.pc = "idle" /\ p.rows = q.rows /\ p.index = q.index
      /\ p.click = q.click /\ p.acting = NoAction /\ p.shown = q.shown
  <2>1. "idle" \in QueuePCs /\ NoAction \in QueueAction
      BY ClosedCard DEF QueuePCs
  <2>. QED  BY ONLY <1>1, <1>3, <2>1 DEF QueueCard
<1>6. reportFaults' > 0 /\ reportFaults' \in Nat /\ reportFaults' # 0
    BY <1>2, Grows
<1>7. CASE SetQueue(h, NoQueue)
  <2>1. Fits(NoQueue, Len(report'), reportFaults')
      BY ClosedCard
  <2>. QED  BY <1>2, <1>7, <2>1, Grows, OneCard
<1>8. ASSUME Visible(p), NEW r \in {p, [p EXCEPT !.revision = p.revision + 1]}, SetQueue(h, r)
      PROVE  QueueShape'
  <2>1. /\ r \in QueueCard /\ r.pc = p.pc /\ r.rows = p.rows /\ r.index = p.index
        /\ r.click = p.click /\ r.acting = p.acting /\ r.shown = p.shown
    <3>1. CASE r = p
        BY <1>5, <3>1
    <3>2. CASE r = [p EXCEPT !.revision = p.revision + 1]
      <4>1. p.revision + 1 \in Nat
          BY <1>5, CardParts
      <4>. QED  BY ONLY <1>5, <3>2, <4>1 DEF QueueCard
    <3>. QED  BY <1>8, <3>1, <3>2
  <2>2. Fits(r, Len(report), reportFaults')
      BY <1>1, <1>5, <1>6, <1>8, <2>1, ClosedCard DEF Fits, Visible
  <2>3. Fits(r, Len(report'), reportFaults') /\ Len(report') = Len(report)
      BY <1>2, <2>2
  <2>. QED  BY <1>2, <1>8, <2>3, Grows, OneCard
<1>. QED  BY <1>4, <1>7, <1>8

\* A callback of a form goes on.
LEMMA CallChanges ==
    ASSUME ReportShape, NEW f \in Forms, NEW s \in Submits, NEW c \in SubmitCall,
           submit' = [submit EXCEPT ![f][s] = c]
    PROVE  /\ submit' \in [Forms -> [Submits -> SubmitCall]] /\ submit'[f][s] = c
           /\ \A z \in Submits : z # s => submit'[f][z] = submit[f][z]
           /\ \A g \in Forms : g # f => submit'[g] = submit[g]
<1>1. submit \in [Forms -> [Submits -> SubmitCall]] /\ submit[f] \in [Submits -> SubmitCall]
    BY DEF ReportShape
<1>2. PICK calls : calls = [submit[f] EXCEPT ![s] = c]
    OBVIOUS
<1>3. submit' = [submit EXCEPT ![f] = calls]
    BY <1>2, Zenon
<1>4. /\ calls \in [Submits -> SubmitCall] /\ calls[s] = c
      /\ \A z \in Submits : z # s => calls[z] = submit[f][z]
    BY <1>1, <1>2
<1>. QED  BY <1>1, <1>3, <1>4

\* A callback that is over.
LEMMA RestingCall ==
    ASSUME ReportShape, NEW f \in Forms
    PROVE  NoSubmit \in SubmitCall /\ NoSubmit.pc = "idle"
<1>1. submit[f][1].key \in Keys
    BY DEF ReportShape, Submits, SubmitCall
<1>2. (CHOOSE k \in Keys : TRUE) \in Keys
    BY <1>1
<1>. QED  BY <1>2 DEF NoSubmit, SubmitCall

\* A form changes, and no other.
LEMMA FormChanges ==
    ASSUME ReportShape, NEW f \in Forms, NEW r \in Form, SetForm(f, r)
    PROVE  /\ form' \in [Forms -> Form] /\ form'[f] = r
           /\ \A g \in Forms : g # f => form'[g] = form[g]
  BY DEF ReportShape, SetForm

\* A step of one form that adds no ticket: the form of a ticket is not that one.
LEMMA OneForm ==
    ASSUME ReportShape, ServerShape, NEW f \in Forms, UNCHANGED report,
           \A g \in Forms : g # f => form'[g] = form[g] /\ submit'[g] = submit[g],
           f \notin DirectForms => FormFits(form'[f], submit'[f]),
           form[f].live \/ form'[f] = form[f] \/ form[f].going \/ f \in DirectForms
    PROVE  ServerShape'
<1>1. \A g \in Forms \ DirectForms : FormFits(form'[g], submit'[g])
    BY DEF ServerShape
<1>2. ASSUME NEW i \in DOMAIN report, report[i].form \notin DirectForms
      PROVE  Kept(form'[report[i].form])
  <2>1. report[i].form \in Forms /\ Kept(form[report[i].form])
    <3>1. report[i] \in Report
        BY ElementOfSeq, LenProperties DEF ReportShape
    <3>. QED  BY <1>2, <3>1 DEF ServerShape, Report
  <2>2. report[i].form = f => form'[f] = form[f]
      BY <1>2, <2>1 DEF Kept
  <2>. QED  BY <2>1, <2>2
<1>. QED  BY <1>1, <1>2 DEF ServerShape

\* What the whole of the reports needs of a step that leaves the table and the queue.
LEMMA FormStep ==
    ASSUME ReportsIInv, UNCHANGED <<report, queue>>, edits' \subseteq edits,
           form' \in [Forms -> Form],
           submit' \in [Forms -> [Submits -> SubmitCall]], ServerShape',
           ReportFault \/ NoReportFault \/ UNCHANGED reportFaults
    PROVE  ReportsIInv'
<1>1. /\ reportFaults' \in 0..MaxReportFaults /\ reportFaults <= reportFaults'
      /\ reportFaults' \in Nat /\ Len(report) \in Nat
    BY Grows DEF ReportsIInv
<1>2. ReportShape'
    BY <1>1 DEF ReportsIInv, ReportShape
<1>3. QueueShape'
    BY <1>1, NoCard DEF ReportsIInv
<1>. QED  BY <1>2, <1>3 DEF ReportsIInv

\* submit_report takes the form of the server at once.
LEMMA BeginFits ==
    ASSUME ReportShape, ServerShape, UNCHANGED report, NEW f \in Forms, NEW s \in Submits,
           NEW k \in Keys, BeginSubmit(f, s, k)
    PROVE  /\ form' \in [Forms -> Form] /\ submit' \in [Forms -> [Submits -> SubmitCall]]
           /\ ServerShape'
<1>0. form[f].live /\ ~form[f].busy /\ form[f] \in Form /\ form \in [Forms -> Form]
    BY DEF BeginSubmit, MaySubmit, ReportShape
<1>1. CASE f \in DirectForms
  <2>1. PICK c : c = [pc |-> "scoping", key |-> k]
      OBVIOUS
  <2>2. c \in SubmitCall /\ UNCHANGED form /\ submit' = [submit EXCEPT ![f][s] = c]
      BY <1>1, <2>1 DEF BeginSubmit, SetSubmit, SubmitCall
  <2>3. /\ submit' \in [Forms -> [Submits -> SubmitCall]]
        /\ \A g \in Forms : g # f => submit'[g] = submit[g]
      BY <2>2, CallChanges
  <2>4. ServerShape'
      BY <1>1, <2>2, <2>3, OneForm
  <2>. QED  BY <1>0, <2>2, <2>3, <2>4
<1>2. CASE f \notin DirectForms
  <2>1. PICK c, r : c = [pc |-> "saving", key |-> k] /\ r = [form[f] EXCEPT !.busy = TRUE]
      OBVIOUS
  <2>2. c \in SubmitCall /\ c.pc = "saving" /\ SetForm(f, r) /\ submit' = [submit EXCEPT ![f][s] = c]
      BY <1>2, <2>1 DEF BeginSubmit, SetSubmit, SubmitCall
  <2>3. r \in Form /\ r.live = form[f].live /\ r.going = form[f].going
        /\ r.shows = form[f].shows /\ r.busy = TRUE
      BY ONLY <1>0, <2>1 DEF Form
  <2>4. /\ submit' \in [Forms -> [Submits -> SubmitCall]] /\ submit'[f][s] = c
        /\ \A z \in Submits : z # s => submit'[f][z] = submit[f][z]
        /\ \A g \in Forms : g # f => submit'[g] = submit[g]
      BY <2>2, CallChanges
  <2>5. /\ form' \in [Forms -> Form] /\ form'[f] = r
        /\ \A g \in Forms : g # f => form'[g] = form[g]
      BY <2>2, <2>3, FormChanges
  <2>6. FormFits(form'[f], submit'[f])
    <3>1. FormFits(form[f], submit[f])
        BY <1>2 DEF ServerShape
    <3>2. \A z \in Submits : submit[f][z].pc # "saving"
        BY <1>0, <3>1 DEF FormFits
    <3>. QED  BY <1>0, <2>2, <2>3, <2>4, <2>5, <3>1, <3>2 DEF FormFits
  <2>7. ServerShape'
      BY <1>0, <2>4, <2>5, <2>6, OneForm
  <2>. QED  BY <2>4, <2>5, <2>7
<1>. QED  BY <1>1, <1>2

\* A callback of a form that ends, or opens its dialog, and leaves the form.
LEMMA IdleCallFits ==
    ASSUME ReportShape, ServerShape, UNCHANGED <<report, form>>, NEW f \in Forms,
           NEW s \in Submits, NEW c \in SubmitCall, c.pc \in {"idle", "typing"},
           submit' = [submit EXCEPT ![f][s] = c]
    PROVE  submit' \in [Forms -> [Submits -> SubmitCall]] /\ ServerShape'
<1>1. /\ submit' \in [Forms -> [Submits -> SubmitCall]] /\ submit'[f][s] = c
      /\ \A z \in Submits : z # s => submit'[f][z] = submit[f][z]
      /\ \A g \in Forms : g # f => submit'[g] = submit[g]
    BY CallChanges
<1>2. ASSUME f \notin DirectForms  PROVE FormFits(form'[f], submit'[f])
  <2>1. FormFits(form[f], submit[f])
      BY <1>2 DEF ServerShape
  <2>2. \A z \in Submits : submit'[f][z].pc = "saving" => z # s /\ submit[f][z].pc = "saving"
      BY <1>1
  <2>3. \A z \in Submits : submit'[f][z].pc # "scoping"
      BY <1>1, <2>1 DEF FormFits
  <2>. QED  BY <2>1, <2>2, <2>3 DEF FormFits
<1>3. ServerShape'
    BY <1>1, <1>2, OneForm
<1>. QED  BY <1>1, <1>3

\* A category is chosen, or the dialog of one is opened.
LEMMA ChooseKeeps ==
    ASSUME ReportsIInv, NEW f \in Forms, NEW s \in Submits, NEW k \in Keys,
           ChooseCategory(f, s, k)
    PROVE  ReportsIInv'
<1>0. ReportShape /\ ServerShape /\ form \in [Forms -> Form]
    BY DEF ReportsIInv, ReportShape
<1>1. UNCHANGED <<report, edits, queue, reportFaults>>
    BY DEF ChooseCategory
<1>2. CASE SetSubmit(f, s, "typing", k) /\ UNCHANGED form
  <2>1. PICK c : c = [pc |-> "typing", key |-> k]
      OBVIOUS
  <2>2. c \in SubmitCall /\ c.pc = "typing" /\ submit' = [submit EXCEPT ![f][s] = c]
      BY <1>2, <2>1 DEF SetSubmit, SubmitCall
  <2>3. submit' \in [Forms -> [Submits -> SubmitCall]] /\ ServerShape'
      BY <1>0, <1>1, <1>2, <2>2, IdleCallFits
  <2>. QED  BY <1>0, <1>1, <1>2, <2>3, FormStep
<1>3. CASE BeginSubmit(f, s, k)
  <2>1. /\ form' \in [Forms -> Form] /\ submit' \in [Forms -> [Submits -> SubmitCall]]
        /\ ServerShape'
      BY <1>0, <1>1, <1>3, BeginFits
  <2>. QED  BY <1>1, <2>1, FormStep
<1>. QED  BY <1>2, <1>3 DEF ChooseCategory

\* The dialog is sent, in time or too late.
LEMMA SendKeepsForms ==
    ASSUME ReportsIInv, NEW f \in Forms, NEW s \in Submits, SendDetails(f, s)
    PROVE  ReportsIInv'
<1>0. ReportShape /\ ServerShape /\ form \in [Forms -> Form] /\ submit[f][s].key \in Keys
    BY DEF ReportsIInv, ReportShape, SubmitCall
<1>1. UNCHANGED <<report, edits, queue, reportFaults>>
    BY DEF SendDetails
<1>2. CASE EndSubmit(f, s) /\ UNCHANGED form
  <2>1. NoSubmit \in SubmitCall /\ NoSubmit.pc = "idle" /\ submit' = [submit EXCEPT ![f][s] = NoSubmit]
      BY <1>0, <1>2, RestingCall DEF EndSubmit
  <2>2. submit' \in [Forms -> [Submits -> SubmitCall]] /\ ServerShape'
      BY <1>0, <1>1, <1>2, <2>1, IdleCallFits
  <2>. QED  BY <1>0, <1>1, <1>2, <2>2, FormStep
<1>3. CASE BeginSubmit(f, s, submit[f][s].key)
  <2>1. /\ form' \in [Forms -> Form] /\ submit' \in [Forms -> [Submits -> SubmitCall]]
        /\ ServerShape'
      BY <1>0, <1>1, <1>3, BeginFits
  <2>. QED  BY <1>1, <2>1, FormStep
<1>. QED  BY <1>2, <1>3 DEF SendDetails

\* Only a form of a direct message waits for the reporter's server.
LEMMA ScopeKeeps ==
    ASSUME ReportsIInv, NEW f \in Forms, NEW s \in Submits, ScopeSubmit(f, s)
    PROVE  ReportsIInv'
<1>0. ReportShape /\ ServerShape /\ form[f] \in Form /\ submit[f][s].key \in Keys
    BY DEF ReportsIInv, ReportShape, SubmitCall
<1>1. UNCHANGED <<report, edits, queue>> /\ (ReportFault \/ NoReportFault)
    BY DEF ScopeSubmit
<1>2. f \in DirectForms
    BY <1>0 DEF ScopeSubmit, ServerShape, FormFits
<1>3. PICK c \in SubmitCall : submit' = [submit EXCEPT ![f][s] = c]
  <2>1. CASE SetSubmit(f, s, "saving", submit[f][s].key)
    <3>1. PICK c : c = [pc |-> "saving", key |-> submit[f][s].key]
        OBVIOUS
    <3>2. c \in SubmitCall
        BY <1>0, <3>1 DEF SubmitCall
    <3>3. submit' = [submit EXCEPT ![f][s] = c]
        BY <2>1, <3>1 DEF SetSubmit
    <3>. QED  BY <3>2, <3>3
  <2>2. CASE EndSubmit(f, s)
      BY <1>0, <2>2, RestingCall DEF EndSubmit
  <2>. QED  BY <2>1, <2>2 DEF ScopeSubmit
<1>4. PICK r : (r = [form[f] EXCEPT !.busy = TRUE] \/ r = form[f]) /\ (SetForm(f, r) \/ UNCHANGED form)
  <2>1. SetForm(f, [form[f] EXCEPT !.busy = TRUE]) \/ UNCHANGED form
      BY DEF ScopeSubmit
  <2>. QED  BY <2>1
<1>5. r \in Form
    BY ONLY <1>0, <1>4 DEF Form
<1>6. form' \in [Forms -> Form] /\ \A g \in Forms : g # f => form'[g] = form[g]
  <2>1. CASE SetForm(f, r)
      BY <1>0, <1>5, <2>1, FormChanges
  <2>2. CASE UNCHANGED form
      BY <1>0, <2>2 DEF ReportShape
  <2>. QED  BY <1>4, <2>1, <2>2
<1>7. /\ submit' \in [Forms -> [Submits -> SubmitCall]]
      /\ \A g \in Forms : g # f => submit'[g] = submit[g]
    BY <1>0, <1>3, CallChanges
<1>8. ServerShape'
    BY <1>0, <1>1, <1>2, <1>6, <1>7, OneForm
<1>. QED  BY <1>1, <1>6, <1>7, <1>8, FormStep

\* Cancel and the timeout find a form nobody is saving.
LEMMA CloseKeeps ==
    ASSUME ReportsIInv, NEW f \in Forms, CloseForm(f)
    PROVE  ReportsIInv'
<1>0. /\ ReportShape /\ ServerShape /\ form[f] \in Form /\ form[f].live /\ ~form[f].busy
      /\ submit \in [Forms -> [Submits -> SubmitCall]]
    BY DEF ReportsIInv, ReportShape, CloseForm, MaySubmit
<1>1. UNCHANGED <<report, submit, edits, queue, reportFaults>>
    BY DEF CloseForm
<1>2. PICK b \in BOOLEAN : SetForm(f, [form[f] EXCEPT !.live = FALSE, !.busy = b, !.going = TRUE])
    BY DEF CloseForm
<1>3. PICK r : r = [form[f] EXCEPT !.live = FALSE, !.busy = b, !.going = TRUE]
    OBVIOUS
<1>4. r \in Form /\ r.live = FALSE
    BY ONLY <1>0, <1>3 DEF Form
<1>5. /\ form' \in [Forms -> Form] /\ form'[f] = r
      /\ \A g \in Forms : g # f => form'[g] = form[g]
    BY <1>0, <1>2, <1>3, <1>4, FormChanges
<1>6. ASSUME f \notin DirectForms  PROVE FormFits(form'[f], submit[f])
  <2>1. FormFits(form[f], submit[f])
      BY <1>0, <1>6 DEF ServerShape
  <2>2. \A z \in Submits : submit[f][z].pc # "saving"
      BY <1>0, <2>1 DEF FormFits
  <2>. QED  BY <1>4, <1>5, <2>1, <2>2 DEF FormFits
<1>7. ServerShape'
    BY <1>0, <1>1, <1>5, <1>6, OneForm
<1>. QED  BY <1>0, <1>1, <1>5, <1>7, FormStep

\* The card of a form nobody submitted is deleted.
LEMMA GoneKeeps ==
    ASSUME ReportsIInv, NEW f \in Forms, FormGone(f)
    PROVE  ReportsIInv'
<1>0. /\ ReportShape /\ ServerShape /\ form[f] \in Form /\ form[f].going
      /\ submit \in [Forms -> [Submits -> SubmitCall]]
    BY DEF ReportsIInv, ReportShape, FormGone
<1>1. UNCHANGED <<report, submit, edits, queue, reportFaults>>
    BY DEF FormGone
<1>2. PICK r : r = [form[f] EXCEPT !.going = FALSE, !.shows = "gone"]
    OBVIOUS
<1>3. r \in Form /\ r.live = form[f].live
    BY ONLY <1>0, <1>2 DEF Form
<1>4. /\ form' \in [Forms -> Form] /\ form'[f] = r
      /\ \A g \in Forms : g # f => form'[g] = form[g]
    BY <1>0, <1>2, <1>3, FormChanges DEF FormGone
<1>5. ASSUME f \notin DirectForms  PROVE FormFits(form'[f], submit[f])
  <2>1. FormFits(form[f], submit[f])
      BY <1>0, <1>5 DEF ServerShape
  <2>. QED  BY <1>0, <1>3, <1>4, <2>1 DEF FormFits
<1>6. ServerShape'
    BY <1>0, <1>1, <1>4, <1>5, OneForm
<1>. QED  BY <1>0, <1>1, <1>4, <1>6, FormStep

\* The row is written, and the form is a ticket; or there is one already, or it failed.
LEMMA SaveKeeps ==
    ASSUME ReportsIInv, NEW f \in Forms, NEW s \in Submits, SaveReport(f, s)
    PROVE  ReportsIInv'
<1>. DEFINE k == submit[f][s].key
            new == [key |-> k, form |-> f, status |-> "open", handler |-> Nobody]
<1>0. /\ ReportShape /\ ServerShape /\ QueueShape /\ form[f] \in Form /\ k \in Keys
      /\ submit[f][s].pc = "saving" /\ report \in Seq(Report)
    BY DEF ReportsIInv, ReportShape, SubmitCall, SaveReport
<1>1. UNCHANGED queue /\ (ReportFault \/ NoReportFault)
    BY DEF SaveReport
<1>2. NoSubmit \in SubmitCall /\ NoSubmit.pc = "idle" /\ submit' = [submit EXCEPT ![f][s] = NoSubmit]
    BY <1>0, RestingCall DEF SaveReport, EndSubmit
<1>3. /\ submit' \in [Forms -> [Submits -> SubmitCall]] /\ submit'[f][s] = NoSubmit
      /\ \A z \in Submits : z # s => submit'[f][z] = submit[f][z]
      /\ \A g \in Forms : g # f => submit'[g] = submit[g]
    BY <1>0, <1>2, CallChanges
<1>4. ASSUME f \notin DirectForms
      PROVE  /\ form[f].live /\ ~form[f].going /\ form[f].shows # "gone"
             /\ \A z \in Submits : submit'[f][z].pc \notin {"saving", "scoping"}
  <2>1. FormFits(form[f], submit[f])
      BY <1>0, <1>4 DEF ServerShape
  <2>2. /\ form[f].live /\ ~form[f].going /\ form[f].shows # "gone"
        /\ \A z \in Submits : z # s => submit[f][z].pc \notin {"saving", "scoping"}
      BY <1>0, <2>1 DEF FormFits
  <2>. QED  BY <1>2, <1>3, <2>2
<1>5. CASE /\ report' = Append(report, new) /\ NoReportFault
           /\ edits' = edits \union {[id |-> Len(report'), status |-> "open"]}
           /\ SetForm(f, [form[f] EXCEPT !.live = FALSE])
  <2>1. PICK r : r = [form[f] EXCEPT !.live = FALSE]
      OBVIOUS
  <2>2. /\ r \in Form /\ r.live = FALSE /\ r.going = form[f].going /\ r.shows = form[f].shows
      BY ONLY <1>0, <2>1 DEF Form
  <2>3. /\ form' \in [Forms -> Form] /\ form'[f] = r
        /\ \A g \in Forms : g # f => form'[g] = form[g]
      BY <1>0, <1>5, <2>1, <2>2, FormChanges
  <2>4. PICK n : n = new
      OBVIOUS
  <2>5. n \in Report /\ n.form = f
      BY <1>0, <2>4 DEF Report
  <2>6. /\ report' \in Seq(Report) /\ Len(report') = Len(report) + 1
        /\ Len(report) \in Nat /\ DOMAIN report = 1..Len(report)
        /\ DOMAIN report' = 1..Len(report')
        /\ \A i \in 1..Len(report) : report'[i] = report[i]
        /\ report'[Len(report) + 1] = n
      BY <1>0, <1>5, <2>4, <2>5, AppendProperties, LenProperties
  <2>7. \A e \in edits' : e.id \in DOMAIN report' /\ e.status \in {"open"} \union Targets
    <3>1. DOMAIN report \subseteq DOMAIN report' /\ Len(report') \in DOMAIN report'
        BY <2>6
    <3>. QED  BY <1>0, <1>5, <3>1 DEF ReportShape
  <2>8. /\ reportFaults' \in 0..MaxReportFaults /\ reportFaults <= reportFaults' /\ reportFaults' \in Nat
      BY <1>0, <1>5, Grows
  <2>9. ReportShape'
      BY <1>3, <2>3, <2>6, <2>7, <2>8 DEF ReportShape
  <2>10. QueueShape'
      BY <1>0, <1>1, <2>6, <2>8, NoCard
  <2>11. ASSUME NEW g \in Forms \ DirectForms  PROVE FormFits(form'[g], submit'[g])
    <3>1. CASE g = f
        BY <1>4, <2>2, <2>3, <3>1 DEF FormFits
    <3>2. CASE g # f
        BY <1>0, <1>3, <2>3, <3>2 DEF ServerShape
    <3>. QED  BY <3>1, <3>2
  <2>12. ASSUME NEW i \in DOMAIN report', report'[i].form \notin DirectForms
         PROVE  Kept(form'[report'[i].form])
    <3>1. CASE i = Len(report) + 1
        BY <1>4, <2>2, <2>3, <2>5, <2>6, <2>12, <3>1 DEF Kept
    <3>2. CASE i # Len(report) + 1
      <4>1. i \in DOMAIN report /\ report'[i] = report[i]
          BY <2>6, <3>2
      <4>2. Kept(form[report[i].form]) /\ report[i].form \in Forms
        <5>1. report[i] \in Report
            BY <1>0, <4>1, <2>6, ElementOfSeq
        <5>. QED  BY <1>0, <2>12, <4>1, <5>1 DEF ServerShape, Report
      <4>3. report[i].form # f
          BY <1>4, <2>12, <4>1, <4>2 DEF Kept
      <4>. QED  BY <2>3, <4>1, <4>2, <4>3
    <3>. QED  BY <3>1, <3>2
  <2>13. ServerShape'
      BY <2>11, <2>12 DEF ServerShape
  <2>. QED  BY <2>9, <2>10, <2>13 DEF ReportsIInv
<1>6. CASE UNCHANGED <<report, edits>> /\ \E r \in Form : SetForm(f, r)
                                          /\ (r.live => r.going = form[f].going /\ r.shows = form[f].shows)
  <2>1. PICK r \in Form : SetForm(f, r) /\ (r.live => r.going = form[f].going /\ r.shows = form[f].shows)
      BY <1>6
  <2>2. /\ form' \in [Forms -> Form] /\ form'[f] = r
        /\ \A g \in Forms : g # f => form'[g] = form[g]
      BY <1>0, <2>1, FormChanges
  <2>3. f \notin DirectForms => FormFits(form'[f], submit'[f])
      BY <1>4, <2>1, <2>2 DEF FormFits
  <2>4. ServerShape'
      BY <1>0, <1>3, <1>4, <1>6, <2>2, <2>3, OneForm
  <2>. QED  BY <1>1, <1>3, <1>6, <2>2, <2>4, FormStep
<1>7. CASE SetForm(f, [form[f] EXCEPT !.live = FALSE, !.going = TRUE]) /\ UNCHANGED <<report, edits>>
  <2>1. PICK r : r = [form[f] EXCEPT !.live = FALSE, !.going = TRUE]
      OBVIOUS
  <2>2. r \in Form /\ r.live = FALSE
      BY ONLY <1>0, <2>1 DEF Form
  <2>. QED  BY <1>6, <1>7, <2>1, <2>2
<1>8. CASE (\E taken \in BOOLEAN : SetForm(f, [form[f] EXCEPT !.busy = taken])) /\ UNCHANGED <<report, edits>>
  <2>1. PICK taken \in BOOLEAN : SetForm(f, [form[f] EXCEPT !.busy = taken])
      BY <1>8
  <2>2. PICK r : r = [form[f] EXCEPT !.busy = taken]
      OBVIOUS
  <2>3. r \in Form /\ r.going = form[f].going /\ r.shows = form[f].shows
      BY ONLY <1>0, <2>2 DEF Form
  <2>. QED  BY <1>6, <1>8, <2>1, <2>2, <2>3
<1>. QED  BY <1>5, <1>7, <1>8 DEF SaveReport

\* The ticket of a report is edited on its card, which is not gone.
LEMMA TicketKeeps ==
    ASSUME ReportsIInv, NEW e \in edits, EditTicket(e)
    PROVE  ReportsIInv'
<1>. DEFINE f == report[e.id].form
<1>0. /\ ReportShape /\ ServerShape /\ submit \in [Forms -> [Submits -> SubmitCall]]
      /\ form \in [Forms -> Form] /\ e.status \in {"open"} \union Targets
      /\ e.id \in DOMAIN report
    BY DEF ReportsIInv, ReportShape
<1>1. /\ UNCHANGED <<report, submit, queue>> /\ edits' \subseteq edits
      /\ ReportFault \/ NoReportFault
    BY DEF EditTicket
<1>2. f \in Forms
  <2>1. report[e.id] \in Report
      BY <1>0, ElementOfSeq, LenProperties DEF ReportShape
  <2>. QED  BY <2>1 DEF Report
<1>3. CASE UNCHANGED form
  <2>1. ServerShape'
      BY <1>0, <1>1, <1>3 DEF ServerShape
  <2>. QED  BY <1>0, <1>1, <1>3, <2>1, FormStep
<1>4. CASE SetForm(f, [form[f] EXCEPT !.shows = e.status])
  <2>1. PICK r : r = [form[f] EXCEPT !.shows = e.status]
      OBVIOUS
  <2>. HIDE DEF f
  <2>2. form[f] \in Form
      BY <1>0, <1>2
  <2>3. r \in Form /\ r.live = form[f].live /\ r.going = form[f].going /\ r.busy = form[f].busy
        /\ r.shows # "gone"
    <3>1. /\ r \in Form /\ r.live = form[f].live /\ r.going = form[f].going /\ r.busy = form[f].busy
          /\ r.shows = e.status
        BY ONLY <1>0, <2>1, <2>2 DEF Form
    <3>. QED  BY <1>0, <3>1 DEF Targets
  <2>4. /\ form' \in [Forms -> Form] /\ form'[f] = r
        /\ \A g \in Forms : g # f => form'[g] = form[g]
      BY <1>0, <1>2, <1>4, <2>1, <2>3, FormChanges
  <2>5. \A g \in Forms \ DirectForms : FormFits(form'[g], submit[g])
    <3>. TAKE g \in Forms \ DirectForms
    <3>1. FormFits(form[g], submit[g])
        BY <1>0 DEF ServerShape
    <3>2. CASE g = f
        BY <2>3, <2>4, <3>1, <3>2 DEF FormFits
    <3>3. CASE g # f
        BY <2>4, <3>1, <3>3
    <3>. QED  BY <3>2, <3>3
  <2>6. ASSUME NEW i \in DOMAIN report, report[i].form \notin DirectForms
        PROVE  Kept(form'[report[i].form])
    <3>1. Kept(form[report[i].form]) /\ report[i].form \in Forms
      <4>1. report[i] \in Report
          BY <1>0, ElementOfSeq, LenProperties DEF ReportShape
      <4>. QED  BY <1>0, <2>6, <4>1 DEF ServerShape, Report
    <3>2. CASE report[i].form = f
        BY <2>3, <2>4, <3>1, <3>2 DEF Kept
    <3>3. CASE report[i].form # f
        BY <2>4, <3>1, <3>3
    <3>. QED  BY <3>2, <3>3
  <2>7. ServerShape'
      BY <1>1, <2>5, <2>6 DEF ServerShape
  <2>. QED  BY <1>0, <1>1, <2>4, <2>7, FormStep
<1>. QED  BY <1>3, <1>4 DEF EditTicket

\* A transition, from the queue or by command, leaves every form.
LEMMA TransitionKeeps ==
    ASSUME ReportsIInv, NEW i \in DOMAIN report, NEW target \in Targets, NEW h \in Handlers,
           TransitionReport(i, target, h), UNCHANGED <<form, submit, reportFaults>>
    PROVE  ReportShape' /\ ServerShape'
<1>0. ReportShape /\ ServerShape
    BY DEF ReportsIInv
<1>1. /\ report' \in Seq(Report) /\ DOMAIN report' = DOMAIN report
      /\ \A j \in DOMAIN report : report'[j].form = report[j].form
      /\ \A e \in edits' : e.id \in DOMAIN report' /\ e.status \in {"open"} \union Targets
    BY <1>0, TransitionChanges
<1>2. ReportShape'
    BY <1>0, <1>1 DEF ReportShape
<1>3. ServerShape'
    BY <1>0, <1>1 DEF ServerShape
<1>. QED  BY <1>2, <1>3

\* Tickets that there are already have forms that are neither live nor on their way out.
LEMMA ReportsStart == ReportsInit => ReportsIInv
<1>. SUFFICES ASSUME ReportsInit PROVE ReportsIInv
    OBVIOUS
<1>1. PICK started \in SUBSET Forms, k \in [Forms -> Keys] :
        /\ report = [i \in DOMAIN SetToSeq(Forms \ started) |->
                        [key |-> k[SetToSeq(Forms \ started)[i]], form |-> SetToSeq(Forms \ started)[i],
                         status |-> "open", handler |-> Nobody]]
        /\ form = [f \in Forms |-> IF f \in started
                                   THEN [live |-> TRUE, busy |-> FALSE, going |-> FALSE, shows |-> "form"]
                                   ELSE [live |-> FALSE, busy |-> TRUE, going |-> FALSE, shows |-> "open"]]
        /\ submit = [f \in Forms |-> [s \in Submits |-> NoSubmit]]
        /\ edits = {}
        /\ queue = [h \in Queues |-> NoQueue]
        /\ reportFaults = 0
    BY DEF ReportsInit
<1>. DEFINE S == Forms \ started
            t == SetToSeq(S)
            n == Cardinality(S)
<1>2. n \in Nat /\ t \in [1..n -> S]
  <2>1. IsFiniteSet(S)
    <3>1. IsFiniteSet(Forms) /\ S \in SUBSET Forms
        BY ReportsAssumption DEF ReportsAssumption
    <3>. QED  BY <3>1, FS_Subset
  <2>2. n \in Nat /\ ExistsBijection(1..n, S)
      BY <2>1, FS_CardinalityType
  <2>3. \E f \in [1..n -> S] : IsInjective(f)
      BY <2>2 DEF ExistsBijection, Bijection, Injection
  <2>. QED  BY <2>2, <2>3 DEF SetToSeq
<1>. HIDE DEF t, n
<1>3. /\ DOMAIN report = 1..n /\ report \in [1..n -> Report]
      /\ \A i \in 1..n : report[i].form \in S
  <2>1. report = [i \in 1..n |-> [key |-> k[t[i]], form |-> t[i], status |-> "open", handler |-> Nobody]]
      BY <1>1, <1>2 DEF t
  <2>2. \A i \in 1..n : t[i] \in S /\ t[i] \in Forms /\ k[t[i]] \in Keys
      BY <1>2
  <2>3. \A i \in 1..n : [key |-> k[t[i]], form |-> t[i], status |-> "open", handler |-> Nobody] \in Report
      BY <2>2 DEF Report
  <2>. QED  BY <2>1, <2>2, <2>3
<1>4. report \in Seq(Report) /\ Len(report) \in Nat
    BY <1>2, <1>3, SeqDef, LenProperties
<1>5. \A f \in Forms : /\ form[f] \in Form /\ ~form[f].going /\ form[f].shows # "gone"
                       /\ f \in S => ~form[f].live
    BY <1>1 DEF Form
<1>6. submit \in [Forms -> [Submits -> SubmitCall]] /\ \A f \in Forms, s \in Submits : submit[f][s].pc = "idle"
  <2>1. ASSUME NEW f \in Forms  PROVE NoSubmit \in SubmitCall /\ NoSubmit.pc = "idle"
    <3>1. (CHOOSE x \in Keys : TRUE) \in Keys
      <4>1. k[f] \in Keys
          OBVIOUS
      <4>. QED  BY <4>1
    <3>. QED  BY <3>1 DEF NoSubmit, SubmitCall
  <2>. QED  BY <1>1, <2>1
<1>7. ReportShape
  <2>1. form \in [Forms -> Form]
    <3>1. form = [f \in Forms |-> form[f]]
        BY <1>1
    <3>. QED  BY <1>5, <3>1
  <2>2. MaxReportFaults \in Nat
      BY ReportsAssumption DEF ReportsAssumption
  <2>. QED  BY <1>1, <1>4, <1>6, <2>1, <2>2 DEF ReportShape
<1>8. ServerShape
    BY <1>3, <1>5, <1>6 DEF ServerShape, FormFits, Kept
<1>9. QueueShape
    BY <1>1, ClosedCard DEF QueueShape
<1>. QED  BY <1>7, <1>8, <1>9 DEF ReportsIInv

\* A step of one card that leaves the reports and their forms.
LEMMA QueueStep ==
    ASSUME ReportsIInv, UNCHANGED <<report, form, submit, edits>>, QueueShape',
           ReportFault \/ NoReportFault \/ UNCHANGED reportFaults
    PROVE  ReportsIInv'
<1>1. reportFaults' \in 0..MaxReportFaults
    BY Grows DEF ReportsIInv
<1>2. ReportShape' /\ ServerShape'
    BY <1>1 DEF ReportsIInv, ReportShape, ServerShape
<1>. QED  BY <1>2 DEF ReportsIInv

\* Whatever an administrator does on a queue card.
LEMMA QueueKeeps ==
    ASSUME ReportsIInv, NEW h \in Queues,
           \/ \E action \in Targets \union {"previous", "next"} : PressQueue(h, action)
           \/ OpenQueue(h) \/ RefuseClick(h) \/ TurnQueue(h) \/ TakeReport(h) \/ UpdateReport(h)
           \/ TicketEdited(h) \/ FinishAction(h) \/ DrawQueue(h) \/ ActionFails(h) \/ ExpireQueue(h)
    PROVE  ReportsIInv'
<1>0. ReportShape /\ ServerShape /\ QueueShape
    BY DEF ReportsIInv
<1>1. ASSUME NEW action \in Targets \union {"previous", "next"}, PressQueue(h, action)
      PROVE  ReportsIInv'
  <2>1. QueueShape'
      BY <1>0, <1>1, PressFits
  <2>. QED  BY <1>1, <2>1, QueueStep DEF PressQueue
<1>2. CASE OpenQueue(h)
  <2>1. QueueShape'
      BY <1>0, <1>2, OpenFits
  <2>. QED  BY <1>2, <2>1, QueueStep DEF OpenQueue
<1>3. CASE RefuseClick(h)
  <2>1. QueueShape'
      BY <1>0, <1>3, RefuseFits
  <2>. QED  BY <1>3, <2>1, QueueStep DEF RefuseClick
<1>4. CASE TurnQueue(h)
  <2>1. QueueShape'
      BY <1>0, <1>4, TurnFits
  <2>. QED  BY <1>4, <2>1, QueueStep DEF TurnQueue
<1>5. CASE TakeReport(h)
  <2>1. QueueShape'
      BY <1>0, <1>5, TakeFits
  <2>. QED  BY <1>5, <2>1, QueueStep DEF TakeReport
<1>6. CASE UpdateReport(h)
  <2>1. /\ QueueShape'
        /\ queue[h].acting.id \in DOMAIN report /\ queue[h].acting.target \in Targets
      BY <1>0, <1>6, UpdateFits
  <2>2. CASE TransitionReport(queue[h].acting.id, queue[h].acting.target, h)
    <3>1. h \in Handlers /\ UNCHANGED <<form, submit, reportFaults>>
        BY <1>6, ReportsAssumption DEF ReportsAssumption, UpdateReport, NoReportFault
    <3>2. ReportShape' /\ ServerShape'
        BY <2>1, <2>2, <3>1, TransitionKeeps
    <3>. QED  BY <2>1, <3>2 DEF ReportsIInv
  <2>3. CASE UNCHANGED <<report, edits>>
      BY <1>6, <2>1, <2>3, QueueStep DEF UpdateReport
  <2>. QED  BY <1>6, <2>2, <2>3 DEF UpdateReport
<1>7. CASE TicketEdited(h)
  <2>1. QueueShape'
      BY <1>0, <1>7, TicketFits
  <2>. QED  BY <1>7, <2>1, QueueStep DEF TicketEdited
<1>8. CASE FinishAction(h)
  <2>1. QueueShape'
      BY <1>0, <1>8, FinishFits
  <2>. QED  BY <1>8, <2>1, QueueStep DEF FinishAction
<1>9. CASE DrawQueue(h)
  <2>1. QueueShape'
      BY <1>0, <1>9, DrawFits
  <2>. QED  BY <1>9, <2>1, QueueStep DEF DrawQueue
<1>10. CASE ActionFails(h)
  <2>1. QueueShape'
      BY <1>0, <1>10, FailFits
  <2>. QED  BY <1>10, <2>1, QueueStep DEF ActionFails
<1>11. CASE ExpireQueue(h)
  <2>1. QueueShape'
      BY <1>0, <1>11, ExpireFits
  <2>. QED  BY <1>11, <2>1, QueueStep DEF ExpireQueue
<1>. QED  BY <1>1, <1>2, <1>3, <1>4, <1>5, <1>6, <1>7, <1>8, <1>9, <1>10, <1>11

\* The invariant of the reports is inductive, whoever works on them from where.
THEOREM ReportsInvariance == ReportsSpec => []ReportsIInv
<1>1. ReportsIInv /\ [ReportsNext]_reportVars => ReportsIInv'
  <2>. SUFFICES ASSUME ReportsIInv, [ReportsNext]_reportVars  PROVE ReportsIInv'
      OBVIOUS
  <2>1. ASSUME NEW f \in Forms, NEW s \in Submits, NEW k \in Keys, ChooseCategory(f, s, k)
        PROVE  ReportsIInv'
      BY <2>1, ChooseKeeps
  <2>2. ASSUME NEW f \in Forms, NEW s \in Submits, SendDetails(f, s)  PROVE ReportsIInv'
      BY <2>2, SendKeepsForms
  <2>3. ASSUME NEW f \in Forms, NEW s \in Submits, ScopeSubmit(f, s)  PROVE ReportsIInv'
      BY <2>3, ScopeKeeps
  <2>4. ASSUME NEW f \in Forms, NEW s \in Submits, SaveReport(f, s)  PROVE ReportsIInv'
      BY <2>4, SaveKeeps
  <2>5. ASSUME NEW f \in Forms, CloseForm(f)  PROVE ReportsIInv'
      BY <2>5, CloseKeeps
  <2>6. ASSUME NEW f \in Forms, FormGone(f)  PROVE ReportsIInv'
      BY <2>6, GoneKeeps
  <2>7. ASSUME NEW e \in edits, EditTicket(e)  PROVE ReportsIInv'
      BY <2>7, TicketKeeps
  <2>8. ASSUME NEW h \in Handlers, NEW i \in DOMAIN report, NEW target \in Targets,
               ReportCommand(h, i, target)
        PROVE  ReportsIInv'
    <3>1. TransitionReport(i, target, h) /\ UNCHANGED <<form, submit, queue, reportFaults>>
        BY <2>8 DEF ReportCommand
    <3>2. ReportShape' /\ ServerShape'
        BY <3>1, TransitionKeeps
    <3>3. ReportShape /\ QueueShape
        BY DEF ReportsIInv
    <3>4. Len(report') = Len(report) /\ Len(report) \in Nat /\ reportFaults \in Nat
        BY <3>1, <3>3, TransitionChanges, Grows
    <3>5. QueueShape'
        BY <3>1, <3>3, <3>4, NoCard
    <3>. QED  BY <3>2, <3>5 DEF ReportsIInv
  <2>9. ASSUME NEW h \in Queues,
           \/ \E action \in Targets \union {"previous", "next"} : PressQueue(h, action)
           \/ OpenQueue(h) \/ RefuseClick(h) \/ TurnQueue(h) \/ TakeReport(h) \/ UpdateReport(h)
           \/ TicketEdited(h) \/ FinishAction(h) \/ DrawQueue(h) \/ ActionFails(h) \/ ExpireQueue(h)
        PROVE  ReportsIInv'
      BY <2>9, QueueKeeps
  <2>10. CASE UNCHANGED reportVars
      BY <2>10 DEF reportVars, ReportsIInv, ReportShape, ServerShape, QueueShape
  <2>. QED  BY <2>1, <2>2, <2>3, <2>4, <2>5, <2>6, <2>7, <2>8, <2>9, <2>10 DEF ReportsNext
<1>. QED  BY ReportsStart, <1>1, PTL DEF ReportsSpec

\* The ticket of a server's report is never deleted with its form, a click works on the
\* report that was shown, and a card at rest takes the buttons that are seen.
THEOREM ReportsHold == ReportsSpec => []ReportsInv
<1>1. ReportsIInv => ReportsInv
  <2>. SUFFICES ASSUME ReportsIInv  PROVE ReportsInv
      OBVIOUS
  <2>1. \A h \in Queues : Fits(queue[h], Len(report), reportFaults)
      BY DEF ReportsIInv, QueueShape
  <2>2. DOMAIN report = 1..Len(report) /\ reportFaults \in Nat
      BY Grows DEF ReportsIInv
  <2>3. ASSUME NEW h \in Queues
        PROVE  /\ queue[h].pc \in QueuePCs
               /\ queue[h].rows = <<>> \/ queue[h].index \in DOMAIN queue[h].rows
                  \/ queue[h].pc = "told" \/ reportFaults > 0
               /\ \A j \in DOMAIN queue[h].rows : queue[h].rows[j].id \in DOMAIN report
    <3>1. Fits(queue[h], Len(report), reportFaults)
        BY <2>1
    <3>2. queue[h].pc \in QueuePCs
        BY <3>1, CardParts DEF Fits
    <3>. QED  BY <2>2, <3>1, <3>2 DEF Fits, QueuePCs
  <2>4. ReportsTypeOK
      BY <2>3 DEF ReportsIInv, ReportShape, ReportsTypeOK
  <2>5. TicketKept
      BY DEF ReportsIInv, ServerShape, Kept, TicketKept
  <2>6. ClickHitsShown /\ QueueUsable
      BY <2>1 DEF Fits, ClickHitsShown, QueueUsable
  <2>. QED  BY <2>4, <2>5, <2>6 DEF ReportsInv
<1>. QED  BY ReportsInvariance, <1>1, PTL

\* What ClaimsHold says of a step.
ClaimsStep ==
    /\ DOMAIN report \subseteq DOMAIN report'
    /\ \A i \in DOMAIN report : report'[i] # report[i] =>
          /\ report[i].status \in Pending
          /\ report'[i].status # "open"
          /\ report[i].status = "in_progress" => report'[i].status = "closed"

\* A transition leaves an active status, and takes a claimed report to closed alone.
LEMMA TransitionClaims ==
    ASSUME ReportShape, NEW i \in DOMAIN report, NEW target \in Targets, NEW h \in Handlers,
           TransitionReport(i, target, h)
    PROVE  ClaimsStep
<1>1. /\ DOMAIN report' = DOMAIN report
      /\ \A j \in DOMAIN report : j # i => report'[j] = report[j]
      /\ report[i].status \in Source(target) /\ report'[i].status = target
    BY TransitionChanges
<1>2. /\ report[i].status \in Pending /\ target # "open"
      /\ report[i].status = "in_progress" => target = "closed"
    BY <1>1 DEF Source, Pending, Targets
<1>. QED  BY <1>1, <1>2 DEF ClaimsStep

\* A report is never lost or reopened, a closed one stays as it was closed, and who has
\* claimed one keeps it until it is closed.
THEOREM ClaimsAreKept == ReportsSpec => ClaimsHold
<1>1. ReportsIInv /\ [ReportsNext]_reportVars => [ClaimsStep]_reportVars
  <2>. SUFFICES ASSUME ReportsIInv, ReportsNext  PROVE ClaimsStep
      BY DEF ClaimsStep
  <2>0. ReportShape /\ QueueShape /\ report \in Seq(Report)
      BY DEF ReportsIInv, ReportShape
  <2>1. CASE UNCHANGED report
      BY <2>1 DEF ClaimsStep
  <2>2. ASSUME NEW f \in Forms, NEW s \in Submits, SaveReport(f, s)  PROVE ClaimsStep
    <3>1. CASE \E r : report' = Append(report, r)
      <4>1. PICK r : report' = Append(report, r)
          BY <3>1
      <4>2. Len(report) \in Nat /\ DOMAIN report = 1..Len(report)
          BY <2>0, LenProperties
      <4>3. /\ DOMAIN report' = 1..(Len(report) + 1)
            /\ \A i \in 1..Len(report) : report'[i] = report[i]
          BY <2>0, <4>1, <4>2
      <4>. QED  BY <4>2, <4>3 DEF ClaimsStep
    <3>. QED  BY <2>1, <2>2, <3>1 DEF SaveReport
  <2>3. ASSUME NEW h \in Handlers, NEW i \in DOMAIN report, NEW target \in Targets,
               ReportCommand(h, i, target)
        PROVE  ClaimsStep
      BY <2>0, <2>3, TransitionClaims DEF ReportCommand
  <2>4. ASSUME NEW h \in Queues, UpdateReport(h)  PROVE ClaimsStep
    <3>1. /\ queue[h].acting.id \in DOMAIN report /\ queue[h].acting.target \in Targets
          /\ h \in Handlers
        BY <2>0, <2>4, UpdateFits, ReportsAssumption DEF ReportsAssumption
    <3>2. CASE TransitionReport(queue[h].acting.id, queue[h].acting.target, h)
        BY <2>0, <3>1, <3>2, TransitionClaims
    <3>. QED  BY <2>1, <2>4, <3>2 DEF UpdateReport
  <2>5. ASSUME NEW h \in Queues,
           \/ \E action \in Targets \union {"previous", "next"} : PressQueue(h, action)
           \/ OpenQueue(h) \/ RefuseClick(h) \/ TurnQueue(h) \/ TakeReport(h)
           \/ TicketEdited(h) \/ FinishAction(h) \/ DrawQueue(h) \/ ActionFails(h) \/ ExpireQueue(h)
        PROVE  ClaimsStep
    <3>1. UNCHANGED report
        BY <2>5 DEF PressQueue, OpenQueue, RefuseClick, TurnQueue, TakeReport, TicketEdited,
                    FinishAction, DrawQueue, ActionFails, ExpireQueue
    <3>. QED  BY <2>1, <3>1
  <2>6. ASSUME NEW f \in Forms, NEW s \in Submits,
               \/ \E k \in Keys : ChooseCategory(f, s, k)
               \/ SendDetails(f, s) \/ ScopeSubmit(f, s) \/ CloseForm(f) \/ FormGone(f)
        PROVE  ClaimsStep
    <3>1. UNCHANGED report
        BY <2>6 DEF ChooseCategory, SendDetails, ScopeSubmit, CloseForm, FormGone
    <3>. QED  BY <2>1, <3>1
  <2>7. ASSUME NEW f \in Forms, CloseForm(f) \/ FormGone(f)  PROVE ClaimsStep
    <3>1. 1 \in Submits
        BY DEF Submits
    <3>. QED  BY <2>6, <2>7, <3>1
  <2>8. ASSUME NEW e \in edits, EditTicket(e)  PROVE ClaimsStep
    <3>1. UNCHANGED report
        BY <2>8 DEF EditTicket
    <3>. QED  BY <2>1, <3>1
  <2>. QED  BY <2>2, <2>3, <2>4, <2>5, <2>6, <2>7, <2>8 DEF ReportsNext
<1>2. [][ClaimsStep]_reportVars <=> ClaimsHold
    BY PTL DEF ClaimsStep, ClaimsHold
<1>. QED  BY ReportsInvariance, <1>1, <1>2, PTL DEF ReportsSpec

=============================================================================
