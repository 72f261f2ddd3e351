------------------------- MODULE TransientUIProofs -------------------------
(* Proofs about TransientUI, for every value of its constants. *)
EXTENDS TransientUI, TLAPS

USE ConstantsAssumption

\* An unused token exists, so the fresh one is a token nobody holds.
LEMMA FreshToken == Unused # {} => Fresh \in Token /\ Fresh \notin InUse
BY DEF Unused, Fresh

\* The rows of the command table the code writes are rows of the table.
LEMMA BatchRowForms ==
    /\ \A s \in BatchStates : SettledRow(s) \in BatchRow
    /\ \A t \in Token, n \in Nat : ClaimedRow(t, n) \in BatchRow
BY DEF SettledRow, ClaimedRow, BatchRow, BatchStates

\* Replacing a row by a row leaves either table well typed.
LEMMA TablesUpdate ==
    ASSUME RowsTyped
    PROVE  /\ \A b, row : row \in BatchRow => [batch EXCEPT ![b] = row] \in [Batches -> BatchRow]
           /\ \A c, row : row \in EntryRow => [entry EXCEPT ![c] = row] \in [Cards -> EntryRow]
BY DEF RowsTyped

\* mark_terminal leaves well-typed rows.
LEMMA MarkTerminalType ==
    ASSUME RowsTyped, NEW c \in Cards, NEW s \in EntryStates, NEW t,
           MarkTerminal(c, s, t), UNCHANGED kind
    PROVE  RowsTyped'
<1>1. CASE CanMark(c, t)
  <2>1. entry' = Marked(c, s)
    BY <1>1 DEF MarkTerminal
  <2>2. entry' \in [Cards -> EntryRow]
    <3> DEFINE row == [entry[c] EXCEPT !.state = s, !.token = NoToken, !.claimedAt = 0]
    <3>1. entry[c] \in EntryRow
      BY DEF RowsTyped
    <3>2. row \in EntryRow
      BY <3>1 DEF EntryRow
    <3>3. entry' = [entry EXCEPT ![c] = row]
      BY <2>1 DEF Marked
    <3> HIDE DEF row
    <3>4. QED BY <3>2, <3>3, TablesUpdate
  <2>3. SettledRow("preserved") \in BatchRow
    BY BatchRowForms DEF BatchStates
  <2>5. batch' \in [Batches -> BatchRow]
    BY <1>1, <2>3 DEF MarkTerminal, RowsTyped
  <2>6. QED BY <2>2, <2>5 DEF RowsTyped
<1>2. CASE ~CanMark(c, t)
  BY <1>2 DEF MarkTerminal, RowsTyped
<1>3. QED BY <1>1, <1>2

\* Every step leaves the rows of both tables well typed.
LEMMA RowsTypedStep == TypeOK /\ Next => RowsTyped'
<1> SUFFICES ASSUME RowsTyped, RemovalsTyped, WorkerTyped, now \in Nat, Next
             PROVE  RowsTyped'
  BY DEF TypeOK
<1>1. ASSUME NEW c \in Cards, Post(c) PROVE RowsTyped'
  <2>1. /\ UNCHANGED kind
        /\ \/ UNCHANGED <<entry, batch>>
           \/ /\ entry' = [entry EXCEPT ![c] = [state |-> "active",
                           expires |-> now + UITimeout, token |-> NoToken,
                           claimedAt |-> 0]]
              /\ \/ UNCHANGED batch
                 \/ batch' = [batch EXCEPT ![BatchOf[c]] = SettledRow("pending")]
    BY <1>1 DEF Post
  <2>2. entry' \in [Cards -> EntryRow]
    BY <2>1 DEF RowsTyped, EntryRow, EntryStates
  <2>3. batch' \in [Batches -> BatchRow]
    BY <2>1 DEF RowsTyped, BatchRow, BatchStates, SettledRow
  <2>4. QED BY <2>1, <2>2, <2>3 DEF RowsTyped
<1>2. ASSUME NEW c \in Cards, Click(c), kind' \in [Cards -> {"menu", "saved"}]
      PROVE  RowsTyped'
  <2>1. Renewed(c) \in [Cards -> EntryRow]
    <3>1. entry[c] \in EntryRow /\ now + UITimeout \in Nat
      BY DEF RowsTyped
    <3>2. \A n \in Nat : [entry[c] EXCEPT !.expires = n, !.token = NoToken,
                                          !.claimedAt = 0] \in EntryRow
      BY <3>1 DEF EntryRow
    <3>3. QED BY <3>1, <3>2 DEF RowsTyped, Renewed
  <2>2. QED BY <1>2, <2>1 DEF RowsTyped, Click
<1>3. ASSUME NEW c \in Cards, Browse(c) \/ Save(c) \/ Submit(c) \/ Dismiss(c)
      PROVE  RowsTyped'
  BY <1>2, <1>3 DEF RowsTyped, Browse, Save, Submit, Dismiss
<1>4. ASSUME NEW c \in Cards,
             SubmitAccepted(c) \/ Keep(c) \/ KeepOnTimeout(c) \/ DismissCard(c)
      PROVE  RowsTyped'
  BY <1>4, MarkTerminalType DEF RowsTyped, SubmitAccepted, Keep, KeepOnTimeout, DismissCard,
     EntryStates, DismissalStates, PreserveStates
<1>5. ASSUME NEW a \in Actors, ClaimRemoval(a) PROVE RowsTyped'
  <2>1. UNCHANGED <<entry, kind>>
    BY <1>5 DEF ClaimRemoval
  <2>2. CASE UNCHANGED batch
    BY <2>1, <2>2 DEF RowsTyped
  <2>3. CASE \E b : batch' = [batch EXCEPT ![b] = SettledRow("deleted")]
    <3>1. SettledRow("deleted") \in BatchRow
      BY BatchRowForms DEF BatchStates
    <3>2. batch' \in [Batches -> BatchRow]
      BY <2>3, <3>1, TablesUpdate
    <3>3. QED BY <2>1, <3>2 DEF RowsTyped
  <2>4. CASE /\ Unused # {}
             /\ \E b : batch' = [batch EXCEPT ![b] = ClaimedRow(Fresh, now)]
    <3>1. ClaimedRow(Fresh, now) \in BatchRow
      BY <2>4, FreshToken, BatchRowForms
    <3>2. batch' \in [Batches -> BatchRow]
      BY <2>4, <3>1, TablesUpdate
    <3>3. QED BY <2>1, <3>2 DEF RowsTyped
  <2>5. QED BY <1>5, <2>2, <2>3, <2>4 DEF ClaimRemoval
<1>6. ASSUME NEW a \in Actors, FinalizeRemoval(a) PROVE RowsTyped'
  BY <1>6 DEF RowsTyped, RemovalsTyped, FinalizeRemoval, Outcome, BatchRow, BatchStates, SettledRow
<1>7. CASE BeginCycle
  BY <1>7, FreshToken DEF RowsTyped, BeginCycle, BatchRow, BatchStates, SettledRow,
     ClaimedRow
<1>8. CASE ClaimExpired
  BY <1>8 DEF RowsTyped, WorkerTyped, ClaimExpired, Cycle, EntryRow
<1>9. CASE ReleaseCard
  BY <1>9 DEF RowsTyped, WorkerTyped, ReleaseCard, Cycle, EntryRow
<1>10. CASE RecordRetired
  BY <1>10, MarkTerminalType DEF RowsTyped, WorkerTyped, RecordRetired, EntryStates,
     DismissalStates, PreserveStates
<1>11. CASE EndCycle
  BY <1>11 DEF RowsTyped, EndCycle, SettledRow, BatchRow, BatchStates
<1>12. CASE UNCHANGED <<entry, batch, kind>>
  BY <1>12 DEF RowsTyped
<1>13. QED
  BY <1>1, <1>3, <1>4, <1>5, <1>6, <1>7, <1>8, <1>9, <1>10, <1>11, <1>12
  DEF Next, ViewStep, RemovalStep, WorkerStep, SubmitFailed, KeepFailed, DismissOnTimeout,
      DropCard, DropCommand, DeleteCommand, RetryCommand, FetchCard, RetireCard,
      Restart, Tick

\* Every step leaves the messages and the views well typed.
LEMMA MessagesTypedStep == TypeOK /\ Next => MessagesTyped'
<1> SUFFICES ASSUME RowsTyped, MessagesTyped, RemovalsTyped, WorkerTyped, now \in Nat, Next
             PROVE  MessagesTyped'
  BY DEF TypeOK
<1>1. ASSUME NEW c \in Cards, ViewStep(c) PROVE MessagesTyped'
  <2>1. ASSUME Post(c) PROVE MessagesTyped'
    BY <2>1 DEF MessagesTyped, Post, UiStates
  <2>2. ASSUME Browse(c) \/ Save(c) \/ Submit(c) \/ Dismiss(c)
        PROVE  MessagesTyped'
    BY <2>2 DEF MessagesTyped, Browse, Save, Submit, Dismiss, Click, StartCleanup, UiStates
  <2>3. ASSUME \/ SubmitAccepted(c) \/ SubmitFailed(c) \/ KeepFailed(c) \/ Keep(c) \/ KeepOnTimeout(c)
               \/ DismissOnTimeout(c)
        PROVE  MessagesTyped'
    BY <2>3 DEF MessagesTyped, SubmitAccepted, SubmitFailed, KeepFailed, Keep, KeepOnTimeout,
       DismissOnTimeout, StartCleanup, UiStates
  <2>4. ASSUME DismissCard(c) \/ DropCard(c) PROVE MessagesTyped'
    BY <2>4 DEF MessagesTyped, DismissCard, DropCard, Acknowledged, NotAcknowledged,
       UiStates
  <2>5. QED BY <1>1, <2>1, <2>2, <2>3, <2>4 DEF ViewStep
<1>2. ASSUME NEW b \in Batches, DropCommand(b) PROVE MessagesTyped'
  BY <1>2 DEF MessagesTyped, DropCommand, Acknowledged, NotAcknowledged, UiStates
<1>3. ASSUME NEW a \in Actors, DeleteCommand(a) PROVE MessagesTyped'
  BY <1>3 DEF MessagesTyped, RemovalsTyped, DeleteCommand, Acknowledged, NotAcknowledged
<1>4. CASE RetireCard
  BY <1>4 DEF MessagesTyped, WorkerTyped, RetireCard, Acknowledged, NotAcknowledged
<1>5. CASE Restart
  BY <1>5 DEF MessagesTyped, Restart, UiStates
<1>6. CASE UNCHANGED <<card, command, posting, ui, deadline>>
  BY <1>6 DEF MessagesTyped
<1>7. QED
  BY <1>1, <1>2, <1>3, <1>4, <1>5, <1>6
  DEF Next, RemovalStep, WorkerStep, ClaimRemoval, FinalizeRemoval, BeginCycle,
      RetryCommand, ClaimExpired, FetchCard, ReleaseCard, RecordRetired, EndCycle, Tick

\* Every step leaves the command removals well typed.
LEMMA RemovalsTypedStep == TypeOK /\ Next => RemovalsTyped'
<1> SUFFICES ASSUME RemovalsTyped, WorkerTyped, Next PROVE RemovalsTyped'
  BY DEF TypeOK
<1>1. ASSUME NEW c \in Cards, DismissCard(c) PROVE RemovalsTyped'
  <2> DEFINE r == [NoRemoval EXCEPT !.pc = "claim", !.batch = BatchOf[c]]
  <2>1. r \in Removal /\ r.batch \in Batches
    BY DEF Removal, NoRemoval
  <2>2. UNCHANGED removal \/ removal' = [removal EXCEPT ![c] = r]
    BY <1>1 DEF DismissCard
  <2> HIDE DEF r
  <2>3. QED BY <2>1, <2>2 DEF RemovalsTyped, Actors
<1>2. ASSUME NEW a \in Actors, ClaimRemoval(a) PROVE RemovalsTyped'
  <2>1. CASE removal' = [removal EXCEPT ![a] = NoRemoval]
    BY <2>1 DEF RemovalsTyped, Removal, NoRemoval
  <2>2. CASE /\ removal[a].pc = "claim" /\ Unused # {}
             /\ removal' = [removal EXCEPT ![a].pc = "delete", ![a].token = Fresh]
    BY <2>2, FreshToken DEF RemovalsTyped, Removal
  <2>3. QED BY <1>2, <2>1, <2>2 DEF ClaimRemoval
<1>3. ASSUME NEW a \in Actors, DeleteCommand(a) PROVE RemovalsTyped'
  BY <1>3 DEF RemovalsTyped, DeleteCommand, Removal
<1>4. ASSUME NEW a \in Actors, FinalizeRemoval(a) PROVE RemovalsTyped'
  BY <1>4 DEF RemovalsTyped, FinalizeRemoval, Removal, NoRemoval
<1>5. ASSUME NEW b \in Batches, RetryCommand(b) PROVE RemovalsTyped'
  BY <1>5 DEF RemovalsTyped, WorkerTyped, RetryCommand, Removal, NoRemoval, Actors
<1>6. CASE RecordRetired
  BY <1>6 DEF RemovalsTyped, WorkerTyped, RecordRetired, Removal, NoRemoval, Actors
<1>7. CASE Restart
  BY <1>7 DEF RemovalsTyped, Restart, Removal, NoRemoval
<1>8. CASE UNCHANGED removal
  BY <1>8 DEF RemovalsTyped
<1>9. QED
  BY <1>1, <1>2, <1>3, <1>4, <1>5, <1>6, <1>7, <1>8
  DEF Next, ViewStep, RemovalStep, WorkerStep, Post, Browse, Save, Submit, Dismiss, Click,
      SubmitAccepted, SubmitFailed, KeepFailed, Keep, KeepOnTimeout, DismissOnTimeout, DropCard,
      DropCommand, BeginCycle, ClaimExpired, FetchCard, RetireCard, ReleaseCard, EndCycle,
      Tick

\* Every step leaves the cleanup cycle well typed.
LEMMA WorkerTypedStep == TypeOK /\ Next => WorkerTyped'
<1> SUFFICES ASSUME WorkerTyped, now \in Nat, Next PROVE WorkerTyped'
  BY DEF TypeOK
<1>1. CASE BeginCycle
  BY <1>1, FreshToken DEF WorkerTyped, BeginCycle, Cycle, NoCycle
<1>2. ASSUME NEW b \in Batches, RetryCommand(b) PROVE WorkerTyped'
  BY <1>2 DEF WorkerTyped, RetryCommand, Cycle
<1>3. CASE ClaimExpired
  BY <1>3 DEF WorkerTyped, ClaimExpired, Cycle
<1>4. ASSUME NEW c \in Cards, FetchCard(c) PROVE WorkerTyped'
  BY <1>4 DEF WorkerTyped, FetchCard, Cycle
<1>5. CASE RetireCard
  BY <1>5 DEF WorkerTyped, RetireCard, Cycle
<1>6. CASE ReleaseCard \/ RecordRetired
  BY <1>6 DEF WorkerTyped, ReleaseCard, RecordRetired, Cycle
<1>7. CASE EndCycle \/ Restart
  BY <1>7 DEF WorkerTyped, EndCycle, Restart, Cycle, NoCycle
<1>8. CASE UNCHANGED worker
  BY <1>8 DEF WorkerTyped
<1>9. QED
  BY <1>1, <1>2, <1>3, <1>4, <1>5, <1>6, <1>7, <1>8
  DEF Next, ViewStep, RemovalStep, WorkerStep, Post, Browse, Save, Submit, Dismiss, Click,
      SubmitAccepted, SubmitFailed, KeepFailed, Keep, KeepOnTimeout, DismissOnTimeout, DismissCard,
      DropCard, DropCommand, ClaimRemoval, DeleteCommand, FinalizeRemoval, Tick

\* The clock and the counters stay natural numbers.
LEMMA CountersTypedStep ==
    TypeOK /\ Next => now' \in Nat /\ faults' \in Nat /\ crashes' \in Nat
<1>1. Next => now' \in {now, now + 1}
  BY DEF Next, ViewStep, RemovalStep, WorkerStep, Post, Browse, Save, Submit, Dismiss, Click,
     SubmitAccepted, SubmitFailed, KeepFailed, Keep, KeepOnTimeout, DismissOnTimeout, DismissCard,
     DropCard, DropCommand, ClaimRemoval, DeleteCommand, FinalizeRemoval, BeginCycle,
     RetryCommand, ClaimExpired, FetchCard, RetireCard, ReleaseCard, RecordRetired, EndCycle,
     Restart, Tick
<1>2. Next => faults' \in {faults, faults + 1}
  BY DEF Next, ViewStep, RemovalStep, WorkerStep, Post, Browse, Save, Submit, Dismiss, Click,
     SubmitAccepted, SubmitFailed, KeepFailed, Keep, KeepOnTimeout, DismissOnTimeout, DismissCard,
     DropCard, DropCommand, ClaimRemoval, DeleteCommand, FinalizeRemoval, BeginCycle,
     RetryCommand, ClaimExpired, FetchCard, RetireCard, ReleaseCard, RecordRetired, EndCycle,
     Restart, Tick, Acknowledged, NotAcknowledged
<1>3. Next => crashes' \in {crashes, crashes + 1}
  BY DEF Next, ViewStep, RemovalStep, WorkerStep, Post, Browse, Save, Submit, Dismiss, Click,
     SubmitAccepted, SubmitFailed, KeepFailed, Keep, KeepOnTimeout, DismissOnTimeout, DismissCard,
     DropCard, DropCommand, ClaimRemoval, DeleteCommand, FinalizeRemoval, BeginCycle,
     RetryCommand, ClaimExpired, FetchCard, RetireCard, ReleaseCard, RecordRetired, EndCycle,
     Restart, Tick
<1>4. QED BY <1>1, <1>2, <1>3 DEF TypeOK

\* The initial state is well typed.
LEMMA InitTypeOK == Init => TypeOK
BY DEF Init, TypeOK, RowsTyped, MessagesTyped, RemovalsTyped, WorkerTyped, EntryRow,
   BatchRow, Removal, Cycle, NoEntry, NoRow, NoRemoval, NoCycle, EntryStates, BatchStates,
   UiStates

\* The type invariant is inductive by itself.
LEMMA TypeOKStep == TypeOK /\ [Next]_vars => TypeOK'
<1> SUFFICES ASSUME TypeOK, [Next]_vars PROVE TypeOK'
  OBVIOUS
<1>1. CASE Next
  BY <1>1, RowsTypedStep, MessagesTypedStep, RemovalsTypedStep, WorkerTypedStep,
     CountersTypedStep DEF TypeOK
<1>2. CASE UNCHANGED vars
  BY <1>2 DEF TypeOK, RowsTyped, MessagesTyped, RemovalsTyped, WorkerTyped, vars
<1>3. QED BY <1>1, <1>2

\* Every reachable state is well typed, whatever cards, tokens and leases are.
THEOREM TypeCorrect == Spec => []TypeOK
BY InitTypeOK, TypeOKStep, PTL DEF Spec

-----------------------------------------------------------------------------
(***************************************************************************)
(* The invariant.                                                          *)
(***************************************************************************)

\* A row is claimed only when it is due, and a renewal clears the claim it passes.
LEMMA ClaimsAreDueStep == IInv /\ Next => ClaimsAreDue'
<1> SUFFICES ASSUME TypeOK, ClaimsAreDue, Next PROVE ClaimsAreDue'
  BY DEF IInv
<1>0. /\ RowsTyped /\ worker \in Cycle /\ now \in Nat
  BY DEF TypeOK, WorkerTyped
<1>1. ASSUME NEW c \in Cards, Post(c) PROVE ClaimsAreDue'
  <2>1. /\ UNCHANGED <<worker, now>>
        /\ \/ UNCHANGED entry
           \/ entry' = [entry EXCEPT ![c] = [state |-> "active",
                           expires |-> now + UITimeout, token |-> NoToken,
                           claimedAt |-> 0]]
    BY <1>1 DEF Post
  <2>2. QED BY <1>0, <2>1 DEF RowsTyped, ClaimsAreDue, Claimed
<1>2. ASSUME NEW c \in Cards, Click(c) PROVE ClaimsAreDue'
  BY <1>0, <1>2 DEF Click, Renewed, RowsTyped, EntryRow, ClaimsAreDue, Claimed
<1>3. ASSUME NEW c \in Cards, NEW s, NEW t, MarkTerminal(c, s, t), UNCHANGED now,
             worker'.now = worker.now
      PROVE  ClaimsAreDue'
  BY <1>0, <1>3 DEF MarkTerminal, Marked, RowsTyped, EntryRow, ClaimsAreDue, Claimed
<1>4. ASSUME NEW c \in Cards,
             SubmitAccepted(c) \/ Keep(c) \/ KeepOnTimeout(c) \/ DismissCard(c)
      PROVE  ClaimsAreDue'
  BY <1>3, <1>4 DEF SubmitAccepted, Keep, KeepOnTimeout, DismissCard, ClaimsAreDue, Claimed
<1>5. CASE BeginCycle
  BY <1>0, <1>5 DEF BeginCycle, NoCycle, ClaimsAreDue, Claimed
<1>6. CASE ClaimExpired
  <2>1. /\ now' = now /\ worker'.now = worker.now
        /\ \A c \in Cards : \/ entry'[c] = entry[c]
                            \/ /\ ClaimableEntry(c, worker.now)
                               /\ entry'[c] = [entry[c] EXCEPT !.token = worker.token,
                                                 !.claimedAt = worker.now]
    BY <1>0, <1>6 DEF ClaimExpired, Cycle
  <2>2. ASSUME NEW c \in Cards, ClaimableEntry(c, worker.now)
        PROVE  entry[c].state = "active" /\ entry[c].expires <= now
    BY <1>0, <2>2 DEF ClaimableEntry, RowsTyped, EntryRow, Cycle, ClaimsAreDue
  <2>3. ASSUME NEW c \in Cards, Claimed(c)'
        PROVE  entry'[c].state = "active" /\ entry'[c].expires <= now
    <3>1. CASE entry'[c] = entry[c]
      BY <2>3, <3>1 DEF ClaimsAreDue, Claimed
    <3>2. CASE entry'[c] = [entry[c] EXCEPT !.token = worker.token,
                                            !.claimedAt = worker.now]
               /\ ClaimableEntry(c, worker.now)
      BY <1>0, <2>2, <3>2 DEF RowsTyped, EntryRow
    <3>3. QED BY <2>1, <3>1, <3>2
  <2>4. QED BY <2>1, <2>3 DEF ClaimsAreDue
<1>7. CASE ReleaseCard
  BY <1>0, <1>7 DEF ReleaseCard, StillMine, RowsTyped, EntryRow, Cycle, ClaimsAreDue, Claimed
<1>8. CASE RecordRetired
  <2>1. /\ UNCHANGED now
        /\ worker'.now = worker.now
        /\ \E s : MarkTerminal(worker.cur, s, worker.token)
        /\ worker.cur \in Cards
    BY <1>0, <1>8 DEF RecordRetired, TypeOK, WorkerTyped, Cycle
  <2>2. QED BY <1>3, <2>1
<1>9. CASE EndCycle \/ Restart
  BY <1>0, <1>9 DEF EndCycle, Restart, NoCycle, ClaimsAreDue, Claimed
<1>10. CASE Tick
  BY <1>0, <1>10 DEF Tick, RowsTyped, EntryRow, Cycle, ClaimsAreDue, Claimed
<1>11. CASE UNCHANGED <<entry, now>> /\ worker'.now = worker.now
  BY <1>11 DEF ClaimsAreDue, Claimed
<1>12. ASSUME NEW b \in Batches, RetryCommand(b) PROVE ClaimsAreDue'
  BY <1>0, <1>11, <1>12 DEF RetryCommand, Cycle
<1>13. ASSUME NEW c \in Cards, FetchCard(c) PROVE ClaimsAreDue'
  BY <1>0, <1>11, <1>13 DEF FetchCard, Cycle
<1>14. CASE RetireCard
  BY <1>0, <1>11, <1>14 DEF RetireCard, Cycle
<1>15. QED
  BY <1>1, <1>2, <1>4, <1>5, <1>6, <1>7, <1>8, <1>9, <1>10, <1>11, <1>12, <1>13, <1>14
  DEF Next, ViewStep, RemovalStep, WorkerStep, Browse, Save, Submit, Dismiss, SubmitFailed, KeepFailed,
      DismissOnTimeout, DropCard, DropCommand, ClaimRemoval, DeleteCommand, FinalizeRemoval

\* Every row keeps its type: what most steps below need to know.
LEMMA RowTypes ==
    ASSUME TypeOK, NEW c \in Cards
    PROVE  /\ entry[c].state \in EntryStates /\ entry[c].expires \in Nat
           /\ entry[c].token \in Token \union {NoToken}
           /\ kind[c] \in {"menu", "saved"} /\ ui[c] \in UiStates
           /\ deadline[c] \in Nat /\ now \in Nat
BY DEF TypeOK, RowsTyped, MessagesTyped, EntryRow

\* A token that the running cycle holds is a token.
LEMMA WorkerToken ==
    ASSUME TypeOK, worker.pc # "idle"
    PROVE  worker.token # NoToken /\ worker.now \in Nat
BY DEF TypeOK, WorkerTyped, Cycle

\* What mark_terminal does to the row of one card, seen from any card.
LEMMA MarkedRow ==
    ASSUME TypeOK, NEW c \in Cards, NEW s, NEW t, MarkTerminal(c, s, t), NEW d \in Cards
    PROVE  \/ entry'[d] = entry[d]
           \/ /\ d = c
              /\ CanMark(c, t)
              /\ entry'[d].state = s /\ entry'[d].token = NoToken
BY DEF TypeOK, RowsTyped, EntryRow, MarkTerminal, Marked

\* A mark leaves the row alone only if the row could not be marked.
LEMMA MarkTakes ==
    ASSUME TypeOK, NEW c \in Cards, NEW s, NEW t, MarkTerminal(c, s, t), CanMark(c, t)
    PROVE  entry'[c].state = s
BY DEF TypeOK, RowsTyped, EntryRow, MarkTerminal, Marked

\* What a click does to the row of one card, seen from any card.
LEMMA ClickedRow ==
    ASSUME TypeOK, PurgedIsOver, NEW c \in Cards, Click(c), NEW d \in Cards
    PROVE  /\ ui[c] = "idle"
           /\ deadline'[c] = now + UITimeout
           /\ d # c => deadline'[d] = deadline[d]
           /\ \/ entry'[d] = entry[d] /\ (d = c => entry[c].state = "none")
              \/ /\ d = c
                 /\ entry[c].state = "active" /\ entry[c].token = NoToken
                 /\ entry'[c].state = "active" /\ entry'[c].token = NoToken
                 /\ entry'[c].expires = now + UITimeout
<1>1. /\ entry \in [Cards -> EntryRow] /\ deadline \in [Cards -> Nat]
  BY DEF TypeOK, RowsTyped, MessagesTyped
<1>2. /\ ui[c] = "idle" /\ deadline' = [deadline EXCEPT ![c] = now + UITimeout]
      /\ Answerable(c)
      /\ entry' = IF HasRow(c) THEN Renewed(c) ELSE entry
  BY DEF Click
<1>3. ~HasRow(c) => entry[c].state = "none"
  BY <1>2 DEF HasRow, PurgedIsOver, Over, CardsOf
<1>4. CASE HasRow(c)
  <2>1. entry[c].state = "active" /\ entry[c].token = NoToken
    BY <1>2, <1>4 DEF Answerable, Renewable
  <2>2. entry' = Renewed(c)
    BY <1>2, <1>4
  <2>3. d # c => entry'[d] = entry[d]
    BY <1>1, <2>2 DEF Renewed
  <2>4. /\ entry'[c].state = entry[c].state /\ entry'[c].token = NoToken
        /\ entry'[c].expires = now + UITimeout
    BY <1>1, <2>2 DEF Renewed, EntryRow
  <2>5. QED BY <1>1, <1>2, <2>1, <2>3, <2>4
<1>5. CASE ~HasRow(c)
  BY <1>1, <1>2, <1>3, <1>5
<1>6. QED BY <1>4, <1>5

\* Every step keeps what a view says in agreement with its row.
LEMMA ViewsAgreeStep == IInv /\ Next => ViewsAgree'
<1> SUFFICES ASSUME IInv, Next, NEW d \in Cards PROVE ViewAgrees(d)'
  BY DEF ViewsAgree
<1>0. /\ TypeOK /\ ViewAgrees(d) /\ PurgedIsOver /\ ClaimsAreDue
      /\ RowsTyped /\ MessagesTyped /\ UITimeout \in Nat /\ SubmitBound \in Nat
  BY DEF IInv, TypeOK, ViewsAgree
<1>1. ASSUME entry'[d] = entry[d], ui'[d] = ui[d], kind'[d] = kind[d],
             deadline'[d] = deadline[d], now' = now
      PROVE  ViewAgrees(d)'
  BY <1>0, <1>1 DEF ViewAgrees, Claimed
<1>2. ASSUME NEW c \in Cards, Post(c) PROVE ViewAgrees(d)'
  <2>1. /\ ui[c] = "unposted" /\ ui' = [ui EXCEPT ![c] = "idle"]
        /\ deadline' = [deadline EXCEPT ![c] = now + UITimeout]
        /\ UNCHANGED <<kind, now>>
        /\ \/ UNCHANGED entry
           \/ entry' = [entry EXCEPT ![c] = [state |-> "active",
                           expires |-> now + UITimeout, token |-> NoToken,
                           claimedAt |-> 0]]
    BY <1>2 DEF Post
  <2>2. CASE d = c
    BY <1>0, <2>1, <2>2 DEF ViewAgrees, RowsTyped, MessagesTyped
  <2>3. CASE d # c
    BY <1>0, <1>1, <2>1, <2>3 DEF RowsTyped, MessagesTyped
  <2>4. QED BY <2>2, <2>3
<1>3. ASSUME NEW c \in Cards, Click(c), d # c,
             ui'[d] = ui[d], kind'[d] = kind[d]
      PROVE  ViewAgrees(d)'
  <2>1. now' = now
    BY <1>3 DEF Click
  <2>2. QED BY <1>0, <1>1, <1>3, <2>1, ClickedRow
<1>4. ASSUME NEW c \in Cards, Browse(c) PROVE ViewAgrees(d)'
  <2>1. Click(c) /\ UNCHANGED <<kind, ui, now>>
    BY <1>4 DEF Browse, Click
  <2>2. CASE d = c
    BY <1>0, <2>1, <2>2, ClickedRow DEF ViewAgrees
  <2>3. QED BY <1>3, <2>1, <2>2
<1>5. ASSUME NEW c \in Cards, Save(c) PROVE ViewAgrees(d)'
  <2>1. Click(c) /\ kind' = [kind EXCEPT ![c] = "saved"] /\ UNCHANGED <<ui, now>>
    BY <1>5 DEF Save, Click
  <2>2. CASE d = c
    BY <1>0, <2>1, <2>2, ClickedRow DEF ViewAgrees, RowsTyped
  <2>3. QED BY <1>0, <1>3, <2>1, <2>2 DEF RowsTyped
<1>6. ASSUME NEW c \in Cards, Submit(c) PROVE ViewAgrees(d)'
  <2>1. Click(c) /\ ui' = [ui EXCEPT ![c] = "submitting"] /\ UNCHANGED <<kind, now>>
    BY <1>6 DEF Submit, Click
  <2>2. CASE d = c
    <3>1. /\ ui'[d] = "submitting" /\ deadline'[d] = now + UITimeout /\ now' = now
      BY <1>0, <2>1, <2>2, ClickedRow DEF MessagesTyped
    <3>2. now' + UITimeout <= deadline'[d] + SubmitBound
      BY <1>0, <3>1 DEF TypeOK
    <3>3. \/ entry'[d].state = "none"
          \/ /\ entry'[d].state = "active" /\ entry'[d].token = NoToken
             /\ entry'[d].expires = deadline'[d]
      BY <1>0, <2>1, <2>2, ClickedRow
    <3>4. QED BY <3>1, <3>2, <3>3 DEF ViewAgrees, Claimed
  <2>3. QED BY <1>0, <1>3, <2>1, <2>2 DEF MessagesTyped
<1>7. ASSUME NEW c \in Cards, Dismiss(c) PROVE ViewAgrees(d)'
  <2>1. Click(c) /\ StartCleanup(c) /\ UNCHANGED <<kind, now>>
    BY <1>7 DEF Dismiss, Click
  <2>2. CASE d = c
    BY <1>0, <2>1, <2>2, ClickedRow DEF StartCleanup, ViewAgrees, MessagesTyped
  <2>3. QED BY <1>0, <1>3, <2>1, <2>2 DEF StartCleanup, MessagesTyped
<1>8. ASSUME NEW c \in Cards, SubmitAccepted(c) PROVE ViewAgrees(d)'
  <2>1. /\ ui[c] = "submitting" /\ ui' = [ui EXCEPT ![c] = "accepted"]
        /\ MarkTerminal(c, "accepted", NoToken) /\ UNCHANGED <<kind, deadline, now>>
    BY <1>8 DEF SubmitAccepted
  <2>2. CASE d = c
    BY <1>0, <2>1, <2>2, MarkedRow, MarkTakes
    DEF CanMark, ViewAgrees, MessagesTyped, PreserveStates
  <2>3. QED BY <1>0, <1>1, <2>1, <2>2, MarkedRow DEF MessagesTyped
<1>9. ASSUME NEW c \in Cards, SubmitFailed(c) \/ KeepFailed(c) PROVE ViewAgrees(d)'
  BY <1>0, <1>1, <1>9 DEF SubmitFailed, KeepFailed, ViewAgrees, MessagesTyped
<1>10. ASSUME NEW c \in Cards, Keep(c) PROVE ViewAgrees(d)'
  <2>1. /\ ui[c] = "idle" /\ ui' = [ui EXCEPT ![c] = "kept"] /\ Answerable(c)
        /\ MarkTerminal(c, "kept", NoToken) /\ UNCHANGED <<kind, deadline, now>>
    BY <1>10 DEF Keep
  <2>2. entry[c].state \in {"none", "active"}
    BY <1>0, <2>1 DEF Answerable, Renewable, HasRow, PurgedIsOver, Over, CardsOf
  <2>3. CASE d = c
    BY <1>0, <2>1, <2>2, <2>3, MarkedRow, MarkTakes
    DEF CanMark, ViewAgrees, MessagesTyped, PreserveStates
  <2>4. QED BY <1>0, <1>1, <2>1, <2>3, MarkedRow DEF MessagesTyped
<1>11. ASSUME NEW c \in Cards, KeepOnTimeout(c) PROVE ViewAgrees(d)'
  <2>1. /\ ui[c] = "idle" /\ ui' = [ui EXCEPT ![c] = "kept"] /\ kind[c] = "saved"
        /\ MarkTerminal(c, "kept", NoToken) /\ UNCHANGED <<kind, deadline, now>>
    BY <1>11 DEF KeepOnTimeout
  <2>2. CASE d = c
    <3>1. entry[c].state \in {"none", "active"} \union PreserveStates
      BY <1>0, <2>1, <2>2, RowTypes DEF ViewAgrees, EntryStates, DismissalStates
    <3>2. QED BY <1>0, <2>1, <2>2, <3>1, MarkedRow, MarkTakes
    DEF CanMark, ViewAgrees, MessagesTyped, PreserveStates
  <2>3. QED BY <1>0, <1>1, <2>1, <2>2, MarkedRow DEF MessagesTyped
<1>12. ASSUME NEW c \in Cards, DismissOnTimeout(c) PROVE ViewAgrees(d)'
  BY <1>0, <1>1, <1>12 DEF DismissOnTimeout, StartCleanup, ViewAgrees, MessagesTyped
<1>13. ASSUME NEW c \in Cards, DismissCard(c) PROVE ViewAgrees(d)'
  <2>1. /\ ui[c] = "dismissing" /\ ui' = [ui EXCEPT ![c] = "done"]
        /\ UNCHANGED <<kind, deadline, now>>
        /\ MarkTerminal(c, "dismissed", NoToken) \/ UNCHANGED entry
    BY <1>13 DEF DismissCard
  <2>2. CASE d = c
    BY <1>0, <2>1, <2>2, MarkedRow DEF ViewAgrees, MessagesTyped
  <2>3. QED BY <1>0, <1>1, <2>1, <2>2, MarkedRow DEF MessagesTyped
<1>14. ASSUME NEW c \in Cards, DropCard(c) PROVE ViewAgrees(d)'
  BY <1>0, <1>1, <1>14 DEF DropCard, ViewAgrees, MessagesTyped
<1>15. ASSUME NEW b \in Batches, DropCommand(b) PROVE ViewAgrees(d)'
  BY <1>0, <1>1, <1>15 DEF DropCommand, ViewAgrees, MessagesTyped
<1>16. CASE ClaimExpired
  <2>1. UNCHANGED <<ui, kind, deadline, now>> /\ worker.now <= now /\ worker.now \in Nat
    BY <1>0, <1>16, WorkerToken DEF ClaimExpired, ClaimsAreDue
  <2>2. CASE ~ClaimableEntry(d, worker.now)
    BY <1>1, <1>16, <2>1, <2>2 DEF ClaimExpired
  <2>3. CASE ClaimableEntry(d, worker.now)
    <3>1. entry[d].state = "active" /\ entry[d].expires <= worker.now
      BY <2>3 DEF ClaimableEntry
    <3>2. ui[d] # "submitting"
      BY <1>0, <2>1, <3>1, RowTypes, SubmissionAssumption DEF ViewAgrees
    <3>3. entry'[d].state = "active"
      BY <1>0, <1>16, <2>3, <3>1 DEF ClaimExpired, RowsTyped, EntryRow
    <3>4. QED BY <1>0, <2>1, <3>1, <3>2, <3>3 DEF ViewAgrees
  <2>4. QED BY <2>2, <2>3
<1>17. CASE ReleaseCard
  <2>1. UNCHANGED <<ui, kind, deadline, now>> /\ worker.token # NoToken
    BY <1>0, <1>17, WorkerToken DEF ReleaseCard
  <2>2. CASE ~(d = worker.cur /\ StillMine(d))
    <3>1. entry'[d] = entry[d]
      BY <1>0, <1>17, <2>2 DEF ReleaseCard, RowsTyped
    <3>2. QED BY <1>1, <2>1, <3>1
  <2>3. CASE d = worker.cur /\ StillMine(d)
    <3>1. entry[d].state = "active" /\ ui[d] # "submitting"
      BY <1>0, <2>1, <2>3 DEF StillMine, ViewAgrees, Claimed
    <3>2. entry'[d].state = "active"
      BY <1>0, <1>17, <2>3, <3>1 DEF ReleaseCard, RowsTyped, EntryRow
    <3>3. QED BY <1>0, <2>1, <3>1, <3>2 DEF ViewAgrees
  <2>4. QED BY <2>2, <2>3
<1>18. CASE RecordRetired
  <2> DEFINE s == IF kind[worker.cur] = "saved" THEN "kept" ELSE "expired"
  <2>1. /\ UNCHANGED <<ui, kind, deadline, now>> /\ worker.token # NoToken
        /\ worker.cur \in Cards /\ MarkTerminal(worker.cur, s, worker.token)
    BY <1>0, <1>18, WorkerToken DEF RecordRetired, TypeOK, WorkerTyped
  <2>2. CASE entry'[d] = entry[d]
    BY <1>1, <2>1, <2>2
  <2>3. CASE /\ d = worker.cur /\ CanMark(d, worker.token) /\ entry'[d].state = s
    <3>1. entry[d].state = "active" /\ ui[d] # "submitting"
      BY <1>0, <2>1, <2>3 DEF CanMark, ViewAgrees, Claimed
    <3>2. QED BY <1>0, <2>1, <2>3, <3>1, RowTypes DEF ViewAgrees, PreserveStates
  <2>4. QED BY <1>0, <2>1, <2>2, <2>3, MarkedRow
<1>19. CASE Restart
  BY <1>0, <1>19 DEF Restart, ViewAgrees, Claimed, MessagesTyped
<1>20. CASE Tick
  BY <1>0, <1>20, RowTypes DEF Tick, ViewAgrees, Claimed
<1>21. CASE UNCHANGED <<entry, ui, kind, deadline, now>>
  BY <1>1, <1>21
<1>22. QED
  BY <1>2, <1>4, <1>5, <1>6, <1>7, <1>8, <1>9, <1>10, <1>11, <1>12, <1>13, <1>14, <1>15,
     <1>16, <1>17, <1>18, <1>19, <1>20, <1>21
  DEF Next, ViewStep, RemovalStep, WorkerStep, ClaimRemoval, DeleteCommand,
      FinalizeRemoval, BeginCycle, RetryCommand, FetchCard, RetireCard, EndCycle

\* mark_terminal never touches a purged batch: no card of it is active.
LEMMA MarkedBatch ==
    ASSUME TypeOK, PurgedIsOver, NEW c \in Cards, NEW s, NEW t, MarkTerminal(c, s, t),
           NEW b \in Batches
    PROVE  \/ batch'[b] = batch[b]
           \/ /\ b = BatchOf[c] /\ batch[b].state \notin {"purged", "deleted"}
              /\ batch'[b].state = "preserved" /\ batch'[b].token = NoToken
<1>1. batch \in [Batches -> BatchRow]
  BY DEF TypeOK, RowsTyped
<1>2. CASE batch' = batch
  BY <1>2
<1>3. CASE /\ CanMark(c, t) /\ batch[BatchOf[c]].state # "deleted"
           /\ batch' = [batch EXCEPT ![BatchOf[c]] = SettledRow("preserved")]
  <2>1. batch[BatchOf[c]].state # "purged"
    BY <1>3 DEF CanMark, PurgedIsOver, Over, CardsOf
  <2>2. QED BY <1>1, <1>3, <2>1 DEF SettledRow
<1>4. QED BY <1>2, <1>3 DEF MarkTerminal

\* What a step does to the state of a batch.
LEMMA BatchStep ==
    ASSUME TypeOK, PurgedIsOver, Next, NEW b \in Batches
    PROVE  \/ batch'[b] = batch[b]
           \/ batch[b].state = "none" /\ batch'[b].state = "pending"
           \/ /\ batch[b].state \notin {"purged", "deleted"}
              /\ batch'[b].state = "preserved"
           \/ /\ batch[b].state \in {"pending", "delete_claimed"}
              /\ \/ batch'[b].state \in {"pending", "delete_claimed"}
                 \/ batch'[b].state = "deleted" /\ b \notin HasCommand
           \/ /\ batch'[b].state = "deleted" /\ batch[b].state = "delete_claimed"
              /\ \E a \in Actors : /\ removal[a].pc = "finalize" /\ removal[a].deleted
                                   /\ removal[a].batch = b
           \/ EndCycle /\ Purgeable(b) /\ batch'[b].state = "purged"
<1>0. batch \in [Batches -> BatchRow] /\ RemovalsTyped
  BY DEF TypeOK, RowsTyped
<1>1. ASSUME NEW c \in Cards, Post(c), batch'[b] # batch[b]
      PROVE  batch[b].state = "none" /\ batch'[b].state = "pending"
  BY <1>0, <1>1 DEF Post, SettledRow
<1>2. ASSUME NEW c \in Cards,
             SubmitAccepted(c) \/ Keep(c) \/ KeepOnTimeout(c) \/ DismissCard(c)
      PROVE  \/ batch'[b] = batch[b]
             \/ /\ batch[b].state \notin {"purged", "deleted"}
                /\ batch'[b].state = "preserved"
  BY <1>2, MarkedBatch DEF SubmitAccepted, Keep, KeepOnTimeout, DismissCard
<1>3. ASSUME NEW a \in Actors, ClaimRemoval(a), batch'[b] # batch[b]
      PROVE  /\ batch[b].state \in {"pending", "delete_claimed"}
             /\ \/ batch'[b].state = "delete_claimed"
                \/ batch'[b].state = "deleted" /\ b \notin HasCommand
  BY <1>0, <1>3 DEF ClaimRemoval, ClaimableByFinish, ClaimedRow, SettledRow
<1>4. ASSUME NEW a \in Actors, FinalizeRemoval(a), batch'[b] # batch[b]
      PROVE  /\ batch[b].state = "delete_claimed"
             /\ \/ batch'[b].state = "pending"
                \/ /\ batch'[b].state = "deleted"
                   /\ removal[a].pc = "finalize" /\ removal[a].deleted
                   /\ removal[a].batch = b
  BY <1>0, <1>4 DEF FinalizeRemoval, Outcome, SettledRow
<1>5. ASSUME BeginCycle, batch'[b] # batch[b]
      PROVE  /\ batch[b].state \in {"pending", "delete_claimed"}
             /\ \/ batch'[b].state = "delete_claimed"
                \/ batch'[b].state = "deleted" /\ b \notin HasCommand
  BY <1>0, <1>5 DEF BeginCycle, ClaimableByScan, ClaimedRow, SettledRow
<1>6. CASE RecordRetired
  <2>1. /\ worker.cur \in Cards
        /\ \E s : MarkTerminal(worker.cur, s, worker.token)
    BY <1>6 DEF RecordRetired, TypeOK, WorkerTyped
  <2>2. QED BY <2>1, MarkedBatch
<1>7. ASSUME EndCycle, batch'[b] # batch[b]
      PROVE  Purgeable(b) /\ batch'[b].state = "purged"
  BY <1>0, <1>7 DEF EndCycle, SettledRow
<1>8. CASE UNCHANGED batch
  BY <1>8
<1>9. QED
  BY <1>1, <1>2, <1>3, <1>4, <1>5, <1>6, <1>7, <1>8
  DEF Next, ViewStep, RemovalStep, WorkerStep, Browse, Save, Submit, Dismiss, Click,
      SubmitFailed, KeepFailed, DismissOnTimeout, DropCard, DropCommand, DeleteCommand, RetryCommand,
      ClaimExpired, FetchCard, RetireCard, ReleaseCard, Restart, Tick

\* A finished card stays finished while its handler posts no more cards.
LEMMA OverStays ==
    ASSUME IInv, Next, NEW d \in Cards, Over(d), ~posting[BatchOf[d]]
    PROVE  Over(d)'
<1>0. /\ TypeOK /\ PurgedIsOver /\ RowsTyped /\ MessagesTyped
      /\ entry[d].state # "active" /\ ui[d] \in {"unposted", "accepted", "kept", "done"}
  BY DEF IInv, TypeOK, Over
<1>1. CASE entry'[d] = entry[d] /\ ui'[d] = ui[d]
  BY <1>0, <1>1 DEF Over
<1>2. ASSUME NEW c \in Cards, Post(c) PROVE Over(d)'
  <2>1. c # d
    BY <1>2 DEF Post
  <2>2. QED BY <1>0, <1>1, <1>2, <2>1 DEF Post, RowsTyped, MessagesTyped
<1>3. ASSUME NEW c \in Cards, Browse(c) \/ Save(c) \/ Submit(c) \/ Dismiss(c)
      PROVE  Over(d)'
  <2>1. Click(c) /\ ui[c] = "idle"
    BY <1>3 DEF Browse, Save, Submit, Dismiss, Click
  <2>2. c # d
    BY <1>0, <2>1
  <2>3. entry'[d] = entry[d]
    BY <1>0, <2>1, <2>2, ClickedRow
  <2>4. ui'[d] = ui[d]
    BY <1>0, <1>3, <2>2 DEF Browse, Save, Submit, Dismiss, StartCleanup, MessagesTyped
  <2>5. QED BY <1>1, <2>3, <2>4
<1>4. ASSUME NEW c \in Cards,
             SubmitAccepted(c) \/ Keep(c) \/ KeepOnTimeout(c) \/ DismissCard(c)
      PROVE  Over(d)'
  <2>1. ui[c] \in {"submitting", "idle", "dismissing"} /\ ui'[d] \in {ui[d], ui'[c]}
    BY <1>0, <1>4 DEF SubmitAccepted, Keep, KeepOnTimeout, DismissCard, MessagesTyped
  <2>2. c # d
    BY <1>0, <2>1
  <2>3. UNCHANGED entry \/ \E s : MarkTerminal(c, s, NoToken)
    BY <1>4 DEF SubmitAccepted, Keep, KeepOnTimeout, DismissCard
  <2>4. entry'[d] = entry[d]
    BY <1>0, <2>2, <2>3, MarkedRow
  <2>5. ui'[d] = ui[d]
    BY <1>0, <1>4, <2>2 DEF SubmitAccepted, Keep, KeepOnTimeout, DismissCard, MessagesTyped
  <2>6. QED BY <1>1, <2>4, <2>5
<1>5. ASSUME NEW c \in Cards, SubmitFailed(c) \/ KeepFailed(c) \/ DismissOnTimeout(c) \/ DropCard(c)
      PROVE  Over(d)'
  BY <1>0, <1>1, <1>5 DEF SubmitFailed, KeepFailed, DismissOnTimeout, StartCleanup, DropCard,
     MessagesTyped
<1>6. ASSUME NEW b \in Batches, DropCommand(b) PROVE Over(d)'
  BY <1>0, <1>6 DEF DropCommand, Over, MessagesTyped
<1>7. CASE ClaimExpired
  BY <1>0, <1>1, <1>7 DEF ClaimExpired, ClaimableEntry, RowsTyped
<1>8. CASE ReleaseCard
  BY <1>0, <1>1, <1>8 DEF ReleaseCard, StillMine, RowsTyped
<1>9. CASE RecordRetired
  <2>1. /\ worker.cur \in Cards /\ UNCHANGED ui
        /\ \E s : MarkTerminal(worker.cur, s, worker.token)
    BY <1>0, <1>9 DEF RecordRetired, TypeOK, WorkerTyped
  <2>2. entry'[d] = entry[d]
    BY <1>0, <2>1, MarkedRow DEF CanMark
  <2>3. QED BY <1>1, <2>1, <2>2
<1>10. CASE Restart
  BY <1>0, <1>10 DEF Restart, Over, MessagesTyped
<1>11. CASE UNCHANGED <<entry, ui>>
  BY <1>1, <1>11
<1>12. QED
  BY <1>2, <1>3, <1>4, <1>5, <1>6, <1>7, <1>8, <1>9, <1>10, <1>11
  DEF Next, ViewStep, RemovalStep, WorkerStep, ClaimRemoval, DeleteCommand,
      FinalizeRemoval, BeginCycle, RetryCommand, FetchCard, RetireCard, EndCycle, Tick

\* Nothing happens any more to the cards of a purged batch.
LEMMA PurgedIsOverStep == IInv /\ Next => PurgedIsOver'
<1> SUFFICES ASSUME IInv, Next, NEW b \in Batches, batch'[b].state = "purged"
             PROVE  ~posting'[b] /\ \A c \in CardsOf(b) : Over(c)'
  BY DEF PurgedIsOver, CardsOf
<1>0. TypeOK /\ PurgedIsOver /\ MessagesTyped
  BY DEF IInv, TypeOK
<1>1. ~posting[b] /\ \A c \in CardsOf(b) : Over(c)
  BY <1>0, BatchStep DEF PurgedIsOver, Purgeable
<1>2. \A c \in CardsOf(b) : Over(c)'
  BY <1>1, OverStays DEF CardsOf
<1>3. ~posting'[b]
  BY <1>0, <1>1
  DEF MessagesTyped, Next, ViewStep, RemovalStep, WorkerStep, Post, Browse, Save, Submit,
      Dismiss, Click, SubmitAccepted, SubmitFailed, KeepFailed, Keep, KeepOnTimeout, DismissOnTimeout,
      DismissCard, DropCard, DropCommand, ClaimRemoval, DeleteCommand, FinalizeRemoval,
      BeginCycle, RetryCommand, ClaimExpired, FetchCard, RetireCard, ReleaseCard,
      RecordRetired, EndCycle, Restart, Tick
<1>4. QED BY <1>2, <1>3

\* What the worker holds is not taken from it while its cycle runs, except by
\* its own release: a click and a renewal need an unclaimed row.
LEMMA HeldStays ==
    ASSUME IInv, Next, NEW d \in Cards, Held(d), worker.pc # "idle",
           worker'.token = worker.token, ~(ReleaseCard /\ d = worker.cur)
    PROVE  Held(d)'
<1>0. /\ TypeOK /\ PurgedIsOver /\ RowsTyped /\ MessagesTyped /\ ViewAgrees(d)
      /\ worker.token # NoToken /\ entry[d].state # "none"
      /\ entry[d].state = "active" => entry[d].token = worker.token
  BY WorkerToken DEF IInv, TypeOK, Held, ViewsAgree
<1>1. CASE entry'[d] = entry[d]
  BY <1>0, <1>1 DEF Held
<1>2. ASSUME NEW c \in Cards, Post(c) PROVE Held(d)'
  <2>1. c # d
    BY <1>0, <1>2 DEF Post, ViewAgrees
  <2>2. QED BY <1>0, <1>1, <1>2, <2>1 DEF Post, RowsTyped
<1>3. ASSUME NEW c \in Cards, Click(c) PROVE Held(d)'
  BY <1>0, <1>1, <1>3, ClickedRow
<1>4. ASSUME NEW c \in Cards,
             SubmitAccepted(c) \/ Keep(c) \/ KeepOnTimeout(c) \/ DismissCard(c)
      PROVE  Held(d)'
  <2>1. \/ UNCHANGED entry
        \/ \E s \in DismissalStates \union PreserveStates : MarkTerminal(c, s, NoToken)
    BY <1>4 DEF SubmitAccepted, Keep, KeepOnTimeout, DismissCard, DismissalStates,
       PreserveStates
  <2>2. QED BY <1>0, <1>1, <2>1, MarkedRow DEF Held, DismissalStates, PreserveStates
<1>5. CASE ClaimExpired
  BY <1>0, <1>5 DEF ClaimExpired, Held, RowsTyped, EntryRow
<1>6. CASE ReleaseCard
  BY <1>0, <1>1, <1>6 DEF ReleaseCard, RowsTyped
<1>7. CASE RecordRetired
  <2>1. /\ worker.cur \in Cards
        /\ \E s \in {"kept", "expired"} : MarkTerminal(worker.cur, s, worker.token)
    BY <1>0, <1>7 DEF RecordRetired, TypeOK, WorkerTyped
  <2>2. QED BY <1>0, <1>1, <2>1, MarkedRow DEF Held
<1>8. CASE UNCHANGED entry
  BY <1>1, <1>8
<1>9. QED
  BY <1>2, <1>3, <1>4, <1>5, <1>6, <1>7, <1>8
  DEF Next, ViewStep, RemovalStep, WorkerStep, Browse, Save, Submit, Dismiss, SubmitFailed, KeepFailed,
      DismissOnTimeout, DropCard, DropCommand, ClaimRemoval, DeleteCommand,
      FinalizeRemoval, BeginCycle, RetryCommand, FetchCard, RetireCard, EndCycle, Restart,
      Tick

\* Nobody keeps or requests a card that the worker is about to delete as a menu.
LEMMA MenuStaysUnwanted ==
    ASSUME IInv, Next, worker.pc = "delete", UNCHANGED worker,
           kind'[worker.cur] = "menu"
    PROVE  entry'[worker.cur].state \notin PreserveStates
<1> DEFINE d == worker.cur
<1>0. /\ TypeOK /\ PurgedIsOver /\ RowsTyped /\ d \in Cards /\ ViewAgrees(d)
      /\ worker.token # NoToken /\ entry[d].state # "none"
      /\ entry[d].state = "active" => entry[d].token = worker.token
      /\ kind[d] = "menu" => entry[d].state \notin PreserveStates
  BY WorkerToken DEF IInv, TypeOK, WorkerTyped, WorkerHolds, Held, ViewsAgree
<1> HIDE DEF d
<1>1. kind[d] = "menu"
  BY <1>0
  DEF d, RowsTyped, Next, ViewStep, RemovalStep, WorkerStep, Post, Browse, Save, Submit,
      Dismiss, Click, SubmitAccepted, SubmitFailed, KeepFailed, Keep, KeepOnTimeout, DismissOnTimeout,
      DismissCard, DropCard, DropCommand, ClaimRemoval, DeleteCommand, FinalizeRemoval,
      BeginCycle, RetryCommand, ClaimExpired, FetchCard, RetireCard, ReleaseCard,
      RecordRetired, EndCycle, Restart, Tick
<1>2. CASE entry'[d].state = entry[d].state
  BY <1>0, <1>1, <1>2 DEF d
<1>3. ASSUME NEW c \in Cards, SubmitAccepted(c) PROVE entry'[d].state = entry[d].state
  <2>1. ui[c] = "submitting" /\ MarkTerminal(c, "accepted", NoToken)
    BY <1>3 DEF SubmitAccepted
  <2>2. c # d
    BY <1>0, <2>1 DEF ViewAgrees, Claimed
  <2>3. QED BY <1>0, <2>1, <2>2, MarkedRow
<1>4. ASSUME NEW c \in Cards, Keep(c) PROVE entry'[d].state = entry[d].state
  <2>1. ui[c] = "idle" /\ Answerable(c) /\ MarkTerminal(c, "kept", NoToken)
    BY <1>4 DEF Keep
  <2>2. c # d
    BY <1>0, <2>1 DEF Answerable, Renewable, HasRow, PurgedIsOver, Over, CardsOf
  <2>3. QED BY <1>0, <2>1, <2>2, MarkedRow
<1>5. ASSUME NEW c \in Cards, KeepOnTimeout(c) PROVE entry'[d].state = entry[d].state
  <2>1. c # d /\ MarkTerminal(c, "kept", NoToken)
    BY <1>1, <1>5 DEF KeepOnTimeout
  <2>2. QED BY <1>0, <2>1, MarkedRow
<1>6. ASSUME NEW c \in Cards, DismissCard(c)
      PROVE  entry'[d].state \in {entry[d].state, "dismissed"}
  BY <1>0, <1>6, MarkedRow DEF DismissCard
<1>7. ASSUME NEW c \in Cards, Click(c) PROVE entry'[d].state = entry[d].state
  BY <1>0, <1>7, ClickedRow
<1>8. ASSUME NEW c \in Cards, Post(c) PROVE entry'[d].state = entry[d].state
  <2>1. c # d
    BY <1>0, <1>8 DEF Post, ViewAgrees
  <2>2. QED BY <1>0, <1>8, <2>1 DEF Post, RowsTyped
<1>9. QED
  BY <1>2, <1>3, <1>4, <1>5, <1>6, <1>7, <1>8
  DEF d, PreserveStates, Next, ViewStep, RemovalStep, WorkerStep, Browse, Save, Submit,
      Dismiss, SubmitFailed, KeepFailed, DismissOnTimeout, DropCard, DropCommand, ClaimRemoval,
      DeleteCommand, FinalizeRemoval, BeginCycle, RetryCommand, ClaimExpired, FetchCard,
      RetireCard, ReleaseCard, RecordRetired, EndCycle, Restart, Tick

\* The worker's cards stay its own until it or somebody else settles them.
LEMMA WorkerHoldsStep == IInv /\ Next => WorkerHolds'
<1> SUFFICES ASSUME IInv, Next PROVE WorkerHolds'
  OBVIOUS
<1>0. /\ TypeOK /\ WorkerHolds /\ RowsTyped /\ WorkerTyped /\ worker \in Cycle
  BY DEF IInv, TypeOK, WorkerTyped
<1>1. CASE UNCHANGED worker /\ ~ReleaseCard
  <2>1. ASSUME NEW c \in Cards, Held(c), worker.pc # "idle" PROVE Held(c)'
    BY <1>1, <2>1, HeldStays
  <2>2. worker.todo \subseteq Cards
    BY <1>0 DEF Cycle
  <2>3. worker.pc = "cards" => \A c \in worker.todo : Held(c)'
    BY <1>0, <2>1, <2>2 DEF WorkerHolds
  <2>4. worker.pc \in {"delete", "mark", "release"} =>
           \A c \in worker.todo \union {worker.cur} : Held(c)'
    BY <1>0, <2>1, <2>2 DEF WorkerHolds, WorkerTyped
  <2>5. worker.pc = "delete" /\ kind'[worker.cur] = "menu" =>
           entry'[worker.cur].state \notin PreserveStates
    BY <1>1, MenuStaysUnwanted
  <2>6. QED BY <1>0, <1>1, <2>3, <2>4, <2>5 DEF WorkerHolds
<1>2. CASE BeginCycle \/ EndCycle \/ Restart
  <2>1. worker'.pc \in {"commands", "idle"}
    <3>1. CASE BeginCycle
      BY <3>1 DEF BeginCycle, NoCycle
    <3>2. CASE EndCycle \/ Restart
      BY <3>2 DEF EndCycle, Restart, NoCycle
    <3>3. QED BY <1>2, <3>1, <3>2
  <2>2. QED BY <2>1 DEF WorkerHolds
<1>3. ASSUME NEW b \in Batches, RetryCommand(b) PROVE WorkerHolds'
  BY <1>0, <1>3 DEF RetryCommand, WorkerHolds, Cycle
<1>4. CASE ClaimExpired
  <2>1. /\ worker'.pc = "cards" /\ worker'.token = worker.token
        /\ \A c \in worker'.todo :
              /\ c \in Cards /\ ClaimableEntry(c, worker.now)
              /\ entry'[c] = [entry[c] EXCEPT !.token = worker.token,
                                              !.claimedAt = worker.now]
    BY <1>0, <1>4 DEF ClaimExpired, Cycle
  <2>2. ASSUME NEW c \in worker'.todo
        PROVE  entry'[c].state = "active" /\ entry'[c].token = worker.token
    <3>1. /\ c \in Cards /\ entry[c] \in EntryRow /\ entry[c].state = "active"
          /\ entry'[c] = [entry[c] EXCEPT !.token = worker.token,
                                          !.claimedAt = worker.now]
      BY <1>0, <2>1 DEF ClaimableEntry, RowsTyped
    <3>2. QED BY <3>1 DEF EntryRow
  <2>3. QED BY <2>1, <2>2 DEF WorkerHolds, Held
<1>5. ASSUME NEW c \in Cards, FetchCard(c) PROVE WorkerHolds'
  <2>1. /\ worker.pc = "cards" /\ UNCHANGED <<entry, kind>>
        /\ worker'.todo = worker.todo \ {c} /\ worker'.token = worker.token
        /\ c \in worker.todo
        /\ \/ worker'.pc = "cards"
           \/ worker'.pc \in {"mark", "release"} /\ worker'.cur = c
           \/ worker'.pc = "delete" /\ worker'.cur = c /\ entry[c].state = "active"
    BY <1>0, <1>5 DEF FetchCard, StillMine, Cycle
  <2>2. \A e \in worker.todo : Held(e)'
    BY <1>0, <2>1 DEF WorkerHolds, Held
  <2>3. QED BY <2>1, <2>2 DEF WorkerHolds, PreserveStates
<1>6. CASE RetireCard
  <2>1. /\ worker.pc = "delete" /\ UNCHANGED entry
        /\ worker'.todo = worker.todo /\ worker'.token = worker.token
        /\ worker'.cur = worker.cur /\ worker'.pc \in {"mark", "release"}
    BY <1>0, <1>6 DEF RetireCard, Cycle
  <2>2. QED BY <1>0, <2>1 DEF WorkerHolds, Held
<1>7. CASE ReleaseCard
  <2>1. /\ worker.pc = "release" /\ worker'.pc = "cards"
        /\ worker'.todo = worker.todo /\ worker'.token = worker.token
        /\ worker.todo \subseteq Cards
    BY <1>0, <1>7 DEF ReleaseCard, Cycle
  <2>2. ASSUME NEW c \in worker.todo PROVE Held(c)'
    BY <1>0, <2>1, HeldStays DEF WorkerHolds
  <2>3. QED BY <2>1, <2>2 DEF WorkerHolds
<1>8. CASE RecordRetired
  <2>1. /\ worker.pc = "mark" /\ worker'.pc = "cards"
        /\ worker'.todo = worker.todo /\ worker'.token = worker.token
        /\ worker.todo \subseteq Cards /\ ~ReleaseCard
    BY <1>0, <1>8 DEF RecordRetired, ReleaseCard, Cycle
  <2>2. ASSUME NEW c \in worker.todo PROVE Held(c)'
    BY <1>0, <2>1, HeldStays DEF WorkerHolds
  <2>3. QED BY <2>1, <2>2 DEF WorkerHolds
<1>9. QED
  BY <1>1, <1>2, <1>3, <1>4, <1>5, <1>6, <1>7, <1>8
  DEF Next, ViewStep, RemovalStep, WorkerStep, Post, Browse, Save, Submit, Dismiss, Click,
      SubmitAccepted, SubmitFailed, KeepFailed, Keep, KeepOnTimeout, DismissOnTimeout, DismissCard,
      DropCard, DropCommand, ClaimRemoval, DeleteCommand, FinalizeRemoval, Tick

\* What is discarded stays discarded.
LEMMA DiscardedStays ==
    ASSUME IInv, Next, NEW d \in Cards, Discarded(d)
    PROVE  Discarded(d)'
<1>0. /\ TypeOK /\ PurgedIsOver /\ RowsTyped /\ MessagesTyped /\ ViewAgrees(d)
      /\ ui[d] \notin {"unposted", "submitting", "accepted", "kept"}
      /\ \/ entry[d].state \in DismissalStates
         \/ entry[d].state = "none" /\ ui[d] \in {"dropped", "done"}
  BY DEF IInv, TypeOK, ViewsAgree, Discarded
<1>1. ASSUME entry'[d].state = entry[d].state,
             \/ ui'[d] = ui[d]
             \/ ui'[d] \in {"dropped", "done"}
             \/ ui'[d] \in {"dismissing", "dropping"} /\ ui[d] = "idle"
      PROVE  Discarded(d)'
  BY <1>0, <1>1 DEF Discarded
<1>2. ASSUME NEW c \in Cards, Post(c) PROVE Discarded(d)'
  <2>1. c # d
    BY <1>0, <1>2 DEF Post
  <2>2. QED BY <1>0, <1>1, <1>2, <2>1 DEF Post, RowsTyped, MessagesTyped
<1>3. ASSUME NEW c \in Cards, Browse(c) \/ Save(c) \/ Submit(c) \/ Dismiss(c)
      PROVE  Discarded(d)'
  <2>1. Click(c) /\ ui[c] = "idle"
    BY <1>3 DEF Browse, Save, Submit, Dismiss, Click
  <2>2. c # d
    BY <1>0, <2>1, ClickedRow DEF DismissalStates
  <2>3. entry'[d] = entry[d]
    BY <1>0, <2>1, <2>2, ClickedRow
  <2>4. ui'[d] = ui[d]
    BY <1>0, <1>3, <2>2 DEF Browse, Save, Submit, Dismiss, StartCleanup, MessagesTyped
  <2>5. QED BY <1>1, <2>3, <2>4
<1>4. ASSUME NEW c \in Cards, SubmitAccepted(c) \/ Keep(c) \/ KeepOnTimeout(c)
      PROVE  Discarded(d)'
  <2>1. c # d
    <3>1. ASSUME SubmitAccepted(d) PROVE FALSE
      BY <1>0, <3>1 DEF SubmitAccepted
    <3>2. ASSUME Keep(d) PROVE FALSE
      BY <1>0, <3>2 DEF Keep, Answerable, Renewable, HasRow, PurgedIsOver, Over, CardsOf,
         DismissalStates
    <3>3. ASSUME KeepOnTimeout(d) PROVE FALSE
      BY <1>0, <3>3 DEF KeepOnTimeout, ViewAgrees, DismissalStates
    <3>4. QED BY <1>4, <3>1, <3>2, <3>3
  <2>2. \E s : MarkTerminal(c, s, NoToken)
    BY <1>4 DEF SubmitAccepted, Keep, KeepOnTimeout
  <2>3. entry'[d] = entry[d]
    BY <1>0, <2>1, <2>2, MarkedRow
  <2>4. ui'[d] = ui[d]
    BY <1>0, <1>4, <2>1 DEF SubmitAccepted, Keep, KeepOnTimeout, MessagesTyped
  <2>5. QED BY <1>1, <2>3, <2>4
<1>5. ASSUME NEW c \in Cards, DismissCard(c) PROVE Discarded(d)'
  <2>1. /\ ui' = [ui EXCEPT ![c] = "done"]
        /\ UNCHANGED entry \/ MarkTerminal(c, "dismissed", NoToken)
    BY <1>5 DEF DismissCard
  <2>2. ui'[d] \in {ui[d], "done"}
    BY <1>0, <2>1 DEF MessagesTyped
  <2>3. entry'[d] = entry[d] \/ entry'[d].state = "dismissed"
    BY <1>0, <2>1, MarkedRow
  <2>4. QED BY <1>0, <2>2, <2>3 DEF Discarded, DismissalStates
<1>6. ASSUME NEW c \in Cards, SubmitFailed(c) \/ KeepFailed(c) PROVE Discarded(d)'
  <2>1. ui'[d] \in {ui[d], "done"}
    <3>1. CASE KeepFailed(c)
      BY <1>0, <3>1 DEF KeepFailed, MessagesTyped
    <3>2. CASE SubmitFailed(c)
      <4>1. c # d
        BY <1>0, <3>2 DEF SubmitFailed
      <4>2. QED BY <1>0, <3>2, <4>1 DEF SubmitFailed, MessagesTyped
    <3>3. QED BY <1>6, <3>1, <3>2
  <2>2. QED BY <1>0, <1>1, <1>6, <2>1 DEF SubmitFailed, KeepFailed
<1>7. ASSUME NEW c \in Cards, DismissOnTimeout(c) \/ DropCard(c) PROVE Discarded(d)'
  BY <1>0, <1>1, <1>7 DEF DismissOnTimeout, StartCleanup, DropCard, MessagesTyped
<1>8. ASSUME NEW b \in Batches, DropCommand(b) PROVE Discarded(d)'
  BY <1>0, <1>1, <1>8 DEF DropCommand, MessagesTyped
<1>9. CASE ClaimExpired
  <2>1. entry'[d] = entry[d] /\ UNCHANGED ui
    BY <1>0, <1>9 DEF ClaimExpired, ClaimableEntry, DismissalStates
  <2>2. QED BY <1>1, <2>1
<1>10. CASE ReleaseCard
  <2>1. entry'[d] = entry[d] /\ UNCHANGED ui
    BY <1>0, <1>10 DEF ReleaseCard, StillMine, DismissalStates, RowsTyped
  <2>2. QED BY <1>1, <2>1
<1>11. CASE RecordRetired
  <2>1. /\ worker.cur \in Cards /\ UNCHANGED ui
        /\ \E s : MarkTerminal(worker.cur, s, worker.token)
    BY <1>0, <1>11 DEF RecordRetired, TypeOK, WorkerTyped
  <2>2. entry'[d] = entry[d]
    BY <1>0, <2>1, MarkedRow DEF CanMark, DismissalStates
  <2>3. QED BY <1>1, <2>1, <2>2
<1>12. CASE Restart
  BY <1>0, <1>1, <1>12 DEF Restart, MessagesTyped
<1>13. CASE UNCHANGED <<entry, ui>>
  BY <1>1, <1>13
<1>14. QED
  BY <1>2, <1>3, <1>4, <1>5, <1>6, <1>7, <1>8, <1>9, <1>10, <1>11, <1>12, <1>13
  DEF Next, ViewStep, RemovalStep, WorkerStep, ClaimRemoval, DeleteCommand,
      FinalizeRemoval, BeginCycle, RetryCommand, FetchCard, RetireCard, EndCycle, Tick

\* Terminal rows of the disposable kind belong to discarded cards.
LEMMA DisposableDiscarded ==
    ASSUME IInv, NEW b \in Batches, Disposable(b)
    PROVE  AllDiscarded(b)
BY DEF IInv, Disposable, AllDiscarded, Discarded, ViewsAgree, ViewAgrees, CardsOf,
   DismissalStates

\* What a step does to a command message.
LEMMA CommandChange ==
    ASSUME TypeOK, Next, NEW b \in Batches, command'[b] # command[b]
    PROVE  /\ command'[b] = "gone"
           /\ \/ DropCommand(b)
              \/ \E a \in Actors : removal[a].pc = "delete" /\ removal[a].batch = b
<1>0. command \in [Batches -> {"none", "shown", "gone"}] /\ RemovalsTyped
  BY DEF TypeOK, MessagesTyped
<1>1. ASSUME NEW e \in Batches, DropCommand(e) PROVE command'[b] = "gone" /\ e = b
  BY <1>0, <1>1 DEF DropCommand, Acknowledged, NotAcknowledged
<1>2. ASSUME NEW a \in Actors, DeleteCommand(a)
      PROVE  /\ command'[b] = "gone"
             /\ removal[a].pc = "delete" /\ removal[a].batch = b
  BY <1>0, <1>2 DEF DeleteCommand, Acknowledged, NotAcknowledged
<1>3. UNCHANGED command => FALSE
  OBVIOUS
<1>4. QED
  BY <1>1, <1>2, <1>3
  DEF Next, ViewStep, RemovalStep, WorkerStep, Post, Browse, Save, Submit, Dismiss, Click,
      SubmitAccepted, SubmitFailed, KeepFailed, Keep, KeepOnTimeout, DismissOnTimeout, DismissCard,
      DropCard, ClaimRemoval, FinalizeRemoval, BeginCycle, RetryCommand, ClaimExpired,
      FetchCard, RetireCard, ReleaseCard, RecordRetired, EndCycle, Restart, Tick

\* What a step does to the removal that one actor is performing.
LEMMA RemovalChange ==
    ASSUME TypeOK, Next, NEW a \in Actors
    PROVE  \/ removal'[a] = removal[a]
           \/ removal'[a].pc = "idle"
           \/ removal'[a].pc = "claim" /\ ~removal'[a].deleted
           \/ /\ removal[a].pc = "claim" /\ removal'[a].pc = "delete"
              /\ removal'[a].batch = removal[a].batch
              /\ removal'[a].deleted = removal[a].deleted
              /\ Disposable(removal[a].batch)
           \/ /\ removal'[a].pc = "delete" /\ ~removal'[a].deleted
              /\ removal'[a].batch \in worker.claims
           \/ /\ removal[a].pc = "delete" /\ removal'[a].pc = "finalize"
              /\ removal'[a].batch = removal[a].batch
              /\ \/ removal'[a].deleted = removal[a].deleted
                 \/ command'[removal[a].batch] = "gone"
<1>0. removal \in [Actors -> Removal] /\ RemovalsTyped /\ MessagesTyped
  BY DEF TypeOK, RemovalsTyped
<1>1. ASSUME NEW c \in Cards, DismissCard(c) PROVE
         \/ removal'[a] = removal[a]
         \/ removal'[a].pc = "claim" /\ ~removal'[a].deleted
  <2>1. CASE UNCHANGED removal
    BY <2>1
  <2>2. CASE removal' = [removal EXCEPT ![c] =
                            [NoRemoval EXCEPT !.pc = "claim", !.batch = BatchOf[c]]]
    BY <1>0, <2>2 DEF NoRemoval, Actors
  <2>3. QED BY <1>1, <2>1, <2>2 DEF DismissCard
<1>2. ASSUME NEW e \in Actors, ClaimRemoval(e) PROVE
         \/ removal'[a] = removal[a]
         \/ removal'[a].pc = "idle"
         \/ /\ removal[a].pc = "claim" /\ removal'[a].pc = "delete"
            /\ removal'[a].batch = removal[a].batch
            /\ removal'[a].deleted = removal[a].deleted
            /\ Disposable(removal[a].batch)
  <2>1. CASE removal' = [removal EXCEPT ![e] = NoRemoval]
    BY <1>0, <2>1 DEF NoRemoval
  <2>2. CASE /\ removal[e].pc = "claim" /\ ClaimableByFinish(removal[e].batch)
             /\ removal' = [removal EXCEPT ![e].pc = "delete", ![e].token = Fresh]
    BY <1>0, <2>2 DEF ClaimableByFinish, Removal
  <2>3. QED BY <1>2, <2>1, <2>2 DEF ClaimRemoval
<1>3. ASSUME NEW e \in Actors, DeleteCommand(e) PROVE
         \/ removal'[a] = removal[a]
         \/ /\ removal[a].pc = "delete" /\ removal'[a].pc = "finalize"
            /\ removal'[a].batch = removal[a].batch
            /\ \/ removal'[a].deleted = removal[a].deleted
               \/ command'[removal[a].batch] = "gone"
  <2>1. CASE /\ removal[e].pc = "delete"
             /\ removal' = [removal EXCEPT ![e].pc = "finalize", ![e].deleted = TRUE]
             /\ command' = [command EXCEPT ![removal[e].batch] = "gone"]
    BY <1>0, <2>1 DEF RemovalsTyped, MessagesTyped, Removal
  <2>2. CASE /\ removal[e].pc = "delete"
             /\ removal' = [removal EXCEPT ![e].pc = "finalize"]
    BY <1>0, <2>2 DEF Removal
  <2>3. QED BY <1>3, <2>1, <2>2 DEF DeleteCommand, Acknowledged
<1>4. ASSUME NEW e \in Actors, FinalizeRemoval(e)
      PROVE  removal'[a] = removal[a] \/ removal'[a].pc = "idle"
  BY <1>0, <1>4 DEF FinalizeRemoval, NoRemoval
<1>5. ASSUME NEW b \in Batches, RetryCommand(b) PROVE
         \/ removal'[a] = removal[a]
         \/ /\ removal'[a].pc = "delete" /\ ~removal'[a].deleted
            /\ removal'[a].batch \in worker.claims
  BY <1>0, <1>5 DEF RetryCommand, NoRemoval
<1>6. CASE RecordRetired
  <2>1. CASE UNCHANGED removal
    BY <2>1
  <2>2. CASE removal' = [removal EXCEPT ![Worker] =
                    [NoRemoval EXCEPT !.pc = "claim", !.batch = BatchOf[worker.cur]]]
    BY <1>0, <2>2 DEF NoRemoval
  <2>3. QED BY <1>6, <2>1, <2>2 DEF RecordRetired
<1>7. CASE Restart
  BY <1>7 DEF Restart, NoRemoval
<1>8. CASE UNCHANGED removal
  BY <1>8
<1>9. QED
  BY <1>1, <1>2, <1>3, <1>4, <1>5, <1>6, <1>7, <1>8
  DEF Next, ViewStep, RemovalStep, WorkerStep, Post, Browse, Save, Submit, Dismiss, Click,
      SubmitAccepted, SubmitFailed, KeepFailed, Keep, KeepOnTimeout, DismissOnTimeout, DropCard,
      DropCommand, BeginCycle, ClaimExpired, FetchCard, RetireCard, ReleaseCard, EndCycle,
      Tick

\* Whoever is about to delete a command has only discarded cards below it.
LEMMA CommandsUnwantedStep == IInv /\ Next => CommandsUnwanted'
<1> SUFFICES ASSUME IInv, Next PROVE CommandsUnwanted'
  OBVIOUS
<1>0. TypeOK /\ CommandsUnwanted /\ ViewsAgree
  BY DEF IInv
<1>1. ASSUME NEW b, AllDiscarded(b) PROVE AllDiscarded(b)'
  BY <1>1, DiscardedStays DEF AllDiscarded, CardsOf
<1>2. ASSUME NEW b \in Batches, command'[b] = "gone" PROVE AllDiscarded(b)'
  <2>1. CASE DropCommand(b)
    <3>1. AllDiscarded(b)
      BY <1>0, <2>1 DEF DropCommand, AllDiscarded, Discarded, ViewsAgree, ViewAgrees,
         CardsOf, DismissalStates
    <3>2. QED BY <1>1, <3>1
  <2>2. ASSUME NEW a \in Actors, removal[a].pc = "delete", removal[a].batch = b
        PROVE  AllDiscarded(b)'
    BY <1>0, <1>1, <2>2 DEF CommandsUnwanted
  <2>3. CASE command[b] = "gone"
    BY <1>0, <1>1, <2>3 DEF CommandsUnwanted
  <2>4. QED BY <1>0, <1>2, <2>1, <2>2, <2>3, CommandChange
<1>3. ASSUME NEW b \in worker'.claims PROVE AllDiscarded(b)' /\ b \in HasCommand
  <2>1. CASE BeginCycle
    <3>1. b \in Batches /\ b \in HasCommand /\ Disposable(b)
      BY <1>3, <2>1 DEF BeginCycle, ClaimableByScan, NoCycle
    <3>2. QED BY <1>1, <3>1, DisposableDiscarded
  <2>2. CASE worker'.claims \subseteq worker.claims
    BY <1>0, <1>1, <1>3, <2>2 DEF CommandsUnwanted
  <2>3. CASE EndCycle \/ Restart
    BY <1>3, <2>3 DEF EndCycle, Restart, NoCycle
  <2>4. worker \in Cycle
    BY <1>0 DEF TypeOK, WorkerTyped
  <2>5. CASE ClaimExpired \/ RetireCard \/ ReleaseCard \/ RecordRetired
    BY <2>2, <2>4, <2>5 DEF ClaimExpired, RetireCard, ReleaseCard, RecordRetired, Cycle
  <2>6. ASSUME NEW e \in Batches, RetryCommand(e)
        PROVE  worker'.claims \subseteq worker.claims
    BY <2>4, <2>6 DEF RetryCommand, Cycle
  <2>7. ASSUME NEW c \in Cards, FetchCard(c)
        PROVE  worker'.claims \subseteq worker.claims
    BY <2>4, <2>7 DEF FetchCard, Cycle
  <2>8. CASE UNCHANGED worker
    BY <2>2, <2>8
  <2>9. QED
    BY <2>1, <2>2, <2>3, <2>5, <2>6, <2>7, <2>8
    DEF Next, ViewStep, RemovalStep, WorkerStep, Post, Browse, Save, Submit, Dismiss,
        Click, SubmitAccepted, SubmitFailed, KeepFailed, Keep, KeepOnTimeout, DismissOnTimeout,
        DismissCard, DropCard, DropCommand, ClaimRemoval, DeleteCommand, FinalizeRemoval,
        Tick
<1>4. ASSUME NEW a \in Actors, removal'[a].pc \in {"delete", "finalize"}
      PROVE  \A c \in CardsOf(removal'[a].batch) : Discarded(c)'
  <2>1. \/ removal'[a] = removal[a]
        \/ /\ removal[a].pc = "claim" /\ removal'[a].batch = removal[a].batch
           /\ Disposable(removal[a].batch)
        \/ removal'[a].batch \in worker.claims
        \/ removal[a].pc = "delete" /\ removal'[a].batch = removal[a].batch
    BY <1>0, <1>4, RemovalChange
  <2>2. removal[a].pc = "claim" => removal[a].batch \in Batches
    BY <1>0 DEF TypeOK, RemovalsTyped
  <2>3. AllDiscarded(removal'[a].batch)
    BY <1>0, <1>4, <2>1, <2>2, DisposableDiscarded DEF CommandsUnwanted
  <2>4. QED BY <2>3, DiscardedStays DEF AllDiscarded, CardsOf
<1>5. QED BY <1>2, <1>3, <1>4 DEF CommandsUnwanted, AllDiscarded, CardsOf

\* A row is written dismissed or expired only after its card is gone.
LEMMA RetiredMeansGoneStep == IInv /\ Next => RetiredMeansGone'
<1> SUFFICES ASSUME IInv, Next, NEW d \in Cards, entry'[d].state \in DismissalStates
             PROVE  card'[d] = "gone"
  BY DEF RetiredMeansGone
<1>0. /\ TypeOK /\ PurgedIsOver /\ RowsTyped /\ MessagesTyped /\ ViewAgrees(d)
      /\ entry[d].state \in DismissalStates => card[d] = "gone"
      /\ worker.pc = "mark" /\ kind[worker.cur] = "menu" => card[worker.cur] = "gone"
  BY DEF IInv, TypeOK, ViewsAgree, RecordsAreTrue, RetiredMeansGone
<1>1. CASE entry'[d].state = entry[d].state /\ card'[d] \in {card[d], "gone"}
  BY <1>0, <1>1
<1>2. ASSUME NEW c \in Cards, Post(c) PROVE card'[d] = "gone"
  <2>1. c # d
    BY <1>0, <1>2 DEF Post, ViewAgrees, RowsTyped, DismissalStates
  <2>2. QED BY <1>0, <1>1, <1>2, <2>1 DEF Post, RowsTyped, MessagesTyped
<1>3. ASSUME NEW c \in Cards, Click(c) PROVE card'[d] = "gone"
  <2>1. UNCHANGED card
    BY <1>3 DEF Click
  <2>2. entry'[d].state = entry[d].state
    BY <1>0, <1>3, ClickedRow
  <2>3. QED BY <1>1, <2>1, <2>2
<1>4. ASSUME NEW c \in Cards, SubmitAccepted(c) \/ Keep(c) \/ KeepOnTimeout(c)
      PROVE  card'[d] = "gone"
  <2>1. UNCHANGED card /\ \E s \in PreserveStates : MarkTerminal(c, s, NoToken)
    BY <1>4 DEF SubmitAccepted, Keep, KeepOnTimeout, PreserveStates
  <2>2. entry'[d] = entry[d]
    BY <1>0, <2>1, MarkedRow DEF PreserveStates, DismissalStates
  <2>3. QED BY <1>1, <2>1, <2>2
<1>5. ASSUME NEW c \in Cards, DismissCard(c) PROVE card'[d] = "gone"
  <2>1. CASE Acknowledged(card, c) /\ MarkTerminal(c, "dismissed", NoToken)
    <3>1. card'[c] = "gone" /\ card'[d] \in {card[d], "gone"}
      BY <1>0, <2>1 DEF Acknowledged, MessagesTyped
    <3>2. QED BY <1>0, <1>1, <2>1, <3>1, MarkedRow
  <2>2. CASE NotAcknowledged(card, c) /\ UNCHANGED entry
    BY <1>0, <1>1, <2>2 DEF NotAcknowledged, MessagesTyped
  <2>3. QED BY <1>5, <2>1, <2>2 DEF DismissCard
<1>6. ASSUME NEW c \in Cards, DropCard(c) PROVE card'[d] = "gone"
  BY <1>0, <1>1, <1>6 DEF DropCard, Acknowledged, NotAcknowledged, MessagesTyped
<1>7. CASE ClaimExpired
  <2>1. /\ UNCHANGED card /\ entry[d] \in EntryRow
        /\ \/ entry'[d] = entry[d]
           \/ entry'[d] = [entry[d] EXCEPT !.token = worker.token,
                                           !.claimedAt = worker.now]
    BY <1>0, <1>7 DEF ClaimExpired, RowsTyped
  <2>2. entry'[d].state = entry[d].state
    BY <2>1 DEF EntryRow
  <2>3. QED BY <1>1, <2>1, <2>2
<1>8. CASE RetireCard
  BY <1>0, <1>1, <1>8 DEF RetireCard, Acknowledged, NotAcknowledged, MessagesTyped
<1>9. CASE ReleaseCard
  BY <1>0, <1>1, <1>9 DEF ReleaseCard, RowsTyped, EntryRow
<1>10. CASE RecordRetired
  <2>1. /\ worker.pc = "mark" /\ worker.cur \in Cards /\ UNCHANGED card
        /\ \/ MarkTerminal(worker.cur, "kept", worker.token)
           \/ /\ kind[worker.cur] = "menu"
              /\ MarkTerminal(worker.cur, "expired", worker.token)
    BY <1>0, <1>10 DEF RecordRetired, TypeOK, WorkerTyped, RowsTyped
  <2>2. QED BY <1>0, <1>1, <2>1, MarkedRow DEF DismissalStates
<1>11. CASE UNCHANGED <<entry, card>>
  BY <1>1, <1>11
<1>12. QED
  BY <1>2, <1>3, <1>4, <1>5, <1>6, <1>7, <1>8, <1>9, <1>10, <1>11
  DEF Next, ViewStep, RemovalStep, WorkerStep, Browse, Save, Submit, Dismiss, SubmitFailed, KeepFailed,
      DismissOnTimeout, DropCommand, ClaimRemoval, DeleteCommand, FinalizeRemoval,
      BeginCycle, RetryCommand, FetchCard, EndCycle, Restart, Tick

\* No step brings a deleted command message back.
LEMMA CommandStaysGone ==
    ASSUME TypeOK, Next, NEW b \in Batches, command[b] = "gone"
    PROVE  command'[b] = "gone"
BY CommandChange

\* A batch is written deleted only after its command message is gone.
LEMMA DeletedMeansGoneStep == IInv /\ Next => DeletedMeansGone'
<1> SUFFICES ASSUME IInv, Next, NEW b \in HasCommand, batch'[b].state = "deleted"
             PROVE  command'[b] = "gone"
  BY DEF DeletedMeansGone
<1>0. TypeOK /\ PurgedIsOver /\ RecordsAreTrue /\ b \in Batches
  BY DEF IInv
<1>1. command[b] = "gone"
  BY <1>0, BatchStep DEF RecordsAreTrue, DeletedMeansGone
<1>2. QED BY <1>0, <1>1, CommandStaysGone

\* The worker marks a menu only after its card is gone.
LEMMA MarkedAfterGoneStep ==
    ASSUME IInv, Next, worker'.pc = "mark", kind'[worker'.cur] = "menu"
    PROVE  card'[worker'.cur] = "gone"
<1>0. /\ TypeOK /\ RowsTyped /\ MessagesTyped /\ WorkerHolds /\ ViewsAgree
      /\ worker \in Cycle
      /\ worker.pc = "mark" /\ kind[worker.cur] = "menu" => card[worker.cur] = "gone"
  BY DEF IInv, TypeOK, WorkerTyped, RecordsAreTrue
<1>1. ASSUME NEW c \in Cards, FetchCard(c) PROVE card'[worker'.cur] = "gone"
  BY <1>0, <1>1 DEF FetchCard, Cycle
<1>2. CASE RetireCard
  BY <1>0, <1>2 DEF RetireCard, Acknowledged, NotAcknowledged, MessagesTyped, Cycle, TypeOK,
     WorkerTyped
<1>3. ASSUME UNCHANGED worker PROVE card'[worker'.cur] = "gone"
  <2>1. /\ worker.cur \in Cards /\ Held(worker.cur) /\ worker.pc = "mark"
        /\ kind'[worker.cur] = "menu"
    BY <1>0, <1>3 DEF TypeOK, WorkerTyped, WorkerHolds
  <2>2. kind[worker.cur] = "menu"
    BY <1>0, <2>1
    DEF RowsTyped, Next, ViewStep, RemovalStep, WorkerStep, Post, Browse, Save, Submit,
        Dismiss, Click, SubmitAccepted, SubmitFailed, KeepFailed, Keep, KeepOnTimeout,
        DismissOnTimeout, DismissCard, DropCard, DropCommand, ClaimRemoval, DeleteCommand,
        FinalizeRemoval, BeginCycle, RetryCommand, ClaimExpired, FetchCard, RetireCard,
        ReleaseCard, RecordRetired, EndCycle, Restart, Tick
  <2>3. card[worker.cur] = "gone"
    BY <1>0, <2>1, <2>2
  <2>4. ASSUME NEW c \in Cards, Post(c) PROVE c # worker.cur
    BY <1>0, <2>1, <2>4 DEF Post, ViewsAgree, ViewAgrees, Held
  <2>5. card'[worker.cur] = "gone"
    BY <1>0, <2>1, <2>3, <2>4
    DEF MessagesTyped, Next, ViewStep, RemovalStep, WorkerStep, Post, Browse, Save, Submit,
        Dismiss, Click, SubmitAccepted, SubmitFailed, KeepFailed, Keep, KeepOnTimeout,
        DismissOnTimeout, DismissCard, DropCard, DropCommand, ClaimRemoval, DeleteCommand,
        FinalizeRemoval, BeginCycle, RetryCommand, ClaimExpired, FetchCard, RetireCard,
        ReleaseCard, RecordRetired, EndCycle, Restart, Tick, Acknowledged, NotAcknowledged
  <2>6. QED BY <1>3, <2>5
<1>4. CASE BeginCycle
  BY <1>4 DEF BeginCycle, NoCycle
<1>5. CASE EndCycle \/ Restart
  BY <1>5 DEF EndCycle, Restart, NoCycle
<1>6. CASE ClaimExpired \/ ReleaseCard \/ RecordRetired
  BY <1>0, <1>6 DEF ClaimExpired, ReleaseCard, RecordRetired, Cycle
<1>7. ASSUME NEW b \in Batches, RetryCommand(b) PROVE FALSE
  BY <1>0, <1>7 DEF RetryCommand, Cycle
<1>8. QED
  BY <1>1, <1>2, <1>3, <1>4, <1>5, <1>6, <1>7
  DEF Next, ViewStep, RemovalStep, WorkerStep, Post, Browse, Save, Submit, Dismiss, Click,
      SubmitAccepted, SubmitFailed, KeepFailed, Keep, KeepOnTimeout, DismissOnTimeout, DismissCard,
      DropCard, DropCommand, ClaimRemoval, DeleteCommand, FinalizeRemoval, Tick

\* What is recorded, and what an actor has noted to record, happened on Discord.
LEMMA RecordsAreTrueStep == IInv /\ Next => RecordsAreTrue'
<1> SUFFICES ASSUME IInv, Next PROVE RecordsAreTrue'
  OBVIOUS
<1>0. TypeOK /\ RecordsAreTrue /\ RemovalsTyped
  BY DEF IInv, TypeOK
<1>1. RetiredMeansGone' /\ DeletedMeansGone'
  BY RetiredMeansGoneStep, DeletedMeansGoneStep
<1>2. worker'.pc = "mark" /\ kind'[worker'.cur] = "menu" => card'[worker'.cur] = "gone"
  BY MarkedAfterGoneStep
<1>3. ASSUME NEW a \in Actors, removal'[a].pc = "finalize", removal'[a].deleted
      PROVE  command'[removal'[a].batch] = "gone"
  <2>1. \/ removal'[a] = removal[a]
        \/ removal[a].pc = "delete" /\ removal'[a].batch = removal[a].batch
           /\ \/ removal'[a].deleted = removal[a].deleted
              \/ command'[removal[a].batch] = "gone"
    BY <1>0, <1>3, RemovalChange
  <2>2. CASE removal'[a] = removal[a]
    <3>1. removal[a].batch \in Batches /\ command[removal[a].batch] = "gone"
      BY <1>0, <1>3, <2>2 DEF RecordsAreTrue, RemovalsTyped
    <3>2. QED BY <1>0, <2>2, <3>1, CommandStaysGone
  <2>3. QED BY <1>0, <1>3, <2>1, <2>2 DEF RecordsAreTrue
<1>4. ASSUME NEW b \in Batches, command'[b] = "none" PROVE b \notin HasCommand
  BY <1>0, <1>4, CommandChange DEF RecordsAreTrue
<1>5. ASSUME NEW a \in Actors, removal'[a].pc \in {"claim", "delete"}
      PROVE  ~removal'[a].deleted
  BY <1>0, <1>5, RemovalChange DEF RecordsAreTrue
<1>6. QED BY <1>1, <1>2, <1>3, <1>4, <1>5 DEF RecordsAreTrue

\* The initial state satisfies the inductive invariant.
LEMMA InitIInv == Init => IInv
<1> SUFFICES ASSUME Init PROVE IInv
  OBVIOUS
<1>1. TypeOK
  BY InitTypeOK
<1>2. /\ entry = [c \in Cards |-> NoEntry] /\ batch = [b \in Batches |-> NoRow]
      /\ command = [b \in Batches |-> IF b \in HasCommand THEN "shown" ELSE "none"]
      /\ ui = [c \in Cards |-> "unposted"]
      /\ removal = [a \in Actors |-> NoRemoval] /\ worker = NoCycle /\ now = 0
  BY DEF Init
<1>3. ClaimsAreDue
  BY <1>2 DEF ClaimsAreDue, Claimed, NoEntry, NoCycle
<1>4. ViewsAgree
  BY <1>2 DEF ViewsAgree, ViewAgrees, NoEntry
<1>5. PurgedIsOver
  BY <1>2 DEF PurgedIsOver, NoRow
<1>6. WorkerHolds
  BY <1>2 DEF WorkerHolds, NoCycle
<1>7. CommandsUnwanted
  BY <1>2 DEF CommandsUnwanted, NoCycle, NoRemoval
<1>8. RecordsAreTrue
  BY <1>2 DEF RecordsAreTrue, RetiredMeansGone, DeletedMeansGone, DismissalStates, NoEntry,
     NoRow, NoCycle, NoRemoval
<1>9. QED BY <1>1, <1>3, <1>4, <1>5, <1>6, <1>7, <1>8 DEF IInv

\* Every step, and every stutter, preserves the inductive invariant.
LEMMA IInvStep == IInv /\ [Next]_vars => IInv'
<1> SUFFICES ASSUME IInv, [Next]_vars PROVE IInv'
  OBVIOUS
<1>1. CASE Next
  <2>1. TypeOK'
    BY TypeOKStep DEF IInv
  <2>2. QED
    BY <1>1, <2>1, ClaimsAreDueStep, ViewsAgreeStep, PurgedIsOverStep, WorkerHoldsStep,
       CommandsUnwantedStep, RecordsAreTrueStep DEF IInv
<1>2. CASE UNCHANGED vars
  <2>1. TypeOK'
    BY TypeOKStep DEF IInv
  <2>2. QED
    BY <1>2, <2>1 DEF vars, IInv, ClaimsAreDue, Claimed, ViewsAgree, ViewAgrees,
       PurgedIsOver, Over, WorkerHolds, Held, CommandsUnwanted, AllDiscarded, Discarded,
       RecordsAreTrue, RetiredMeansGone, DeletedMeansGone
<1>3. QED BY <1>1, <1>2

\* The strengthening that carries the safety properties: it holds initially and
\* every step of every actor preserves it.
THEOREM Invariance == Spec => []IInv
BY InitIInv, IInvStep, PTL DEF Spec

\* A command message is gone only when none of its cards is wanted or active:
\* for any number of cards, actors, leases and restarts.
THEOREM CommandIsPreserved == Spec => []CommandPreserved
<1>1. IInv => CommandPreserved
  BY DEF IInv, CommandsUnwanted, AllDiscarded, Discarded, CommandPreserved, Wanted,
     DismissalStates, PreserveStates
<1>2. QED BY <1>1, Invariance, PTL

\* A row that says dismissed or expired speaks the truth about Discord.
THEOREM RetiredIsGone == Spec => []RetiredMeansGone
<1>1. IInv => RetiredMeansGone
  BY DEF IInv, RecordsAreTrue
<1>2. QED BY <1>1, Invariance, PTL

\* A batch row that says deleted speaks the truth about Discord.
THEOREM DeletedIsGone == Spec => []DeletedMeansGone
<1>1. IInv => DeletedMeansGone
  BY DEF IInv, RecordsAreTrue
<1>2. QED BY <1>1, Invariance, PTL

\* From a state of the invariant no step takes a card from under its user.
LEMMA NoExpiryUnderUserStep ==
    ASSUME IInv, Next, NEW d \in Cards, card[d] = "shown", card'[d] = "gone"
    PROVE  ui[d] \notin {"submitting", "accepted", "kept"}
<1>0. /\ TypeOK /\ MessagesTyped /\ ViewAgrees(d) /\ WorkerHolds
  BY DEF IInv, TypeOK, ViewsAgree
<1>1. ASSUME NEW c \in Cards, DismissCard(c) \/ DropCard(c)
      PROVE  d = c /\ ui[c] \in {"dismissing", "dropping"}
  BY <1>0, <1>1 DEF DismissCard, DropCard, Acknowledged, NotAcknowledged, MessagesTyped
<1>2. ASSUME RetireCard PROVE ui[d] \notin {"submitting", "accepted", "kept"}
  <2>1. /\ worker.pc = "delete" /\ worker.cur = d /\ kind[d] = "menu"
    BY <1>0, <1>2 DEF RetireCard, Acknowledged, NotAcknowledged, MessagesTyped
  <2>2. /\ entry[d].state # "none" /\ entry[d].state \notin PreserveStates
        /\ entry[d].state = "active" => Claimed(d)
    BY <1>0, <2>1, WorkerToken DEF WorkerHolds, Held, Claimed
  <2>3. QED BY <1>0, <2>2 DEF ViewAgrees
<1>3. ASSUME NEW c \in Cards, Post(c) PROVE FALSE
  BY <1>0, <1>3 DEF Post, MessagesTyped
<1>4. QED
  BY <1>1, <1>2, <1>3
  DEF Next, ViewStep, RemovalStep, WorkerStep, Browse, Save, Submit, Dismiss, Click,
      SubmitAccepted, SubmitFailed, KeepFailed, Keep, KeepOnTimeout, DismissOnTimeout, DropCommand,
      ClaimRemoval, DeleteCommand, FinalizeRemoval, BeginCycle, RetryCommand,
      ClaimExpired, FetchCard, ReleaseCard, RecordRetired, EndCycle, Restart, Tick

\* No step takes a card away from a user who is submitting it or whose request
\* was accepted or kept, provided a submission is answered before its card expires.
THEOREM ExpiryNeverRacesUser == Spec => NoExpiryUnderUser
<1>1. IInv /\ [Next]_vars =>
         [\A c \in Cards : card[c] = "shown" /\ card'[c] = "gone" =>
             ui[c] \notin {"submitting", "accepted", "kept"}]_vars
  BY NoExpiryUnderUserStep
<1>2. QED BY <1>1, Invariance, PTL DEF Spec, NoExpiryUnderUser

-----------------------------------------------------------------------------
(***************************************************************************)
(* The refinement.                                                         *)
(***************************************************************************)

\* A terminal row keeps its state, a card with a row keeps a row.
LEMMA RowSettles ==
    ASSUME IInv, Next, NEW d \in Cards,
           entry[d].state \in DismissalStates \union PreserveStates
    PROVE  entry'[d].state = entry[d].state
<1>0. /\ TypeOK /\ PurgedIsOver /\ RowsTyped /\ ViewAgrees(d)
      /\ entry[d].state \notin {"none", "active"}
  BY DEF IInv, TypeOK, ViewsAgree, DismissalStates, PreserveStates
<1>1. ASSUME NEW c \in Cards, Post(c) PROVE entry'[d].state = entry[d].state
  <2>1. c # d
    BY <1>0, <1>1 DEF Post, ViewAgrees
  <2>2. QED BY <1>0, <1>1, <2>1 DEF Post, RowsTyped
<1>2. ASSUME NEW c \in Cards, Click(c) PROVE entry'[d].state = entry[d].state
  BY <1>0, <1>2, ClickedRow
<1>3. ASSUME NEW c \in Cards, NEW s, NEW t, MarkTerminal(c, s, t)
      PROVE  entry'[d].state = entry[d].state
  BY <1>0, <1>3, MarkedRow DEF CanMark
<1>4. CASE ClaimExpired
  BY <1>0, <1>4 DEF ClaimExpired, ClaimableEntry
<1>5. CASE ReleaseCard
  BY <1>0, <1>5 DEF ReleaseCard, StillMine, RowsTyped
<1>6. CASE RecordRetired
  <2>1. /\ worker.cur \in Cards
        /\ \E s : MarkTerminal(worker.cur, s, worker.token)
    BY <1>0, <1>6 DEF RecordRetired, TypeOK, WorkerTyped
  <2>2. QED BY <1>3, <2>1
<1>7. CASE UNCHANGED entry
  BY <1>7
<1>8. QED
  BY <1>1, <1>2, <1>3, <1>4, <1>5, <1>6, <1>7
  DEF Next, ViewStep, RemovalStep, WorkerStep, Browse, Save, Submit, Dismiss,
      SubmitAccepted, SubmitFailed, KeepFailed, Keep, KeepOnTimeout, DismissOnTimeout, DismissCard,
      DropCard, DropCommand, ClaimRemoval, DeleteCommand, FinalizeRemoval, BeginCycle,
      RetryCommand, FetchCard, RetireCard, EndCycle, Restart, Tick

\* What a user accepted or kept is never asked again.
LEMMA AnswerStays ==
    ASSUME IInv, Next, NEW d \in Cards, ui[d] \in {"accepted", "kept"}
    PROVE  ui'[d] = ui[d]
<1>0. MessagesTyped
  BY DEF IInv, TypeOK
<1>1. ASSUME NEW c \in Cards, ViewStep(c) PROVE ui'[d] = ui[d]
  <2>1. CASE Browse(c) \/ Save(c) \/ Submit(c) \/ Dismiss(c)
    BY <1>0, <2>1 DEF MessagesTyped, Browse, Save, Submit, Dismiss, Click, StartCleanup
  <2>2. CASE Post(c) \/ SubmitAccepted(c) \/ SubmitFailed(c) \/ KeepFailed(c) \/ Keep(c) \/ KeepOnTimeout(c)
    BY <1>0, <2>2 DEF MessagesTyped, Post, SubmitAccepted, SubmitFailed, KeepFailed, Keep, KeepOnTimeout
  <2>3. CASE DismissOnTimeout(c) \/ DismissCard(c) \/ DropCard(c)
    BY <1>0, <2>3 DEF MessagesTyped, DismissOnTimeout, StartCleanup, DismissCard, DropCard
  <2>4. QED BY <1>1, <2>1, <2>2, <2>3 DEF ViewStep
<1>2. ASSUME NEW b \in Batches, DropCommand(b) PROVE ui'[d] = ui[d]
  BY <1>0, <1>2 DEF MessagesTyped, DropCommand
<1>3. CASE Restart
  BY <1>0, <1>3 DEF MessagesTyped, Restart
<1>4. CASE UNCHANGED ui
  BY <1>4
<1>5. QED
  BY <1>1, <1>2, <1>3, <1>4
  DEF Next, RemovalStep, WorkerStep, ClaimRemoval, DeleteCommand, FinalizeRemoval,
      BeginCycle, RetryCommand, ClaimExpired, FetchCard, RetireCard, ReleaseCard,
      RecordRetired, EndCycle, Tick

\* A fate other than open is settled.
LEMMA FateSettles ==
    ASSUME IInv, Next, NEW c \in Cards, Fate(c) # "open"
    PROVE  Fate(c)' = Fate(c)
<1>1. CASE Wanted(c)
  <2>1. Wanted(c)'
    BY <1>1, RowSettles, AnswerStays DEF Wanted
  <2>2. QED BY <1>1, <2>1 DEF Fate
<1>2. CASE Discarded(c) /\ ~Wanted(c)
  <2>1. Discarded(c)'
    BY <1>2, DiscardedStays
  <2>2. ~Wanted(c)'
    BY <2>1 DEF Discarded, Wanted, DismissalStates, PreserveStates
  <2>3. QED BY <1>2, <2>1, <2>2 DEF Fate
<1>3. QED BY <1>1, <1>2 DEF Fate

\* The fate of a card depends on the state of its row and view only.
LEMMA FateOf ==
    ASSUME NEW c \in Cards, entry'[c].state = entry[c].state, ui'[c] = ui[c]
    PROVE  Fate(c)' = Fate(c)
<1>1. Wanted(c)' <=> Wanted(c)
  BY DEF Wanted
<1>2. Discarded(c)' <=> Discarded(c)
  BY DEF Discarded
<1>3. QED BY <1>1, <1>2 DEF Fate

\* A view's step, and the worker's record of a card, settle no other card.
LEMMA OthersKeepFate ==
    ASSUME TypeOK, PurgedIsOver, NEW c \in Cards,
           ViewStep(c) \/ (RecordRetired /\ worker.cur = c),
           NEW d \in Cards, d # c
    PROVE  Fate(d)' = Fate(d)
<1>0. RowsTyped /\ MessagesTyped
  BY DEF TypeOK
<1>1. ui'[d] = ui[d]
  BY <1>0
  DEF MessagesTyped, ViewStep, RecordRetired, Post, Browse, Save, Submit, Dismiss, Click,
      StartCleanup, SubmitAccepted, SubmitFailed, KeepFailed, Keep, KeepOnTimeout, DismissOnTimeout,
      DismissCard, DropCard
<1>2. entry'[d] = entry[d]
  <2>1. CASE Post(c)
    BY <1>0, <2>1 DEF Post, RowsTyped
  <2>2. CASE Click(c)
    BY <2>2, ClickedRow
  <2>3. CASE \E s, t : MarkTerminal(c, s, t)
    BY <2>3, MarkedRow
  <2>4. CASE UNCHANGED entry
    BY <2>4
  <2>5. QED
    BY <2>1, <2>2, <2>3, <2>4
    DEF ViewStep, RecordRetired, Browse, Save, Submit, Dismiss, SubmitAccepted,
        SubmitFailed, KeepFailed, Keep, KeepOnTimeout, DismissOnTimeout, DismissCard, DropCard
<1>3. QED BY <1>1, <1>2, FateOf

\* A card's fate is one of the three CommandCustody knows.
LEMMA FateType == ASSUME NEW c PROVE Fate(c) \in {"open", "wanted", "discarded"}
BY DEF Fate

\* Every step is a step of CommandCustody or leaves its variables alone.
LEMMA CustodyStep ==
    IInv /\ [Next]_vars => [Custody!CustodyNext]_Custody!custodyVars
<1> SUFFICES ASSUME IInv, [Next]_vars
             PROVE  [Custody!CustodyNext]_Custody!custodyVars
  OBVIOUS
<1> DEFINE fate == [c \in Cards |-> Fate(c)]
           gone == {b \in Batches : command[b] = "gone"}
<1>0. TypeOK /\ PurgedIsOver /\ RowsTyped /\ MessagesTyped /\ CommandsUnwanted
  BY DEF IInv, TypeOK
<1>1. CASE fate' = fate /\ gone' = gone
  BY <1>1 DEF Custody!custodyVars
<1>2. ASSUME NEW c \in Cards, gone' = gone, Next,
             \A d \in Cards : d # c => Fate(d)' = Fate(d)
      PROVE  [Custody!CustodyNext]_Custody!custodyVars
  <2>1. CASE Fate(c)' = Fate(c)
    BY <1>1, <1>2, <2>1
  <2>2. CASE Fate(c) = "open" /\ Fate(c)' = "wanted"
    <3>1. fate' = [fate EXCEPT ![c] = "wanted"]
      BY <1>2, <2>2
    <3>2. Custody!Preserve(c)
      BY <1>2, <2>2, <3>1 DEF Custody!Preserve
    <3>3. QED BY <3>2 DEF Custody!CustodyNext
  <2>3. CASE Fate(c) = "open" /\ Fate(c)' = "discarded"
    <3>1. fate' = [d \in Cards |-> IF d \in {c} THEN "discarded" ELSE fate[d]]
      BY <1>2, <2>3
    <3>2. Custody!Discard({c})
      BY <1>2, <2>3, <3>1 DEF Custody!Discard
    <3>3. QED BY <3>2 DEF Custody!CustodyNext
  <2>4. Fate(c) \in {"open", "wanted", "discarded"} /\ Fate(c)' \in {"open", "wanted", "discarded"}
    BY FateType DEF Fate
  <2>5. Fate(c) # "open" => Fate(c)' = Fate(c)
    BY <1>2, FateSettles
  <2>6. QED BY <2>1, <2>2, <2>3, <2>4, <2>5
<1>3. ASSUME NEW c \in Cards, ViewStep(c)
      PROVE  [Custody!CustodyNext]_Custody!custodyVars
  <2>1. Next
    BY <1>3 DEF Next
  <2>2. UNCHANGED command
    BY <1>3 DEF ViewStep, Post, Browse, Save, Submit, Dismiss, Click, SubmitAccepted,
       SubmitFailed, KeepFailed, Keep, KeepOnTimeout, DismissOnTimeout, DismissCard, DropCard
  <2>3. \A d \in Cards : d # c => Fate(d)' = Fate(d)
    BY <1>0, <1>3, OthersKeepFate
  <2>4. QED BY <1>2, <2>1, <2>2, <2>3
<1>4. CASE RecordRetired
  <2>1. Next /\ worker.cur \in Cards /\ UNCHANGED command
    BY <1>0, <1>4 DEF Next, WorkerStep, RecordRetired, TypeOK, WorkerTyped
  <2>2. \A d \in Cards : d # worker.cur => Fate(d)' = Fate(d)
    BY <1>0, <1>4, <2>1, OthersKeepFate
  <2>3. QED BY <1>2, <2>1, <2>2
<1>5. ASSUME NEW b \in Batches, \A c \in Cards : Fate(c)' = Fate(c), AllDiscarded(b),
             \A e \in Batches : e # b => command'[e] = command[e],
             command'[b] \in {command[b], "gone"}
      PROVE  [Custody!CustodyNext]_Custody!custodyVars
  <2>1. fate' = fate
    BY <1>5
  <2>2. CASE command'[b] = command[b]
    <3>1. gone' = gone
      BY <1>5, <2>2
    <3>2. QED BY <1>1, <2>1, <3>1
  <2>3. CASE command'[b] = "gone"
    <3>1. gone' = gone \union {b}
      BY <1>5, <2>3
    <3>2. \A c \in Cards : BatchOf[c] = b => fate[c] = "discarded"
      BY <1>5 DEF AllDiscarded, CardsOf, Fate, Discarded, Wanted, DismissalStates,
         PreserveStates
    <3>3. Custody!Remove(b)
      BY <2>1, <3>1, <3>2 DEF Custody!Remove
    <3>4. QED BY <3>3 DEF Custody!CustodyNext
  <2>4. QED BY <1>5, <2>2, <2>3
<1>6. ASSUME NEW a \in Actors, DeleteCommand(a)
      PROVE  [Custody!CustodyNext]_Custody!custodyVars
  <2>1. \A c \in Cards : Fate(c)' = Fate(c)
    BY <1>6, FateOf DEF DeleteCommand
  <2>2. removal[a].batch \in Batches /\ AllDiscarded(removal[a].batch)
    BY <1>0, <1>6 DEF DeleteCommand, TypeOK, RemovalsTyped, CommandsUnwanted
  <2>3. /\ \A e \in Batches : e # removal[a].batch => command'[e] = command[e]
        /\ command'[removal[a].batch] \in {command[removal[a].batch], "gone"}
    BY <1>0, <1>6, <2>2 DEF DeleteCommand, Acknowledged, NotAcknowledged, MessagesTyped
  <2>4. QED BY <1>5, <2>1, <2>2, <2>3
<1>7. ASSUME NEW b \in Batches, DropCommand(b)
      PROVE  [Custody!CustodyNext]_Custody!custodyVars
  <2>1. AllDiscarded(b)
    BY <1>7 DEF IInv, DropCommand, AllDiscarded, Discarded, ViewsAgree, ViewAgrees, CardsOf,
       DismissalStates
  <2>2. Next /\ UNCHANGED entry
    BY <1>7 DEF Next, DropCommand
  <2>3. ASSUME NEW c \in Cards PROVE Fate(c)' = Fate(c)
    <3>1. CASE c \in CardsOf(b)
      <4>1. Fate(c) = "discarded"
        BY <2>1, <3>1 DEF AllDiscarded, Fate, Discarded, Wanted, DismissalStates,
           PreserveStates
      <4>2. QED BY <2>2, <4>1, FateSettles
    <3>2. CASE c \notin CardsOf(b)
      BY <1>0, <1>7, <2>2, <3>2, FateOf DEF DropCommand, MessagesTyped
    <3>3. QED BY <3>1, <3>2
  <2>4. /\ \A e \in Batches : e # b => command'[e] = command[e]
        /\ command'[b] \in {command[b], "gone"}
    BY <1>0, <1>7 DEF DropCommand, Acknowledged, NotAcknowledged, MessagesTyped
  <2>5. QED BY <1>5, <2>1, <2>3, <2>4
<1>8. CASE Restart
  <2> DEFINE D == {c \in Cards : Fate(c) = "open" /\ Fate(c)' = "discarded"}
  <2>1. Next /\ UNCHANGED <<entry, command>>
    BY <1>8 DEF Next, Restart
  <2>2. ASSUME NEW c \in Cards
        PROVE  Fate(c)' = IF c \in D THEN "discarded" ELSE Fate(c)
    <3>1. Wanted(c)' => Wanted(c)
      BY <1>0, <1>8, <2>1 DEF Restart, Wanted, MessagesTyped
    <3>2. Fate(c)' = "wanted" => Fate(c) = "wanted"
      <4>1. Fate(c)' = "wanted" => Wanted(c)'
        BY DEF Fate
      <4>2. Wanted(c) => Fate(c) = "wanted"
        BY DEF Fate
      <4>3. QED BY <3>1, <4>1, <4>2
    <3>3. Fate(c) # "open" => Fate(c)' = Fate(c)
      BY <2>1, FateSettles
    <3>4. Fate(c)' \in {"open", "wanted", "discarded"}
      BY DEF Fate
    <3>5. QED BY <3>2, <3>3, <3>4
  <2>3. fate' = [c \in Cards |-> IF c \in D THEN "discarded" ELSE fate[c]]
    BY <2>2
  <2>4. gone' = gone
    BY <2>1
  <2>5. Custody!Discard(D)
    BY <2>3, <2>4 DEF Custody!Discard
  <2>6. QED BY <2>5 DEF Custody!CustodyNext
<1>9. ASSUME UNCHANGED <<ui, command>>, \A c \in Cards : entry'[c].state = entry[c].state
      PROVE  [Custody!CustodyNext]_Custody!custodyVars
  BY <1>1, <1>9, FateOf
<1>10. CASE ClaimExpired
  <2>1. \A c \in Cards : entry'[c].state = entry[c].state
    BY <1>0, <1>10 DEF ClaimExpired, RowsTyped, EntryRow
  <2>2. QED BY <1>9, <1>10, <2>1 DEF ClaimExpired
<1>11. CASE ReleaseCard
  <2>1. \A c \in Cards : entry'[c].state = entry[c].state
    BY <1>0, <1>11 DEF ReleaseCard, RowsTyped, EntryRow
  <2>2. QED BY <1>9, <1>11, <2>1 DEF ReleaseCard
<1>12. CASE UNCHANGED <<entry, ui, command>>
  BY <1>9, <1>12
<1>13. CASE UNCHANGED vars
  BY <1>12, <1>13 DEF vars
<1>14. QED
  BY <1>3, <1>4, <1>6, <1>7, <1>8, <1>10, <1>11, <1>12, <1>13
  DEF Next, RemovalStep, WorkerStep, ClaimRemoval, FinalizeRemoval, BeginCycle,
      RetryCommand, FetchCard, RetireCard, EndCycle, Tick

\* The rows, views and workers implement CommandCustody: a card's fate is
\* settled once, and a command goes only after all its cards were discarded.
THEOREM CustodyImplemented == Spec => ImplementsCustody
<1>1. Init => Custody!CustodyInit
  <2> SUFFICES ASSUME Init PROVE Custody!CustodyInit
    OBVIOUS
  <2>1. \A c \in Cards : Fate(c) = "open"
    BY DEF Init, Fate, Wanted, Discarded, NoEntry, PreserveStates
  <2>2. \A b \in Batches : command[b] # "gone"
    BY DEF Init
  <2>3. QED BY <2>1, <2>2 DEF Custody!CustodyInit
<1>2. IInv /\ [Next]_vars => [Custody!CustodyNext]_Custody!custodyVars
  BY CustodyStep
<1>3. QED BY <1>1, <1>2, Invariance, PTL DEF Spec, ImplementsCustody, Custody!CustodySpec

=============================================================================
