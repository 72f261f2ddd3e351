------------------------ MODULE RequestLedgerProofs ------------------------
(***************************************************************************)
(* Proofs about RequestLedger, for any number of forms, units, failures    *)
(* and stops of the process: the invariant of the ledger and its tracked   *)
(* rows, and that no step writes off what was accepted or mentions what is *)
(* not so.                                                                 *)
(*                                                                         *)
(* The stated invariant is about rows.  Why a row is backed by a provider  *)
(* lies in the handler that wrote it, three awaits earlier, and in the     *)
(* intent it left behind for recovery, so the inductive invariant ties the *)
(* handler, the intent, the row and what the watcher read of it together.  *)
(***************************************************************************)
EXTENDS RequestLedger, TLAPS

-----------------------------------------------------------------------------
(***************************************************************************)
(* The inductive invariant.                                                *)
(***************************************************************************)

\* The intent of a form follows its handler: none before the acknowledgement is
\* answered, open while providers are asked, with the same Seerr id known.  No
\* handler survives a stop.
SubmissionShape ==
    \A f \in Forms :
        /\ job[f].pc \in {"none", "open", "ack"} =>
              intent[f].state = "none" /\ ~job[f].seerr /\ job[f].accepted = {}
        /\ job[f].pc \in Submitting =>
              intent[f].state \in {"prepared", "accepted"} /\ intent[f].seerr = job[f].seerr
        /\ job[f].pc = "verify" => job[f].seerr
        /\ up # "running" => job[f].pc \in {"none", "lost"}

\* What a handler holds as accepted, and what its intent says so, the providers took.
Backed(f, seerrKnown, accepted) ==
    /\ seerrKnown => seerr[f].status \in {"open", "declined"}
    /\ accepted \intersect SelectedDirect[f] \subseteq sonarr[f]
    /\ ~seerrKnown => accepted \subseteq sonarr[f]

BackingShape ==
    \A f \in Forms : /\ seerr[f].granted \subseteq SelectedSeerr[f]
                     /\ Backed(f, job[f].seerr, job[f].accepted)
                     /\ Backed(f, intent[f].seerr, intent[f].accepted)

\* A row is that of its form's intent, under the id the intent gives it, and nobody
\* changes that intent's units any more.  A confirmed mention was for a row that was
\* available.
RowShape ==
    /\ \A f \in Forms : \A p \in {"seerr", "direct"} :
          row[<<f, p>>].status # "none" =>
              /\ job[f].pc \in {"over", "lost"} /\ intent[f].state \in {"accepted", "tracked"}
              /\ p = IF intent[f].seerr THEN "seerr" ELSE "direct"
              /\ row[<<f, p>>].units = intent[f].accepted
    /\ \A k \in Keys : row[k].notified => row[k].available

\* Recovery has an accepted intent of an earlier process still to track, or knows that
\* it failed to.
BootShape ==
    /\ \A f \in boot.todo : up = "starting" /\ intent[f].state = "accepted"
    /\ up = "starting" =>
          \A f \in Forms : job[f].pc = "lost" /\ intent[f].state = "accepted" =>
              f \in boot.todo \/ boot.failed

\* The keys that the watcher's cycle has not done with.
Underway == watcher.todo \union (IF watcher.pc \in {"look", "send"} THEN {watcher.cur} ELSE {})

\* What the watcher read of these at its poll is what it will mention: nobody has been
\* told, and the units are the same still.
WatchShape ==
    /\ up # "running" => watcher.pc = "idle"
    /\ watcher.pc = "idle" => watcher.todo = {}
    /\ watcher.pc \in {"look", "send"} => watcher.cur \notin watcher.todo
    /\ \A k \in Underway :
          /\ row[k].status # "none" /\ ~row[k].notified
          /\ row[k].units = watcher.seen[k].units
          /\ watcher.seen[k].available => row[k].available
    /\ watcher.pc = "send" =>
          row[watcher.cur].available /\ row[watcher.cur].units \subseteq library

LedgerIInv == TypeOK /\ SubmissionShape /\ BackingShape /\ RowShape /\ BootShape
              /\ RecoveredAtStartup /\ WatchShape

-----------------------------------------------------------------------------
(***************************************************************************)
(* The records of a handler, of an intent and of a row.                    *)
(***************************************************************************)
Places == {"none", "open", "ack", "over", "lost"} \union Submitting

\* A handler that goes on to its next await knows what it knew.
LEMMA MovedJob ==
    ASSUME NEW j \in Job, NEW pc \in Places
    PROVE  /\ [j EXCEPT !.pc = pc] \in Job /\ [j EXCEPT !.pc = pc].pc = pc
           /\ [j EXCEPT !.pc = pc].seerr = j.seerr
           /\ [j EXCEPT !.pc = pc].accepted = j.accepted
BY DEF Job, Places

\* A handler that has recorded an acceptance.
LEMMA RecordedJob ==
    ASSUME NEW pc \in Places, NEW id \in BOOLEAN, NEW units \in SUBSET Units,
           NEW j, j = [pc |-> pc, seerr |-> id, accepted |-> units]
    PROVE  j \in Job /\ j.pc = pc /\ j.seerr = id /\ j.accepted = units
BY DEF Job, Places

\* An intent whose units are known.
LEMMA AcceptedIntent ==
    ASSUME NEW state \in {"prepared", "accepted"}, NEW id \in BOOLEAN, NEW units \in SUBSET Units,
           NEW i, i = [state |-> state, seerr |-> id, accepted |-> units]
    PROVE  i \in Intent /\ i.state = state /\ i.seerr = id /\ i.accepted = units
BY DEF Intent

\* An intent that is closed keeps its units.
LEMMA ClosedIntent ==
    ASSUME NEW i \in Intent, NEW state \in {"tracked", "failed"}
    PROVE  /\ [i EXCEPT !.state = state] \in Intent /\ [i EXCEPT !.state = state].state = state
           /\ [i EXCEPT !.state = state].seerr = i.seerr
           /\ [i EXCEPT !.state = state].accepted = i.accepted
BY DEF Intent

\* A row that is tracked is live with the units of its intent.
LEMMA TrackedRow ==
    ASSUME NEW r \in Row, NEW units \in SUBSET Units
    PROVE  /\ [r EXCEPT !.status = "live", !.units = units] \in Row
           /\ [r EXCEPT !.status = "live", !.units = units].status = "live"
           /\ [r EXCEPT !.status = "live", !.units = units].units = units
           /\ [r EXCEPT !.status = "live", !.units = units].available = r.available
           /\ [r EXCEPT !.status = "live", !.units = units].notified = r.notified
BY DEF Row

\* The watcher stores Seerr's status.
LEMMA StatusRow ==
    ASSUME NEW r \in Row, NEW status \in {"live", "declined"}
    PROVE  /\ [r EXCEPT !.status = status] \in Row /\ [r EXCEPT !.status = status].status = status
           /\ [r EXCEPT !.status = status].units = r.units
           /\ [r EXCEPT !.status = status].available = r.available
           /\ [r EXCEPT !.status = status].notified = r.notified
BY DEF Row

\* It stores that a row is available.
LEMMA AvailableRow ==
    ASSUME NEW r \in Row
    PROVE  /\ [r EXCEPT !.available = TRUE] \in Row /\ [r EXCEPT !.available = TRUE].available
           /\ [r EXCEPT !.available = TRUE].status = r.status
           /\ [r EXCEPT !.available = TRUE].units = r.units
           /\ [r EXCEPT !.available = TRUE].notified = r.notified
BY DEF Row

\* It stores that the requester has been told.
LEMMA NotifiedRow ==
    ASSUME NEW r \in Row
    PROVE  /\ [r EXCEPT !.notified = TRUE] \in Row /\ [r EXCEPT !.notified = TRUE].notified
           /\ [r EXCEPT !.notified = TRUE].status = r.status
           /\ [r EXCEPT !.notified = TRUE].units = r.units
           /\ [r EXCEPT !.notified = TRUE].available = r.available
BY DEF Row

-----------------------------------------------------------------------------
(***************************************************************************)
(* The steps of a handler.                                                 *)
(***************************************************************************)

\* A handler that goes on with intent i, and has tracked nothing yet, keeps the
\* invariant when it holds the same as its intent, and both no more than was taken.
LEMMA HandlerStep ==
    ASSUME LedgerIInv, NEW f \in Forms, NEW j \in Job, NEW i \in Intent,
           up = "running", job[f].pc \notin {"over", "lost"}, j.pc # "lost",
           job' = [job EXCEPT ![f] = j], intent' = [intent EXCEPT ![f] = i],
           faults' \in Nat,
           UNCHANGED <<up, boot, row, watcher, seerr, sonarr, library, mentions, crashes>>,
           j.pc \in {"none", "open", "ack"} => i.state = "none" /\ ~j.seerr /\ j.accepted = {},
           j.pc \in Submitting => i.state \in {"prepared", "accepted"} /\ i.seerr = j.seerr,
           j.pc = "verify" => j.seerr,
           Backed(f, j.seerr, j.accepted), Backed(f, i.seerr, i.accepted)
    PROVE  LedgerIInv'
<1> USE DEF LedgerIInv
<1>1. /\ job' \in [Forms -> Job] /\ intent' \in [Forms -> Intent]
      /\ job'[f] = j /\ intent'[f] = i
      /\ \A g \in Forms \ {f} : job'[g] = job[g] /\ intent'[g] = intent[g]
  BY DEF TypeOK
<1>2. TypeOK'
  BY <1>1 DEF TypeOK
<1>3. SubmissionShape'
  BY <1>1 DEF SubmissionShape
<1>4. BackingShape'
  BY <1>1 DEF BackingShape, Backed
<1>5. RowShape'
  <2>1. \A p \in {"seerr", "direct"} : row[<<f, p>>].status = "none"
    BY DEF RowShape
  <2>2. QED BY <1>1, <2>1 DEF RowShape
<1>6. BootShape'
  BY <1>1 DEF BootShape
<1>7. RecoveredAtStartup'
  BY <1>1 DEF RecoveredAtStartup
<1>8. WatchShape'
  BY DEF WatchShape, Underway
<1>9. QED BY <1>2, <1>3, <1>4, <1>5, <1>6, <1>7, <1>8

\* The same where only the await changes.
LEMMA MoveStep ==
    ASSUME LedgerIInv, NEW f \in Forms, NEW pc \in Places \ {"lost"},
           up = "running", job[f].pc \notin {"over", "lost"},
           job' = [job EXCEPT ![f].pc = pc],
           NEW i \in Intent, intent' = [intent EXCEPT ![f] = i],
           faults' \in Nat,
           UNCHANGED <<up, boot, row, watcher, seerr, sonarr, library, mentions, crashes>>,
           pc \in {"none", "open", "ack"} =>
              i.state = "none" /\ job[f].pc \in {"none", "open", "ack"},
           pc \in Submitting => i.state \in {"prepared", "accepted"} /\ i.seerr = job[f].seerr,
           pc = "verify" => job[f].seerr,
           Backed(f, i.seerr, i.accepted)
    PROVE  LedgerIInv'
<1> DEFINE j == [job[f] EXCEPT !.pc = pc]
<1>1. job[f] \in Job
  BY DEF LedgerIInv, TypeOK
<1>2. j \in Job /\ j.pc = pc /\ j.seerr = job[f].seerr /\ j.accepted = job[f].accepted
  BY <1>1, MovedJob
<1>3. job' = [job EXCEPT ![f] = j]
  OBVIOUS
<1> HIDE DEF j
<1>4. Backed(f, j.seerr, j.accepted)
  BY <1>2 DEF LedgerIInv, BackingShape
<1>5. job[f].pc \in {"none", "open", "ack"} => ~job[f].seerr /\ job[f].accepted = {}
  BY DEF LedgerIInv, SubmissionShape
<1>6. QED BY <1>2, <1>3, <1>4, <1>5, HandlerStep

\* The intent that fails closed is open still, or was never accepted.
LEMMA FailedKeeps ==
    ASSUME LedgerIInv, NEW f \in Forms
    PROVE  Failed(f) \in Intent /\ Backed(f, Failed(f).seerr, Failed(f).accepted)
<1> DEFINE i == [intent[f] EXCEPT !.state = "failed"]
<1>1. intent[f] \in Intent /\ Backed(f, intent[f].seerr, intent[f].accepted)
  BY DEF LedgerIInv, TypeOK, BackingShape
<1>2. i \in Intent /\ i.seerr = intent[f].seerr /\ i.accepted = intent[f].accepted
  BY <1>1, ClosedIntent
<1>3. Failed(f) = i \/ Failed(f) = intent[f]
  BY DEF Failed
<1> HIDE DEF i
<1>4. QED BY <1>1, <1>2, <1>3

\* A form that is not turned away yet belongs to a process that runs.
LEMMA HandlerRuns ==
    ASSUME LedgerIInv, NEW f \in Forms, job[f].pc \notin {"none", "lost"} PROVE up = "running"
BY DEF LedgerIInv, SubmissionShape

\* The form is shown, confirmed or cancelled; nothing is written yet.
LEMMA FormStep ==
    ASSUME LedgerIInv, NEW f \in Forms, Show(f) \/ Confirm(f) \/ Cancel(f) PROVE LedgerIInv'
<1>1. /\ job[f].pc \in {"none", "open"} /\ up = "running"
      /\ intent[f] \in Intent /\ intent[f].state = "none" /\ faults \in Nat
      /\ Backed(f, intent[f].seerr, intent[f].accepted)
      /\ intent' = [intent EXCEPT ![f] = intent[f]]
      /\ UNCHANGED <<up, boot, row, watcher, seerr, sonarr, library, mentions, crashes, faults>>
  BY HandlerRuns DEF LedgerIInv, TypeOK, SubmissionShape, BackingShape, Show, Confirm, Cancel
<1>2. PICK pc \in {"open", "ack", "over"} : job' = [job EXCEPT ![f].pc = pc]
  BY DEF Show, Confirm, Cancel
<1>3. QED BY <1>1, <1>2, MoveStep DEF Places, Submitting

\* The acknowledgement: the intent is written, or the handler ends without one.
LEMMA AcknowledgeStep ==
    ASSUME LedgerIInv, NEW f \in Forms, Acknowledge(f) PROVE LedgerIInv'
<1>1. /\ job[f].pc = "ack" /\ up = "running" /\ faults' \in Nat
      /\ intent[f] \in Intent /\ intent[f].state = "none" /\ job[f].seerr = FALSE
      /\ Backed(f, intent[f].seerr, intent[f].accepted)
      /\ UNCHANGED <<up, boot, row, watcher, seerr, sonarr, library, mentions, crashes>>
  BY HandlerRuns DEF LedgerIInv, TypeOK, Job, SubmissionShape, BackingShape, Acknowledge, Fault, NoFault
<1>2. /\ Begun \in Intent /\ Begun.state = "prepared" /\ Begun.seerr = FALSE /\ Begun.accepted = {}
  BY DEF Begun, Intent
<1>3. ASSUME NEW pc \in {"create", "repair"}, job' = [job EXCEPT ![f].pc = pc],
             intent' = [intent EXCEPT ![f] = Begun]
      PROVE  LedgerIInv'
  <2>1. Backed(f, Begun.seerr, Begun.accepted)
    BY <1>2 DEF Backed
  <2>2. QED BY <1>1, <1>2, <1>3, <2>1, MoveStep DEF Places, Submitting
<1>4. ASSUME NEW pc \in {"open", "over"}, job' = [job EXCEPT ![f].pc = pc], UNCHANGED intent
      PROVE  LedgerIInv'
  <2>1. intent' = [intent EXCEPT ![f] = intent[f]]
    BY <1>4 DEF LedgerIInv, TypeOK
  <2>2. QED BY <1>1, <1>4, <2>1, MoveStep DEF Places, Submitting
<1>5. QED BY <1>3, <1>4 DEF Acknowledge

\* A handler that gives up, or is abandoned by an error, ends.
LEMMA GiveUpStep ==
    ASSUME LedgerIInv, NEW f \in Forms, job[f].pc \in Submitting,
           (GiveUp(f) /\ NoFault) \/ Abandon(f),
           UNCHANGED <<up, boot, row, watcher, seerr, sonarr, library, mentions, crashes>>
    PROVE  LedgerIInv'
<1>1. /\ up = "running" /\ faults' \in Nat /\ intent[f] \in Intent 
      /\ Backed(f, intent[f].seerr, intent[f].accepted)
  BY HandlerRuns DEF LedgerIInv, TypeOK, BackingShape, GiveUp, Abandon, Fault, NoFault, Submitting
<1>2. PICK i \in {intent[f], Failed(f)} : intent' = [intent EXCEPT ![f] = i]
  BY DEF GiveUp, Abandon, LedgerIInv, TypeOK
<1>3. i \in Intent /\ Backed(f, i.seerr, i.accepted)
  BY <1>1, <1>2, FailedKeeps
<1>4. PICK pc \in {"over"} : job' = [job EXCEPT ![f].pc = pc]
  BY DEF GiveUp, Abandon
<1>5. QED BY <1>1, <1>2, <1>3, <1>4, MoveStep DEF Places, Submitting

\* The acceptance that an open intent takes.
LEMMA AcceptedForms ==
    ASSUME LedgerIInv, NEW f \in Forms, job[f].pc \in Submitting, NEW id \in BOOLEAN,
           NEW units \in SUBSET Units, job[f].seerr => id, Backed(f, id, units)
    PROVE  /\ Accepted(f, id, units) \in Intent /\ Accepted(f, id, units).state = "accepted"
           /\ Accepted(f, id, units).seerr = id /\ Accepted(f, id, units).accepted = units
<1>1. /\ intent[f].state \in {"prepared", "accepted"} /\ intent[f].seerr = job[f].seerr
      /\ job[f] \in Job
  BY DEF LedgerIInv, TypeOK, SubmissionShape
<1>2. (id \/ intent[f].seerr) = id
  BY <1>1 DEF Job
<1>3. Accepted(f, id, units) = [state |-> "accepted", seerr |-> id, accepted |-> units]
  BY <1>1, <1>2 DEF Accepted
<1>4. QED BY <1>3, AcceptedIntent

\* What is recorded as accepted was taken by a provider.
LEMMA RecordStep ==
    ASSUME LedgerIInv, NEW f \in Forms, job[f].pc \in Submitting,
           NEW pc \in Submitting, NEW id \in BOOLEAN, NEW units \in SUBSET Units,
           Record(f, pc, id, units), job[f].seerr => id, pc = "verify" => id,
           Backed(f, id, units),
           UNCHANGED <<up, boot, row, watcher, seerr, sonarr, library, mentions, crashes>>
    PROVE  LedgerIInv'
<1> DEFINE j == [pc |-> pc, seerr |-> id, accepted |-> units]
           i == Accepted(f, id, units)
<1>1. j \in Job /\ j.pc = pc /\ j.seerr = id /\ j.accepted = units
  BY RecordedJob DEF Places
<1>2. i \in Intent /\ i.state = "accepted" /\ i.seerr = id /\ i.accepted = units
  BY AcceptedForms
<1>3. job' = [job EXCEPT ![f] = j] /\ intent' = [intent EXCEPT ![f] = i] /\ faults' \in Nat
  BY DEF Record, NoFault, LedgerIInv, TypeOK
<1> HIDE DEF i, j
<1>4. up = "running"
  BY HandlerRuns DEF Submitting
<1>5. QED BY <1>1, <1>2, <1>3, <1>4, HandlerStep DEF Submitting

\* The answer of Seerr, or the seasons it names when it is asked again.
LEMMA CreateStep ==
    ASSUME LedgerIInv, NEW f \in Forms, Create(f) \/ Verify(f) PROVE LedgerIInv'
<1>1. /\ job[f].pc \in {"create", "verify"} /\ job[f] \in Job
      /\ job[f].pc = "verify" => job[f].seerr
      /\ job[f].seerr => seerr[f].status \in {"open", "declined"}
      /\ UNCHANGED <<up, boot, row, watcher, seerr, sonarr, library, mentions, crashes>>
  BY DEF LedgerIInv, TypeOK, SubmissionShape, BackingShape, Backed, Create, Verify
<1>2. AfterSeerr(f) \in Submitting /\ AfterSeerr(f) # "verify"
  BY DEF AfterSeerr, Submitting
<1>3. ASSUME NEW units \in {seerr[f].granted, SelectedSeerr[f]}
      PROVE  /\ units \in SUBSET Units
             /\ seerr[f].status \in {"open", "declined"} => Backed(f, TRUE, units)
  BY ConstantsAssumption DEF LedgerIInv, BackingShape, Backed
<1>4. ASSUME NEW pc \in Submitting, NEW units \in {seerr[f].granted, SelectedSeerr[f]},
             Record(f, pc, TRUE, units), seerr[f].status \in {"open", "declined"}
      PROVE  LedgerIInv'
  BY <1>1, <1>3, <1>4, RecordStep DEF Submitting
<1>5. ASSUME Fault, intent' = [intent EXCEPT ![f] = Accepted(f, TRUE, SelectedSeerr[f])],
             job' = [job EXCEPT ![f].pc = "over"], seerr[f].status \in {"open", "declined"}
      PROVE  LedgerIInv'
  <2> DEFINE i == Accepted(f, TRUE, SelectedSeerr[f])
  <2>1. i \in Intent /\ Backed(f, i.seerr, i.accepted)
    BY <1>1, <1>3, <1>5, AcceptedForms DEF Submitting
  <2>2. intent' = [intent EXCEPT ![f] = i]
    BY <1>5
  <2> HIDE DEF i
  <2>3. up = "running" /\ faults' \in Nat
    BY <1>1, <1>5, HandlerRuns DEF LedgerIInv, TypeOK, Fault
  <2>4. PICK pc \in {"over"} : job' = [job EXCEPT ![f].pc = pc]
    BY <1>5
  <2>5. QED BY <1>1, <2>1, <2>2, <2>3, <2>4, MoveStep DEF Places, Submitting
<1>6. ASSUME (GiveUp(f) /\ NoFault) \/ Abandon(f) PROVE LedgerIInv'
  BY <1>1, <1>6, GiveUpStep DEF Submitting
<1>7. CASE Create(f)
  BY <1>2, <1>4, <1>5, <1>6, <1>7 DEF Create, Submitting
<1>8. CASE Verify(f)
  BY <1>1, <1>2, <1>4, <1>6, <1>8 DEF Verify, Submitting
<1>9. QED BY <1>7, <1>8

\* The answer of Sonarr.
LEMMA RepairStep == ASSUME LedgerIInv, NEW f \in Forms, Repair(f) PROVE LedgerIInv'
<1>1. /\ job[f].pc = "repair" /\ job[f] \in Job /\ sonarr[f] \in SUBSET Units
      /\ up = "running" /\ faults' \in Nat
      /\ intent[f] \in Intent /\ intent[f].state \in {"prepared", "accepted"}
      /\ intent[f].seerr = job[f].seerr
      /\ Backed(f, job[f].seerr, job[f].accepted)
      /\ Backed(f, intent[f].seerr, intent[f].accepted)
      /\ UNCHANGED <<up, boot, row, watcher, seerr, sonarr, library, mentions, crashes>>
  BY HandlerRuns DEF LedgerIInv, TypeOK, SubmissionShape, BackingShape, Repair, Record, Abandon,
                     GiveUp, Fault, NoFault, Submitting
<1>2. CASE Record(f, "finish", job[f].seerr, job[f].accepted \union sonarr[f])
  <2> DEFINE id == job[f].seerr
             units == job[f].accepted \union sonarr[f]
  <2>1. id \in BOOLEAN /\ units \in SUBSET Units /\ Backed(f, id, units)
    BY <1>1 DEF Job, Backed
  <2>2. Record(f, "finish", id, units) /\ (job[f].seerr => id)
    BY <1>2
  <2> HIDE DEF id, units
  <2>3. QED BY <1>1, <2>1, <2>2, RecordStep DEF Submitting
<1>3. CASE job' = [job EXCEPT ![f].pc = "finish"] /\ UNCHANGED intent
  <2>1. intent' = [intent EXCEPT ![f] = intent[f]]
    BY <1>3 DEF LedgerIInv, TypeOK
  <2>2. PICK pc \in {"finish"} : job' = [job EXCEPT ![f].pc = pc]
    BY <1>3
  <2>3. QED BY <1>1, <2>1, <2>2, MoveStep DEF Places, Submitting
<1>4. CASE (GiveUp(f) /\ NoFault) \/ Abandon(f)
  BY <1>1, <1>4, GiveUpStep DEF Submitting
<1>5. QED BY <1>2, <1>3, <1>4 DEF Repair

-----------------------------------------------------------------------------
(***************************************************************************)
(* An intent is tracked.                                                   *)
(***************************************************************************)

\* Tracking an intent under its own id, or failing to, leaves the rows those of their
\* intents, and what the watcher reads of a row that was there.
LEMMA TrackKeeps ==
    ASSUME LedgerIInv, NEW f \in Forms, NEW i \in Intent,
           i.state \in {"accepted", "tracked"},
           intent' = [intent EXCEPT ![f] = i],
           row' \in {row, Upserted(TrackingKey(f, i.seerr), i.accepted)},
           \A p \in {"seerr", "direct"} : row[<<f, p>>].status # "none" =>
              i.seerr = intent[f].seerr /\ i.accepted = intent[f].accepted,
           job'[f].pc \in {"over", "lost"},
           \A g \in Forms \ {f} : job'[g] = job[g]
    PROVE  /\ row' \in [Keys -> Row] /\ RowShape'
           /\ \A k \in Keys :
                 /\ row'[k].available = row[k].available /\ row'[k].notified = row[k].notified
                 /\ row[k].status # "none" =>
                       row'[k].status # "none" /\ row'[k].units = row[k].units
<1> DEFINE key == TrackingKey(f, i.seerr)
           r == [row[key] EXCEPT !.status = "live", !.units = i.accepted]
<1>1. /\ row \in [Keys -> Row] /\ RowShape /\ i.accepted \in SUBSET Units
      /\ intent \in [Forms -> Intent]
  BY DEF LedgerIInv, TypeOK, Intent
<1>2. key = <<f, IF i.seerr THEN "seerr" ELSE "direct">> /\ key \in Keys
  BY DEF TrackingKey, Keys
<1>3. /\ r \in Row /\ r.status = "live" /\ r.units = i.accepted
      /\ r.available = row[key].available /\ r.notified = row[key].notified
  BY <1>1, <1>2, TrackedRow
<1>4. row' = row \/ row' = [row EXCEPT ![key] = r]
  BY DEF Upserted
<1>5. /\ intent'[f] = i /\ \A g \in Forms \ {f} : intent'[g] = intent[g]
  BY <1>1
<1> HIDE DEF r
<1>6. \A p \in {"seerr", "direct"} : row[<<f, p>>].status # "none" =>
         key = <<f, p>> /\ row[<<f, p>>].units = i.accepted
  BY <1>1, <1>2 DEF RowShape
<1> HIDE DEF key
<1>7. CASE row' = row
  BY <1>1, <1>5, <1>7 DEF RowShape
<1>8. CASE row' = [row EXCEPT ![key] = r]
  <2>1. row' \in [Keys -> Row] /\ row'[key] = r /\ \A k \in Keys \ {key} : row'[k] = row[k]
    BY <1>1, <1>2, <1>3, <1>8
  <2>2. ASSUME NEW k \in Keys
        PROVE  /\ row'[k].available = row[k].available /\ row'[k].notified = row[k].notified
               /\ row[k].status # "none" =>
                     row'[k].status # "none" /\ row'[k].units = row[k].units
    <3>1. CASE k = key
      <4>1. PICK p \in {"seerr", "direct"} : key = <<f, p>>
        BY <1>2
      <4>2. QED BY <1>3, <1>6, <2>1, <3>1, <4>1
    <3>2. CASE k # key
      BY <2>1, <3>2
    <3>3. QED BY <3>1, <3>2
  <2>3. ASSUME NEW g \in Forms, NEW p \in {"seerr", "direct"}, row'[<<g, p>>].status # "none"
        PROVE  /\ job'[g].pc \in {"over", "lost"} /\ intent'[g].state \in {"accepted", "tracked"}
               /\ p = IF intent'[g].seerr THEN "seerr" ELSE "direct"
               /\ row'[<<g, p>>].units = intent'[g].accepted
    <3>1. <<g, p>> \in Keys
      BY DEF Keys
    <3>2. CASE <<g, p>> = key
      BY <1>2, <1>3, <1>5, <2>1, <3>2
    <3>3. CASE <<g, p>> # key
      <4>1. row'[<<g, p>>] = row[<<g, p>>]
        BY <2>1, <3>1, <3>3
      <4>2. g # f
        BY <1>6, <2>3, <3>3, <4>1
      <4>3. job'[g] = job[g] /\ intent'[g] = intent[g] /\ row[<<g, p>>].status # "none"
        BY <1>5, <2>3, <4>1, <4>2
      <4>4. /\ job[g].pc \in {"over", "lost"} /\ intent[g].state \in {"accepted", "tracked"}
            /\ p = IF intent[g].seerr THEN "seerr" ELSE "direct"
            /\ row[<<g, p>>].units = intent[g].accepted
        BY <1>1, <4>3 DEF RowShape
      <4>5. QED BY <4>1, <4>3, <4>4
    <3>4. QED BY <3>2, <3>3
  <2>4. \A k \in Keys : row'[k].notified => row'[k].available
    BY <1>1, <2>2 DEF RowShape
  <2>5. RowShape'
    BY <2>3, <2>4 DEF RowShape
  <2>6. QED BY <2>1, <2>2, <2>5
<1>9. QED BY <1>4, <1>7, <1>8

\* The keys that the watcher is at work on are keys, and it is idle for none.
LEMMA UnderwayKeys ==
    TypeOK => Underway \subseteq Keys /\ (watcher.pc = "idle" /\ watcher.todo = {} => Underway = {})
BY DEF TypeOK, Cycle, Underway

\* The handler's last step.
LEMMA FinishStep == ASSUME LedgerIInv, NEW f \in Forms, Finish(f) PROVE LedgerIInv'
<1> DEFINE a == Accepted(f, job[f].seerr, job[f].accepted)
           t == [a EXCEPT !.state = "tracked"]
<1>1. /\ job[f].pc = "finish" /\ job[f] \in Job /\ up = "running" /\ faults' \in Nat
      /\ Backed(f, job[f].seerr, job[f].accepted) /\ intent \in [Forms -> Intent]
      /\ row \in [Keys -> Row] /\ job \in [Forms -> Job]
      /\ UNCHANGED <<up, boot, watcher, seerr, sonarr, library, mentions, crashes>>
  BY HandlerRuns DEF LedgerIInv, TypeOK, BackingShape, Finish, Fault, NoFault
<1>2. job[f].seerr \in BOOLEAN /\ job[f].accepted \in SUBSET Units
  BY <1>1 DEF Job
<1>3. /\ a \in Intent /\ a.state = "accepted" /\ a.seerr = job[f].seerr
      /\ a.accepted = job[f].accepted
  BY <1>1, <1>2, AcceptedForms DEF Submitting
<1>4. /\ t \in Intent /\ t.state = "tracked" /\ t.seerr = a.seerr /\ t.accepted = a.accepted
  BY <1>3, ClosedIntent
<1>5. PICK i \in {a, t} : intent' = [intent EXCEPT ![f] = i]
  BY DEF Finish, Tracked
<1>6. row' \in {row, Upserted(TrackingKey(f, job[f].seerr), job[f].accepted)}
  BY DEF Finish
<1>7. /\ i \in Intent /\ i.state \in {"accepted", "tracked"} /\ i.seerr = job[f].seerr
      /\ i.accepted = job[f].accepted
  BY <1>3, <1>4, <1>5
<1> HIDE DEF a, t
<1>8. PICK pc \in {"over"} : job' = [job EXCEPT ![f].pc = pc]
  BY DEF Finish
<1>9. /\ job' \in [Forms -> Job] /\ job'[f].pc = "over" /\ job'[f].seerr = job[f].seerr
      /\ job'[f].accepted = job[f].accepted /\ \A g \in Forms \ {f} : job'[g] = job[g]
  BY <1>1, <1>8, MovedJob DEF Places
<1>10. \A p \in {"seerr", "direct"} : row[<<f, p>>].status = "none"
  BY <1>1 DEF LedgerIInv, RowShape
<1>11. /\ row' \in [Keys -> Row] /\ RowShape'
       /\ \A k \in Keys :
             /\ row'[k].available = row[k].available /\ row'[k].notified = row[k].notified
             /\ row[k].status # "none" =>
                   row'[k].status # "none" /\ row'[k].units = row[k].units
  BY <1>5, <1>6, <1>7, <1>9, <1>10, TrackKeeps
<1>12. /\ intent' \in [Forms -> Intent] /\ intent'[f] = i
       /\ \A g \in Forms \ {f} : intent'[g] = intent[g]
  BY <1>1, <1>5, <1>7
<1>13. TypeOK'
  BY <1>1, <1>9, <1>11, <1>12 DEF LedgerIInv, TypeOK
<1>14. SubmissionShape'
  BY <1>1, <1>9, <1>12 DEF LedgerIInv, SubmissionShape, Submitting
<1>15. BackingShape'
  BY <1>1, <1>7, <1>9, <1>12 DEF LedgerIInv, BackingShape, Backed
<1>16. BootShape' /\ RecoveredAtStartup'
  BY <1>1, <1>9, <1>12 DEF LedgerIInv, BootShape, RecoveredAtStartup
<1>17. WatchShape'
  BY <1>1, <1>11, UnderwayKeys DEF LedgerIInv, TypeOK, WatchShape, Underway
<1>18. QED BY <1>11, <1>13, <1>14, <1>15, <1>16, <1>17 DEF LedgerIInv

\* Recovery tracks an intent, or counts an error and goes on.
LEMMA RecoverStep == ASSUME LedgerIInv, NEW f \in Forms, Recover(f) PROVE LedgerIInv'
<1> DEFINE t == [intent[f] EXCEPT !.state = "tracked"]
<1>1. /\ up = "starting" /\ f \in boot.todo /\ intent[f] \in Intent /\ faults' \in Nat
      /\ intent[f].state = "accepted" /\ intent \in [Forms -> Intent]
      /\ row \in [Keys -> Row] /\ boot \in [todo : SUBSET Forms, failed : BOOLEAN]
      /\ job[f].pc = "lost"
      /\ UNCHANGED <<up, job, watcher, seerr, sonarr, library, mentions, crashes>>
  BY DEF LedgerIInv, TypeOK, SubmissionShape, BootShape, Recover, Fault, NoFault
<1>2. /\ t \in Intent /\ t.state = "tracked" /\ t.seerr = intent[f].seerr
      /\ t.accepted = intent[f].accepted
  BY <1>1, ClosedIntent
<1>3. PICK i \in {intent[f], t} :
         /\ intent' = [intent EXCEPT ![f] = i]
         /\ boot'.todo = boot.todo \ {f} /\ (i = t \/ boot'.failed)
         /\ boot'.failed \in BOOLEAN /\ (boot.failed => boot'.failed)
         /\ boot' \in [todo : SUBSET Forms, failed : BOOLEAN]
  <2>1. boot.todo \subseteq Forms /\ boot.failed \in BOOLEAN
    BY <1>1
  <2>2. CASE intent' = [intent EXCEPT ![f] = t] /\ boot' = [boot EXCEPT !.todo = @ \ {f}]
    BY <1>1, <2>1, <2>2
  <2>3. CASE UNCHANGED intent /\ boot' = [todo |-> boot.todo \ {f}, failed |-> TRUE]
    <3>1. intent' = [intent EXCEPT ![f] = intent[f]]
      BY <1>1, <2>3
    <3>2. QED BY <2>1, <2>3, <3>1
  <2>4. QED BY <2>2, <2>3 DEF Recover, Tracked
<1>4. row' \in {row, Upserted(TrackingKey(f, intent[f].seerr), intent[f].accepted)}
  BY DEF Recover
<1>5. /\ i \in Intent /\ i.state \in {"accepted", "tracked"} /\ i.seerr = intent[f].seerr
      /\ i.accepted = intent[f].accepted /\ (i.state = "tracked" \/ boot'.failed)
  BY <1>1, <1>2, <1>3
<1> HIDE DEF t
<1>6. /\ row' \in [Keys -> Row] /\ RowShape'
  BY <1>1, <1>3, <1>4, <1>5, TrackKeeps
<1>7. /\ intent' \in [Forms -> Intent] /\ intent'[f] = i
      /\ \A g \in Forms \ {f} : intent'[g] = intent[g]
  BY <1>1, <1>3, <1>5
<1>8. TypeOK'
  BY <1>1, <1>3, <1>6, <1>7 DEF LedgerIInv, TypeOK
<1>9. SubmissionShape'
  BY <1>1, <1>7 DEF LedgerIInv, SubmissionShape, Submitting
<1>10. BackingShape'
  BY <1>1, <1>5, <1>7 DEF LedgerIInv, BackingShape, Backed
<1>11. BootShape'
  BY <1>1, <1>3, <1>5, <1>7 DEF LedgerIInv, BootShape
<1>12. RecoveredAtStartup'
  BY <1>1 DEF RecoveredAtStartup
<1>13. WatchShape'
  BY <1>1, UnderwayKeys DEF LedgerIInv, WatchShape, Underway
<1>14. QED BY <1>6, <1>8, <1>9, <1>10, <1>11, <1>12, <1>13 DEF LedgerIInv

-----------------------------------------------------------------------------
(***************************************************************************)
(* The process and the providers.                                          *)
(***************************************************************************)

\* The process stops: every handler that had begun is lost.
LEMMA StopStep == ASSUME LedgerIInv, Stop PROVE LedgerIInv'
<1> USE DEF LedgerIInv
<1>1. /\ up' = "down" /\ boot' = NoBoot /\ watcher' = NoCycle /\ crashes' \in Nat
      /\ UNCHANGED <<intent, row, seerr, sonarr, library, mentions, faults>>
      /\ job \in [Forms -> Job]
  BY DEF Stop, TypeOK
<1>2. PICK pc \in {"lost"} : job' = [f \in Forms |-> IF job[f].pc = "none" THEN job[f]
                                                      ELSE [job[f] EXCEPT !.pc = pc]]
  BY DEF Stop
<1>3. \A f \in Forms :
         /\ job'[f] \in Job /\ job'[f].seerr = job[f].seerr /\ job'[f].accepted = job[f].accepted
         /\ job'[f].pc = IF job[f].pc = "none" THEN "none" ELSE "lost"
  BY <1>1, <1>2, MovedJob DEF Places
<1>4. /\ NoBoot \in [todo : SUBSET Forms, failed : BOOLEAN] /\ NoBoot.todo = {}
  BY DEF NoBoot
<1>5. /\ NoCycle \in Cycle /\ NoCycle.pc = "idle" /\ NoCycle.todo = {}
  <2>1. NoRow \in Row
    BY DEF NoRow, Row
  <2>2. QED BY <2>1 DEF NoCycle, Cycle
<1>6. TypeOK'
  <2>1. job' \in [Forms -> Job]
    BY <1>2, <1>3
  <2>2. QED BY <1>1, <1>4, <1>5, <2>1 DEF TypeOK
<1>7. SubmissionShape'
  BY <1>1, <1>3 DEF SubmissionShape, Submitting
<1>8. BackingShape'
  BY <1>1, <1>3 DEF BackingShape, Backed
<1>9. RowShape'
  BY <1>1, <1>3 DEF RowShape
<1>10. BootShape' /\ RecoveredAtStartup'
  BY <1>1, <1>4 DEF BootShape, RecoveredAtStartup
<1>11. WatchShape'
  BY <1>1, <1>5 DEF WatchShape, Underway
<1>12. QED BY <1>6, <1>7, <1>8, <1>9, <1>10, <1>11

\* The process starts, and serves when every accepted intent has been tracked.
LEMMA BootStep == ASSUME LedgerIInv, Start \/ Ready PROVE LedgerIInv'
<1> USE DEF LedgerIInv
<1>1. /\ UNCHANGED <<job, intent, row, watcher, seerr, sonarr, library, mentions, faults, crashes>>
      /\ up \in {"down", "starting"} /\ up' \in {"down", "starting", "running"}
  BY DEF Start, Ready
<1>2. /\ NoBoot \in [todo : SUBSET Forms, failed : BOOLEAN] /\ NoBoot.todo = {}
  BY DEF NoBoot
<1>3. \/ up' = "starting" /\ boot' = [todo |-> Recoverable, failed |-> FALSE]
      \/ /\ up = "starting" /\ boot.todo = {} /\ boot' = NoBoot
         /\ up' = IF boot.failed THEN "down" ELSE "running"
  BY DEF Start, Ready
<1>4. TypeOK'
  <2>1. boot' \in [todo : SUBSET Forms, failed : BOOLEAN]
    <3>1. [todo |-> Recoverable, failed |-> FALSE] \in [todo : SUBSET Forms, failed : BOOLEAN]
      BY Zenon DEF Recoverable
    <3>2. QED BY <1>2, <1>3, <3>1, Zenon
  <2>2. QED BY <1>1, <2>1 DEF TypeOK
<1>5. SubmissionShape' /\ BackingShape'
  BY <1>1 DEF SubmissionShape, BackingShape, Backed
<1>6. RowShape'
  BY <1>1 DEF RowShape
<1>7. BootShape' /\ RecoveredAtStartup'
  <2>1. CASE up' = "starting" /\ boot' = [todo |-> Recoverable, failed |-> FALSE]
    BY <1>1, <2>1 DEF BootShape, RecoveredAtStartup, Recoverable
  <2>2. CASE /\ up = "starting" /\ boot.todo = {} /\ boot' = NoBoot
             /\ up' = IF boot.failed THEN "down" ELSE "running"
    BY <1>1, <1>2, <2>2 DEF BootShape, RecoveredAtStartup
  <2>3. QED BY <1>3, <2>1, <2>2
<1>8. WatchShape'
  BY <1>1 DEF WatchShape, Underway
<1>9. QED BY <1>4, <1>5, <1>6, <1>7, <1>8

\* The providers take, decline and deliver.
LEMMA ProviderStep ==
    ASSUME LedgerIInv, (\E f \in Forms : Provider(f)) \/ (\E u \in Units : Arrive(u))
    PROVE  LedgerIInv'
<1> USE DEF LedgerIInv
<1>1. /\ UNCHANGED <<up, boot, job, intent, row, watcher, mentions, faults, crashes>>
      /\ library \subseteq library' /\ library' \in SUBSET Units
  BY DEF TypeOK, Provider, Grant, Refuse, Monitor, Decline, Reopen, Arrive
<1>2. /\ sonarr' \in [Forms -> SUBSET Units] /\ \A f \in Forms : sonarr[f] \subseteq sonarr'[f]
  BY ConstantsAssumption DEF TypeOK, Provider, Grant, Refuse, Monitor, Decline, Reopen, Arrive
<1>3. /\ seerr' \in [Forms -> [status : {"none", "refused", "open", "declined"},
                                granted : SUBSET Units]]
      /\ \A f \in Forms :
            /\ seerr'[f].granted \subseteq SelectedSeerr[f]
            /\ seerr[f].status \in {"open", "declined"} =>
                  seerr'[f].status \in {"open", "declined"}
  <2>1. /\ seerr \in [Forms -> [status : {"none", "refused", "open", "declined"},
                                 granted : SUBSET Units]]
        /\ \A f \in Forms : seerr[f].granted \subseteq SelectedSeerr[f]
        /\ SelectedSeerr \in [Forms -> SUBSET Units]
    BY ConstantsAssumption DEF TypeOK, BackingShape
  <2>2. CASE UNCHANGED seerr
    BY <2>1, <2>2
  <2>3. ASSUME NEW f \in Forms, Grant(f)
        PROVE  <1>3!1 /\ <1>3!2
    BY <2>1, <2>3 DEF Grant
  <2>4. ASSUME NEW f \in Forms, Refuse(f) \/ Decline(f) \/ Reopen(f)
        PROVE  <1>3!1 /\ <1>3!2
    BY <2>1, <2>4 DEF Refuse, Decline, Reopen
  <2>5. QED BY <2>2, <2>3, <2>4 DEF Provider, Monitor, Arrive
<1>4. TypeOK'
  BY <1>1, <1>2, <1>3 DEF TypeOK
<1>5. SubmissionShape' /\ BootShape' /\ RecoveredAtStartup'
  BY <1>1 DEF SubmissionShape, BootShape, RecoveredAtStartup
<1>6. BackingShape'
  BY <1>1, <1>2, <1>3 DEF BackingShape, Backed
<1>7. RowShape'
  BY <1>1 DEF RowShape
<1>8. WatchShape'
  BY <1>1 DEF WatchShape, Underway
<1>9. QED BY <1>4, <1>5, <1>6, <1>7, <1>8

-----------------------------------------------------------------------------
(***************************************************************************)
(* The watcher.                                                            *)
(***************************************************************************)

\* The watcher works while the process runs; it neither begins nor retracks a row.
LEMMA WatcherStep ==
    ASSUME LedgerIInv, up = "running", faults' \in Nat, mentions' \in [Keys -> Nat],
           UNCHANGED <<up, boot, job, intent, seerr, sonarr, library, crashes>>,
           watcher' \in Cycle, watcher'.pc \in {"look", "send"} => watcher'.cur \in Keys,
           row' \in [Keys -> Row],
           \A k \in Keys :
              /\ row'[k].status # "none" => row[k].status # "none"
              /\ row'[k].units = row[k].units
              /\ row'[k].notified => row'[k].available,
           WatchShape'
    PROVE  LedgerIInv'
<1> USE DEF LedgerIInv
<1>1. TypeOK'
  BY DEF TypeOK
<1>2. SubmissionShape' /\ BackingShape'
  BY DEF SubmissionShape, BackingShape, Backed
<1>3. RowShape'
  <2>1. \A f \in Forms : \A p \in {"seerr", "direct"} : <<f, p>> \in Keys
    BY DEF Keys
  <2>2. QED BY <2>1 DEF RowShape
<1>4. BootShape' /\ RecoveredAtStartup'
  BY DEF BootShape, RecoveredAtStartup
<1>5. QED BY <1>1, <1>2, <1>3, <1>4

\* What the next record of a cycle, or its end, leaves to be done.
LEMMA ContinueForms ==
    ASSUME watcher \in Cycle, NEW left \in SUBSET Keys
    PROVE  /\ Continue(left) \in Cycle /\ Continue(left).pc \in {"idle", "next"}
           /\ Continue(left).todo = left /\ (Continue(left).pc = "idle" => left = {})
           /\ left # {} => Continue(left).seen = watcher.seen
<1>1. NoRow \in Row
  BY DEF NoRow, Row
<1>2. NoCycle \in Cycle /\ NoCycle.pc = "idle" /\ NoCycle.todo = {}
  BY <1>1 DEF NoCycle, Cycle
<1> DEFINE c == [watcher EXCEPT !.pc = "next", !.todo = left, !.cur = NoKey]
<1>3. c \in Cycle /\ c.pc = "next" /\ c.todo = left /\ c.seen = watcher.seen
  BY DEF Cycle
<1>4. Continue(left) = IF left = {} THEN NoCycle ELSE c
  BY DEF Continue
<1> HIDE DEF c
<1>5. QED BY <1>2, <1>3, <1>4

\* A cycle that is under way belongs to a process that runs.
LEMMA WatcherRuns == LedgerIInv /\ watcher.pc # "idle" => up = "running"
BY DEF LedgerIInv, WatchShape

\* The poll reads the rows that nobody was told of.
LEMMA PollStep == ASSUME LedgerIInv, Poll PROVE LedgerIInv'
<1> DEFINE due == {k \in Keys : Pending(k)}
           seen == [k \in Keys |-> IF k \in due THEN row[k] ELSE NoRow]
           w == [pc |-> "next", todo |-> due, cur |-> NoKey, seen |-> seen]
<1>1. /\ up = "running" /\ watcher' = w /\ row \in [Keys -> Row]
      /\ UNCHANGED <<up, boot, job, intent, row, seerr, sonarr, library, mentions, faults, crashes>>
  BY DEF LedgerIInv, TypeOK, Poll
<1>2. \A k \in due : k \in Keys /\ row[k].status = "live" /\ (~row[k].available \/ ~row[k].notified)
  BY DEF Pending
<1>3. \A k \in due : /\ row[k].status # "none" /\ ~row[k].notified /\ seen[k] = row[k]
  BY <1>2 DEF LedgerIInv, RowShape
<1>4. seen \in [Keys -> Row]
  <2>1. NoRow \in Row
    BY DEF NoRow, Row
  <2>2. QED BY <1>1, <2>1
<1>5. due \subseteq Keys
  OBVIOUS
<1> HIDE DEF due, seen
<1>6. w \in Cycle /\ w.pc = "next" /\ w.todo = due /\ w.seen = seen
  BY <1>4, <1>5 DEF Cycle
<1> HIDE DEF w
<1>7. WatchShape'
  BY <1>1, <1>3, <1>6 DEF WatchShape, Underway
<1>8. QED BY <1>1, <1>6, <1>7, WatcherStep DEF LedgerIInv, TypeOK, RowShape

\* Seerr's status is stored; a declined request leaves the cycle.
LEMMA ReconcileStep == ASSUME LedgerIInv, NEW k \in Keys, Reconcile(k) PROVE LedgerIInv'
<1> DEFINE left == watcher.todo \ {k}
           w == [watcher EXCEPT !.pc = "look", !.todo = left, !.cur = k]
<1>1. /\ watcher \in Cycle /\ row \in [Keys -> Row] /\ watcher.pc = "next" /\ k \in watcher.todo
      /\ up = "running" /\ watcher.todo \subseteq Keys /\ faults' \in Nat
      /\ mentions' \in [Keys -> Nat]
      /\ UNCHANGED <<up, boot, job, intent, seerr, sonarr, library, crashes>>
  BY WatcherRuns DEF LedgerIInv, TypeOK, Cycle, Reconcile, Fault, NoFault
<1>2. /\ w \in Cycle /\ w.pc = "look" /\ w.todo = left /\ w.cur = k /\ w.seen = watcher.seen
  BY <1>1 DEF Cycle
<1>3. left \subseteq watcher.todo /\ k \notin left /\ left \in SUBSET Keys
  BY <1>1
<1>4. watcher' = w \/ watcher' = Continue(left)
  BY DEF Reconcile
<1>5. PICK status \in {"live", "declined"} :
         row' = row \/ row' = [row EXCEPT ![k].status = status]
  BY DEF Reconcile
<1> DEFINE r == [row[k] EXCEPT !.status = status]
<1>6. /\ r \in Row /\ r.status = status /\ r.units = row[k].units
      /\ r.available = row[k].available /\ r.notified = row[k].notified
  BY <1>1, StatusRow
<1>7. row' = row \/ row' = [row EXCEPT ![k] = r]
  BY <1>5
<1> HIDE DEF r, w, left
<1>8. row[k].status # "none"
  BY <1>1 DEF LedgerIInv, WatchShape, Underway
<1>9. /\ row' \in [Keys -> Row]
      /\ \A q \in Keys :
            /\ row'[q].status # "none" <=> row[q].status # "none"
            /\ row'[q].units = row[q].units /\ row'[q].notified = row[q].notified
            /\ row'[q].available = row[q].available
  BY <1>1, <1>6, <1>7, <1>8
<1>10. /\ watcher' \in Cycle /\ watcher'.pc # "send" /\ (watcher'.pc = "look" => watcher'.cur = k)
       /\ watcher'.todo = left /\ (watcher'.pc = "idle" => left = {})
       /\ watcher'.pc = "look" \/ left # {} => watcher'.seen = watcher.seen
  BY <1>1, <1>2, <1>3, <1>4, ContinueForms
<1>11. WatchShape'
  BY <1>1, <1>3, <1>9, <1>10 DEF LedgerIInv, WatchShape, Underway
<1>12. QED BY <1>1, <1>9, <1>10, <1>11, WatcherStep DEF LedgerIInv, RowShape

\* The library is asked: the row becomes available, or the record is left.
LEMMA LookStep == ASSUME LedgerIInv, Look PROVE LedgerIInv'
<1> DEFINE k == watcher.cur
           w == [watcher EXCEPT !.pc = "send"]
           r == [row[k] EXCEPT !.available = TRUE]
<1>1. /\ watcher \in Cycle /\ row \in [Keys -> Row] /\ watcher.pc = "look" /\ k \in Keys
      /\ up = "running" /\ watcher.todo \subseteq Keys /\ faults' \in Nat
      /\ mentions' \in [Keys -> Nat] /\ k \notin watcher.todo
      /\ UNCHANGED <<up, boot, job, intent, seerr, sonarr, library, crashes>>
  BY WatcherRuns DEF LedgerIInv, TypeOK, WatchShape, Cycle, Look, Fault, NoFault
<1>2. /\ w \in Cycle /\ w.pc = "send" /\ w.todo = watcher.todo /\ w.cur = k
      /\ w.seen = watcher.seen
  BY <1>1 DEF Cycle
<1>3. /\ r \in Row /\ r.available /\ r.units = row[k].units /\ r.status = row[k].status
      /\ r.notified = row[k].notified
  BY <1>1, AvailableRow
<1>4. /\ row[k].status # "none" /\ ~row[k].notified /\ row[k].units = watcher.seen[k].units
      /\ watcher.seen[k].available => row[k].available
  BY <1>1 DEF LedgerIInv, WatchShape, Underway
<1>5. \/ /\ watcher.seen[k].units \subseteq library /\ watcher' = w
         /\ row' = [row EXCEPT ![k] = r] \/ (row' = row /\ watcher.seen[k].available)
      \/ watcher' = Continue(watcher.todo) /\ row' = row
  BY DEF Look, Complete
<1> HIDE DEF k, w, r
<1>6. /\ row' \in [Keys -> Row]
      /\ \A q \in Keys :
            /\ row'[q].status = row[q].status /\ row'[q].units = row[q].units
            /\ row'[q].notified = row[q].notified /\ (row[q].available => row'[q].available)
            /\ q # k => row'[q].available = row[q].available
  BY <1>1, <1>3, <1>5
<1>7. WatchShape'
  <2>1. CASE watcher' = w
    <3>1. row'[k].available /\ row'[k].units \subseteq library
      BY <1>1, <1>2, <1>3, <1>4, <1>5, <2>1, ContinueForms
    <3>2. QED BY <1>1, <1>2, <1>4, <1>6, <2>1, <3>1 DEF LedgerIInv, WatchShape, Underway
  <2>2. CASE watcher' = Continue(watcher.todo)
    BY <1>1, <1>6, <2>2, ContinueForms DEF LedgerIInv, WatchShape, Underway
  <2>3. QED BY <1>5, <2>1, <2>2
<1>8. /\ watcher' \in Cycle /\ (watcher'.pc \in {"look", "send"} => watcher'.cur \in Keys)
  BY <1>1, <1>2, <1>5, ContinueForms
<1>9. QED BY <1>1, <1>6, <1>7, <1>8, WatcherStep DEF LedgerIInv, RowShape

\* The mention is sent, and marked on the row when its answer came.
LEMMA SendStep == ASSUME LedgerIInv, Send PROVE LedgerIInv'
<1> DEFINE k == watcher.cur
           r == [row[k] EXCEPT !.notified = TRUE]
<1>1. /\ watcher \in Cycle /\ row \in [Keys -> Row] /\ watcher.pc = "send" /\ k \in Keys
      /\ up = "running" /\ watcher.todo \subseteq Keys /\ faults' \in Nat
      /\ k \notin watcher.todo /\ row[k].available
      /\ UNCHANGED <<up, boot, job, intent, seerr, sonarr, library, crashes>>
  BY WatcherRuns DEF LedgerIInv, TypeOK, WatchShape, Cycle, Send, Fault, NoFault
<1>2. mentions' \in [Keys -> Nat]
  BY <1>1 DEF LedgerIInv, TypeOK, Send
<1>3. /\ r \in Row /\ r.available = row[k].available /\ r.units = row[k].units
      /\ r.status = row[k].status
  BY <1>1, NotifiedRow
<1>4. /\ watcher' = Continue(watcher.todo)
      /\ row' = row \/ row' = [row EXCEPT ![k] = r]
  BY <1>1 DEF Send
<1> HIDE DEF k, r
<1>5. /\ row' \in [Keys -> Row]
      /\ \A q \in Keys :
            /\ row'[q].status = row[q].status /\ row'[q].units = row[q].units
            /\ row'[q].available = row[q].available
            /\ q # k => row'[q] = row[q]
  BY <1>1, <1>3, <1>4
<1>6. \A q \in Keys : row'[q].notified => row'[q].available
  BY <1>1, <1>5 DEF LedgerIInv, RowShape
<1>7. /\ watcher' \in Cycle /\ watcher'.pc \in {"idle", "next"} /\ watcher'.todo = watcher.todo
      /\ (watcher'.pc = "idle" => watcher.todo = {})
      /\ watcher.todo # {} => watcher'.seen = watcher.seen
  BY <1>1, <1>4, ContinueForms
<1>8. WatchShape'
  BY <1>1, <1>5, <1>7 DEF LedgerIInv, WatchShape, Underway
<1>9. QED BY <1>1, <1>2, <1>5, <1>6, <1>7, <1>8, WatcherStep

-----------------------------------------------------------------------------
(***************************************************************************)
(* The theorems.                                                           *)
(***************************************************************************)

\* The ledger starts empty.
LEMMA StartsWell == Init => LedgerIInv
<1> SUFFICES ASSUME Init PROVE LedgerIInv
  OBVIOUS
<1>1. /\ NoJob \in Job /\ NoJob.pc = "none" /\ ~NoJob.seerr /\ NoJob.accepted = {}
  BY DEF NoJob, Job
<1>2. /\ NoIntent \in Intent /\ NoIntent.state = "none" /\ ~NoIntent.seerr
      /\ NoIntent.accepted = {}
  BY DEF NoIntent, Intent
<1>3. NoRow \in Row /\ NoRow.status = "none" /\ ~NoRow.notified
  BY DEF NoRow, Row
<1>4. NoCycle \in Cycle /\ NoCycle.pc = "idle" /\ NoCycle.todo = {}
  BY <1>3 DEF NoCycle, Cycle
<1>5. NoBoot \in [todo : SUBSET Forms, failed : BOOLEAN] /\ NoBoot.todo = {}
  BY DEF NoBoot
<1>6. TypeOK
  BY <1>1, <1>2, <1>3, <1>4, <1>5 DEF Init, TypeOK
<1>7. SubmissionShape
  BY <1>1, <1>2 DEF Init, SubmissionShape, Submitting
<1>8. BackingShape
  BY <1>1, <1>2 DEF Init, BackingShape, Backed
<1>9. RowShape
  BY <1>3 DEF Init, RowShape, Keys
<1>10. BootShape /\ RecoveredAtStartup
  BY <1>1, <1>5 DEF Init, BootShape, RecoveredAtStartup
<1>11. WatchShape
  BY <1>4 DEF Init, WatchShape, Underway
<1>12. QED BY <1>6, <1>7, <1>8, <1>9, <1>10, <1>11 DEF LedgerIInv

\* Every step keeps the inductive invariant.
LEMMA LedgerStep == LedgerIInv /\ [Next]_vars => LedgerIInv'
<1> SUFFICES ASSUME LedgerIInv, [Next]_vars PROVE LedgerIInv'
  OBVIOUS
<1>1. CASE UNCHANGED vars
  BY <1>1 DEF vars, LedgerIInv, TypeOK, SubmissionShape, BackingShape, Backed, RowShape, BootShape,
              RecoveredAtStartup, WatchShape, Underway
<1>2. ASSUME NEW f \in Forms, Submission(f) PROVE LedgerIInv'
  BY <1>2, FormStep, AcknowledgeStep, CreateStep, RepairStep, FinishStep DEF Submission
<1>3. CASE (\E f \in Forms : Provider(f)) \/ (\E u \in Units : Arrive(u))
  BY <1>3, ProviderStep
<1>4. CASE Boot \/ Stop
  BY <1>4, BootStep, RecoverStep, StopStep DEF Boot
<1>5. CASE Watch
  BY <1>5, PollStep, ReconcileStep, LookStep, SendStep DEF Watch
<1>6. QED BY <1>1, <1>2, <1>3, <1>4, <1>5 DEF Next

\* Every reachable state satisfies it.
THEOREM LedgerInvariance == Spec => []LedgerIInv
BY StartsWell, LedgerStep, PTL DEF Spec

\* A row is backed by its intent's providers, and is its form's only one.
LEMMA RowsFollow == LedgerIInv => LedgerInv
<1> SUFFICES ASSUME LedgerIInv PROVE RowsAreBacked /\ OneRow
  BY DEF LedgerIInv, LedgerInv
<1>1. \A f \in Forms : \A p \in {"seerr", "direct"} : row[<<f, p>>].status # "none" =>
         /\ p = IF intent[f].seerr THEN "seerr" ELSE "direct"
         /\ row[<<f, p>>].units = intent[f].accepted
  BY DEF LedgerIInv, RowShape
<1>2. \A f \in Forms : Backed(f, intent[f].seerr, intent[f].accepted)
  BY DEF LedgerIInv, BackingShape
<1>3. OneRow
  BY <1>1 DEF OneRow
<1>4. RowsAreBacked
  BY <1>1, <1>2 DEF RowsAreBacked, Backed
<1>5. QED BY <1>3, <1>4

\* A tracked request is backed by its providers, has one row, and no accepted
\* submission of an earlier process is untracked when the bot serves again.
THEOREM LedgerHolds == Spec => []LedgerInv
BY LedgerInvariance, RowsFollow, PTL

\* How a handler's step moves an intent.
Onward(i, n) == /\ i.state = "accepted" => n.state \in {"accepted", "tracked"}
                /\ i.state \in {"tracked", "failed"} => n = i

\* A handler's step writes off no intent that was accepted.
LEMMA HandlerOnward ==
    ASSUME LedgerIInv, NEW f \in Forms, Submission(f)
    PROVE  \E i : intent' = [intent EXCEPT ![f] = i] /\ Onward(intent[f], i)
<1>1. /\ intent[f] \in Intent
      /\ job[f].pc \in {"none", "open", "ack"} => intent[f].state = "none"
      /\ job[f].pc \in Submitting => intent[f].state \in {"prepared", "accepted"}
      /\ intent = [intent EXCEPT ![f] = intent[f]]
  BY DEF LedgerIInv, TypeOK, SubmissionShape
<1>2. Onward(intent[f], intent[f]) /\ Onward(intent[f], Failed(f))
  <2>1. Failed(f) = intent[f] \/ intent[f].state = "prepared"
    BY DEF Failed
  <2>2. QED BY <2>1 DEF Onward
<1>3. \A id, units : Onward(intent[f], Accepted(f, id, units))
  <2> SUFFICES ASSUME NEW id, NEW units PROVE Onward(intent[f], Accepted(f, id, units))
    OBVIOUS
  <2> DEFINE a == [state |-> "accepted", seerr |-> id \/ intent[f].seerr, accepted |-> units]
  <2>1. a.state = "accepted"
    OBVIOUS
  <2>2. Accepted(f, id, units) = a \/ Accepted(f, id, units) = intent[f]
    BY DEF Accepted
  <2> HIDE DEF a
  <2>3. Accepted(f, id, units) = intent[f] \/ intent[f].state \in {"prepared", "accepted"}
    BY DEF Accepted
  <2>4. QED BY <2>1, <2>2, <2>3 DEF Onward
<1>4. CASE UNCHANGED intent
  BY <1>1, <1>2, <1>4
<1>5. CASE Acknowledge(f)
  BY <1>1, <1>2, <1>5 DEF Acknowledge, Onward
<1>6. CASE Create(f) \/ Verify(f) \/ Repair(f)
  BY <1>1, <1>2, <1>3, <1>6 DEF Create, Verify, Repair, Record, GiveUp, Abandon
<1>7. CASE Finish(f)
  <2> DEFINE a == Accepted(f, job[f].seerr, job[f].accepted)
             t == [a EXCEPT !.state = "tracked"]
  <2>1. intent' = [intent EXCEPT ![f] = a] \/ intent' = [intent EXCEPT ![f] = t]
    BY <1>7 DEF Finish, Tracked
  <2>2. Onward(intent[f], t)
    <3>1. job[f].pc = "finish" /\ intent[f].state \in {"prepared", "accepted"}
      BY <1>1, <1>7 DEF Finish, Submitting
    <3>2. /\ job[f] \in Job /\ Backed(f, job[f].seerr, job[f].accepted)
      BY DEF LedgerIInv, TypeOK, BackingShape
    <3>3. a \in Intent
      BY <3>1, <3>2, AcceptedForms DEF Job, Submitting
    <3>4. t.state = "tracked"
      BY <3>3, ClosedIntent
    <3>5. QED BY <3>1, <3>4 DEF Onward
  <2>3. QED BY <1>3, <2>1, <2>2
<1>8. QED BY <1>4, <1>5, <1>6, <1>7 DEF Submission, Show, Confirm, Cancel

\* What was accepted is never written off; a mention is sent only for a row that is
\* available with all its units in Jellyfin, and not again once it was confirmed.
THEOREM LedgerKeeps == Spec => LedgerSteps
<1> DEFINE Forward == \A f \in Forms :
               /\ intent[f].state = "accepted" => intent'[f].state \in {"accepted", "tracked"}
               /\ intent[f].state \in {"tracked", "failed"} => intent'[f] = intent[f]
           Honest == \A k \in Keys : mentions'[k] # mentions[k] =>
                       row[k].available /\ row[k].units \subseteq library
           Once == \A k \in Keys : mentions'[k] # mentions[k] => ~row[k].notified
<1>1. LedgerIInv /\ [Next]_vars => Forward
  <2> SUFFICES ASSUME LedgerIInv, [Next]_vars, NEW f \in Forms
               PROVE  Onward(intent[f], intent'[f])
    BY DEF Onward
  <2>1. intent \in [Forms -> Intent] /\ Onward(intent[f], intent[f])
    BY DEF LedgerIInv, TypeOK, Onward
  <2>2. ASSUME NEW g \in Forms, Submission(g) PROVE Onward(intent[f], intent'[f])
    BY <2>1, <2>2, HandlerOnward
  <2>3. ASSUME NEW g \in Forms, Recover(g) PROVE Onward(intent[f], intent'[f])
    <3> DEFINE t == [intent[g] EXCEPT !.state = "tracked"]
    <3>1. intent[g] \in Intent /\ intent[g].state = "accepted"
      BY <2>3 DEF LedgerIInv, TypeOK, BootShape, Recover
    <3>2. t.state = "tracked"
      BY <3>1, ClosedIntent
    <3>3. intent' = intent \/ intent' = [intent EXCEPT ![g] = t]
      BY <2>3 DEF Recover, Tracked
    <3> HIDE DEF t
    <3>4. QED BY <2>1, <3>1, <3>2, <3>3 DEF Onward
  <2>4. CASE UNCHANGED intent
    BY <2>1, <2>4
  <2>5. QED BY <2>2, <2>3, <2>4
        DEF Next, vars, Provider, Grant, Refuse, Monitor, Decline, Reopen, Arrive, Boot, Start,
            Ready, Stop, Watch, Poll, Reconcile, Look, Send
<1>2. LedgerIInv /\ [Next]_vars => Honest /\ Once
  <2> SUFFICES ASSUME LedgerIInv, [Next]_vars, NEW k \in Keys, mentions'[k] # mentions[k]
               PROVE  row[k].available /\ row[k].units \subseteq library /\ ~row[k].notified
    OBVIOUS
  <2>1. Send
    BY DEF Next, vars, Submission, Show, Confirm, Cancel, Acknowledge, Create, Verify, Repair,
           Finish, Provider, Grant, Refuse, Monitor, Decline, Reopen, Arrive, Boot, Start, Ready,
           Recover, Stop, Watch, Poll, Reconcile, Look
  <2>2. watcher.pc = "send" /\ k = watcher.cur
    BY <2>1 DEF Send, LedgerIInv, TypeOK
  <2>3. QED BY <2>2 DEF LedgerIInv, WatchShape, Underway
<1>3. QED BY LedgerInvariance, <1>1, <1>2, PTL
          DEF Spec, LedgerSteps, LedgerForward, MentionIsTrue, MentionOnce

=============================================================================
