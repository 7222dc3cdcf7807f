------------------------- MODULE PriceServiceProofs -------------------------
(***************************************************************************)
(* The refresh mutex at work, for any number of requests, tasks, sessions  *)
(* and providers: one refresh at a time, nobody leaks or loses the guard,  *)
(* decisions and merges are made on the database as it is, and an orderly  *)
(* stop is quiet.                                                          *)
(***************************************************************************)
EXTENDS PriceService, WellFoundedInduction, TLAPS

USE ProcessAssumption

ReaderFields == {"pc", "stored", "seen"}
TaskFields == {"pc", "plan", "base", "answers", "write", "saved"}

(* Readers and tasks are records with their fields. *)
Shapes ==
    /\ reader = [r \in Readers |-> reader[r]]
    /\ \A r \in Readers : DOMAIN reader[r] = ReaderFields
    /\ task = [t \in Tasks |-> task[t]]
    /\ \A t \in Tasks : DOMAIN task[t] = TaskFields
    /\ owner \in Readers \union Tasks \union {None}

(* Once the requests are drained, none is in progress. *)
DrainedOfRequests ==
    phase \in {"waiting", "stopped"} => \A r \in Readers : reader[r].pc = "idle"

(* Ownership alone is inductive. *)
OwnershipInv == Shapes /\ GuardDiscipline

(* What is known of the database rests on ownership. *)
CurrentInv == OwnerReadsCurrent /\ BaseIsCurrent

LEMMA SetReaderShape ==
    ASSUME NEW r \in Readers, NEW record, Shapes, DOMAIN record = ReaderFields,
           SetReader(r, record)
    PROVE  /\ reader' = [q \in Readers |-> reader'[q]]
           /\ \A q \in Readers : DOMAIN reader'[q] = ReaderFields
           /\ reader'[r] = record
           /\ \A q \in Readers \ {r} : reader'[q] = reader[q]
  BY DEF Shapes, SetReader

LEMMA SetTaskShape ==
    ASSUME NEW t \in Tasks, NEW record, Shapes, DOMAIN record = TaskFields,
           SetTask(t, record)
    PROVE  /\ task' = [q \in Tasks |-> task'[q]]
           /\ \A q \in Tasks : DOMAIN task'[q] = TaskFields
           /\ task'[t] = record
           /\ \A q \in Tasks \ {t} : task'[q] = task[q]
  BY DEF Shapes, SetTask

-----------------------------------------------------------------------------
LEMMA OwnershipInit == Init => OwnershipInv
  BY DEF Init, Boot, OwnershipInv, Shapes, GuardDiscipline, Active, IdleReader, IdleTask,
     ReaderFields, TaskFields

LEMMA OwnershipStep == OwnershipInv /\ [Next]_vars => OwnershipInv'
<1> SUFFICES ASSUME OwnershipInv, [Next]_vars PROVE OwnershipInv'
  OBVIOUS
<1>0. Shapes /\ GuardDiscipline
  BY DEF OwnershipInv
<1>u. ASSUME UNCHANGED <<owner, reader, task>> PROVE OwnershipInv'
  BY <1>0, <1>u DEF OwnershipInv, Shapes, GuardDiscipline, Active
<1>1. CASE ViewerAction
  BY <1>1, <1>u DEF ViewerAction
<1>r. ASSUME NEW r \in Readers, NEW record, DOMAIN record = ReaderFields, SetReader(r, record),
             task' = task,
             \/ record.pc # "idle" /\ owner' \in {owner, r} /\ (owner' # owner => owner = None)
             \/ owner' = IF owner = r THEN None ELSE owner
      PROVE  OwnershipInv'
  <2>1. Shapes'
    BY <1>0, <1>r, SetReaderShape DEF Shapes
  <2>2. GuardDiscipline'
    BY <1>0, <1>r, SetReaderShape DEF Shapes, GuardDiscipline, Active
  <2> QED
    BY <2>1, <2>2 DEF OwnershipInv
<1>2. ASSUME NEW r \in Readers, Request(r) PROVE OwnershipInv'
  <2> DEFINE record == [IdleReader EXCEPT !.pc = "load"]
  <2>1. DOMAIN record = ReaderFields /\ record.pc = "load"
    BY DEF IdleReader, ReaderFields
  <2>2. SetReader(r, record) /\ task' = task /\ owner' = IF owner = None THEN r ELSE owner
    BY <1>2 DEF Request, Acquire
  <2> HIDE DEF record
  <2> QED
    BY <1>r, <2>1, <2>2
<1>3. ASSUME NEW r \in Readers, Load(r) PROVE OwnershipInv'
  <2>1. PICK stored : SetReader(r, [pc |-> "count", stored |-> stored, seen |-> None])
    BY <1>3 DEF Load
  <2> DEFINE record == [pc |-> "count", stored |-> stored, seen |-> None]
  <2>2. DOMAIN record = ReaderFields /\ record.pc = "count"
    BY DEF ReaderFields
  <2>3. SetReader(r, record) /\ UNCHANGED <<task, owner>>
    BY <1>3, <2>1 DEF Load
  <2> HIDE DEF record
  <2> QED
    BY <1>r, <2>2, <2>3
<1>4. ASSUME NEW r \in Readers, Count(r) PROVE OwnershipInv'
  <2> DEFINE record == [reader[r] EXCEPT !.pc = "decide",
                                         !.seen = [viewers |-> Live # {}, at |-> now_unix]]
  <2>1. DOMAIN record = ReaderFields /\ record.pc = "decide"
    BY <1>0 DEF Shapes, ReaderFields
  <2>2. SetReader(r, record) /\ UNCHANGED <<task, owner>>
    BY <1>4 DEF Count
  <2> HIDE DEF record
  <2> QED
    BY <1>r, <2>1, <2>2
<1>5. ASSUME NEW r \in Readers, NEW t \in Tasks, Spawn(r, t) PROVE OwnershipInv'
  <2> DEFINE record == [IdleTask EXCEPT !.pc = "spawned",
                                        !.plan = Plan(now, full_refresh_generation),
                                        !.base = reader[r].stored.snapshot]
  <2>1. DOMAIN record = TaskFields /\ record.pc = "spawned"
    BY DEF IdleTask, TaskFields
  <2>2. DOMAIN IdleReader = ReaderFields /\ SetReader(r, IdleReader)
    BY <1>5 DEF Spawn, IdleReader, ReaderFields
  <2>3. SetTask(t, record) /\ owner = r /\ owner' = t
    BY <1>5 DEF Spawn, MayRefresh
  <2> HIDE DEF record
  <2>4. Shapes'
    BY <1>0, <2>1, <2>2, <2>3, SetReaderShape, SetTaskShape DEF Shapes
  <2>5. \A q \in Tasks : task[q].pc = "idle"
    BY <1>0, <2>3 DEF GuardDiscipline, Active
  <2>6. task'[t].pc # "idle" /\ \A q \in Tasks \ {t} : task'[q].pc = "idle"
    BY <1>0, <2>1, <2>3, <2>5, SetTaskShape
  <2>7. GuardDiscipline'
    BY <2>3, <2>6 DEF GuardDiscipline, Active
  <2> QED
    BY <2>4, <2>7 DEF OwnershipInv
<1>6. ASSUME NEW r \in Readers, Respond(r) \/ Cancel(r) PROVE OwnershipInv'
  <2>1. DOMAIN IdleReader = ReaderFields
    BY DEF IdleReader, ReaderFields
  <2>2. /\ SetReader(r, IdleReader) /\ task' = task
        /\ owner' = IF owner = r THEN None ELSE owner
    BY <1>6 DEF Respond, Cancel, Release
  <2> QED
    BY <1>r, <2>1, <2>2
<1>t. ASSUME NEW t \in Tasks, NEW record, Active(t), record.pc # "idle",
             DOMAIN record = TaskFields, SetTask(t, record), UNCHANGED <<reader, owner>>
      PROVE  OwnershipInv'
  <2>1. Shapes'
    BY <1>0, <1>t, SetTaskShape DEF Shapes
  <2>2. GuardDiscipline'
    BY <1>0, <1>t, SetTaskShape DEF Shapes, GuardDiscipline, Active
  <2> QED
    BY <2>1, <2>2 DEF OwnershipInv
<1>f. ASSUME NEW t \in Tasks, Active(t), Finish(t), UNCHANGED reader PROVE OwnershipInv'
  <2>1. SetTask(t, IdleTask) /\ DOMAIN IdleTask = TaskFields /\ IdleTask.pc = "idle"
    BY <1>f DEF Finish, IdleTask, TaskFields
  <2>2. owner = t /\ owner' = None
    BY <1>0, <1>f DEF Finish, Release, GuardDiscipline
  <2>3. Shapes'
    BY <1>0, <1>f, <2>1, <2>2, SetTaskShape DEF Shapes
  <2>4. GuardDiscipline'
    BY <1>0, <1>f, <2>1, <2>2, SetTaskShape DEF Shapes, GuardDiscipline, Active
  <2> QED
    BY <2>3, <2>4 DEF OwnershipInv
<1>7. ASSUME NEW t \in Tasks, RecheckStopping(t) PROVE OwnershipInv'
  <2>1. CASE stopping
    BY <1>7, <1>f, <2>1 DEF RecheckStopping, Active
  <2>2. CASE ~ stopping
    <3> DEFINE record == [task[t] EXCEPT !.pc = "recheck"]
    <3>1. DOMAIN record = TaskFields /\ record.pc = "recheck"
      BY <1>0 DEF Shapes, TaskFields
    <3>2. SetTask(t, record) /\ Active(t) /\ UNCHANGED <<reader, owner>>
      BY <1>7, <2>2 DEF RecheckStopping, Active
    <3> HIDE DEF record
    <3> QED
      BY <1>t, <3>1, <3>2
  <2> QED
    BY <2>1, <2>2
<1>8. ASSUME NEW t \in Tasks, RecheckViewers(t) PROVE OwnershipInv'
  <2>1. CASE Live = {}
    BY <1>8, <1>f, <2>1 DEF RecheckViewers, Active
  <2>2. CASE Live # {}
    <3> DEFINE record == [task[t] EXCEPT !.pc = "fetch", !.answers = NoQuotes]
    <3>1. DOMAIN record = TaskFields /\ record.pc = "fetch"
      BY <1>0 DEF Shapes, TaskFields
    <3>2. SetTask(t, record) /\ Active(t) /\ UNCHANGED <<reader, owner>>
      BY <1>8, <2>2 DEF RecheckViewers, Active
    <3> HIDE DEF record
    <3> QED
      BY <1>t, <3>1, <3>2
  <2> QED
    BY <2>1, <2>2
<1>9. ASSUME NEW t \in Tasks, NEW i \in Index, ProviderAnswers(t, i) PROVE OwnershipInv'
  <2> DEFINE Ans(v) == Insert(task[t].answers, i, v)
             Record(v) ==
               [task[t] EXCEPT
                  !.pc = IF DOMAIN Ans(v) = task[t].plan.sources THEN "store" ELSE "fetch",
                  !.answers = Ans(v),
                  !.write = IF DOMAIN Ans(v) = task[t].plan.sources /\ Succeeded(Ans(v)) # {}
                            THEN [fetched_at |-> now_unix,
                                  quotes |-> Merge(task[t].base.quotes, Ans(v))]
                            ELSE None]
  <2>1. PICK v \in {now_unix, None} : SetTask(t, Record(v))
    BY <1>9 DEF ProviderAnswers
  <2>2. DOMAIN Record(v) = TaskFields /\ Record(v).pc # "idle"
    BY <1>0 DEF Shapes, TaskFields
  <2>3. Active(t) /\ UNCHANGED <<reader, owner>>
    BY <1>9 DEF ProviderAnswers, Active
  <2> HIDE DEF Record
  <2> QED
    BY <1>t, <2>1, <2>2, <2>3
<1>10. ASSUME NEW t \in Tasks, Commit(t) \/ StoreFails(t) PROVE OwnershipInv'
  <2> DEFINE Record(sv) == [task[t] EXCEPT !.pc = "complete", !.saved = sv]
  <2>1. PICK sv : SetTask(t, Record(sv))
    BY <1>10 DEF Commit, StoreFails
  <2>2. DOMAIN Record(sv) = TaskFields /\ Record(sv).pc = "complete"
    BY <1>0 DEF Shapes, TaskFields
  <2>3. Active(t) /\ UNCHANGED <<reader, owner>>
    BY <1>10 DEF Commit, StoreFails, Active
  <2> HIDE DEF Record
  <2> QED
    BY <1>t, <2>1, <2>2, <2>3
<1>11. ASSUME NEW t \in Tasks, CompleteRefresh(t) PROVE OwnershipInv'
  <2> DEFINE record == [task[t] EXCEPT !.pc = "publish"]
  <2>1. DOMAIN record = TaskFields /\ record.pc = "publish"
    BY <1>0 DEF Shapes, TaskFields
  <2>2. SetTask(t, record) /\ Active(t) /\ UNCHANGED <<reader, owner>>
    BY <1>11 DEF CompleteRefresh, Active
  <2> HIDE DEF record
  <2> QED
    BY <1>t, <2>1, <2>2
<1>12. ASSUME NEW t \in Tasks, Publish(t) PROVE OwnershipInv'
  BY <1>12, <1>f DEF Publish, Active
<1>13. CASE HttpDeadline
  <2>1. /\ reader' = [r \in Readers |-> IdleReader]
        /\ owner' = IF owner \in Readers THEN None ELSE owner
        /\ task' = task
    BY <1>13 DEF HttpDeadline
  <2>2. Shapes'
    BY <1>0, <2>1 DEF Shapes, IdleReader, ReaderFields
  <2>3. GuardDiscipline'
    BY <1>0, <2>1 DEF Shapes, GuardDiscipline, Active
  <2> QED
    BY <2>2, <2>3 DEF OwnershipInv
<1>14. CASE ShutdownRequested \/ HttpDrained \/ RefreshDrained \/ RefreshDeadline
  BY <1>14, <1>u DEF ShutdownRequested, HttpDrained, RefreshDrained, RefreshDeadline
<1>15. CASE Restart
  BY <1>15 DEF Restart, OwnershipInv, Shapes, GuardDiscipline, Active, IdleReader, IdleTask,
     ReaderFields, TaskFields
<1>16. CASE Tick \/ AdjustClock
  BY <1>16, <1>u DEF Tick, AdjustClock, processVars
<1>17. CASE UNCHANGED vars
  BY <1>17, <1>u DEF vars, processVars
<1> QED
  BY <1>1, <1>2, <1>3, <1>4, <1>5, <1>6, <1>7, <1>8, <1>9, <1>10, <1>11, <1>12, <1>13, <1>14,
     <1>15, <1>16, <1>17 DEF Next, ReaderStep, TaskStep, Shutdown

(* The guard is held exactly by a live request or by the one task at work. *)
THEOREM Ownership == Spec => []GuardDiscipline
<1>1. OwnershipInv => GuardDiscipline
  BY DEF OwnershipInv
<1> QED
  BY <1>1, OwnershipInit, OwnershipStep, PTL DEF Spec

(* At most one refresh task is at work. *)
THEOREM OneRefresh == Spec => []SingleFlight
<1>1. GuardDiscipline => SingleFlight
  BY DEF GuardDiscipline, SingleFlight
<1> QED
  BY <1>1, Ownership, PTL

-----------------------------------------------------------------------------
LEMMA CurrentInit == Init => CurrentInv
  BY DEF Init, Boot, CurrentInv, OwnerReadsCurrent, BaseIsCurrent, IdleReader, IdleTask

LEMMA CurrentStep == OwnershipInv /\ CurrentInv /\ [Next]_vars => CurrentInv'
<1> SUFFICES ASSUME OwnershipInv, CurrentInv, [Next]_vars PROVE CurrentInv'
  OBVIOUS
<1>0. Shapes /\ GuardDiscipline
  BY DEF OwnershipInv
<1>u. ASSUME UNCHANGED <<db, owner, reader, task>> PROVE CurrentInv'
  BY <1>u DEF CurrentInv, OwnerReadsCurrent, BaseIsCurrent
<1>r. ASSUME NEW r \in Readers, NEW record, DOMAIN record = ReaderFields, SetReader(r, record),
             UNCHANGED <<db, task>>,
             \A q \in Readers \ {r} : owner' = q => owner = q,
             owner' = r /\ record.pc \in {"count", "decide"} /\ record.stored # None
                => record.stored = db
      PROVE  CurrentInv'
  <2>1. OwnerReadsCurrent'
    BY <1>0, <1>r, SetReaderShape DEF CurrentInv, OwnerReadsCurrent
  <2>2. BaseIsCurrent'
    BY <1>r DEF CurrentInv, BaseIsCurrent
  <2> QED
    BY <2>1, <2>2 DEF CurrentInv
<1>t. ASSUME NEW t \in Tasks, NEW record, DOMAIN record = TaskFields, SetTask(t, record),
             UNCHANGED <<db, reader>>, owner' \in {owner, None},
             record.pc \in {"spawned", "recheck", "fetch", "store"} => record.base = db.snapshot
      PROVE  CurrentInv'
  <2>1. OwnerReadsCurrent'
    BY <1>0, <1>t DEF CurrentInv, OwnerReadsCurrent, Shapes
  <2>2. BaseIsCurrent'
    BY <1>0, <1>t, SetTaskShape DEF CurrentInv, BaseIsCurrent
  <2> QED
    BY <2>1, <2>2 DEF CurrentInv
<1>f. ASSUME NEW t \in Tasks, Finish(t), UNCHANGED <<db, reader>> PROVE CurrentInv'
  <2>1. SetTask(t, IdleTask) /\ DOMAIN IdleTask = TaskFields /\ IdleTask.pc = "idle"
    BY <1>f DEF Finish, IdleTask, TaskFields
  <2>2. owner' \in {owner, None}
    BY <1>f DEF Finish, Release
  <2> QED
    BY <1>f, <1>t, <2>1, <2>2
<1>1. CASE ViewerAction
  BY <1>1, <1>u DEF ViewerAction
<1>2. ASSUME NEW r \in Readers, Request(r) PROVE CurrentInv'
  <2> DEFINE record == [IdleReader EXCEPT !.pc = "load"]
  <2>1. DOMAIN record = ReaderFields /\ record.pc = "load"
    BY DEF IdleReader, ReaderFields
  <2>2. SetReader(r, record) /\ UNCHANGED <<db, task>> /\ owner' \in {owner, r}
    BY <1>2 DEF Request, Acquire
  <2> HIDE DEF record
  <2> QED
    BY <1>r, <2>1, <2>2
<1>3. ASSUME NEW r \in Readers, Load(r) PROVE CurrentInv'
  <2>1. PICK stored \in {db, None} :
          SetReader(r, [pc |-> "count", stored |-> stored, seen |-> None])
    BY <1>3 DEF Load
  <2> DEFINE record == [pc |-> "count", stored |-> stored, seen |-> None]
  <2>2. DOMAIN record = ReaderFields /\ record.stored \in {db, None}
    BY DEF ReaderFields
  <2>3. SetReader(r, record) /\ UNCHANGED <<db, task, owner>>
    BY <1>3, <2>1 DEF Load
  <2> HIDE DEF record
  <2> QED
    BY <1>r, <2>2, <2>3
<1>4. ASSUME NEW r \in Readers, Count(r) PROVE CurrentInv'
  <2> DEFINE record == [reader[r] EXCEPT !.pc = "decide",
                                         !.seen = [viewers |-> Live # {}, at |-> now_unix]]
  <2>1. DOMAIN record = ReaderFields /\ record.stored = reader[r].stored
    BY <1>0 DEF Shapes, ReaderFields
  <2>2. reader[r].pc = "count" /\ SetReader(r, record) /\ UNCHANGED <<db, task, owner>>
    BY <1>4 DEF Count
  <2>3. owner = r /\ reader[r].stored # None => reader[r].stored = db
    BY <2>2 DEF CurrentInv, OwnerReadsCurrent
  <2> HIDE DEF record
  <2> QED
    BY <1>r, <2>1, <2>2, <2>3
<1>5. ASSUME NEW r \in Readers, NEW t \in Tasks, Spawn(r, t) PROVE CurrentInv'
  <2> DEFINE record == [IdleTask EXCEPT !.pc = "spawned",
                                        !.plan = Plan(now, full_refresh_generation),
                                        !.base = reader[r].stored.snapshot]
  <2>1. DOMAIN record = TaskFields /\ record.base = reader[r].stored.snapshot
    BY DEF IdleTask, TaskFields
  <2>2. reader[r].stored = db
    BY <1>5 DEF Spawn, MayRefresh, CurrentInv, OwnerReadsCurrent
  <2>3. SetTask(t, record) /\ owner' = t /\ db' = db
    BY <1>5 DEF Spawn
  <2> HIDE DEF record
  <2>4. BaseIsCurrent'
    BY <1>0, <2>1, <2>2, <2>3, SetTaskShape DEF CurrentInv, BaseIsCurrent
  <2>5. OwnerReadsCurrent'
    BY <2>3 DEF OwnerReadsCurrent
  <2> QED
    BY <2>4, <2>5 DEF CurrentInv
<1>6. ASSUME NEW r \in Readers, Respond(r) \/ Cancel(r) PROVE CurrentInv'
  <2>1. DOMAIN IdleReader = ReaderFields /\ IdleReader.pc = "idle"
    BY DEF IdleReader, ReaderFields
  <2>2. SetReader(r, IdleReader) /\ UNCHANGED <<db, task>> /\ owner' \in {owner, None}
    BY <1>6 DEF Respond, Cancel, Release
  <2> QED
    BY <1>r, <2>1, <2>2
<1>7. ASSUME NEW t \in Tasks, RecheckStopping(t) PROVE CurrentInv'
  <2>1. CASE stopping
    BY <1>7, <1>f, <2>1 DEF RecheckStopping
  <2>2. CASE ~ stopping
    <3> DEFINE record == [task[t] EXCEPT !.pc = "recheck"]
    <3>1. DOMAIN record = TaskFields /\ record.base = task[t].base
      BY <1>0 DEF Shapes, TaskFields
    <3>2. task[t].pc = "spawned" /\ SetTask(t, record) /\ UNCHANGED <<db, reader, owner>>
      BY <1>7, <2>2 DEF RecheckStopping
    <3>3. task[t].base = db.snapshot
      BY <3>2 DEF CurrentInv, BaseIsCurrent
    <3> HIDE DEF record
    <3> QED
      BY <1>t, <3>1, <3>2, <3>3
  <2> QED
    BY <2>1, <2>2
<1>8. ASSUME NEW t \in Tasks, RecheckViewers(t) PROVE CurrentInv'
  <2>1. CASE Live = {}
    BY <1>8, <1>f, <2>1 DEF RecheckViewers
  <2>2. CASE Live # {}
    <3> DEFINE record == [task[t] EXCEPT !.pc = "fetch", !.answers = NoQuotes]
    <3>1. DOMAIN record = TaskFields /\ record.base = task[t].base
      BY <1>0 DEF Shapes, TaskFields
    <3>2. task[t].pc = "recheck" /\ SetTask(t, record) /\ UNCHANGED <<db, reader, owner>>
      BY <1>8, <2>2 DEF RecheckViewers
    <3>3. task[t].base = db.snapshot
      BY <3>2 DEF CurrentInv, BaseIsCurrent
    <3> HIDE DEF record
    <3> QED
      BY <1>t, <3>1, <3>2, <3>3
  <2> QED
    BY <2>1, <2>2
<1>9. ASSUME NEW t \in Tasks, NEW i \in Index, ProviderAnswers(t, i) PROVE CurrentInv'
  <2> DEFINE Ans(v) == Insert(task[t].answers, i, v)
             Record(v) ==
               [task[t] EXCEPT
                  !.pc = IF DOMAIN Ans(v) = task[t].plan.sources THEN "store" ELSE "fetch",
                  !.answers = Ans(v),
                  !.write = IF DOMAIN Ans(v) = task[t].plan.sources /\ Succeeded(Ans(v)) # {}
                            THEN [fetched_at |-> now_unix,
                                  quotes |-> Merge(task[t].base.quotes, Ans(v))]
                            ELSE None]
  <2>1. PICK v \in {now_unix, None} : SetTask(t, Record(v))
    BY <1>9 DEF ProviderAnswers
  <2>2. DOMAIN Record(v) = TaskFields /\ Record(v).base = task[t].base
    BY <1>0 DEF Shapes, TaskFields
  <2>3. task[t].pc = "fetch" /\ UNCHANGED <<db, reader, owner>>
    BY <1>9 DEF ProviderAnswers
  <2>4. task[t].base = db.snapshot
    BY <2>3 DEF CurrentInv, BaseIsCurrent
  <2> HIDE DEF Record
  <2> QED
    BY <1>t, <2>1, <2>2, <2>3, <2>4
<1>10. ASSUME NEW t \in Tasks, Commit(t) PROVE CurrentInv'
  <2> DEFINE record == [task[t] EXCEPT !.pc = "complete", !.saved = TRUE]
  <2>1. DOMAIN record = TaskFields /\ record.pc = "complete"
    BY <1>0 DEF Shapes, TaskFields
  <2>2. SetTask(t, record) /\ Active(t) /\ UNCHANGED <<reader, owner>>
    BY <1>10 DEF Commit, Active
  <2> HIDE DEF record
  <2>3. owner = t /\ \A q \in Tasks \ {t} : task[q].pc = "idle"
    BY <1>0, <2>2 DEF GuardDiscipline, Active
  <2>4. \A q \in Tasks : task'[q].pc \in {"complete", "idle"}
    BY <1>0, <2>1, <2>2, <2>3, SetTaskShape
  <2>5. BaseIsCurrent'
    BY <2>4 DEF BaseIsCurrent
  <2>6. OwnerReadsCurrent'
    BY <2>2, <2>3 DEF OwnerReadsCurrent
  <2> QED
    BY <2>5, <2>6 DEF CurrentInv
<1>11. ASSUME NEW t \in Tasks, StoreFails(t) PROVE CurrentInv'
  <2> DEFINE record == [task[t] EXCEPT !.pc = "complete", !.saved = FALSE]
  <2>1. DOMAIN record = TaskFields /\ record.pc = "complete"
    BY <1>0 DEF Shapes, TaskFields
  <2>2. SetTask(t, record) /\ UNCHANGED <<db, reader, owner>>
    BY <1>11 DEF StoreFails
  <2> HIDE DEF record
  <2> QED
    BY <1>t, <2>1, <2>2
<1>12. ASSUME NEW t \in Tasks, CompleteRefresh(t) PROVE CurrentInv'
  <2> DEFINE record == [task[t] EXCEPT !.pc = "publish"]
  <2>1. DOMAIN record = TaskFields /\ record.pc = "publish"
    BY <1>0 DEF Shapes, TaskFields
  <2>2. SetTask(t, record) /\ UNCHANGED <<db, reader, owner>>
    BY <1>12 DEF CompleteRefresh
  <2> HIDE DEF record
  <2> QED
    BY <1>t, <2>1, <2>2
<1>13. ASSUME NEW t \in Tasks, Publish(t) PROVE CurrentInv'
  BY <1>13, <1>f DEF Publish
<1>14. CASE HttpDeadline
  BY <1>14 DEF HttpDeadline, CurrentInv, OwnerReadsCurrent, BaseIsCurrent, IdleReader
<1>15. CASE ShutdownRequested \/ HttpDrained \/ RefreshDrained \/ RefreshDeadline
  BY <1>15, <1>u DEF ShutdownRequested, HttpDrained, RefreshDrained, RefreshDeadline
<1>16. CASE Restart
  BY <1>16 DEF Restart, CurrentInv, OwnerReadsCurrent, BaseIsCurrent, IdleReader, IdleTask
<1>17. CASE Tick \/ AdjustClock
  BY <1>17, <1>u DEF Tick, AdjustClock, processVars
<1>18. CASE UNCHANGED vars
  BY <1>18, <1>u DEF vars, processVars
<1> QED
  BY <1>1, <1>2, <1>3, <1>4, <1>5, <1>6, <1>7, <1>8, <1>9, <1>10, <1>11, <1>12, <1>13, <1>14,
     <1>15, <1>16, <1>17, <1>18 DEF Next, ReaderStep, TaskStep, Shutdown

LEMMA Currency == Spec => []CurrentInv
  BY OwnershipInit, OwnershipStep, CurrentInit, CurrentStep, PTL DEF Spec

(* A request that owns the mutex decides on the database as it is. *)
THEOREM DecisionsAreCurrent == Spec => []OwnerReadsCurrent
<1>1. CurrentInv => OwnerReadsCurrent
  BY DEF CurrentInv
<1> QED
  BY <1>1, Currency, PTL

(* A refresh merges its quotes into the stored snapshot as it is: none is lost. *)
THEOREM MergesAreCurrent == Spec => []BaseIsCurrent
<1>1. CurrentInv => BaseIsCurrent
  BY DEF CurrentInv
<1> QED
  BY <1>1, Currency, PTL

-----------------------------------------------------------------------------
(* The requests are drained before the refresh is waited for, and stay so. *)
LEMMA DrainStep == DrainedOfRequests /\ [Next]_vars => DrainedOfRequests'
<1> SUFFICES ASSUME DrainedOfRequests, [Next]_vars PROVE DrainedOfRequests'
  OBVIOUS
<1> USE DEF DrainedOfRequests
<1>1. CASE ViewerAction
  BY <1>1 DEF ViewerAction
<1>2. ASSUME NEW r \in Readers, Request(r) PROVE DrainedOfRequests'
  BY <1>2 DEF Request, Serving
<1>3. ASSUME NEW r \in Readers, ReaderStep(r) \/ Cancel(r) PROVE DrainedOfRequests'
  <2>1. reader[r].pc # "idle" /\ phase' = phase
    BY <1>3 DEF ReaderStep, Load, Count, Spawn, Respond, Cancel
  <2> QED
    BY <2>1
<1>4. ASSUME NEW t \in Tasks, TaskStep(t) PROVE DrainedOfRequests'
  <2>1. UNCHANGED <<phase, reader>>
    BY <1>4 DEF TaskStep, RecheckStopping, RecheckViewers, ProviderAnswers, Commit, StoreFails,
                CompleteRefresh, Publish
  <2> QED
    BY <2>1
<1>5. CASE Shutdown
  BY <1>5 DEF Shutdown, ShutdownRequested, HttpDrained, HttpDeadline, RefreshDrained,
              RefreshDeadline
<1>6. CASE Restart
  BY <1>6 DEF Restart
<1>7. CASE Tick \/ AdjustClock \/ UNCHANGED vars
  BY <1>7 DEF Tick, AdjustClock, vars, processVars
<1> QED
  BY <1>1, <1>2, <1>3, <1>4, <1>5, <1>6, <1>7 DEF Next

(* After an orderly stop nobody owns the mutex. *)
StoppedIsFree == phase = "stopped" => owner = None

LEMMA StopStep == OwnershipInv /\ DrainedOfRequests /\ StoppedIsFree /\ [Next]_vars => StoppedIsFree'
<1> SUFFICES ASSUME OwnershipInv, DrainedOfRequests, StoppedIsFree, [Next]_vars
             PROVE  StoppedIsFree'
  OBVIOUS
<1>0. GuardDiscipline
  BY DEF OwnershipInv
<1> USE DEF StoppedIsFree, DrainedOfRequests
<1>1. CASE ViewerAction
  BY <1>1 DEF ViewerAction
<1>2. ASSUME NEW r \in Readers, Request(r) PROVE StoppedIsFree'
  BY <1>2 DEF Request, Serving
<1>3. ASSUME NEW r \in Readers, ReaderStep(r) \/ Cancel(r) PROVE StoppedIsFree'
  <2>1. reader[r].pc # "idle" /\ phase' = phase
    BY <1>3 DEF ReaderStep, Load, Count, Spawn, Respond, Cancel
  <2> QED
    BY <2>1
<1>4. ASSUME NEW t \in Tasks, TaskStep(t) PROVE StoppedIsFree'
  <2>1. Active(t) /\ phase' = phase
    BY <1>4 DEF TaskStep, RecheckStopping, RecheckViewers, ProviderAnswers, Commit, StoreFails,
                CompleteRefresh, Publish, Active
  <2> QED
    BY <1>0, <2>1 DEF GuardDiscipline
<1>5. CASE Shutdown
  BY <1>5 DEF Shutdown, ShutdownRequested, HttpDrained, HttpDeadline, RefreshDrained,
              RefreshDeadline
<1>6. CASE Restart
  BY <1>6 DEF Restart
<1>7. CASE Tick \/ AdjustClock \/ UNCHANGED vars
  BY <1>7 DEF Tick, AdjustClock, vars, processVars
<1> QED
  BY <1>1, <1>2, <1>3, <1>4, <1>5, <1>6, <1>7 DEF Next

(* An orderly stop leaves no request and no refresh running. *)
THEOREM QuietStop == Spec => []StoppedMeansQuiet
<1>1. Init => DrainedOfRequests /\ StoppedIsFree
  BY DEF Init, Boot, DrainedOfRequests, StoppedIsFree
<1>2. OwnershipInv /\ DrainedOfRequests /\ StoppedIsFree => StoppedMeansQuiet
  BY DEF OwnershipInv, GuardDiscipline, DrainedOfRequests, StoppedIsFree, StoppedMeansQuiet,
         Active
<1> QED
  BY <1>1, <1>2, OwnershipInit, OwnershipStep, DrainStep, StopStep, PTL DEF Spec

-----------------------------------------------------------------------------
(* The clock and the viewers.                                              *)

ClockInv == now \in Nat /\ skew \in Skews /\ adjusted \in BOOLEAN

ViewersInv == IsViewerMap(viewers, now) /\ full_refresh_generation \in Nat

(* Time goes on; the wall clock is set at most once.                       *)
LEMMA ClockStep ==
    ASSUME ClockInv, [Next]_vars
    PROVE  /\ ClockInv'
           /\ now' \in Nat /\ now <= now' /\ now' <= now + 1
           /\ adjusted' = FALSE => adjusted = FALSE /\ skew' = skew
<1>1. CASE UNCHANGED clockVars
  BY <1>1 DEF ClockInv, clockVars
<1>2. CASE Tick
  BY <1>2 DEF ClockInv, Tick
<1>3. CASE AdjustClock
  BY <1>3 DEF ClockInv, AdjustClock
<1>4. CASE UNCHANGED vars
  BY <1>4 DEF ClockInv, vars, clockVars
<1>5. CASE ViewerAction \/ Shutdown \/ Restart
  BY <1>1, <1>5 DEF ViewerAction, Shutdown, ShutdownRequested, HttpDrained, HttpDeadline,
     RefreshDrained, RefreshDeadline, Restart
<1>6. ASSUME NEW r \in Readers, Request(r) \/ ReaderStep(r) \/ Cancel(r) PROVE UNCHANGED clockVars
  BY <1>6 DEF Request, ReaderStep, Load, Count, Spawn, Respond, Cancel
<1>7. ASSUME NEW t \in Tasks, TaskStep(t) PROVE UNCHANGED clockVars
  BY <1>7 DEF TaskStep, RecheckStopping, RecheckViewers, ProviderAnswers, Commit, StoreFails,
     CompleteRefresh, Publish
<1> QED
  BY <1>1, <1>2, <1>3, <1>4, <1>5, <1>6, <1>7 DEF Next

LEMMA PrunedMap ==
    ASSUME NEW map, NEW t \in Nat, IsViewerMap(map, t)
    PROVE  IsViewerMap(Prune(map, t), t)
  BY DEF IsViewerMap, Prune, Unexpired

LEMMA ViewersStep ==
    ASSUME ClockInv, ViewersInv, [Next]_vars
    PROVE  ViewersInv'
<1> DEFINE pruned == Prune(viewers, now)
<1>1. IsViewerMap(pruned, now) /\ now \in Nat
  BY PrunedMap DEF ClockInv, ViewersInv
<1>2. now' \in Nat /\ now <= now' /\ now' <= now + 1
  BY ClockStep
<1>3. CASE UNCHANGED presenceVars
  BY <1>1, <1>2, <1>3 DEF ViewersInv, IsViewerMap, presenceVars
<1>4. CASE ViewerAction
  <2>1. PICK s \in Sessions : Heartbeat(s) \/ Reject(s) \/ Leave(s)
    BY <1>4 DEF ViewerAction
  <2>2. now' = now
    BY <1>4 DEF ViewerAction, clockVars
  <2>3. full_refresh_generation' \in Nat
    BY <2>1 DEF ViewersInv, Heartbeat, Reject, Leave
  <2>4. viewers' = Insert(pruned, s, now) \/ viewers' = pruned \/ viewers' = Remove(pruned, s)
    BY <2>1 DEF Heartbeat, Reject, Leave
  <2> HIDE DEF pruned
  <2>5. IsViewerMap(Insert(pruned, s, now), now)
    BY <1>1 DEF IsViewerMap, Insert
  <2>6. IsViewerMap(Remove(pruned, s), now)
    BY <1>1 DEF IsViewerMap, Remove
  <2> QED
    BY <1>1, <2>2, <2>3, <2>4, <2>5, <2>6 DEF ViewersInv
<1>5. CASE CountViewers /\ now' = now
  BY <1>1, <1>5 DEF ViewersInv, CountViewers
<1>6. CASE Restart
  BY <1>2, <1>6 DEF Restart, PresenceRestarts, NoViewers, ViewersInv, IsViewerMap
<1>7. ASSUME NEW r \in Readers, Request(r) \/ ReaderStep(r) \/ Cancel(r) PROVE ViewersInv'
  BY <1>3, <1>5, <1>7 DEF Request, ReaderStep, Load, Count, Spawn, Respond, Cancel, clockVars
<1>8. ASSUME NEW t \in Tasks, TaskStep(t) PROVE ViewersInv'
  BY <1>3, <1>5, <1>8 DEF TaskStep, RecheckStopping, RecheckViewers, ProviderAnswers, Commit,
     StoreFails, CompleteRefresh, Publish, clockVars
<1>9. CASE Shutdown \/ Tick \/ AdjustClock \/ UNCHANGED vars
  BY <1>3, <1>9 DEF Shutdown, ShutdownRequested, HttpDrained, HttpDeadline, RefreshDrained,
     RefreshDeadline, Tick, AdjustClock, vars, processVars
<1> QED
  BY <1>4, <1>6, <1>7, <1>8, <1>9 DEF Next

-----------------------------------------------------------------------------
(* The coordinator's state, and what it is told.                           *)

Below == {pair \in Nat \X Nat : pair[1] < pair[2]}

LEMMA BelowWellFounded == IsWellFoundedOn(Below, Nat)
  BY NatLessThanWellFounded DEF OpToRel, Below

(* Of a set of providers one is the last: its distance to the end is least. *)
LEMMA LastIsIndex ==
    ASSUME NEW sources \in (SUBSET Index) \ {{}}
    PROVE  LastOf(sources) \in Index
<1> DEFINE Distances == {N - i : i \in sources}
<1>1. sources # {} /\ \A i \in sources : i \in Int /\ N - i \in Nat
  BY NAssumption DEF Index
<1>2. Distances \subseteq Nat /\ Distances # {}
  BY <1>1
<1>3. PICK d \in Distances : \A e \in Distances : <<e, d>> \notin Below
  <2> HIDE DEF Distances
  <2> QED
    BY <1>2, BelowWellFounded, WFMin
<1>4. PICK i \in sources : d = N - i
  OBVIOUS
<1>5. ASSUME NEW j \in sources PROVE j <= i
  <2>1. N - j \in Nat /\ N - i \in Nat /\ ~ (N - j < N - i)
    BY <1>1, <1>3, <1>4 DEF Below
  <2> QED
    BY <1>1, <2>1, NAssumption
<1>6. LastOf(sources) \in sources
  BY <1>5 DEF LastOf
<1> QED
  BY <1>6

LEMMA UnhintedWait ==
    ASSUME NEW i \in Index, NEW t \in Nat, NEW unix \in Int, CoordinatorTypeOK
    PROVE  RetryAt(FailureCount(i), None, t, unix) \in Nat
<1>1. FailureCount(i) \in 1 .. 6
  BY DEF CoordinatorTypeOK, FailureCount, Least, MaxFailures
<1>2. ASSUME NEW count \in 1 .. 6 PROVE Backoff(count) \in Nat
  <2>1. <<1, 2, 4, 8, 16, 32>>[count] \in {1, 2, 4, 8, 16, 32}
    BY <1>2
  <2>2. BackoffBase * <<1, 2, 4, 8, 16, 32>>[count] \in Nat
    BY <2>1, BackoffAssumption
  <2> QED
    BY <2>2, BackoffAssumption DEF Backoff, Least
<1>3. Backoff(FailureCount(i)) \in Nat /\ HintDelay(None, unix) = 0
  BY <1>1, <1>2 DEF HintDelay
<1> HIDE DEF Backoff
<1> QED
  BY <1>3 DEF RetryAt, Greatest

LEMMA BeginTypes ==
    ASSUME CoordinatorTypeOK, NEW t \in Nat, NEW generation \in Nat, Begin(t, generation)
    PROVE  /\ CoordinatorTypeOK'
           /\ Plan(t, generation).sources \in (SUBSET Index) \ {{}}
           /\ Plan(t, generation).generation \in Nat
<1> DEFINE sources == Plan(t, generation).sources
<1>1. sources \in (SUBSET Index) \ {{}} /\ Plan(t, generation).generation \in Nat
  BY DEF Begin, CanBegin, Plan, Selected
<1>2. LastOf(sources) \in Index
  BY <1>1, LastIsIndex
<1>3. After(LastOf(sources)) \in Index
  BY <1>2, NAssumption DEF After, Index
<1>4. /\ last_attempt' = t /\ next_source' = After(LastOf(sources))
      /\ next_eligible' = [i \in Index |-> IF i \in sources THEN t + Interval ELSE next_eligible[i]]
      /\ UNCHANGED <<consecutive_failures, completed_generation>>
  BY DEF Begin
<1> HIDE DEF sources
<1>5. next_eligible' \in [Index -> Nat \union {None}]
  BY <1>4, IntervalAssumption DEF CoordinatorTypeOK
<1> QED
  BY <1>1, <1>3, <1>4, <1>5 DEF CoordinatorTypeOK, sources

LEMMA CompleteTypes ==
    ASSUME CoordinatorTypeOK, NEW plan, NEW failed \in SUBSET Index, NEW t \in Nat,
           NEW unix \in Int, plan.generation \in Nat,
           Complete(plan, [i \in failed |-> None], t, unix)
    PROVE  CoordinatorTypeOK'
<1>1. /\ consecutive_failures' =
           [i \in Index |-> IF i \in failed THEN FailureCount(i)
                            ELSE IF i \in plan.sources THEN 0
                            ELSE consecutive_failures[i]]
      /\ next_eligible' =
           [i \in Index |-> IF i \in failed THEN RetryAt(FailureCount(i), None, t, unix)
                            ELSE next_eligible[i]]
      /\ completed_generation' =
           IF plan.full_refresh THEN plan.generation ELSE completed_generation
      /\ UNCHANGED <<next_source, last_attempt>>
  BY DEF Complete
<1>2. \A i \in Index : FailureCount(i) \in 0 .. MaxFailures
  BY DEF CoordinatorTypeOK, FailureCount, Least, MaxFailures
<1>3. consecutive_failures' \in [Index -> 0 .. MaxFailures]
  BY <1>1, <1>2 DEF CoordinatorTypeOK, MaxFailures
<1>4. next_eligible' \in [Index -> Nat \union {None}]
  BY <1>1, UnhintedWait DEF CoordinatorTypeOK
<1>5. completed_generation' \in Nat
  BY <1>1 DEF CoordinatorTypeOK
<1> QED
  BY <1>1, <1>3, <1>4, <1>5 DEF CoordinatorTypeOK

-----------------------------------------------------------------------------
(* A refresh gathers one batch: at every step of a task its plan, its      *)
(* answers and what it is about to write belong together.                  *)

Answers(answers, sources, latest) ==
    /\ answers = [i \in DOMAIN answers |-> answers[i]]
    /\ DOMAIN answers \subseteq sources
    /\ \A i \in DOMAIN answers : answers[i] \in 0 .. latest \union {None}

\* Task record k, when no clock can have shown more than latest.
InOrder(k, latest) ==
    /\ k.pc \in {"idle", "spawned", "recheck", "fetch", "store", "complete", "publish"}
    /\ k.pc # "idle" => /\ k.plan.sources \in (SUBSET Index) \ {{}}
                        /\ k.plan.generation \in Nat
    /\ k.pc \in {"spawned", "recheck", "fetch", "store"} => k.saved = None
    /\ k.pc \in {"fetch", "store", "complete", "publish"} =>
         Answers(k.answers, k.plan.sources, latest)
    /\ k.pc \in {"store", "complete", "publish"} => DOMAIN k.answers = k.plan.sources
    /\ k.pc = "store" =>
         IF Succeeded(k.answers) = {} THEN k.write = None
         ELSE /\ k.write \in Snapshots
              /\ k.write.quotes = Merge(k.base.quotes, k.answers)

StoredInOrder(d, latest) ==
    /\ d.snapshot.quotes = [i \in DOMAIN d.snapshot.quotes |-> d.snapshot.quotes[i]]
    /\ \A i \in DOMAIN d.snapshot.quotes : d.snapshot.quotes[i] \in 0 .. latest
    /\ d.snapshot.fetched_at \in Nat \union {None}
    /\ d.snapshot.fetched_at = None <=> DOMAIN d.snapshot.quotes = {}
    /\ d.health = [i \in DOMAIN d.health |-> d.health[i]]
    /\ DOMAIN d.health \subseteq Index
    /\ DOMAIN d.snapshot.quotes \subseteq DOMAIN d.health

BatchInv ==
    /\ StoredInOrder(db, furthest)
    /\ \A t \in Tasks : InOrder(task[t], furthest)

Clocked == ClockInv /\ ViewersInv /\ CoordinatorTypeOK

LEMMA FurthestGrows ==
    ASSUME ClockInv, [Next]_vars
    PROVE  furthest \in Nat /\ furthest' \in Nat /\ furthest <= furthest'
<1>1. now \in Nat /\ now' \in Nat /\ now <= now'
  BY ClockStep DEF ClockInv
<1>2. \A a, b, c \in Nat : a <= b => a + c \in Nat /\ b + c \in Nat /\ a + c <= b + c
  OBVIOUS
<1>3. MaxSkew \in Nat
  BY ProcessAssumption
<1>4. now + MaxSkew \in Nat /\ now' + MaxSkew \in Nat /\ now + MaxSkew <= now' + MaxSkew
  BY <1>1, <1>2, <1>3
<1> QED
  BY <1>4, Zenon DEF furthest

LEMMA OrderKept ==
    ASSUME NEW k, NEW a \in Nat, NEW b \in Nat, a <= b, InOrder(k, a)
    PROVE  InOrder(k, b)
<1>1. 0 .. a \subseteq 0 .. b
  OBVIOUS
<1> QED
  BY <1>1 DEF InOrder, Answers

LEMMA StoreKept ==
    ASSUME NEW d, NEW a \in Nat, NEW b \in Nat, a <= b, StoredInOrder(d, a)
    PROVE  StoredInOrder(d, b)
<1>1. 0 .. a \subseteq 0 .. b
  OBVIOUS
<1> QED
  BY <1>1 DEF StoredInOrder

LEMMA IdleInOrder == \A latest : InOrder(IdleTask, latest)
  BY DEF InOrder, IdleTask

(* The new record of the one task that moves is what matters.              *)
LEMMA TaskInOrder ==
    ASSUME Shapes, ClockInv, BatchInv, [Next]_vars, NEW t \in Tasks, NEW record,
           DOMAIN record = TaskFields, SetTask(t, record), InOrder(record, furthest), db' = db
    PROVE  BatchInv'
<1>1. furthest \in Nat /\ furthest' \in Nat /\ furthest <= furthest'
  BY FurthestGrows
<1>2. \A q \in Tasks : task'[q] = record \/ task'[q] = task[q]
  BY SetTaskShape
<1>3. \A q \in Tasks : InOrder(task'[q], furthest)
  BY <1>2 DEF BatchInv
<1> QED
  BY <1>1, <1>3, OrderKept, StoreKept DEF BatchInv

LEMMA OthersInOrder ==
    ASSUME ClockInv, BatchInv, [Next]_vars, db' = db,
           task' = task \/ task' = [t \in Tasks |-> IdleTask]
    PROVE  BatchInv'
<1>1. furthest \in Nat /\ furthest' \in Nat /\ furthest <= furthest'
  BY FurthestGrows
<1>2. \A q \in Tasks : InOrder(task'[q], furthest)
  BY IdleInOrder DEF BatchInv
<1> QED
  BY <1>1, <1>2, OrderKept, StoreKept DEF BatchInv
(* A granted plan is a nonempty set of providers.                          *)
LEMMA SpawnOrder ==
    ASSUME Shapes, Clocked, BatchInv, NEW r \in Readers, NEW t \in Tasks, Spawn(r, t)
    PROVE  BatchInv' /\ CoordinatorTypeOK'
<1> DEFINE record == [IdleTask EXCEPT !.pc = "spawned",
                                      !.plan = Plan(now, full_refresh_generation),
                                      !.base = reader[r].stored.snapshot]
<1>1. /\ SetTask(t, record) /\ db' = db /\ Begin(now, full_refresh_generation)
      /\ [Next]_vars
  BY DEF Spawn, Next, ReaderStep
<1>2. now \in Nat /\ full_refresh_generation \in Nat /\ CoordinatorTypeOK /\ ClockInv
  BY DEF Clocked, ClockInv, ViewersInv
<1>3. /\ CoordinatorTypeOK'
      /\ Plan(now, full_refresh_generation).sources \in (SUBSET Index) \ {{}}
      /\ Plan(now, full_refresh_generation).generation \in Nat
  BY <1>1, <1>2, BeginTypes
<1>4. DOMAIN record = TaskFields
  BY DEF IdleTask, TaskFields
<1>5. /\ record.pc = "spawned" /\ record.saved = None
      /\ record.plan = Plan(now, full_refresh_generation)
  BY DEF IdleTask
<1> HIDE DEF record
<1>6. InOrder(record, furthest)
  BY <1>3, <1>5 DEF InOrder
<1> QED
  BY <1>1, <1>2, <1>3, <1>4, <1>6, TaskInOrder

(* Before the fetches nothing is gathered.                                 *)
LEMMA RecheckOrder ==
    ASSUME Shapes, Clocked, BatchInv, NEW t \in Tasks,
           RecheckStopping(t) \/ RecheckViewers(t)
    PROVE  BatchInv' /\ CoordinatorTypeOK'
<1>1. /\ db' = db /\ [Next]_vars /\ CoordinatorTypeOK' /\ ClockInv
  BY DEF RecheckStopping, RecheckViewers, Next, TaskStep, Clocked, CoordinatorTypeOK,
         coordinatorVars
<1>2. InOrder(task[t], furthest) /\ DOMAIN task[t] = TaskFields
  BY DEF BatchInv, Shapes
<1>3. CASE SetTask(t, IdleTask)
  BY <1>1, <1>3, IdleInOrder, TaskInOrder DEF IdleTask, TaskFields
<1>4. CASE task[t].pc = "spawned" /\ SetTask(t, [task[t] EXCEPT !.pc = "recheck"])
  <2> DEFINE record == [task[t] EXCEPT !.pc = "recheck"]
  <2>1. /\ DOMAIN record = TaskFields /\ record.pc = "recheck" /\ record.saved = task[t].saved
        /\ record.plan = task[t].plan
    BY <1>2 DEF TaskFields
  <2>2. SetTask(t, record)
    BY <1>4
  <2> HIDE DEF record
  <2>3. InOrder(record, furthest)
    BY <1>2, <1>4, <2>1 DEF InOrder
  <2> QED
    BY <1>1, <2>1, <2>2, <2>3, TaskInOrder
<1>5. CASE /\ task[t].pc = "recheck"
           /\ SetTask(t, [task[t] EXCEPT !.pc = "fetch", !.answers = NoQuotes])
  <2> DEFINE record == [task[t] EXCEPT !.pc = "fetch", !.answers = NoQuotes]
  <2>1. /\ DOMAIN record = TaskFields /\ record.pc = "fetch" /\ record.saved = task[t].saved
        /\ record.plan = task[t].plan /\ record.answers = NoQuotes
    BY <1>2 DEF TaskFields
  <2>2. SetTask(t, record)
    BY <1>5
  <2>3. Answers(NoQuotes, task[t].plan.sources, furthest)
    BY DEF Answers, NoQuotes
  <2> HIDE DEF record
  <2>4. InOrder(record, furthest)
    BY <1>2, <1>5, <2>1, <2>3 DEF InOrder
  <2> QED
    BY <1>1, <2>1, <2>2, <2>4, TaskInOrder
<1> QED
  BY <1>3, <1>4, <1>5 DEF RecheckStopping, RecheckViewers, Finish

LEMMA AnswersGrow ==
    ASSUME NEW answers, NEW sources, NEW latest \in Nat, Answers(answers, sources, latest),
           NEW i \in sources, NEW v \in 0 .. latest \union {None}
    PROVE  /\ Answers(Insert(answers, i, v), sources, latest)
           /\ DOMAIN Insert(answers, i, v) = DOMAIN answers \union {i}
  BY DEF Answers, Insert

QuotesInOrder(quotes, latest) ==
    /\ DOMAIN quotes \subseteq Index
    /\ \A i \in DOMAIN quotes : quotes[i] \in 0 .. latest

(* The quotes a refresh would store: the old ones and the new.             *)
LEMMA MergedQuotes ==
    ASSUME NEW quotes, NEW latest \in Nat, NEW sources \in SUBSET Index, NEW answers,
           QuotesInOrder(quotes, latest),
           Answers(answers, sources, latest)
    PROVE  /\ Merge(quotes, answers) \in UNION {[some -> Nat] : some \in SUBSET Index}
           /\ DOMAIN Merge(quotes, answers) = DOMAIN quotes \union Succeeded(answers)
           /\ \A i \in DOMAIN Merge(quotes, answers) : Merge(quotes, answers)[i] \in 0 .. latest
<1> DEFINE merged == Merge(quotes, answers)
           good == Succeeded(answers)
<1>1. good \subseteq sources /\ \A i \in good : answers[i] \in 0 .. latest
  BY DEF Succeeded, Answers
<1>2. merged = [i \in DOMAIN quotes \union good |-> IF i \in good THEN answers[i] ELSE quotes[i]]
  BY DEF Merge
<1> HIDE DEF merged, good
<1> USE DEF QuotesInOrder
<1>3. DOMAIN merged = DOMAIN quotes \union good /\ \A i \in DOMAIN merged : merged[i] \in 0 .. latest
  BY <1>1, <1>2
<1>4. DOMAIN quotes \union good \in SUBSET Index
  BY <1>1
<1>5. merged \in [DOMAIN quotes \union good -> Nat]
  BY <1>1, <1>2
<1> QED
  BY <1>3, <1>4, <1>5 DEF merged, good

LEMMA AnswerOrder ==
    ASSUME Shapes, Clocked, CurrentInv, BatchInv, NEW t \in Tasks, NEW i \in Index,
           ProviderAnswers(t, i)
    PROVE  BatchInv' /\ CoordinatorTypeOK'
<1> DEFINE Ans(v) == Insert(task[t].answers, i, v)
           Joined(v) == DOMAIN Ans(v) = task[t].plan.sources
           Write(v) == IF Joined(v) /\ Succeeded(Ans(v)) # {}
                       THEN [fetched_at |-> now_unix,
                             quotes |-> Merge(task[t].base.quotes, Ans(v))]
                       ELSE None
           Record(v) == [task[t] EXCEPT !.pc = IF Joined(v) THEN "store" ELSE "fetch",
                                        !.answers = Ans(v),
                                        !.write = Write(v)]
<1>1. PICK v \in {now_unix, None} : SetTask(t, Record(v))
  BY DEF ProviderAnswers
<1>2. /\ task[t].pc = "fetch" /\ i \in task[t].plan.sources /\ db' = db /\ [Next]_vars
      /\ CoordinatorTypeOK'
  BY DEF ProviderAnswers, Next, TaskStep, Clocked, CoordinatorTypeOK, coordinatorVars
<1>3. /\ InOrder(task[t], furthest) /\ DOMAIN task[t] = TaskFields /\ ClockInv
      /\ StoredInOrder(db, furthest)
  BY DEF BatchInv, Shapes, Clocked
<1>4. /\ task[t].plan.sources \in SUBSET Index /\ task[t].saved = None
      /\ Answers(task[t].answers, task[t].plan.sources, furthest)
  BY <1>2, <1>3 DEF InOrder
<1>5. furthest \in Nat /\ now_unix \in Nat /\ now_unix \in 0 .. furthest
  BY <1>3, ProcessAssumption DEF ClockInv, Skews, now_unix, furthest
<1>6. task[t].base = db.snapshot
  BY <1>2 DEF CurrentInv, BaseIsCurrent
<1>7. Answers(Ans(v), task[t].plan.sources, furthest)
  <2>1. v \in 0 .. furthest \union {None}
    BY <1>1, <1>5
  <2> QED
    BY <1>2, <1>4, <1>5, <2>1, AnswersGrow
<1>8. /\ DOMAIN Record(v) = TaskFields /\ Record(v).plan = task[t].plan
      /\ Record(v).base = task[t].base /\ Record(v).saved = task[t].saved
      /\ Record(v).answers = Ans(v) /\ Record(v).write = Write(v)
      /\ Record(v).pc = IF Joined(v) THEN "store" ELSE "fetch"
  BY <1>3 DEF TaskFields
<1>9. [fetched_at |-> now_unix, quotes |-> Merge(task[t].base.quotes, Ans(v))] \in Snapshots
  <2> HIDE DEF Ans
  <2>1. QuotesInOrder(db.snapshot.quotes, furthest)
    BY <1>3 DEF StoredInOrder, QuotesInOrder
  <2> QED
    BY <1>4, <1>5, <1>6, <1>7, <2>1, MergedQuotes DEF Snapshots
<1>10. Joined(v) => IF Succeeded(Ans(v)) = {} THEN Write(v) = None
                    ELSE Write(v) \in Snapshots
                         /\ Write(v).quotes = Merge(task[t].base.quotes, Ans(v))
  BY <1>9
<1>11. Joined(v) => DOMAIN Ans(v) = task[t].plan.sources
  OBVIOUS
<1> HIDE DEF Record, Ans, Write, Joined
<1>12. InOrder(Record(v), furthest)
  BY <1>2, <1>3, <1>4, <1>7, <1>8, <1>10, <1>11 DEF InOrder
<1> QED
  BY <1>1, <1>2, <1>3, <1>8, <1>12, TaskInOrder

(* The one transaction is a whole batch of the quote book: the providers   *)
(* that answered get their new quotes, all that were asked a health mark,  *)
(* and nothing else changes.                                               *)
LEMMA CommitIsBatch ==
    ASSUME Shapes, CurrentInv, ClockInv, BatchInv, NEW t \in Tasks, Commit(t)
    PROVE  /\ StoredInOrder(db', furthest)
           /\ \E good, bad \in SUBSET Index : Book!Batch(good, bad)
<1> DEFINE answers == task[t].answers
           good == Succeeded(answers)
           bad == DOMAIN answers \ good
           quotes == db.snapshot.quotes
<1>1. /\ task[t].pc = "store"
      /\ db' = [snapshot |-> IF task[t].write # None THEN task[t].write ELSE db.snapshot,
                health |-> Recorded(db.health, answers)]
      /\ now' = now
  BY DEF Commit, clockVars
<1>2. InOrder(task[t], furthest) /\ StoredInOrder(db, furthest) /\ task[t].base = db.snapshot
  BY <1>1 DEF BatchInv, CurrentInv, BaseIsCurrent
<1>3. /\ Answers(answers, task[t].plan.sources, furthest) /\ DOMAIN answers = task[t].plan.sources
      /\ task[t].plan.sources \in (SUBSET Index) \ {{}}
      /\ IF good = {} THEN task[t].write = None
         ELSE task[t].write \in Snapshots /\ task[t].write.quotes = Merge(quotes, answers)
  BY <1>1, <1>2 DEF InOrder
<1>4. /\ good \in SUBSET Index /\ bad \in SUBSET Index /\ good \union bad # {}
      /\ good \intersect bad = {} /\ DOMAIN answers = good \union bad
      /\ \A i \in good : answers[i] \in 0 .. furthest
      /\ \A i \in DOMAIN answers : answers[i] = None <=> i \in bad
  BY <1>3 DEF Answers, Succeeded
<1>5. furthest \in Nat /\ furthest' = furthest
  BY <1>1, ProcessAssumption DEF ClockInv, furthest
<1>6. /\ quotes = [i \in DOMAIN quotes |-> quotes[i]] /\ DOMAIN quotes \subseteq Index
      /\ \A i \in DOMAIN quotes : quotes[i] \in 0 .. furthest
  BY <1>2 DEF StoredInOrder
<1>7. db'.health = [i \in DOMAIN db.health \union good \union bad |->
                      IF i \in good THEN "SUCCESS" ELSE IF i \in bad THEN "FAILURE"
                      ELSE db.health[i]]
  <2>1. db'.health = Recorded(db.health, answers)
    BY <1>1
  <2> HIDE DEF good, bad, answers
  <2>2. \A i \in DOMAIN db.health \union DOMAIN answers :
          (IF i \notin DOMAIN answers THEN db.health[i]
           ELSE IF answers[i] = None THEN "FAILURE" ELSE "SUCCESS")
          = (IF i \in good THEN "SUCCESS" ELSE IF i \in bad THEN "FAILURE" ELSE db.health[i])
    BY <1>4
  <2>3. DOMAIN db.health \union DOMAIN answers = DOMAIN db.health \union good \union bad
    BY <1>4
  <2> QED
    BY <2>1, <2>2, <2>3 DEF Recorded
<1>8. CASE good = {}
  <2>1. db'.snapshot = db.snapshot
    BY <1>1, <1>3, <1>8
  <2> HIDE DEF bad, answers
  <2>2. StoredInOrder(db', furthest)
    BY <1>2, <1>4, <1>7, <1>8, <2>1 DEF StoredInOrder
  <2>3. Book!Batch(good, bad)
    BY <1>4, <1>5, <1>6, <1>7, <1>8, <2>1 DEF Book!Batch
  <2> QED
    BY <1>4, <2>2, <2>3
<1>9. CASE good # {}
  <2>1. /\ DOMAIN Merge(quotes, answers) = DOMAIN quotes \union good
        /\ \A i \in DOMAIN Merge(quotes, answers) : Merge(quotes, answers)[i] \in 0 .. furthest
    <3>1. task[t].plan.sources \in SUBSET Index /\ furthest \in Nat
      BY <1>3, <1>5
    <3>2. Answers(answers, task[t].plan.sources, furthest)
      BY <1>3
    <3>3. QuotesInOrder(quotes, furthest)
      BY <1>6 DEF QuotesInOrder
    <3> QED
      BY <3>1, <3>2, <3>3, MergedQuotes
  <2>2. task[t].write \in Snapshots /\ task[t].write # None
    BY <1>3, <1>9, NoneIsNoValue
  <2>3. db'.snapshot = task[t].write /\ db'.snapshot.quotes = Merge(quotes, answers)
    BY <1>1, <1>3, <1>9, <2>2
  <2>4. db'.snapshot.fetched_at \in Nat /\ db'.snapshot.fetched_at # None
    BY <2>2, <2>3, NoneAssumption DEF Snapshots
  <2>5. \A i \in DOMAIN quotes \ good : db'.snapshot.quotes[i] = quotes[i]
    BY <2>3 DEF Merge
  <2>6. db'.snapshot.quotes = [i \in DOMAIN db'.snapshot.quotes |-> db'.snapshot.quotes[i]]
    BY <2>3 DEF Merge
  <2> HIDE DEF bad, answers, good
  <2>7. StoredInOrder(db', furthest)
    BY <1>2, <1>4, <1>7, <1>9, <2>1, <2>3, <2>4, <2>6 DEF StoredInOrder
  <2>8. Book!Batch(good, bad)
    BY <1>4, <1>5, <1>7, <2>1, <2>3, <2>5 DEF Book!Batch
  <2> QED
    BY <1>4, <2>7, <2>8
<1> QED
  BY <1>8, <1>9

LEMMA CommitOrder ==
    ASSUME Shapes, Clocked, CurrentInv, BatchInv, NEW t \in Tasks, Commit(t)
    PROVE  BatchInv' /\ CoordinatorTypeOK'
<1> DEFINE record == [task[t] EXCEPT !.pc = "complete", !.saved = TRUE]
<1>1. /\ task[t].pc = "store" /\ SetTask(t, record) /\ furthest' = furthest
      /\ CoordinatorTypeOK'
  BY DEF Commit, Clocked, CoordinatorTypeOK, coordinatorVars, clockVars, furthest
<1>2. InOrder(task[t], furthest) /\ DOMAIN task[t] = TaskFields
  BY DEF BatchInv, Shapes
<1>3. /\ DOMAIN record = TaskFields /\ record.pc = "complete"
      /\ record.plan = task[t].plan /\ record.answers = task[t].answers
  BY <1>2 DEF TaskFields
<1> HIDE DEF record
<1>4. InOrder(record, furthest)
  BY <1>1, <1>2, <1>3 DEF InOrder
<1>5. \A q \in Tasks : task'[q] = record \/ task'[q] = task[q]
  BY <1>1, <1>3, SetTaskShape
<1>6. \A q \in Tasks : InOrder(task'[q], furthest)
  BY <1>4, <1>5 DEF BatchInv
<1>7. StoredInOrder(db', furthest)
  BY CommitIsBatch DEF Clocked
<1> QED
  BY <1>1, <1>6, <1>7 DEF BatchInv

LEMMA EndOrder ==
    ASSUME Shapes, Clocked, BatchInv, NEW t \in Tasks,
           StoreFails(t) \/ CompleteRefresh(t) \/ Publish(t)
    PROVE  BatchInv' /\ CoordinatorTypeOK'
<1>1. /\ db' = db /\ [Next]_vars /\ ClockInv
  BY DEF StoreFails, CompleteRefresh, Publish, Next, TaskStep, Clocked
<1>2. InOrder(task[t], furthest) /\ DOMAIN task[t] = TaskFields
  BY DEF BatchInv, Shapes
<1>3. CASE StoreFails(t)
  <2> DEFINE record == [task[t] EXCEPT !.pc = "complete", !.saved = FALSE]
  <2>1. task[t].pc = "store" /\ SetTask(t, record) /\ CoordinatorTypeOK'
    BY <1>3 DEF StoreFails, Clocked, CoordinatorTypeOK, coordinatorVars
  <2>2. /\ DOMAIN record = TaskFields /\ record.pc = "complete"
        /\ record.plan = task[t].plan /\ record.answers = task[t].answers
    BY <1>2 DEF TaskFields
  <2> HIDE DEF record
  <2>3. InOrder(record, furthest)
    BY <1>2, <2>1, <2>2 DEF InOrder
  <2> QED
    BY <1>1, <2>1, <2>2, <2>3, TaskInOrder
<1>4. CASE CompleteRefresh(t)
  <2> DEFINE record == [task[t] EXCEPT !.pc = "publish"]
             failed == task[t].plan.sources \ Succeeded(task[t].answers)
  <2>1. /\ task[t].pc = "complete" /\ SetTask(t, record)
        /\ Complete(task[t].plan, [i \in failed |-> None], now, now_unix)
    BY <1>4 DEF CompleteRefresh
  <2>2. failed \in SUBSET Index /\ task[t].plan.generation \in Nat
    BY <1>2, <2>1 DEF InOrder
  <2>3. now \in Nat /\ now_unix \in Int /\ CoordinatorTypeOK
    BY DEF Clocked, ClockInv, Skews, now_unix
  <2>4. CoordinatorTypeOK'
    <3> HIDE DEF failed
    <3> QED
      BY <2>1, <2>2, <2>3, CompleteTypes
  <2>5. /\ DOMAIN record = TaskFields /\ record.pc = "publish"
        /\ record.plan = task[t].plan /\ record.answers = task[t].answers
    BY <1>2 DEF TaskFields
  <2> HIDE DEF record
  <2>6. InOrder(record, furthest)
    BY <1>2, <2>1, <2>5 DEF InOrder
  <2> QED
    BY <1>1, <2>1, <2>4, <2>5, <2>6, TaskInOrder
<1>5. CASE Publish(t)
  <2>1. SetTask(t, IdleTask) /\ CoordinatorTypeOK'
    BY <1>5 DEF Publish, Finish, Clocked, CoordinatorTypeOK, coordinatorVars
  <2> QED
    BY <1>1, <2>1, IdleInOrder, TaskInOrder DEF IdleTask, TaskFields
<1> QED
  BY <1>3, <1>4, <1>5

LEMMA BatchStep ==
    ASSUME Shapes, Clocked, CurrentInv, BatchInv, [Next]_vars
    PROVE  BatchInv' /\ CoordinatorTypeOK'
<1>1. ClockInv
  BY DEF Clocked
<1>u. ASSUME db' = db, task' = task, UNCHANGED coordinatorVars PROVE BatchInv' /\ CoordinatorTypeOK'
  BY <1>1, <1>u, OthersInOrder DEF Clocked, CoordinatorTypeOK, coordinatorVars
<1>2. CASE ViewerAction
  BY <1>2, <1>u DEF ViewerAction
<1>3. ASSUME NEW r \in Readers, Request(r) \/ Load(r) \/ Count(r) \/ Respond(r) \/ Cancel(r)
      PROVE  BatchInv' /\ CoordinatorTypeOK'
  BY <1>3, <1>u DEF Request, Load, Count, Respond, Cancel
<1>4. ASSUME NEW t \in Tasks, TaskStep(t) PROVE BatchInv' /\ CoordinatorTypeOK'
  BY <1>4, RecheckOrder, AnswerOrder, CommitOrder, EndOrder DEF TaskStep
<1>5. CASE Shutdown
  BY <1>5, <1>u DEF Shutdown, ShutdownRequested, HttpDrained, HttpDeadline, RefreshDrained,
     RefreshDeadline
<1>6. CASE Restart
  <2>1. db' = db /\ task' = [t \in Tasks |-> IdleTask]
    BY <1>6 DEF Restart
  <2>2. CoordinatorTypeOK'
    BY <1>6, NAssumption DEF Restart, CoordinatorRestarts, CoordinatorTypeOK, Index, MaxFailures
  <2> QED
    BY <1>1, <2>1, <2>2, OthersInOrder
<1>7. CASE Tick \/ AdjustClock \/ UNCHANGED vars
  BY <1>7, <1>u DEF Tick, AdjustClock, vars, processVars
<1> QED
  BY <1>2, <1>3, <1>4, <1>5, <1>6, <1>7, SpawnOrder DEF Next, ReaderStep

LEMMA BatchInit == Init => ClockInv /\ ViewersInv /\ CoordinatorTypeOK /\ BatchInv
<1> SUFFICES ASSUME Init PROVE ClockInv /\ ViewersInv /\ CoordinatorTypeOK /\ BatchInv
  OBVIOUS
<1>1. ClockInv /\ ViewersInv
  BY DEF Init, Boot, PresenceInit, NoViewers, ClockInv, ViewersInv, IsViewerMap
<1>2. CoordinatorTypeOK
  BY NAssumption DEF Init, Boot, CoordinatorInit, CoordinatorTypeOK, Index, MaxFailures
<1>3. StoredInOrder(db, furthest)
  BY DEF Init, EmptyDb, NoSnapshot, NoQuotes, StoredInOrder
<1> QED
  BY <1>1, <1>2, <1>3, IdleInOrder DEF Init, Boot, BatchInv

ServiceInv == OwnershipInv /\ CurrentInv /\ Clocked /\ BatchInv

LEMMA ServiceStep == ServiceInv /\ [Next]_vars => ServiceInv'
<1> SUFFICES ASSUME ServiceInv, [Next]_vars PROVE ServiceInv'
  OBVIOUS
<1>1. OwnershipInv /\ CurrentInv /\ Clocked /\ BatchInv /\ Shapes
  BY DEF ServiceInv, OwnershipInv
<1>2. OwnershipInv' /\ CurrentInv'
  BY <1>1, OwnershipStep, CurrentStep
<1>3. ClockInv' /\ ViewersInv'
  BY <1>1, ClockStep, ViewersStep DEF Clocked
<1>4. BatchInv' /\ CoordinatorTypeOK'
  BY <1>1, BatchStep
<1> QED
  BY <1>2, <1>3, <1>4 DEF ServiceInv, Clocked

LEMMA ServiceInvariance == Spec => []ServiceInv
<1>1. Init => ServiceInv
  BY OwnershipInit, CurrentInit, BatchInit DEF ServiceInv, Clocked
<1> QED
  BY <1>1, ServiceStep, PTL DEF Spec

-----------------------------------------------------------------------------
(* Readers are where cached_prices can be.                                 *)
ReadersInv == \A r \in Readers : reader[r].pc \in {"idle", "load", "count", "decide"}

LEMMA ReadersStep == Shapes /\ ReadersInv /\ [Next]_vars => ReadersInv'
<1> SUFFICES ASSUME Shapes, ReadersInv, [Next]_vars PROVE ReadersInv'
  OBVIOUS
<1>r. ASSUME NEW r \in Readers, NEW record, SetReader(r, record),
             record.pc \in {"idle", "load", "count", "decide"}
      PROVE  ReadersInv'
  BY <1>r DEF Shapes, SetReader, ReadersInv
<1>1. ASSUME NEW r \in Readers, Request(r) PROVE ReadersInv'
  BY <1>1, <1>r DEF Request, IdleReader
<1>2. ASSUME NEW r \in Readers, Load(r) PROVE ReadersInv'
  BY <1>2, <1>r DEF Load
<1>3. ASSUME NEW r \in Readers, Count(r) PROVE ReadersInv'
  <2> DEFINE record == [reader[r] EXCEPT !.pc = "decide",
                                         !.seen = [viewers |-> Live # {}, at |-> now_unix]]
  <2>1. SetReader(r, record) /\ record.pc = "decide"
    BY <1>3 DEF Count, Shapes, ReaderFields
  <2> HIDE DEF record
  <2> QED
    BY <2>1, <1>r
<1>4. ASSUME NEW r \in Readers, (\E t \in Tasks : Spawn(r, t)) \/ Respond(r) \/ Cancel(r)
      PROVE  ReadersInv'
  <2>1. SetReader(r, IdleReader) /\ IdleReader.pc = "idle"
    BY <1>4 DEF Spawn, Respond, Cancel, IdleReader
  <2> QED
    BY <2>1, <1>r
<1>5. CASE HttpDeadline \/ Restart
  BY <1>5 DEF HttpDeadline, Restart, IdleReader, ReadersInv
<1>6. ASSUME NEW t \in Tasks, TaskStep(t) PROVE reader' = reader
  BY <1>6 DEF TaskStep, RecheckStopping, RecheckViewers, ProviderAnswers, Commit, StoreFails,
     CompleteRefresh, Publish
<1>7. CASE ViewerAction \/ ShutdownRequested \/ HttpDrained \/ RefreshDrained \/ RefreshDeadline
           \/ Tick \/ AdjustClock \/ UNCHANGED vars
  BY <1>7 DEF ViewerAction, ShutdownRequested, HttpDrained, RefreshDrained, RefreshDeadline,
     Tick, AdjustClock, vars, processVars, ReadersInv
<1> QED
  BY <1>1, <1>2, <1>3, <1>4, <1>5, <1>6, <1>7 DEF Next, ReaderStep, Shutdown, ReadersInv

(* The state stays well formed for ever: a stored snapshot is never empty, *)
(* every quote has its health mark, and a refresh at work has a plan of at *)
(* least one provider.                                                     *)
THEOREM ServiceTypes == Spec => []TypeOK
<1>1. Init => ReadersInv
  BY DEF Init, Boot, IdleReader, ReadersInv
<1>2. ServiceInv /\ ReadersInv => TypeOK
  <2> SUFFICES ASSUME ServiceInv, ReadersInv PROVE TypeOK
    OBVIOUS
  <2>1. ClockInv /\ ViewersInv /\ CoordinatorTypeOK /\ Shapes
    BY DEF ServiceInv, Clocked, OwnershipInv
  <2>2. StoredInOrder(db, furthest) /\ \A t \in Tasks : InOrder(task[t], furthest)
    BY DEF ServiceInv, BatchInv
  <2>3. furthest \in Nat
    BY <2>1, ProcessAssumption DEF ClockInv, furthest
  <2>4. IsSnapshot(db.snapshot) /\ DOMAIN db.snapshot.quotes \subseteq DOMAIN db.health
    BY <2>2, <2>3 DEF StoredInOrder, IsSnapshot, IsQuotes
  <2>5. owner \in Readers \union Tasks \union {None}
    BY <2>1 DEF Shapes
  <2> QED
    BY <2>1, <2>2, <2>4, <2>5 DEF TypeOK, ClockInv, ViewersInv, ReadersInv, InOrder, Active
<1>3. ServiceInv => Shapes
  BY DEF ServiceInv, OwnershipInv
<1> QED
  BY <1>1, <1>2, <1>3, ReadersStep, ServiceInvariance, PTL DEF Spec

(* A quote is timed when its provider answers: none that is stored, and no *)
(* answer a refresh has gathered, is from later than any wall clock can    *)
(* have shown, and a batch about to be written is its base merged with     *)
(* those answers (pricing.rs:257-276), although the clock may be set back  *)
(* in between.                                                             *)
TimesInOrder ==
    /\ \A i \in DOMAIN db.snapshot.quotes : db.snapshot.quotes[i] \in 0 .. furthest
    /\ \A t \in Tasks :
        /\ task[t].pc \in {"fetch", "store"} =>
             \A i \in Succeeded(task[t].answers) : task[t].answers[i] \in 0 .. furthest
        /\ task[t].pc = "store" /\ Succeeded(task[t].answers) # {} =>
             task[t].write.quotes = Merge(task[t].base.quotes, task[t].answers)

THEOREM StoredTimes == Spec => []TimesInOrder
<1>1. ServiceInv => TimesInOrder
  <2> SUFFICES ASSUME ServiceInv PROVE TimesInOrder
    OBVIOUS
  <2>1. StoredInOrder(db, furthest) /\ \A t \in Tasks : InOrder(task[t], furthest)
    BY DEF ServiceInv, BatchInv
  <2>2. ASSUME NEW t \in Tasks
        PROVE  /\ task[t].pc \in {"fetch", "store"} =>
                    \A i \in Succeeded(task[t].answers) : task[t].answers[i] \in 0 .. furthest
               /\ task[t].pc = "store" /\ Succeeded(task[t].answers) # {} =>
                    task[t].write.quotes = Merge(task[t].base.quotes, task[t].answers)
    <3> DEFINE k == task[t]
    <3>1. InOrder(k, furthest)
      BY <2>1
    <3> HIDE DEF k
    <3>2. k.pc \in {"fetch", "store"} =>
            \A i \in Succeeded(k.answers) : k.answers[i] \in 0 .. furthest
      BY <3>1 DEF InOrder, Answers, Succeeded
    <3>3. k.pc = "store" /\ Succeeded(k.answers) # {} =>
            k.write.quotes = Merge(k.base.quotes, k.answers)
      BY <3>1 DEF InOrder
    <3> QED
      BY <3>2, <3>3 DEF k
  <2> QED
    BY <2>1, <2>2 DEF StoredInOrder, TimesInOrder
<1> QED
  BY <1>1, ServiceInvariance, PTL

(* A step that is no commit leaves the book alone, or moves its clock.     *)
LEMMA BookStep == ServiceInv /\ [Next]_vars => [Book!Next]_(Book!bookVars)
<1> SUFFICES ASSUME ServiceInv, [Next]_vars PROVE [Book!Next]_(Book!bookVars)
  OBVIOUS
<1>1. ClockInv /\ CurrentInv /\ BatchInv /\ Shapes
  BY DEF ServiceInv, Clocked, OwnershipInv
<1>2. ASSUME db' = db PROVE [Book!Next]_(Book!bookVars)
  <2>1. furthest' \in Nat
    BY <1>1, FurthestGrows
  <2> QED
    BY <1>2, <2>1 DEF Book!Next, Book!Time
<1>3. ASSUME NEW t \in Tasks, Commit(t) PROVE [Book!Next]_(Book!bookVars)
  BY <1>1, <1>3, CommitIsBatch DEF Book!Next
<1>4. ASSUME NEW r \in Readers, Request(r) \/ ReaderStep(r) \/ Cancel(r) PROVE db' = db
  BY <1>4 DEF Request, ReaderStep, Load, Count, Spawn, Respond, Cancel
<1>5. ASSUME NEW t \in Tasks, TaskStep(t) PROVE db' = db \/ Commit(t)
  BY <1>5 DEF TaskStep, RecheckStopping, RecheckViewers, ProviderAnswers, StoreFails,
     CompleteRefresh, Publish
<1>6. CASE ViewerAction \/ Shutdown \/ Restart \/ Tick \/ AdjustClock \/ UNCHANGED vars
  BY <1>2, <1>6 DEF ViewerAction, Shutdown, ShutdownRequested, HttpDrained, HttpDeadline,
     RefreshDrained, RefreshDeadline, Restart, Tick, AdjustClock, vars
<1> QED
  BY <1>2, <1>3, <1>4, <1>5, <1>6 DEF Next

(* The service implements the quote book: whatever requests, refreshes,    *)
(* shutdowns, crashes and clock changes do, the stored prices change by    *)
(* whole batches of one refresh each, which touch the providers it asked   *)
(* and no other.                                                           *)
THEOREM BookImplemented == Spec => BookSpec
<1>1. Init => Book!Init
  <2> SUFFICES ASSUME Init PROVE Book!Init
    OBVIOUS
  <2>1. furthest \in Nat
    BY ProcessAssumption DEF Init, furthest
  <2> QED
    BY <2>1 DEF Init, EmptyDb, NoSnapshot, NoQuotes, Book!Init
<1> QED
  BY <1>1, BookStep, ServiceInvariance, PTL DEF Spec, BookSpec, Book!Spec

-----------------------------------------------------------------------------
(* While nobody sets the wall clock, the age of the stored snapshot keeps  *)
(* the next one away: u is the clock, last the time of the snapshot.       *)

\* A reader that owns the mutex asked for the time after the snapshot's.
TimedAfter(k, last, u) ==
    k.pc = "decide" => /\ k.seen.at \in Nat /\ k.seen.at <= u
                       /\ last # None => last <= k.seen.at

\* A refresh under way began an interval after the snapshot.
SpacedFrom(k, last, u) ==
    /\ k.pc \in {"spawned", "recheck", "fetch"} /\ last # None => u - last >= Interval
    /\ k.pc = "store" /\ k.write # None =>
         /\ k.write.fetched_at \in Nat /\ k.write.fetched_at <= u
         /\ last # None => k.write.fetched_at - last >= Interval

Spaced(last, u) ==
    /\ last \in Nat \union {None}
    /\ last # None => last <= u
    /\ owner \in Readers => TimedAfter(reader[owner], last, u)
    /\ \A t \in Tasks : SpacedFrom(task[t], last, u)

SpacingInv == adjusted = FALSE => Spaced(db.snapshot.fetched_at, now_unix)

LEMMA UnixGrows ==
    ASSUME ClockInv, [Next]_vars, adjusted' = FALSE
    PROVE  /\ adjusted = FALSE /\ now_unix \in Nat /\ now_unix' \in Nat /\ now_unix <= now_unix'
<1>1. now \in Nat /\ now' \in Nat /\ now <= now' /\ adjusted = FALSE /\ skew' = skew
  BY ClockStep DEF ClockInv
<1>2. skew \in Nat
  BY DEF ClockInv, Skews
<1>3. \A a, b, c \in Nat : a <= b => a + c \in Nat /\ b + c \in Nat /\ a + c <= b + c
  OBVIOUS
<1>4. now + skew \in Nat /\ now' + skew' \in Nat /\ now + skew <= now' + skew'
  BY <1>1, <1>2, <1>3
<1> QED
  BY <1>1, <1>4, Zenon DEF now_unix

LEMMA SpacingKept ==
    ASSUME NEW k, NEW last \in Nat \union {None}, NEW a \in Nat, NEW b \in Nat, a <= b
    PROVE  /\ TimedAfter(k, last, a) => TimedAfter(k, last, b)
           /\ SpacedFrom(k, last, a) => SpacedFrom(k, last, b)
<1>1. TimedAfter(k, last, a) => TimedAfter(k, last, b)
  BY DEF TimedAfter
<1>2. last # None /\ a - last >= Interval => b - last >= Interval
  BY IntervalAssumption
<1>3. \A w \in Nat : w <= a => w <= b
  OBVIOUS
<1> QED
  BY <1>1, <1>2, <1>3 DEF SpacedFrom

LEMMA IdleSpaced == \A last, u : SpacedFrom(IdleTask, last, u) /\ TimedAfter(IdleReader, last, u)
  BY DEF SpacedFrom, TimedAfter, IdleTask, IdleReader

(* A task's step, with the snapshot as it was.                             *)
LEMMA TaskSpaced ==
    ASSUME Shapes, ClockInv, SpacingInv, [Next]_vars, NEW t \in Tasks, NEW record,
           DOMAIN record = TaskFields, SetTask(t, record), db' = db, reader' = reader,
           owner' \in {owner, None},
           adjusted = FALSE => SpacedFrom(record, db.snapshot.fetched_at, now_unix)
    PROVE  SpacingInv'
<1> SUFFICES ASSUME adjusted' = FALSE PROVE Spaced(db.snapshot.fetched_at, now_unix)'
  BY DEF SpacingInv
<1> DEFINE last == db.snapshot.fetched_at
<1>1. adjusted = FALSE /\ now_unix \in Nat /\ now_unix' \in Nat /\ now_unix <= now_unix'
  BY UnixGrows
<1>2. Spaced(last, now_unix) /\ last' = last
  BY <1>1 DEF SpacingInv
<1>3. \A q \in Tasks : task'[q] = record \/ task'[q] = task[q]
  BY SetTaskShape
<1>4. \A q \in Tasks : SpacedFrom(task'[q], last, now_unix)
  BY <1>1, <1>2, <1>3 DEF Spaced
<1>5. owner' \in Readers => TimedAfter(reader'[owner'], last, now_unix)
  BY <1>2, ProcessAssumption DEF Spaced
<1> HIDE DEF last
<1>6. last \in Nat \union {None} /\ (last # None => last <= now_unix')
  BY <1>1, <1>2 DEF Spaced
<1>7. /\ owner' \in Readers => TimedAfter(reader'[owner'], last, now_unix')
      /\ \A q \in Tasks : SpacedFrom(task'[q], last, now_unix')
  BY <1>1, <1>4, <1>5, <1>6, SpacingKept
<1> QED
  BY <1>2, <1>6, <1>7 DEF Spaced, last

(* A step of readers, clocks or shutdown: the tasks stay or are gone.      *)
LEMMA OthersSpaced ==
    ASSUME ClockInv, SpacingInv, [Next]_vars, db' = db,
           \A t \in Tasks : task'[t] = task[t] \/ task'[t] = IdleTask,
           owner' \in Readers =>
              \/ owner' = owner /\ reader'[owner'] = reader[owner]
              \/ reader'[owner'].pc # "decide"
              \/ owner' = owner /\ reader'[owner'].seen.at = now_unix
    PROVE  SpacingInv'
<1> SUFFICES ASSUME adjusted' = FALSE PROVE Spaced(db.snapshot.fetched_at, now_unix)'
  BY DEF SpacingInv
<1> DEFINE last == db.snapshot.fetched_at
<1>1. adjusted = FALSE /\ now_unix \in Nat /\ now_unix' \in Nat /\ now_unix <= now_unix'
  BY UnixGrows
<1>2. Spaced(last, now_unix) /\ last' = last
  BY <1>1 DEF SpacingInv
<1>3. \A q \in Tasks : SpacedFrom(task'[q], last, now_unix)
  BY <1>2, IdleSpaced DEF Spaced
<1>4. last \in Nat \union {None} /\ (last # None => last <= now_unix)
  BY <1>2 DEF Spaced
<1>5. owner' \in Readers => TimedAfter(reader'[owner'], last, now_unix)
  BY <1>1, <1>2, <1>4 DEF Spaced, TimedAfter
<1> HIDE DEF last
<1>6. last # None => last <= now_unix'
  BY <1>1, <1>4
<1>7. /\ owner' \in Readers => TimedAfter(reader'[owner'], last, now_unix')
      /\ \A q \in Tasks : SpacedFrom(task'[q], last, now_unix')
  BY <1>1, <1>3, <1>4, <1>5, SpacingKept
<1> QED
  BY <1>2, <1>4, <1>6, <1>7 DEF Spaced, last

(* The reader that starts a refresh was not too soon.                      *)
LEMMA SpawnSpaced ==
    ASSUME Shapes, ClockInv, CurrentInv, SpacingInv, NEW r \in Readers, NEW t \in Tasks,
           Spawn(r, t)
    PROVE  SpacingInv'
<1> DEFINE record == [IdleTask EXCEPT !.pc = "spawned",
                                      !.plan = Plan(now, full_refresh_generation),
                                      !.base = reader[r].stored.snapshot]
           last == db.snapshot.fetched_at
<1>1. /\ reader[r].pc = "decide" /\ owner = r /\ reader[r].stored = db
      /\ ~ TooSoon(db.snapshot, reader[r].seen.at)
  BY DEF Spawn, MayRefresh, CurrentInv, OwnerReadsCurrent
<1>2. SetTask(t, record) /\ db' = db /\ owner' = t /\ UNCHANGED clockVars
  BY DEF Spawn
<1>3. record.pc = "spawned" /\ DOMAIN record = TaskFields
  BY DEF IdleTask, TaskFields
<1> SUFFICES ASSUME adjusted' = FALSE PROVE Spaced(last, now_unix)'
  BY DEF SpacingInv
<1>4. /\ adjusted = FALSE /\ now_unix \in Nat /\ now_unix' = now_unix /\ last' = last
      /\ Spaced(last, now_unix)
  BY <1>2, UnixGrows DEF SpacingInv, ClockInv, Skews, clockVars, now_unix
<1>5. TimedAfter(reader[r], last, now_unix) /\ last \in Nat \union {None}
  BY <1>1, <1>4 DEF Spaced
<1>6. last # None => now_unix - last >= Interval
  <2> SUFFICES ASSUME last # None PROVE now_unix - last >= Interval
    OBVIOUS
  <2>1. /\ reader[r].seen.at \in Nat /\ reader[r].seen.at <= now_unix
        /\ last \in Nat /\ last <= reader[r].seen.at
    BY <1>1, <1>5 DEF TimedAfter
  <2>2. reader[r].seen.at - last \notin 0 .. Interval - 1
    BY <1>1 DEF TooSoon
  <2> HIDE DEF last
  <2> QED
    BY <1>4, <2>1, <2>2, IntervalAssumption
<1> HIDE DEF record, last
<1>7. SpacedFrom(record, last, now_unix)
  BY <1>3, <1>6 DEF SpacedFrom
<1>8. \A q \in Tasks : task'[q] = record \/ task'[q] = task[q]
  BY <1>2, <1>3, SetTaskShape
<1>9. owner' \notin Readers
  BY <1>2, ProcessAssumption
<1> QED
  BY <1>4, <1>7, <1>8, <1>9 DEF Spaced

LEMMA AnswerSpaced ==
    ASSUME Shapes, ClockInv, BatchInv, SpacingInv, NEW t \in Tasks, NEW i \in Index,
           ProviderAnswers(t, i)
    PROVE  SpacingInv'
<1> DEFINE last == db.snapshot.fetched_at
           Ans(v) == Insert(task[t].answers, i, v)
           Joined(v) == DOMAIN Ans(v) = task[t].plan.sources
           Write(v) == IF Joined(v) /\ Succeeded(Ans(v)) # {}
                       THEN [fetched_at |-> now_unix,
                             quotes |-> Merge(task[t].base.quotes, Ans(v))]
                       ELSE None
           Record(v) == [task[t] EXCEPT !.pc = IF Joined(v) THEN "store" ELSE "fetch",
                                        !.answers = Ans(v),
                                        !.write = Write(v)]
<1>1. PICK v \in {now_unix, None} : SetTask(t, Record(v))
  BY DEF ProviderAnswers
<1>2. task[t].pc = "fetch" /\ db' = db /\ UNCHANGED <<reader, owner>> /\ [Next]_vars
  BY DEF ProviderAnswers, Next, TaskStep
<1>3. DOMAIN task[t] = TaskFields
  BY DEF Shapes
<1>4. /\ DOMAIN Record(v) = TaskFields /\ Record(v).write = Write(v)
      /\ Record(v).pc \in {"fetch", "store"}
  BY <1>3 DEF TaskFields
<1>5. Write(v) # None => Write(v).fetched_at = now_unix
  OBVIOUS
<1> HIDE DEF Write, Record, last
<1>6. ASSUME adjusted = FALSE PROVE SpacedFrom(Record(v), last, now_unix)
  <2>1. now_unix \in Nat
    BY DEF ClockInv, Skews, now_unix
  <2>2. Spaced(last, now_unix)
    BY <1>6 DEF SpacingInv, last
  <2>3. last # None => now_unix - last >= Interval
    BY <1>2, <2>2 DEF Spaced, SpacedFrom
  <2> QED
    BY <1>4, <1>5, <2>1, <2>3 DEF SpacedFrom
<1> QED
  BY <1>1, <1>2, <1>4, <1>6, TaskSpaced DEF last

(* The snapshot that is stored is the one the spacing is about next.       *)
LEMMA CommitSpaced ==
    ASSUME Shapes, GuardDiscipline, ClockInv, SpacingInv, NEW t \in Tasks, Commit(t)
    PROVE  SpacingInv'
<1> DEFINE record == [task[t] EXCEPT !.pc = "complete", !.saved = TRUE]
           last == db.snapshot.fetched_at
           write == task[t].write
<1>1. /\ task[t].pc = "store" /\ SetTask(t, record) /\ UNCHANGED owner /\ UNCHANGED clockVars
      /\ db'.snapshot = IF write # None THEN write ELSE db.snapshot
  BY DEF Commit
<1>2. DOMAIN record = TaskFields /\ record.pc = "complete"
  BY DEF Shapes, TaskFields
<1>3. owner = t /\ \A q \in Tasks \ {t} : task[q].pc = "idle"
  BY <1>1 DEF GuardDiscipline, Active
<1> HIDE DEF record
<1> SUFFICES ASSUME adjusted' = FALSE PROVE Spaced(last, now_unix)'
  BY DEF SpacingInv
<1>4. /\ adjusted = FALSE /\ now_unix \in Nat /\ now_unix' = now_unix
      /\ Spaced(last, now_unix)
  BY <1>1 DEF SpacingInv, ClockInv, Skews, clockVars, now_unix
<1>5. last' = last \/ (last' \in Nat /\ last' <= now_unix)
  <2>1. write # None => write.fetched_at \in Nat /\ write.fetched_at <= now_unix
    BY <1>1, <1>4 DEF Spaced, SpacedFrom
  <2>2. last' = db'.snapshot.fetched_at
    OBVIOUS
  <2> QED
    BY <1>1, <2>1, <2>2
<1>6. \A q \in Tasks : task'[q].pc \in {"complete", "idle"}
  BY <1>1, <1>2, <1>3, SetTaskShape
<1>7. \A q \in Tasks : SpacedFrom(task'[q], last', now_unix)
  BY <1>6 DEF SpacedFrom
<1>8. owner' \notin Readers
  BY <1>1, <1>3, ProcessAssumption
<1>9. last' \in Nat \union {None} /\ (last' # None => last' <= now_unix)
  BY <1>4, <1>5 DEF Spaced
<1> HIDE DEF last
<1> QED
  BY <1>4, <1>7, <1>8, <1>9 DEF Spaced

LEMMA TaskStepSpaced ==
    ASSUME Shapes, GuardDiscipline, ClockInv, BatchInv, SpacingInv, NEW t \in Tasks, TaskStep(t)
    PROVE  SpacingInv'
<1> DEFINE last == db.snapshot.fetched_at
<1>1. [Next]_vars
  BY DEF Next
<1>2. DOMAIN task[t] = TaskFields /\ DOMAIN IdleTask = TaskFields
  BY DEF Shapes, IdleTask, TaskFields
<1>3. ASSUME adjusted = FALSE PROVE SpacedFrom(task[t], last, now_unix)
  BY <1>3 DEF SpacingInv, Spaced
<1> HIDE DEF last
<1>4. ASSUME SetTask(t, IdleTask), owner' \in {owner, None}, UNCHANGED <<db, reader>>
      PROVE  SpacingInv'
  BY <1>1, <1>2, <1>4, IdleSpaced, TaskSpaced
<1>5. CASE RecheckStopping(t)
  <2> DEFINE record == [task[t] EXCEPT !.pc = "recheck"]
  <2>1. \/ Finish(t)
        \/ /\ task[t].pc = "spawned" /\ SetTask(t, record) /\ owner' = owner
    BY <1>5 DEF RecheckStopping
  <2>2. UNCHANGED <<db, reader>>
    BY <1>5 DEF RecheckStopping
  <2>3. DOMAIN record = TaskFields /\ record.pc = "recheck"
    BY <1>2 DEF TaskFields
  <2> HIDE DEF record
  <2>4. ASSUME adjusted = FALSE, task[t].pc = "spawned" PROVE SpacedFrom(record, last, now_unix)
    BY <1>3, <2>3, <2>4 DEF SpacedFrom
  <2> QED
    BY <1>1, <1>4, <2>1, <2>2, <2>3, <2>4, TaskSpaced DEF Finish, Release, last
<1>6. CASE RecheckViewers(t)
  <2> DEFINE record == [task[t] EXCEPT !.pc = "fetch", !.answers = NoQuotes]
  <2>1. \/ Finish(t)
        \/ /\ task[t].pc = "recheck" /\ SetTask(t, record) /\ owner' = owner
    BY <1>6 DEF RecheckViewers
  <2>2. UNCHANGED <<db, reader>>
    BY <1>6 DEF RecheckViewers
  <2>3. DOMAIN record = TaskFields /\ record.pc = "fetch"
    BY <1>2 DEF TaskFields
  <2> HIDE DEF record
  <2>4. ASSUME adjusted = FALSE, task[t].pc = "recheck" PROVE SpacedFrom(record, last, now_unix)
    BY <1>3, <2>3, <2>4 DEF SpacedFrom
  <2> QED
    BY <1>1, <1>4, <2>1, <2>2, <2>3, <2>4, TaskSpaced DEF Finish, Release, last
<1>7. CASE StoreFails(t)
  <2> DEFINE record == [task[t] EXCEPT !.pc = "complete", !.saved = FALSE]
  <2>1. SetTask(t, record) /\ UNCHANGED <<db, reader, owner>>
    BY <1>7 DEF StoreFails
  <2>2. DOMAIN record = TaskFields /\ record.pc = "complete"
    BY <1>2 DEF TaskFields
  <2> HIDE DEF record
  <2>3. SpacedFrom(record, last, now_unix)
    BY <2>2 DEF SpacedFrom
  <2> QED
    BY <1>1, <2>1, <2>2, <2>3, TaskSpaced DEF last
<1>8. CASE CompleteRefresh(t)
  <2> DEFINE record == [task[t] EXCEPT !.pc = "publish"]
  <2>1. SetTask(t, record) /\ UNCHANGED <<db, reader, owner>>
    BY <1>8 DEF CompleteRefresh
  <2>2. DOMAIN record = TaskFields /\ record.pc = "publish"
    BY <1>2 DEF TaskFields
  <2> HIDE DEF record
  <2>3. SpacedFrom(record, last, now_unix)
    BY <2>2 DEF SpacedFrom
  <2> QED
    BY <1>1, <2>1, <2>2, <2>3, TaskSpaced DEF last
<1>9. CASE Publish(t)
  BY <1>4, <1>9 DEF Publish, Finish, Release
<1> QED
  BY <1>5, <1>6, <1>7, <1>8, <1>9, AnswerSpaced, CommitSpaced DEF TaskStep

LEMMA ReaderStepSpaced ==
    ASSUME Shapes, ClockInv, CurrentInv, SpacingInv, NEW r \in Readers,
           Request(r) \/ ReaderStep(r) \/ Cancel(r)
    PROVE  SpacingInv'
<1>1. [Next]_vars
  BY DEF Next
<1>2. DOMAIN reader[r] = ReaderFields /\ DOMAIN IdleReader = ReaderFields /\ IdleReader.pc = "idle"
  BY DEF Shapes, IdleReader, ReaderFields
<1>3. ASSUME NEW record, DOMAIN record = ReaderFields, SetReader(r, record),
             UNCHANGED <<db, task>>, owner' \in {owner, None} \/ owner' = r,
             record.pc # "decide" \/ (record.seen.at = now_unix /\ owner' = owner)
      PROVE  SpacingInv'
  <2>1. reader'[r] = record /\ \A q \in Readers \ {r} : reader'[q] = reader[q]
    BY <1>3, SetReaderShape
  <2>2. None \notin Readers
    BY ProcessAssumption
  <2> QED
    BY <1>1, <1>3, <2>1, <2>2, OthersSpaced
<1>4. CASE Request(r)
  <2> DEFINE record == [IdleReader EXCEPT !.pc = "load"]
  <2>1. DOMAIN record = ReaderFields /\ record.pc = "load"
    BY DEF IdleReader, ReaderFields
  <2>2. SetReader(r, record) /\ UNCHANGED <<db, task>> /\ (owner' = owner \/ owner' = r)
    BY <1>4 DEF Request, Acquire
  <2> HIDE DEF record
  <2> QED
    BY <1>3, <2>1, <2>2
<1>5. CASE Load(r)
  <2>1. PICK stored : SetReader(r, [pc |-> "count", stored |-> stored, seen |-> None])
    BY <1>5 DEF Load
  <2> DEFINE record == [pc |-> "count", stored |-> stored, seen |-> None]
  <2>2. DOMAIN record = ReaderFields /\ record.pc = "count"
    BY DEF ReaderFields
  <2>3. SetReader(r, record) /\ UNCHANGED <<db, task, owner>>
    BY <1>5, <2>1 DEF Load
  <2> HIDE DEF record
  <2> QED
    BY <1>3, <2>2, <2>3
<1>6. CASE Count(r)
  <2> DEFINE record == [reader[r] EXCEPT !.pc = "decide",
                                         !.seen = [viewers |-> Live # {}, at |-> now_unix]]
  <2>1. DOMAIN record = ReaderFields /\ record.seen.at = now_unix
    BY <1>2 DEF ReaderFields
  <2>2. SetReader(r, record) /\ UNCHANGED <<db, task, owner>>
    BY <1>6 DEF Count
  <2> HIDE DEF record
  <2> QED
    BY <1>3, <2>1, <2>2
<1>7. CASE Respond(r) \/ Cancel(r)
  <2>1. SetReader(r, IdleReader) /\ UNCHANGED <<db, task>> /\ owner' \in {owner, None}
    BY <1>7 DEF Respond, Cancel, Release
  <2> QED
    BY <1>2, <1>3, <2>1
<1> QED
  BY <1>4, <1>5, <1>6, <1>7, SpawnSpaced DEF ReaderStep

LEMMA SpacingStep == ServiceInv /\ SpacingInv /\ [Next]_vars => SpacingInv'
<1> SUFFICES ASSUME ServiceInv, SpacingInv, [Next]_vars PROVE SpacingInv'
  OBVIOUS
<1>1. Shapes /\ GuardDiscipline /\ ClockInv /\ CurrentInv /\ BatchInv
  BY DEF ServiceInv, OwnershipInv, Clocked
<1>2. CASE ViewerAction \/ ShutdownRequested \/ HttpDrained \/ RefreshDrained \/ RefreshDeadline
           \/ Tick \/ AdjustClock \/ UNCHANGED vars
  <2>1. UNCHANGED <<db, task, owner, reader>>
    BY <1>2 DEF ViewerAction, ShutdownRequested, HttpDrained, RefreshDrained, RefreshDeadline,
       Tick, AdjustClock, vars, processVars
  <2> QED
    BY <1>1, <2>1, OthersSpaced
<1>3. CASE HttpDeadline
  <2>1. UNCHANGED <<db, task>> /\ owner' \notin Readers
    BY <1>3, ProcessAssumption DEF HttpDeadline
  <2> QED
    BY <1>1, <2>1, OthersSpaced
<1>4. CASE Restart
  <2>1. db' = db /\ owner' \notin Readers /\ \A t \in Tasks : task'[t] = IdleTask
    BY <1>4, ProcessAssumption DEF Restart
  <2> QED
    BY <1>1, <2>1, OthersSpaced
<1> QED
  BY <1>1, <1>2, <1>3, <1>4, TaskStepSpaced, ReaderStepSpaced DEF Next, Shutdown

(* A task about to store has not saved yet.                                *)
LEMMA StoringIsCommit ==
    ASSUME ServiceInv, [Next]_vars, NEW t \in Tasks, Stores(t)
    PROVE  Commit(t)
<1>1. Shapes /\ GuardDiscipline /\ BatchInv
  BY DEF ServiceInv, OwnershipInv
<1>2. task[t].pc = "store" /\ task'[t].saved = TRUE
  BY DEF Stores
<1>3. task[t].saved = None /\ owner = t
  BY <1>1, <1>2 DEF BatchInv, InOrder, GuardDiscipline, Active
<1>4. task'[t] # task[t] /\ task'[t] # IdleTask
  <2>1. TRUE # None
    BY NoneIsNoValue
  <2>2. IdleTask.saved = None
    BY DEF IdleTask
  <2> HIDE DEF IdleTask
  <2> QED
    BY <1>2, <1>3, <2>1, <2>2
<1>5. ASSUME NEW q \in Tasks, TaskStep(q) PROVE q = t
  <2>1. Active(q)
    BY <1>5 DEF TaskStep, RecheckStopping, RecheckViewers, ProviderAnswers, Commit, StoreFails,
                CompleteRefresh, Publish, Active
  <2> QED
    BY <1>1, <1>3, <2>1 DEF GuardDiscipline
<1>6. ASSUME TaskStep(t) PROVE Commit(t)
  <2>1. Commit(t) \/ StoreFails(t)
    BY <1>2, <1>6 DEF TaskStep, RecheckStopping, RecheckViewers, ProviderAnswers,
                CompleteRefresh, Publish
  <2>2. ~ StoreFails(t)
    <3> SUFFICES ASSUME StoreFails(t) PROVE FALSE
      OBVIOUS
    <3> DEFINE record == [task[t] EXCEPT !.pc = "complete", !.saved = FALSE]
    <3>1. DOMAIN record = TaskFields /\ record.saved = FALSE
      BY <1>1 DEF Shapes, TaskFields
    <3>2. SetTask(t, record)
      BY DEF StoreFails
    <3> HIDE DEF record
    <3>3. task'[t] = record
      BY <1>1, <3>1, <3>2, SetTaskShape
    <3> QED
      BY <1>2, <3>1, <3>3
  <2> QED
    BY <2>1, <2>2
<1>7. ASSUME NEW r \in Readers, Request(r) \/ ReaderStep(r) \/ Cancel(r) PROVE task'[t] = task[t]
  <2>1. CASE \E q \in Tasks : Spawn(r, q)
    <3>1. owner = r
      BY <2>1 DEF Spawn, MayRefresh
    <3> QED
      BY <1>3, <3>1, ProcessAssumption
  <2>2. CASE ~ \E q \in Tasks : Spawn(r, q)
    BY <1>7, <2>2 DEF Request, ReaderStep, Load, Count, Respond, Cancel
  <2> QED
    BY <2>1, <2>2
<1>8. CASE ViewerAction \/ Shutdown \/ Restart \/ Tick \/ AdjustClock \/ UNCHANGED vars
  <2>1. task' = task \/ task'[t] = IdleTask
    BY <1>8 DEF ViewerAction, Shutdown, ShutdownRequested, HttpDrained, HttpDeadline,
       RefreshDrained, RefreshDeadline, Restart, Tick, AdjustClock, vars, processVars
  <2> QED
    BY <1>4, <2>1
<1> QED
  BY <1>4, <1>5, <1>6, <1>7, <1>8 DEF Next

(* Two stored snapshots are an interval apart, also when a server crash    *)
(* has made the coordinator forget its gate in between, as long as the     *)
(* wall clock is not set.                                                  *)
THEOREM Spacing == Spec => SnapshotsSpaced
<1> DEFINE Apart == \A t \in Tasks : Stores(t) /\ db.snapshot.fetched_at # None /\ ~ adjusted
                      => db'.snapshot.fetched_at - db.snapshot.fetched_at >= Interval
<1>1. Init => SpacingInv
  BY ProcessAssumption DEF Init, Boot, EmptyDb, NoSnapshot, IdleTask, SpacingInv, Spaced, SpacedFrom
<1>2. ServiceInv /\ SpacingInv /\ [Next]_vars => Apart
  <2> SUFFICES ASSUME ServiceInv, SpacingInv, [Next]_vars, NEW t \in Tasks, Stores(t),
                      db.snapshot.fetched_at # None, ~ adjusted
               PROVE  db'.snapshot.fetched_at - db.snapshot.fetched_at >= Interval
    OBVIOUS
  <2>1. Commit(t) /\ task[t].pc = "store" /\ task[t].write # None
    BY StoringIsCommit DEF Stores
  <2>2. db'.snapshot = task[t].write
    BY <2>1 DEF Commit
  <2>3. adjusted = FALSE
    BY DEF ServiceInv, Clocked, ClockInv
  <2>4. SpacedFrom(task[t], db.snapshot.fetched_at, now_unix)
    BY <2>3 DEF SpacingInv, Spaced
  <2> QED
    BY <2>1, <2>2, <2>4 DEF SpacedFrom
<1>3. ServiceInv /\ SpacingInv /\ [Next]_vars => [Apart]_vars
  BY <1>2
<1> QED
  BY <1>1, <1>3, SpacingStep, ServiceInvariance, PTL DEF Spec, SnapshotsSpaced
=============================================================================
