------------------------ MODULE ResourceLifecycleProofs ------------------------
(***************************************************************************)
(* What holds of a managed resource for every number of tables, writes and *)
(* jobs, and wherever the process may be lost: a verified manifest stands  *)
(* for exactly the content its job froze (BackupComplete), and what an     *)
(* available or a deleted resource shows (ContentMatchesState).            *)
(*                                                                         *)
(* Neither is inductive.  The invariant says which stages an action goes   *)
(* through (JobFits), what a storage call may still do to storage, even    *)
(* when its job was canceled long ago (CallFits), what of a backup is      *)
(* there (Stored), how much of it the counter of the job stands for        *)
(* (Progress), and what the live content is in every stage (ContentFits).  *)
(***************************************************************************)
EXTENDS ResourceLifecycle, TLAPS

Saving == {"snapshot", "files", "manifest"}
Restoring == {"restore-verify", "restore-write", "restore-check"}

\* A resource has a job exactly while its state is a transition, and an action
\* goes through its own stages only.
JobFits(r, done) ==
  /\ r.job.id <= r.ids
  /\ (r.job = NoJob) <=> (r.job.id = 0)
  /\ (r.job = NoJob) <=> (r.state \in {"active", "deleted"})
  /\ r.job.stage \in Saving => r.job.action \in {"archive", "archive-delete"}
  /\ r.job.stage \in Restoring => r.job.action = "restore" /\ r.job.from \in done
  /\ r.job.stage = "erase" =>
       \/ r.job.action = "delete"
       \/ r.job.action = "archive-delete" /\ r.job.id \in done

\* A call of the live job is the one its stage makes next.
LiveCall(c, j) ==
  /\ c.kind = "save" => \/ j.stage = "snapshot" /\ j.ix <= NTables /\ c.part = j.ix
                        \/ j.stage = "files" /\ j.ix = 1 /\ c.part = FilePart
  /\ c.kind = "manifest" => j.stage = "manifest"
  /\ c.kind = "erase" => j.stage = "erase"
  /\ c.kind = "read" => /\ j.stage \in Restoring /\ j.ix <= FilePart
                        /\ c.part = j.ix /\ c.val = archive[j.from][j.ix]
  /\ c.kind = "put" => /\ j.stage = "restore-write" /\ j.ix = FilePart
                       /\ c.part = FilePart /\ c.val = archive[j.from][FilePart]

\* A call whose job was canceled can still add the bytes its job froze to a
\* backup, and put a file only into content that is being erased.
CallFits ==
  /\ run = "await" <=> call.id # 0
  /\ run # "await" => call = NoCall
  /\ call.id <= res.ids
  /\ call.kind = "save" => call.val = frozen[call.id][call.part]
  /\ call.kind = "erase" => IsLive
  /\ call.kind = "put" => rows[Attachments] # 0 /\ (IsLive \/ res.job.stage = "erase")
  /\ IsLive => LiveCall(call, res.job)

\* A backup holds nothing but what its job froze, and all of it once verified.
Stored ==
  /\ \A i \in JobIds : \A p \in Parts : archive[i][p] \in {0, frozen[i][p]}
  /\ \A i \in JobIds : i > res.ids => archive[i] = Nothing
  /\ \A i \in receipts : /\ i <= res.ids /\ archive[i] = frozen[i]
                         /\ frozen[i][FilePart] = frozen[i][Attachments]

\* The parts the counter of the job has passed are in the backup.
Progress ==
  LET j == res.job IN
  Busy(res) =>
    /\ j.stage = "snapshot" => \A p \in Parts : p < j.ix => archive[j.id][p] = frozen[j.id][p]
    /\ j.stage \in {"files", "manifest"} =>
         \A p \in Tables : archive[j.id][p] = frozen[j.id][p]
    /\ (j.stage = "files" /\ j.ix > 1) \/ j.stage = "manifest" =>
         archive[j.id][FilePart] = frozen[j.id][FilePart]

\* The live content in every state and stage.
ContentFits ==
  LET j == res.job IN
  /\ file # 0 => rows[Attachments] # 0
  /\ res.state = "active" \/ (Busy(res) /\ j.stage \in Saving) =>
       Live = committed /\ file = rows[Attachments]
  /\ Busy(res) /\ j.stage \in Saving => Live = frozen[j.id]
  /\ res.state = "deleted" \/ j.stage = "restore-verify" => Live = Nothing
  /\ j.stage = "restore-write" /\ j.ix <= NTables => file = 0
  /\ j.stage = "restore-write" /\ j.ix > NTables =>
       rows[Attachments] = archive[j.from][Attachments]
  /\ j.stage = "restore-check" => \A p \in Parts : p < j.ix => Live[p] = archive[j.from][p]

WriterFits == writer # "none" => edits < MaxEdits

Inv == /\ TypeOK /\ JobFits(res, receipts) /\ CallFits /\ Stored /\ Progress
       /\ ContentFits /\ WriterFits
-----------------------------------------------------------------------------
(***************************************************************************)
(* What requests and the alarm make of the record: the same job, a new     *)
(* one, or none.                                                           *)
(***************************************************************************)

Records == [state: States, ttl: BOOLEAN, paused: BOOLEAN, due: BOOLEAN,
            backup: BOOLEAN, job: JobSet, ids: 0 .. MaxJobs]

SameJob(r) == r.job = res.job /\ r.ids = res.ids /\ r.state = res.state
NewJob(r) ==
  /\ r.ids = res.ids + 1 /\ r.job.id = r.ids /\ r.job.ix = 1
  /\ r.state \notin {"active", "deleted"}
  /\ \/ /\ r.job.action \in {"archive", "archive-delete"} /\ r.job.stage = "snapshot"
        /\ res.state = "active"
     \/ /\ r.job.action = "delete" /\ r.job.stage = "erase"
        /\ res.state = "active" \/ res.job.stage \in {"restore-write", "restore-check"}
     \/ /\ r.job.action = "restore" /\ r.job.stage = "restore-verify"
        /\ r.job.from \in receipts /\ res.state = "deleted"
JobDropped(r) ==
  /\ r.job = NoJob /\ r.ids = res.ids
  /\ \/ r.state = "active" /\ res.job.stage \in Saving /\ Busy(res)
     \/ r.state = "deleted" /\ res.job.stage = "restore-verify"
RecordStep(r) == r \in Records /\ (SameJob(r) \/ NewJob(r) \/ JobDropped(r))

\* A new job as begin() writes it.
LEMMA Starts ==
  ASSUME NEW a \in Actions
  PROVE  /\ FirstStage(a) \in Stages
         /\ a \in {"archive", "archive-delete"} => FirstStage(a) = "snapshot"
         /\ FirstStage("delete") = "erase" /\ FirstStage("restore") = "restore-verify"
  BY DEF Actions, Stages, FirstStage

Begun(s, a, i, r) ==
  CanBegin(s, a) /\ (r = Begin(s, a, TRUE, i) \/ r = Begin(s, a, FALSE, i))

LEMMA BeginWrites ==
  ASSUME NEW s \in Records, NEW a \in Actions, NEW i \in 0 .. MaxJobs, NEW r, Begun(s, a, i, r)
  PROVE  /\ r \in Records /\ r.ids = s.ids + 1 /\ r.state \notin {"active", "deleted"}
         /\ r.job = [id |-> s.ids + 1, action |-> a, stage |-> FirstStage(a), ix |-> 1,
                     from |-> i]
         /\ r.job # NoJob
<1> DEFINE j == [id |-> s.ids + 1, action |-> a, stage |-> FirstStage(a), ix |-> 1,
                 from |-> i]
<1>1. s.ids + 1 \in 1 .. MaxJobs /\ FilePart + 1 \in Nat /\ 1 \in 1 .. (FilePart + 1)
  BY LifecycleAssumption DEF Begun, CanBegin, Records, FilePart
<1>2. j \in JobSet BY <1>1, Starts DEF JobSet
<1>3. j # NoJob
  <2>1. j.id = s.ids + 1 /\ NoJob.id = 0 BY DEF NoJob
  <2> QED BY <1>1, <2>1
<1>4. PICK ttl \in BOOLEAN, st \in States \ {"active", "deleted"} :
        r = [s EXCEPT !.ids = s.ids + 1, !.state = st, !.ttl = ttl, !.job = j]
  <2>1. StateOf(a, TRUE) \in States \ {"active", "deleted"} BY DEF StateOf, States
  <2>2. StateOf(a, FALSE) \in States \ {"active", "deleted"} BY DEF StateOf, States
  <2> QED BY <2>1, <2>2 DEF Begun, Begin
<1> HIDE DEF j
<1>6. r.ids = s.ids + 1 /\ r.state = st /\ r.job = j
  BY <1>4 DEF Records
<1>7. s.ids + 1 \in 0 .. MaxJobs BY <1>1
<1> HIDE DEF JobSet
<1>8. r \in Records BY <1>2, <1>4, <1>7 DEF Records
<1> QED BY <1>3, <1>6, <1>8 DEF j

\* Expiry leaves the record as it is, or begins a deletion.
LEMMA TickSteps ==
  ASSUME NEW s \in Records, s.job.id <= s.ids
  PROVE  \/ Tick(s) = s
         \/ /\ s.state = "active" /\ Tick(s) \in Records /\ Tick(s).job # NoJob
            /\ Tick(s).ids = s.ids + 1 /\ Tick(s).job.id = s.ids + 1 /\ Tick(s).job.ix = 1
            /\ Tick(s).state \notin {"active", "deleted"}
            /\ \/ Tick(s).job.action = "archive-delete" /\ Tick(s).job.stage = "snapshot"
               \/ Tick(s).job.action = "delete" /\ Tick(s).job.stage = "erase"
<1>1. SUFFICES ASSUME Overdue(s), CanBegin(s, "delete"), NEW a \in {"archive-delete", "delete"},
                      Tick(s) = Begin(s, a, TRUE, 0)
      PROVE  LET r == Begin(s, a, TRUE, 0)
             IN /\ s.state = "active" /\ r \in Records /\ r.job # NoJob
                /\ r.ids = s.ids + 1 /\ r.job.id = s.ids + 1 /\ r.job.ix = 1
                /\ r.state \notin {"active", "deleted"}
                /\ \/ r.job.action = "archive-delete" /\ r.job.stage = "snapshot"
                   \/ r.job.action = "delete" /\ r.job.stage = "erase"
  BY DEF Tick
<1>4. PICK r : r = Begin(s, a, TRUE, 0) OBVIOUS
<1>2. a \in Actions /\ 0 \in 0 .. MaxJobs /\ Begun(s, a, 0, r)
  BY <1>1, <1>4, LifecycleAssumption DEF Actions, CanBegin, Begun
<1>3. /\ r \in Records /\ r.ids = s.ids + 1 /\ r.job # NoJob
      /\ r.state \notin {"active", "deleted"}
      /\ r.job = [id |-> s.ids + 1, action |-> a, stage |-> FirstStage(a), ix |-> 1, from |-> 0]
  BY <1>2, BeginWrites
<1>5. \/ a = "archive-delete" /\ FirstStage(a) = "snapshot"
      \/ a = "delete" /\ FirstStage(a) = "erase"
  BY <1>1, <1>2, Starts
<1>6. /\ r.job.id = s.ids + 1 /\ r.job.ix = 1 /\ r.job.action = a
      /\ r.job.stage = FirstStage(a)
  BY <1>3
<1>7. /\ s.state = "active" /\ r \in Records /\ r.job # NoJob
      /\ r.ids = s.ids + 1 /\ r.job.id = s.ids + 1 /\ r.job.ix = 1
      /\ r.state \notin {"active", "deleted"}
      /\ \/ r.job.action = "archive-delete" /\ r.job.stage = "snapshot"
         \/ r.job.action = "delete" /\ r.job.stage = "erase"
  BY <1>1, <1>3, <1>5, <1>6 DEF Overdue
<1> QED BY <1>4, <1>7

LEMMA TickRecord ==
  ASSUME TypeOK, JobFits(res, receipts)
  PROVE  Tick(res) = res \/ (NewJob(Tick(res)) /\ Tick(res) \in Records /\ Busy(Tick(res)))
<1>1. res \in Records /\ res.job.id <= res.ids BY DEF TypeOK, Records, JobFits
<1> QED BY <1>1, TickSteps DEF NewJob, Busy

LEMMA BeginSteps ==
  ASSUME TypeOK, JobFits(res, receipts), NEW a \in Actions, CanBegin(res, a),
         NEW i \in receipts \cup {0}, a = "restore" => i \in receipts
  PROVE  RecordStep(Begin(res, a, FALSE, i))
<1>1. res \in Records /\ i \in 0 .. MaxJobs
  BY LifecycleAssumption DEF TypeOK, Records, JobIds
<1>2. a = "delete" \/ a = "restore" \/ a \in {"archive", "archive-delete"} BY DEF Actions
<1>3. res.state = (IF a = "restore" THEN "deleted" ELSE "active") BY DEF CanBegin
<1>5. PICK r : r = Begin(res, a, FALSE, i) OBVIOUS
<1>9. Begun(res, a, i, r) BY <1>5 DEF Begun
<1>4. /\ r \in Records /\ r.ids = res.ids + 1 /\ r.state \notin {"active", "deleted"}
      /\ r.job = [id |-> res.ids + 1, action |-> a, stage |-> FirstStage(a), ix |-> 1,
                  from |-> i]
  BY <1>1, <1>9, BeginWrites
<1>6. \/ a \in {"archive", "archive-delete"} /\ FirstStage(a) = "snapshot"
      \/ a = "delete" /\ FirstStage(a) = "erase"
      \/ a = "restore" /\ FirstStage(a) = "restore-verify" /\ i \in receipts
  BY <1>2, Starts
<1>7. /\ r.job.id = r.ids /\ r.job.ix = 1 /\ r.job.action = a
      /\ r.job.stage = FirstStage(a) /\ r.job.from = i
  BY <1>4
<1>8. NewJob(r)
  BY <1>3, <1>4, <1>6, <1>7 DEF NewJob
<1> QED BY <1>4, <1>5, <1>8 DEF RecordStep

LEMMA CancelSteps ==
  ASSUME TypeOK, JobFits(res, receipts), Busy(res), res.job.stage # "erase",
         Canceled(res).ids <= MaxJobs
  PROVE  RecordStep(Canceled(res))
<1>1. res \in Records /\ res.job \in JobSet /\ MaxJobs \in Nat /\ NTables \in Nat
  BY LifecycleAssumption DEF TypeOK, Records
<1>2. res.job.stage \in Saving \cup Restoring
  BY <1>1 DEF JobSet, Stages, Saving, Restoring
<1>3. NoJob \in JobSet
  BY <1>1 DEF JobSet, NoJob, Actions, Stages, FilePart
<1>4. CASE res.job.action # "restore"
  <2>1. res.job.stage \in Saving BY <1>2, <1>4 DEF JobFits
  <2>2. Canceled(res) = [res EXCEPT !.state = "active", !.job = NoJob, !.ttl = FALSE,
                                    !.paused = res.paused \/ res.ttl]
    BY <1>4 DEF Canceled
  <2>3. (res.paused \/ res.ttl) \in BOOLEAN OBVIOUS
  <2>4. Canceled(res) \in Records
    BY <1>1, <1>3, <2>2, <2>3 DEF Records, States
  <2>5. JobDropped(Canceled(res))
    BY <1>1, <2>1, <2>2 DEF Records, JobDropped
  <2> QED BY <2>4, <2>5 DEF RecordStep
<1>5. CASE res.job.action = "restore" /\ res.job.stage = "restore-verify"
  <2>1. Canceled(res) = [res EXCEPT !.state = "deleted", !.job = NoJob]
    BY <1>5 DEF Canceled
  <2>2. Canceled(res) \in Records BY <1>1, <1>3, <2>1 DEF Records, States
  <2>3. JobDropped(Canceled(res)) BY <1>1, <1>5, <2>1 DEF Records, JobDropped
  <2> QED BY <2>2, <2>3 DEF RecordStep
<1>6. CASE res.job.action = "restore" /\ res.job.stage # "restore-verify"
  <2> DEFINE j == [id |-> res.ids + 1, action |-> "delete", stage |-> "erase", ix |-> 1,
                   from |-> 0]
  <2>1. Canceled(res) = [res EXCEPT !.state = "deleting", !.ids = res.ids + 1, !.job = j]
    BY <1>6 DEF Canceled
  <2>2. Canceled(res).ids = res.ids + 1 BY <1>1, <2>1 DEF Records
  <2>3. res.ids + 1 \in 0 .. MaxJobs BY <1>1, <2>2 DEF Records
  <2>4. j \in JobSet BY <1>1, <2>3 DEF JobSet, Actions, Stages, FilePart
  <2>5. j.id = res.ids + 1 /\ j.action = "delete" /\ j.stage = "erase" /\ j.ix = 1 OBVIOUS
  <2>6. res.job.stage \in {"restore-write", "restore-check"}
    BY <1>2, <1>6 DEF JobFits, Saving, Restoring
  <2> HIDE DEF j
  <2>7. Canceled(res) \in Records BY <1>1, <2>1, <2>3, <2>4 DEF Records, States
  <2>8. NewJob(Canceled(res))
    BY <1>1, <2>1, <2>5, <2>6 DEF Records, NewJob
  <2> QED BY <2>7, <2>8 DEF RecordStep
<1> QED BY <1>4, <1>5, <1>6

\* Every request that leaves an alarm set takes one of these steps.
Requests == \/ Visit \/ CapabilityDelete \/ AdminArchive \/ AdminRestore \/ AdminCancel
            \/ AdminRetry \/ AdminPolicy
LEMMA RequestSteps ==
  ASSUME TypeOK, JobFits(res, receipts), Requests
  PROVE  \E r \in Records : RecordStep(r) /\ Request(r)
<1>1. res \in Records /\ receipts \subseteq JobIds BY DEF TypeOK, Records
<1>2. RecordStep(res) BY <1>1 DEF RecordStep, SameJob
<1>3. RecordStep(Tick(res)) BY <1>2, TickRecord DEF RecordStep
<1>4. CASE Visit BY <1>3, <1>4 DEF Visit, RecordStep
<1>5. CASE CapabilityDelete
  BY <1>5, BeginSteps DEF CapabilityDelete, RecordStep, Actions
<1>6. ASSUME NEW a \in Actions, NEW i \in receipts \cup {0}, a = "restore" => i \in receipts,
             AdminBegin(a, i)
      PROVE  \E r \in Records : RecordStep(r) /\ Request(r)
  <2>1. Tick(res) = res BY <1>6, TickRecord DEF AdminBegin, AdminRecord, CanBegin
  <2> QED BY <1>6, <2>1, BeginSteps DEF AdminBegin, AdminRecord, RecordStep
<1>7. CASE AdminArchive BY <1>6, <1>7 DEF AdminArchive, Actions
<1>8. CASE AdminRestore BY <1>6, <1>8 DEF AdminRestore, Actions
<1>9. CASE AdminCancel BY <1>9, CancelSteps DEF AdminCancel, RecordStep
<1>10. CASE AdminRetry BY <1>2, <1>10 DEF AdminRetry, RecordStep
<1>11. CASE AdminPolicy
  <2>1. Tick(res) = res BY <1>11, TickRecord DEF AdminPolicy, AdminRecord
  <2>2. PICK p \in BOOLEAN, d \in BOOLEAN, b \in BOOLEAN :
          Request(Tick([res EXCEPT !.paused = p, !.due = d, !.backup = b]))
    BY <1>11, <2>1 DEF AdminPolicy, AdminRecord
  <2> DEFINE s == [res EXCEPT !.paused = p, !.due = d, !.backup = b]
  <2>3. s \in Records /\ SameJob(s) BY <1>1 DEF Records, SameJob
  <2>4. Tick(s) = s \/ (NewJob(Tick(s)) /\ Tick(s) \in Records)
    <3> HIDE DEF s
    <3>1. s.job.id <= s.ids BY <2>3 DEF SameJob, JobFits
    <3> QED BY <2>3, <3>1, TickSteps DEF NewJob, SameJob
  <2> QED BY <2>2, <2>3, <2>4 DEF RecordStep
<1> QED BY <1>4, <1>5, <1>7, <1>8, <1>9, <1>10, <1>11 DEF Requests
-----------------------------------------------------------------------------
(***************************************************************************)
(* A turn that commits a record keeps the invariant, part by part.         *)
(***************************************************************************)

LEMMA LiveTyped == ASSUME TypeOK PROVE Live \in Content
<1>1. \A p \in Parts : p # FilePart => p \in Tables
  BY LifecycleAssumption DEF Parts, Tables, FilePart
<1> QED BY <1>1 DEF TypeOK, Live, Content

\* What a committed record leaves alone.
Turn(r) ==
  /\ RecordStep(r) /\ Commit(r)
  /\ UNCHANGED <<rows, file, archive, receipts, call, writer, edits, committed>>
  /\ run' \in RunPcs /\ (run' = "await" <=> run = "await") /\ alarm' \in BOOLEAN

LEMMA TurnJob ==
  ASSUME Inv, NEW r, Turn(r)
  PROVE  /\ res' = r /\ r \in Records /\ res \in Records /\ res.ids \in Nat /\ MaxJobs \in Nat
         /\ r.ids \in {res.ids, res.ids + 1}
         /\ \A i \in JobIds : i <= res.ids => frozen'[i] = frozen[i]
         /\ r.ids = res.ids + 1 => r.ids \in JobIds /\ frozen'[r.ids] = Live
         /\ frozen' \in [JobIds -> Content]
<1>1. r \in Records /\ res \in Records /\ MaxJobs \in Nat /\ res' = r
  BY LifecycleAssumption DEF Inv, TypeOK, Turn, RecordStep, Records, Commit
<1>2. res.ids \in Nat /\ r.ids \in 0 .. MaxJobs BY <1>1 DEF Records
<1>3. r.ids \in {res.ids, res.ids + 1} /\ (r.ids = res.ids + 1 => r.job.id = r.ids)
  BY <1>2 DEF Turn, RecordStep, SameJob, NewJob, JobDropped
<1>4. frozen \in [JobIds -> Content] /\ Live \in Content BY LiveTyped DEF Inv, TypeOK
<1>5. CASE r.ids = res.ids
  <2>1. frozen' = frozen BY <1>1, <1>2, <1>5 DEF Turn, Commit
  <2> QED BY <1>1, <1>2, <1>3, <1>4, <1>5, <2>1
<1>6. CASE r.ids = res.ids + 1
  <2>3. r.ids > res.ids /\ r.job.id = r.ids BY <1>2, <1>3, <1>6
  <2>4. frozen' = [frozen EXCEPT ![r.job.id] = Live] BY <2>3 DEF Turn, Commit
  <2>1. frozen' = [frozen EXCEPT ![r.ids] = Live] BY <2>3, <2>4
  <2>2. r.ids \in JobIds BY <1>2, <1>6 DEF JobIds
  <2> QED BY <1>1, <1>2, <1>3, <1>4, <1>6, <2>1, <2>2
<1> QED BY <1>3, <1>5, <1>6

LEMMA TurnKeeps ==
  ASSUME Inv, NEW r, Turn(r)
  PROVE  Inv'
<1>1. /\ res' = r /\ r \in Records /\ res \in Records /\ res.ids \in Nat /\ MaxJobs \in Nat
      /\ r.ids \in {res.ids, res.ids + 1}
      /\ \A i \in JobIds : i <= res.ids => frozen'[i] = frozen[i]
      /\ r.ids = res.ids + 1 => r.ids \in JobIds /\ frozen'[r.ids] = Live
      /\ frozen' \in [JobIds -> Content]
  BY TurnJob
<1>2. /\ UNCHANGED <<rows, file, archive, receipts, call, writer, edits, committed>>
      /\ SameJob(r) \/ NewJob(r) \/ JobDropped(r)
      /\ run' = "await" <=> run = "await"
  BY DEF Turn, RecordStep
<1>3. /\ res.job.id \in 0 .. MaxJobs /\ res.job.id <= res.ids /\ r.job.id \in 0 .. MaxJobs
      /\ r.job.ix \in Nat /\ res.job.stage \in Stages /\ r.job.stage \in Stages
      /\ NTables \in Nat \ {0}
  BY <1>1, LifecycleAssumption DEF Inv, JobFits, Records, JobSet, FilePart
<1>4. NoJob.id = 0 /\ NoJob.stage = "snapshot" /\ NoJob.action = "archive"
  BY DEF NoJob
<1>5. NewJob(r) => r.job # NoJob BY <1>1, <1>4 DEF NewJob
<1>6. TypeOK'
  BY <1>1, <1>2 DEF Inv, TypeOK, Records, Turn
<1>7. JobFits(res, receipts)'
  <2>1. CASE SameJob(r) BY <1>1, <1>2, <2>1 DEF Inv, JobFits, SameJob
  <2>2. CASE NewJob(r)
    BY <1>1, <1>2, <1>4, <1>5, <2>2 DEF NewJob, JobFits, Saving, Restoring
  <2>3. CASE JobDropped(r)
    BY <1>1, <1>2, <1>4, <2>3 DEF JobDropped, JobFits, Saving, Restoring
  <2> QED BY <1>2, <2>1, <2>2, <2>3
<1>8. CallFits'
  <2>1. /\ run = "await" <=> call.id # 0
        /\ run # "await" => call = NoCall
        /\ call.id <= res.ids /\ call.id \in Nat
        /\ call.kind = "save" => /\ call.val = frozen[call.id][call.part]
                                 /\ call.id \in JobIds
    BY DEF Inv, CallFits, TypeOK, CallSet, NoCall, JobIds
  <2>2. call.kind = "save" => call.val = frozen'[call.id][call.part]
    BY <1>1, <2>1
  <2>3. NoCall.kind = "none" /\ NoCall.id = 0 BY DEF NoCall
  <2>4. LiveCall(call, r.job)' <=> LiveCall(call, r.job) BY <1>2 DEF LiveCall
  <2>5. /\ call.kind = "erase" => r.job.id = call.id
        /\ call.kind = "put" => \/ r.job.id = call.id
                                \/ r.job.stage = "erase"
        /\ r.job.id = call.id => LiveCall(call, r.job)
    <3>1. CASE SameJob(r) BY <3>1 DEF Inv, CallFits, IsLive, SameJob
    <3>2. CASE run # "await"
      BY <2>1, <2>3, <3>2 DEF LiveCall
    <3>3. CASE run = "await" /\ NewJob(r)
      <4>1. r.job.id # call.id BY <1>1, <2>1, <3>3 DEF NewJob
      <4>2. res.state = "active" \/ res.state = "deleted" => res.job.id = 0
        BY <1>4 DEF Inv, JobFits
      <4>3. res.state = "active" \/ res.state = "deleted" => ~IsLive
        BY <2>1, <3>3, <4>2 DEF IsLive
      <4>4. IsLive => LiveCall(call, res.job) BY DEF Inv, CallFits
      <4>5. /\ call.kind = "erase" => IsLive
            /\ call.kind = "put" => IsLive \/ res.job.stage = "erase"
        BY DEF Inv, CallFits
      <4>6. res.state = "active" \/ res.state = "deleted" => res.job.stage = "snapshot"
        BY <1>4 DEF Inv, JobFits
      <4>7. CASE r.job.stage = "erase" /\ res.job.stage \in {"restore-write", "restore-check"}
        BY <4>1, <4>4, <4>5, <4>7 DEF LiveCall
      <4>8. CASE res.state = "active" \/ res.state = "deleted"
        BY <4>1, <4>3, <4>5, <4>6, <4>8
      <4> QED BY <3>3, <4>7, <4>8 DEF NewJob
    <3>4. CASE run = "await" /\ JobDropped(r)
      <4>1. r.job.id # call.id BY <1>4, <2>1, <3>4 DEF JobDropped
      <4>2. res.job.stage \in Saving \cup {"restore-verify"} BY <3>4 DEF JobDropped
      <4>3. call.kind \notin {"erase", "put"}
        BY <4>2 DEF Inv, CallFits, LiveCall, Saving
      <4> QED BY <4>1, <4>3
    <3> QED BY <1>2, <3>1, <3>2, <3>3, <3>4
  <2>6. call.kind = "put" => rows[Attachments] # 0 BY DEF Inv, CallFits
  <2> QED BY <1>1, <1>2, <2>1, <2>2, <2>4, <2>5, <2>6 DEF CallFits, IsLive, LiveCall
<1>9. Stored'
  <2>1. \A i \in JobIds : i \in Nat BY DEF JobIds
  <2>2. ASSUME NEW i \in JobIds, NEW p \in Parts
        PROVE  archive[i][p] \in {0, frozen'[i][p]}
    <3>1. CASE i <= res.ids BY <1>1, <3>1 DEF Inv, Stored
    <3>2. CASE i > res.ids BY <3>2 DEF Inv, Stored, Nothing
    <3> QED BY <1>1, <2>1, <3>1, <3>2
  <2>3. \A i \in JobIds : i > r.ids => archive[i] = Nothing
    BY <1>1, <2>1 DEF Inv, Stored
  <2>4. ASSUME NEW i \in receipts
        PROVE  /\ i <= r.ids /\ archive[i] = frozen'[i]
               /\ frozen'[i][FilePart] = frozen'[i][Attachments]
    <3>1. i \in JobIds BY DEF Inv, TypeOK
    <3> QED BY <1>1, <2>1, <3>1 DEF Inv, Stored
  <2> QED BY <1>1, <1>2, <2>2, <2>3, <2>4 DEF Stored
<1>10. Progress'
  <2>1. CASE SameJob(r)
    <3>1. Busy(res) => res.job.id \in JobIds
      BY <1>3 DEF Inv, JobFits, Busy, JobIds
    <3>2. Busy(res) => frozen'[res.job.id] = frozen[res.job.id] BY <1>1, <1>3, <3>1
    <3> QED BY <1>1, <1>2, <2>1, <3>2 DEF Inv, Progress, SameJob, Busy
  <2>2. CASE NewJob(r)
    <3>1. \A p \in Parts : ~(p < 1) BY <1>3 DEF Parts
    <3> QED BY <1>1, <2>2, <3>1 DEF NewJob, Progress
  <2>3. CASE JobDropped(r) BY <1>1, <2>3 DEF JobDropped, Progress, Busy
  <2> QED BY <1>2, <2>1, <2>2, <2>3
<1>11. ContentFits'
  <2>1. Live' = Live BY <1>2 DEF Live
  <2>2. CASE SameJob(r)
    <3>1. Busy(res) => res.job.id \in JobIds
      BY <1>3 DEF Inv, JobFits, Busy, JobIds
    <3>2. Busy(res) => frozen'[res.job.id] = frozen[res.job.id] BY <1>1, <1>3, <3>1
    <3> QED BY <1>1, <1>2, <2>1, <2>2, <3>2 DEF Inv, ContentFits, SameJob, Busy
  <2>3. CASE NewJob(r)
    <3>1. r.job.id = r.ids /\ r.ids = res.ids + 1 BY <2>3 DEF NewJob
    <3>2. frozen'[r.job.id] = Live BY <1>1, <3>1
    <3> QED
      BY <1>1, <1>2, <2>1, <2>3, <3>2 DEF Inv, ContentFits, NewJob, Busy, Saving
  <2>4. CASE JobDropped(r)
    BY <1>1, <1>2, <1>4, <2>1, <2>4
    DEF Inv, ContentFits, JobDropped, Busy, Saving, Live
  <2> QED BY <1>2, <2>2, <2>3, <2>4
<1>12. WriterFits' BY <1>2 DEF Inv, WriterFits
<1> QED BY <1>6, <1>7, <1>8, <1>9, <1>10, <1>11, <1>12 DEF Inv
-----------------------------------------------------------------------------
(***************************************************************************)
(* Requests, writes and the moves of the alarm handler between its calls.  *)
(***************************************************************************)

LEMMA RequestsKeep == ASSUME Inv, Requests PROVE Inv'
<1>1. PICK r \in Records : RecordStep(r) /\ Request(r)
  BY RequestSteps DEF Inv
<1>2. Turn(r) BY <1>1 DEF Turn, Request, Schedule, Inv, TypeOK
<1> QED BY <1>2, TurnKeeps

LEMMA TimeKeeps == ASSUME Inv, TimePasses PROVE Inv'
<1> DEFINE r == [res EXCEPT !.due = TRUE]
<1>1. r \in Records /\ SameJob(r) BY DEF Inv, TypeOK, Records, SameJob
<1>2. res' = r BY DEF TimePasses
<1> HIDE DEF r
<1>3. ~(r.ids > res.ids) BY <1>1 DEF Records, SameJob
<1>4. Turn(r) BY <1>1, <1>2, <1>3 DEF TimePasses, Turn, RecordStep, Commit, Inv, TypeOK
<1> QED BY <1>4, TurnKeeps

LEMMA FireKeeps == ASSUME Inv, Fire PROVE Inv'
<1>1. RecordStep(Tick(res)) BY TickRecord DEF Inv, TypeOK, Records, RecordStep, SameJob
<1>2. Turn(Tick(res)) BY <1>1 DEF Turn, Fire, RunPcs
<1> QED BY <1>2, TurnKeeps

LEMMA MoveKeeps ==
  ASSUME Inv, Arm \/ EndLoop \/ Rearm
  PROVE  Inv'
<1>1. /\ UNCHANGED <<res, rows, file, archive, receipts, call, writer, edits, frozen, committed>>
      /\ run # "await" /\ run' # "await" /\ run' \in RunPcs /\ alarm' \in BOOLEAN
  BY DEF Arm, EndLoop, Rearm, Schedule, RunPcs
<1>2. Live' = Live BY <1>1 DEF Live
<1>3. TypeOK' BY <1>1 DEF Inv, TypeOK
<1>4. JobFits(res, receipts)' BY <1>1 DEF Inv, JobFits
<1>5. CallFits' BY <1>1 DEF Inv, CallFits, IsLive, LiveCall
<1>6. Stored' /\ Progress' BY <1>1 DEF Inv, Stored, Progress, Busy
<1>7. ContentFits' /\ WriterFits' BY <1>1, <1>2 DEF Inv, ContentFits, WriterFits, Busy
<1> QED BY <1>3, <1>4, <1>5, <1>6, <1>7 DEF Inv

LEMMA StartKeeps ==
  ASSUME Inv, WriteStart("edit") \/ WriteStart("upload")
  PROVE  Inv'
<1>1. /\ UNCHANGED <<res, rows, file, archive, receipts, alarm, run, call, edits, frozen, committed>>
      /\ writer' \in {"edit", "upload"} /\ edits < MaxEdits
  BY DEF WriteStart
<1>2. Live' = Live BY <1>1 DEF Live
<1>3. TypeOK' BY <1>1 DEF Inv, TypeOK
<1>4. JobFits(res, receipts)' BY <1>1 DEF Inv, JobFits
<1>5. CallFits' BY <1>1 DEF Inv, CallFits, IsLive, LiveCall
<1>6. Stored' /\ Progress' BY <1>1 DEF Inv, Stored, Progress, Busy
<1>7. ContentFits' /\ WriterFits' BY <1>1, <1>2 DEF Inv, ContentFits, WriterFits, Busy
<1> QED BY <1>3, <1>4, <1>5, <1>6, <1>7 DEF Inv

\* A write commits only while the resource is available, that is without a job.
LEMMA CommitKeeps == ASSUME Inv, WriteCommit PROVE Inv'
<1>1. /\ UNCHANGED <<res, archive, receipts, run, call, frozen>>
      /\ writer' = "none" /\ alarm' = TRUE /\ edits < MaxEdits /\ MaxEdits \in Nat
      /\ edits \in Nat /\ NTables \in Nat \ {0}
  BY LifecycleAssumption DEF WriteCommit, Schedule, Inv, WriterFits, TypeOK, Version
<1>2. CASE UNCHANGED <<edits, rows, file, committed>>
  <2>1. Live' = Live BY <1>2 DEF Live
  <2>2. TypeOK' BY <1>1, <1>2 DEF Inv, TypeOK
  <2>3. JobFits(res, receipts)' BY <1>1 DEF Inv, JobFits
  <2>4. CallFits' BY <1>1, <1>2 DEF Inv, CallFits, IsLive, LiveCall
  <2>5. Stored' /\ Progress' BY <1>1 DEF Inv, Stored, Progress, Busy
  <2>6. ContentFits' /\ WriterFits'
    BY <1>1, <1>2, <2>1 DEF Inv, ContentFits, WriterFits, Busy
  <2> QED BY <2>2, <2>3, <2>4, <2>5, <2>6 DEF Inv
<1>3. CASE /\ Available /\ edits' = edits + 1
           /\ rows' = [t \in Tables |-> IF (t = Attachments) = (writer = "upload")
                                        THEN edits + 1 ELSE rows[t]]
           /\ file' = (IF writer = "upload" THEN edits + 1 ELSE file)
           /\ committed' = Live'
  <2>1. res.state = "active" /\ ~Busy(res) /\ res.job.id = 0 /\ res.job.stage = "snapshot"
    BY <1>3 DEF Inv, JobFits, Available, Busy, NoJob
  <2>2. edits + 1 \in Version /\ edits + 1 # 0 BY <1>1 DEF Version
  <2>3. rows' \in [Tables -> Version] /\ file' \in Version
    BY <1>3, <2>2 DEF Inv, TypeOK
  <2>4. \A p \in Parts : p # FilePart => p \in Tables BY <1>1 DEF Parts, Tables, FilePart
  <2>5. committed' \in Content BY <1>3, <2>3, <2>4 DEF Live, Content
  <2>6. TypeOK' BY <1>1, <1>3, <2>2, <2>3, <2>5 DEF Inv, TypeOK
  <2>7. JobFits(res, receipts)' BY <1>1 DEF Inv, JobFits
  <2>8. CallFits'
    <3>1. call.kind # "put"
      BY <1>1, <2>1 DEF Inv, CallFits, IsLive, NoCall
    <3> QED BY <1>1, <3>1 DEF Inv, CallFits, IsLive, LiveCall
  <2>9. Stored' /\ Progress' BY <1>1, <2>1 DEF Inv, Stored, Progress, Busy
  <2>10. ContentFits'
    <3>1. file = rows[Attachments] BY <2>1 DEF Inv, ContentFits
    <3>2. Attachments \in Tables BY <1>1 DEF Attachments, Tables
    <3>3. file' = rows'[Attachments] BY <1>3, <3>1, <3>2
    <3> QED BY <1>1, <1>3, <2>1, <3>3 DEF ContentFits, Busy
  <2>11. WriterFits' BY <1>1 DEF WriterFits
  <2> QED BY <2>6, <2>7, <2>8, <2>9, <2>10, <2>11 DEF Inv
<1> QED BY <1>2, <1>3 DEF WriteCommit

-----------------------------------------------------------------------------
(***************************************************************************)
(* The storage calls.                                                      *)
(***************************************************************************)

LEMMA Sizes ==
  /\ NTables \in Nat \ {0} /\ FilePart = NTables + 1 /\ FilePart \in Parts
  /\ Attachments = NTables /\ Attachments \in Tables /\ Attachments \in Parts
  /\ Parts = Tables \cup {FilePart} /\ FilePart \notin Tables
  /\ Tables \subseteq Nat /\ 1 \in Tables /\ MaxEdits \in Nat /\ 0 \in Version
  BY LifecycleAssumption DEF FilePart, Parts, Attachments, Tables, Version

\* While a call is out the object is busy, or its job was canceled.
LEMMA CallOut ==
  ASSUME Inv, run = "await"
  PROVE  /\ call.id \in JobIds /\ call.part \in Parts /\ call.val \in Version
         /\ call.id <= res.ids
         /\ call.kind \in {"save", "manifest", "erase", "read", "put"} \/ call.kind = "none"
         /\ IsLive => Busy(res) /\ res.state \notin {"active", "deleted"}
         /\ call.kind \in {"erase", "put"} =>
              Busy(res) /\ res.state \notin {"active", "deleted"}
<1>1. call.id # 0 /\ call \in CallSet /\ res.job.stage \in Stages
  BY DEF Inv, CallFits, TypeOK, JobSet
<1>2. call.id \in JobIds /\ call.part \in Parts /\ call.val \in Version
  BY <1>1, LifecycleAssumption DEF CallSet, JobIds
<1>3. IsLive => Busy(res) BY <1>1 DEF IsLive, Busy, NoJob
<1>4. res.job.stage = "erase" => Busy(res) BY DEF Busy, NoJob
<1>5. Busy(res) => res.state \notin {"active", "deleted"} BY DEF Inv, JobFits, Busy
<1> QED BY <1>1, <1>2, <1>3, <1>4, <1>5 DEF Inv, CallFits, CallSet

\* What is in a backup never changes, and a put adds what its job froze.
LEMMA PutStores ==
  ASSUME Inv, run = "await", StorePut
  PROVE  /\ archive' \in [JobIds -> Content]
         /\ \A i \in JobIds : i # call.id => archive'[i] = archive[i]
         /\ \A p \in Parts : /\ archive'[call.id][p] \in {0, frozen[call.id][p]}
                             /\ archive[call.id][p] = frozen[call.id][p] =>
                                  archive'[call.id][p] = frozen[call.id][p]
         /\ call.kind = "save" =>
              archive'[call.id][call.part] = frozen[call.id][call.part]
<1>1. /\ archive \in [JobIds -> Content] /\ call.id \in JobIds /\ call.part \in Parts
      /\ call.val \in Version
  BY CallOut DEF Inv, TypeOK
<1>2. call.kind = "save" => call.val = frozen[call.id][call.part]
  BY DEF Inv, CallFits
<1>3. \A p \in Parts : archive[call.id][p] \in {0, frozen[call.id][p]}
  BY <1>1 DEF Inv, Stored
<1>4. CASE call.kind = "save" /\ archive[call.id][call.part] = 0
  <2>1. archive' = [archive EXCEPT ![call.id][call.part] = call.val]
    BY <1>4 DEF StorePut
  <2>2. archive' = [archive EXCEPT ![call.id] =
                      [archive[call.id] EXCEPT ![call.part] = call.val]]
    BY <1>1, <2>1
  <2>3. [archive[call.id] EXCEPT ![call.part] = call.val] \in Content
    BY <1>1 DEF Content
  <2>4. archive'[call.id] = [archive[call.id] EXCEPT ![call.part] = call.val]
    BY <1>1, <2>2
  <2>5. archive[call.id] \in Content BY <1>1
  <2>6. \A p \in Parts : archive'[call.id][p] = IF p = call.part THEN call.val
                                                ELSE archive[call.id][p]
    BY <1>1, <2>4, <2>5 DEF Content
  <2>7. archive' \in [JobIds -> Content] /\ \A i \in JobIds : i # call.id => archive'[i] = archive[i]
    BY <1>1, <2>2, <2>3
  <2> QED BY <1>1, <1>2, <1>3, <1>4, <2>6, <2>7
<1>5. CASE ~(call.kind = "save" /\ archive[call.id][call.part] = 0)
  <2>1. archive' = archive BY <1>5 DEF StorePut
  <2> QED BY <1>1, <1>3, <1>5, <2>1
<1> QED BY <1>4, <1>5

LEMMA VerifiedStays ==
  ASSUME Inv, run = "await", StorePut
  PROVE  /\ \A i \in receipts : archive'[i] = archive[i]
         /\ \A i \in JobIds : i > res.ids => archive'[i] = Nothing
         /\ \A i \in JobIds : \A p \in Parts : archive'[i][p] \in {0, frozen[i][p]}
<1>1. call.id \in JobIds /\ call.id <= res.ids /\ res.ids \in Nat
  BY CallOut DEF Inv, TypeOK
<1>2. /\ archive' \in [JobIds -> Content] /\ archive \in [JobIds -> Content]
      /\ frozen \in [JobIds -> Content]
  BY PutStores DEF Inv, TypeOK
<1>3. ASSUME NEW i \in receipts PROVE archive'[i] = archive[i]
  <2>1. i \in JobIds /\ archive[i] = frozen[i] BY DEF Inv, TypeOK, Stored
  <2>2. CASE i = call.id
    <3>1. \A p \in Parts : archive'[i][p] = frozen[i][p] BY <2>1, <2>2, PutStores
    <3>2. archive'[i] \in Content /\ frozen[i] \in Content BY <1>2, <2>1
    <3> QED BY <2>1, <3>1, <3>2 DEF Content
  <2> QED BY <2>1, <2>2, PutStores
<1>4. \A i \in JobIds : i > res.ids => archive'[i] = Nothing
  <2>1. \A i \in JobIds : i > res.ids => i # call.id BY <1>1 DEF JobIds
  <2> QED BY <2>1, PutStores DEF Inv, Stored
<1>5. ASSUME NEW i \in JobIds, NEW p \in Parts PROVE archive'[i][p] \in {0, frozen[i][p]}
  BY <1>1, PutStores DEF Inv, Stored
<1> QED BY <1>3, <1>4, <1>5

\* A call that failed, or died with the process, may have reached storage.
LEMMA DropKeeps == ASSUME Inv, StepFail \/ Crash PROVE Inv'
<1>1. /\ UNCHANGED <<res, rows, receipts, edits, frozen, committed>>
      /\ call' = NoCall /\ run' # "await" /\ run' \in RunPcs /\ alarm' \in BOOLEAN
      /\ writer' \in {writer, "none"}
      /\ (run = "await" /\ Effect) \/ NoEffect
  BY DEF StepFail, Crash, RunPcs, Inv, TypeOK
<1>2. /\ archive' \in [JobIds -> Content] /\ file' \in Version
      /\ \A i \in receipts : archive'[i] = archive[i]
      /\ \A i \in JobIds : i > res.ids => archive'[i] = Nothing
      /\ \A i \in JobIds : \A p \in Parts :
           /\ archive'[i][p] \in {0, frozen[i][p]}
           /\ archive[i][p] = frozen[i][p] => archive'[i][p] = frozen[i][p]
      /\ file' = file \/ (call.kind = "erase" /\ file' = 0) \/ call.kind = "put"
  <2>1. CASE NoEffect BY <2>1 DEF NoEffect, Inv, TypeOK, Stored
  <2>2. CASE run = "await" /\ Effect
    <3>1. StorePut /\ call.val \in Version /\ call.id \in JobIds
      BY <2>2, CallOut DEF Effect
    <3>2. file' \in Version /\ (file' = file \/ (call.kind = "erase" /\ file' = 0)
                                \/ call.kind = "put")
      BY <2>2, <3>1, Sizes DEF Effect, Inv, TypeOK
    <3>3. ASSUME NEW i \in JobIds, NEW p \in Parts
          PROVE  archive[i][p] = frozen[i][p] => archive'[i][p] = frozen[i][p]
      BY <2>2, <3>1, PutStores
    <3> QED BY <2>2, <3>1, <3>2, <3>3, PutStores, VerifiedStays
  <2> QED BY <1>1, <2>1, <2>2
<1>3. file' # file => /\ run = "await" /\ call.kind \in {"erase", "put"}
                      /\ Busy(res) /\ res.state \notin {"active", "deleted"}
                      /\ \/ res.job.stage = "erase"
                         \/ res.job.stage = "restore-write" /\ ~(res.job.ix <= NTables)
  <2>1. file' # file => run = "await" /\ call.kind \in {"erase", "put"}
    BY <1>1, <1>2 DEF NoEffect
  <2> QED BY <2>1, CallOut, Sizes DEF Inv, CallFits, LiveCall
<1>4. TypeOK'
  <2>1. NoCall \in CallSet BY Sizes, LifecycleAssumption DEF NoCall, CallSet, Parts
  <2> QED BY <1>1, <1>2, <2>1 DEF Inv, TypeOK
<1>5. JobFits(res, receipts)' BY <1>1 DEF Inv, JobFits
<1>6. CallFits'
  <2>1. NoCall.kind = "none" /\ NoCall.id = 0 BY DEF NoCall
  <2>2. res.ids \in Nat BY DEF Inv, TypeOK
  <2> QED BY <1>1, <2>1, <2>2 DEF CallFits, LiveCall
<1>7. Stored'
  <2>1. \A i \in receipts : i \in JobIds BY DEF Inv, TypeOK
  <2> QED BY <1>1, <1>2, <2>1 DEF Inv, Stored
<1>8. Progress'
  <2>1. Busy(res) => res.job.id \in JobIds
    BY DEF Inv, TypeOK, JobSet, JobFits, Busy, JobIds
  <2>2. Tables \subseteq Parts /\ FilePart \in Parts BY Sizes
  <2> QED BY <1>1, <1>2, <2>1, <2>2 DEF Inv, Progress, Busy
<1>9. ContentFits'
  <2>1. file' # 0 => rows[Attachments] # 0
    BY <1>2 DEF Inv, ContentFits, CallFits
  <2>2. res.job.stage \in Restoring => archive'[res.job.from] = archive[res.job.from]
    BY <1>2 DEF Inv, JobFits
  <2>3. file' = file => Live' = Live BY <1>1 DEF Live
  <2>4. CASE file' = file
    BY <1>1, <2>1, <2>2, <2>3, <2>4 DEF Inv, ContentFits, Busy, Restoring
  <2>5. CASE file' # file
    BY <1>1, <1>3, <2>1, <2>2, <2>5 DEF Inv, ContentFits, Busy, Saving, Restoring
  <2> QED BY <2>4, <2>5
<1>10. WriterFits' BY <1>1 DEF Inv, WriterFits
<1> QED BY <1>4, <1>5, <1>6, <1>7, <1>8, <1>9, <1>10 DEF Inv

\* A restored file is read, then put.
LEMMA StepPutKeeps == ASSUME Inv, StepPut PROVE Inv'
<1>1. /\ UNCHANGED <<rows, file, archive, receipts, alarm, writer, edits, frozen, committed>>
      /\ run = "await" /\ IsLive /\ call.kind = "read" /\ call.part = FilePart
      /\ res.job.stage = "restore-write" /\ call \in CallSet
  BY DEF StepPut, Inv, TypeOK
<1>2. /\ res.job.ix = FilePart /\ call.val = archive[res.job.from][FilePart]
      /\ Busy(res) /\ res.job.from \in receipts /\ res.job.from \in JobIds
  BY <1>1, CallOut DEF Inv, CallFits, LiveCall, JobFits, Restoring, TypeOK
<1>3. Live' = Live BY <1>1 DEF Live
<1>4. CASE /\ call.val # 0 /\ call' = [call EXCEPT !.kind = "put"] /\ UNCHANGED <<res, run>>
  <2>1. /\ call'.kind = "put" /\ call'.id = call.id /\ call'.part = call.part
        /\ call'.val = call.val /\ call' \in CallSet
    BY <1>1, <1>4 DEF CallSet
  <2>2. rows[Attachments] # 0
    <3>1. rows[Attachments] = archive[res.job.from][Attachments]
      BY <1>1, <1>2, Sizes DEF Inv, ContentFits
    <3>2. archive[res.job.from][FilePart] = archive[res.job.from][Attachments]
      BY <1>2 DEF Inv, Stored
    <3> QED BY <1>2, <1>4, <3>1, <3>2
  <2>3. TypeOK' BY <1>1, <1>4, <2>1 DEF Inv, TypeOK
  <2>4. CallFits'
    <3>1. LiveCall(call, res.job)' BY <1>1, <1>2, <1>4, <2>1 DEF LiveCall
    <3> QED BY <1>1, <1>4, <2>1, <2>2, <3>1 DEF Inv, CallFits, IsLive
  <2>5. JobFits(res, receipts)' BY <1>1, <1>4 DEF Inv, JobFits
  <2>6. Stored' /\ Progress' BY <1>1, <1>4 DEF Inv, Stored, Progress, Busy
  <2>7. ContentFits' /\ WriterFits'
    BY <1>1, <1>3, <1>4 DEF Inv, ContentFits, WriterFits, Busy
  <2> QED BY <2>3, <2>4, <2>5, <2>6, <2>7 DEF Inv
<1>5. CASE NextPart /\ call' = NoCall /\ run' = "more"
  <2>1. res' = [res EXCEPT !.job = [res.job EXCEPT !.ix = res.job.ix + 1]]
    BY <1>5 DEF NextPart
  <2>2. res \in Records /\ res.job \in JobSet BY DEF Inv, TypeOK, Records
  <2>3. [res.job EXCEPT !.ix = res.job.ix + 1] \in JobSet
    BY <1>2, <2>2, Sizes DEF JobSet
  <2>4. res' \in Records BY <2>1, <2>2, <2>3 DEF Records
  <2>5. /\ res'.job.id = res.job.id /\ res'.job.action = res.job.action
        /\ res'.job.stage = res.job.stage /\ res'.job.from = res.job.from
        /\ res'.job.ix = FilePart + 1
        /\ res'.ids = res.ids /\ res'.state = res.state
    BY <1>2, <2>1, <2>2 DEF Records, JobSet
  <2>6. NoCall.id = 0 /\ NoCall.kind = "none" /\ NoCall \in CallSet /\ NoJob.id = 0
    BY Sizes, LifecycleAssumption DEF NoCall, CallSet, Parts, NoJob
  <2>7. res.job.id # 0 BY <1>2 DEF Inv, JobFits, Busy
  <2>8. Busy(res') BY <2>5, <2>6, <2>7 DEF Busy
  <2>9. TypeOK' BY <1>1, <1>5, <2>4, <2>6 DEF Inv, TypeOK, Records, RunPcs
  <2>10. JobFits(res, receipts)' BY <1>1, <1>2, <2>5, <2>8 DEF Inv, JobFits, Busy
  <2>11. CallFits'
    <3>1. res.ids \in Nat BY <2>2 DEF Records
    <3> QED BY <1>5, <2>5, <2>6, <3>1 DEF CallFits, LiveCall
  <2>12. Stored' BY <1>1, <2>5 DEF Inv, Stored
  <2>13. Progress' BY <1>1, <2>5 DEF Progress
  <2>14. ContentFits'
    <3>1. res.state \notin {"active", "deleted"} BY <1>2 DEF Inv, JobFits, Busy
    <3>2. rows[Attachments] = archive[res.job.from][Attachments]
      BY <1>1, <1>2, Sizes DEF Inv, ContentFits
    <3> QED BY <1>1, <2>5, <3>1, <3>2, Sizes DEF Inv, ContentFits, Saving
  <2>15. WriterFits' BY <1>1 DEF Inv, WriterFits
  <2> QED BY <2>9, <2>10, <2>11, <2>12, <2>13, <2>14, <2>15 DEF Inv
<1> QED BY <1>4, <1>5 DEF StepPut

-----------------------------------------------------------------------------
(***************************************************************************)
(* The steps that record progress.                                         *)
(***************************************************************************)

\* The same job in another stage, or at another part.
Moved(stage, ix) ==
  /\ res' \in Records /\ res'.job # NoJob /\ res'.job.id = res.job.id
  /\ res'.job.action = res.job.action /\ res'.job.from = res.job.from
  /\ res'.job.stage = stage /\ res'.job.ix = ix
  /\ res'.ids = res.ids /\ res'.state = res.state

LEMMA JobMoves ==
  ASSUME Inv, Busy(res), NEW stage \in Stages, NEW ix \in 1 .. (FilePart + 1),
         res' = [res EXCEPT !.job = [res.job EXCEPT !.stage = stage, !.ix = ix]]
  PROVE  Moved(stage, ix)
<1>1. res \in Records /\ res.job \in JobSet /\ res.job.id # 0 /\ NoJob.id = 0
  BY DEF Inv, TypeOK, Records, JobFits, Busy, NoJob
<1>2. [res.job EXCEPT !.stage = stage, !.ix = ix] \in JobSet BY <1>1 DEF JobSet
<1>3. res' \in Records BY <1>1, <1>2 DEF Records
<1>4. /\ res'.job.id = res.job.id /\ res'.job.action = res.job.action
      /\ res'.job.stage = stage /\ res'.job.from = res.job.from /\ res'.job.ix = ix
      /\ res'.ids = res.ids /\ res'.state = res.state
  BY <1>1 DEF Records, JobSet
<1> QED BY <1>1, <1>3, <1>4 DEF Moved

LEMMA NextPartMoves ==
  ASSUME Inv, Busy(res), NextPart, res.job.ix + 1 \in 1 .. (FilePart + 1)
  PROVE  Moved(res.job.stage, res.job.ix + 1)
<1>1. res \in Records /\ res.job \in JobSet BY DEF Inv, TypeOK, Records
<1>2. res.job.stage \in Stages BY <1>1 DEF JobSet
<1>3. res' = [res EXCEPT !.job = [res.job EXCEPT !.ix = res.job.ix + 1]]
  BY DEF NextPart
<1>4. [res.job EXCEPT !.ix = res.job.ix + 1] =
        [res.job EXCEPT !.stage = res.job.stage, !.ix = res.job.ix + 1]
  BY <1>1 DEF JobSet
<1> QED BY <1>2, <1>3, <1>4, JobMoves

LEMMA Ended ==
  ASSUME Inv, NEW st \in {"active", "deleted"}, res' = Finished(res, st)
  PROVE  /\ res' \in Records /\ res'.job = NoJob /\ res'.ids = res.ids /\ res'.state = st
         /\ NoJob.id = 0 /\ NoJob.stage = "snapshot" /\ NoJob.action = "archive"
<1>1. res \in Records /\ (res.paused \/ res.job.action = "restore") \in BOOLEAN
  BY DEF Inv, TypeOK, Records
<1>2. NoJob \in JobSet
  BY Sizes, LifecycleAssumption DEF NoJob, JobSet, Actions, Stages
<1>3. st \in States BY DEF States
<1>4. res' = [res EXCEPT !.state = st, !.job = NoJob,
                         !.paused = res.paused \/ res.job.action = "restore"]
  BY DEF Finished
<1>5. res' \in Records BY <1>1, <1>2, <1>3, <1>4 DEF Records
<1>6. res'.job = NoJob /\ res'.ids = res.ids /\ res'.state = st BY <1>1, <1>4 DEF Records
<1> QED BY <1>5, <1>6 DEF NoJob

\* A step that leaves no call out needs four of the parts only.
LEMMA AtRest ==
  ASSUME Inv, call' = NoCall, run' \in RunPcs \ {"await"}, alarm' \in BOOLEAN, res' \in Records,
         res'.ids = res.ids,
         rows' \in [Tables -> Version], file' \in Version, archive' \in [JobIds -> Content],
         receipts' \in SUBSET JobIds, UNCHANGED <<writer, edits, frozen>>, committed' \in Content,
         JobFits(res, receipts)', Stored', Progress', ContentFits'
  PROVE  Inv'
<1>1. NoCall.kind = "none" /\ NoCall.id = 0 /\ NoCall \in CallSet
  BY Sizes, LifecycleAssumption DEF NoCall, CallSet, Parts
<1>2. TypeOK' BY <1>1 DEF Inv, TypeOK, Records
<1>3. res.ids \in Nat BY DEF Inv, TypeOK
<1>4. CallFits' BY <1>1, <1>3 DEF CallFits, LiveCall
<1>5. WriterFits' BY DEF Inv, WriterFits
<1> QED BY <1>2, <1>4, <1>5 DEF Inv

\* An object of the backup is there, and the job counts it.
LEMMA SaveDone == ASSUME Inv, StepDone, call.kind = "save" PROVE Inv'
<1>1. /\ run = "await" /\ IsLive /\ StorePut /\ NextPart /\ call' = NoCall /\ run' = "more"
      /\ UNCHANGED <<rows, receipts, file, alarm, writer, edits, frozen, committed>>
  BY DEF StepDone, Effect
<1>2. /\ \/ res.job.stage = "snapshot" /\ res.job.ix <= NTables /\ call.part = res.job.ix
         \/ res.job.stage = "files" /\ res.job.ix = 1 /\ call.part = FilePart
      /\ Busy(res) /\ call.id = res.job.id /\ res.job.id \in JobIds
      /\ res.state \notin {"active", "deleted"}
  BY <1>1, CallOut DEF Inv, CallFits, LiveCall, IsLive
<1>3. res.job.ix \in 1 .. (FilePart + 1) BY DEF Inv, TypeOK, JobSet
<1>4. res.job.ix + 1 \in 1 .. (FilePart + 1) BY <1>2, <1>3, Sizes
<1>5. Moved(res.job.stage, res.job.ix + 1) BY <1>1, <1>2, <1>4, NextPartMoves
<1>6. /\ archive' \in [JobIds -> Content]
      /\ \A i \in receipts : archive'[i] = archive[i]
      /\ \A i \in JobIds : i > res.ids => archive'[i] = Nothing
      /\ \A i \in JobIds : \A p \in Parts : archive'[i][p] \in {0, frozen[i][p]}
      /\ \A p \in Parts : archive[res.job.id][p] = frozen[res.job.id][p] =>
                            archive'[res.job.id][p] = frozen[res.job.id][p]
      /\ archive'[res.job.id][call.part] = frozen[res.job.id][call.part]
  BY <1>1, <1>2, PutStores, VerifiedStays
<1>7. JobFits(res, receipts)' BY <1>1, <1>2, <1>5 DEF Inv, JobFits, Moved, Busy
<1>8. Stored'
  <2>1. \A i \in receipts : i \in JobIds BY DEF Inv, TypeOK
  <2> QED BY <1>1, <1>5, <1>6, <2>1 DEF Inv, Stored, Moved
<1>9. Progress'
  <2>1. CASE res.job.stage = "snapshot"
    <3>1. ASSUME NEW p \in Parts, p < res.job.ix + 1
          PROVE  archive'[res.job.id][p] = frozen[res.job.id][p]
      <4>1. p < res.job.ix \/ p = call.part
        BY <1>2, <1>3, <2>1, <3>1, Sizes DEF Parts
      <4> QED BY <1>2, <1>6, <2>1, <4>1 DEF Inv, Progress
    <3> QED BY <1>1, <1>5, <2>1, <3>1 DEF Progress, Moved
  <2>2. CASE res.job.stage = "files"
    <3>1. \A p \in Tables : archive[res.job.id][p] = frozen[res.job.id][p]
      BY <1>2, <2>2 DEF Inv, Progress
    <3>2. \A p \in Tables : archive'[res.job.id][p] = frozen[res.job.id][p]
      BY <1>6, <3>1, Sizes
    <3> QED BY <1>1, <1>2, <1>5, <1>6, <2>2, <3>2 DEF Progress, Moved
  <2> QED BY <1>2, <2>1, <2>2
<1>10. ContentFits'
  <2>1. Live' = Live BY <1>1 DEF Live
  <2> QED BY <1>1, <1>2, <1>5, <2>1 DEF Inv, ContentFits, Moved, Busy, Saving
<1>11. res' \in Records /\ res'.ids = res.ids BY <1>5 DEF Moved
<1>12. run' \in RunPcs \ {"await"} BY <1>1 DEF RunPcs
<1> QED BY <1>1, <1>6, <1>7, <1>8, <1>9, <1>10, <1>11, <1>12, AtRest DEF Inv, TypeOK

\* The manifest is verified: the backup is complete.
LEMMA ManifestDone == ASSUME Inv, StepDone, call.kind = "manifest" PROVE Inv'
<1>1. /\ run = "await" /\ IsLive /\ call' = NoCall /\ run' = "more"
      /\ UNCHANGED <<rows, file, archive, alarm, writer, edits, frozen, committed>>
      /\ receipts' = receipts \cup {res.job.id}
      /\ res' = IF res.job.action = "archive" THEN Finished(res, "active")
                ELSE [res EXCEPT !.job.stage = "erase", !.job.ix = 1]
  BY DEF StepDone, Effect, StorePut
<1>2. /\ res.job.stage = "manifest" /\ Busy(res) /\ res.job.id \in JobIds
      /\ res.state \notin {"active", "deleted"} /\ res.job.id <= res.ids
      /\ res.job.action \in {"archive", "archive-delete"}
  BY <1>1, CallOut DEF Inv, CallFits, LiveCall, IsLive, JobFits, Saving
<1>3. archive[res.job.id] = frozen[res.job.id]
  <2>1. \A p \in Parts : archive[res.job.id][p] = frozen[res.job.id][p]
    BY <1>2, Sizes DEF Inv, Progress
  <2>2. archive[res.job.id] \in Content /\ frozen[res.job.id] \in Content
    BY <1>2 DEF Inv, TypeOK
  <2> QED BY <2>1, <2>2 DEF Content
<1>4. /\ Live = committed /\ file = rows[Attachments] /\ Live = frozen[res.job.id]
  BY <1>2 DEF Inv, ContentFits, Saving
<1>5. frozen[res.job.id][FilePart] = frozen[res.job.id][Attachments]
  BY <1>4, Sizes DEF Live
<1>6. Live' = Live BY <1>1 DEF Live
<1>7. receipts' \in SUBSET JobIds BY <1>1, <1>2 DEF Inv, TypeOK
<1>8. run' \in RunPcs \ {"await"} BY <1>1 DEF RunPcs
<1>9. ASSUME res'.ids = res.ids PROVE Stored'
  BY <1>1, <1>2, <1>3, <1>5, <1>9 DEF Inv, Stored
<1>10. CASE res.job.action = "archive"
  <2>1. /\ res' \in Records /\ res'.job = NoJob /\ res'.ids = res.ids /\ res'.state = "active"
        /\ NoJob.id = 0 /\ NoJob.stage = "snapshot" /\ NoJob.action = "archive"
    BY <1>1, <1>10, Ended
  <2>2. res.ids \in Nat BY DEF Inv, TypeOK
  <2>3. JobFits(res, receipts)' BY <2>1, <2>2 DEF JobFits, Saving, Restoring
  <2>4. Progress' BY <2>1 DEF Progress, Busy
  <2>5. ContentFits'
    BY <1>1, <1>4, <1>6, <2>1 DEF Inv, ContentFits, Busy
  <2> QED BY <1>1, <1>7, <1>8, <1>9, <2>1, <2>3, <2>4, <2>5, AtRest DEF Inv, TypeOK
<1>11. CASE res.job.action = "archive-delete"
  <2>1. Moved("erase", 1)
    <3>1. "erase" \in Stages /\ 1 \in 1 .. (FilePart + 1) BY Sizes DEF Stages
    <3> QED BY <1>1, <1>2, <1>11, <3>1, JobMoves
  <2>2. JobFits(res, receipts)'
    BY <1>1, <1>2, <1>11, <2>1 DEF Inv, JobFits, Moved, Busy, Saving, Restoring
  <2>3. Progress' BY <2>1 DEF Progress, Moved
  <2>4. ContentFits'
    BY <1>1, <1>2, <1>6, <2>1 DEF Inv, ContentFits, Moved, Saving
  <2>5. res' \in Records /\ res'.ids = res.ids BY <2>1 DEF Moved
  <2> QED BY <1>1, <1>7, <1>8, <1>9, <2>2, <2>3, <2>4, <2>5, AtRest DEF Inv, TypeOK
<1> QED BY <1>2, <1>10, <1>11

\* The deleted attachment and its row go together.
LEMMA EraseDone == ASSUME Inv, StepDone, call.kind = "erase" PROVE Inv'
<1>1. /\ run = "await" /\ IsLive /\ call' = NoCall /\ run' = "more"
      /\ UNCHANGED <<res, receipts, archive, alarm, writer, edits, frozen, committed>>
      /\ rows' = [rows EXCEPT ![Attachments] = 0] /\ file' = 0
  BY DEF StepDone, Effect, StorePut
<1>2. /\ res.job.stage = "erase" /\ Busy(res) /\ res.state \notin {"active", "deleted"}
      /\ res \in Records
  BY <1>1, CallOut DEF Inv, CallFits, LiveCall, TypeOK, Records
<1>3. rows' \in [Tables -> Version] /\ file' \in Version
  BY <1>1, Sizes DEF Inv, TypeOK
<1>4. JobFits(res, receipts)' BY <1>1 DEF Inv, JobFits
<1>5. Stored' /\ Progress' BY <1>1 DEF Inv, Stored, Progress, Busy
<1>6. ContentFits' BY <1>1, <1>2 DEF ContentFits, Saving
<1>7. run' \in RunPcs \ {"await"} BY <1>1 DEF RunPcs
<1> QED BY <1>1, <1>2, <1>3, <1>4, <1>5, <1>6, <1>7, AtRest DEF Inv, TypeOK

\* A backup object was read and used, or the restored file is back.
LEMMA ReadDone == ASSUME Inv, StepDone, call.kind \in {"read", "put"} PROVE Inv'
<1>1. /\ run = "await" /\ IsLive /\ call' = NoCall /\ run' = "more" /\ NextPart
      /\ UNCHANGED <<receipts, archive, alarm, writer, edits, frozen, committed>>
  BY DEF StepDone, Effect, StorePut
<1>2. /\ Busy(res) /\ res.state \notin {"active", "deleted"} /\ res.job.ix <= FilePart
      /\ call.part = res.job.ix /\ call.part \in Parts /\ call.val \in Version
      /\ res.job.stage \in Restoring /\ res.job.from \in receipts
      /\ call.val = archive[res.job.from][call.part]
      /\ call.kind = "put" => res.job.stage = "restore-write" /\ call.part = FilePart
  <2>1. LiveCall(call, res.job) BY <1>1 DEF Inv, CallFits
  <2>2. /\ Busy(res) /\ res.state \notin {"active", "deleted"} /\ call.part \in Parts
        /\ call.val \in Version
    BY <1>1, CallOut
  <2>3. /\ res.job.ix <= FilePart /\ call.part = res.job.ix /\ res.job.stage \in Restoring
        /\ call.val = archive[res.job.from][call.part]
        /\ call.kind = "put" => res.job.stage = "restore-write" /\ call.part = FilePart
    BY <2>1, Sizes DEF LiveCall, Restoring
  <2>4. res.job.from \in receipts BY <2>3 DEF Inv, JobFits
  <2> QED BY <2>2, <2>3, <2>4
<1>13. res.job.ix \in 1 .. (FilePart + 1) BY DEF Inv, TypeOK, JobSet
<1>3. res.job.ix + 1 \in 1 .. (FilePart + 1) BY <1>2, <1>13, Sizes
<1>4. Moved(res.job.stage, res.job.ix + 1) BY <1>1, <1>2, <1>3, NextPartMoves
<1>5. \/ call.kind = "read" /\ res.job.stage = "restore-verify" /\ UNCHANGED <<rows, file>>
      \/ /\ call.kind = "read" /\ res.job.stage = "restore-write" /\ call.part # FilePart
         /\ rows' = [rows EXCEPT ![call.part] = call.val] /\ UNCHANGED file
      \/ /\ call.kind = "read" /\ res.job.stage = "restore-check"
         /\ Live[call.part] = call.val /\ UNCHANGED <<rows, file>>
      \/ /\ call.kind = "put" /\ res.job.stage = "restore-write" /\ rows[Attachments] # 0
         /\ file' = call.val /\ UNCHANGED rows
  BY <1>2 DEF StepDone, Effect, Inv, CallFits
<1>6. rows' \in [Tables -> Version] /\ file' \in Version
  <2>1. rows \in [Tables -> Version] /\ file \in Version BY DEF Inv, TypeOK
  <2> QED BY <1>2, <1>5, <2>1
<1>7. JobFits(res, receipts)' BY <1>1, <1>2, <1>4 DEF Inv, JobFits, Moved, Busy
<1>8. Stored' BY <1>1, <1>4 DEF Inv, Stored, Moved
<1>9. Progress' BY <1>2, <1>4 DEF Progress, Moved, Restoring
<1>10. ContentFits'
  <2>1. rows \in [Tables -> Version] BY DEF Inv, TypeOK
  <2>2. res.job.from \in JobIds /\ archive[res.job.from] = frozen[res.job.from]
    BY <1>2 DEF Inv, TypeOK, Stored
  <2>3. CASE res.job.stage = "restore-verify"
    <3>1. UNCHANGED <<rows, file>> BY <1>5, <2>3
    <3>2. Live' = Live BY <3>1 DEF Live
    <3> QED BY <1>1, <1>2, <1>4, <2>3, <3>1, <3>2 DEF Inv, ContentFits, Moved, Saving
  <2>4. CASE res.job.stage = "restore-check"
    <3>1. UNCHANGED <<rows, file>> /\ Live[call.part] = call.val BY <1>2, <1>5, <2>4
    <3>2. Live' = Live BY <3>1 DEF Live
    <3>3. ASSUME NEW p \in Parts, p < res.job.ix + 1
          PROVE  Live[p] = archive[res.job.from][p]
      <4>1. p < res.job.ix \/ p = call.part BY <1>2, <1>3, <3>3, Sizes DEF Parts
      <4> QED BY <1>2, <2>4, <3>1, <4>1 DEF Inv, ContentFits
    <3> QED
      BY <1>1, <1>2, <1>4, <2>4, <3>1, <3>2, <3>3 DEF Inv, ContentFits, Moved, Saving
  <2>5. CASE res.job.stage = "restore-write"
    <3>1. file' # 0 => rows'[Attachments] # 0
      <4>1. CASE call.kind = "put" BY <1>5, <4>1
      <4>2. CASE call.kind = "read" /\ call.part # Attachments
        BY <1>5, <2>1, <2>5, <4>2, Sizes DEF Inv, ContentFits
      <4>3. CASE call.kind = "read" /\ call.part = Attachments
        <5>1. file = 0 BY <1>2, <2>5, <4>3, Sizes DEF Inv, ContentFits
        <5>2. UNCHANGED file /\ rows' = [rows EXCEPT ![call.part] = call.val]
          BY <1>5, <2>5, <4>3
        <5> QED BY <5>1, <5>2
      <4> QED BY <1>5, <4>1, <4>2, <4>3
    <3>2. res.job.ix + 1 > NTables => rows'[Attachments] = archive[res.job.from][Attachments]
      <4>1. CASE res.job.ix = Attachments
        <5>1. rows' = [rows EXCEPT ![Attachments] = archive[res.job.from][Attachments]]
          BY <1>2, <1>5, <2>5, <4>1, Sizes
        <5> QED BY <2>1, <5>1, Sizes
      <4>2. CASE res.job.ix > NTables
        <5>1. rows[Attachments] = archive[res.job.from][Attachments]
          BY <2>5, <4>2 DEF Inv, ContentFits
        <5>2. rows'[Attachments] = rows[Attachments]
          BY <1>2, <1>5, <2>1, <2>5, <4>2, Sizes
        <5> QED BY <5>1, <5>2
      <4> QED BY <1>13, <4>1, <4>2, Sizes
    <3>3. res.job.ix + 1 <= NTables => file' = 0
      <4>1. res.job.ix + 1 <= NTables => call.part # FilePart /\ res.job.ix <= NTables
        BY <1>2, <1>13, Sizes
      <4> QED BY <1>2, <1>5, <2>5, <4>1 DEF Inv, ContentFits
    <3> QED BY <1>1, <1>2, <1>4, <2>5, <3>1, <3>2, <3>3 DEF ContentFits, Moved, Saving
  <2> QED BY <1>2, <2>3, <2>4, <2>5 DEF Restoring
<1>11. res' \in Records /\ res'.ids = res.ids BY <1>4 DEF Moved
<1>12. run' \in RunPcs \ {"await"} BY <1>1 DEF RunPcs
<1> QED BY <1>1, <1>6, <1>7, <1>8, <1>9, <1>10, <1>11, <1>12, AtRest DEF Inv, TypeOK

\* What a step that starts a call leaves: the object as it was, and the call.
LEMMA CallKeeps ==
  ASSUME Inv, Busy(res), NEW kind \in {"save", "manifest", "erase", "read"},
         NEW part \in Parts, NEW val \in Version, Calls(kind, part, val),
         LiveCall([id |-> res.job.id, kind |-> kind, part |-> part, val |-> val], res.job),
         kind = "save" => val = frozen[res.job.id][part],
         UNCHANGED <<archive, receipts, alarm, writer, edits, frozen, committed>>
  PROVE  Inv'
<1> DEFINE c == [id |-> res.job.id, kind |-> kind, part |-> part, val |-> val]
<1>1. /\ UNCHANGED <<res, rows, file>> /\ run' = "await" /\ call' = c
  BY DEF Calls
<1>2. res.job.id \in 0 .. MaxJobs /\ res.job.id # 0 /\ res.job.id <= res.ids
  BY DEF Inv, TypeOK, JobSet, JobFits, Busy
<1>3. c \in CallSet BY <1>2 DEF CallSet
<1>4. c.id = res.job.id /\ c.kind = kind /\ c.part = part /\ c.val = val OBVIOUS
<1> HIDE DEF c
<1>5. Live' = Live BY <1>1 DEF Live
<1>6. TypeOK' BY <1>1, <1>3 DEF Inv, TypeOK, RunPcs
<1>7. JobFits(res, receipts)' BY <1>1 DEF Inv, JobFits
<1>8. CallFits'
  <2>1. LiveCall(c, res.job) BY DEF c
  <2>2. LiveCall(call, res.job)' BY <1>1, <2>1 DEF LiveCall
  <2> QED BY <1>1, <1>2, <1>4, <2>2 DEF CallFits, IsLive
<1>9. Stored' /\ Progress' BY <1>1 DEF Inv, Stored, Progress, Busy
<1>10. ContentFits' /\ WriterFits' BY <1>1, <1>5 DEF Inv, ContentFits, WriterFits, Busy
<1> QED BY <1>6, <1>7, <1>8, <1>9, <1>10 DEF Inv

LEMMA StageMoves ==
  ASSUME Inv, Busy(res), NEW stage \in Stages, MoveTo(stage)
  PROVE  Moved(stage, 1) /\ run' = "more" /\ UNCHANGED <<file, call>>
<1>1. 1 \in 1 .. (FilePart + 1) BY Sizes
<1> QED BY <1>1, JobMoves DEF MoveTo

LEMMA StepCallKeeps == ASSUME Inv, StepCall PROVE Inv'
<1> DEFINE j == res.job
<1>1. /\ run # "await" /\ Busy(res) /\ call = NoCall /\ res.state \notin {"active", "deleted"}
      /\ UNCHANGED <<archive, receipts, alarm, writer, edits, frozen>>
      /\ committed' = IF res'.state = "active" THEN frozen[j.from] ELSE committed
      /\ res.state # "active"
  BY DEF StepCall, Inv, CallFits, JobFits, Busy
<1>2. /\ j \in JobSet /\ j.ix \in 1 .. (FilePart + 1) /\ j.id \in JobIds /\ j.stage \in Stages
      /\ rows \in [Tables -> Version] /\ file \in Version /\ res \in Records
      /\ archive \in [JobIds -> Content] /\ committed \in Content
      /\ frozen \in [JobIds -> Content]
  BY <1>1 DEF Inv, TypeOK, Records, JobSet, JobFits, Busy, JobIds
<1>3. ASSUME UNCHANGED res PROVE UNCHANGED committed BY <1>1, <1>3
<1>4. ASSUME NEW kind, NEW part, NEW val, Calls(kind, part, val) PROVE UNCHANGED committed
  BY <1>3, <1>4 DEF Calls
<1>5. ASSUME NEW stage, NEW ix, Moved(stage, ix), run' = "more", UNCHANGED <<file, call>>,
             rows' \in [Tables -> Version], JobFits(res, receipts)', Progress', ContentFits'
      PROVE  Inv'
  <2>1. /\ res' \in Records /\ res'.ids = res.ids /\ UNCHANGED committed
        /\ run' \in RunPcs \ {"await"}
    BY <1>1, <1>5 DEF Moved, RunPcs
  <2>2. Stored' BY <1>1, <2>1 DEF Inv, Stored
  <2> QED BY <1>1, <1>2, <1>5, <2>1, <2>2, AtRest DEF Inv, TypeOK
<1>6. CASE j.stage = "snapshot" /\ j.ix <= NTables /\ Calls("save", j.ix, SnapshotRows(j.ix))
  <2>1. j.ix \in Tables /\ j.ix \in Parts /\ j.ix # FilePart
    BY <1>2, <1>6, Sizes DEF Tables
  <2>2. rows[j.ix] = frozen[j.id][j.ix]
    BY <1>1, <1>6, <2>1 DEF Inv, ContentFits, Live, Saving
  <2>3. LiveCall([id |-> j.id, kind |-> "save", part |-> j.ix, val |-> rows[j.ix]], j)
    BY <1>6 DEF LiveCall
  <2> QED BY <1>1, <1>2, <1>4, <1>6, <2>1, <2>2, <2>3, CallKeeps DEF SnapshotRows
<1>7. CASE j.stage = "snapshot" /\ j.ix > NTables /\ MoveTo("files") /\ UNCHANGED rows
  <2>1. Moved("files", 1) /\ run' = "more" /\ UNCHANGED <<file, call>>
    BY <1>1, <1>7, StageMoves DEF Stages
  <2>2. JobFits(res, receipts)'
    BY <1>1, <1>7, <2>1 DEF Inv, JobFits, Moved, Busy, Saving, Restoring
  <2>3. Progress'
    <3>1. ASSUME NEW p \in Tables PROVE archive[j.id][p] = frozen[j.id][p]
      <4>1. p \in Parts /\ p < j.ix BY <1>2, <1>7, Sizes DEF Tables
      <4> QED BY <1>1, <1>7, <4>1 DEF Inv, Progress
    <3> QED BY <1>1, <2>1, <3>1 DEF Progress, Moved
  <2>4. Live' = Live BY <1>7, <2>1 DEF Live
  <2>5. ContentFits'
    BY <1>1, <1>7, <2>1, <2>4 DEF Inv, ContentFits, Moved, Busy, Saving
  <2> QED BY <1>2, <1>5, <1>7, <2>1, <2>2, <2>3, <2>5
<1>8. CASE j.stage = "files" /\ j.ix = 1 /\ Calls("save", FilePart, file)
  <2>1. file = frozen[j.id][FilePart]
    BY <1>1, <1>8, Sizes DEF Inv, ContentFits, Live, Saving
  <2>2. LiveCall([id |-> j.id, kind |-> "save", part |-> FilePart, val |-> file], j)
    BY <1>8 DEF LiveCall
  <2> QED BY <1>1, <1>2, <1>4, <1>8, <2>1, <2>2, CallKeeps, Sizes
<1>9. CASE /\ j.stage = "files" /\ (rows[Attachments] = 0 \/ j.ix > 1)
           /\ MoveTo("manifest") /\ UNCHANGED rows
  <2>1. Moved("manifest", 1) /\ run' = "more" /\ UNCHANGED <<file, call>>
    BY <1>1, <1>9, StageMoves DEF Stages
  <2>2. JobFits(res, receipts)'
    BY <1>1, <1>9, <2>1 DEF Inv, JobFits, Moved, Busy, Saving, Restoring
  <2>3. archive[j.id][FilePart] = frozen[j.id][FilePart]
    <3>1. CASE rows[Attachments] = 0
      <4>1. frozen[j.id][FilePart] = 0
        BY <1>1, <1>9, <3>1, Sizes DEF Inv, ContentFits, Live, Saving
      <4> QED BY <1>2, <4>1, Sizes DEF Inv, Stored
    <3>2. CASE j.ix > 1 BY <1>1, <1>9, <3>2 DEF Inv, Progress
    <3> QED BY <1>9, <3>1, <3>2
  <2>4. Progress' BY <1>1, <1>9, <2>1, <2>3 DEF Inv, Progress, Moved
  <2>5. Live' = Live BY <1>9, <2>1 DEF Live
  <2>6. ContentFits'
    BY <1>1, <1>9, <2>1, <2>5 DEF Inv, ContentFits, Moved, Busy, Saving
  <2> QED BY <1>2, <1>5, <1>9, <2>1, <2>2, <2>4, <2>6
<1>10. CASE j.stage = "manifest" /\ Calls("manifest", 1, 0)
  <2>1. LiveCall([id |-> j.id, kind |-> "manifest", part |-> 1, val |-> 0], j)
    BY <1>10 DEF LiveCall
  <2> QED BY <1>1, <1>4, <1>10, <2>1, CallKeeps, Sizes
<1>11. CASE j.stage = "erase" /\ rows[Attachments] # 0 /\ Calls("erase", FilePart, 0)
  <2>1. LiveCall([id |-> j.id, kind |-> "erase", part |-> FilePart, val |-> 0], j)
    BY <1>11 DEF LiveCall
  <2> QED BY <1>1, <1>4, <1>11, <2>1, CallKeeps, Sizes
<1>12. CASE /\ j.stage = "erase" /\ rows[Attachments] = 0
            /\ res' = Finished(res, "deleted") /\ ClearContent
            /\ run' = "more" /\ UNCHANGED <<file, call>>
  <2>1. /\ res' \in Records /\ res'.job = NoJob /\ res'.ids = res.ids /\ res'.state = "deleted"
        /\ NoJob.id = 0 /\ NoJob.stage = "snapshot" /\ NoJob.action = "archive"
    BY <1>12, Ended
  <2>2. file' = 0 /\ rows' = [t \in Tables |-> 0]
    BY <1>12 DEF Inv, ContentFits, ClearContent
  <2>3. Live' = Nothing
    <3>1. \A p \in Parts : p # FilePart => p \in Tables BY Sizes
    <3> QED BY <2>2, <3>1 DEF Live, Nothing
  <2>4. res.ids \in Nat BY <1>2 DEF Records
  <2>5. JobFits(res, receipts)' BY <2>1, <2>4 DEF JobFits, Saving, Restoring
  <2>6. Progress' BY <2>1 DEF Progress, Busy
  <2>7. ContentFits' BY <2>1, <2>2, <2>3 DEF ContentFits, Busy
  <2>8. Stored' BY <1>1, <2>1 DEF Inv, Stored
  <2>9. rows' \in [Tables -> Version] /\ UNCHANGED committed
    BY <1>1, <2>1, <2>2, Sizes
  <2>10. run' \in RunPcs \ {"await"} BY <1>12 DEF RunPcs
  <2> QED BY <1>1, <1>2, <1>12, <2>1, <2>5, <2>6, <2>7, <2>8, <2>9, <2>10, AtRest
          DEF Inv, TypeOK
<1>13. CASE /\ j.stage \in Restoring /\ j.ix <= FilePart
            /\ Calls("read", j.ix, Backup(j.ix))
  <2>1. j.ix \in Parts BY <1>2, <1>13, Sizes DEF Parts
  <2>2. j.from \in JobIds BY <1>13 DEF Inv, JobFits, TypeOK
  <2>3. Backup(j.ix) \in Version BY <1>2, <2>1, <2>2 DEF Backup, Content
  <2>4. LiveCall([id |-> j.id, kind |-> "read", part |-> j.ix, val |-> Backup(j.ix)], j)
    BY <1>13 DEF LiveCall, Backup
  <2> QED BY <1>1, <1>4, <1>13, <2>1, <2>3, <2>4, CallKeeps
<1>14. CASE /\ j.stage = "restore-verify" /\ j.ix > FilePart
            /\ ClearContent /\ MoveTo("restore-write")
  <2>1. Moved("restore-write", 1) /\ run' = "more" /\ UNCHANGED <<file, call>>
    BY <1>1, <1>14, StageMoves DEF Stages
  <2>2. JobFits(res, receipts)'
    BY <1>1, <1>14, <2>1 DEF Inv, JobFits, Moved, Busy, Saving, Restoring
  <2>3. Progress' BY <2>1 DEF Progress, Moved
  <2>4. file = 0
    <3>1. Live[FilePart] = 0 BY <1>14, Sizes DEF Inv, ContentFits, Nothing
    <3> QED BY <3>1, Sizes DEF Live
  <2>5. ContentFits'
    BY <1>1, <2>1, <2>4, Sizes DEF ContentFits, Moved, Saving
  <2>6. rows' \in [Tables -> Version] BY <1>14, Sizes DEF ClearContent
  <2> QED BY <1>5, <2>1, <2>2, <2>3, <2>5, <2>6
<1>15. CASE /\ j.stage = "restore-write" /\ j.ix > FilePart /\ MoveTo("restore-check")
            /\ UNCHANGED rows
  <2>1. Moved("restore-check", 1) /\ run' = "more" /\ UNCHANGED <<file, call>>
    BY <1>1, <1>15, StageMoves DEF Stages
  <2>2. JobFits(res, receipts)'
    BY <1>1, <1>15, <2>1 DEF Inv, JobFits, Moved, Busy, Saving, Restoring
  <2>3. Progress' BY <2>1 DEF Progress, Moved
  <2>4. \A p \in Parts : ~(p < 1) BY Sizes DEF Parts
  <2>5. ContentFits'
    BY <1>1, <1>15, <2>1, <2>4 DEF Inv, ContentFits, Moved, Saving
  <2> QED BY <1>2, <1>5, <1>15, <2>1, <2>2, <2>3, <2>5
<1>16. CASE /\ j.stage = "restore-check" /\ j.ix > FilePart
            /\ res' = Finished(res, "active") /\ run' = "more" /\ UNCHANGED <<rows, file, call>>
  <2>1. /\ res' \in Records /\ res'.job = NoJob /\ res'.ids = res.ids /\ res'.state = "active"
        /\ NoJob.id = 0 /\ NoJob.stage = "snapshot" /\ NoJob.action = "archive"
    BY <1>16, Ended
  <2>2. j.from \in JobIds /\ j.from \in receipts BY <1>16 DEF Inv, JobFits, TypeOK, Restoring
  <2>3. committed' = frozen[j.from] /\ committed' \in Content BY <1>1, <1>2, <2>1, <2>2
  <2>4. archive[j.from] = frozen[j.from]
        /\ frozen[j.from][FilePart] = frozen[j.from][Attachments]
    BY <2>2 DEF Inv, Stored
  <2>5. ASSUME NEW p \in Parts PROVE Live[p] = frozen[j.from][p]
    <3>1. p < j.ix BY <1>2, <1>16, Sizes DEF Parts
    <3> QED BY <1>16, <2>4, <3>1 DEF Inv, ContentFits
  <2>6. Live' = Live BY <1>16 DEF Live
  <2>7. Live = frozen[j.from]
    <3>1. Live \in Content /\ frozen[j.from] \in Content BY <1>2, <2>2, LiveTyped DEF Inv
    <3> QED BY <2>5, <3>1 DEF Content
  <2>8. file = rows[Attachments]
    <3>1. Live[FilePart] = file /\ Live[Attachments] = rows[Attachments] BY Sizes DEF Live
    <3> QED BY <2>4, <2>7, <3>1
  <2>9. res.ids \in Nat BY <1>2 DEF Records
  <2>10. JobFits(res, receipts)' BY <2>1, <2>9 DEF JobFits, Saving, Restoring
  <2>11. Progress' BY <2>1 DEF Progress, Busy
  <2>12. ContentFits'
    BY <1>16, <2>1, <2>3, <2>6, <2>7, <2>8 DEF Inv, ContentFits, Busy
  <2>13. Stored' BY <1>1, <2>1 DEF Inv, Stored
  <2>14. run' \in RunPcs \ {"await"} BY <1>16 DEF RunPcs
  <2> QED BY <1>1, <1>2, <1>16, <2>1, <2>3, <2>10, <2>11, <2>12, <2>13, <2>14, AtRest
          DEF Inv, TypeOK
<1> QED
  BY <1>6, <1>7, <1>8, <1>9, <1>10, <1>11, <1>12, <1>13, <1>14, <1>15, <1>16
  DEF StepCall, Restoring

-----------------------------------------------------------------------------
(***************************************************************************)
(* The theorems.                                                           *)
(***************************************************************************)

LEMMA InvInit == Init => Inv
<1> SUFFICES ASSUME Init PROVE Inv OBVIOUS
<1>1. NoJob \in JobSet /\ NoCall \in CallSet /\ Nothing \in Content
  BY Sizes, LifecycleAssumption
  DEF NoJob, NoCall, JobSet, CallSet, Actions, Stages, Nothing, Content, Parts
<1>2. /\ res.state = "active" /\ res.job = NoJob /\ res.ids = 0 /\ receipts = {}
      /\ rows = [t \in Tables |-> 0] /\ file = 0 /\ call = NoCall /\ run = "off"
      /\ archive = [i \in JobIds |-> Nothing] /\ frozen = [i \in JobIds |-> Nothing]
      /\ committed = Nothing /\ writer = "none"
  BY DEF Init, Untouched
<1>3. /\ NoJob.id = 0 /\ NoJob.stage = "snapshot" /\ NoJob.action = "archive"
      /\ NoCall.id = 0 /\ NoCall.kind = "none"
  BY DEF NoJob, NoCall
<1>4. TypeOK
  <2>1. res \in Records
    BY <1>1, LifecycleAssumption DEF Init, Untouched, Records, States
  <2> QED BY <1>1, <1>2, <2>1, Sizes DEF Init, Untouched, TypeOK, Records, RunPcs
<1>5. JobFits(res, receipts) BY <1>2, <1>3 DEF JobFits, Saving, Restoring
<1>6. CallFits BY <1>2, <1>3 DEF CallFits, LiveCall
<1>7. Stored /\ Progress
  BY <1>2, <1>3 DEF Stored, Progress, Busy, Nothing
<1>8. ContentFits
  <2>1. Live = Nothing
    <3>1. \A p \in Parts : p # FilePart => p \in Tables BY Sizes
    <3> QED BY <1>2, <3>1 DEF Live, Nothing
  <2> QED BY <1>2, <1>3, <2>1, Sizes DEF ContentFits, Busy
<1>9. WriterFits BY <1>2 DEF WriterFits
<1> QED BY <1>4, <1>5, <1>6, <1>7, <1>8, <1>9 DEF Inv

LEMMA InvNext == Inv /\ [Next]_vars => Inv'
<1> SUFFICES ASSUME Inv, [Next]_vars PROVE Inv' OBVIOUS
<1>1. CASE Requests BY <1>1, RequestsKeep
<1>2. CASE TimePasses BY <1>2, TimeKeeps
<1>3. CASE WriteStart("edit") \/ WriteStart("upload") BY <1>3, StartKeeps
<1>4. CASE WriteCommit BY <1>4, CommitKeeps
<1>5. CASE Fire BY <1>5, FireKeeps
<1>6. CASE Arm \/ EndLoop \/ Rearm BY <1>6, MoveKeeps
<1>7. CASE StepCall BY <1>7, StepCallKeeps
<1>8. CASE StepDone
  <2>1. call.kind \in {"save", "manifest", "erase", "read", "put"} BY <1>8 DEF StepDone
  <2> QED BY <1>8, <2>1, SaveDone, ManifestDone, EraseDone, ReadDone
<1>9. CASE StepPut BY <1>9, StepPutKeeps
<1>10. CASE StepFail \/ Crash BY <1>10, DropKeeps
<1>11. CASE UNCHANGED vars
  <2>1. Live' = Live BY <1>11 DEF vars, Live
  <2>2. TypeOK' /\ JobFits(res, receipts)' BY <1>11 DEF vars, Inv, TypeOK, JobFits
  <2>3. CallFits' /\ Stored' /\ Progress'
    BY <1>11 DEF vars, Inv, CallFits, IsLive, LiveCall, Stored, Progress, Busy
  <2>4. ContentFits' /\ WriterFits'
    BY <1>11, <2>1 DEF vars, Inv, ContentFits, WriterFits, Busy
  <2> QED BY <2>2, <2>3, <2>4 DEF Inv
<1> QED
  BY <1>1, <1>2, <1>3, <1>4, <1>5, <1>6, <1>7, <1>8, <1>9, <1>10, <1>11 DEF Next, Requests

LEMMA LifecycleInv == Spec => []Inv
  BY InvInit, InvNext, PTL DEF Spec

\* Type correctness: the record of management_state, the rows and files, the
\* backups and the one run of the alarm handler stay within their types.
THEOREM LifecycleTypeOK == Spec => []TypeOK
<1>1. Inv => TypeOK BY DEF Inv
<1> QED BY <1>1, LifecycleInv, PTL

\* A verified manifest stands for exactly the content its job froze, through
\* failed calls, process loss, retries and cancels (object, step, cancel).
THEOREM LifecycleBackup == Spec => []BackupComplete
<1>1. Inv => BackupComplete BY DEF Inv, Stored, BackupComplete
<1> QED BY <1>1, LifecycleInv, PTL

\* An available resource shows its last write or the backup it was restored
\* from, a deleted one nothing, and an archive has not touched the content
\* before its manifest is verified (begin, cancel, finish, step).
THEOREM LifecycleContent == Spec => []ContentMatchesState
<1>1. Inv => ContentMatchesState
  <2> SUFFICES ASSUME Inv PROVE ContentMatchesState OBVIOUS
  <2>1. res.job \in JobSet /\ NoJob.action = "archive"
    BY DEF Inv, TypeOK, NoJob
  <2>2. ASSUME res.job.action = "archive", Busy(res) PROVE Live = frozen[res.job.id]
    <3>1. res.job.stage \in Saving
      BY <2>1, <2>2 DEF Inv, JobFits, JobSet, Stages, Saving, Restoring
    <3> QED BY <2>2, <3>1 DEF Inv, ContentFits
  <2>3. ASSUME res.job.action = "archive-delete"
        PROVE  Live = frozen[res.job.id] \/ res.job.id \in receipts
    <3>1. Busy(res) BY <2>1, <2>3 DEF Busy
    <3>2. res.job.stage \in Saving \/ res.job.id \in receipts
      BY <2>1, <2>3 DEF Inv, JobFits, JobSet, Stages, Saving, Restoring
    <3> QED BY <3>1, <3>2 DEF Inv, ContentFits
  <2>4. LiveContentIntact BY <2>2, <2>3 DEF Inv, LiveContentIntact
  <2> QED BY <2>4 DEF Inv, ContentFits, ContentMatchesState
<1> QED BY <1>1, LifecycleInv, PTL
=============================================================================
