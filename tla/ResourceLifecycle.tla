-------------------------- MODULE ResourceLifecycle --------------------------
(***************************************************************************)
(* The durable lifecycle of one managed chat or wiki (celld/native/        *)
(* management-lifecycle.ts): archive, expiry, deletion and restore run as  *)
(* a job that a durable alarm advances one step at a time, across failed   *)
(* storage calls, process loss and an administrator's cancel.              *)
(*                                                                         *)
(* The object is single-threaded, so the code between two awaits is one    *)
(* step, and its SQL writes commit together.  A step that calls archive    *)
(* or attachment storage is split there: StepCall holds what it read,      *)
(* then the call succeeds, fails, or fails after it took effect.           *)
(* While run is "step" or "more" the alarm handler holds the turn.         *)
(*                                                                         *)
(* Content is a version number per table; the last table is "attachments"  *)
(* and the bucket holds the file its row names, under the same version.    *)
(* Zero is absent.  A backup has one object per table and one per file.    *)
(* The replica push and the audit log are left out.  Deadlines are the     *)
(* flag "due"; retry_at and backoff only delay an alarm that will fire.    *)
(***************************************************************************)
EXTENDS Integers, FiniteSets

CONSTANTS
  NTables,   \* tables of the resource, "attachments" the last
  MaxEdits,  \* bound: committed writes
  MaxJobs,   \* bound: jobs ever begun
  CrashAt    \* the runner states in which the process may be lost

Tables == 1 .. NTables
Attachments == NTables
FilePart == NTables + 1
Parts == 1 .. FilePart
JobIds == 1 .. MaxJobs

Actions == {"archive", "archive-delete", "delete", "restore"}
Stages  == {"snapshot", "files", "manifest", "erase",
            "restore-verify", "restore-write", "restore-check"}
States  == {"active", "archiving", "expiring", "deleting", "deleted", "restoring"}
RunPcs  == {"off", "armed", "step", "await", "more", "disarmed", "rearm"}

ASSUME LifecycleAssumption ==
  /\ NTables \in Nat \ {0}
  /\ MaxEdits \in Nat /\ MaxJobs \in Nat
  /\ CrashAt \subseteq RunPcs

VARIABLES
  res,      \* management_state: the record and its job
  rows,     \* per table, the version of the live rows
  file,     \* the version of the attachment in the bucket
  archive,  \* per job, the backup objects in archive storage
  receipts, \* management_archives: jobs whose manifest was verified
  alarm,    \* the object has an alarm set
  run,      \* where the one run of the alarm handler is
  call,     \* the storage call the run awaits
  writer,   \* a request between its first check and its commit
  edits,    \* how many writes committed
  frozen,   \* history: per job, the live content when it began
  committed \* history: the content of the last write, or of the restored backup

vars == <<res, rows, file, archive, receipts, alarm, run, call, writer,
          edits, frozen, committed>>

Version == 0 .. MaxEdits
Content == [Parts -> Version]
Nothing == [p \in Parts |-> 0]
Live == [p \in Parts |-> IF p = FilePart THEN file ELSE rows[p]]

NoJob  == [id |-> 0, action |-> "archive", stage |-> "snapshot", ix |-> 1, from |-> 0]
JobSet == [id: 0 .. MaxJobs, action: Actions, stage: Stages, ix: 1 .. (FilePart + 1),
           from: 0 .. MaxJobs]
NoCall  == [id |-> 0, kind |-> "none", part |-> 1, val |-> 0]
CallSet == [id: 0 .. MaxJobs, kind: {"none", "save", "manifest", "erase", "read", "put"},
            part: Parts, val: Version]

TypeOK ==
  /\ res \in [state: States, ttl: BOOLEAN, paused: BOOLEAN, due: BOOLEAN,
              backup: BOOLEAN, job: JobSet, ids: 0 .. MaxJobs]
  /\ rows \in [Tables -> Version] /\ file \in Version
  /\ archive \in [JobIds -> Content] /\ receipts \in SUBSET JobIds
  /\ alarm \in BOOLEAN /\ run \in RunPcs /\ call \in CallSet
  /\ writer \in {"none", "edit", "upload"} /\ edits \in Version
  /\ frozen \in [JobIds -> Content] /\ committed \in Content

\* A new resource has its tables and no content.
Untouched ==
  /\ res = [state |-> "active", ttl |-> FALSE, paused |-> FALSE, due |-> FALSE,
            backup |-> TRUE, job |-> NoJob, ids |-> 0]
  /\ rows = [t \in Tables |-> 0] /\ file = 0
  /\ archive = [i \in JobIds |-> Nothing] /\ receipts = {}
  /\ run = "off" /\ call = NoCall /\ writer = "none"
  /\ edits = 0 /\ frozen = [i \in JobIds |-> Nothing] /\ committed = Nothing
\* create() also sets the first alarm.
Init == Untouched /\ alarm = TRUE

-----------------------------------------------------------------------------
(***************************************************************************)
(* The record: what begin, tick, cancel and finish make of it.             *)
(***************************************************************************)

Busy(r) == r.job # NoJob
Overdue(r) == r.state = "active" /\ r.due /\ ~r.paused
Available == res.state = "active" /\ ~Overdue(res)

FirstStage(action) ==
  CASE action = "restore" -> "restore-verify"
    [] action = "delete"  -> "erase"
    [] OTHER              -> "snapshot"
StateOf(action, ttl) ==
  CASE action = "restore" -> "restoring"
    [] ttl                -> "expiring"
    [] action = "delete"  -> "deleting"
    [] OTHER              -> "archiving"

CanBegin(r, action) ==
  /\ ~Busy(r) /\ r.ids < MaxJobs
  /\ r.state = (IF action = "restore" THEN "deleted" ELSE "active")
Begin(r, action, ttl, from) ==
  [r EXCEPT !.ids = @ + 1, !.state = StateOf(action, ttl), !.ttl = ttl,
            !.job = [id |-> r.ids + 1, action |-> action, stage |-> FirstStage(action),
                     ix |-> 1, from |-> from]]

\* tick(): start due expiry under the current policy.
Tick(r) ==
  IF Overdue(r) /\ CanBegin(r, "delete")
  THEN Begin(r, IF r.backup THEN "archive-delete" ELSE "delete", TRUE, 0)
  ELSE r

\* cancel(): the prior state, or the rollback of a restore that wrote content.
Canceled(r) ==
  IF r.job.action # "restore"
  THEN [r EXCEPT !.state = "active", !.job = NoJob, !.ttl = FALSE,
                 !.paused = @ \/ r.ttl]
  ELSE IF r.job.stage = "restore-verify"
  THEN [r EXCEPT !.state = "deleted", !.job = NoJob]
  ELSE [r EXCEPT !.state = "deleting", !.ids = @ + 1,
                 !.job = [id |-> r.ids + 1, action |-> "delete", stage |-> "erase",
                          ix |-> 1, from |-> 0]]

\* finish(): the job is done; a restored resource keeps its TTLs paused.
Finished(r, state) ==
  [r EXCEPT !.state = state, !.job = NoJob, !.paused = @ \/ r.job.action = "restore"]

\* next() and schedule(): an alarm for the next step, deadline or audit cleanup,
\* whichever comes first; when, is left to the clock.
Schedule == alarm' = TRUE

\* Commit a new record; a job that begins freezes the content it finds.
Commit(r) ==
  /\ res' = r
  /\ frozen' = IF r.ids > res.ids THEN [frozen EXCEPT ![r.job.id] = Live] ELSE frozen

-----------------------------------------------------------------------------
(***************************************************************************)
(* Requests: writers, administrators, capability holders, and time.  They  *)
(* run whenever the alarm handler is not in the middle of a turn.          *)
(***************************************************************************)
Idle == run \notin {"step", "more"}

TimePasses ==
  /\ ~res.due /\ res' = [res EXCEPT !.due = TRUE]
  /\ UNCHANGED <<rows, file, archive, receipts, alarm, run, call, writer, edits,
                 frozen, committed>>

\* A write is checked, then waits for its body, a provider or the bucket.
WriteStart(kind) ==
  /\ Idle /\ writer = "none" /\ Available /\ edits < MaxEdits /\ writer' = kind
  /\ UNCHANGED <<res, rows, file, archive, receipts, alarm, run, call, edits,
                 frozen, committed>>

\* A write that commits without checking the state again.
WriteCommit_Unchecked ==
  /\ Idle /\ writer # "none" /\ writer' = "none" /\ alarm' = TRUE
  /\ edits' = edits + 1
  /\ rows' = [t \in Tables |-> IF (t = Attachments) = (writer = "upload")
                               THEN edits + 1 ELSE rows[t]]
  /\ file' = (IF writer = "upload" THEN edits + 1 ELSE file)
  /\ committed' = Live' /\ UNCHANGED <<res, archive, receipts, run, call, frozen>>

\* activity() checks availability again in the turn that writes; a refused
\* write leaves no trace.  Every request ends in flush(), which sets an alarm.
WriteCommit ==
  /\ Idle /\ writer # "none" /\ writer' = "none" /\ Schedule
  /\ \/ /\ Available /\ edits' = edits + 1
        /\ rows' = [t \in Tables |-> IF (t = Attachments) = (writer = "upload")
                                     THEN edits + 1 ELSE rows[t]]
        /\ file' = (IF writer = "upload" THEN edits + 1 ELSE file)
        /\ committed' = Live'
     \/ ~Available /\ UNCHANGED <<edits, rows, file, committed>>
  /\ UNCHANGED <<res, archive, receipts, run, call, frozen>>

\* Requests change the record only, and leave an alarm set.
Request(r) ==
  /\ Idle /\ Commit(r) /\ Schedule
  /\ UNCHANGED <<rows, file, archive, receipts, run, call, writer, edits, committed>>

\* Any other request: due expiry starts before it is served.
Visit == Request(Tick(res))

\* removeByCapability(): a URL holder deletes the resource.
CapabilityDelete ==
  Available /\ CanBegin(res, "delete") /\ Request(Begin(res, "delete", FALSE, 0))

\* handle(): due expiry starts before a request is read (Visit, all that a GET
\* does) and again after its body arrived; this is the record acted upon.
AdminRecord == Tick(res)
AdminBegin(action, from) ==
  LET r == AdminRecord
  IN CanBegin(r, action) /\ Request(Begin(r, action, FALSE, from))
AdminArchive == \E a \in Actions \ {"restore"} : AdminBegin(a, 0)
AdminRestore == \E i \in receipts : AdminBegin("restore", i)
\* Cancel that also interrupts an erase; and one that drops a partial restore.
AdminCancel_NoRollback ==
  /\ Busy(res) /\ res.job.stage # "erase"
  /\ Request(IF res.job.action = "restore" THEN Finished(res, "deleted") ELSE Canceled(res))
AdminCancel ==
  /\ Busy(res) /\ res.job.stage # "erase" /\ Canceled(res).ids <= MaxJobs
  /\ Request(Canceled(res))
\* A retry forgets the backoff of a pending job.
AdminRetry == Busy(res) /\ Request(res)
AdminPolicy ==
  LET r == AdminRecord IN
  /\ r.state = "active" /\ ~Busy(r)
  /\ \E p, d, b \in BOOLEAN :
       Request(Tick([r EXCEPT !.paused = p, !.due = d, !.backup = b]))

-----------------------------------------------------------------------------
(***************************************************************************)
(* The alarm handler.                                                      *)
(***************************************************************************)

\* The alarm fires and is gone.  One that fires during a run joins that run
\* (alarm() returns the running promise), which leaves it to fire afterwards.
Fire ==
  /\ alarm /\ run = "off" /\ alarm' = FALSE
  /\ Commit(Tick(res))
  /\ run' = IF Busy(res') THEN "armed" ELSE "rearm"
  /\ UNCHANGED <<rows, file, archive, receipts, call, writer, edits, committed>>

\* The safety alarm; after that await the job is read again, and an upload
\* in progress holds it back.
Arm ==
  /\ run = "armed" /\ alarm' = TRUE
  /\ run' = IF writer = "upload" THEN "rearm" ELSE "step"
  /\ UNCHANGED <<res, rows, file, archive, receipts, call, writer, edits, frozen, committed>>

Calls(kind, part, val) ==
  /\ call' = [id |-> res.job.id, kind |-> kind, part |-> part, val |-> val]
  /\ run' = "await" /\ UNCHANGED <<res, rows, file>>
\* The stage moves on without a call, and the job is saved.
MoveTo(stage) ==
  /\ res' = [res EXCEPT !.job.stage = stage, !.job.ix = 1]
  /\ run' = "more" /\ UNCHANGED <<file, call>>

\* snapshotRows(): a table's rows, one chunk.  The row of an unfinished upload
\* is left out, as it is here: an attachment has a row once it is ready.
SnapshotRows(table) == rows[table]
\* The objects of the manifest a restore reads, in the backup it came from.
Backup(part) == archive[res.job.from][part]
ClearContent == rows' = [t \in Tables |-> 0]

\* step(): what the current stage does up to its first await.
StepCall ==
  LET j == res.job IN
  /\ run \in {"step", "more"} /\ Busy(res)
  /\ \/ /\ j.stage = "snapshot"
        /\ \/ j.ix <= NTables /\ Calls("save", j.ix, SnapshotRows(j.ix))
           \/ j.ix > NTables /\ MoveTo("files") /\ UNCHANGED rows
     \/ /\ j.stage = "files"
        /\ \/ rows[Attachments] # 0 /\ j.ix = 1 /\ Calls("save", FilePart, file)
           \/ (rows[Attachments] = 0 \/ j.ix > 1) /\ MoveTo("manifest") /\ UNCHANGED rows
     \/ j.stage = "manifest" /\ Calls("manifest", 1, 0)
     \/ j.stage = "erase" /\ rows[Attachments] # 0 /\ Calls("erase", FilePart, 0)
     \/ /\ j.stage = "erase" /\ rows[Attachments] = 0
        /\ res' = Finished(res, "deleted") /\ ClearContent
        /\ run' = "more" /\ UNCHANGED <<file, call>>
     \/ j.stage = "restore-verify" /\ j.ix <= FilePart /\ Calls("read", j.ix, Backup(j.ix))
     \/ /\ j.stage = "restore-verify" /\ j.ix > FilePart
        /\ ClearContent /\ MoveTo("restore-write")
     \/ j.stage = "restore-write" /\ j.ix <= FilePart /\ Calls("read", j.ix, Backup(j.ix))
     \/ j.stage = "restore-write" /\ j.ix > FilePart /\ MoveTo("restore-check") /\ UNCHANGED rows
     \/ j.stage = "restore-check" /\ j.ix <= FilePart /\ Calls("read", j.ix, Backup(j.ix))
     \/ /\ j.stage = "restore-check" /\ j.ix > FilePart
        /\ res' = Finished(res, "active") /\ run' = "more"
        /\ UNCHANGED <<rows, file, call>>
  /\ committed' = IF res'.state = "active" THEN frozen[j.from] ELSE committed
  /\ UNCHANGED <<archive, receipts, alarm, writer, edits, frozen>>

\* put of either archive store: the first bytes under a key stay.
StorePut ==
  archive' = IF call.kind = "save" /\ archive[call.id][call.part] = 0
             THEN [archive EXCEPT ![call.id][call.part] = call.val] ELSE archive
\* putVerified: the object is read back, and must hold the bytes put.
PutVerified == call.kind = "save" => archive[call.id][call.part] \in {0, call.val}
\* What a call does to storage outside the object, whether or not its answer
\* arrives: a backup object, the deleted or restored attachment.
Effect ==
  /\ StorePut
  /\ file' = CASE call.kind = "erase" -> 0
               [] call.kind = "put"   -> call.val
               [] OTHER               -> file
NoEffect == UNCHANGED <<archive, file>>

IsLive == res.job.id = call.id
\* A step that counts its part twice leaves the next one out.
NextPart_Twice == res' = [res EXCEPT !.job.ix = @ + 2]
NextPart == res' = [res EXCEPT !.job.ix = @ + 1]

\* The call succeeded and the job is still the one that made it: record the
\* progress.
StepDone ==
  LET j == res.job IN
  /\ run = "await" /\ IsLive /\ ~(call.kind = "read" /\ j.stage = "restore-write" /\ call.part = FilePart)
  /\ PutVerified
  /\ \/ /\ call.kind = "save" /\ NextPart /\ UNCHANGED <<rows, receipts>>
     \/ /\ call.kind = "manifest" /\ receipts' = receipts \cup {j.id} /\ UNCHANGED rows
        /\ res' = IF j.action = "archive" THEN Finished(res, "active")
                  ELSE [res EXCEPT !.job.stage = "erase", !.job.ix = 1]
     \/ /\ call.kind = "erase" /\ rows' = [rows EXCEPT ![Attachments] = 0]
        /\ UNCHANGED <<res, receipts>>
     \/ /\ call.kind = "read" /\ j.stage = "restore-verify" /\ NextPart
        /\ UNCHANGED <<rows, receipts>>
     \/ /\ call.kind = "read" /\ j.stage = "restore-write" /\ NextPart
        /\ rows' = [rows EXCEPT ![call.part] = call.val] /\ UNCHANGED receipts
     \/ /\ call.kind = "read" /\ j.stage = "restore-check" /\ Live[call.part] = call.val
        /\ NextPart /\ UNCHANGED <<rows, receipts>>
     \/ /\ call.kind = "put" /\ NextPart /\ UNCHANGED <<rows, receipts>>
  /\ Effect /\ call' = NoCall /\ run' = "more"
  /\ UNCHANGED <<alarm, writer, edits, frozen, committed>>

\* A restored file is read first, and put only by a job that is still live.
StepPut ==
  /\ run = "await" /\ IsLive /\ call.kind = "read" /\ call.part = FilePart
  /\ res.job.stage = "restore-write"
  /\ IF call.val = 0 THEN NextPart /\ call' = NoCall /\ run' = "more"
     ELSE call' = [call EXCEPT !.kind = "put"] /\ UNCHANGED <<res, run>>
  /\ UNCHANGED <<rows, file, archive, receipts, alarm, writer, edits, frozen, committed>>

\* The call failed, with or without its effect, or live() found the job
\* canceled: the step is abandoned, and deleteAlarm follows.
StepFail ==
  /\ run = "await" /\ (Effect \/ NoEffect)
  /\ call' = NoCall /\ run' = "disarmed" /\ alarm' = FALSE
  /\ UNCHANGED <<res, rows, receipts, writer, edits, frozen, committed>>

\* The loop ends: no job, or after twenty steps or one second.  deleteAlarm.
EndLoop ==
  /\ run = "more" \/ (run = "step" /\ ~Busy(res))
  /\ run' = "disarmed" /\ alarm' = FALSE
  /\ UNCHANGED <<res, rows, file, archive, receipts, call, writer, edits, frozen, committed>>

\* A run that ends without setting the next alarm.
Rearm_Forgets ==
  /\ run \in {"disarmed", "rearm"} /\ run' = "off"
  /\ UNCHANGED <<res, rows, file, archive, receipts, alarm, call, writer, edits, frozen, committed>>
\* flush(true): schedule the next step, deadline or audit cleanup.
Rearm ==
  /\ run \in {"disarmed", "rearm"} /\ Schedule /\ run' = "off"
  /\ UNCHANGED <<res, rows, file, archive, receipts, call, writer, edits, frozen, committed>>

\* The process is lost: memory goes, storage and the alarm stay.  A handler that
\* was interrupted before it deleted an alarm is run again by the platform.
Crash ==
  /\ run \in CrashAt /\ ((run = "await" /\ Effect) \/ NoEffect)
  /\ run' = "off" /\ call' = NoCall /\ writer' = "none"
  /\ alarm' = (alarm \/ run \in {"armed", "rearm"})
  /\ UNCHANGED <<res, rows, receipts, edits, frozen, committed>>

Next ==
  \/ TimePasses \/ WriteStart("edit") \/ WriteStart("upload") \/ WriteCommit
  \/ Visit \/ CapabilityDelete \/ AdminArchive \/ AdminRestore \/ AdminCancel \/ AdminRetry
  \/ AdminPolicy
  \/ Fire \/ Arm \/ StepCall \/ StepDone \/ StepPut \/ StepFail
  \/ EndLoop \/ Rearm \/ Crash

Spec == Init /\ [][Next]_vars

\* The platform fires alarms and resumes the handler after its awaits, and every
\* request and storage call returns.  Calls may fail and the process may be lost any
\* number of times, but a call that is tried again and again succeeds once.
Fairness ==
  /\ WF_vars(Fire) /\ WF_vars(Arm) /\ WF_vars(StepCall) /\ WF_vars(EndLoop)
  /\ WF_vars(Rearm) /\ WF_vars(WriteCommit)
  /\ WF_vars(StepDone \/ StepPut \/ StepFail) /\ SF_vars(StepDone) /\ SF_vars(StepPut)
FairSpec == Spec /\ Fairness

-----------------------------------------------------------------------------
(***************************************************************************)
(* Properties.                                                             *)
(***************************************************************************)

\* A verified manifest stands for all of the content its job froze, no later
\* and no earlier: no write lands between two objects of a snapshot, and no
\* retry, crash or cancel leaves one out (step, object, activity).
BackupComplete == \A i \in receipts : archive[i] = frozen[i]

\* An archive leaves the live content as it found it until its manifest is
\* verified: cancel therefore restores the prior state, and a failed backup
\* never authorizes deletion (begin, cancel and step).
LiveContentIntact ==
  /\ TypeOK
  /\ (res.job.action = "archive" /\ Busy(res)) => Live = frozen[res.job.id]
  /\ res.job.action = "archive-delete" =>
       \/ Live = frozen[res.job.id] \/ res.job.id \in receipts

\* An available resource shows what its last write or restore committed, after a
\* restore exactly the content of the backup that was asked for,
\* and a deleted one has no rows and no file in the bucket: no abandoned step,
\* canceled job, half-done erase or half-done restore is taken for either.
ContentMatchesState ==
  /\ LiveContentIntact
  /\ res.state = "active" => Live = committed
  /\ res.state = "deleted" => Live = Nothing

\* Every job ends, completed or canceled, whatever storage calls fail and however
\* often the process is lost in CrashAt: a pending job never stays without an alarm
\* that resumes it ("A safety alarm covers process loss at any await", celld/native/
\* management-lifecycle.ts).  It holds only while CrashAt leaves out "disarmed", the
\* awaits between deleteAlarm and the next setAlarm, where one loss strands the job.
JobSettles == []<>(~Busy(res))

=============================================================================
