----------------------------- MODULE WikiUploads -----------------------------
(***************************************************************************)
(* Wiki attachments (celld/native/wiki.ts): a pending row reserves budget, *)
(* the file goes to object storage, the row becomes ready; a durable alarm *)
(* removes interrupted uploads and the files of a deleted wiki.            *)
(*                                                                         *)
(* The wiki object is single-threaded: code between two awaits is one      *)
(* step and its SQL writes commit together.  An upload awaits the alarm    *)
(* calls and the put; the cleanup handler awaits each delete.  The process *)
(* may be lost at an await, the alarm handler is then run again.           *)
(*                                                                         *)
(* Time is a flag per row: "old" is a reservation past ten minutes.  The   *)
(* wiki is unmanaged; a managed one is ResourceLifecycle.tla's.            *)
(***************************************************************************)
EXTENDS Integers, FiniteSets, FiniteSetsExt

CONSTANTS
  Files,
  Size,        \* the bytes of each file
  Budget,      \* attachmentsBytes (1 GiB in the code)
  Concurrent,  \* uploadsConcurrent (2 in the code)
  Batch,       \* rows one cleanup takes (20 in the code)
  MaxCrashes,  \* bound: process losses
  CrashAt,     \* the upload states in which the process may be lost
  SlowPuts,    \* an upload can outlast its ten minutes
  MayDelete    \* the wiki can be deleted

UploadPcs == {"new", "alarm", "put", "putting", "requeue", "ok", "failed", "lost"}
Running == {"alarm", "put", "putting", "requeue"}

ASSUME UploadsAssumption ==
  /\ IsFiniteSet(Files) /\ Size \in [Files -> Nat \ {0}]
  /\ Budget \in Nat /\ Concurrent \in Nat /\ Batch \in Nat \ {0}
  /\ MaxCrashes \in Nat /\ CrashAt \subseteq Running
  /\ SlowPuts \in BOOLEAN /\ MayDelete \in BOOLEAN

VARIABLES
  row,      \* attachments: per file, status, reserved size and age
  bytes,    \* wiki.attachment_bytes
  objects,  \* the files in object storage
  upload,   \* per file, where its upload is
  alarm,    \* the object has an alarm set
  clean,    \* the alarm handler: its pc, selected rows and current row
  deleted,  \* the wiki was deleted
  crashes

uploadVars == <<row, bytes, objects, upload, alarm, clean, deleted, crashes>>

NoRow == [status |-> "none", size |-> 0, old |-> FALSE]
Off   == [pc |-> "off", todo |-> {}, cur |-> [file |-> "none", size |-> 0]]
Rows  == {f \in Files : row[f] # NoRow}
Unready == {f \in Rows : row[f].status # "ready"}

UploadsInit ==
  /\ row = [f \in Files |-> NoRow] /\ bytes = 0
  /\ objects = {} /\ upload = [f \in Files |-> "new"]
  /\ alarm = FALSE /\ clean = Off
  /\ deleted = FALSE /\ crashes = 0

-----------------------------------------------------------------------------
(* upload *)

\* Names with a suffix are plausible mistakes, used to test the properties.
\* The body has been read: check the budget and reserve, in one transaction.
Reserve(f) ==
  /\ upload[f] = "new" /\ ~deleted
  /\ Cardinality({g \in Files : upload[g] \in Running}) < Concurrent
  /\ bytes + Size[f] <= Budget
  /\ row' = [row EXCEPT ![f] = [status |-> "pending", size |-> Size[f], old |-> FALSE]]
  /\ bytes' = bytes + Size[f]
  /\ upload' = [upload EXCEPT ![f] = "alarm"]
  /\ UNCHANGED <<objects, alarm, clean, deleted, crashes>>

\* scheduleCleanup: an alarm set before stays if it is earlier.
ScheduleCleanup(f) ==
  /\ upload[f] = "alarm"
  /\ alarm' = TRUE
  /\ upload' = [upload EXCEPT ![f] = "put"]
  /\ UNCHANGED <<row, bytes, objects, clean, deleted, crashes>>

\* The put takes effect in storage, or fails with or without an effect.
Put(f) ==
  /\ upload[f] = "put"
  /\ objects' = objects \cup {f}
  /\ upload' = [upload EXCEPT ![f] = "putting"]
  /\ UNCHANGED <<row, bytes, alarm, clean, deleted, crashes>>

\* DELETE status and reservation: the failed upload's row is queued for
\* cleanup; one that cleanup already took comes back without a reservation.
Requeue_Charged(f) ==
  /\ row' = [row EXCEPT ![f] = [status |-> "delete", size |-> Size[f], old |-> FALSE]]
  /\ upload' = [upload EXCEPT ![f] = "requeue"]
Requeue(f) ==
  /\ row' = [row EXCEPT ![f].status = "delete"]
  /\ upload' = [upload EXCEPT ![f] = "requeue"]

PutFails(f) ==
  /\ upload[f] \in {"put", "putting"}
  /\ Requeue(f)
  /\ UNCHANGED <<bytes, objects, alarm, clean, deleted, crashes>>

\* The put returned: the wiki must still be there and the row still pending.
Confirm(f) ==
  /\ upload[f] = "putting"
  /\ IF ~deleted /\ row[f].status = "pending"
     THEN /\ row' = [row EXCEPT ![f].status = "ready"]
          /\ upload' = [upload EXCEPT ![f] = "ok"]
     ELSE Requeue(f)
  /\ UNCHANGED <<bytes, objects, alarm, clean, deleted, crashes>>

\* The alarm for the requeued row; then the upload is answered 503.
FailUpload(f) ==
  /\ upload[f] = "requeue"
  /\ alarm' = TRUE
  /\ upload' = [upload EXCEPT ![f] = "failed"]
  /\ UNCHANGED <<row, bytes, objects, clean, deleted, crashes>>

-----------------------------------------------------------------------------
(* alarm *)

\* DELETE rows, and reservations past their ten minutes.
Due_Young ==
  {f \in Rows : row[f].status \in {"delete", "pending"}}
Due ==
  {f \in Rows : row[f].status = "delete" \/ (row[f].status = "pending" /\ row[f].old)}

\* The handler selects rows, with their sizes, once for the whole run.
AlarmFires ==
  /\ alarm /\ clean.pc = "off"
  /\ alarm' = FALSE
  /\ \E picked \in SUBSET Due :
       /\ Cardinality(picked) <= Batch
       /\ Cardinality(picked) < Batch => picked = Due
       /\ clean' = [Off EXCEPT !.pc = "loop", !.todo = {[file |-> f, size |-> row[f].size] : f \in picked}]
  /\ UNCHANGED <<row, bytes, objects, upload, deleted, crashes>>

\* The delete takes effect in storage; its answer is awaited.
CleanDelete(f) ==
  /\ clean.pc = "loop"
  /\ \E r \in clean.todo :
       /\ r.file = f
       /\ objects' = objects \ {f}
       /\ clean' = [clean EXCEPT !.pc = "answer", !.todo = @ \ {r}, !.cur = r]
  /\ UNCHANGED <<row, bytes, upload, alarm, deleted, crashes>>

\* The row goes by its id, and the size selected with it is given back.
CleanErase ==
  /\ clean.pc = "answer"
  /\ row' = [row EXCEPT ![clean.cur.file] = NoRow]
  /\ bytes' = IF bytes >= clean.cur.size THEN bytes - clean.cur.size ELSE 0
  /\ clean' = [clean EXCEPT !.pc = "loop"]
  /\ UNCHANGED <<objects, upload, alarm, deleted, crashes>>

\* finally: after the last row, or a delete that failed with or without an
\* effect, an alarm if a row is left that is not ready.
CleanEnd_Quiet ==
  /\ clean.pc \in {"loop", "answer"}
  /\ clean' = Off
  /\ UNCHANGED <<row, bytes, objects, upload, alarm, deleted, crashes>>
CleanEnd ==
  /\ clean.pc \in {"loop", "answer"}
  /\ alarm' = (alarm \/ Unready # {})
  /\ clean' = Off
  /\ UNCHANGED <<row, bytes, objects, upload, deleted, crashes>>

-----------------------------------------------------------------------------
\* DELETE of the wiki by a capability.
DeleteWiki ==
  /\ MayDelete /\ ~deleted
  /\ deleted' = TRUE
  /\ row' = [f \in Files |-> IF f \in Rows THEN [row[f] EXCEPT !.status = "delete"] ELSE row[f]]
  /\ alarm' = TRUE
  /\ UNCHANGED <<bytes, objects, upload, clean, crashes>>

\* Ten minutes pass for a reservation.
Age(f) ==
  /\ row[f].status = "pending" /\ ~row[f].old
  /\ upload[f] \in Running => SlowPuts
  /\ row' = [row EXCEPT ![f].old = TRUE]
  /\ UNCHANGED <<bytes, objects, upload, alarm, clean, deleted, crashes>>

\* The process is lost; an alarm handler that ran is run again.
Crash ==
  /\ crashes < MaxCrashes
  /\ \A f \in Files : upload[f] \in Running => upload[f] \in CrashAt
  /\ crashes' = crashes + 1
  /\ upload' = [f \in Files |-> IF upload[f] \in Running THEN "lost" ELSE upload[f]]
  /\ alarm' = (alarm \/ clean.pc # "off")
  /\ clean' = Off
  /\ UNCHANGED <<row, bytes, objects, deleted>>

UploadsNext ==
  \/ \E f \in Files : \/ Reserve(f) \/ ScheduleCleanup(f) \/ Put(f) \/ PutFails(f)
                      \/ Confirm(f) \/ FailUpload(f) \/ Age(f)
  \/ AlarmFires \/ (\E f \in Files : CleanDelete(f)) \/ CleanErase \/ CleanEnd
  \/ DeleteWiki \/ Crash

UploadsSpec == UploadsInit /\ [][UploadsNext]_uploadVars

\* An upload's own steps run and its put returns or fails; ten minutes pass; an
\* alarm fires; deletes that are asked for again and again succeed sometimes.
UploadsFairness ==
  /\ \A f \in Files :
       /\ WF_uploadVars(ScheduleCleanup(f) \/ Put(f) \/ Confirm(f) \/ PutFails(f) \/ FailUpload(f))
       /\ WF_uploadVars(Age(f))
  /\ WF_uploadVars(AlarmFires) /\ WF_uploadVars(CleanEnd)
  /\ SF_uploadVars(\E f \in Files : CleanDelete(f)) /\ SF_uploadVars(CleanErase)

-----------------------------------------------------------------------------
(* Properties *)

\* Every variable holds what the code stores, at most Concurrent uploads run,
\* and the counter is exactly what the rows reserve, within the budget: a
\* reservation is given back once, by whichever of the upload, the cleanup and
\* the requeue comes last.
AttachmentsTyped ==
  /\ \A f \in Files : /\ row[f].status \in {"none", "pending", "ready", "delete"}
                      /\ row[f].size \in {0, Size[f]}
                      /\ row[f].status \in {"pending", "ready"} => row[f].size = Size[f]
  /\ bytes = MapThenSumSet(LAMBDA f : row[f].size, Files) /\ bytes <= Budget
  /\ objects \subseteq Files
  /\ upload \in [Files -> UploadPcs]
  /\ Cardinality({f \in Files : upload[f] \in Running}) <= Concurrent
  /\ clean.pc \in {"off", "loop", "answer"} /\ Cardinality(clean.todo) <= Batch

\* A file in object storage has a row that serves or removes it, or an upload
\* that is about to requeue it, after a deletion of the wiki too (wiki.md:
\* deletion queues uploaded files for deletion).
NoOrphanFile == \A f \in objects : row[f] # NoRow \/ upload[f] \in Running

\* Until the wiki is deleted, a file in object storage has its row or an upload
\* that will requeue it, and an upload answered 201 keeps its row and its file:
\* no cleanup, failure or lost process orphans or removes one.
LiveWikiKeepsFiles ==
  /\ AttachmentsTyped
  /\ ~deleted =>
       /\ NoOrphanFile
       /\ \A f \in Files : upload[f] = "ok" => row[f].status = "ready" /\ f \in objects

\* What an interrupted upload or a deleted wiki left goes in the end: row and
\* reservation always, the file where no deletion raced its put (wiki.md:
\* interrupted uploads are also cleaned up by durable alarms).
CleanedUp == []<>(\A f \in Files :
  row[f].status = "delete" \/ upload[f] \in {"lost", "failed"}
    => row[f] = NoRow /\ (f \notin objects \/ deleted))

=============================================================================
