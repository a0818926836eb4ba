------------------------------- MODULE MCStores -------------------------------
(* Small instances for TLC of what survives a process: the log of the Go      *)
(* service and the attachments of a wiki.  They share no variable, so one run *)
(* checks them side by side: a behaviour is one of the part it was started    *)
(* for, the other stays at rest.                                              *)
EXTENDS ChannelStore, MCWikiUploads, TLC

CONSTANTS c1, c2, r1, r2

\* Two clients with one connection each.
OneEach == (r1 :> c1) @@ (r2 :> c2)

VARIABLE part
storeVars == <<part, vars, uploadVars>>

On(p, A) ==
  /\ part = p /\ UNCHANGED part /\ A
  /\ IF p = "log" THEN UNCHANGED uploadVars ELSE UNCHANGED vars

StoresInit == part \in {"log", "files"} /\ Init /\ UploadsInit

LogSteps ==
  \/ On("log", Create) \/ On("log", ReapDelete) \/ On("log", ReapNotify)
  \/ On("log", BeginStop) \/ On("log", Restart)
  \/ \E r \in Request :
       On("log", Get(r)) \/ On("log", Post(r)) \/ On("log", Delete(r)) \/ On("log", Handle(r))
FileSteps ==
  \/ \E f \in Files :
       \/ On("files", Reserve(f))
       \/ On("files", ScheduleCleanup(f)) \/ On("files", Put(f))
       \/ On("files", PutFails(f)) \/ On("files", Confirm(f)) \/ On("files", FailUpload(f))
       \/ On("files", Age(f)) \/ On("files", CleanDelete(f))
  \/ On("files", AlarmFires) \/ On("files", CleanErase) \/ On("files", CleanEnd)
  \/ On("files", DeleteWiki) \/ On("files", Crash)

\* Every file may have been uploaded and the wiki deleted.
MayStop == part = "files" /\ UNCHANGED storeVars

StoresNext == LogSteps \/ FileSteps \/ MayStop
StoresSpec == StoresInit /\ [][StoresNext]_storeVars /\ Fairness /\ UploadsFairness
=============================================================================
