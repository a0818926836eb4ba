-------------------------------- MODULE MCGate --------------------------------
(* A small instance for TLC of what the creation gate reports: the windows    *)
(* and mails of ReportOutbox, and the journal of CreationJournal, which each  *)
(* window waits for.  They share no variable here, so one run checks them     *)
(* side by side: a behaviour is one of the part it was started for, the other *)
(* stays at rest.                                                             *)
EXTENDS ReportOutbox

CONSTANTS o1,
          Chats, Clients, Managed, Envs, Capacity, RecoverLimit, MaxEvents, MaxHours, MaxCrashes

\* The first deployment.
Begin == [on |-> TRUE, content |-> TRUE, owner |-> NoOwner]
Off == [on |-> FALSE, content |-> TRUE, owner |-> NoOwner]
\* Content to whoever is looked up, counts to one owner, and all off.
Deployments == {Begin, [on |-> TRUE, content |-> FALSE, owner |-> o1],
                Off}

\* The variables of the journal; three have names of ReportOutbox.
VARIABLES part, jEnv, jAlarm, jWindow, attempt, journal, tokens, gate, prep, chat, receipts,
          hour, crashes, births, charges, acked, counted
J == INSTANCE CreationJournal WITH env <- jEnv, alarm <- jAlarm, window <- jWindow
journalVars == <<jEnv, jAlarm, jWindow, attempt, journal, tokens, gate, prep, chat, receipts,
                 hour, crashes, births, charges, acked, counted>>
gateVars == <<part, vars, journalVars>>

\* Restarts that keep the first environment.
BootEnv == {[reports |-> TRUE, mode |-> 0]}

On(p, A) ==
  /\ part = p /\ UNCHANGED part /\ A
  /\ IF p = "reports" THEN UNCHANGED journalVars ELSE UNCHANGED vars

\* The idle part is at rest: the journal has no alarm, the reports are off.
GateInit ==
  /\ \/ part = "reports" /\ jAlarm = FALSE /\ env = Begin
     \/ part = "journal" /\ jAlarm = TRUE /\ env = Off
  /\ Empty /\ J!Empty

ReportSteps ==
  \/ On("reports", Create) \/ On("reports", Cron)
  \/ On("reports", AlarmFires) \/ On("reports", AlarmFails) \/ On("reports", Recovered)
  \/ On("reports", Prepared) \/ On("reports", PrepareFails)
  \/ \E id \in MailIds : On("reports", Pick(id)) \/ On("reports", MailDue(id))
  \/ \E to \in Owner : On("reports", Lookup(to))
  \/ On("reports", LastCheck) \/ On("reports", Sent) \/ On("reports", Failed)
  \/ On("reports", AlarmEnds) \/ On("reports", Tick) \/ On("reports", WindowDue)
  \/ \E e \in Settings : On("reports", Restart(e))

\* Chats are not managed here, so none is restored, and reports stay on, so no
\* alarm finds them off.
JournalSteps ==
  \/ \E c \in Clients, id \in Chats, mode \in J!Routed : On("journal", J!BeginCreate(c, id, mode))
  \/ On("journal", J!EndCreate) \/ On("journal", J!CallLost)
  \/ \E e \in J!Events : On("journal", J!CallAnswered(e))
  \/ \E c \in Chats : On("journal", J!DeleteChat(c))
  \/ \E job \in {"alarm", "cron"} : On("journal", J!BeginRecovery(job))
  \/ On("journal", J!ReplayNext)
  \/ On("journal", J!ReplayAnswered) \/ On("journal", J!EndRecovery)
  \/ On("journal", J!CompleteHourly) \/ On("journal", J!FailHourly) \/ On("journal", J!Tick)
  \/ \E e \in Envs : On("journal", J!Restart(e))

GateNext == ReportSteps \/ JournalSteps
GateSpec == GateInit /\ [][GateNext]_gateVars /\ ReportFairness /\ J!JournalFairness

\* The journal's promise: every hour that ends is reported.
DueReported == J!DueReported
=============================================================================
