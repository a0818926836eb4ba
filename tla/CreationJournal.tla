--------------------------- MODULE CreationJournal ---------------------------
(***************************************************************************)
(* Creating a chat crosses two durable objects (celld/native/worker.ts).   *)
(* The single CreationGate writes a journal row for the attempt, asks the  *)
(* Chat object to create the channel, then charges the source's quota and  *)
(* marks the row recorded.  Rows a crash or a lost reply left pending are  *)
(* replayed by the gate's alarm and by its cron call before either closes  *)
(* a report window; the Chat answers a replay from its creation receipts.  *)
(*                                                                         *)
(* The gate's promise queue runs one handler at a time, so "gate" is the   *)
(* one handler; it yields only while it awaits a Chat.  A Chat handles     *)
(* _create in one turn.  Work outside the queue is the alarm's hourly      *)
(* summary ("prep").  Process loss is possible at every yield, and a       *)
(* redeployment is a process loss that also changes the environment.       *)
(*                                                                         *)
(* A client is one source address and one authorization hash.  A call the  *)
(* Chat has not executed when the gate's process is lost never executes.   *)
(* The 12-hour windows, coverage gaps and mail are ReportOutbox.tla's.     *)
(***************************************************************************)
EXTENDS Integers, FiniteSets, FiniteSetsExt

CONSTANTS
  Chats, Clients,
  Managed,       \* chats created while MANAGEMENT_ENABLED is 1
  Envs,          \* environments a redeployment can install
  Capacity,      \* creation tokens of a source (100 in the code)
  RecoverLimit,  \* rows one recovery replays (10 in the code)
  MaxEvents,     \* bound: creation attempts given an event id
  MaxHours,      \* bound: hours that pass
  MaxCrashes     \* bound: process losses

Events == 1 .. MaxEvents
None == 0
Env == [reports: BOOLEAN, mode: {0, 1}]
Boot == [reports |-> TRUE, mode |-> 0]
Codes == {"none", "204", "409", "410", "412", "error"}

ASSUME JournalAssumption ==
  /\ Managed \subseteq Chats /\ Envs \subseteq Env
  /\ Capacity \in Nat /\ RecoverLimit \in Nat \ {0}
  /\ MaxEvents \in Nat /\ MaxHours \in Nat /\ MaxCrashes \in Nat

VARIABLES
  env,       \* REPORTS_ENABLED and the encryption mode
  attempt,   \* per event id used so far: chat, client, mode, hour, journaled
  journal,   \* report_chats: per event, no row, pending or recorded
  tokens,    \* quotas: per client
  alarm,     \* the gate has an alarm set
  gate,      \* the handler at the head of the gate's queue
  prep,      \* the hourly window being summarized and the rows it counted
  window,    \* report_windows: start of the open hourly window
  chat,      \* per chat: its channel row, lifecycle record and last backup
  receipts,  \* per chat: creation_receipts
  hour, crashes,
  births,    \* history: how often a channel was inserted for the event
  charges,   \* history: how often the event was charged
  acked,     \* history: the <<client, event>> pairs answered 303
  counted    \* history: the events completed hourly reports counted

gateVars == <<attempt, journal, tokens, alarm, gate, prep, window>>
chatVars == <<chat, receipts, births>>
history  == <<charges, acked, counted>>
vars == <<env, gateVars, chatVars, hour, crashes, history>>

Used    == DOMAIN attempt
Fresh   == Cardinality(Used) + 1
Pending == {e \in Used : journal[e] = "pending"}
NoChannel == [gen |-> None, auth |-> None]

Idle == [pc |-> "idle", job |-> "none", ev |-> None, by |-> None, mode |-> 0,
         tokens |-> 0, code |-> "none", todo |-> {}]
NoPrep == [win |-> -1, rows |-> {}]

Empty ==
  /\ env = Boot
  /\ attempt = <<>>
  /\ journal = [e \in Events |-> "none"]
  /\ tokens = [a \in Clients |-> Capacity]
  /\ gate = Idle /\ prep = NoPrep /\ window = 0
  /\ chat = [c \in Chats |-> [live |-> NoChannel, record |-> FALSE, backup |-> NoChannel]]
  /\ receipts = [c \in Chats |-> {}]
  /\ hour = 0 /\ crashes = 0
  /\ births = [e \in Events |-> 0] /\ charges = [e \in Events |-> 0]
  /\ acked = {} /\ counted = {}
Init == Empty /\ alarm = TRUE

-----------------------------------------------------------------------------
(* The gate: a create request *)

\* route: a Worker forwards a request only in the mode it is deployed with.  While
\* a deployment spreads, the Worker may be ahead of the gate or behind it.
Routed == {e.mode : e \in Envs \cup {Boot}}

\* The pending attempt for c, which a retry with the same hash takes over.
PendingFor(c) == {e \in Pending : attempt[e].chat = c}

\* A plausible mistake: a retry takes over a pending attempt of another hash.
BeginCreate_AnyHash(a, c, mode) ==
  /\ gate.pc = "idle" /\ tokens[a] >= 1
  /\ LET retry == env.reports /\ PendingFor(c) # {}
         e == IF retry THEN CHOOSE p \in PendingFor(c) : TRUE ELSE Fresh
     IN  /\ e \in Events
         /\ attempt' = IF retry THEN attempt
                       ELSE [x \in Used \cup {e} |-> IF x = e
                              THEN [chat |-> c, client |-> a, mode |-> mode,
                                    at |-> hour, journaled |-> env.reports]
                              ELSE attempt[x]]
         /\ journal' = [journal EXCEPT ![e] = IF env.reports THEN "pending" ELSE @]
         /\ gate' = [Idle EXCEPT !.pc = "call", !.job = "create", !.ev = e, !.by = a,
                                 !.mode = mode, !.tokens = tokens[a]]
  /\ alarm' = (alarm \/ env.reports)
  /\ UNCHANGED <<env, tokens, prep, window, chatVars, hour, crashes, history>>

\* create up to its first await of the Chat: with reports on, the journal row
\* is durable before the call; with reports off the call carries no event id.
BeginCreate(a, c, mode) ==
  /\ gate.pc = "idle" /\ tokens[a] >= 1
  /\ env.reports => \A e \in PendingFor(c) : attempt[e].client = a
  /\ LET retry == env.reports /\ PendingFor(c) # {}
         e == IF retry THEN CHOOSE p \in PendingFor(c) : TRUE ELSE Fresh
     IN  /\ e \in Events
         /\ attempt' = IF retry THEN attempt
                       ELSE [x \in Used \cup {e} |-> IF x = e
                              THEN [chat |-> c, client |-> a, mode |-> mode,
                                    at |-> hour, journaled |-> env.reports]
                              ELSE attempt[x]]
         /\ journal' = [journal EXCEPT ![e] = IF env.reports THEN "pending" ELSE @]
         /\ gate' = [Idle EXCEPT !.pc = "call", !.job = "create", !.ev = e, !.by = a,
                                 !.mode = mode, !.tokens = tokens[a]]
  /\ alarm' = (alarm \/ env.reports)
  /\ UNCHANGED <<env, tokens, prep, window, chatVars, hour, crashes, history>>

\* create after the Chat answered.  Only 204 charges and records; 409 and 412
\* withdraw the row; any other answer leaves it for a replay.
EndCreate ==
  /\ gate.pc = "answer" /\ gate.job = "create"
  /\ LET e == gate.ev
         journaled == attempt[e].journaled
     IN  \/ /\ gate.code = "204"
            /\ tokens' = [tokens EXCEPT ![gate.by] = Min({Capacity, gate.tokens - 1})]
            /\ journal' = [journal EXCEPT ![e] = IF journaled THEN "recorded" ELSE @]
            /\ alarm' = env.reports
            /\ charges' = [charges EXCEPT ![e] = @ + 1]
            /\ acked' = acked \cup {<<gate.by, e>>}
         \/ /\ gate.code # "204"
            /\ journal' = [journal EXCEPT ![e] =
                             IF journaled /\ gate.code \in {"409", "412"} THEN "none" ELSE @]
            /\ UNCHANGED <<tokens, alarm, charges, acked>>
  /\ gate' = Idle
  /\ UNCHANGED <<env, attempt, prep, window, chatVars, hour, crashes, counted>>

-----------------------------------------------------------------------------
(* The Chat: _create *)

\* A plausible mistake: a replay of an attempt that ran is not recognized.
CreateReply_NoReceipt(e, c) ==
  IF gate.mode # env.mode THEN "412"
  ELSE IF chat[c].live.gen = e /\ attempt[e].journaled THEN "204"
  ELSE IF chat[c].live # NoChannel THEN "409"
  ELSE IF chat[c].record THEN "410"
  ELSE "insert"

\* A plausible mistake: the settings are checked before the receipt.
CreateReply_ModeFirst(e, c) ==
  IF gate.mode # env.mode THEN "412"
  ELSE IF attempt[e].journaled /\ e \in receipts[c] THEN "204"
  ELSE IF chat[c].live.gen = e /\ attempt[e].journaled THEN "204"
  ELSE IF chat[c].live # NoChannel THEN "409"
  ELSE IF chat[c].record THEN "410"
  ELSE "insert"

\* The answer to the call the gate awaits; "insert" is a 204 that creates.
CreateReply(e, c) ==
  IF attempt[e].journaled /\ e \in receipts[c] THEN "204"
  ELSE IF gate.mode # env.mode THEN "412"
  ELSE IF chat[c].live.gen = e /\ attempt[e].journaled THEN "204"
  ELSE IF chat[c].live # NoChannel THEN "409"
  ELSE IF chat[c].record THEN "410"
  ELSE "insert"

\* The Chat runs _create in one turn, with the channel row, its receipt and
\* its lifecycle record in one transaction.
RunCreate ==
  LET e == gate.ev
      c == attempt[e].chat
  IN  IF CreateReply(e, c) = "insert"
      THEN /\ chat' = [chat EXCEPT ![c].live = [gen |-> e, auth |-> gate.by],
                                   ![c].record = c \in Managed]
           /\ receipts' = [receipts EXCEPT ![c] = IF attempt[e].journaled THEN @ \cup {e} ELSE @]
           /\ births' = [births EXCEPT ![e] = @ + 1]
      ELSE UNCHANGED chatVars

\* The Chat executes the call and its answer arrives.
CallAnswered(e) ==
  /\ gate.pc = "call" /\ gate.ev = e
  /\ RunCreate
  /\ gate' = [gate EXCEPT !.pc = "answer",
       !.code = LET r == CreateReply(e, attempt[e].chat) IN IF r = "insert" THEN "204" ELSE r]
  /\ UNCHANGED <<env, attempt, journal, tokens, alarm, prep, window, hour, crashes, history>>

\* The call fails before the Chat executes it, or its answer is lost after.
CallLost ==
  /\ gate.pc = "call"
  /\ RunCreate \/ UNCHANGED chatVars
  /\ gate' = [gate EXCEPT !.pc = "answer", !.code = "error"]
  /\ UNCHANGED <<env, attempt, journal, tokens, alarm, prep, window, hour, crashes, history>>

\* DELETE by a capability or the chat's expiry.  A managed chat keeps its
\* lifecycle record and a backup of the channel row; receipts always stay.
DeleteChat(c) ==
  /\ chat[c].live # NoChannel
  /\ chat' = [chat EXCEPT ![c].live = NoChannel,
                          ![c].backup = IF chat[c].record THEN chat[c].live ELSE @]
  /\ UNCHANGED <<env, gateVars, receipts, births, hour, crashes, history>>

\* An administrator restores a deleted managed chat from its backup.
RestoreChat(c) ==
  /\ chat[c].record /\ chat[c].live = NoChannel
  /\ chat' = [chat EXCEPT ![c].live = chat[c].backup]
  /\ UNCHANGED <<env, gateVars, receipts, births, hour, crashes, history>>

-----------------------------------------------------------------------------
(* The gate: replaying pending rows *)

\* The oldest rows, at most RecoverLimit of them (event ids are in time order).
Batch == {e \in Pending : Cardinality({p \in Pending : p < e}) < RecoverLimit}

\* recoverCreations starts in the queue, for the alarm or for a cron request.
BeginRecovery(job) ==
  /\ gate.pc = "idle" /\ env.reports
  /\ job = "alarm" => alarm /\ prep = NoPrep
  /\ gate' = [Idle EXCEPT !.pc = "replay", !.job = job, !.todo = Batch]
  /\ alarm' = (alarm \/ job = "alarm")
  /\ UNCHANGED <<env, attempt, journal, tokens, prep, window, chatVars, hour, crashes, history>>

\* An alarm that finds reports disabled deletes itself.
AlarmWhileDisabled ==
  /\ alarm /\ ~env.reports
  /\ alarm' = FALSE
  /\ UNCHANGED <<env, attempt, journal, tokens, gate, prep, window, chatVars, hour, crashes, history>>

\* A plausible mistake: the row stays on the list of rows to replay.
ReplayNext_Again ==
  /\ gate.pc = "replay" /\ gate.todo # {}
  /\ LET e == Min(gate.todo)
     IN  gate' = [gate EXCEPT !.pc = "call", !.ev = e, !.by = attempt[e].client,
                              !.mode = attempt[e].mode]
  /\ UNCHANGED <<env, attempt, journal, tokens, alarm, prep, window, chatVars, hour, crashes, history>>

\* The next row is sent as it was first asked for.
ReplayNext ==
  /\ gate.pc = "replay" /\ gate.todo # {}
  /\ LET e == Min(gate.todo)
     IN  gate' = [gate EXCEPT !.pc = "call", !.ev = e, !.by = attempt[e].client,
                              !.mode = attempt[e].mode, !.todo = @ \ {e}]
  /\ UNCHANGED <<env, attempt, journal, tokens, alarm, prep, window, chatVars, hour, crashes, history>>

\* A plausible mistake: a replay the Chat refuses with 409 keeps its row.
ReplayAnswered_Keeps409 ==
  /\ gate.pc = "answer" /\ gate.job \in {"alarm", "cron"}
  /\ \/ /\ gate.code = "204"
        /\ journal' = [journal EXCEPT ![gate.ev] = "recorded"]
        /\ gate' = [gate EXCEPT !.pc = "replay"]
     \/ /\ gate.code = "412"
        /\ journal' = [journal EXCEPT ![gate.ev] = "none"]
        /\ gate' = [gate EXCEPT !.pc = "replay"]
     \/ /\ gate.code \notin {"204", "412"}
        /\ gate' = Idle
        /\ UNCHANGED journal
  /\ UNCHANGED <<env, attempt, tokens, alarm, prep, window, chatVars, hour, crashes, history>>

\* 204 records the row, 409 and 412 withdraw it, anything else ends the job.
ReplayAnswered ==
  /\ gate.pc = "answer" /\ gate.job \in {"alarm", "cron"}
  /\ \/ /\ gate.code = "204"
        /\ journal' = [journal EXCEPT ![gate.ev] = "recorded"]
        /\ gate' = [gate EXCEPT !.pc = "replay"]
     \/ /\ gate.code \in {"409", "412"}
        /\ journal' = [journal EXCEPT ![gate.ev] = "none"]
        /\ gate' = [gate EXCEPT !.pc = "replay"]
     \/ /\ gate.code \notin {"204", "409", "412"}
        /\ gate' = Idle
        /\ UNCHANGED journal
  /\ UNCHANGED <<env, attempt, tokens, alarm, prep, window, chatVars, hour, crashes, history>>

\* The rows of the open window, and whether it has ended.
WindowRows == {e \in Used : journal[e] = "recorded" /\ attempt[e].at = window}
WindowDue  == window < hour

\* Every row was replayed.  With rows left beyond the batch the job fails;
\* otherwise the alarm counts the due window in the same turn and goes on to
\* summarize it outside the queue, and cron sets the alarm.
EndRecovery ==
  /\ gate.pc = "replay" /\ gate.todo = {}
  /\ gate' = Idle
  /\ prep' = IF gate.job = "alarm" /\ Pending = {} /\ WindowDue
             THEN [win |-> window, rows |-> WindowRows] ELSE prep
  /\ alarm' = (alarm \/ Pending = {})
  /\ UNCHANGED <<env, attempt, journal, tokens, window, chatVars, hour, crashes, history>>

\* complete: the report is queued and the window advanced in one transaction.
CompleteHourly ==
  /\ prep # NoPrep
  /\ counted' = counted \cup prep.rows
  /\ window' = window + 1
  /\ prep' = NoPrep
  /\ UNCHANGED <<env, attempt, journal, tokens, alarm, gate, chatVars, hour, crashes, charges, acked>>

\* A Chat or the summary provider failed: the window is tried again later.
FailHourly ==
  /\ prep # NoPrep
  /\ prep' = NoPrep
  /\ UNCHANGED <<env, attempt, journal, tokens, alarm, gate, window, chatVars, hour, crashes, history>>

-----------------------------------------------------------------------------
\* An hour passes; a source regains a token, also on the count a create has
\* read, which it will store with the time of that reading.
Tick ==
  /\ hour < MaxHours
  /\ hour' = hour + 1
  /\ tokens' = [a \in Clients |-> Min({Capacity, tokens[a] + 1})]
  /\ gate' = IF gate.job = "create" THEN [gate EXCEPT !.tokens = @ + 1] ELSE gate
  /\ UNCHANGED <<env, attempt, journal, alarm, prep, window, chatVars, crashes, history>>

\* The gate's process is lost, and comes back in the environment e.
Restart(e) ==
  /\ crashes < MaxCrashes
  /\ crashes' = crashes + 1
  /\ env' = e
  /\ gate' = Idle /\ prep' = NoPrep
  /\ UNCHANGED <<attempt, journal, tokens, alarm, window, chatVars, hour, history>>

Next ==
  \/ \E a \in Clients, c \in Chats, mode \in Routed : BeginCreate(a, c, mode)
  \/ EndCreate
  \/ \E e \in Events : CallAnswered(e)
  \/ CallLost
  \/ \E c \in Chats : DeleteChat(c) \/ RestoreChat(c)
  \/ \E job \in {"alarm", "cron"} : BeginRecovery(job)
  \/ AlarmWhileDisabled
  \/ ReplayNext \/ ReplayAnswered \/ EndRecovery
  \/ CompleteHourly \/ FailHourly
  \/ Tick
  \/ \E e \in Envs : Restart(e)

Spec == Init /\ [][Next]_vars

\* The queue is FIFO, so the alarm's recovery gets its turn; alarms are
\* re-delivered until they run; and of what is tried again and again, calls to
\* Chats and summaries of windows, something succeeds now and then.
JournalFairness ==
  /\ WF_vars(EndCreate) /\ WF_vars(ReplayNext) /\ WF_vars(ReplayAnswered) /\ WF_vars(EndRecovery)
  /\ SF_vars(BeginRecovery("alarm"))
  /\ SF_vars((\E e \in Events : CallAnswered(e)) \/ CompleteHourly)
FairSpec == Spec /\ JournalFairness

-----------------------------------------------------------------------------
(* Properties *)

\* Every variable holds what the code can store in it; a handler that awaits a
\* Chat works for an attempt that exists, and prep counts the open window.
TypeOK ==
  /\ env \in Env /\ alarm \in BOOLEAN
  /\ Used \subseteq Events
  /\ \A e \in Used : attempt[e] \in [chat: Chats, client: Clients, mode: {0, 1},
                                     at: 0 .. MaxHours, journaled: BOOLEAN]
  /\ journal \in [Events -> {"none", "pending", "recorded"}]
  /\ tokens \in [Clients -> 0 .. Capacity]
  /\ gate.pc \in {"idle", "call", "answer", "replay"} /\ gate.code \in Codes
  /\ gate.pc \in {"call", "answer"} => gate.ev \in Used /\ gate.by \in Clients
  /\ gate.todo \subseteq Pending
  /\ prep # NoPrep => prep.win = window /\ prep.rows \subseteq Used
  /\ \A c \in Chats : /\ chat[c].live.gen \in Used \cup {None}
                      /\ (chat[c].live = NoChannel) <=> (chat[c].live.gen = None)
                      /\ receipts[c] \subseteq Used
  /\ window \in 0 .. hour

\* No creation attempt inserts a channel twice, or is charged twice or without
\* one: a retry or a replay of one that already ran, whatever has been deleted,
\* restored, lost or redeployed since, never brings its chat back (_create's
\* receipt check) and charges nothing more (create's transaction of the charge
\* and the recorded mark; "no failed/conflicting creation consumes a token").
OncePerAttempt == \A e \in Events : charges[e] <= births[e] /\ births[e] <= 1

\* A client answered 303 owns the channel that attempt made: while a chat has
\* the generation of the attempt, it has that client's authorization hash, and
\* the attempt did insert a channel once (create's pending lookup and 204).
AckedOwnsChat == \A ack \in acked :
  LET e == ack[2]
      now == chat[attempt[e].chat].live
  IN  /\ births[e] > 0
      /\ now.gen = e => now.auth = ack[1]

\* A closed hourly window counted exactly the journaled attempts of its hour
\* that made a chat, those deleted since included: none is recorded too late
\* and none counted that was refused (recovery runs before the window closes,
\* and an attempt that ran keeps its row whatever the settings are now).
HourlyCountExact ==
  /\ TypeOK
  /\ \A e \in Used : attempt[e].journaled /\ births[e] > 0 /\ attempt[e].at < window
                       => e \in counted
  /\ \A e \in counted : births[e] > 0

\* Every hour that ends is reported: a pending creation is settled by a replay
\* and the hourly window advances (scheduled-reports.md: delayed calls catch
\* up persisted windows).
DueReported == []<>(window = hour)
=============================================================================
