---------------------------- MODULE ReportOutbox ----------------------------
(***************************************************************************)
(* Report windows and mail of the creation gate (celld/native/reports.ts,  *)
(* reporting-core.ts, class CreationGate of worker.ts): what a report may   *)
(* claim to have counted, and who may be sent a mail that waits while the  *)
(* owner changes the settings.                                             *)
(*                                                                         *)
(* Settings are fixed for a process and change by redeployment.  The gate  *)
(* observes them at every event it handles, so that a time in which        *)
(* reports were off is a gap.  The alarm handler closes an hourly window,  *)
(* then delivers; at most one runs (this.reporting).  Cron closes the      *)
(* 12-hour windows.  The journal's recovery is CreationJournal.tla's; here *)
(* a creation is recorded in the step that makes it.  Test mails are left  *)
(* out.                                                                    *)
(***************************************************************************)
EXTENDS Integers, FiniteSets, FiniteSetsExt

CONSTANTS
  Owner,         \* mail addresses
  NoOwner,       \* OWNER_EMAIL is not set, or no recipient is known
  Settings,      \* REPORTS_ENABLED, REPORT_CONTENT, OWNER_EMAIL of the deployments
  FirstSettings, \* those of the first one
  HourTicks,     \* ticks of an hourly window
  HalfTicks,     \* ticks of a 12-hour window
  MaxNow         \* bound: ticks

Setting == [on : BOOLEAN, content : BOOLEAN, owner : Owner \cup {NoOwner}]

ASSUME ReportAssumption ==
  /\ NoOwner \notin Owner /\ Settings \subseteq Setting /\ FirstSettings \in Settings
  /\ {HourTicks, HalfTicks} \subseteq Nat \ {0} /\ MaxNow \in Nat

VARIABLES
  env,       \* the settings of the process
  now,       \* the clock
  tracking,  \* report_tracking: enabled when last observed, and when that was
  gaps,      \* report_tracking_gaps
  window,    \* report_windows: start, end and a retry that is not due yet
  rows,      \* report_chats: the times of recorded creations
  mail,      \* report_outbox, and what each closed window reported
  alarm,     \* the gate has an alarm set
  a,         \* the alarm handler
  created,   \* history: the times of all creations
  barred     \* history: mails that waited under settings that forbid them

tables == <<tracking, gaps, window, rows, mail>>
vars == <<env, now, tables, alarm, a, created, barred>>

Null == -1
Hourly == "hourly-chats"
Count == "chat-count"
Names == {Hourly, Count}
Interval == [n \in Names |-> IF n = Hourly THEN HourTicks ELSE HalfTicks]
NoWindow == [start |-> Null, end |-> Null, retry |-> FALSE]
MailIds == Names \X (1 .. MaxNow)
\* wait: next_ms is in the future.  sentTo: history, whoever it was sent to.
NoMail == [state |-> "none", start |-> Null, count |-> 0, note |-> FALSE,
           sensitive |-> FALSE, to |-> NoOwner, wait |-> FALSE, sentTo |-> {}]
Idle == [pc |-> "idle", id |-> <<Hourly, 0>>, to |-> NoOwner, count |-> 0, note |-> FALSE]

Empty ==
  /\ now = 0
  /\ tracking = [on |-> FALSE, at |-> Null] /\ gaps = {}
  /\ window = [n \in Names |-> NoWindow]
  /\ rows = {} /\ mail = [id \in MailIds |-> NoMail]
  /\ alarm = FALSE /\ a = Idle
  /\ created = {} /\ barred = {}
Init == Empty /\ env = FirstSettings

Pending == {id \in MailIds : mail[id].state = "pending"}

-----------------------------------------------------------------------------
(* Settings: applyPolicy, observe and ensure *)

\* reportRecipient: the owner that is set, or any the platform names.
Recipient == IF env.owner = NoOwner THEN Owner ELSE {env.owner}
\* next: there is something to wake up for while reports are on, as a window is
\* always open then, and nothing while they are off.
SomethingNext == env.on
\* scheduleReports: an alarm for it, or none.
ScheduleReports == alarm' = SomethingNext

Forbidden(m, e) ==
  \/ ~e.content /\ m.sensitive
  \/ e.owner # NoOwner /\ m.to # NoOwner /\ m.to # e.owner

\* Names with a suffix are plausible mistakes, used to test the properties.
\* Mails that wait for a retry are left alone.
Policy_DueOnly(e) ==
  [id \in MailIds |-> IF id \in Pending /\ ~mail[id].wait /\ Forbidden(mail[id], e)
                      THEN [mail[id] EXCEPT !.state = "cancelled"] ELSE mail[id]]
\* applyPolicy: every pending mail the settings forbid is cancelled for good.
Policy(e) ==
  [id \in MailIds |-> IF id \in Pending /\ Forbidden(mail[id], e)
                      THEN [mail[id] EXCEPT !.state = "cancelled"] ELSE mail[id]]

\* Only an enabled gate observes.
Gaps_OnOnly == gaps
\* observe: the gaps.  One begins when reports were last seen on, and ends
\* when they are seen on again.
Gaps ==
  CASE tracking.at = Null /\ ~env.on -> gaps \cup {[start |-> now, end |-> Null]}
    [] tracking.on /\ ~env.on        -> gaps \cup {[start |-> tracking.at, end |-> Null]}
    [] ~tracking.on /\ env.on        -> {IF g.end = Null THEN [g EXCEPT !.end = now] ELSE g : g \in gaps}
    [] OTHER                         -> gaps
Opened(n) ==
  IF env.on /\ window[n] = NoWindow
  THEN [start |-> now, end |-> (now \div Interval[n] + 1) * Interval[n], retry |-> FALSE]
  ELSE window[n]

\* ensure, at the beginning of every event of the gate.
Observe == tracking' = [on |-> env.on, at |-> now] /\ gaps' = Gaps
Ensure == Observe /\ window' = [n \in Names |-> Opened(n)]

-----------------------------------------------------------------------------
(* Windows: due, count, incomplete and complete *)

Due(n) == window[n] # NoWindow /\ window[n].end <= now /\ ~window[n].retry
CountRows(w) == Cardinality({t \in rows : w.start <= t /\ t < w.end})

Incomplete(w) ==
  \E g \in gaps : g.start < w.end /\ (g.end = Null \/ (g.end > w.start /\ g.end > g.start))

\* The window that follows begins when its report is made.
Following_Now(n) == [start |-> now, end |-> window[n].end + Interval[n], retry |-> FALSE]
Following(n) == [start |-> window[n].end, end |-> window[n].end + Interval[n], retry |-> FALSE]

\* complete: one mail, identified by the window's end, and the next window.  An
\* hour without creations is silent.
CompleteWindow(n, count, note, sensitive) ==
  LET w == window[n]
      silent == n = Hourly /\ count = 0 /\ ~note
  IN  /\ mail' = IF mail[<<n, w.end>>] # NoMail THEN mail
                 ELSE [mail EXCEPT ![<<n, w.end>>] =
                   [state |-> IF silent THEN "silent" ELSE "pending", start |-> w.start,
                    count |-> count, note |-> note, sensitive |-> sensitive,
                    to |-> IF silent THEN NoOwner ELSE env.owner, wait |-> FALSE, sentTo |-> {}]]
      /\ window' = [window EXCEPT ![n] = Following(n)]

\* Rows and gaps are dropped when the hourly report is done with them.
Cleanup_Hourly ==
  LET start == window[Hourly].start
  IN  /\ rows' = {t \in rows : t >= start}
      /\ gaps' = {g \in gaps : g.end = Null \/ g.end > start}
\* cleanup: what both windows have passed.
Cleanup ==
  LET start == Min({window[n].start : n \in Names})
  IN  /\ rows' = {t \in rows : t >= start}
      /\ gaps' = {g \in gaps : g.end = Null \/ g.end > start}

-----------------------------------------------------------------------------
(* The gate's requests *)

\* create, once a tick and not in the last, of which no window ends; with
\* reports off nothing is recorded, but the gap is.
Create ==
  /\ now \notin created /\ now < MaxNow /\ created' = created \cup {now}
  /\ Ensure
  /\ rows' = IF env.on THEN rows \cup {now} ELSE rows
  /\ mail' = IF env.on THEN mail ELSE Policy(env)
  /\ ScheduleReports
  /\ UNCHANGED <<env, now, a, barred>>

\* cron: a due 12-hour window is counted and reported, never with content
\* (further ones in further steps of the same turn).
CountReport ==
  /\ Observe
  /\ IF Due(Count)
     THEN CompleteWindow(Count, CountRows(window[Count]), Incomplete(window[Count]), FALSE)
     ELSE window' = [n \in Names |-> Opened(n)] /\ UNCHANGED mail
\* scheduled: sent while reports are on; then the alarm.
Cron ==
  /\ env.on /\ CountReport
  /\ ScheduleReports
  /\ UNCHANGED <<env, now, rows, a, created, barred>>

-----------------------------------------------------------------------------
(* The alarm handler: the hourly window *)

\* An alarm that finds reports off deletes itself; a safety alarm is set else.
AlarmFires ==
  /\ alarm /\ a.pc = "idle"
  /\ mail' = Policy(env)
  /\ Ensure
  /\ IF env.on THEN alarm' = TRUE /\ a' = [Idle EXCEPT !.pc = "recover"]
     ELSE alarm' = FALSE /\ UNCHANGED a
  /\ UNCHANGED <<env, now, rows, created, barred>>

\* The recovery of creations failed, or the handler did: the alarm is set again.
AlarmFails ==
  /\ a.pc = "recover" /\ a' = Idle /\ alarm' = TRUE
  /\ UNCHANGED <<env, now, tables, created, barred>>

\* hourly: a due window is counted and its chats are asked.
Recovered ==
  /\ a.pc = "recover"
  /\ Ensure
  /\ a' = IF Due(Hourly)
          THEN [Idle EXCEPT !.pc = "prepare", !.id = <<Hourly, window[Hourly].end>>,
                  !.count = CountRows(window[Hourly]), !.note = Incomplete(window[Hourly])]
          ELSE [Idle EXCEPT !.pc = "deliver"]
  /\ UNCHANGED <<env, now, rows, mail, alarm, created, barred>>

\* /_report: whether the chats that were asked gave content.  A chat that is
\* encrypted, gone or silent gives none, nor does any while it is not allowed.
Contents == {FALSE, env.content /\ a.count > 0}
\* The summary is there, with content or without.
Prepared ==
  /\ a.pc = "prepare"
  /\ \E sensitive \in Contents :
       CompleteWindow(Hourly, a.count, a.note, sensitive)
  /\ a' = [Idle EXCEPT !.pc = "deliver"]
  /\ UNCHANGED <<env, now, tracking, gaps, rows, alarm, created, barred>>
PrepareFails ==
  /\ a.pc = "prepare"
  /\ window' = [window EXCEPT ![Hourly].retry = TRUE]
  /\ a' = [Idle EXCEPT !.pc = "deliver"]
  /\ UNCHANGED <<env, now, tracking, gaps, rows, mail, alarm, created, barred>>

-----------------------------------------------------------------------------
(* The alarm handler: deliver *)

Ready == {id \in Pending : ~mail[id].wait}

\* The policy is applied, then a due mail (the oldest, which no property tells
\* apart) is leased before anything is asked of others.
Pick(id) ==
  /\ a.pc = "deliver" /\ id \in Ready /\ Policy(env)[id].state = "pending"
  /\ mail' = [Policy(env) EXCEPT ![id].wait = TRUE]
  /\ a' = [Idle EXCEPT !.pc = IF mail[id].to = NoOwner THEN "lookup" ELSE "check",
                       !.id = id, !.to = mail[id].to]
  /\ UNCHANGED <<env, now, tracking, gaps, window, rows, alarm, created, barred>>

\* The recipient is remembered by the handler only.
Lookup_NotStored(to) ==
  /\ a.pc = "lookup"
  /\ a' = [a EXCEPT !.pc = "check", !.to = to]
  /\ UNCHANGED <<env, now, tables, alarm, created, barred>>
\* The owner as the platform knows it now, made durable before any mail.
Lookup(to) ==
  /\ a.pc = "lookup" /\ to \in Recipient
  /\ mail' = [mail EXCEPT ![a.id].to = IF @ = NoOwner THEN to ELSE @]
  /\ a' = [a EXCEPT !.pc = "check", !.to = to]
  /\ UNCHANGED <<env, now, tracking, gaps, window, rows, alarm, created, barred>>

\* sendReport: the provider has the mail, whatever becomes of its answer.
SendReport(mails, id, to) == [mails EXCEPT ![id].sentTo = @ \cup {to}]
\* The last local decision: a cancelled mail is passed over, else it is sent.
LastCheck ==
  /\ a.pc = "check"
  /\ LET kept == Policy(env)
     IN  IF kept[a.id].state = "cancelled"
         THEN mail' = kept /\ a' = [Idle EXCEPT !.pc = "deliver"]
         ELSE /\ mail' = SendReport(kept, a.id, a.to)
              /\ a' = [a EXCEPT !.pc = "sending"]
  /\ UNCHANGED <<env, now, tracking, gaps, window, rows, alarm, created, barred>>

\* The answer is not written down.
Sent_Unmarked ==
  /\ a.pc = "sending"
  /\ a' = [Idle EXCEPT !.pc = "deliver"]
  /\ UNCHANGED <<env, now, tables, alarm, created, barred>>
\* The provider accepted the mail.
Sent ==
  /\ a.pc = "sending"
  /\ mail' = [mail EXCEPT ![a.id].state = "sent"]
  /\ a' = [Idle EXCEPT !.pc = "deliver"]
  /\ UNCHANGED <<env, now, tracking, gaps, window, rows, alarm, created, barred>>

\* The lookup failed or the mail was not confirmed: it stays, with a backoff.
Failed ==
  /\ a.pc \in {"lookup", "sending"}
  /\ mail' = [mail EXCEPT ![a.id].wait = TRUE]
  /\ a' = [Idle EXCEPT !.pc = "deliver"]
  /\ UNCHANGED <<env, now, tracking, gaps, window, rows, alarm, created, barred>>

\* Nothing is due: cleanup and scheduleReports, which always finds a window.
AlarmEnds ==
  /\ a.pc = "deliver" /\ Ready = {}
  /\ Cleanup
  /\ a' = Idle /\ ScheduleReports
  /\ UNCHANGED <<env, now, tracking, window, mail, created, barred>>

-----------------------------------------------------------------------------
(* Time and redeployment *)

Tick ==
  /\ now < MaxNow /\ now' = now + 1
  /\ UNCHANGED <<env, tables, alarm, a, created, barred>>

\* A backoff ends.
MailDue(id) ==
  /\ id \in Pending /\ mail[id].wait
  /\ mail' = [mail EXCEPT ![id].wait = FALSE]
  /\ UNCHANGED <<env, now, tracking, gaps, window, rows, alarm, a, created, barred>>
WindowDue ==
  /\ window[Hourly].retry
  /\ window' = [window EXCEPT ![Hourly].retry = FALSE]
  /\ UNCHANGED <<env, now, tracking, gaps, rows, mail, alarm, a, created, barred>>

\* The process is lost and starts again with the settings e, later than what it
\* last observed; the constructor applies the policy, an interrupted alarm is
\* run again.
Restart(e) ==
  /\ tracking.at < now
  /\ env' = e
  /\ a' = Idle
  /\ mail' = Policy(e)
  /\ barred' = barred \cup {id \in Pending : Forbidden(mail[id], e)}
  /\ UNCHANGED <<tracking, gaps, window, rows, alarm, created, now>>

Next ==
  \/ Create \/ Cron
  \/ AlarmFires \/ AlarmFails \/ Recovered \/ Prepared \/ PrepareFails
  \/ \E id \in MailIds : Pick(id) \/ MailDue(id)
  \/ \E to \in Owner : Lookup(to)
  \/ LastCheck \/ Sent \/ Failed \/ AlarmEnds
  \/ Tick \/ WindowDue
  \/ \E e \in Settings : Restart(e)

Spec == Init /\ [][Next]_vars

\* Alarms and cron calls are delivered, the handler goes on, backoffs end; and of
\* what is tried again and again recovery succeeds, and of summaries, lookups and
\* mails something now and then.
ReportFairness ==
  /\ WF_vars(Cron) /\ WF_vars(AlarmFires) /\ SF_vars(Recovered)
  /\ WF_vars(\E id \in MailIds : Pick(id)) /\ WF_vars(AlarmEnds) /\ WF_vars(LastCheck)
  /\ SF_vars(Prepared \/ Sent \/ \E to \in Owner : Lookup(to))
  /\ WF_vars(\E id \in MailIds : MailDue(id)) /\ WF_vars(WindowDue)
FairSpec == Spec /\ ReportFairness

-----------------------------------------------------------------------------
(* Properties *)

\* Every variable holds what the code stores; windows follow each other without
\* a hole or an overlap, each with its one report (complete).
TypeOK ==
  /\ env \in Settings /\ now \in 0 .. MaxNow /\ rows \subseteq created
  /\ tracking.at \in -1 .. now
  /\ Cardinality({g \in gaps : g.end = Null}) <= 1
  /\ \A n \in Names : window[n] # NoWindow =>
       /\ window[n].start <= now /\ window[n].end % Interval[n] = 0
       /\ \A e \in 1 .. MaxNow : mail[<<n, e>>] # NoMail => e <= window[n].start
       /\ \/ \A e \in 1 .. MaxNow : mail[<<n, e>>] = NoMail
          \/ mail[<<n, window[n].start>>] # NoMail
  /\ \A id \in MailIds : mail[id].state \in {"none", "silent", "pending", "sent", "cancelled"}
  /\ a.pc \in {"idle", "recover", "prepare", "deliver", "lookup", "check", "sending"}

\* A report that does not say that its coverage is incomplete counted every
\* creation of its interval, whatever was switched off and on, restarted and
\* cleaned up in between; any report counted creations only (observe,
\* incomplete, cleanup).
CoverageHonest ==
  \A id \in MailIds : mail[id] # NoMail =>
    LET real == Cardinality({t \in created : mail[id].start <= t /\ t < id[2]})
    IN  mail[id].count <= real /\ (~mail[id].note => mail[id].count = real)

\* A mail is sent to one reader at most, however often it is tried again, under
\* whatever owner and lookup; and one that waited while the settings forbade it
\* is never sent afterwards, also when they allow it again (the comments of
\* deliver: cancellation is durable and never reversed by a subsequent opt-in).
RightReader ==
  /\ TypeOK
  /\ \A id \in MailIds : Cardinality(mail[id].sentTo) <= 1
  /\ \A id \in barred : a.id = id => a.pc \notin {"lookup", "check", "sending"}

\* While reports stay on every window that ends is reported and every mail is
\* sent or cancelled in the end.
ReportsSettle ==
  []<>(~env.on \/ (Pending = {} /\ \A n \in Names : window[n].end > now))

=============================================================================
