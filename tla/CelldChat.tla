------------------------------ MODULE CelldChat ------------------------------
(***************************************************************************)
(* One unmanaged chat of the edge deployment (celld/native/worker.ts,      *)
(* class Chat): the compare-and-append log in a durable object, with       *)
(* posts that await their body and a moderation provider, long polls,      *)
(* companion links, deletion, expiry on access and by an alarm, and the    *)
(* same id created again.                                                  *)
(*                                                                         *)
(* The object is single-threaded: code between two awaits is one step, its *)
(* SQL writes and alarm calls are enqueued together, and a poll that was   *)
(* woken reads again before the object takes another event ("ready").      *)
(* An event is what it was authorized for; a link likewise.  Clients hold  *)
(* the key; authorization by generation is kept.  A managed chat is        *)
(* ResourceLifecycle.tla's, creation receipts are CreationJournal.tla's.   *)
(***************************************************************************)
EXTENDS Integers, Sequences, FiniteSets

CONSTANTS
  Client,      \* each with one request at a time
  MaxEvents,   \* events of a chat (limits.events)
  PageEvents,  \* events of a page (limits.page)
  Retention,   \* chats expire
  MaxGen       \* bound: how often the chat is created

ASSUME ChatAssumption ==
  /\ MaxEvents \in Nat \ {0} /\ PageEvents \in Nat \ {0}
  /\ Retention \in BOOLEAN /\ MaxGen \in Nat

VARIABLES
  live, gen,   \* the channel row, and the generation of the newest one
  log,         \* events: their sender, the generation they were authorized in,
               \* whether the sender had received all before them (history)
  links,       \* linked_spaces: the generation each link was authorized in
  old,         \* the last activity is longer ago than the retention
  alarm,       \* an alarm is set
  alarming,    \* the alarm handler awaits between expire and schedule
  h,           \* per client, the handler of its request
  cursor, fresh, \* per client: the last of its newest reply, its generation
  seen         \* per client: the events of the present generation it received

chatVars == <<live, gen, log, links, old, alarm>>
clientVars == <<cursor, fresh, seen>>
vars == <<chatVars, alarming, h, clientVars>>

Ops == {"poll", "post", "link", "unlink", "delete"}
Pcs == {"free", "arrived", "body", "screen", "commit", "posted", "ready", "waiting",
        "linkbody", "linking"}
Free == [pc |-> "free", op |-> "poll", since |-> -1, lin |-> 0, gen |-> 0, head |-> -1]
Seqs == -1 .. MaxEvents - 1
HeadSeq == Len(log) - 1

Init ==
  /\ live = FALSE /\ gen = 0 /\ log = <<>> /\ links = {}
  /\ old = FALSE /\ alarm = FALSE /\ alarming = FALSE
  /\ h = [c \in Client |-> Free]
  /\ cursor = [c \in Client |-> -1] /\ fresh = [c \in Client |-> 0]
  /\ seen = [c \in Client |-> {}]

At(c, pc) == h[c].pc = pc
Goto(c, pc) == [h EXCEPT ![c].pc = pc]
Done(c) == h' = [h EXCEPT ![c] = Free]

\* No woken poll is left to resume: the object takes the next event.
Settled == \A c \in Client : h[c].pc # "ready"

-----------------------------------------------------------------------------
(* erase, expire, notify and schedule *)

\* Names with a suffix are plausible mistakes, used to test the properties.
\* One waiter is woken instead of all.
Notify_One(k) ==
  LET asleep == {c \in Client : k[c].pc = "waiting"}
  IN  IF asleep = {} THEN k ELSE [k EXCEPT ![CHOOSE c \in asleep : TRUE].pc = "ready"]
\* notify: the handlers k, with every waiting poll woken.
Notify(k) ==
  [c \in Client |-> IF k[c].pc = "waiting" THEN [k[c] EXCEPT !.pc = "ready"] ELSE k[c]]

\* The links are forgotten.
Erase_KeepsLinks(k) ==
  /\ live' = FALSE /\ log' = <<>> /\ old' = FALSE /\ alarm' = FALSE
  /\ h' = Notify(k)
  /\ seen' = [c \in Client |-> {}]
  /\ UNCHANGED <<gen, links, cursor, fresh>>
\* erase and deleteAlarm, enqueued before the handler yields.  What clients
\* have seen is kept for the present generation only.
Erase(k) ==
  /\ live' = FALSE /\ log' = <<>> /\ links' = {} /\ old' = FALSE /\ alarm' = FALSE
  /\ h' = Notify(k)
  /\ seen' = [c \in Client |-> {}]
  /\ UNCHANGED <<gen, cursor, fresh>>

Overdue == live /\ Retention /\ old
\* await expire(): the handlers become k, and an overdue chat is erased.
Expire(k) == IF Overdue THEN Erase(k) ELSE h' = k /\ UNCHANGED <<chatVars, clientVars>>

\* schedule: an alarm for the present channel, or none.
Scheduled == live /\ Retention

\* The alarm handler ends without looking at the row again.
AlarmEnds_Unscheduled ==
  /\ alarming /\ alarming' = FALSE
  /\ UNCHANGED <<chatVars, h, clientVars>>

AlarmFires ==
  /\ alarm /\ ~alarming
  /\ alarming' = TRUE
  /\ IF Overdue THEN Erase(h)
     ELSE alarm' = FALSE /\ UNCHANGED <<live, gen, log, links, old, h, clientVars>>
AlarmEnds ==
  /\ alarming /\ alarming' = FALSE
  /\ alarm' = Scheduled
  /\ UNCHANGED <<live, gen, log, links, old, h, clientVars>>

-----------------------------------------------------------------------------
(* Requests: every handler first awaits expire *)

Arrive(c, op, since) ==
  /\ At(c, "free")
  /\ Expire([h EXCEPT ![c] = [pc |-> "arrived", op |-> op, since |-> since,
                              lin |-> fresh[c], gen |-> 0, head |-> -1]])
  /\ UNCHANGED alarming

\* _create by the gate for an id without a channel; any other is refused.
Create ==
  /\ ~live /\ gen < MaxGen
  /\ live' = TRUE /\ gen' = gen + 1 /\ old' = FALSE
  /\ alarm' = Retention
  /\ UNCHANGED <<log, links, alarming, h, clientVars>>

\* The channel is gone, or the request is refused without effect.
Refused(c) == Done(c) /\ UNCHANGED <<chatVars, clientVars>>

\* Pages after since end with these events; an empty one answers the head.
PageLasts(since) ==
  IF HeadSeq <= since THEN {HeadSeq}
  ELSE {n \in since + 1 .. HeadSeq : n <= since + PageEvents}

\* A reply whose last is in lasts, which the client receives or not.
Answer(c, lasts) ==
  /\ Done(c)
  /\ \/ UNCHANGED clientVars
     \/ \E last \in lasts :
          /\ cursor' = [cursor EXCEPT ![c] = last]
          /\ fresh' = [fresh EXCEPT ![c] =
               IF h[c].since = -1 \/ h[c].lin = gen THEN gen ELSE 0]
          /\ seen' = [seen EXCEPT ![c] = @ \cup (h[c].since + 1 .. last)]
  /\ UNCHANGED chatVars

\* One round of poll: a page, a missing channel, or to sleep in waiters with
\* the empty page of the present head.
PollRound(c) ==
  \/ ~live /\ Refused(c)
  \/ live /\ HeadSeq > h[c].since /\ Answer(c, PageLasts(h[c].since))
  \/ live /\ HeadSeq <= h[c].since
     /\ h' = [h EXCEPT ![c].pc = "waiting", ![c].head = HeadSeq]
     /\ UNCHANGED <<chatVars, clientVars>>
\* Past the deadline the empty page is answered, whatever happened meanwhile.
EmptyPage(c) == Answer(c, {h[c].head})

Poll(c) == At(c, "arrived") /\ h[c].op = "poll" /\ PollRound(c) /\ UNCHANGED alarming
Resume(c) == At(c, "ready") /\ (PollRound(c) \/ EmptyPage(c)) /\ UNCHANGED alarming
TimeOut(c) == At(c, "waiting") /\ EmptyPage(c) /\ UNCHANGED alarming

Delete(c) ==
  /\ At(c, "arrived") /\ h[c].op = "delete"
  /\ IF live THEN Erase([h EXCEPT ![c] = Free]) ELSE Refused(c)
  /\ UNCHANGED alarming

\* authorize, before the body is awaited: the generation it is for.
Authorize(c) ==
  /\ At(c, "arrived") /\ h[c].op \in {"post", "link", "unlink"}
  /\ IF live
     THEN /\ h' = [h EXCEPT ![c].gen = gen,
                            ![c].pc = IF h[c].op = "post" THEN "body" ELSE "linkbody"]
          /\ UNCHANGED <<chatVars, clientVars>>
     ELSE Refused(c)
  /\ UNCHANGED alarming

-----------------------------------------------------------------------------
(* post *)

\* check: the refusals, a missing channel and another generation among them,
\* or the conflict with its page.
Fits(c) == live /\ gen = h[c].gen /\ HeadSeq = h[c].since
Unfit(c) == \/ (~live \/ gen # h[c].gen) /\ Refused(c)
            \/ live /\ gen = h[c].gen /\ HeadSeq # h[c].since /\ Answer(c, PageLasts(h[c].since))
            \/ Fits(c) /\ Refused(c)        \* the count or the bytes are full

\* The body arrived, and the first check.
Body(c) ==
  /\ At(c, "body")
  /\ \/ Unfit(c)
     \/ /\ Fits(c) /\ Len(log) < MaxEvents
        /\ h' = Goto(c, "screen") /\ UNCHANGED <<chatVars, clientVars>>
  /\ UNCHANGED alarming

\* The provider answered (a refusal ends the post), and expire again.
Screen(c) ==
  /\ At(c, "screen")
  /\ Refused(c) \/ Expire(Goto(c, "commit"))
  /\ UNCHANGED alarming

Informed(c) == h[c].lin = gen => 0 .. HeadSeq \subseteq seen[c]
Append_(c) ==
  /\ log' = Append(log, [by |-> c, gen |-> h[c].gen, informed |-> Informed(c)])
  /\ old' = FALSE /\ alarm' = Retention
  /\ seen' = [seen EXCEPT ![c] = @ \cup {Len(log)}]
  /\ h' = Notify([h EXCEPT ![c] = [@ EXCEPT !.pc = "posted", !.since = Len(log),
                !.lin = IF h[c].lin = gen \/ h[c].since = -1 THEN gen ELSE 0]])
  /\ UNCHANGED <<live, gen, links, cursor, fresh>>

\* The transaction does not check again.
Commit_Unchecked(c) ==
  /\ At(c, "commit")
  /\ IF live /\ Len(log) < MaxEvents THEN Append_(c) ELSE Refused(c)
  /\ UNCHANGED alarming
\* The transaction checks again, appends, and refreshes activity and alarm.
Commit(c) ==
  /\ At(c, "commit")
  /\ \/ Unfit(c)
     \/ Fits(c) /\ Len(log) < MaxEvents /\ Append_(c)
  /\ UNCHANGED alarming

\* The alarm is set; the reply is that of a poll after the new event.
Posted(c) == At(c, "posted") /\ PollRound(c) /\ UNCHANGED alarming

-----------------------------------------------------------------------------
(* Companion links *)

\* The body arrived; the second authorize awaits expire.
LinkBody(c) ==
  /\ At(c, "linkbody")
  /\ Refused(c) \/ Expire(Goto(c, "linking"))
  /\ UNCHANGED alarming

\* Another generation is refused, else the link is stored or removed.
Link(c) ==
  /\ At(c, "linking")
  /\ IF live /\ gen = h[c].gen
     THEN /\ links' = IF h[c].op = "link" THEN links \cup {h[c].gen} ELSE {}
          /\ Done(c)
          /\ UNCHANGED <<live, gen, log, old, alarm, clientVars>>
     ELSE Refused(c)
  /\ UNCHANGED alarming

-----------------------------------------------------------------------------
\* The retention passes without activity.
Tick ==
  /\ live /\ ~old /\ old' = TRUE
  /\ UNCHANGED <<live, gen, log, links, alarm, alarming, h, clientVars>>

\* The object is evicted or lost: its handlers end, an alarm is run again.
Restart ==
  /\ h' = [c \in Client |-> Free]
  /\ alarming' = FALSE /\ alarm' = (alarm \/ alarming)
  /\ UNCHANGED <<live, gen, log, links, old, clientVars>>

Event(c) ==
  \/ \E since \in {cursor[c], -1} : Arrive(c, "poll", since)
  \/ \E op \in Ops \ {"poll"} : Arrive(c, op, cursor[c])
  \/ Poll(c) \/ TimeOut(c) \/ Delete(c) \/ Authorize(c)
  \/ Body(c) \/ Screen(c) \/ Commit(c) \/ Posted(c) \/ LinkBody(c) \/ Link(c)

Next ==
  \/ \E c \in Client : Resume(c)
  \/ Settled /\ (AlarmFires \/ AlarmEnds \/ Create \/ Tick)
  \/ Settled /\ \E c \in Client : Event(c)
  \/ Restart

Spec == Init /\ [][Next]_vars

\* A woken handler resumes, the alarm is delivered and its handler ends.
FairSpec ==
  /\ Spec
  /\ \A c \in Client : WF_vars(Resume(c))
  /\ WF_vars(Settled /\ AlarmFires) /\ WF_vars(Settled /\ AlarmEnds)

-----------------------------------------------------------------------------
(* Properties *)

\* Every variable holds what the code stores, a deleted chat keeps nothing,
\* and the event limit holds although it is checked before the awaits too.
TypeOK ==
  /\ live \in BOOLEAN /\ gen \in 0 .. MaxGen
  /\ Len(log) <= MaxEvents /\ links \subseteq 1 .. gen
  /\ ~live => log = <<>> /\ links = {} /\ ~old
  /\ alarm \in BOOLEAN /\ alarming \in BOOLEAN
  /\ \A c \in Client :
       /\ h[c].pc \in Pcs /\ h[c].op \in Ops
       /\ {h[c].since, h[c].head, cursor[c]} \subseteq Seqs
       /\ {h[c].lin, h[c].gen, fresh[c]} \subseteq 0 .. gen
       /\ seen[c] \subseteq 0 .. HeadSeq

\* What a chat stores was authorized in its present generation, and each event
\* is from a sender that had received all before it, given a cursor of this
\* generation: no post or link crosses an expiry, a deletion, a re-creation or
\* another post while it awaits its body, the provider or the expiry.  And when
\* the object takes an event no poll sleeps on a chat that is gone or that has
\* an event for it (register and snapshot without an await).
StoredInGeneration ==
  /\ TypeOK
  /\ \A i \in DOMAIN log : log[i].gen = gen /\ log[i].informed
  /\ links \subseteq {gen}
  /\ Settled => \A c \in Client : At(c, "waiting") => live /\ HeadSeq <= h[c].since

\* An abandoned chat is erased: whatever alarms, refreshes, deletions and new
\* creations overlapped, an alarm is left for it (expire, schedule).
ExpiresInTheEnd == Retention => []<>(~(live /\ old))

\* The log and what the clients have of it implement the abstract log while the
\* chat is created only once: events are only added, each by a client that has
\* all before it, and go only all together (commit, erase).
Cas == INSTANCE CasLog WITH
  alive <- live, log <- [i \in DOMAIN log |-> log[i].by], got <- seen
ImplementsCasLog == Cas!Spec
=============================================================================
