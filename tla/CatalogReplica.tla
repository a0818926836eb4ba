---------------------------- MODULE CatalogReplica ----------------------------
(***************************************************************************)
(* The management catalog's copy of one resource's record (celld/native/    *)
(* management-lifecycle.ts and the /register handler of management.ts): the *)
(* resource saves its record with a version and a dirty mark, and pushes it *)
(* in the background of requests or from its durable alarm.                 *)
(*                                                                         *)
(* What a version holds is written once, so a record is its version.  The   *)
(* request a push sends may arrive late, after its timeout or after newer   *)
(* ones, and its answer may be lost.  Storage calls hold the input gate:    *)
(* schedule() and the push that flush() starts are one step.  A resource    *)
(* has its first alarm before the process may be lost (see README).         *)
(***************************************************************************)
EXTENDS Integers

CONSTANTS MaxVersion, \* bound: saved versions
          MaxTries    \* requests of one push

ASSUME ReplicaAssumption == MaxVersion \in Nat \ {0} /\ MaxTries \in Nat \ {0}

VARIABLES
  ver,    \* version of the record in management_state
  dirty,  \* 0 synced, 1 activity only, 2 state or policy
  due,    \* the alarm: none, late (expiry or audit clean-up) or soon (30 s)
  owed,   \* a request saved and has yet to call flush()
  push,   \* the one push: requests sent (0: none), the version, answered ok
  net,    \* versions in requests that have not reached the catalog
  stored  \* version of the catalog's row, 0 for none

catVars == <<ver, dirty, due, owed, push, net, stored>>

Versions == 1 .. MaxVersion
NoPush == [n |-> 0, sent |-> 0, ok |-> FALSE]

\* create(): the record is saved dirty and the request that created it flushes.
CatInit ==
  /\ ver = 1 /\ dirty = 2 /\ due = "none" /\ owed = TRUE
  /\ push = NoPush /\ net = {} /\ stored = 0

-----------------------------------------------------------------------------
\* Names with a suffix are plausible mistakes, used to test the properties.

\* save: activity() marks 1, every other caller 2.  Each caller ends in flush().
SaveRecord(d) ==
  /\ ver < MaxVersion
  /\ ver' = ver + 1 /\ dirty' = (IF d > dirty THEN d ELSE dirty) /\ owed' = TRUE
  /\ UNCHANGED <<due, push, net, stored>>

\* next and schedule: the earlier of the alarm that is set and the one wanted;
\* a clean record may have a deadline or none.
NextDue ==
  IF dirty > 0 THEN due' = "soon"
  ELSE due' \in (IF due = "none" THEN {"none", "late"} ELSE {due})

\* One request of a push leaves with the record as it is now.
Send(n) ==
  /\ push' = [n |-> n, sent |-> ver, ok |-> FALSE]
  /\ net' = net \cup {ver}
StartPush == IF push = NoPush THEN Send(1) ELSE UNCHANGED <<push, net>>

\* flush() of a request: activity alone waits for the alarm.
Flush ==
  /\ owed /\ owed' = FALSE /\ NextDue
  /\ IF dirty > 1 THEN StartPush ELSE UNCHANGED <<push, net>>
  /\ UNCHANGED <<ver, dirty, stored>>

\* The alarm pushes what a request would push.
CatAlarm_Lazy ==
  /\ due # "none"
  /\ IF dirty > 0 THEN due' = "soon" ELSE due' \in {"none", "late"}
  /\ IF dirty > 1 THEN StartPush ELSE UNCHANGED <<push, net>>
  /\ UNCHANGED <<ver, dirty, owed, stored>>
\* The alarm fires: flush(true) rearms it and pushes whatever is dirty.
CatAlarm ==
  /\ due # "none"
  /\ IF dirty > 0 THEN due' = "soon" /\ StartPush
     ELSE due' \in {"none", "late"} /\ UNCHANGED <<push, net>>
  /\ UNCHANGED <<ver, dirty, owed, stored>>

\* The row is overwritten by whatever arrives.
Register_Any(v) ==
  /\ v \in net /\ net' = net \ {v} /\ stored' = v
  /\ push' = [push EXCEPT !.ok = @ \/ push.sent = v]
  /\ UNCHANGED <<ver, dirty, due, owed>>
\* PUT /register: the row keeps the higher version; the answer is ok either way.
Register(v) ==
  /\ v \in net /\ net' = net \ {v}
  /\ stored' = (IF v > stored THEN v ELSE stored)
  /\ push' = [push EXCEPT !.ok = @ \/ push.sent = v]
  /\ UNCHANGED <<ver, dirty, due, owed>>

More == IF push.n < MaxTries /\ dirty' > 0 THEN Send(push.n + 1)
        ELSE push' = NoPush /\ UNCHANGED net
\* The mark is cleared although the record changed meanwhile.
PushReplied_Stale ==
  /\ push.ok /\ dirty' = 0 /\ More
  /\ UNCHANGED <<ver, due, owed, stored>>
\* The answer arrived: the mark is cleared if that version is still the record;
\* a push sends at most MaxTries versions.
PushReplied ==
  /\ push.ok
  /\ dirty' = (IF ver = push.sent THEN 0 ELSE dirty) /\ More
  /\ UNCHANGED <<ver, due, owed, stored>>

\* A refusal, an error or the timeout ends the push; the request may still arrive.
PushFailed ==
  /\ push # NoPush /\ push' = NoPush
  /\ net' \in {net, net \ {push.sent}}
  /\ UNCHANGED <<ver, dirty, due, owed, stored>>

\* The process is lost, with its push and the request that had to flush.
LoseProcess ==
  /\ due # "none" /\ (owed \/ push # NoPush)
  /\ owed' = FALSE /\ push' = NoPush
  /\ UNCHANGED <<ver, dirty, due, net, stored>>

\* Only a clean resource may have nothing left to do.
CatRest == dirty = 0 /\ ~owed /\ UNCHANGED catVars

CatNext ==
  \/ \E d \in {1, 2} : SaveRecord(d)
  \/ CatRest \/ Flush \/ CatAlarm
  \/ \E v \in net : Register(v)
  \/ PushReplied \/ PushFailed \/ LoseProcess

CatSpec == CatInit /\ [][CatNext]_catVars

-----------------------------------------------------------------------------
(* Properties *)

CatTypeOK ==
  /\ ver \in Versions /\ dirty \in 0 .. 2 /\ due \in {"none", "late", "soon"}
  /\ owed \in BOOLEAN /\ net \subseteq 1 .. ver /\ stored \in 0 .. ver
  /\ push \in [n: 0 .. MaxTries, sent: 0 .. ver, ok: BOOLEAN]

\* An answered push reached the catalog.
AnswerMeansStored ==
  /\ push.n = 0 => push = NoPush
  /\ push.ok => stored >= push.sent

\* Honest mark: a record that is not marked dirty is in the catalog as it is,
\* and a mark is never left without an alarm to push it or a request about to
\* set one (the outbox of lines 88-111; "Writes do not wait for the catalog").
CatalogHonest ==
  /\ CatTypeOK /\ AnswerMeansStored
  /\ dirty = 0 => stored = ver
  /\ dirty > 0 /\ due = "none" => owed

\* The catalog catches up with the record when writes pause and outages end.
CatalogConverges == []<>(stored = ver)

\* The alarm is durable, a push ends, and of ever new attempts the catalog
\* gets some.
CatFairness ==
  /\ WF_catVars(Flush) /\ WF_catVars(CatAlarm) /\ WF_catVars(PushReplied \/ PushFailed)
  /\ SF_catVars(\E v \in net : v = push.sent /\ Register(v))

=============================================================================
