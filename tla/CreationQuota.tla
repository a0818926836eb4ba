----------------------------- MODULE CreationQuota -----------------------------
(***************************************************************************)
(* The token bucket per address that bounds the creation of chats           *)
(* (srv/quota.go, and create() of celld/native/worker.ts).  A request reads *)
(* its bucket with its own reading of the clock, creates the chat, which    *)
(* may take a while, fail or outlive the process, and only then pays.       *)
(*                                                                         *)
(* One token is Refill units of level, the level one time unit gives back   *)
(* is one.  Readings of the clock come in any order: they are taken before  *)
(* the lock, and the clock may be set back.                                 *)
(***************************************************************************)
EXTENDS Integers, FiniteSets

CONSTANTS
  Ip,      \* addresses
  Burst,   \* tokens of a full bucket
  Refill,  \* time units that give back one token
  MaxIps,  \* buckets kept
  MaxTime  \* bound: readings of the clock

ASSUME QuotaAssumption ==
  /\ Burst \in Nat \ {0} /\ Refill \in Nat \ {0} /\ MaxIps \in Nat \ {0} /\ MaxTime \in Nat

VARIABLES
  tracked, \* addresses with a bucket
  bucket,  \* per address: level and the time it was updated
  paying,  \* creations between the look at the bucket and the payment
  since,   \* history: per address, the time of the first payment to this bucket
  charged  \* history: per address, payments to this bucket

quotaVars == <<tracked, bucket, paying, since, charged>>

Time == 0 .. MaxTime
Full == Burst * Refill
Later(a, b) == IF a > b THEN a ELSE b
NoBucket == [level |-> 0, updated |-> 0]

QuotaInit ==
  /\ tracked = {} /\ bucket = [i \in Ip |-> NoBucket] /\ paying = {}
  /\ since = [i \in Ip |-> 0] /\ charged = [i \in Ip |-> 0]

\* What the bucket of i holds for a request that read the clock at t.
Level(i, t) ==
  IF i \in tracked
  THEN LET refilled == bucket[i].level + Later(0, t - bucket[i].updated)
       IN  IF refilled < Full THEN refilled ELSE Full
  ELSE Full

\* Names with a suffix are plausible mistakes, used to test the properties.

\* Requests are not held one behind the other.
Charge_Unlocked(i, t) ==
  /\ Level(i, t) >= Refill
  /\ paying' = paying \cup {[ip |-> i, at |-> t, level |-> Level(i, t)]}
  /\ UNCHANGED <<tracked, bucket, since, charged>>
\* charge and create, up to the creation: the mutex, and the queue of the Index
\* object, admit one request.  A request without a token is refused.
Charge(i, t) ==
  /\ paying = {}
  /\ Level(i, t) >= Refill
  /\ paying' = {[ip |-> i, at |-> t, level |-> Level(i, t)]}
  /\ UNCHANGED <<tracked, bucket, since, charged>>

\* The bucket takes the reading of the request, also an earlier one.
Updated_Backwards(p) == p.at
\* The time of the bucket never moves back.
Updated(p) == IF p.ip \in tracked THEN Later(p.at, bucket[p.ip].updated) ELSE p.at

Untracked(p, victim) ==
  IF p.ip \notin tracked /\ Cardinality(tracked) >= MaxIps THEN {victim} ELSE {}
\* The chat was created: one token is paid, the bucket installed, and at the
\* limit the bucket of any other address forgotten.
Paid(p, victim) ==
  /\ p \in paying /\ paying' = paying \ {p}
  /\ p.ip \notin tracked /\ Cardinality(tracked) >= MaxIps => victim \in tracked
  /\ tracked' = (tracked \ Untracked(p, victim)) \cup {p.ip}
  /\ bucket' = [bucket EXCEPT ![p.ip] = [level |-> p.level - Refill, updated |-> Updated(p)]]
  /\ since' = [since EXCEPT ![p.ip] = IF p.ip \in tracked THEN @ ELSE p.at]
  /\ charged' = [charged EXCEPT ![p.ip] = IF p.ip \in tracked THEN @ + 1 ELSE 1]

\* The creation failed or conflicted, or the process died before it could pay.
Unpaid(p) ==
  /\ p \in paying /\ paying' = paying \ {p}
  /\ UNCHANGED <<tracked, bucket, since, charged>>

\* The Go process restarts: its buckets were in memory.
QuotaRestart ==
  /\ tracked' = {} /\ paying' = {}
  /\ UNCHANGED <<bucket, since, charged>>

QuotaNext ==
  \/ \E i \in Ip, t \in Time : Charge(i, t)
  \/ \E p \in paying : Unpaid(p) \/ \E victim \in Ip : Paid(p, victim)
  \/ QuotaRestart

QuotaSpec == QuotaInit /\ [][QuotaNext]_quotaVars

-----------------------------------------------------------------------------
(* Properties *)

\* The bucket of an address accounts for what was paid: what it holds and what
\* it paid came from the burst and the time it has seen.
Balanced(i) ==
  /\ bucket[i].level \in 0 .. Full /\ bucket[i].updated \in Time
  /\ since[i] \in Time /\ charged[i] \in Nat
  /\ since[i] <= bucket[i].updated
  /\ bucket[i].level + charged[i] * Refill <= Full + (bucket[i].updated - since[i])

\* Quota: while a bucket is kept, an address pays for no more creations than the
\* burst and one per refill interval of the time between the first and the last,
\* whatever order the readings of the clock come in ("concurrent requests from
\* one IP cannot overspend", "never move backwards and refill the same interval
\* twice", srv/quota.go).
QuotaBound ==
  /\ \A i \in tracked : Balanced(i)
  /\ \A p \in paying : p.level >= Refill
  /\ Cardinality(tracked) <= MaxIps

=============================================================================
