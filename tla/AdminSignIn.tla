------------------------------ MODULE AdminSignIn ------------------------------
(***************************************************************************)
(* Administrator sign-in (celld/native/management-auth.ts and the routes of *)
(* management.ts): a sign-in lives sealed in the browser that began it; its *)
(* callback notes the state as used, asks the provider, and starts a        *)
(* session.  Used states are bounded by eviction and swept with the expired *)
(* sessions by the catalog object's alarm.                                  *)
(*                                                                         *)
(* The clock counts ticks.  Seals, tokens and CSRF headers are abstracted:  *)
(* a callback presents a sign-in this browser holds.  The provider (outside *)
(* this repository) takes a code once.  A browser may repeat a callback.    *)
(***************************************************************************)
EXTENDS Integers, FiniteSets

CONSTANTS
  Flow,        \* sign-ins begun in browsers
  Limit,       \* used states kept
  FlowLife,    \* ticks a sign-in is valid
  SessionLife, \* ticks a session lasts
  SweepPause,  \* ticks between two sweeps at least
  MaxNow,      \* bound: ticks
  MaxPasses    \* bound: callbacks admitted per sign-in

ASSUME SignInAssumption ==
  /\ Limit \in Nat \ {0} /\ {FlowLife, SessionLife, SweepPause} \subseteq Nat \ {0}
  /\ MaxNow \in Nat /\ MaxPasses \in Nat

VARIABLES
  now,     \* the clock
  flow,    \* per sign-in, when it expires, Never if not begun
  used,    \* admin_login_states: sign-ins whose state is noted
  asking,  \* per sign-in, callbacks that await the provider
  spent,   \* sign-ins whose code the provider has taken
  session, \* per sign-in, when its session expires, Never if there is none
  sweep,   \* the object's alarm, Never if none
  passes,  \* history: callbacks admitted
  begun,   \* history: sessions started
  dropped, \* history: sign-ins whose noted state was evicted or swept
  unarmed  \* history: sessions the object was lost after, before their alarm

signInVars == <<now, flow, used, asking, spent, session, sweep, passes, begun, dropped,
  unarmed>>

Never == -1

SignInInit ==
  /\ now = 0 /\ flow = [f \in Flow |-> Never] /\ used = {}
  /\ asking = [f \in Flow |-> 0] /\ spent = {}
  /\ session = [f \in Flow |-> Never] /\ sweep = Never
  /\ passes = [f \in Flow |-> 0] /\ begun = [f \in Flow |-> 0]
  /\ dropped = {} /\ unarmed = {}

-----------------------------------------------------------------------------
\* login: the sealed sign-in is handed to the browser; nothing is stored.
Login(f) ==
  /\ flow[f] = Never /\ flow' = [flow EXCEPT ![f] = now + FlowLife]
  /\ UNCHANGED <<now, used, asking, spent, session, sweep, passes, begun, dropped, unarmed>>

\* The sets of at most Limit noted states that the eviction may leave: those
\* that expire last.
Kept(S) ==
  {K \in SUBSET S :
     /\ Cardinality(K) = (IF Cardinality(S) < Limit THEN Cardinality(S) ELSE Limit)
     /\ \A k \in K, d \in S \ K : flow[k] >= flow[d]}

\* Names with a suffix are plausible mistakes, used to test the properties.

\* The state is noted only when the provider has answered.
Callback_Late(f) ==
  /\ flow[f] # Never /\ flow[f] >= now /\ f \notin used /\ passes[f] < MaxPasses
  /\ asking' = [asking EXCEPT ![f] = @ + 1] /\ passes' = [passes EXCEPT ![f] = @ + 1]
  /\ UNCHANGED <<now, flow, used, dropped, spent, session, sweep, begun, unarmed>>
\* The replay check and the note, with no await between them: each state passes
\* once.  An expired, unknown or used state is refused.
Callback(f) ==
  /\ flow[f] # Never /\ flow[f] >= now /\ f \notin used /\ passes[f] < MaxPasses
  /\ \E K \in Kept(used \cup {f}) : used' = K /\ dropped' = dropped \cup ((used \cup {f}) \ K)
  /\ asking' = [asking EXCEPT ![f] = @ + 1] /\ passes' = [passes EXCEPT ![f] = @ + 1]
  /\ UNCHANGED <<now, flow, spent, session, sweep, begun, unarmed>>

\* nextExpiry: the first of the sessions and noted states to expire.
Expiries(u, s) == {flow[f] : f \in u} \cup {s[f] : f \in {g \in Flow : s[g] # Never}}
NextExpiry(u, s) == CHOOSE t \in Expiries(u, s) : \A e \in Expiries(u, s) : t <= e
SweepAt(u, s) == IF NextExpiry(u, s) > now + SweepPause THEN NextExpiry(u, s)
                 ELSE now + SweepPause
\* arm: at the end of every callback, also of one that failed.
ArmSweep(s) ==
  sweep' = IF Expiries(used, s) = {} THEN sweep
           ELSE IF sweep = Never \/ sweep > SweepAt(used, s) THEN SweepAt(used, s)
           ELSE sweep

\* The provider exchanged the code and named an administrator: a session starts.
StartSession(f) ==
  /\ asking[f] > 0 /\ f \notin spent /\ spent' = spent \cup {f}
  /\ session' = [session EXCEPT ![f] = now + SessionLife]
  /\ begun' = [begun EXCEPT ![f] = @ + 1]
  /\ UNCHANGED <<now, flow, used, passes, dropped>>
\* The alarm is set while nothing else runs in the object.
Exchanged(f) ==
  /\ StartSession(f) /\ ArmSweep(session')
  /\ asking' = [asking EXCEPT ![f] = @ - 1] /\ UNCHANGED unarmed
\* The object is lost between the session's row and the alarm.
LostUnarmed(f) ==
  /\ StartSession(f) /\ UNCHANGED sweep
  /\ asking' = [g \in Flow |-> 0] /\ unarmed' = unarmed \cup {f}
\* It refused, failed or named somebody else, before or after taking the code.
SignInDenied(f) ==
  /\ asking[f] > 0
  /\ asking' = [asking EXCEPT ![f] = @ - 1] /\ spent' \in {spent, spent \cup {f}}
  /\ ArmSweep(session)
  /\ UNCHANGED <<now, flow, used, session, passes, begun, dropped, unarmed>>

\* logout: the row of the session is deleted.
Logout(f) ==
  /\ session[f] # Never /\ session' = [session EXCEPT ![f] = Never]
  /\ UNCHANGED <<now, flow, used, asking, spent, sweep, passes, begun, dropped, unarmed>>

\* cleanup deletes what expires now or earlier.
Expired(t) == t <= now

\* The alarm: cleanup deletes what expired, and the next sweep is set.
Sweep ==
  LET left == {f \in used : ~Expired(flow[f])}
      live == [f \in Flow |-> IF Expired(session[f]) THEN Never ELSE session[f]]
  IN  /\ sweep # Never /\ sweep <= now
      /\ used' = left /\ session' = live /\ dropped' = dropped \cup (used \ left)
      /\ sweep' = IF Expiries(left, live) = {} THEN Never ELSE SweepAt(left, live)
      /\ UNCHANGED <<now, flow, asking, spent, passes, begun, unarmed>>

SignInTick ==
  /\ now < MaxNow /\ now' = now + 1
  /\ UNCHANGED <<flow, used, asking, spent, session, sweep, passes, begun, dropped, unarmed>>

\* The object is lost, with the callbacks that await the provider, which may
\* have taken their codes.
Asking == {f \in Flow : asking[f] > 0}
SignInLost ==
  /\ Asking # {} /\ \E taken \in SUBSET Asking : spent' = spent \cup taken
  /\ asking' = [f \in Flow |-> 0]
  /\ UNCHANGED <<now, flow, used, session, sweep, passes, begun, dropped, unarmed>>

SignInNext ==
  \/ \E f \in Flow :
       \/ Login(f) \/ Callback(f) \/ Exchanged(f) \/ SignInDenied(f) \/ Logout(f)
       \/ LostUnarmed(f)
  \/ Sweep \/ SignInTick \/ SignInLost

SignInSpec == SignInInit /\ [][SignInNext]_signInVars

-----------------------------------------------------------------------------
(* Properties *)

\* Sign-in once: two callbacks of one sign-in are never admitted while its state
\* is noted, and one is forgotten early only by eviction: the sweep forgets a
\* state in its last tick, when a repeated callback still passes; then the
\* provider's own check is what keeps a second session from starting.  A session
\* waits without an alarm to sweep it only if the object was lost between its
\* row and the alarm, until the next callback ends.
SignInOnce ==
  /\ \A f \in Flow :
       /\ passes[f] > 1 => f \in dropped
       /\ f \in used => passes[f] > 0
       /\ begun[f] <= 1 /\ begun[f] <= passes[f]
       /\ f \in dropped /\ Cardinality({g \in Flow : passes[g] > 0}) <= Limit => flow[f] <= now
       /\ session[f] # Never => f \in spent /\ (sweep # Never \/ f \in unarmed)
  /\ Cardinality(used) <= Limit /\ spent \subseteq {f \in Flow : passes[f] > 0}

=============================================================================
