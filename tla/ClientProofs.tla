----------------------------- MODULE ClientProofs -----------------------------
(***************************************************************************)
(* Theorems about the clients of a chat, a wiki and the management service, *)
(* and about what keeps a wiki's files, for every value of their constants: *)
(* the sign-in of administrators, the exports of a wiki, the creation       *)
(* quota, the posts of the command line client, the attachments of a wiki,  *)
(* the page of a wiki and the widgets of a chat page in the browser.        *)
(***************************************************************************)
EXTENDS AdminSignIn, WikiExport, CreationQuota, OneShotPost, ChatView, WikiEditor, WikiUploads,
        FiniteSetTheorems, WellFoundedInduction, TLAPS

(***************************************************************************)
(* Sign-in.  A callback that was admitted leaves its state noted, or among  *)
(* the dropped ones; the sets the eviction compares are finite, and times   *)
(* are numbers, so that an alarm that is set is never "none".               *)
(***************************************************************************)

SignInTypes ==
  /\ now \in Nat /\ sweep \in Nat \cup {Never}
  /\ flow \in [Flow -> Nat \cup {Never}] /\ session \in [Flow -> Nat \cup {Never}]
  /\ asking \in [Flow -> Nat] /\ passes \in [Flow -> Nat] /\ begun \in [Flow -> {0, 1}]

Passed == {g \in Flow : passes[g] > 0}

Admitted(f) ==
  /\ passes[f] > 1 => f \in dropped
  /\ passes[f] > 0 => flow[f] # Never /\ f \in used \cup dropped
  /\ asking[f] > 0 \/ f \in spent => passes[f] > 0
  /\ begun[f] = 1 => f \in spent
  /\ session[f] # Never => f \in spent /\ (sweep # Never \/ f \in unarmed)

SignInInv ==
  /\ SignInTypes
  /\ used \cup dropped \cup spent \subseteq Passed /\ IsFiniteSet(Passed)
  /\ Cardinality(used) <= Limit
  /\ \A f \in Flow : Admitted(f)
  /\ \A f \in dropped : Cardinality(Passed) <= Limit => flow[f] <= now

LEMMA SignInInitInv == SignInInit => SignInInv
<1> SUFFICES ASSUME SignInInit PROVE SignInInv
  OBVIOUS
<1>1. Passed = {}
  BY DEF SignInInit, Passed
<1>2. SignInTypes
  BY DEF SignInInit, SignInTypes
<1> QED BY <1>1, <1>2, FS_EmptySet, SignInAssumption DEF SignInInit, SignInInv, Admitted

\* What the invariant gives a step that admits nobody.
LEMMA SameNotes ==
  ASSUME SignInInv, UNCHANGED <<now, flow, used, passes, dropped>>,
         SignInTypes', spent' \subseteq Passed,
         \A f \in Flow : asking'[f] > 0 => asking[f] > 0,
         \A f \in Flow : begun'[f] = 1 => f \in spent',
         \A f \in Flow : session'[f] # Never => f \in spent' /\ (sweep' # Never \/ f \in unarmed')
  PROVE  SignInInv'
<1>1. Passed' = Passed
  BY DEF Passed
<1> QED BY <1>1 DEF SignInInv, Admitted, Passed

LEMMA LoginKeeps ==
  ASSUME SignInInv, NEW f \in Flow, Login(f)
  PROVE  SignInInv'
<1>1. /\ flow[f] = Never /\ flow' = [flow EXCEPT ![f] = now + FlowLife]
      /\ UNCHANGED <<now, used, asking, spent, session, sweep, passes, begun, dropped, unarmed>>
  BY DEF Login
<1>2. SignInTypes'
  BY <1>1, SignInAssumption DEF SignInInv, SignInTypes
<1>3. Passed' = Passed /\ f \notin Passed
  BY <1>1 DEF Passed, SignInInv, Admitted
<1>4. \A g \in Passed : flow'[g] = flow[g] /\ g \in Flow
  BY <1>1, <1>3 DEF SignInInv, SignInTypes, Passed
<1> QED BY <1>1, <1>2, <1>3, <1>4 DEF SignInInv, Admitted, Passed

\* A state is evicted only when more sign-ins passed than states are kept.
LEMMA CallbackKeeps ==
  ASSUME SignInInv, NEW f \in Flow, Callback(f)
  PROVE  SignInInv'
<1> DEFINE S == used \cup {f}
<1>1. PICK K \in Kept(S) : used' = K /\ dropped' = dropped \cup (S \ K)
  BY DEF Callback
<1>2. /\ flow[f] # Never /\ f \notin used
      /\ asking' = [asking EXCEPT ![f] = @ + 1] /\ passes' = [passes EXCEPT ![f] = @ + 1]
      /\ UNCHANGED <<now, flow, spent, session, sweep, begun, unarmed>>
  BY DEF Callback
<1>3. SignInTypes'
  BY <1>2 DEF SignInInv, SignInTypes
<1>4. Passed' = Passed \cup {f} /\ S \subseteq Passed' /\ Passed \subseteq Flow
  BY <1>2 DEF SignInInv, SignInTypes, Passed
<1>5. /\ IsFiniteSet(Passed') /\ IsFiniteSet(S) /\ Cardinality(S) <= Cardinality(Passed')
      /\ Cardinality(Passed) <= Cardinality(Passed')
      /\ Cardinality(Passed) \in Nat /\ Cardinality(Passed') \in Nat /\ Cardinality(S) \in Nat
  <2>1. IsFiniteSet(Passed')
    BY <1>4, FS_AddElement DEF SignInInv
  <2>2. IsFiniteSet(S) /\ Cardinality(S) <= Cardinality(Passed')
        /\ Cardinality(Passed) <= Cardinality(Passed')
    BY <1>4, <2>1, FS_Subset
  <2> QED BY <2>1, <2>2, FS_CardinalityType DEF SignInInv
<1>6. /\ K \subseteq S /\ Limit \in Nat
      /\ Cardinality(K) = (IF Cardinality(S) < Limit THEN Cardinality(S) ELSE Limit)
  BY SignInAssumption DEF Kept
<1> HIDE DEF S
<1>7. Cardinality(K) <= Limit
  BY <1>5, <1>6
<1>8. Cardinality(Passed') <= Limit => K = S
  BY <1>5, <1>6, FS_Subset
<1>9. \A g \in Flow : Admitted(g)'
  BY <1>1, <1>2, <1>6 DEF SignInInv, SignInTypes, Admitted, S
<1>10. ASSUME NEW g \in dropped', Cardinality(Passed') <= Limit
       PROVE  flow[g] <= now
  <2>1. g \in dropped /\ Cardinality(Passed) <= Limit
    BY <1>1, <1>5, <1>6, <1>8, <1>10
  <2> QED BY <2>1 DEF SignInInv
<1>11. (used \cup dropped \cup spent \subseteq Passed)'
  BY <1>1, <1>2, <1>4, <1>6 DEF SignInInv
<1> QED BY <1>1, <1>2, <1>3, <1>5, <1>7, <1>9, <1>10, <1>11 DEF SignInInv

\* An alarm set for what is to expire is a time.
LEMMA SweepIsTime ==
  ASSUME now \in Nat, flow \in [Flow -> Nat \cup {Never}],
         NEW u \in SUBSET Flow, \A f \in u : flow[f] # Never,
         NEW s \in [Flow -> Nat \cup {Never}], Expiries(u, s) # {}
  PROVE  SweepAt(u, s) \in Nat
<1> DEFINE E == Expiries(u, s)
           Smaller == OpToRel(<, Nat)
<1>1. E \in SUBSET Nat /\ E # {}
  BY DEF Expiries
<1> HIDE DEF E
<1>2. \E x \in E : \A y \in E : ~(<<y, x>> \in Smaller)
  BY <1>1, NatLessThanWellFounded, WFMin
<1>3. \A x, y \in Nat : <<y, x>> \in Smaller <=> y < x
  BY DEF OpToRel
<1> HIDE DEF Smaller
<1>4. \E x \in E : \A y \in E : x <= y
  <2>1. \E x \in E : \A y \in E : ~(y < x)
    BY <1>1, <1>2, <1>3
  <2> QED BY <1>1, <2>1
<1>5. NextExpiry(u, s) \in Nat
  BY <1>1, <1>4 DEF NextExpiry, E
<1>6. now + SweepPause \in Nat
  BY SignInAssumption
<1> QED BY <1>5, <1>6 DEF SweepAt

LEMMA ArmSweepArms ==
  ASSUME SignInInv, NEW s \in [Flow -> Nat \cup {Never}], ArmSweep(s)
  PROVE  /\ sweep' \in Nat \cup {Never}
         /\ (\E f \in Flow : s[f] # Never) => sweep' # Never
<1>1. used \subseteq Flow /\ \A f \in used : flow[f] # Never
  BY DEF SignInInv, Passed, Admitted
<1>2. Expiries(used, s) # {} => SweepAt(used, s) \in Nat
  BY <1>1, SweepIsTime DEF SignInInv, SignInTypes
<1>3. (\E f \in Flow : s[f] # Never) => Expiries(used, s) # {}
  BY DEF Expiries
<1> HIDE DEF SignInInv
<1>4. sweep \in Nat \cup {Never}
  BY DEF SignInInv, SignInTypes
<1> QED BY <1>2, <1>3, <1>4 DEF ArmSweep, Never

LEMMA AnsweredKeeps ==
  ASSUME SignInInv, NEW f \in Flow, Exchanged(f) \/ LostUnarmed(f) \/ SignInDenied(f)
  PROVE  SignInInv'
<1>1. /\ asking[f] > 0
      /\ asking' \in {[asking EXCEPT ![f] = @ - 1], [g \in Flow |-> 0]}
      /\ UNCHANGED <<now, flow, used, passes, dropped>>
      /\ spent \subseteq spent' /\ spent' \subseteq spent \cup {f}
  BY DEF Exchanged, LostUnarmed, StartSession, SignInDenied
<1>2. f \in Passed /\ asking' \in [Flow -> Nat]
      /\ \A g \in Flow : asking'[g] > 0 => asking[g] > 0
  BY <1>1 DEF SignInInv, SignInTypes, Admitted, Passed
<1>3. spent' \subseteq Passed
  BY <1>1, <1>2 DEF SignInInv
<1>4. CASE Exchanged(f) \/ LostUnarmed(f)
  <2>1. /\ f \notin spent /\ spent' = spent \cup {f}
        /\ session' = [session EXCEPT ![f] = now + SessionLife]
        /\ begun' = [begun EXCEPT ![f] = @ + 1]
    BY <1>4 DEF Exchanged, LostUnarmed, StartSession
  <2>2. session' \in [Flow -> Nat \cup {Never}]
    BY <2>1, SignInAssumption DEF SignInInv, SignInTypes
  <2>3. begun' = [begun EXCEPT ![f] = 1]
    <3>1. begun \in [Flow -> {0, 1}] /\ begun[f] # 1
      BY <2>1 DEF SignInInv, SignInTypes, Admitted
    <3>2. begun[f] = 0
      BY <3>1
    <3> QED BY <2>1, <3>1, <3>2
  <2>4. PICK s \in [Flow -> Nat \cup {Never}] : s = session'
    BY <2>2
  <2>5. ArmSweep(s) \/ (sweep' = sweep /\ unarmed' = unarmed \cup {f})
    <3>1. CASE Exchanged(f)
      BY <2>4, <3>1 DEF Exchanged, ArmSweep, Expiries, SweepAt, NextExpiry
    <3>2. CASE LostUnarmed(f)
      BY <3>2 DEF LostUnarmed
    <3> QED BY <1>4, <3>1, <3>2
  <2>6. /\ sweep' \in Nat \cup {Never}
        /\ \A g \in Flow : session'[g] # Never => sweep' # Never \/ g \in unarmed'
    <3>1. CASE ArmSweep(s)
      BY <2>4, <3>1, ArmSweepArms
    <3>2. CASE sweep' = sweep /\ unarmed' = unarmed \cup {f}
      BY <2>1, <3>2 DEF SignInInv, SignInTypes, Admitted
    <3> QED BY <2>5, <3>1, <3>2
  <2>7. SignInTypes'
    BY <1>1, <1>2, <2>2, <2>3, <2>6 DEF SignInInv, SignInTypes
  <2>8. \A g \in Flow : (begun'[g] = 1 \/ session'[g] # Never) => g \in spent'
    BY <2>1, <2>3 DEF SignInInv, SignInTypes, Admitted
  <2> QED BY <1>1, <1>2, <1>3, <2>6, <2>7, <2>8, SameNotes
<1>5. CASE SignInDenied(f)
  <2>1. UNCHANGED <<session, begun>> /\ ArmSweep(session)
    BY <1>5 DEF SignInDenied
  <2>2. sweep' \in Nat \cup {Never} /\ \A g \in Flow : session[g] # Never => sweep' # Never
    BY <2>1, ArmSweepArms DEF SignInInv, SignInTypes
  <2>3. SignInTypes'
    BY <1>1, <1>2, <2>1, <2>2 DEF SignInInv, SignInTypes
  <2>4. \A g \in Flow : (begun'[g] = 1 \/ session'[g] # Never) => g \in spent'
    BY <1>1, <2>1 DEF SignInInv, Admitted
  <2> QED BY <1>1, <1>2, <1>3, <2>1, <2>2, <2>3, <2>4, SameNotes
<1> QED BY <1>4, <1>5

\* The sweep drops what has expired only, and stays armed for what is left.
LEMMA SweepKeeps ==
  ASSUME SignInInv, Sweep
  PROVE  SignInInv'
<1> DEFINE left == {f \in used : ~Expired(flow[f])}
           lasting == [f \in Flow |-> IF Expired(session[f]) THEN Never ELSE session[f]]
<1>1. /\ used' = left /\ session' = lasting /\ dropped' = dropped \cup (used \ left)
      /\ sweep' = IF Expiries(left, lasting) = {} THEN Never ELSE SweepAt(left, lasting)
      /\ UNCHANGED <<now, flow, asking, spent, passes, begun, unarmed>>
  BY DEF Sweep
<1>2. lasting \in [Flow -> Nat \cup {Never}]
  BY DEF SignInInv, SignInTypes
<1>3. \A f \in Flow : lasting[f] # Never => session[f] # Never
  OBVIOUS
<1>4. left \subseteq used /\ \A f \in used \ left : flow[f] <= now
  BY DEF Expired
<1> HIDE DEF left, lasting
<1>5. used \subseteq Flow /\ \A f \in used : flow[f] # Never
  BY DEF SignInInv, Passed, Admitted
<1>6. Expiries(left, lasting) # {} => SweepAt(left, lasting) \in Nat
  BY <1>2, <1>4, <1>5, SweepIsTime DEF SignInInv, SignInTypes
<1>7. \A f \in Flow : lasting[f] # Never => Expiries(left, lasting) # {}
  BY DEF Expiries
<1>8. SignInTypes'
  BY <1>1, <1>2, <1>6 DEF SignInInv, SignInTypes
<1>9. \A f \in Flow : session'[f] # Never => session[f] # Never /\ sweep' # Never
  BY <1>1, <1>3, <1>6, <1>7 DEF Never
<1>10. Passed' = Passed
  BY <1>1 DEF Passed
<1>11. Cardinality(left) <= Limit
  <2>1. IsFiniteSet(used)
    BY FS_Subset DEF SignInInv
  <2>2. Cardinality(left) <= Cardinality(used) /\ IsFiniteSet(left)
    BY <1>4, <2>1, FS_Subset
  <2> QED BY <2>1, <2>2, FS_CardinalityType, SignInAssumption DEF SignInInv
<1>12. \A f \in Flow : Admitted(f)'
  BY <1>1, <1>4, <1>9 DEF SignInInv, Admitted
<1> QED BY <1>1, <1>4, <1>8, <1>10, <1>11, <1>12 DEF SignInInv

LEMMA SignInStepInv == SignInInv /\ [SignInNext]_signInVars => SignInInv'
<1> SUFFICES ASSUME SignInInv, [SignInNext]_signInVars PROVE SignInInv'
  OBVIOUS
<1>1. ASSUME NEW f \in Flow, Login(f) \/ Callback(f) \/ Exchanged(f) \/ LostUnarmed(f) \/ SignInDenied(f)
      PROVE  SignInInv'
  BY <1>1, LoginKeeps, CallbackKeeps, AnsweredKeeps
<1>2. ASSUME NEW f \in Flow, Logout(f) PROVE SignInInv'
  <2>1. SignInTypes'
    BY <1>2 DEF Logout, SignInInv, SignInTypes
  <2> QED BY <1>2, <2>1, SameNotes DEF Logout, SignInInv, SignInTypes, Admitted
<1>3. CASE Sweep
  BY <1>3, SweepKeeps
<1>4. CASE SignInTick
  <2>1. SignInTypes' /\ Passed' = Passed /\ now' = now + 1
    BY <1>4 DEF SignInTick, SignInInv, SignInTypes, Passed
  <2>2. \A f \in dropped : flow[f] \in Int /\ now \in Int
    BY DEF SignInInv, SignInTypes, Passed, Never
  <2> QED BY <1>4, <2>1, <2>2 DEF SignInTick, SignInInv, Admitted
<1>5. CASE SignInLost
  <2>1. SignInTypes'
    BY <1>5 DEF SignInLost, SignInInv, SignInTypes
  <2>2. Asking \subseteq Passed
    BY DEF Asking, Passed, SignInInv, Admitted
  <2> QED BY <1>5, <2>1, <2>2, SameNotes DEF SignInLost, SignInInv, Admitted
<1>6. CASE UNCHANGED signInVars
  <2>1. SignInTypes'
    BY <1>6 DEF signInVars, SignInInv, SignInTypes
  <2> QED BY <1>6, <2>1, SameNotes DEF signInVars, SignInInv, Admitted
<1> QED BY <1>1, <1>2, <1>3, <1>4, <1>5, <1>6 DEF SignInNext

\* For any number of sign-ins, callbacks and states kept: two callbacks of one
\* sign-in pass only after its noted state was evicted or swept in its last tick,
\* it starts one session at most, and no session waits without an alarm to
\* sweep it but for a loss between its row and the alarm (management-auth.ts
\* callback and cleanup, management.ts arm).
THEOREM SignInsAreOnce == SignInSpec => []SignInOnce
<1>1. SignInInv => SignInOnce
  BY DEF SignInInv, SignInTypes, Admitted, Passed, SignInOnce
<1> QED BY <1>1, SignInInitInv, SignInStepInv, PTL DEF SignInSpec

-----------------------------------------------------------------------------
(***************************************************************************)
(* Exports.  A slot whose version is the wiki's holds the wiki as it is; it *)
(* leaves "preparing" and "ready" for good; and a download streams from a   *)
(* slot that was ready when it took the ticket.                             *)
(***************************************************************************)

Numbers == 1 .. MaxExports
Slots == [state: Active \cup {"none", "complete", "failed", "canceled"}, version: Nat,
          expired: BOOLEAN, ticket: BOOLEAN, entries: SUBSET Item, snap: [Item -> Nat]]
Downloads == [pc: {"none", "form", "stream", "sent", "closing"}, slot: 0 .. MaxExports,
              sent: [Item -> Nat \cup {Unread}]]
Streaming(k) == k.pc \in {"stream", "sent", "closing"}
Begun(s) == s.state \in {"downloading", "complete", "failed", "canceled"}

SlotFits(s) ==
  /\ s \in Slots
  /\ s.ticket <=> s.state = "ready"
  /\ s.state \notin Active => s.entries = {}
  /\ s.state \in {"ready", "downloading"} => s.entries = Item
  /\ s.state # "none" => s.version <= wikiVersion /\ (s.version = wikiVersion => s.snap = items)

\* A download k with what it was sent so far.
DownloadFits(k) ==
  /\ k \in Downloads
  /\ k.pc # "none" => k.slot \in Used
  /\ Streaming(k) => Begun(slots[k.slot])
  /\ Streaming(k) => \A i \in Item : k.sent[i] \in {Unread, slots[k.slot].snap[i]}
  /\ k.pc \in {"sent", "closing"} => k.sent = slots[k.slot].snap
  /\ ~Streaming(k) => k.sent = [i \in Item |-> Unread]

Apart ==
  \A c, d \in Reader : c # d /\ Streaming(dl[c]) /\ Streaming(dl[d]) => dl[c].slot # dl[d].slot

ExportInv ==
  /\ wikiVersion \in 0 .. MaxChanges /\ items \in [Item -> 0 .. wikiVersion]
  /\ inSlot \in 0 .. MaxExports /\ (inSlot # 0 => inSlot \in Used)
  /\ slots \in [Numbers -> Slots] /\ \A n \in Numbers : SlotFits(slots[n])
  /\ \A n \in Numbers : slots[n].state \in Active => n = inSlot
  /\ dl \in [Reader -> Downloads] /\ \A c \in Reader : DownloadFits(dl[c])
  /\ Apart

LEMMA EmptyFits ==
  /\ NoSlot \in Slots /\ NoDownload \in Downloads
  /\ NoSlot.state = "none" /\ NoSlot.entries = {} /\ NoSlot.ticket = FALSE
  /\ NoDownload.pc = "none" /\ NoDownload.sent = [i \in Item |-> Unread]
BY ExportAssumption DEF NoSlot, Slots, NoDownload, Downloads, Active

\* Nothing is exported or downloaded.
LEMMA NothingFits ==
  ASSUME wikiVersion' \in 0 .. MaxChanges, items' \in [Item -> 0 .. wikiVersion'],
         slots' = [n \in Numbers |-> NoSlot], inSlot' = 0, dl' = [c \in Reader |-> NoDownload]
  PROVE  ExportInv'
<1>1. \A n \in Numbers : SlotFits(slots[n])'
  BY EmptyFits DEF SlotFits, Active
<1>2. \A c \in Reader : DownloadFits(dl[c])'
  BY EmptyFits DEF DownloadFits, Streaming
<1>3. slots' \in [Numbers -> Slots] /\ dl' \in [Reader -> Downloads]
  BY EmptyFits
<1>4. \A n \in Numbers : slots'[n].state = "none"
  BY EmptyFits
<1>5. Apart'
  BY EmptyFits DEF Apart, Streaming
<1> QED BY <1>1, <1>2, <1>3, <1>4, <1>5, ExportAssumption DEF ExportInv, Active

LEMMA ExportInitInv == ExportInit => ExportInv
<1> SUFFICES ASSUME ExportInit PROVE ExportInv
  OBVIOUS
<1>1. \A n \in Numbers : SlotFits(slots[n])
  BY EmptyFits DEF SlotFits, Active, ExportInit, Numbers
<1>2. \A c \in Reader : DownloadFits(dl[c])
  BY EmptyFits DEF DownloadFits, Streaming, ExportInit
<1>3. slots \in [Numbers -> Slots] /\ dl \in [Reader -> Downloads]
  BY EmptyFits DEF ExportInit, Numbers
<1>4. \A n \in Numbers : slots[n].state = "none"
  BY EmptyFits DEF ExportInit, Numbers
<1>5. Apart
  BY EmptyFits DEF Apart, Streaming, ExportInit
<1> QED BY <1>1, <1>2, <1>3, <1>4, <1>5, ExportAssumption DEF ExportInv, Active, ExportInit

\* A slot moves from s to t.
Moves(s, t) ==
  /\ SlotFits(t) /\ t.version = s.version /\ t.snap = s.snap
  /\ s.state # "none" => t.state # "none"
  /\ Begun(s) => Begun(t)
  /\ t.state \in Active => s.state \in Active

LEMMA StayMoves == ASSUME NEW s, SlotFits(s) PROVE Moves(s, s)
BY DEF Moves

LEMMA FailedMoves == ASSUME NEW s, SlotFits(s), s.state # "none" PROVE Moves(s, Failed(s))
<1>1. CASE s.state \in {"canceled", "failed"}
  BY <1>1 DEF Failed, Moves
<1>2. CASE s.state \notin {"canceled", "failed"}
  <2> DEFINE t == [s EXCEPT !.state = "failed", !.ticket = FALSE, !.entries = {}]
  <2>1. /\ t \in Slots /\ t.state = "failed" /\ t.ticket = FALSE /\ t.entries = {}
        /\ t.version = s.version /\ t.snap = s.snap
    BY DEF SlotFits, Slots
  <2>2. Failed(s) = t
    BY <1>2 DEF Failed
  <2> HIDE DEF t
  <2> QED BY <2>1, <2>2 DEF Moves, SlotFits, Begun, Active
<1> QED BY <1>1, <1>2

LEMMA GotMoves == ASSUME ExportInv, NEW n \in Used PROVE Moves(slots[n], Got(n))
BY StayMoves, FailedMoves DEF ExportInv, Got, Active, Used, Numbers

\* One slot moves at most.
OneSlot ==
  /\ slots' \in [Numbers -> Slots]
  /\ \A n \in Numbers : Moves(slots[n], slots'[n])

LEMMA SlotMoves ==
  ASSUME ExportInv, NEW n \in Numbers, NEW s, Moves(slots[n], s), slots' = [slots EXCEPT ![n] = s]
  PROVE  OneSlot /\ slots'[n] = s
<1>1. s \in Slots
  BY DEF Moves, SlotFits
<1>2. \A m \in Numbers : m # n => slots'[m] = slots[m] /\ SlotFits(slots[m])
  BY DEF ExportInv
<1> QED BY <1>1, <1>2, StayMoves DEF OneSlot, ExportInv

LEMMA NoSlotMoves == ASSUME ExportInv, slots' = slots PROVE OneSlot
BY StayMoves DEF OneSlot, ExportInv

LEMMA OneSlotUsed ==
  ASSUME OneSlot PROVE \A m \in Used : m \in Used' /\ Moves(slots[m], slots'[m])
BY DEF Used, OneSlot, Moves, Numbers

\* A download fits on while the slots in use move.
LEMMA DownloadStays ==
  ASSUME \A m \in Used : m \in Used' /\ Moves(slots[m], slots'[m]), NEW k, DownloadFits(k)
  PROVE  DownloadFits(k)'
<1>1. ASSUME k.pc # "none" PROVE k.slot \in Used' /\ Moves(slots[k.slot], slots'[k.slot])
  BY <1>1 DEF DownloadFits
<1> QED BY <1>1 DEF DownloadFits, Moves, Streaming

LEMMA ExportMoves ==
  ASSUME ExportInv, OneSlot, UNCHANGED <<wiki, inSlot>>,
         dl' \in [Reader -> Downloads], \A c \in Reader : DownloadFits(dl[c])', Apart'
  PROVE  ExportInv'
<1>1. UNCHANGED <<wikiVersion, items>>
  BY DEF wiki
<1>2. \A n \in Numbers : SlotFits(slots'[n])
  BY DEF OneSlot, Moves
<1>3. \A n \in Numbers : SlotFits(slots[n])'
  BY <1>1, <1>2 DEF SlotFits
<1>4. Used \subseteq Used'
  BY DEF Used, OneSlot, Moves, Numbers
<1>5. \A n \in Numbers : slots'[n].state \in Active => n = inSlot
  BY DEF OneSlot, Moves, ExportInv
<1> QED BY <1>1, <1>3, <1>4, <1>5 DEF ExportInv, OneSlot

LEMMA OnlySlotMoves ==
  ASSUME ExportInv, OneSlot, UNCHANGED <<wiki, inSlot, dl>>
  PROVE  ExportInv'
<1>1. \A c \in Reader : DownloadFits(dl[c])'
  <2> SUFFICES ASSUME NEW c \in Reader PROVE DownloadFits(dl[c])'
    OBVIOUS
  <2>1. PICK k : k = dl[c]
    OBVIOUS
  <2>2. DownloadFits(k)'
    BY <2>1, DownloadStays, OneSlotUsed DEF ExportInv
  <2> QED BY <2>1, <2>2 DEF DownloadFits
<1>2. Apart'
  BY DEF ExportInv, Apart
<1> QED BY <1>1, <1>2, ExportMoves DEF ExportInv

\* The download of c becomes k: it rests, streams on, or begins on a slot that
\* no other has taken.
LEMMA DownloadMoves ==
  ASSUME ExportInv, OneSlot, UNCHANGED <<wiki, inSlot>>,
         NEW c \in Reader, NEW k, DownloadFits(k)', dl' = [dl EXCEPT ![c] = k],
         \/ ~Streaming(k)
         \/ k.slot = dl[c].slot /\ Streaming(dl[c])
         \/ ~Begun(slots[k.slot])
  PROVE  ExportInv'
<1>1. k \in Downloads
  BY DEF DownloadFits
<1>2. dl' \in [Reader -> Downloads] /\ dl'[c] = k /\ \A d \in Reader : d # c => dl'[d] = dl[d]
  BY <1>1 DEF ExportInv
<1>3. \A d \in Reader : DownloadFits(dl[d])'
  <2> SUFFICES ASSUME NEW d \in Reader PROVE DownloadFits(dl[d])'
    OBVIOUS
  <2>1. CASE d = c
    BY <1>2, <2>1 DEF DownloadFits
  <2>2. CASE d # c
    <3>1. PICK m : m = dl[d] /\ m = dl'[d]
      BY <1>2, <2>2
    <3>2. DownloadFits(m)'
      BY <3>1, DownloadStays, OneSlotUsed DEF ExportInv
    <3> QED BY <3>1, <3>2 DEF DownloadFits
  <2> QED BY <2>1, <2>2
<1>4. ASSUME NEW d \in Reader, d # c, Streaming(dl[d]), Streaming(k)
      PROVE  dl[d].slot # k.slot
  BY <1>4 DEF ExportInv, Apart, DownloadFits
<1>5. Apart'
  BY <1>2, <1>4 DEF ExportInv, Apart, Streaming
<1> QED BY <1>2, <1>3, <1>5, ExportMoves

\* A new slot replaces one that is not active any more.
LEMMA PrepareKeeps ==
  ASSUME ExportInv, Prepare
  PROVE  ExportInv'
<1> DEFINE new == [state |-> "preparing", version |-> wikiVersion, expired |-> FALSE,
                   ticket |-> FALSE, entries |-> {}, snap |-> items]
<1>1. PICK n \in Numbers \ Used :
        /\ inSlot' = n
        /\ slots' = [m \in Numbers |-> IF m = n THEN new ELSE IF m = inSlot THEN Got(m) ELSE slots[m]]
  BY DEF Prepare, Numbers
<1>2. UNCHANGED <<wikiVersion, items, dl>> /\ (inSlot # 0 => Got(inSlot).state \notin Active)
  BY DEF Prepare, wiki
<1>3. SlotFits(new) /\ new.state = "preparing"
  <2>1. wikiVersion \in Nat /\ items \in [Item -> Nat]
    BY ExportAssumption DEF ExportInv
  <2>2. new \in Slots
    BY <2>1 DEF Slots, Active
  <2> QED BY <2>1, <2>2 DEF SlotFits, Active
<1> HIDE DEF new
<1>4. Used \subseteq Numbers /\ n # 0
  BY DEF Used, Numbers
<1>5. \A m \in Numbers : m # n => Moves(slots[m], slots'[m])
  <2> SUFFICES ASSUME NEW m \in Numbers, m # n PROVE Moves(slots[m], slots'[m])
    OBVIOUS
  <2>1. CASE m = inSlot
    <3>1. m \in Used
      BY <2>1 DEF ExportInv, Numbers
    <3> QED BY <1>1, <2>1, <3>1, GotMoves
  <2>2. CASE m # inSlot
    <3>1. slots'[m] = slots[m] /\ SlotFits(slots[m])
      BY <1>1, <2>2 DEF ExportInv
    <3> QED BY <3>1, StayMoves
  <2> QED BY <2>1, <2>2
<1>6. slots'[n] = new
  BY <1>1
<1>7. \A m \in Numbers : SlotFits(slots'[m])
  BY <1>3, <1>5, <1>6 DEF Moves
<1>8. \A m \in Numbers : SlotFits(slots[m])' /\ slots'[m] \in Slots
  BY <1>2, <1>7 DEF SlotFits
<1>9. slots' \in [Numbers -> Slots]
  BY <1>1, <1>8
<1>10. \A m \in Used : m \in Used' /\ Moves(slots[m], slots'[m])
  BY <1>1, <1>4, <1>5 DEF Used, Moves, Numbers
<1>11. ASSUME NEW m \in Numbers, m # n PROVE slots'[m].state \notin Active
  <2>1. CASE m = inSlot
    <3>1. slots'[m] = Got(inSlot) /\ m # 0
      BY <1>1, <1>11, <2>1 DEF Numbers
    <3> QED BY <1>2, <2>1, <3>1
  <2>2. CASE m # inSlot
    <3>1. slots'[m] = slots[m]
      BY <1>1, <1>11, <2>2
    <3> QED BY <2>2, <3>1 DEF ExportInv
  <2> QED BY <2>1, <2>2
<1>12. \A c \in Reader : DownloadFits(dl[c])'
  <2> SUFFICES ASSUME NEW c \in Reader PROVE DownloadFits(dl[c])'
    OBVIOUS
  <2>1. PICK k : k = dl[c]
    OBVIOUS
  <2>2. DownloadFits(k)'
    BY <2>1, <1>10, DownloadStays DEF ExportInv
  <2> QED BY <1>2, <2>1, <2>2 DEF DownloadFits
<1>13. inSlot' \in 0 .. MaxExports /\ inSlot' \in Used'
  BY <1>1, <1>3, <1>6, ExportAssumption DEF Used, Numbers
<1>14. Apart'
  BY <1>2 DEF ExportInv, Apart
<1> QED BY <1>1, <1>2, <1>8, <1>9, <1>11, <1>12, <1>13, <1>14 DEF ExportInv

\* The preparation, its deadline, and requests that look at the slot.
LEMMA SlotKeeps ==
  ASSUME ExportInv,
         \/ Status \/ Cancel
         \/ \E n \in Numbers :
              (\E i \in Item : PrepareItem(n, i)) \/ Ready(n) \/ PrepareFails(n) \/ Expire(n)
  PROVE  ExportInv'
<1>1. UNCHANGED <<wiki, inSlot, dl>>
  BY DEF Status, Cancel, PrepareItem, Ready, PrepareFails, Expire
<1>2. inSlot # 0 => inSlot \in Used /\ inSlot \in Numbers
  BY DEF ExportInv, Used, Numbers
<1>3. CASE Status
  <2>1. inSlot # 0 /\ slots' = [slots EXCEPT ![inSlot] = Got(inSlot)]
    BY <1>3 DEF Status
  <2> QED BY <1>1, <1>2, <2>1, GotMoves, SlotMoves, OnlySlotMoves
<1>4. CASE Cancel
  <2> DEFINE s == slots[inSlot]
             t == [s EXCEPT !.state = "canceled", !.ticket = FALSE, !.entries = {}]
  <2>1. inSlot # 0 /\ slots' = [slots EXCEPT ![inSlot] =
                         IF Got(inSlot).state = "complete" THEN slots[inSlot] ELSE t]
    BY <1>4 DEF Cancel
  <2>2. SlotFits(s) /\ s.state # "none"
    BY <1>2, <2>1 DEF ExportInv, Used
  <2>3. Moves(s, t)
    <3>1. /\ t \in Slots /\ t.state = "canceled" /\ t.ticket = FALSE /\ t.entries = {}
          /\ t.version = s.version /\ t.snap = s.snap
      BY <2>2 DEF SlotFits, Slots
    <3> HIDE DEF t
    <3> QED BY <2>2, <3>1 DEF Moves, SlotFits, Begun, Active
  <2>4. Moves(s, s)
    BY <2>2, StayMoves
  <2> HIDE DEF t
  <2> QED BY <1>1, <1>2, <2>1, <2>3, <2>4, SlotMoves, OnlySlotMoves
<1>5. ASSUME NEW n \in Numbers, NEW i \in Item, PrepareItem(n, i) PROVE ExportInv'
  <2> DEFINE s == slots[n]
             t == [s EXCEPT !.entries = s.entries \cup {i}]
  <2>1. SlotFits(s) /\ s.state = "preparing"
    BY <1>5 DEF PrepareItem, ExportInv
  <2>2. slots' = [slots EXCEPT ![n] = t] \/ slots' = [slots EXCEPT ![n] = Failed(s)]
    <3>1. slots \in [Numbers -> Slots]
      BY DEF ExportInv
    <3>2. CASE Check(n)
      BY <1>5, <3>1, <3>2 DEF PrepareItem
    <3>3. CASE ~Check(n)
      BY <1>5, <3>1, <3>3 DEF PrepareItem
    <3> QED BY <3>2, <3>3
  <2>3. Moves(s, t)
    <3>1. /\ t \in Slots /\ t.state = s.state /\ t.ticket = s.ticket
          /\ t.version = s.version /\ t.snap = s.snap
      BY <2>1 DEF SlotFits, Slots
    <3> HIDE DEF t
    <3> QED BY <2>1, <3>1 DEF Moves, SlotFits, Begun, Active
  <2>4. Moves(s, Failed(s))
    BY <2>1, FailedMoves
  <2> HIDE DEF t
  <2> QED BY <1>1, <2>2, <2>3, <2>4, SlotMoves, OnlySlotMoves
<1>6. ASSUME NEW n \in Numbers, Ready(n) PROVE ExportInv'
  <2> DEFINE s == slots[n]
             t == [s EXCEPT !.state = "ready", !.expired = FALSE, !.ticket = TRUE]
  <2>1. SlotFits(s) /\ s.state = "preparing" /\ s.entries = Item
    BY <1>6 DEF Ready, ExportInv
  <2>2. slots' = [slots EXCEPT ![n] = t] \/ slots' = [slots EXCEPT ![n] = Failed(s)]
    BY <1>6 DEF Ready
  <2>3. Moves(s, t)
    <3>1. /\ t \in Slots /\ t.state = "ready" /\ t.ticket = TRUE /\ t.entries = Item
          /\ t.version = s.version /\ t.snap = s.snap
      BY <2>1 DEF SlotFits, Slots, Active
    <3> HIDE DEF t
    <3> QED BY <2>1, <3>1 DEF Moves, SlotFits, Begun, Active
  <2>4. Moves(s, Failed(s))
    BY <2>1, FailedMoves
  <2> HIDE DEF t
  <2> QED BY <1>1, <2>2, <2>3, <2>4, SlotMoves, OnlySlotMoves
<1>7. ASSUME NEW n \in Numbers, PrepareFails(n) PROVE ExportInv'
  <2>1. SlotFits(slots[n]) /\ slots[n].state # "none" /\ slots' = [slots EXCEPT ![n] = Failed(slots[n])]
    BY <1>7 DEF PrepareFails, ExportInv
  <2> QED BY <1>1, <2>1, FailedMoves, SlotMoves, OnlySlotMoves
<1>8. ASSUME NEW n \in Numbers, Expire(n) PROVE ExportInv'
  <2> DEFINE s == slots[n]
             t == [s EXCEPT !.expired = TRUE]
  <2>1. SlotFits(s) /\ slots' = [slots EXCEPT ![n] = t]
    BY <1>8 DEF Expire, ExportInv
  <2>2. Moves(s, t)
    <3>1. /\ t \in Slots /\ t.state = s.state /\ t.ticket = s.ticket /\ t.entries = s.entries
          /\ t.version = s.version /\ t.snap = s.snap
      BY <2>1 DEF SlotFits, Slots
    <3> HIDE DEF t
    <3> QED BY <2>1, <3>1 DEF Moves, SlotFits, Begun
  <2> HIDE DEF t
  <2> QED BY <1>1, <2>1, <2>2, SlotMoves, OnlySlotMoves
<1> QED BY <1>3, <1>4, <1>5, <1>6, <1>7, <1>8

\* A download ends: its client is answered, with an error or at the end.
LEMMA RestMoves ==
  ASSUME ExportInv, OneSlot, UNCHANGED <<wiki, inSlot>>,
         NEW c \in Reader, dl' = [dl EXCEPT ![c] = NoDownload]
  PROVE  ExportInv'
<1>1. PICK k : k = NoDownload
  OBVIOUS
<1>2. DownloadFits(k)' /\ ~Streaming(k)
  BY <1>1, EmptyFits DEF DownloadFits, Streaming
<1> QED BY <1>1, <1>2, DownloadMoves

LEMMA AbortKeeps ==
  ASSUME ExportInv, NEW c \in Reader, dl[c].pc # "none", Abort(c), UNCHANGED <<wiki, inSlot>>
  PROVE  ExportInv'
<1>1. PICK n, s : n = dl[c].slot /\ s = Failed(slots[n])
  OBVIOUS
<1>2. n \in Used /\ n \in Numbers /\ SlotFits(slots[n]) /\ slots[n].state # "none"
  BY <1>1 DEF ExportInv, DownloadFits, Used, Numbers
<1>3. Moves(slots[n], s)
  BY <1>1, <1>2, FailedMoves
<1>4. slots' = [slots EXCEPT ![n] = s] /\ dl' = [dl EXCEPT ![c] = NoDownload]
  BY <1>1 DEF Abort
<1> QED BY <1>2, <1>3, <1>4, SlotMoves, RestMoves

\* A request finds the slot, and its form takes the ticket or is refused.
LEMMA TicketKeeps ==
  ASSUME ExportInv, NEW c \in Reader, Download(c) \/ Form(c)
  PROVE  ExportInv'
<1>1. UNCHANGED <<wiki, inSlot>>
  BY DEF Download, Form
<1>2. CASE Download(c)
  <2>1. PICK k, s : /\ k = [NoDownload EXCEPT !.pc = "form", !.slot = inSlot]
                    /\ s = Got(inSlot)
    OBVIOUS
  <2>2. inSlot \in Used /\ inSlot \in Numbers /\ slots' = [slots EXCEPT ![inSlot] = s]
    BY <1>2, <2>1 DEF Download, ExportInv, Used, Numbers
  <2>3. OneSlot
    BY <2>1, <2>2, GotMoves, SlotMoves
  <2>4. dl' = [dl EXCEPT ![c] = k]
    BY <1>2, <2>1 DEF Download
  <2>5. k \in Downloads /\ ~Streaming(k) /\ k.pc = "form" /\ k.slot = inSlot
        /\ k.sent = [i \in Item |-> Unread]
    BY <2>1, EmptyFits DEF Downloads, Streaming, ExportInv
  <2>6. DownloadFits(k)'
    BY <2>2, <2>3, <2>5, OneSlotUsed DEF DownloadFits, Streaming
  <2> QED BY <1>1, <2>3, <2>4, <2>5, <2>6, DownloadMoves
<1>3. CASE Form(c) /\ dl' = [dl EXCEPT ![c] = NoDownload] /\ slots' = slots
  BY <1>1, <1>3, NoSlotMoves, RestMoves
<1>4. ASSUME Form(c), slots[dl[c].slot].state = "ready", Start(c)
      PROVE  ExportInv'
  <2>1. PICK n, s, k :
          /\ n = dl[c].slot
          /\ s = [slots[n] EXCEPT !.state = "downloading", !.expired = FALSE, !.ticket = FALSE]
          /\ k = [dl[c] EXCEPT !.pc = "stream"]
    OBVIOUS
  <2>2. dl[c].pc = "form" /\ slots[n].state = "ready"
    BY <1>4, <2>1 DEF Form
  <2>3. n \in Used /\ n \in Numbers /\ SlotFits(slots[n]) /\ slots[n] \in Slots
    BY <2>1, <2>2 DEF ExportInv, DownloadFits, Used, Numbers, SlotFits
  <2>4. /\ s \in Slots /\ s.state = "downloading" /\ s.ticket = FALSE
        /\ s.version = slots[n].version /\ s.snap = slots[n].snap /\ s.entries = slots[n].entries
    BY <2>1, <2>3 DEF Slots, Active
  <2>5. Moves(slots[n], s)
    BY <2>2, <2>3, <2>4 DEF Moves, SlotFits, Begun, Active
  <2>6. slots' = [slots EXCEPT ![n] = s] /\ dl' = [dl EXCEPT ![c] = k]
    BY <1>4, <2>1 DEF Start
  <2>7. OneSlot /\ slots'[n] = s
    BY <2>3, <2>5, <2>6, SlotMoves
  <2>8. dl[c] \in Downloads /\ dl[c].sent = [i \in Item |-> Unread]
    BY <2>2 DEF ExportInv, DownloadFits, Streaming
  <2>9. k \in Downloads /\ k.pc = "stream" /\ k.slot = n /\ k.sent = [i \in Item |-> Unread]
    BY <2>1, <2>8 DEF Downloads
  <2>10. DownloadFits(k)'
    BY <2>3, <2>4, <2>7, <2>9, OneSlotUsed DEF DownloadFits, Streaming, Begun
  <2>11. ~Begun(slots[k.slot])
    BY <2>2, <2>9 DEF Begun
  <2> QED BY <1>1, <2>6, <2>7, <2>10, <2>11, DownloadMoves
<1> QED BY <1>2, <1>3, <1>4 DEF Form

\* What is sent after a check is what the slot's version held.
LEMMA CheckedSends ==
  ASSUME ExportInv, NEW c \in Reader, Streaming(dl[c]), Check(dl[c].slot)
  PROVE  items = slots[dl[c].slot].snap
BY DEF ExportInv, DownloadFits, SlotFits, Check, Used, Numbers, Streaming

LEMMA StreamKeeps ==
  ASSUME ExportInv, NEW c \in Reader,
         (\E i \in Item : StreamItem(c, i)) \/ StreamEnd(c) \/ Complete(c)
           \/ Disconnect(c) \/ Closed(c)
  PROVE  ExportInv'
<1>1. UNCHANGED <<wiki, inSlot>> /\ Streaming(dl[c]) /\ dl[c].pc # "none"
  BY DEF StreamItem, StreamEnd, Complete, Disconnect, Closed, Streaming
<1>2. CASE Abort(c)
  BY <1>1, <1>2, AbortKeeps
<1>3. PICK o, n : o = dl[c] /\ n = o.slot
  OBVIOUS
<1>4. /\ o \in Downloads /\ DownloadFits(o) /\ n \in Used /\ n \in Numbers
      /\ SlotFits(slots[n]) /\ slots[n] \in Slots /\ Begun(slots[n])
  BY <1>1, <1>3 DEF ExportInv, DownloadFits, Used, Numbers, SlotFits
<1>5. ASSUME NEW i \in Item, dl[c].sent[i] = Unread, Check(n),
             dl' = [dl EXCEPT ![c].sent[i] = items[i]], slots' = slots, o.pc = "stream"
      PROVE  ExportInv'
  <2>1. PICK k : k = [o EXCEPT !.sent = [o.sent EXCEPT ![i] = items[i]]]
    OBVIOUS
  <2>2. dl' = [dl EXCEPT ![c] = k]
    BY <1>3, <1>5, <2>1
  <2>3. items = slots[n].snap /\ items \in [Item -> Nat]
    BY <1>1, <1>3, <1>4, <1>5, CheckedSends DEF Slots
  <2>4. o.sent \in [Item -> Nat \cup {Unread}] /\ items[i] \in Nat
    BY <1>4, <2>3 DEF Downloads
  <2>5. k \in Downloads /\ k.pc = "stream" /\ k.slot = n
        /\ k.sent = [o.sent EXCEPT ![i] = items[i]]
    BY <1>3, <1>4, <1>5, <2>1, <2>4 DEF Downloads
  <2>6. \A j \in Item : k.sent[j] \in {Unread, slots[n].snap[j]}
    BY <1>1, <1>3, <1>4, <2>3, <2>4, <2>5 DEF DownloadFits
  <2>7. OneSlot
    BY <1>5, NoSlotMoves
  <2>8. DownloadFits(k)'
    BY <1>4, <1>5, <2>5, <2>6, <2>7, OneSlotUsed DEF DownloadFits, Streaming
  <2> QED BY <1>1, <1>3, <2>2, <2>5, <2>7, <2>8, DownloadMoves
<1>6. ASSUME \A i \in Item : o.sent[i] # Unread, slots' = slots, o.pc = "stream",
             dl' = [dl EXCEPT ![c].pc = "sent"]
      PROVE  ExportInv'
  <2>1. PICK k : k = [o EXCEPT !.pc = "sent"]
    OBVIOUS
  <2>2. dl' = [dl EXCEPT ![c] = k]
    BY <1>3, <1>6, <2>1
  <2>3. k \in Downloads /\ k.pc = "sent" /\ k.slot = n /\ k.sent = o.sent
    BY <1>3, <1>4, <2>1 DEF Downloads
  <2>4. \A i \in Item : o.sent[i] = slots[n].snap[i]
    BY <1>1, <1>3, <1>4, <1>6 DEF DownloadFits
  <2>5. o.sent = slots[n].snap
    <3>1. o.sent \in [Item -> Nat \cup {Unread}] /\ slots[n].snap \in [Item -> Nat]
      BY <1>4 DEF Downloads, Slots
    <3> QED BY <2>4, <3>1
  <2>6. OneSlot
    BY <1>6, NoSlotMoves
  <2>7. DownloadFits(k)'
    BY <1>4, <1>6, <2>3, <2>4, <2>5, <2>6, OneSlotUsed DEF DownloadFits, Streaming
  <2> QED BY <1>1, <1>3, <2>2, <2>3, <2>6, <2>7, DownloadMoves
<1>7. CASE Complete(c)
  <2>1. PICK s, k : /\ s = [slots[n] EXCEPT !.state = "complete", !.entries = {}]
                    /\ k = [o EXCEPT !.pc = "closing"]
    OBVIOUS
  <2>2. o.pc = "sent" /\ slots' = [slots EXCEPT ![n] = s] /\ dl' = [dl EXCEPT ![c] = k]
    BY <1>3, <1>7, <2>1 DEF Complete
  <2>3. /\ s \in Slots /\ s.state = "complete" /\ s.entries = {} /\ s.ticket = slots[n].ticket
        /\ s.version = slots[n].version /\ s.snap = slots[n].snap
    BY <1>4, <2>1 DEF Slots
  <2>4. Moves(slots[n], s)
    BY <1>4, <2>3 DEF Moves, SlotFits, Begun, Active
  <2>5. OneSlot /\ slots'[n] = s
    BY <1>4, <2>2, <2>4, SlotMoves
  <2>6. k \in Downloads /\ k.pc = "closing" /\ k.slot = n /\ k.sent = o.sent
    BY <1>3, <1>4, <2>1 DEF Downloads
  <2>7. DownloadFits(k)'
    BY <1>3, <1>4, <2>2, <2>3, <2>5, <2>6, OneSlotUsed DEF DownloadFits, Streaming, Begun
  <2> QED BY <1>1, <1>3, <2>2, <2>5, <2>6, <2>7, DownloadMoves
<1>8. CASE Closed(c)
  BY <1>1, <1>8, NoSlotMoves, RestMoves DEF Closed
<1>9. ASSUME NEW i \in Item, StreamItem(c, i) PROVE ExportInv'
  BY <1>2, <1>3, <1>5, <1>9 DEF StreamItem
<1>10. CASE StreamEnd(c)
  BY <1>2, <1>3, <1>6, <1>10 DEF StreamEnd
<1>11. CASE Disconnect(c)
  BY <1>2, <1>11 DEF Disconnect
<1> QED BY <1>7, <1>8, <1>9, <1>10, <1>11

\* An edit: no slot is of the wiki's version any more.
LEMMA EditKeeps ==
  ASSUME ExportInv, NEW i \in Item, WikiEdit(i)
  PROVE  ExportInv'
<1>1. /\ wikiVersion < MaxChanges /\ wikiVersion' = wikiVersion + 1
      /\ items' = [items EXCEPT ![i] = wikiVersion + 1] /\ UNCHANGED <<slots, inSlot, dl>>
  BY DEF WikiEdit
<1>2. wikiVersion \in Nat /\ wikiVersion' \in 0 .. MaxChanges
  BY <1>1, ExportAssumption DEF ExportInv
<1>3. items' \in [Item -> 0 .. wikiVersion']
  BY <1>1, <1>2 DEF ExportInv
<1>4. \A n \in Numbers : SlotFits(slots[n])'
  <2> SUFFICES ASSUME NEW n \in Numbers PROVE SlotFits(slots[n])'
    OBVIOUS
  <2>1. SlotFits(slots[n]) /\ slots[n].version \in Nat
    BY DEF ExportInv, Slots
  <2>2. slots[n].state # "none" => slots[n].version <= wikiVersion' /\ slots[n].version # wikiVersion'
    BY <1>1, <1>2, <2>1 DEF SlotFits
  <2> QED BY <1>1, <2>1, <2>2 DEF SlotFits
<1>5. \A c \in Reader : DownloadFits(dl[c])'
  BY <1>1 DEF ExportInv, DownloadFits, Used
<1>6. Apart' /\ (inSlot' # 0 => inSlot' \in Used')
  BY <1>1 DEF ExportInv, Apart, Used
<1> QED BY <1>1, <1>2, <1>3, <1>4, <1>5, <1>6 DEF ExportInv

LEMMA ExportStepInv == ExportInv /\ [ExportNext]_exportVars => ExportInv'
<1> SUFFICES ASSUME ExportInv, [ExportNext]_exportVars PROVE ExportInv'
  OBVIOUS
<1>1. CASE Prepare
  BY <1>1, PrepareKeeps
<1>2. CASE Status \/ Cancel
  BY <1>2, SlotKeeps
<1>3. CASE ExportRestart
  BY <1>3, NothingFits DEF ExportRestart, ExportInv, Numbers, wiki
<1>4. ASSUME NEW n \in 1 .. MaxExports,
             (\E i \in Item : PrepareItem(n, i)) \/ Ready(n) \/ PrepareFails(n) \/ Expire(n)
      PROVE  ExportInv'
  BY <1>4, SlotKeeps DEF Numbers
<1>5. ASSUME NEW i \in Item, WikiEdit(i) PROVE ExportInv'
  BY <1>5, EditKeeps
<1>6. ASSUME NEW c \in Reader, Download(c) \/ Form(c) PROVE ExportInv'
  BY <1>6, TicketKeeps
<1>7. ASSUME NEW c \in Reader,
             (\E i \in Item : StreamItem(c, i)) \/ StreamEnd(c) \/ Complete(c)
               \/ Disconnect(c) \/ Closed(c)
      PROVE  ExportInv'
  BY <1>7, StreamKeeps
<1>8. CASE UNCHANGED exportVars
  BY <1>8, NoSlotMoves, OnlySlotMoves DEF exportVars
<1> QED BY <1>1, <1>2, <1>3, <1>4, <1>5, <1>6, <1>7, <1>8 DEF ExportNext

\* For any number of exports, items, edits and clients: only the export in the
\* slot is active, one download takes its archive, and a download that sent
\* everything sent each item as it was at the announced version (wiki-export.ts
\* check, prepare, download and stream).
THEOREM ExportsAreOne == ExportSpec => []OneExport
<1>1. ExportInv => OneExport
  <2> SUFFICES ASSUME ExportInv PROVE OneExport
    OBVIOUS
  <2>1. \A n \in Numbers : slots[n].ticket = (slots[n].state = "ready")
    <3> SUFFICES ASSUME NEW n \in Numbers PROVE slots[n].ticket = (slots[n].state = "ready")
      OBVIOUS
    <3>1. SlotFits(slots[n]) /\ slots[n].ticket \in BOOLEAN
      BY DEF ExportInv, SlotFits, Slots
    <3>2. slots[n].ticket <=> slots[n].state = "ready"
      BY <3>1 DEF SlotFits
    <3> QED BY <3>1, <3>2
  <2>2. \A n \in Numbers : SlotFits(slots[n]) /\ slots[n] \in Slots
    BY DEF ExportInv, SlotFits
  <2>3. \A n \in Numbers : slots[n].state \in Active \cup {"none", "complete", "failed", "canceled"}
    BY <2>2 DEF Slots
  <2>4. ExportTypeOK
    BY <2>1, <2>2, <2>3 DEF ExportInv, ExportTypeOK, SlotFits, DownloadFits, Numbers
  <2>5. \A c, d \in Reader :
          c # d /\ {dl[c].pc, dl[d].pc} \subseteq {"stream", "sent", "closing"}
            => dl[c].slot # dl[d].slot
    BY DEF ExportInv, Apart, Streaming
  <2> QED BY <2>4, <2>5 DEF OneExport, ExportInv, DownloadFits, Numbers
<1> QED BY <1>1, ExportInitInv, ExportStepInv, PTL DEF ExportSpec

-----------------------------------------------------------------------------
(***************************************************************************)
(* Quota.  Requests are held one behind the other, so a payment still finds *)
(* the bucket its request looked at.                                        *)
(***************************************************************************)

QuotaTypeOK ==
  /\ tracked \subseteq Ip /\ IsFiniteSet(tracked)
  /\ bucket \in [Ip -> [level: Int, updated: Int]]
  /\ since \in [Ip -> Int] /\ charged \in [Ip -> Int]
  /\ \A p \in paying : p.ip \in Ip /\ p.at \in Time /\ p.level \in Int

\* One request at a time, with the level its bucket still has.
Queued ==
  /\ \A p, q \in paying : p = q
  /\ \A p \in paying : p.level = Level(p.ip, p.at)

QuotaInv == QuotaTypeOK /\ Queued /\ QuotaBound

LEMMA FullBurst == Full \in Nat /\ Refill \in Nat /\ Refill <= Full
<1> DEFINE f == Burst * Refill
<1>1. Burst \in Nat /\ Refill \in Nat /\ Burst >= 1 /\ Refill >= 1 BY QuotaAssumption
<1>2. f = (Burst - 1) * Refill + Refill BY <1>1
<1>3. (Burst - 1) * Refill \in Nat BY <1>1
<1> QED BY <1>1, <1>2, <1>3 DEF Full

\* Nobody holds more than a full bucket, and none more than time gave back.
LEMMA LevelBounds ==
  ASSUME QuotaInv, NEW i \in Ip, NEW t \in Time
  PROVE  /\ Level(i, t) \in 0 .. Full
         /\ i \in tracked =>
              Level(i, t) <= bucket[i].level + Later(0, t - bucket[i].updated)
         /\ i \notin tracked => Level(i, t) = Full
<1>1. t \in Int BY QuotaAssumption DEF Time
<1>2. CASE i \in tracked
  <2>1. bucket[i].level \in 0 .. Full /\ bucket[i].updated \in Int
    BY <1>2, FullBurst DEF QuotaInv, QuotaTypeOK, QuotaBound, Balanced
  <2> QED BY <1>1, <1>2, <2>1, FullBurst DEF Level, Later
<1>3. CASE i \notin tracked BY <1>3, FullBurst DEF Level
<1> QED BY <1>2, <1>3

LEMMA QuotaInitInv == QuotaInit => QuotaInv
BY FS_EmptySet, QuotaAssumption
DEF QuotaInit, QuotaInv, QuotaTypeOK, Queued, QuotaBound, NoBucket

LEMMA ChargeKeeps ==
  ASSUME QuotaInv, NEW i \in Ip, NEW t \in Time, Charge(i, t)
  PROVE  QuotaInv'
<1> DEFINE p == [ip |-> i, at |-> t, level |-> Level(i, t)]
<1>1. /\ paying' = {p} /\ Level(i, t) >= Refill
      /\ UNCHANGED <<tracked, bucket, since, charged>>
  BY DEF Charge
<1>2. Level(i, t) \in Int /\ Level(i, t)' = Level(i, t)
  BY <1>1, LevelBounds, FullBurst DEF Level
<1>3. QuotaTypeOK' BY <1>1, <1>2 DEF QuotaInv, QuotaTypeOK, Time
<1>4. Queued' BY <1>1, <1>2 DEF Queued, Level
<1>5. QuotaBound' BY <1>1 DEF QuotaInv, QuotaBound, Balanced, Time
<1> QED BY <1>3, <1>4, <1>5 DEF QuotaInv

\* The new bucket of the address that paid.
LEMMA PaidBalanced ==
  ASSUME QuotaInv, NEW p \in paying, NEW victim \in Ip, Paid(p, victim)
  PROVE  Balanced(p.ip)'
<1> DEFINE i == p.ip
           b == bucket[i]
<1>1. i \in Ip /\ p.at \in Time /\ p.at \in Nat /\ p.level = Level(i, p.at) /\ p.level >= Refill
  BY QuotaAssumption DEF QuotaInv, QuotaTypeOK, Queued, QuotaBound, Time
<1>2. p.level \in 0 .. Full BY <1>1, LevelBounds
<1>3. /\ bucket'[i].level = p.level - Refill /\ bucket'[i].updated = Updated(p)
      /\ since'[i] = (IF i \in tracked THEN since[i] ELSE p.at)
      /\ charged'[i] = (IF i \in tracked THEN charged[i] + 1 ELSE 1)
  BY <1>1 DEF Paid, QuotaInv, QuotaTypeOK
<1>4. CASE i \notin tracked
  <2>1. p.level = Full BY <1>1, <1>4, LevelBounds
  <2>2. 1 * Refill = Refill BY FullBurst
  <2> QED BY <1>1, <1>2, <1>3, <1>4, <2>1, <2>2, FullBurst DEF Balanced, Updated
<1>5. CASE i \in tracked
  <2>1. /\ b.level \in 0 .. Full /\ b.updated \in Time /\ since[i] \in Time
        /\ charged[i] \in Nat /\ since[i] <= b.updated
        /\ b.level + charged[i] * Refill <= Full + (b.updated - since[i])
    BY <1>5 DEF QuotaInv, QuotaBound, Balanced
  <2>2. (charged[i] + 1) * Refill = charged[i] * Refill + Refill
        /\ charged[i] * Refill \in Nat
    BY <2>1, FullBurst
  <2>3. p.level <= b.level + Later(0, p.at - b.updated) BY <1>1, <1>5, LevelBounds
  <2>4. b.updated \in Nat /\ since[i] \in Nat /\ b.level \in Nat
    BY <2>1, FullBurst, QuotaAssumption DEF Time
  <2>5. /\ bucket'[i].updated = Later(p.at, b.updated)
        /\ since'[i] = since[i] /\ charged'[i] = charged[i] + 1
    BY <1>3, <1>5 DEF Updated
  <2>6. /\ Later(p.at, b.updated) \in Time /\ Later(p.at, b.updated) \in Nat
        /\ Later(p.at, b.updated) >= b.updated
    BY <1>1, <2>1, <2>4, QuotaAssumption DEF Later, Time
  <2>7. Later(p.at, b.updated) = b.updated + Later(0, p.at - b.updated)
    BY <1>1, <2>4 DEF Later
  <2> DEFINE c == charged[i] * Refill
             g == Later(0, p.at - b.updated)
  <2>8. c \in Nat /\ g \in Nat BY <1>1, <2>2, <2>4 DEF Later
  <2>9. bucket'[i].level + charged'[i] * Refill <= Full + (bucket'[i].updated - since'[i])
    <3>1. charged'[i] * Refill = c + Refill BY <2>2, <2>5
    <3>2. b.level + c <= Full + (b.updated - since[i]) BY <2>1
    <3>3. p.level <= b.level + g BY <2>3
    <3>4. bucket'[i].level = p.level - Refill BY <1>3
    <3>5. bucket'[i].updated = b.updated + g /\ since'[i] = since[i] BY <2>5, <2>7
    <3> HIDE DEF c, g
    <3> QED BY <1>2, <2>4, <2>8, <3>1, <3>2, <3>3, <3>4, <3>5, FullBurst
  <2>10. bucket'[i].level \in 0 .. Full BY <1>1, <1>2, <1>3, FullBurst
  <2>11. charged'[i] \in Nat /\ since'[i] \in Time BY <2>1, <2>5
  <2>12. bucket'[i].updated \in Time /\ since'[i] <= bucket'[i].updated
    BY <2>1, <2>4, <2>5, <2>6
  <2> QED BY <2>9, <2>10, <2>11, <2>12 DEF Balanced
<1> QED BY <1>4, <1>5

\* At the limit one bucket goes for the one that comes.
LEMMA PaidTracked ==
  ASSUME QuotaInv, NEW p \in paying, NEW victim \in Ip, Paid(p, victim)
  PROVE  /\ tracked' \subseteq Ip /\ IsFiniteSet(tracked')
         /\ tracked' \subseteq tracked \cup {p.ip} /\ Cardinality(tracked') <= MaxIps
<1>1. /\ tracked' = (tracked \ Untracked(p, victim)) \cup {p.ip}
      /\ p.ip \notin tracked /\ Cardinality(tracked) >= MaxIps => victim \in tracked
  BY DEF Paid
<1>2. /\ tracked \subseteq Ip /\ IsFiniteSet(tracked) /\ p.ip \in Ip
      /\ Cardinality(tracked) \in Nat /\ Cardinality(tracked) <= MaxIps /\ MaxIps \in Nat
  BY FS_CardinalityType, QuotaAssumption DEF QuotaInv, QuotaTypeOK, QuotaBound
<1>3. CASE p.ip \in tracked
  <2>1. tracked' = tracked BY <1>1, <1>3 DEF Untracked
  <2> QED BY <1>2, <2>1
<1>4. CASE p.ip \notin tracked /\ Cardinality(tracked) < MaxIps
  <2>1. tracked' = tracked \cup {p.ip}
    <3>1. ~(Cardinality(tracked) >= MaxIps) BY <1>2, <1>4
    <3> QED BY <1>1, <1>4, <3>1 DEF Untracked
  <2>2. IsFiniteSet(tracked') /\ Cardinality(tracked') = Cardinality(tracked) + 1
    BY <1>2, <1>4, <2>1, FS_AddElement
  <2> QED BY <1>2, <1>4, <2>1, <2>2
<1>5. CASE p.ip \notin tracked /\ Cardinality(tracked) >= MaxIps
  <2> DEFINE rest == tracked \ {victim}
  <2>1. tracked' = rest \cup {p.ip} /\ victim \in tracked /\ p.ip \notin rest
    BY <1>1, <1>5 DEF Untracked
  <2>2. IsFiniteSet(rest) /\ Cardinality(rest) = Cardinality(tracked) - 1
    BY <1>2, <2>1, FS_RemoveElement
  <2>3. IsFiniteSet(tracked') /\ Cardinality(tracked') = Cardinality(rest) + 1
    BY <2>1, <2>2, FS_AddElement
  <2> QED BY <1>2, <2>1, <2>2, <2>3
<1> QED BY <1>2, <1>3, <1>4, <1>5

LEMMA PaidKeeps ==
  ASSUME QuotaInv, NEW p \in paying, NEW victim \in Ip, Paid(p, victim)
  PROVE  QuotaInv'
<1>1. paying' = {} BY DEF Paid, QuotaInv, Queued
<1>2. p.ip \in Ip /\ p.at \in Int /\ p.level \in Int
  BY QuotaAssumption DEF QuotaInv, QuotaTypeOK, Time
<1>3. QuotaTypeOK'
  <2>1. Updated(p) \in Int
    BY <1>2 DEF Updated, Later, QuotaInv, QuotaTypeOK
  <2>2. bucket' \in [Ip -> [level: Int, updated: Int]]
    BY <1>2, <2>1, FullBurst DEF Paid, QuotaInv, QuotaTypeOK
  <2>3. since' \in [Ip -> Int] /\ charged' \in [Ip -> Int]
    BY <1>2 DEF Paid, QuotaInv, QuotaTypeOK
  <2> QED BY <1>1, <2>2, <2>3, PaidTracked DEF QuotaTypeOK
<1>4. Queued' BY <1>1 DEF Queued
<1>5. ASSUME NEW i \in tracked' PROVE Balanced(i)'
  <2>1. CASE i = p.ip BY <2>1, PaidBalanced
  <2>2. CASE i # p.ip
    <3>1. i \in tracked /\ i \in Ip /\ Balanced(i)
      BY <1>5, <2>2, PaidTracked DEF QuotaInv, QuotaBound
    <3>2. bucket'[i] = bucket[i] /\ since'[i] = since[i] /\ charged'[i] = charged[i]
      BY <2>2, <3>1 DEF Paid, QuotaInv, QuotaTypeOK
    <3> QED BY <3>1, <3>2 DEF Balanced
  <2> QED BY <2>1, <2>2
<1>6. QuotaBound' BY <1>1, <1>5, PaidTracked DEF QuotaBound
<1> QED BY <1>3, <1>4, <1>6 DEF QuotaInv

LEMMA QuotaStepInv == QuotaInv /\ [QuotaNext]_quotaVars => QuotaInv'
<1> SUFFICES ASSUME QuotaInv, [QuotaNext]_quotaVars PROVE QuotaInv' OBVIOUS
<1>1. ASSUME NEW i \in Ip, NEW t \in Time, Charge(i, t) PROVE QuotaInv'
  BY <1>1, ChargeKeeps
<1>2. ASSUME NEW p \in paying, NEW victim \in Ip, Paid(p, victim) PROVE QuotaInv'
  BY <1>2, PaidKeeps
<1>3. ASSUME NEW p \in paying, Unpaid(p) PROVE QuotaInv'
  <2>1. paying' \subseteq paying /\ UNCHANGED <<tracked, bucket, since, charged>>
    BY <1>3 DEF Unpaid
  <2> QED BY <2>1 DEF QuotaInv, QuotaTypeOK, Queued, QuotaBound, Balanced, Level, Time
<1>4. CASE QuotaRestart
  BY <1>4, FS_EmptySet, QuotaAssumption
  DEF QuotaRestart, QuotaInv, QuotaTypeOK, Queued, QuotaBound
<1>5. CASE UNCHANGED quotaVars
  BY <1>5 DEF quotaVars, QuotaInv, QuotaTypeOK, Queued, QuotaBound, Balanced, Level, Time
<1> QED BY <1>1, <1>2, <1>3, <1>4, <1>5 DEF QuotaNext

\* However the readings of the clock come, an address pays for no more than its
\* burst and what time gave back while its bucket is kept.
THEOREM QuotaIsBounded == QuotaSpec => []QuotaBound
<1>1. QuotaInv => QuotaBound BY DEF QuotaInv
<1> QED BY <1>1, QuotaInitInv, QuotaStepInv, PTL DEF QuotaSpec

-----------------------------------------------------------------------------
(***************************************************************************)
(* Posts of the command line.  A client's verdict rests on where the        *)
(* server's handler can be when it is given (Course), the screening on what *)
(* a handler knows at each of its awaits (Screening).                       *)
(***************************************************************************)

Statuses == {0, 200, 400, 404, 409, 412, 422, 500, 502, 503}
Replies == [status: Statuses, posted: {"unsaid", "no", "yes"}, events: BOOLEAN]

Lasts == 0 .. Cardinality(Sender)
Cmds == [pc: {"start", "config", "send", "sent", "exited"}, mode: Mode, last: Lasts,
         attempted: BOOLEAN]

PostTypeOK ==
  /\ env \in Env /\ mode \in Mode /\ live \in BOOLEAN
  /\ cmd \in [Sender -> Cmds]
  /\ handler \in [Sender -> [pc: {"none", "arrived", "screen", "commit", "poll", "replied"},
                             reply: Replies]]
  /\ print \in [Sender -> {"nothing", "posted", "refused", "unknown", "unsent"}]

\* Where the client is, its handler and its event: nothing is stored before the
\* commit, and an answer that settles the question settles it rightly.
Course(c) ==
  /\ cmd[c].pc \in {"start", "config", "send"} => handler[c].pc = "none"
  /\ cmd[c].pc = "sent" => cmd[c].attempted = TRUE
  /\ cmd[c].pc \in {"start", "config", "send", "sent"} => print[c] = "nothing"
  /\ handler[c].pc \in {"none", "arrived", "screen", "commit"} => c \notin log
  /\ handler[c].pc = "poll" => c \in log
  /\ handler[c].pc = "replied" =>
       /\ handler[c].reply.status = 200 => c \in log
       /\ handler[c].reply.status = 409 \/ handler[c].reply.posted = "no" => c \notin log

\* What a handler knows of its message at the awaits after the body.
Screening(c) ==
  /\ handler[c].pc \in {"screen", "commit", "poll"} => cmd[c].mode = mode
  /\ handler[c].pc = "screen" => mode = "readable"
  /\ handler[c].pc = "commit" /\ Moderation => c \in asked

Mine(c) == Truthful(c) /\ Screened(c) /\ Course(c) /\ Screening(c)
PostInv == PostTypeOK /\ \A c \in Sender : Mine(c)

LEMMA PostInitInv == PostInit => PostInv
<1> SUFFICES ASSUME PostInit PROVE PostInv OBVIOUS
<1>1. 0 \in Lasts BY FS_CardinalityType, PostAssumption DEF Lasts
<1>2. PostTypeOK
  BY <1>1 DEF PostInit, PostTypeOK, Cmds, Mode, NoReply, Replies, Statuses
<1> QED
  BY <1>2 DEF PostInit, PostInv, Mine, Truthful, Screened, Course, Screening

\* A step of client c or of its handler leaves the others as they are.
Same(d) ==
  /\ cmd'[d] = cmd[d] /\ handler'[d] = handler[d] /\ print'[d] = print[d]
  /\ d \in log' <=> d \in log
  /\ d \in asked' <=> d \in asked
SameFor(c) == \A d \in Sender \ {c} : Same(d)

LEMMA OthersKeep ==
  ASSUME PostInv, NEW c \in Sender, SameFor(c), UNCHANGED <<mode, env>>, PostTypeOK', Mine(c)'
  PROVE  PostInv'
<1>1. ASSUME NEW d \in Sender, d # c PROVE Mine(d)'
  <2>1. Mine(d) /\ Same(d) BY <1>1 DEF PostInv, SameFor
  <2> QED BY <2>1 DEF Mine, Same, Truthful, Screened, Course, Screening, Moderation
<1> QED BY <1>1 DEF PostInv

LEMMA LaunchKeeps ==
  ASSUME PostInv, NEW c \in Sender, Launch(c)
  PROVE  PostInv'
<1>1. PostTypeOK'
  <2>1. PICK pc \in {"config", "send"}, l \in Lasts :
          cmd' = [cmd EXCEPT ![c].pc = pc, ![c].last = l]
    BY DEF Launch, Lasts
  <2>2. cmd[c] \in Cmds BY DEF PostInv, PostTypeOK
  <2>3. [cmd[c] EXCEPT !.pc = pc, !.last = l] \in Cmds BY <2>2 DEF Cmds
  <2>4. cmd' \in [Sender -> Cmds] BY <2>1, <2>3 DEF PostInv, PostTypeOK
  <2> QED BY <2>4 DEF PostInv, PostTypeOK, Launch
<1>2. SameFor(c) /\ UNCHANGED <<mode, env>> BY DEF PostInv, PostTypeOK, Launch, SameFor, Same
<1>3. Mine(c)'
  BY DEF PostInv, PostTypeOK, Launch, Mine, Truthful, Screened, Course, Screening, Moderation
<1> QED BY <1>1, <1>2, <1>3, OthersKeep

LEMMA ConfigKeeps ==
  ASSUME PostInv, NEW c \in Sender, Config(c)
  PROVE  PostInv'
<1>1. PostTypeOK'
  <2>1. cmd[c] \in Cmds /\ mode \in Mode BY DEF PostInv, PostTypeOK
  <2>2. PICK pc \in {"send", "exited"}, m \in Mode :
          cmd' = [cmd EXCEPT ![c].pc = pc, ![c].mode = m]
    <3>1. [cmd EXCEPT ![c].pc = "send"] = [cmd EXCEPT ![c].pc = "send", ![c].mode = cmd[c].mode]
      BY DEF PostInv, PostTypeOK, Cmds
    <3>2. [cmd EXCEPT ![c].pc = "exited"] = [cmd EXCEPT ![c].pc = "exited", ![c].mode = cmd[c].mode]
      BY DEF PostInv, PostTypeOK, Cmds
    <3> QED BY <2>1, <3>1, <3>2 DEF Config, ExitFailed, Exit, Cmds
  <2>3. [cmd[c] EXCEPT !.pc = pc, !.mode = m] \in Cmds BY <2>1 DEF Cmds
  <2>4. cmd' \in [Sender -> Cmds] BY <2>2, <2>3 DEF PostInv, PostTypeOK
  <2> QED BY <2>4 DEF PostInv, PostTypeOK, Config, ExitFailed, Exit
<1>2. SameFor(c) /\ UNCHANGED <<mode, env>>
  BY DEF PostInv, PostTypeOK, Config, ExitFailed, Exit, SameFor, Same
<1>3. Mine(c)'
  <2>1. /\ cmd[c] \in Cmds /\ cmd[c].pc = "config" /\ handler[c].pc = "none" /\ c \notin log
        /\ print[c] = "nothing"
    BY DEF PostInv, PostTypeOK, Mine, Course, Config
  <2>2. \/ cmd'[c].pc = "send" /\ print'[c] = "nothing"
        \/ cmd'[c].pc = "exited" /\ print'[c] = "unsent"
    BY <2>1 DEF PostInv, PostTypeOK, Cmds, Config, ExitFailed, Exit
  <2>3. UNCHANGED <<env, mode, log, handler, asked>> BY DEF Config
  <2> QED BY <2>1, <2>2, <2>3 DEF PostInv, Mine, Truthful, Screened, Course, Screening
<1> QED BY <1>1, <1>2, <1>3, OthersKeep

LEMMA SendKeeps ==
  ASSUME PostInv, NEW c \in Sender, Send(c)
  PROVE  PostInv'
<1>1. /\ cmd[c] \in Cmds /\ handler[c].pc = "none" /\ c \notin log
      /\ cmd[c].pc = "send" /\ print[c] = "nothing"
      /\ UNCHANGED <<env, mode, live, log, asked>>
  BY DEF PostInv, PostTypeOK, Mine, Course, Send
<1>2. CASE /\ cmd' = [cmd EXCEPT ![c].pc = "sent", ![c].attempted = TRUE]
           /\ handler' = [handler EXCEPT ![c].pc = "arrived"] /\ UNCHANGED print
  <2>1. [cmd[c] EXCEPT !.pc = "sent", !.attempted = TRUE] \in Cmds BY <1>1 DEF Cmds
  <2>2. cmd' \in [Sender -> Cmds] BY <1>2, <2>1 DEF PostInv, PostTypeOK
  <2>3. PostTypeOK' BY <1>1, <1>2, <2>2 DEF PostInv, PostTypeOK
  <2>4. SameFor(c) BY <1>1, <1>2 DEF PostInv, PostTypeOK, SameFor, Same
  <2>5. /\ cmd'[c].pc = "sent" /\ cmd'[c].attempted = TRUE /\ handler'[c].pc = "arrived"
        /\ print'[c] = "nothing"
    BY <1>1, <1>2 DEF PostInv, PostTypeOK, Cmds, Mine, Course
  <2>6. Mine(c)'
    BY <1>1, <2>5 DEF PostInv, Mine, Truthful, Screened, Course, Screening
  <2> QED BY <1>1, <2>3, <2>4, <2>6, OthersKeep
<1>3. CASE Exit(c, "unsent") /\ UNCHANGED handler
  <2>1. [cmd[c] EXCEPT !.pc = "exited"] \in Cmds BY <1>1 DEF Cmds
  <2>2. cmd' \in [Sender -> Cmds] BY <1>3, <2>1 DEF PostInv, PostTypeOK, Exit
  <2>3. PostTypeOK' BY <1>1, <1>3, <2>2 DEF PostInv, PostTypeOK, Exit
  <2>4. SameFor(c) BY <1>1, <1>3 DEF PostInv, PostTypeOK, Exit, SameFor, Same
  <2>5. cmd'[c].pc = "exited" /\ print'[c] = "unsent"
    BY <1>1, <1>3 DEF PostInv, PostTypeOK, Cmds, Exit
  <2>6. Mine(c)'
    BY <1>1, <1>3, <2>5 DEF PostInv, Mine, Truthful, Screened, Course, Screening
  <2> QED BY <1>1, <2>3, <2>4, <2>6, OthersKeep
<1> QED BY <1>2, <1>3 DEF Send, ExitFailed

\* A client ends on a verdict that its handler's state bears out.
LEMMA ExitKeeps ==
  ASSUME PostInv, NEW c \in Sender, NEW what \in {"posted", "refused", "unknown"},
         cmd[c].pc = "sent", Exit(c, what), UNCHANGED <<env, mode, live, log, handler, asked>>,
         what = "posted" => c \in log,
         what = "refused" => c \notin log /\ handler[c].pc = "replied"
  PROVE  PostInv'
<1>1. PostTypeOK'
  <2>1. cmd[c] \in Cmds BY DEF PostInv, PostTypeOK
  <2>2. [cmd[c] EXCEPT !.pc = "exited"] \in Cmds BY <2>1 DEF Cmds
  <2>3. cmd' \in [Sender -> Cmds] BY <2>2 DEF PostInv, PostTypeOK, Exit
  <2> QED BY <2>3 DEF PostInv, PostTypeOK, Exit
<1>2. SameFor(c) BY DEF PostInv, PostTypeOK, Exit, SameFor, Same
<1>3. Mine(c)'
  BY DEF PostInv, PostTypeOK, Exit, Mine, Truthful, Screened, Course, Screening, Moderation
<1> QED BY <1>1, <1>2, <1>3, OthersKeep

LEMMA EndKeeps ==
  ASSUME PostInv, NEW c \in Sender, Receive(c) \/ NoAnswer(c)
  PROVE  PostInv'
<1>1. Course(c) /\ cmd[c].pc = "sent" /\ cmd[c].attempted = TRUE
  BY DEF PostInv, Mine, Course, Receive, NoAnswer
<1>2. UNCHANGED <<env, mode, live, log, handler, asked>> BY DEF Receive, NoAnswer
<1>3. CASE Receive(c)
  <2>1. handler[c].pc = "replied" /\ Answered(c, handler[c].reply) BY <1>3 DEF Receive
  <2>2. \/ Exit(c, "posted") /\ handler[c].reply.status = 200
        \/ Exit(c, "refused")
           /\ (handler[c].reply.status = 409 \/ handler[c].reply.posted = "no")
        \/ Exit(c, "unknown")
    BY <1>1, <2>1 DEF Answered, Denied, ExitFailed
  <2>3. \/ Exit(c, "posted") /\ c \in log
        \/ Exit(c, "refused") /\ c \notin log
        \/ Exit(c, "unknown")
    BY <1>1, <2>1, <2>2 DEF Course
  <2>4. CASE Exit(c, "posted") /\ c \in log BY <1>1, <1>2, <2>4, ExitKeeps
  <2>5. CASE Exit(c, "refused") /\ c \notin log BY <1>1, <1>2, <2>1, <2>5, ExitKeeps
  <2>6. CASE Exit(c, "unknown") BY <1>1, <1>2, <2>6, ExitKeeps
  <2> QED BY <2>3, <2>4, <2>5, <2>6
<1>4. CASE NoAnswer(c)
  <2>1. Exit(c, "unknown")
    BY <1>1, <1>4 DEF NoAnswer, Answered, Denied, ExitFailed, Plain, Reply
  <2> QED BY <1>1, <1>2, <2>1, ExitKeeps
<1> QED BY <1>3, <1>4

\* A handler that answers: 200 of a message that is stored, a refusal of one
\* that is not; whether the provider was asked is known by then.
LEMMA RespondKeeps ==
  ASSUME PostInv, NEW c \in Sender, NEW reply \in Replies, Respond(c, reply),
         handler[c].pc \in {"arrived", "screen", "commit", "poll"},
         UNCHANGED <<env, mode, live, log, cmd, print>>,
         asked' = asked \/ (asked' = asked \cup {c} /\ mode = "readable"),
         reply.status = 200 => c \in log,
         reply.status = 409 \/ reply.posted = "no" => c \notin log
  PROVE  PostInv'
<1>1. PostTypeOK' BY DEF PostInv, PostTypeOK, Respond
<1>2. SameFor(c) BY DEF PostInv, PostTypeOK, Respond, SameFor, Same
<1>3. handler'[c] = [pc |-> "replied", reply |-> reply]
  BY DEF PostInv, PostTypeOK, Respond
<1>4. Mine(c)'
  BY <1>3 DEF PostInv, Mine, Truthful, Screened, Course, Screening
<1> QED BY <1>1, <1>2, <1>4, OthersKeep

\* A handler that goes on before its commit knows what the next await needs.
LEMMA ContinueKeeps ==
  ASSUME PostInv, NEW c \in Sender, NEW pc \in {"screen", "commit"}, Continue(c, pc),
         handler[c].pc \in {"arrived", "screen"},
         UNCHANGED <<env, mode, live, log, cmd, print>>,
         asked' = asked \/ (asked' = asked \cup {c} /\ mode = "readable"),
         cmd[c].mode = mode,
         pc = "screen" => mode = "readable",
         pc = "commit" /\ Moderation => c \in asked'
  PROVE  PostInv'
<1>1. PostTypeOK' BY DEF PostInv, PostTypeOK, Continue
<1>2. SameFor(c) BY DEF PostInv, PostTypeOK, Continue, SameFor, Same
<1>3. handler'[c].pc = pc BY DEF PostInv, PostTypeOK, Continue
<1>4. Mine(c)'
  BY <1>3 DEF PostInv, Mine, Truthful, Screened, Course, Screening, Moderation
<1> QED BY <1>1, <1>2, <1>4, OthersKeep

LEMMA Refusals ==
  ASSUME NEW status \in Statuses
  PROVE  /\ Plain(status) \in Replies /\ Plain(status).status = status
         /\ Plain(status).posted = "unsaid"
         /\ Coded(status) \in Replies /\ Coded(status).status = status
BY DEF Plain, Coded, Reply, Replies

LEMMA ArrivedKeeps ==
  ASSUME PostInv, NEW c \in Sender, Arrived(c)
  PROVE  PostInv'
<1>1. /\ handler[c].pc = "arrived" /\ c \notin log
      /\ UNCHANGED <<env, mode, live, log, cmd, print, asked>>
  BY DEF Arrived, PostInv, Mine, Course
<1>2. \/ \E status \in Statuses \ {200} : Respond(c, Plain(status)) \/ Respond(c, Coded(status))
      \/ cmd[c].mode = mode /\ mode = "readable" /\ Continue(c, "screen")
      \/ cmd[c].mode = mode /\ ~Moderation /\ Continue(c, "commit")
  BY DEF Arrived, Checked, BodyFits, Tagging, Moderation, Statuses
<1>3. CASE \E status \in Statuses \ {200} : Respond(c, Plain(status)) \/ Respond(c, Coded(status))
  BY <1>1, <1>3, Refusals, RespondKeeps
<1>4. CASE cmd[c].mode = mode /\ mode = "readable" /\ Continue(c, "screen")
  BY <1>1, <1>4, ContinueKeeps
<1>5. CASE cmd[c].mode = mode /\ ~Moderation /\ Continue(c, "commit")
  BY <1>1, <1>5, ContinueKeeps
<1> QED BY <1>2, <1>3, <1>4, <1>5

LEMMA ScreenKeeps ==
  ASSUME PostInv, NEW c \in Sender, Screen(c)
  PROVE  PostInv'
<1>1. /\ handler[c].pc = "screen" /\ c \notin log /\ mode = "readable" /\ cmd[c].mode = mode
      /\ UNCHANGED <<env, mode, live, log, cmd, print>>
  BY DEF Screen, PostInv, Mine, Course, Screening
<1>2. asked' = asked \/ (asked' = asked \cup {c} /\ mode = "readable") BY <1>1 DEF Screen
<1>3. \/ Continue(c, "commit") /\ (Moderation => c \in asked')
      \/ \E status \in {422, 503} : Respond(c, Coded(status))
  BY DEF Screen, Evaluated
<1>4. CASE Continue(c, "commit") /\ (Moderation => c \in asked')
  BY <1>1, <1>2, <1>4, ContinueKeeps
<1>5. CASE \E status \in {422, 503} : Respond(c, Coded(status))
  BY <1>1, <1>2, <1>5, Refusals, RespondKeeps DEF Statuses
<1> QED BY <1>3, <1>4, <1>5

LEMMA CommitKeeps ==
  ASSUME PostInv, NEW c \in Sender, Commit(c)
  PROVE  PostInv'
<1>1. /\ handler[c].pc = "commit" /\ c \notin log /\ cmd[c].mode = mode
      /\ Moderation => c \in asked
      /\ UNCHANGED <<env, mode, live, cmd, print, asked>>
  BY DEF Commit, PostInv, Mine, Course, Screening
<1>2. CASE log' = log \cup {c} /\ Continue(c, "poll")
  <2>1. PostTypeOK' BY <1>1, <1>2 DEF PostInv, PostTypeOK, Continue
  <2>2. SameFor(c) BY <1>1, <1>2 DEF PostInv, PostTypeOK, Continue, SameFor, Same
  <2>3. handler'[c].pc = "poll" BY <1>2 DEF PostInv, PostTypeOK, Continue
  <2>4. Mine(c)'
    BY <1>1, <1>2, <2>3 DEF PostInv, Mine, Truthful, Screened, Course, Screening, Moderation
  <2> QED BY <1>1, <2>1, <2>2, <2>4, OthersKeep
<1>3. CASE UNCHANGED log /\ \E status \in {404, 409} :
             Respond(c, Plain(status)) \/ Respond(c, Coded(status))
  BY <1>1, <1>3, Refusals, RespondKeeps DEF Statuses
<1> QED BY <1>2, <1>3 DEF Commit, Checked

LEMMA AnswerKeeps ==
  ASSUME PostInv, NEW c \in Sender, AfterCommit(c) \/ ServerFails(c)
  PROVE  PostInv'
<1>1. UNCHANGED <<env, mode, live, log, cmd, print, asked>> BY DEF AfterCommit, ServerFails
<1>2. CASE AfterCommit(c)
  <2>1. handler[c].pc = "poll" /\ c \in log
    BY <1>2 DEF AfterCommit, PostInv, Mine, Course
  <2>2. CASE Respond(c, Reply(200, "yes"))
    <3>1. /\ Reply(200, "yes") \in Replies /\ Reply(200, "yes").status = 200
          /\ Reply(200, "yes").posted = "yes"
      BY DEF Reply, Replies, Statuses
    <3> QED BY <1>1, <2>1, <2>2, <3>1, RespondKeeps
  <2>3. CASE Respond(c, Plain(404))
    BY <1>1, <2>1, <2>3, Refusals, RespondKeeps DEF Statuses
  <2> QED BY <1>2, <2>2, <2>3 DEF AfterCommit, PollReply
<1>3. CASE ServerFails(c)
  BY <1>1, <1>3, Refusals, RespondKeeps DEF ServerFails, Statuses
<1> QED BY <1>2, <1>3

\* The chat goes at any time; the settings change between two requests.
LEMMA AroundKeeps ==
  ASSUME PostInv, ChatGone \/ Redeploy \/ UNCHANGED postVars
  PROVE  PostInv'
<1> USE DEF Mine, Truthful, Screened, Course, Screening
<1>1. CASE ChatGone
  <2>1. PostTypeOK' BY <1>1 DEF ChatGone, PostInv, PostTypeOK
  <2>2. ASSUME NEW c \in Sender PROVE Mine(c)' BY <1>1 DEF ChatGone, PostInv, Moderation
  <2> QED BY <2>1, <2>2 DEF PostInv
<1>2. CASE Redeploy
  <2>1. PostTypeOK' BY <1>2 DEF Redeploy, PostInv, PostTypeOK
  <2>2. ASSUME NEW c \in Sender PROVE Mine(c)' BY <1>2 DEF Redeploy, PostInv
  <2> QED BY <2>1, <2>2 DEF PostInv
<1>3. CASE UNCHANGED postVars
  BY <1>3 DEF postVars, PostInv, PostTypeOK, Moderation
<1> QED BY <1>1, <1>2, <1>3

LEMMA PostStepInv == PostInv /\ [PostNext]_postVars => PostInv'
BY LaunchKeeps, ConfigKeeps, SendKeeps, EndKeeps, ArrivedKeeps, ScreenKeeps, CommitKeeps,
  AnswerKeeps, AroundKeeps
DEF PostNext

\* What the client printed stays true of the log, and a run that printed a
\* refusal has nothing left at the server (client.mjs main, worker.ts handle).
THEOREM VerdictIsHonest == PostSpec => []HonestVerdict
<1>1. PostInv => HonestVerdict BY DEF PostInv, Mine, HonestVerdict
<1> QED BY PostInitInv, PostStepInv, <1>1, PTL DEF PostSpec

\* No readable message is stored under moderation without the provider's answer,
\* and none of another mode than its chat's (worker.ts handle, moderation.ts).
THEOREM MessagesAreScreened == PostSpec => []ScreenedFirst
<1>1. PostInv => ScreenedFirst BY DEF PostInv, Mine, ScreenedFirst
<1> QED BY PostInitInv, PostStepInv, <1>1, PTL DEF PostSpec

-----------------------------------------------------------------------------
(***************************************************************************)
(* Attachments (WikiUploads, whose specification is UploadsSpec). The       *)
(* counter of the budget is the sum of what the rows reserve. That sum is   *)
(* recursive, so what one row adds to it is shown by induction on the       *)
(* number of rows: a function that tells the sum of each set of rows exists *)
(* and follows every change. UploadInv adds what cleanup has selected: a    *)
(* row that is still there, with the size it was selected with, so that     *)
(* erasing it gives back what it took. FilesLiveInv orders the steps of an  *)
(* upload in a live wiki: a row and its fresh reservation come before the   *)
(* object, a row is ready only with it, and only a row whose upload is over *)
(* is selected, which needs the put to end before its reservation is stale. *)
(***************************************************************************)

LEMMA Induct ==
  ASSUME NEW S, 0 \in S, \A n \in Nat : n \in S => n + 1 \in S
  PROVE  \A n \in Nat : n \in S
<1> DEFINE T == {n \in Nat : n \notin S}
           Smaller == OpToRel(<, Nat)
<1> SUFFICES ASSUME T # {} PROVE FALSE
  OBVIOUS
<1>1. \E x \in T : \A y \in T : ~(<<y, x>> \in Smaller)
  BY NatLessThanWellFounded, WFMin
<1>2. \A x, y \in Nat : <<y, x>> \in Smaller <=> y < x
  BY DEF OpToRel
<1> HIDE DEF Smaller
<1>3. PICK m \in T : \A k \in T : ~(k < m)
  BY <1>1, <1>2
<1>4. m # 0 /\ m - 1 \in Nat
  BY <1>3
<1>5. m - 1 \in S
  BY <1>3, <1>4
<1> QED BY <1>3, <1>4, <1>5

\* What the rows reserve together, as MapThenSumSet computes it.
Reserved(w) == MapThenSumSet(LAMBDA f : w[f].size, Files)
Chosen(s) == CHOOSE x \in s : TRUE

\* sums tells for each set of Fam what its rows sum up to.
SumsUp(sums, w, Fam) ==
  sums = [s \in Fam |-> IF s = {} THEN 0 ELSE w[Chosen(s)].size + sums[s \ {Chosen(s)}]]

UpTo(S, n) == {s \in SUBSET S : Cardinality(s) <= n}

LEMMA SmallerSet ==
  ASSUME NEW S, IsFiniteSet(S), NEW n \in Nat, NEW s \in UpTo(S, n + 1), s # {}
  PROVE  Chosen(s) \in s /\ s \ {Chosen(s)} \in UpTo(S, n)
<1>1. Chosen(s) \in s
  BY DEF Chosen
<1>2. s \subseteq S /\ IsFiniteSet(s) /\ Cardinality(s) \in Nat /\ Cardinality(s) <= n + 1
  BY FS_Subset, FS_CardinalityType DEF UpTo
<1>3. Cardinality(s \ {Chosen(s)}) = Cardinality(s) - 1
  BY <1>1, <1>2, FS_RemoveElement
<1> QED BY <1>1, <1>2, <1>3 DEF UpTo

LEMMA SumsExist ==
  ASSUME NEW S, IsFiniteSet(S), NEW w
  PROVE  \E sums : SumsUp(sums, w, SUBSET S)
<1> DEFINE Good == {n \in Nat : \E sums : SumsUp(sums, w, UpTo(S, n))}
<1>1. 0 \in Good
  <2>1. \A s \in UpTo(S, 0) : s = {}
    BY FS_Subset, FS_EmptySet, FS_CardinalityType DEF UpTo
  <2>2. SumsUp([s \in UpTo(S, 0) |-> 0], w, UpTo(S, 0))
    BY <2>1 DEF SumsUp
  <2> QED BY <2>2
<1>2. ASSUME NEW n \in Nat, n \in Good PROVE n + 1 \in Good
  <2>1. PICK old : SumsUp(old, w, UpTo(S, n))
    BY <1>2
  <2> DEFINE new == [s \in UpTo(S, n + 1) |-> IF s = {} THEN 0 ELSE w[Chosen(s)].size + old[s \ {Chosen(s)}]]
  <2>2. ASSUME NEW s \in UpTo(S, n) PROVE s \in UpTo(S, n + 1) /\ new[s] = old[s]
    <3>1. s \in SUBSET S /\ Cardinality(s) \in Nat /\ Cardinality(s) <= n
      BY FS_Subset, FS_CardinalityType DEF UpTo
    <3>2. s \in UpTo(S, n + 1)
      BY <3>1 DEF UpTo
    <3>3. old[s] = IF s = {} THEN 0 ELSE w[Chosen(s)].size + old[s \ {Chosen(s)}]
      BY <2>1 DEF SumsUp
    <3> QED BY <3>2, <3>3
  <2>3. ASSUME NEW s \in UpTo(S, n + 1), s # {}
        PROVE  new[s \ {Chosen(s)}] = old[s \ {Chosen(s)}]
    BY <2>2, <2>3, SmallerSet
  <2>4. \A s \in UpTo(S, n + 1) :
          new[s] = IF s = {} THEN 0 ELSE w[Chosen(s)].size + new[s \ {Chosen(s)}]
    BY <2>3
  <2>5. SumsUp(new, w, UpTo(S, n + 1))
    <3>1. new = [s \in UpTo(S, n + 1) |-> new[s]]
      OBVIOUS
    <3> HIDE DEF new
    <3> QED BY <2>4, <3>1 DEF SumsUp
  <2> HIDE DEF new
  <2> QED BY <2>5
<1>3. Cardinality(S) \in Nat
  BY FS_CardinalityType
<1> HIDE DEF Good
<1>4. Cardinality(S) \in Good
  BY <1>1, <1>2, <1>3, Induct
<1>5. UpTo(S, Cardinality(S)) = SUBSET S
  BY FS_Subset DEF UpTo
<1> QED BY <1>4, <1>5 DEF Good

LEMMA ReservedSums ==
  ASSUME NEW w
  PROVE  \E sums : SumsUp(sums, w, SUBSET Files) /\ Reserved(w) = sums[Files]
<1> DEFINE sums == CHOOSE g : SumsUp(g, w, SUBSET Files)
<1>1. SumsUp(sums, w, SUBSET Files)
  BY SumsExist, UploadsAssumption
<1>2. Reserved(w) = sums[Files]
  BY DEF Reserved, MapThenSumSet, MapThenFoldSet, SumsUp, Chosen
<1> QED BY <1>1, <1>2

\* One row's size changes: the sum does by as much, and is no less than the row.
LEMMA ReservedChange ==
  ASSUME NEW v, NEW w, NEW f \in Files,
         \A g \in Files : v[g].size \in Nat /\ w[g].size \in Nat,
         \A g \in Files \ {f} : v[g].size = w[g].size
  PROVE  /\ Reserved(w) \in Nat /\ w[f].size <= Reserved(w)
         /\ Reserved(v) = Reserved(w) - w[f].size + v[f].size
<1>1. PICK sw : SumsUp(sw, w, SUBSET Files) /\ Reserved(w) = sw[Files]
  BY ReservedSums
<1>2. PICK sv : SumsUp(sv, v, SUBSET Files) /\ Reserved(v) = sv[Files]
  BY ReservedSums
<1> DEFINE Fits(s) == /\ sw[s] \in Nat /\ (f \in s => w[f].size <= sw[s])
                      /\ sv[s] = IF f \in s THEN sw[s] - w[f].size + v[f].size ELSE sw[s]
           Good == {n \in Nat : \A s \in UpTo(Files, n) : Fits(s)}
<1>3. 0 \in Good
  <2>1. \A s \in UpTo(Files, 0) : s = {}
    BY FS_Subset, FS_EmptySet, FS_CardinalityType, UploadsAssumption DEF UpTo
  <2>2. sw[{}] = 0 /\ sv[{}] = 0
    BY <1>1, <1>2 DEF SumsUp
  <2>3. ASSUME NEW s \in UpTo(Files, 0) PROVE Fits(s)
    <3>1. s = {}
      BY <2>1
    <3> QED BY <2>2, <3>1
  <2> QED BY <2>3
<1>4. ASSUME NEW n \in Nat, n \in Good PROVE n + 1 \in Good
  <2> SUFFICES ASSUME NEW s \in UpTo(Files, n + 1) PROVE Fits(s)
    OBVIOUS
  <2>0. s \in SUBSET Files
    BY DEF UpTo
  <2>1. CASE s = {}
    BY <1>1, <1>2, <2>0, <2>1 DEF SumsUp
  <2>2. CASE s # {}
    <3> DEFINE p == Chosen(s)
               t == s \ {Chosen(s)}
    <3>1. p \in s /\ p \in Files /\ t \in UpTo(Files, n)
      BY <2>0, <2>2, SmallerSet, UploadsAssumption
    <3>2. sw[s] = w[p].size + sw[t] /\ sv[s] = v[p].size + sv[t]
      BY <1>1, <1>2, <2>0, <2>2 DEF SumsUp
    <3>3. Fits(t)
      BY <1>4, <3>1
    <3>4. w[p].size \in Nat /\ v[p].size \in Nat /\ w[f].size \in Nat /\ v[f].size \in Nat
      BY <3>1
    <3>5. CASE p = f
      <4>1. f \in s /\ f \notin t
        BY <3>1, <3>5
      <4> HIDE DEF p, t
      <4> QED BY <3>2, <3>3, <3>4, <3>5, <4>1
    <3>6. CASE p # f
      <4>1. (f \in t <=> f \in s) /\ v[p].size = w[p].size
        BY <3>1, <3>6
      <4> HIDE DEF p, t
      <4> QED BY <3>2, <3>3, <3>4, <4>1
    <3> QED BY <3>5, <3>6
  <2> QED BY <2>1, <2>2
<1> HIDE DEF Good
<1>5. Cardinality(Files) \in Good /\ Files \in UpTo(Files, Cardinality(Files))
  BY <1>3, <1>4, Induct, FS_CardinalityType, UploadsAssumption DEF UpTo
<1>6. Fits(Files)
  BY <1>5 DEF Good
<1> QED BY <1>1, <1>2, <1>6

LEMMA ReservedNothing ==
  ASSUME NEW w, \A g \in Files : w[g].size = 0
  PROVE  Reserved(w) = 0
<1>1. PICK sw : SumsUp(sw, w, SUBSET Files) /\ Reserved(w) = sw[Files]
  BY ReservedSums
<1> DEFINE Good == {n \in Nat : \A s \in UpTo(Files, n) : sw[s] = 0}
<1>2. 0 \in Good
  <2>1. \A s \in UpTo(Files, 0) : s = {}
    BY FS_Subset, FS_EmptySet, FS_CardinalityType, UploadsAssumption DEF UpTo
  <2>2. sw[{}] = 0
    BY <1>1 DEF SumsUp
  <2> QED BY <2>1, <2>2
<1>3. ASSUME NEW n \in Nat, n \in Good PROVE n + 1 \in Good
  <2> SUFFICES ASSUME NEW s \in UpTo(Files, n + 1) PROVE sw[s] = 0
    OBVIOUS
  <2>0. s \in SUBSET Files
    BY DEF UpTo
  <2>1. CASE s = {}
    BY <1>1, <2>0, <2>1 DEF SumsUp
  <2>2. CASE s # {}
    <3>1. Chosen(s) \in Files /\ s \ {Chosen(s)} \in UpTo(Files, n)
      BY <2>0, <2>2, SmallerSet, UploadsAssumption
    <3>2. sw[s] = w[Chosen(s)].size + sw[s \ {Chosen(s)}]
      BY <1>1, <2>0, <2>2 DEF SumsUp
    <3> QED BY <1>3, <3>1, <3>2
  <2> QED BY <2>1, <2>2
<1> HIDE DEF Good
<1>4. Cardinality(Files) \in Good /\ Files \in UpTo(Files, Cardinality(Files))
  BY <1>2, <1>3, Induct, FS_CardinalityType, UploadsAssumption DEF UpTo
<1> QED BY <1>1, <1>4 DEF Good

\* The same sizes have the same sum.
LEMMA ReservedSame ==
  ASSUME NEW v, NEW w, \A g \in Files : v[g].size \in Nat /\ v[g].size = w[g].size
  PROVE  Reserved(v) = Reserved(w)
<1>1. CASE Files = {}
  <2>1. PICK sw : SumsUp(sw, w, SUBSET Files) /\ Reserved(w) = sw[Files]
    BY ReservedSums
  <2>2. PICK sv : SumsUp(sv, v, SUBSET Files) /\ Reserved(v) = sv[Files]
    BY ReservedSums
  <2> QED BY <1>1, <2>1, <2>2 DEF SumsUp
<1>2. CASE Files # {}
  <2>1. PICK f \in Files : TRUE
    BY <1>2
  <2>2. Reserved(v) = Reserved(w) - w[f].size + v[f].size /\ Reserved(w) \in Nat
    BY <2>1, ReservedChange
  <2> QED BY <2>1, <2>2
<1> QED BY <1>1, <1>2

-----------------------------------------------------------------------------
RowStatuses == {"none", "pending", "ready", "delete"}
Items == [file: Files, size: Nat]

\* What cleanup has selected and not yet erased.
Selected == clean.todo \cup (IF clean.pc = "answer" THEN {clean.cur} ELSE {})

RowFits(f) ==
  /\ row[f].size \in {0, Size[f]}
  /\ row[f].status \in {"pending", "ready"} => row[f].size = Size[f]
  /\ upload[f] = "new" => row[f] = NoRow

\* A selected row is there, with the size it was selected with.
SelectedFits(r) == row[r.file] # NoRow /\ row[r.file].size = r.size

UploadTypes ==
  /\ row \in [Files -> [status: RowStatuses, size: Nat, old: BOOLEAN]]
  /\ \A f \in Files : RowFits(f)
  /\ bytes = Reserved(row) /\ bytes <= Budget
  /\ objects \subseteq Files /\ upload \in [Files -> UploadPcs]
  /\ deleted \in BOOLEAN
  /\ Cardinality({f \in Files : upload[f] \in Running}) <= Concurrent

CleanTypes ==
  /\ clean \in [pc: {"off", "loop", "answer"}, todo: SUBSET Items, cur: Items \cup {Off.cur}]
  /\ clean.pc = "answer" => clean.cur \in Items
  /\ IsFiniteSet(clean.todo) /\ Cardinality(clean.todo) <= Batch
  /\ \A r \in Selected : SelectedFits(r)
  /\ clean.pc = "answer" => \A r \in clean.todo : r.file # clean.cur.file

\* What an upload that is over leaves.
Over == {"requeue", "failed", "lost"}

LiveRow(f) ==
  /\ row[f] = NoRow \/ upload[f] = "new" => f \notin objects
  /\ upload[f] \in {"alarm", "put", "putting"} => row[f].status = "pending" /\ ~row[f].old
  /\ upload[f] \in {"putting", "ok"} => f \in objects
  /\ upload[f] = "ok" => row[f].status = "ready"
  /\ row[f].status = "delete" => upload[f] \in Over
  /\ row[f].status = "pending" /\ row[f].old => upload[f] \in Over

FilesLive ==
  /\ \A f \in Files : LiveRow(f)
  /\ \A r \in Selected : upload[r.file] \in Over
  /\ clean.pc = "answer" => clean.cur.file \notin objects

UploadInv == UploadTypes /\ CleanTypes
FilesLiveInv == ~deleted => FilesLive

LEMMA Sizes ==
  ASSUME UploadTypes, NEW f \in Files
  PROVE  row[f].size \in Nat /\ Size[f] \in Nat /\ Size[f] > 0
BY UploadsAssumption DEF UploadTypes

\* One row is written.
LEMMA RowWritten ==
  ASSUME UploadTypes, NEW f \in Files, NEW r \in [status: RowStatuses, size: Nat, old: BOOLEAN],
         row' = [row EXCEPT ![f] = r]
  PROVE  /\ row' \in [Files -> [status: RowStatuses, size: Nat, old: BOOLEAN]]
         /\ row'[f] = r /\ \A g \in Files \ {f} : row'[g] = row[g]
         /\ row[f].size \in Nat /\ bytes \in Nat /\ row[f].size <= bytes
         /\ Reserved(row') = bytes - row[f].size + r.size
<1>1. /\ row' \in [Files -> [status: RowStatuses, size: Nat, old: BOOLEAN]]
      /\ row'[f] = r /\ \A g \in Files \ {f} : row'[g] = row[g]
  BY DEF UploadTypes
<1>2. \A g \in Files : row'[g].size \in Nat /\ row[g].size \in Nat
  BY <1>1 DEF UploadTypes
<1>3. \A g \in Files \ {f} : row'[g].size = row[g].size
  BY <1>1
<1>4. /\ Reserved(row) \in Nat /\ row[f].size <= Reserved(row)
      /\ Reserved(row') = Reserved(row) - row[f].size + row'[f].size
  <2>1. PICK v, w : v = row' /\ w = row
    OBVIOUS
  <2>2. \A g \in Files : v[g].size \in Nat /\ w[g].size \in Nat
    BY <1>2, <2>1
  <2>3. \A g \in Files \ {f} : v[g].size = w[g].size
    BY <1>3, <2>1
  <2>4. /\ Reserved(w) \in Nat /\ w[f].size <= Reserved(w)
        /\ Reserved(v) = Reserved(w) - w[f].size + v[f].size
    BY <2>2, <2>3, ReservedChange
  <2> QED BY <2>1, <2>4
<1> QED BY <1>1, <1>2, <1>4 DEF UploadTypes

\* Rows are written, but none gets another size.
LEMMA SizesKept ==
  ASSUME UploadTypes, \A g \in Files : row'[g].size = row[g].size
  PROVE  Reserved(row') = bytes
<1>1. \A g \in Files : row'[g].size \in Nat /\ row'[g].size = row[g].size
  BY Sizes
<1> QED BY <1>1, ReservedSame DEF UploadTypes

LEMMA NoneStarts ==
  ASSUME UploadTypes, \A f \in Files : upload'[f] \in Running => upload[f] \in Running
  PROVE  Cardinality({f \in Files : upload'[f] \in Running}) <= Concurrent
<1> DEFINE A == {f \in Files : upload'[f] \in Running}
           B == {f \in Files : upload[f] \in Running}
<1>1. A \subseteq B /\ IsFiniteSet(B) /\ IsFiniteSet(A)
  BY FS_Subset, UploadsAssumption
<1>2. Cardinality(A) <= Cardinality(B) /\ Cardinality(A) \in Nat /\ Cardinality(B) \in Nat
  BY <1>1, FS_Subset, FS_CardinalityType
<1>3. Cardinality(B) <= Concurrent
  BY DEF UploadTypes
<1> HIDE DEF A, B
<1>4. Cardinality(A) <= Concurrent
  BY <1>2, <1>3, UploadsAssumption
<1> QED BY <1>4 DEF A

\* What cleanup selected fits while the selection and its rows' sizes stay.
LEMMA CleanKeeps ==
  ASSUME CleanTypes, clean' = clean,
         \A r \in Selected : r.file \in Files => row'[r.file] # NoRow /\ row'[r.file].size = row[r.file].size
  PROVE  CleanTypes'
<1>1. Selected' = Selected
  BY DEF Selected
<1>2. \A r \in Selected : r.file \in Files
  BY DEF CleanTypes, Selected, Items
<1>3. \A r \in Selected : SelectedFits(r)'
  BY <1>2 DEF CleanTypes, SelectedFits
<1>4. (\A r \in Selected : SelectedFits(r))'
  BY <1>1, <1>3
<1> QED BY <1>4 DEF CleanTypes

LEMMA ReserveTypes ==
  ASSUME UploadInv, NEW f \in Files, Reserve(f)
  PROVE  UploadInv'
<1> DEFINE r == [status |-> "pending", size |-> Size[f], old |-> FALSE]
<1>0. UploadTypes /\ CleanTypes
  BY DEF UploadInv
<1>1. /\ upload[f] = "new" /\ bytes + Size[f] <= Budget
      /\ Cardinality({g \in Files : upload[g] \in Running}) < Concurrent
      /\ row' = [row EXCEPT ![f] = r] /\ bytes' = bytes + Size[f]
      /\ upload' = [upload EXCEPT ![f] = "alarm"]
      /\ UNCHANGED <<objects, alarm, clean, deleted, crashes>>
  BY DEF Reserve
<1>2. r \in [status: RowStatuses, size: Nat, old: BOOLEAN] /\ Size[f] \in Nat
  BY <1>0, Sizes DEF RowStatuses
<1>3. /\ row' \in [Files -> [status: RowStatuses, size: Nat, old: BOOLEAN]]
      /\ row'[f] = r /\ (\A g \in Files \ {f} : row'[g] = row[g])
      /\ row[f].size \in Nat /\ bytes \in Nat
      /\ Reserved(row') = bytes - row[f].size + r.size
  <2> HIDE DEF r
  <2> QED BY <1>0, <1>1, <1>2, RowWritten
<1>4. row[f] = NoRow /\ row[f].size = 0
  BY <1>0, <1>1 DEF UploadTypes, RowFits, NoRow
<1>5. bytes' = Reserved(row') /\ bytes' <= Budget
  BY <1>1, <1>2, <1>3, <1>4
<1>6. /\ upload' \in [Files -> UploadPcs] /\ upload'[f] = "alarm"
      /\ \A g \in Files \ {f} : upload'[g] = upload[g]
  BY <1>0, <1>1 DEF UploadTypes, UploadPcs
<1>7. \A g \in Files : RowFits(g)'
  BY <1>0, <1>3, <1>6 DEF UploadTypes, RowFits
<1>8. Cardinality({g \in Files : upload'[g] \in Running}) <= Concurrent
  <2> DEFINE A == {g \in Files : upload[g] \in Running}
             B == {g \in Files : upload'[g] \in Running}
  <2>1. IsFiniteSet(A) /\ Cardinality(A) \in Nat
    BY FS_Subset, FS_CardinalityType, UploadsAssumption
  <2>2. B = A \cup {f} /\ f \notin A
    BY <1>1, <1>6 DEF Running
  <2>3. Cardinality(A) < Concurrent
    BY <1>1
  <2> HIDE DEF A, B
  <2>4. Cardinality(B) = Cardinality(A) + 1
    BY <2>1, <2>2, FS_AddElement
  <2>5. Cardinality(B) <= Concurrent
    BY <2>1, <2>3, <2>4, UploadsAssumption
  <2> QED BY <2>5 DEF B
<1>9. UploadTypes'
  BY <1>0, <1>1, <1>3, <1>5, <1>6, <1>7, <1>8 DEF UploadTypes
<1>10. \A s \in Selected : s.file \in Files => row'[s.file] # NoRow /\ row'[s.file].size = row[s.file].size
  BY <1>0, <1>3, <1>4 DEF CleanTypes, SelectedFits
<1>11. CleanTypes'
  BY <1>0, <1>1, <1>10, CleanKeeps
<1> QED BY <1>9, <1>11 DEF UploadInv

\* An upload goes on without a row being written.
LEMMA MoveTypes ==
  ASSUME UploadInv, NEW f \in Files, NEW pc \in UploadPcs \ {"new"},
         upload[f] \in Running, upload' = [upload EXCEPT ![f] = pc],
         objects' \subseteq Files, UNCHANGED <<row, bytes, clean, deleted>>
  PROVE  UploadInv'
<1>0. UploadTypes /\ CleanTypes
  BY DEF UploadInv
<1>1. upload' \in [Files -> UploadPcs] /\ upload'[f] = pc /\ \A g \in Files \ {f} : upload'[g] = upload[g]
  BY <1>0 DEF UploadTypes
<1>2. \A g \in Files : RowFits(g)'
  BY <1>0, <1>1 DEF UploadTypes, RowFits
<1>3. Cardinality({g \in Files : upload'[g] \in Running}) <= Concurrent
  BY <1>0, <1>1, NoneStarts
<1>4. UploadTypes'
  BY <1>0, <1>1, <1>2, <1>3 DEF UploadTypes
<1>5. \A r \in Selected : r.file \in Files => row'[r.file] # NoRow /\ row'[r.file].size = row[r.file].size
  BY <1>0 DEF CleanTypes, SelectedFits
<1>6. CleanTypes'
  BY <1>0, <1>5, CleanKeeps
<1> QED BY <1>4, <1>6 DEF UploadInv

\* The status of a row is written, or its age, and its upload may end.
LEMMA StatusTypes ==
  ASSUME UploadInv, NEW f \in Files,
         NEW r \in [status: RowStatuses \ {"none"}, size: {row[f].size}, old: BOOLEAN],
         r.status \in {"pending", "ready"} => row[f].status \in {"pending", "ready"},
         row' = [row EXCEPT ![f] = r],
         NEW pc \in UploadPcs \ {"new"}, pc \in Running => upload[f] \in Running,
         upload' = [upload EXCEPT ![f] = pc],
         UNCHANGED <<bytes, objects, clean, deleted>>
  PROVE  UploadInv'
<1>0. UploadTypes /\ CleanTypes
  BY DEF UploadInv
<1>1. r \in [status: RowStatuses, size: Nat, old: BOOLEAN] /\ r # NoRow /\ r.size = row[f].size
  BY <1>0, Sizes DEF NoRow
<1>2. /\ row' \in [Files -> [status: RowStatuses, size: Nat, old: BOOLEAN]]
      /\ row'[f] = r /\ (\A g \in Files \ {f} : row'[g] = row[g])
  BY <1>0, <1>1, RowWritten
<1>3. \A g \in Files : row'[g].size = row[g].size
  BY <1>1, <1>2
<1>4. Reserved(row') = bytes
  BY <1>0, <1>3, SizesKept
<1>5. upload' \in [Files -> UploadPcs] /\ upload'[f] = pc /\ \A g \in Files \ {f} : upload'[g] = upload[g]
  BY <1>0 DEF UploadTypes
<1>6. ASSUME NEW g \in Files PROVE RowFits(g)'
  <2>1. CASE g = f
    <3>1. row[f].size \in {0, Size[f]} /\ (row[f].status \in {"pending", "ready"} => row[f].size = Size[f])
      BY <1>0 DEF UploadTypes, RowFits
    <3>2. upload'[f] # "new"
      BY <1>5
    <3> QED BY <1>1, <1>2, <2>1, <3>1, <3>2 DEF RowFits
  <2>2. CASE g # f
    BY <1>0, <1>2, <1>5, <2>2 DEF UploadTypes, RowFits
  <2> QED BY <2>1, <2>2
<1>7. Cardinality({g \in Files : upload'[g] \in Running}) <= Concurrent
  BY <1>0, <1>5, NoneStarts
<1>8. UploadTypes'
  BY <1>0, <1>2, <1>4, <1>5, <1>6, <1>7 DEF UploadTypes
<1>9. \A s \in Selected : s.file \in Files => row'[s.file] # NoRow /\ row'[s.file].size = row[s.file].size
  BY <1>0, <1>1, <1>2, <1>3 DEF CleanTypes, SelectedFits
<1>10. CleanTypes'
  BY <1>0, <1>9, CleanKeeps
<1> QED BY <1>8, <1>10 DEF UploadInv

LEMMA Written ==
  ASSUME UploadTypes, NEW f \in Files
  PROVE  [row EXCEPT ![f].status = "delete"] = [row EXCEPT ![f] = [row[f] EXCEPT !.status = "delete"]]
OBVIOUS

LEMMA RequeueTypes ==
  ASSUME UploadInv, NEW f \in Files, upload[f] \in Running, Requeue(f),
         UNCHANGED <<bytes, objects, clean, deleted>>
  PROVE  UploadInv'
<1> DEFINE r == [row[f] EXCEPT !.status = "delete"]
<1>1. row[f] \in [status: RowStatuses, size: Nat, old: BOOLEAN]
  BY DEF UploadInv, UploadTypes
<1>2. r \in [status: RowStatuses \ {"none"}, size: {row[f].size}, old: BOOLEAN] /\ r.status = "delete"
  BY <1>1 DEF RowStatuses
<1>3. row' = [row EXCEPT ![f] = r]
  BY DEF Requeue
<1>4. upload' = [upload EXCEPT ![f] = "requeue"]
  BY DEF Requeue
<1>5. "requeue" \in UploadPcs \ {"new"}
  BY DEF UploadPcs
<1> HIDE DEF r
<1> QED BY <1>2, <1>3, <1>4, <1>5, StatusTypes

LEMMA ConfirmTypes ==
  ASSUME UploadInv, NEW f \in Files, Confirm(f)
  PROVE  UploadInv'
<1>1. upload[f] \in Running
  BY DEF Confirm, Running
<1>2. UNCHANGED <<bytes, objects, clean, deleted>>
  BY DEF Confirm
<1>3. CASE ~deleted /\ row[f].status = "pending"
  <2> DEFINE r == [row[f] EXCEPT !.status = "ready"]
  <2>1. row[f] \in [status: RowStatuses, size: Nat, old: BOOLEAN]
    BY DEF UploadInv, UploadTypes
  <2>2. /\ r \in [status: RowStatuses \ {"none"}, size: {row[f].size}, old: BOOLEAN]
        /\ r.status \in {"pending", "ready"} => row[f].status \in {"pending", "ready"}
    BY <1>3, <2>1 DEF RowStatuses
  <2>3. row' = [row EXCEPT ![f] = r] /\ upload' = [upload EXCEPT ![f] = "ok"]
    BY <1>3 DEF Confirm
  <2>4. "ok" \in UploadPcs \ {"new"} /\ "ok" \notin Running
    BY DEF UploadPcs, Running
  <2> HIDE DEF r
  <2> QED BY <1>2, <2>2, <2>3, <2>4, StatusTypes
<1>4. CASE ~(~deleted /\ row[f].status = "pending")
  <2>1. Requeue(f)
    BY <1>4 DEF Confirm
  <2> QED BY <1>1, <1>2, <2>1, RequeueTypes
<1> QED BY <1>3, <1>4

LEMMA AgeTypes ==
  ASSUME UploadInv, NEW f \in Files, Age(f)
  PROVE  UploadInv'
<1> DEFINE r == [row[f] EXCEPT !.old = TRUE]
<1>1. row[f] \in [status: RowStatuses, size: Nat, old: BOOLEAN] /\ row[f].status = "pending"
      /\ RowFits(f) /\ upload \in [Files -> UploadPcs]
  BY DEF UploadInv, UploadTypes, Age
<1>2. r \in [status: RowStatuses \ {"none"}, size: {row[f].size}, old: BOOLEAN]
  BY <1>1 DEF RowStatuses
<1>3. row' = [row EXCEPT ![f] = r] /\ UNCHANGED <<bytes, objects, upload, clean, deleted>>
  BY DEF Age
<1>4. upload[f] \in UploadPcs \ {"new"}
  BY <1>1 DEF RowFits, NoRow
<1>5. upload' = [upload EXCEPT ![f] = upload[f]]
  BY <1>1, <1>3
<1> HIDE DEF r
<1> QED BY <1>1, <1>2, <1>3, <1>4, <1>5, StatusTypes

\* The same rows and uploads, for steps of cleanup.
LEMMA TypesStay ==
  ASSUME UploadTypes, objects' \subseteq Files, UNCHANGED <<row, bytes, upload, deleted>>
  PROVE  UploadTypes'
BY DEF UploadTypes, RowFits

LEMMA AlarmTypes ==
  ASSUME UploadInv, AlarmFires
  PROVE  UploadInv'
<1>0. UploadTypes /\ CleanTypes
  BY DEF UploadInv
<1>1. UploadTypes'
  BY <1>0, TypesStay DEF AlarmFires, UploadTypes
<1>2. PICK picked \in SUBSET Due :
        /\ Cardinality(picked) <= Batch
        /\ clean' = [Off EXCEPT !.pc = "loop", !.todo = {[file |-> f, size |-> row[f].size] : f \in picked}]
  BY DEF AlarmFires
<1> DEFINE todo == {[file |-> f, size |-> row[f].size] : f \in picked}
<1>3. clean' = [pc |-> "loop", todo |-> todo, cur |-> Off.cur] /\ UNCHANGED row
  BY <1>2 DEF Off, AlarmFires
<1>4. picked \subseteq Files /\ \A f \in picked : row[f] # NoRow
  BY <1>2 DEF Due, Rows
<1>5. todo \subseteq Items /\ \A r \in todo : r.file \in picked /\ r.size = row[r.file].size
  BY <1>0, <1>4, Sizes DEF Items
<1>6. IsFiniteSet(picked) /\ Cardinality(picked) \in Nat
  BY <1>4, FS_Subset, FS_CardinalityType, UploadsAssumption
<1>7. IsFiniteSet(todo) /\ Cardinality(todo) <= Cardinality(picked) /\ Cardinality(todo) \in Nat
  <2> DEFINE g == [r \in todo |-> r.file]
  <2>1. g \in [todo -> picked] /\ \A r, s \in todo : g[r] = g[s] => r = s
    BY <1>5 DEF Items
  <2> HIDE DEF g, todo
  <2>2. g \in Injection(todo, picked)
    BY <2>1 DEF Injection, IsInjective
  <2> QED BY <1>6, <2>2, FS_Injection, FS_CardinalityType
<1> HIDE DEF todo
<1>8. Cardinality(todo) <= Batch
  BY <1>2, <1>6, <1>7, UploadsAssumption
<1>9. Selected' = todo
  BY <1>3 DEF Selected
<1>10. \A r \in todo : SelectedFits(r)'
  BY <1>3, <1>4, <1>5 DEF SelectedFits
<1>11. (\A r \in Selected : SelectedFits(r))'
  BY <1>9, <1>10
<1>12. CleanTypes'
  BY <1>3, <1>5, <1>7, <1>8, <1>11 DEF CleanTypes
<1> QED BY <1>1, <1>12 DEF UploadInv

LEMMA CleanDeleteTypes ==
  ASSUME UploadInv, NEW f \in Files, CleanDelete(f)
  PROVE  UploadInv'
<1>0. UploadTypes /\ CleanTypes
  BY DEF UploadInv
<1>1. UploadTypes'
  BY <1>0, TypesStay DEF CleanDelete, UploadTypes
<1>2. PICK r \in clean.todo :
        r.file = f /\ clean' = [clean EXCEPT !.pc = "answer", !.todo = clean.todo \ {r}, !.cur = r]
  BY DEF CleanDelete
<1>3. /\ clean'.pc = "answer" /\ clean'.todo = clean.todo \ {r} /\ clean'.cur = r
      /\ clean' \in [pc: {"off", "loop", "answer"}, todo: SUBSET Items, cur: Items \cup {Off.cur}]
      /\ r \in Items
  BY <1>0, <1>2 DEF CleanTypes
<1>4. Selected' = clean.todo /\ UNCHANGED row
  BY <1>2, <1>3 DEF Selected, CleanDelete
<1>5. \A s \in clean.todo : SelectedFits(s) /\ s \in Items
  BY <1>0 DEF CleanTypes, Selected
<1>6. (\A s \in Selected : SelectedFits(s))'
  BY <1>4, <1>5 DEF SelectedFits
<1>7. \A s \in clean'.todo : s.file # r.file
  BY <1>2, <1>3, <1>5 DEF SelectedFits, Items
<1>8. IsFiniteSet(clean'.todo) /\ Cardinality(clean'.todo) <= Batch
  <2>1. IsFiniteSet(clean.todo) /\ Cardinality(clean.todo) <= Batch
    BY <1>0 DEF CleanTypes
  <2>2. /\ IsFiniteSet(clean'.todo) /\ Cardinality(clean'.todo) = Cardinality(clean.todo) - 1
        /\ Cardinality(clean.todo) \in Nat
    BY <1>2, <1>3, <2>1, FS_RemoveElement, FS_CardinalityType
  <2> QED BY <2>1, <2>2, UploadsAssumption
<1>9. CleanTypes'
  BY <1>3, <1>6, <1>7, <1>8 DEF CleanTypes
<1> QED BY <1>1, <1>9 DEF UploadInv

LEMMA EraseTypes ==
  ASSUME UploadInv, CleanErase
  PROVE  UploadInv'
<1> DEFINE f == clean.cur.file
<1>0. UploadTypes /\ CleanTypes
  BY DEF UploadInv
<1>1. /\ clean.pc = "answer" /\ row' = [row EXCEPT ![f] = NoRow]
      /\ bytes' = IF bytes >= clean.cur.size THEN bytes - clean.cur.size ELSE 0
      /\ clean' = [clean EXCEPT !.pc = "loop"]
      /\ UNCHANGED <<objects, upload, deleted>>
  BY DEF CleanErase
<1>2. /\ clean.cur \in Items /\ f \in Files /\ row[f].size = clean.cur.size
      /\ \A r \in clean.todo : r \in Items /\ r.file # f /\ SelectedFits(r)
  BY <1>0, <1>1 DEF CleanTypes, Items, Selected, SelectedFits
<1>3. NoRow \in [status: RowStatuses, size: Nat, old: BOOLEAN] /\ NoRow.size = 0 /\ NoRow.status = "none"
  BY DEF NoRow, RowStatuses
<1> HIDE DEF f
<1>4. /\ row' \in [Files -> [status: RowStatuses, size: Nat, old: BOOLEAN]]
      /\ row'[f] = NoRow /\ (\A g \in Files \ {f} : row'[g] = row[g])
      /\ row[f].size \in Nat /\ bytes \in Nat /\ row[f].size <= bytes
      /\ Reserved(row') = bytes - row[f].size + NoRow.size
  BY <1>0, <1>1, <1>2, <1>3, RowWritten
<1>5. bytes' = Reserved(row') /\ bytes' <= Budget
  <2>1. bytes <= Budget
    BY <1>0 DEF UploadTypes
  <2> QED BY <1>1, <1>2, <1>3, <1>4, <2>1, UploadsAssumption
<1>6. \A g \in Files : RowFits(g)'
  BY <1>0, <1>1, <1>3, <1>4 DEF UploadTypes, RowFits
<1>7. UploadTypes'
  BY <1>0, <1>1, <1>4, <1>5, <1>6 DEF UploadTypes
<1>8. /\ clean'.pc = "loop" /\ clean'.todo = clean.todo /\ clean'.cur = clean.cur
      /\ clean' \in [pc: {"off", "loop", "answer"}, todo: SUBSET Items, cur: Items \cup {Off.cur}]
  BY <1>0, <1>1 DEF CleanTypes
<1>9. Selected' = clean.todo
  BY <1>8 DEF Selected
<1>10. \A r \in clean.todo : SelectedFits(r)'
  BY <1>2, <1>4 DEF SelectedFits, Items
<1>11. (\A r \in Selected : SelectedFits(r))'
  BY <1>9, <1>10
<1>12. CleanTypes'
  BY <1>0, <1>8, <1>11 DEF CleanTypes
<1> QED BY <1>7, <1>12 DEF UploadInv

LEMMA OffTypes ==
  ASSUME clean' = Off
  PROVE  CleanTypes' /\ Selected' = {}
<1>1. clean'.todo = {} /\ clean'.pc = "off" /\ clean'.cur = Off.cur
  BY DEF Off
<1>2. Selected' = {}
  BY <1>1 DEF Selected
<1>3. clean' \in [pc: {"off", "loop", "answer"}, todo: SUBSET Items, cur: Items \cup {Off.cur}]
  BY DEF Off
<1>4. IsFiniteSet({}) /\ Cardinality({}) <= Batch
  BY FS_EmptySet, UploadsAssumption
<1>5. (\A r \in Selected : SelectedFits(r))'
  BY <1>2
<1> QED BY <1>1, <1>2, <1>3, <1>4, <1>5 DEF CleanTypes

LEMMA DeleteWikiTypes ==
  ASSUME UploadInv, DeleteWiki
  PROVE  UploadInv'
<1>0. UploadTypes /\ CleanTypes
  BY DEF UploadInv
<1>1. /\ deleted' = TRUE /\ UNCHANGED <<bytes, objects, upload, clean>>
      /\ row' = [f \in Files |-> IF f \in Rows THEN [row[f] EXCEPT !.status = "delete"] ELSE row[f]]
  BY DEF DeleteWiki
<1>2. ASSUME NEW f \in Files
      PROVE  /\ row'[f] \in [status: RowStatuses, size: Nat, old: BOOLEAN]
             /\ row'[f].size = row[f].size
             /\ row'[f].status \in {"pending", "ready"} => row'[f] = row[f]
             /\ row[f] = NoRow <=> row'[f] = NoRow
  <2>1. row[f] \in [status: RowStatuses, size: Nat, old: BOOLEAN]
    BY <1>0 DEF UploadTypes
  <2>2. CASE f \in Rows
    <3>1. row'[f] = [row[f] EXCEPT !.status = "delete"] /\ row[f] # NoRow
      BY <1>1, <2>2 DEF Rows
    <3> QED BY <2>1, <3>1 DEF RowStatuses, NoRow
  <2>3. CASE f \notin Rows
    BY <1>1, <2>1, <2>3 DEF Rows
  <2> QED BY <2>2, <2>3
<1>3. row' \in [Files -> [status: RowStatuses, size: Nat, old: BOOLEAN]]
  BY <1>1, <1>2
<1>4. Reserved(row') = bytes
  BY <1>0, <1>2, SizesKept
<1>5. \A f \in Files : RowFits(f)'
  BY <1>0, <1>1, <1>2 DEF UploadTypes, RowFits
<1>6. UploadTypes'
  BY <1>0, <1>1, <1>3, <1>4, <1>5 DEF UploadTypes
<1>7. \A s \in Selected : s.file \in Files => row'[s.file] # NoRow /\ row'[s.file].size = row[s.file].size
  BY <1>0, <1>2 DEF CleanTypes, SelectedFits
<1>8. CleanTypes'
  BY <1>0, <1>1, <1>7, CleanKeeps
<1> QED BY <1>6, <1>8 DEF UploadInv

LEMMA CrashTypes ==
  ASSUME UploadInv, Crash
  PROVE  UploadInv'
<1>0. UploadTypes /\ CleanTypes
  BY DEF UploadInv
<1>1. /\ upload' = [f \in Files |-> IF upload[f] \in Running THEN "lost" ELSE upload[f]]
      /\ clean' = Off /\ UNCHANGED <<row, bytes, objects, deleted>>
  BY DEF Crash
<1>2. upload' \in [Files -> UploadPcs] /\ \A f \in Files : upload'[f] = "lost" \/ upload'[f] = upload[f]
  BY <1>0, <1>1 DEF UploadTypes, UploadPcs
<1>3. \A f \in Files : upload'[f] \in Running => upload[f] \in Running
  BY <1>2 DEF Running
<1>4. Cardinality({f \in Files : upload'[f] \in Running}) <= Concurrent
  BY <1>0, <1>3, NoneStarts
<1>5. \A f \in Files : RowFits(f)'
  BY <1>0, <1>1, <1>2 DEF UploadTypes, RowFits
<1>6. UploadTypes'
  BY <1>0, <1>1, <1>2, <1>4, <1>5 DEF UploadTypes
<1> QED BY <1>1, <1>6, OffTypes DEF UploadInv

LEMMA UploadStep == UploadInv /\ [UploadsNext]_uploadVars => UploadInv'
<1> SUFFICES ASSUME UploadInv, [UploadsNext]_uploadVars PROVE UploadInv'
  OBVIOUS
<1>0. UploadTypes /\ CleanTypes
  BY DEF UploadInv
<1>1. ASSUME NEW f \in Files, ScheduleCleanup(f) \/ Put(f) \/ FailUpload(f) PROVE UploadInv'
  <2>1. /\ upload[f] \in Running /\ objects' \subseteq Files
        /\ UNCHANGED <<row, bytes, clean, deleted>>
        /\ \E pc \in UploadPcs \ {"new"} : upload' = [upload EXCEPT ![f] = pc]
    BY <1>0, <1>1 DEF ScheduleCleanup, Put, FailUpload, Running, UploadPcs, UploadTypes
  <2> QED BY <2>1, MoveTypes
<1>2. ASSUME NEW f \in Files, PutFails(f) PROVE UploadInv'
  <2>1. upload[f] \in Running /\ Requeue(f) /\ UNCHANGED <<bytes, objects, clean, deleted>>
    BY <1>2 DEF PutFails, Running
  <2> QED BY <2>1, RequeueTypes
<1>3. CASE CleanEnd
  <2>1. clean' = Off /\ UNCHANGED <<row, bytes, objects, upload, deleted>>
    BY <1>3 DEF CleanEnd
  <2>2. UploadTypes'
    BY <1>0, <2>1, TypesStay DEF UploadTypes
  <2> QED BY <2>1, <2>2, OffTypes DEF UploadInv
<1>4. CASE UNCHANGED uploadVars
  <2>1. UNCHANGED <<row, bytes, objects, upload, clean, deleted>>
    BY <1>4 DEF uploadVars
  <2>2. UploadTypes'
    BY <1>0, <2>1, TypesStay DEF UploadTypes
  <2>3. \A r \in Selected : r.file \in Files => row'[r.file] # NoRow /\ row'[r.file].size = row[r.file].size
    BY <1>0, <2>1 DEF CleanTypes, SelectedFits
  <2>4. CleanTypes'
    BY <1>0, <2>1, <2>3, CleanKeeps
  <2> QED BY <2>2, <2>4 DEF UploadInv
<1> QED BY <1>1, <1>2, <1>3, <1>4, ReserveTypes, ConfirmTypes, AgeTypes, AlarmTypes,
     CleanDeleteTypes, EraseTypes, DeleteWikiTypes, CrashTypes DEF UploadsNext

LEMMA UploadStart == UploadsInit => UploadInv
<1> SUFFICES ASSUME UploadsInit PROVE UploadInv
  OBVIOUS
<1>1. /\ row = [f \in Files |-> NoRow] /\ bytes = 0 /\ objects = {}
      /\ upload = [f \in Files |-> "new"] /\ clean = Off /\ deleted = FALSE
  BY DEF UploadsInit
<1>2. row \in [Files -> [status: RowStatuses, size: Nat, old: BOOLEAN]] /\ \A f \in Files : row[f].size = 0
  BY <1>1 DEF NoRow, RowStatuses
<1>3. Reserved(row) = 0
  BY <1>2, ReservedNothing
<1>4. \A f \in Files : RowFits(f)
  BY <1>1 DEF RowFits, NoRow
<1>5. {f \in Files : upload[f] \in Running} = {}
  BY <1>1 DEF Running
<1>6. UploadTypes
  <2>1. Cardinality({f \in Files : upload[f] \in Running}) <= Concurrent
    BY <1>5, FS_EmptySet, UploadsAssumption
  <2>2. upload \in [Files -> UploadPcs] /\ objects \subseteq Files /\ deleted \in BOOLEAN
    BY <1>1 DEF UploadPcs
  <2>3. bytes = Reserved(row) /\ bytes <= Budget
    BY <1>1, <1>3, UploadsAssumption
  <2> QED BY <1>2, <1>4, <2>1, <2>2, <2>3 DEF UploadTypes
<1>7. clean.todo = {} /\ clean.pc = "off" /\ clean.cur = Off.cur /\ Selected = {}
  BY <1>1 DEF Off, Selected
<1>8. CleanTypes
  BY <1>1, <1>7, FS_EmptySet, UploadsAssumption DEF CleanTypes, Off
<1> QED BY <1>6, <1>8 DEF UploadInv

\* A step of an upload that leaves what cleanup selected.
LEMMA LiveStep ==
  ASSUME UploadInv, FilesLive, NEW f \in Files, upload[f] \notin Over, clean' = clean,
         \A g \in Files \ {f} :
           row'[g] = row[g] /\ upload'[g] = upload[g] /\ (g \in objects' <=> g \in objects),
         LiveRow(f)'
  PROVE  FilesLive'
<1>1. \A g \in Files : LiveRow(g)'
  BY DEF FilesLive, LiveRow
<1>2. Selected' = Selected /\ \A r \in Selected : r.file \in Files /\ r.file # f
  BY DEF Selected, UploadInv, CleanTypes, Items, FilesLive
<1>3. \A r \in Selected : upload'[r.file] \in Over
  BY <1>2 DEF FilesLive
<1>4. (\A r \in Selected : upload[r.file] \in Over)'
  BY <1>2, <1>3
<1>5. clean'.pc = "answer" => clean'.cur.file \notin objects'
  <2> SUFFICES ASSUME clean.pc = "answer" PROVE clean.cur.file \notin objects'
    OBVIOUS
  <2>1. clean.cur \in Selected
    BY DEF Selected
  <2> QED BY <1>2, <2>1 DEF FilesLive
<1> QED BY <1>1, <1>4, <1>5 DEF FilesLive

LEMMA LiveUpload ==
  ASSUME UploadInv, FilesLive, ~deleted, NEW f \in Files,
         \/ Reserve(f) \/ ScheduleCleanup(f) \/ Put(f) \/ PutFails(f) \/ Confirm(f)
  PROVE  FilesLive'
<1>1. /\ row[f] \in [status: RowStatuses, size: Nat, old: BOOLEAN] /\ RowFits(f) /\ LiveRow(f)
      /\ row \in [Files -> [status: RowStatuses, size: Nat, old: BOOLEAN]]
      /\ upload \in [Files -> UploadPcs] /\ objects \subseteq Files
  BY DEF UploadInv, UploadTypes, FilesLive
<1>2. upload[f] \in {"new", "alarm", "put", "putting"} /\ upload[f] \notin Over /\ clean' = clean
  BY DEF Reserve, ScheduleCleanup, Put, PutFails, Confirm, Over
<1>3. \A g \in Files \ {f} :
        row'[g] = row[g] /\ upload'[g] = upload[g] /\ (g \in objects' <=> g \in objects)
  BY <1>1 DEF Reserve, ScheduleCleanup, Put, PutFails, Confirm, Requeue
<1>4. LiveRow(f)'
  <2>1. CASE Reserve(f)
    BY <1>1, <2>1 DEF Reserve, LiveRow, NoRow, Over
  <2>2. CASE ScheduleCleanup(f)
    BY <1>1, <2>2 DEF ScheduleCleanup, LiveRow, NoRow, Over
  <2>3. CASE Put(f)
    BY <1>1, <2>3 DEF Put, LiveRow, NoRow, Over
  <2>4. CASE PutFails(f)
    <3>1. row'[f] = [row[f] EXCEPT !.status = "delete"] /\ upload'[f] = "requeue"
      BY <1>1, <2>4 DEF PutFails, Requeue
    <3> QED BY <1>1, <3>1 DEF LiveRow, NoRow, Over
  <2>5. CASE Confirm(f)
    <3>1. upload[f] = "putting" /\ row[f].status = "pending" /\ f \in objects
      BY <1>1, <2>5 DEF Confirm, LiveRow
    <3>2. row'[f] = [row[f] EXCEPT !.status = "ready"] /\ upload'[f] = "ok" /\ objects' = objects
      BY <1>1, <2>5, <3>1 DEF Confirm
    <3> QED BY <1>1, <3>1, <3>2 DEF LiveRow, NoRow, Over
  <2> QED BY <2>1, <2>2, <2>3, <2>4, <2>5
<1> QED BY <1>2, <1>3, <1>4, LiveStep

\* Rows, files and selections stay, and uploads end at most.
LEMMA LiveEnds ==
  ASSUME UploadInv, FilesLive, UNCHANGED <<row, objects>>,
         \A g \in Files : upload'[g] = upload[g] \/ (upload'[g] \in Over /\ upload[g] \in Running),
         clean' = clean \/ clean' = Off
  PROVE  FilesLive'
<1>1. \A g \in Files : LiveRow(g)'
  <2> SUFFICES ASSUME NEW g \in Files PROVE LiveRow(g)'
    OBVIOUS
  <2>1. LiveRow(g) /\ (upload'[g] = upload[g] \/ (upload'[g] \in Over /\ upload[g] \in Running))
    BY DEF FilesLive
  <2> QED BY <2>1 DEF LiveRow, Over, Running
<1>2. /\ \A r \in Selected' : r \in Selected /\ r.file \in Files
      /\ clean'.pc = "answer" => clean' = clean
  BY DEF Selected, Off, UploadInv, CleanTypes, Items
<1>3. \A r \in Selected' : upload'[r.file] \in Over
  BY <1>2 DEF FilesLive
<1>4. (\A r \in Selected : upload[r.file] \in Over)'
  BY <1>3
<1> QED BY <1>1, <1>2, <1>4 DEF FilesLive

LEMMA LiveAge ==
  ASSUME UploadInv, FilesLive, ~SlowPuts, NEW f \in Files, Age(f)
  PROVE  FilesLive'
<1>1. /\ row[f] \in [status: RowStatuses, size: Nat, old: BOOLEAN] /\ RowFits(f) /\ LiveRow(f)
      /\ row \in [Files -> [status: RowStatuses, size: Nat, old: BOOLEAN]] /\ upload[f] \in UploadPcs
  BY DEF UploadInv, UploadTypes, FilesLive
<1>2. /\ row[f].status = "pending" /\ row'[f] = [row[f] EXCEPT !.old = TRUE] /\ upload[f] \notin Running
      /\ (\A g \in Files \ {f} : row'[g] = row[g]) /\ UNCHANGED <<objects, upload, clean>>
  BY <1>1 DEF Age
<1>3. upload[f] \in Over
  BY <1>1, <1>2 DEF LiveRow, RowFits, NoRow, UploadPcs, Running, Over
<1>4. \A g \in Files : LiveRow(g)'
  BY <1>1, <1>2, <1>3 DEF FilesLive, LiveRow, NoRow, Over
<1>5. Selected' = Selected
  BY <1>2 DEF Selected
<1> QED BY <1>2, <1>4, <1>5 DEF FilesLive

LEMMA LiveSelects ==
  ASSUME UploadInv, FilesLive, ~deleted, AlarmFires
  PROVE  FilesLive'
<1>1. PICK picked \in SUBSET Due :
        clean' = [Off EXCEPT !.pc = "loop", !.todo = {[file |-> f, size |-> row[f].size] : f \in picked}]
  BY DEF AlarmFires
<1>2. Selected' = {[file |-> f, size |-> row[f].size] : f \in picked} /\ clean'.pc = "loop"
  BY <1>1 DEF Selected, Off
<1>3. \A f \in picked : upload[f] \in Over
  BY DEF Due, Rows, FilesLive, LiveRow
<1>4. UNCHANGED <<row, objects, upload>>
  BY DEF AlarmFires
<1>5. (\A r \in Selected : upload[r.file] \in Over)'
  BY <1>2, <1>3, <1>4
<1>6. \A g \in Files : LiveRow(g)'
  BY <1>4 DEF FilesLive, LiveRow
<1> QED BY <1>2, <1>5, <1>6 DEF FilesLive

LEMMA LiveDelete ==
  ASSUME UploadInv, FilesLive, NEW f \in Files, CleanDelete(f)
  PROVE  FilesLive'
<1>1. PICK r \in clean.todo :
        r.file = f /\ clean' = [clean EXCEPT !.pc = "answer", !.todo = clean.todo \ {r}, !.cur = r]
  BY DEF CleanDelete
<1>2. /\ clean'.todo = clean.todo \ {r} /\ clean'.cur = r
      /\ objects' = objects \ {f} /\ UNCHANGED <<row, upload>>
  BY <1>1 DEF CleanDelete, UploadInv, CleanTypes
<1>3. upload[f] \in Over
  BY <1>1 DEF FilesLive, Selected
<1>4. \A g \in Files : LiveRow(g)'
  BY <1>2, <1>3 DEF FilesLive, LiveRow, Over
<1>5. Selected' \subseteq Selected
  BY <1>1, <1>2 DEF Selected
<1>6. (\A s \in Selected : upload[s.file] \in Over)'
  BY <1>2, <1>5 DEF FilesLive
<1> QED BY <1>1, <1>2, <1>4, <1>6 DEF FilesLive

LEMMA LiveErase ==
  ASSUME UploadInv, FilesLive, CleanErase
  PROVE  FilesLive'
<1> DEFINE f == clean.cur.file
<1>1. /\ clean.pc = "answer" /\ clean.cur \in Selected /\ f \in Files
      /\ clean'.pc = "loop" /\ clean'.todo = clean.todo
      /\ row' = [row EXCEPT ![f] = NoRow] /\ UNCHANGED <<objects, upload>>
      /\ row \in [Files -> [status: RowStatuses, size: Nat, old: BOOLEAN]]
  BY DEF CleanErase, UploadInv, UploadTypes, CleanTypes, Items, Selected
<1>2. f \notin objects /\ upload[f] \in Over
  BY <1>1 DEF FilesLive
<1> HIDE DEF f
<1>3. \A g \in Files : LiveRow(g)'
  BY <1>1, <1>2 DEF FilesLive, LiveRow, Over, NoRow
<1>4. Selected' \subseteq Selected
  BY <1>1 DEF Selected
<1>5. (\A s \in Selected : upload[s.file] \in Over)'
  BY <1>1, <1>4 DEF FilesLive
<1> QED BY <1>1, <1>3, <1>5 DEF FilesLive

LEMMA LiveNext == ~SlowPuts /\ UploadInv /\ FilesLiveInv /\ [UploadsNext]_uploadVars => FilesLiveInv'
<1> SUFFICES ASSUME ~SlowPuts, UploadInv, FilesLiveInv, [UploadsNext]_uploadVars, ~deleted' PROVE FilesLive'
  BY DEF FilesLiveInv
<1>1. ~deleted
  BY DEF uploadVars, UploadsNext, Reserve, ScheduleCleanup, Put, PutFails, Confirm, FailUpload, Age, AlarmFires,
     CleanDelete, CleanErase, CleanEnd, DeleteWiki, Crash, UploadInv, UploadTypes
<1>2. FilesLive
  BY <1>1 DEF FilesLiveInv
<1>3. upload \in [Files -> UploadPcs]
  BY DEF UploadInv, UploadTypes
<1>4. ASSUME NEW f \in Files, FailUpload(f) PROVE FilesLive'
  <2>1. /\ upload[f] = "requeue" /\ upload' = [upload EXCEPT ![f] = "failed"]
        /\ UNCHANGED <<row, objects, clean>>
    BY <1>4 DEF FailUpload
  <2>2. ASSUME NEW g \in Files
        PROVE  upload'[g] = upload[g] \/ (upload'[g] \in Over /\ upload[g] \in Running)
    <3>1. CASE g = f
      <4>1. upload'[g] = "failed" /\ upload[g] = "requeue"
        BY <1>3, <2>1, <3>1
      <4> QED BY <4>1 DEF Running, Over
    <3>2. CASE g # f
      BY <1>3, <2>1, <3>2
    <3> QED BY <3>1, <3>2
  <2>3. clean' = clean
    BY <2>1
  <2> QED BY <1>2, <2>1, <2>2, <2>3, LiveEnds
<1>5. CASE Crash
  <2>1. /\ upload' = [f \in Files |-> IF upload[f] \in Running THEN "lost" ELSE upload[f]]
        /\ UNCHANGED <<row, objects>> /\ clean' = Off
    BY <1>5 DEF Crash
  <2>2. ASSUME NEW g \in Files
        PROVE  upload'[g] = upload[g] \/ (upload'[g] \in Over /\ upload[g] \in Running)
    <3>1. CASE upload[g] \in Running
      <4>1. upload'[g] = "lost"
        BY <2>1, <3>1
      <4> QED BY <3>1, <4>1 DEF Over
    <3>2. CASE upload[g] \notin Running
      BY <2>1, <3>2
    <3> QED BY <3>1, <3>2
  <2> QED BY <1>2, <2>1, <2>2, LiveEnds
<1>6. CASE CleanEnd \/ UNCHANGED uploadVars
  <2>1. UNCHANGED <<row, objects, upload>> /\ (clean' = clean \/ clean' = Off)
    BY <1>6 DEF CleanEnd, uploadVars
  <2>2. \A g \in Files : upload'[g] = upload[g] \/ (upload'[g] \in Over /\ upload[g] \in Running)
    BY <2>1
  <2> QED BY <1>2, <2>1, <2>2, LiveEnds
<1>7. ~DeleteWiki
  BY DEF DeleteWiki
<1> QED BY <1>1, <1>2, <1>4, <1>5, <1>6, <1>7, LiveUpload, LiveAge, LiveSelects, LiveDelete,
     LiveErase DEF UploadsNext

LEMMA LiveStart == UploadsInit => FilesLiveInv
BY DEF UploadsInit, FilesLiveInv, FilesLive, LiveRow, NoRow, Off, Selected, Over

LEMMA UploadInvTypes == UploadInv => AttachmentsTyped
<1> SUFFICES ASSUME UploadInv PROVE AttachmentsTyped
  OBVIOUS
<1>1. UploadTypes /\ CleanTypes
  BY DEF UploadInv
<1>2. \A f \in Files : /\ row[f].status \in {"none", "pending", "ready", "delete"}
                       /\ row[f].size \in {0, Size[f]}
                       /\ row[f].status \in {"pending", "ready"} => row[f].size = Size[f]
  BY <1>1 DEF UploadTypes, RowFits, RowStatuses
<1>3. bytes = MapThenSumSet(LAMBDA f : row[f].size, Files)
  BY <1>1 DEF UploadTypes, Reserved
<1>4. clean.pc \in {"off", "loop", "answer"} /\ Cardinality(clean.todo) <= Batch
  BY <1>1 DEF CleanTypes
<1> QED BY <1>1, <1>2, <1>3, <1>4 DEF AttachmentsTyped, UploadTypes

\* The budget counter is exactly what the rows of a wiki's files reserve and
\* within the budget, for any files, sizes, limits, deletions and process
\* losses, wherever these strike.
THEOREM UploadsTypeOK == UploadsSpec => []AttachmentsTyped
<1> QED BY UploadStart, UploadStep, UploadInvTypes, PTL DEF UploadsSpec

\* While no put outlasts its ten minutes, a live wiki owns every stored file
\* and keeps what it acknowledged.
THEOREM LiveFilesAreKept == ~SlowPuts => (UploadsSpec => []LiveWikiKeepsFiles)
<1> SUFFICES ASSUME ~SlowPuts PROVE UploadsSpec => []LiveWikiKeepsFiles
  OBVIOUS
<1>1. UploadInv /\ FilesLiveInv => LiveWikiKeepsFiles
  BY UploadInvTypes DEF FilesLiveInv, FilesLive, LiveRow, LiveWikiKeepsFiles, NoOrphanFile, UploadInv,
     UploadTypes
<1>2. UploadInv /\ FilesLiveInv /\ [UploadsNext]_uploadVars => FilesLiveInv'
  BY LiveNext
<1> QED BY <1>1, <1>2, UploadStart, UploadStep, LiveStart, PTL DEF UploadsSpec

-----------------------------------------------------------------------------
(***************************************************************************)
(* The wiki page in the browser (WikiEditor). EditorInv ties requests to    *)
(* the page they are of: the reads of one turn are of one page, that of the *)
(* turn on screen is the page on screen, no request is of a later turn than *)
(* the epoch, and a search of the last turn waits only while its panel is   *)
(* open.                                                                    *)
(***************************************************************************)

Kinds == {"open", "navigation", "comments", "search", "edit", "restore", "save", "delete", "conflict",
          "refresh"}
Parts == {"click", "append", "save", "delete"}
Calls == [kind: Kinds, page: Leaf \cup {NoLeaf}, turn: Nat, rev: Nat, of: Parts]
Reads == {"open", "navigation"}

\* A request is of a page of the wiki, but for a search and the save of a new one;
\* and these are the requests of a save.
Placed(c) ==
  /\ c.kind \notin {"search", "save", "delete"} => c.page \in Leaf
  /\ c.kind \in {"save", "conflict", "refresh"} => c.of = "save"
  /\ c.of = "save" => c.kind \in {"save", "conflict", "open", "navigation", "comments", "refresh"}

Drafts == [open: BOOLEAN, id: Leaf \cup {NoLeaf}, expected: Nat, agreed: SUBSET ((Leaf \cup {NoLeaf}) \X Nat)]

EditorTypes ==
  /\ revision \in [Leaf -> Nat] /\ calls \subseteq Calls /\ \A c \in calls : Placed(c)
  /\ current \in [page: Leaf \cup {NoLeaf}, rev: Nat, old: BOOLEAN, turn: Nat]
  /\ epoch \in [turn: Nat, failed: Nat]
  /\ editor \in Drafts
  /\ conflict \in [shown: BOOLEAN, page: Leaf \cup {NoLeaf}, rev: Nat]
  /\ conflict.shown => conflict.page \in Leaf
  /\ hits \in [turn: Nat, shown: Nat, failed: Nat, query: Nat]

\* One turn is of one page, and none is later than the epoch.
Turns ==
  /\ current.turn <= epoch.turn
  /\ \A c \in calls : c.kind \in Reads =>
       /\ c.turn <= epoch.turn
       /\ c.turn = current.turn => c.page = current.page
       /\ \A d \in calls : d.kind \in Reads /\ d.turn = c.turn => d.page = c.page

\* A search is of the last turn only while its panel is open.
Searches ==
  /\ hits.query \in {0, hits.turn}
  /\ \A c \in calls : c.kind = "search" =>
       c.turn <= hits.turn /\ (hits.query = 0 => c.turn < hits.turn)

EditorInv == EditorTypes /\ Turns /\ Searches

\* What may join and leave the requests on their way.
LEMMA TypesAfter ==
  ASSUME EditorTypes, calls' \subseteq Calls, \A c \in calls' : Placed(c),
         UNCHANGED <<revision, current, epoch, editor, conflict, hits>>
  PROVE  EditorTypes'
BY DEF EditorTypes, Placed

\* What a request brings after it is a part of the same, and reads no page.
LEMMA ThenCalls ==
  ASSUME NEW c \in Calls, c.page \in Leaf, NEW d \in ThenComments(c) \cup ThenRefresh(c)
  PROVE  d \in Calls /\ Placed(d) /\ d.kind \in {"comments", "refresh"} /\ d.of = c.of
<1>1. /\ AskOf("comments", c.page, c.of) \in Calls /\ AskOf("refresh", c.page, "save") \in Calls
      /\ AskOf("comments", c.page, c.of) = [kind |-> "comments", page |-> c.page, turn |-> 0,
                                            rev |-> 0, of |-> c.of]
      /\ AskOf("refresh", c.page, "save") = [kind |-> "refresh", page |-> c.page, turn |-> 0,
                                             rev |-> 0, of |-> "save"]
  BY DEF AskOf, Ask, Calls, Kinds, Parts
<1>2. \/ d = AskOf("comments", c.page, c.of)
      \/ d = AskOf("refresh", c.page, "save") /\ c.of = "save"
  BY DEF ThenComments, ThenRefresh
<1> QED BY <1>1, <1>2 DEF Placed

LEMMA EditorTypesNext == EditorTypes /\ [EditorNext]_editorVars => EditorTypes'
<1> SUFFICES ASSUME EditorTypes, [EditorNext]_editorVars PROVE EditorTypes'
  OBVIOUS
<1> USE WikiEditorAssumption
<1>1. /\ revision \in [Leaf -> Nat] /\ calls \subseteq Calls /\ (\A c \in calls : Placed(c))
      /\ current \in [page: Leaf \cup {NoLeaf}, rev: Nat, old: BOOLEAN, turn: Nat]
      /\ epoch \in [turn: Nat, failed: Nat]
      /\ editor \in Drafts
      /\ conflict \in [shown: BOOLEAN, page: Leaf \cup {NoLeaf}, rev: Nat]
      /\ (conflict.shown => conflict.page \in Leaf)
      /\ hits \in [turn: Nat, shown: Nat, failed: Nat, query: Nat]
  BY DEF EditorTypes
<1>1a. NoConflict \in [shown: BOOLEAN, page: Leaf \cup {NoLeaf}, rev: Nat] /\ ~NoConflict.shown
  BY DEF NoConflict
<1>1b. ASSUME NEW D \in SUBSET calls, NEW page \in Leaf, NEW rev \in Nat, NEW of \in Parts,
              calls' = D \cup {OpenCall(page, rev, of)}, NextEpoch,
              revision' \in [Leaf -> Nat], UNCHANGED <<current, editor, conflict, hits>>
       PROVE  EditorTypes'
  <2>1. OpenCall(page, rev, of) \in Calls /\ Placed(OpenCall(page, rev, of))
    BY <1>1 DEF OpenCall, Calls, Kinds, Placed
  <2>2. epoch' \in [turn: Nat, failed: Nat]
    BY <1>1, <1>1b DEF NextEpoch
  <2> QED BY <1>1, <1>1b, <2>1, <2>2 DEF EditorTypes, Placed
<1>1c. ASSUME calls' \subseteq calls, editor' \in Drafts, conflict' = NoConflict,
              UNCHANGED <<revision, current, epoch, hits>>
       PROVE  EditorTypes'
  BY <1>1, <1>1a, <1>1c DEF EditorTypes, Placed
<1>1d. ASSUME ShowRead PROVE editor' \in Drafts /\ conflict' = NoConflict
  BY <1>1, <1>1d DEF ShowRead, Drafts
<1>2. ASSUME NEW p \in Leaf, NEW r \in {0, 1}, Open(p, r) PROVE EditorTypes'
  <2>1. calls' = calls \cup {OpenCall(p, r, "click")} /\ NextEpoch
        /\ UNCHANGED <<revision, current, editor, conflict, hits>>
    BY <1>2 DEF Open, Issue
  <2> QED BY <1>1, <1>1b, <2>1 DEF Parts
<1>3. ASSUME NEW append \in BOOLEAN, Comments(append) PROVE EditorTypes'
  <2>1. PICK of \in {"append", "click"} : calls' = calls \cup {AskOf("comments", current.page, of)}
    BY <1>3 DEF Comments, Issue
  <2>2. current.page \in Leaf
    BY <1>1, <1>3 DEF Comments
  <2>3. AskOf("comments", current.page, of) \in Calls /\ Placed(AskOf("comments", current.page, of))
    BY <2>2 DEF Ask, AskOf, Calls, Kinds, Parts, Placed
  <2> QED BY <1>1, <1>3, <2>1, <2>3, TypesAfter DEF Comments
<1>4. ASSUME NEW kind \in {"edit", "restore"}, StartEdit(kind) PROVE EditorTypes'
  <2>1. calls' = calls \cup {Ask(kind, current.page)} /\ current.page \in Leaf
    BY <1>1, <1>4 DEF StartEdit, Issue
  <2>2. Ask(kind, current.page) \in Calls /\ Placed(Ask(kind, current.page))
    BY <1>1, <2>1 DEF Ask, Calls, Kinds, Parts, Placed
  <2> QED BY <1>1, <1>4, <2>1, <2>2, TypesAfter DEF StartEdit
<1>5. CASE Search
  <2>1. hits.turn + 1 \in Nat
    BY <1>1
  <2>2. /\ [Ask("search", NoLeaf) EXCEPT !.turn = hits.turn + 1] \in Calls
        /\ Placed([Ask("search", NoLeaf) EXCEPT !.turn = hits.turn + 1])
    BY <2>1 DEF Ask, Calls, Kinds, Parts, Placed
  <2>3. hits' \in [turn: Nat, shown: Nat, failed: Nat, query: Nat]
    <3>1. hits' = [hits EXCEPT !.turn = hits.turn + 1, !.query = hits.turn + 1]
      BY <1>5 DEF Search
    <3> QED BY <1>1, <2>1, <3>1
  <2>4. calls' = calls \cup {[Ask("search", NoLeaf) EXCEPT !.turn = hits.turn + 1]}
        /\ UNCHANGED <<revision, current, epoch, editor, conflict>>
    BY <1>5 DEF Search, Issue
  <2> QED BY <1>1, <2>2, <2>3, <2>4 DEF EditorTypes, Placed
<1>6. CASE CloseSearch
  <2>1. hits' \in [turn: Nat, shown: Nat, failed: Nat, query: Nat]
    <3>1. hits' = [hits EXCEPT !.turn = hits.turn + 1, !.shown = 0, !.query = 0]
      BY <1>6 DEF CloseSearch
    <3>2. hits.turn + 1 \in Nat
      BY <1>1
    <3> QED BY <1>1, <3>1, <3>2
  <2>2. UNCHANGED <<revision, calls, current, epoch, editor, conflict>>
    BY <1>6 DEF CloseSearch
  <2> QED BY <1>1, <2>1, <2>2 DEF EditorTypes, Placed
<1>7. CASE NewPage \/ CancelEdit
  <2>1. [open |-> TRUE, id |-> NoLeaf, expected |-> 0, agreed |-> {}] \in Drafts
    BY DEF Drafts
  <2>2. editor' \in Drafts /\ conflict' = NoConflict
    BY <1>1d, <1>7, <2>1 DEF NewPage, CancelEdit, Draft
  <2> QED BY <1>1c, <1>7, <2>2 DEF NewPage, CancelEdit
<1>8. CASE SaveDraft
  <2>1. editor.id \in Leaf \cup {NoLeaf} /\ editor.expected \in Nat
    BY <1>1 DEF Drafts
  <2>2. /\ [AskOf("save", editor.id, "save") EXCEPT !.rev = editor.expected] \in Calls
        /\ Placed([AskOf("save", editor.id, "save") EXCEPT !.rev = editor.expected])
    BY <2>1 DEF AskOf, Ask, Calls, Kinds, Parts, Placed
  <2> QED BY <1>1, <1>8, <2>2, TypesAfter DEF SaveDraft, Issue
<1>9. CASE DeleteShown
  <2>1. /\ [AskOf("delete", current.page, "delete") EXCEPT !.rev = current.rev] \in Calls
        /\ Placed([AskOf("delete", current.page, "delete") EXCEPT !.rev = current.rev])
    BY <1>1 DEF AskOf, Ask, Calls, Kinds, Parts, Placed
  <2> QED BY <1>1, <1>9, <2>1, TypesAfter DEF DeleteShown, Issue
<1>10. CASE Merge
  <2>1. editor' \in Drafts
    <3>1. editor' = [editor EXCEPT !.expected = conflict.rev,
                       !.agreed = editor.agreed \cup {<<conflict.page, conflict.rev>>}]
      BY <1>10 DEF Merge
    <3>2. <<conflict.page, conflict.rev>> \in (Leaf \cup {NoLeaf}) \X Nat /\ conflict.rev \in Nat
      BY <1>1
    <3>3. editor.agreed \cup {<<conflict.page, conflict.rev>>} \in SUBSET ((Leaf \cup {NoLeaf}) \X Nat)
      BY <1>1, <3>2 DEF Drafts
    <3> QED BY <1>1, <3>1, <3>2, <3>3 DEF Drafts
  <2> QED BY <1>1c, <1>10, <2>1 DEF Merge
<1>11. ASSUME NEW c \in calls, Answers(c) PROVE EditorTypes'
  <2>1. c \in Calls /\ Placed(c) /\ c.page \in Leaf \cup {NoLeaf} /\ c.turn \in Nat /\ c.rev \in Nat
        /\ c.of \in Parts
    BY <1>1 DEF Calls
  <2>2. CASE OpenAnswered(c)
    <3>1. c.page \in Leaf
      BY <2>1, <2>2 DEF OpenAnswered, Placed
    <3>2. CASE ~Newest(c)
      <4>1. calls' = (calls \ {c}) \cup ThenRefresh(c)
            /\ UNCHANGED <<revision, current, epoch, editor, conflict, hits>>
        BY <2>2, <3>2 DEF OpenAnswered
      <4>2. \A d \in ThenRefresh(c) : d \in Calls /\ Placed(d)
        BY <2>1, <3>1, ThenCalls
      <4> QED BY <1>1, <4>1, <4>2, TypesAfter
    <3>3. CASE Newest(c)
      <4>1. [c EXCEPT !.kind = "navigation"] \in Calls /\ Placed([c EXCEPT !.kind = "navigation"])
        BY <2>1, <3>1 DEF Placed, Calls, Kinds
      <4>2. calls' \subseteq Calls /\ \A d \in calls' : Placed(d)
        BY <1>1, <2>2, <3>3, <4>1 DEF OpenAnswered
      <4>3. current' \in [page: Leaf \cup {NoLeaf}, rev: Nat, old: BOOLEAN, turn: Nat]
        <5>1. PICK rev, old : /\ rev = IF c.rev > 0 THEN c.rev ELSE revision[c.page]
                              /\ old = (c.rev > 0)
          OBVIOUS
        <5>2. current' = [page |-> c.page, rev |-> rev, old |-> old, turn |-> c.turn]
          BY <2>2, <3>3, <5>1 DEF OpenAnswered
        <5>3. rev \in Nat /\ old \in BOOLEAN
          BY <1>1, <2>1, <3>1, <5>1
        <5> QED BY <2>1, <3>1, <5>2, <5>3
      <4>4. editor' \in Drafts /\ conflict' = NoConflict /\ UNCHANGED <<revision, epoch, hits>>
        BY <1>1d, <2>2, <3>3 DEF OpenAnswered
      <4> QED BY <1>1, <1>1a, <4>2, <4>3, <4>4 DEF EditorTypes, Placed
    <3> QED BY <3>2, <3>3
  <2>3. CASE NavigationAnswered(c) \/ CommentsAnswered(c)
    <3>1. c.page \in Leaf
      BY <2>1, <2>3 DEF NavigationAnswered, CommentsAnswered, Placed
    <3>2. \A d \in ThenComments(c) \cup ThenRefresh(c) : d \in Calls /\ Placed(d)
      BY <2>1, <3>1, ThenCalls
    <3>3. calls' \subseteq calls \cup ThenComments(c) \cup ThenRefresh(c)
          /\ UNCHANGED <<revision, current, epoch, editor, conflict, hits>>
      BY <2>3 DEF NavigationAnswered, CommentsAnswered
    <3> QED BY <1>1, <3>2, <3>3, TypesAfter
  <2>4. CASE RefreshAnswered(c)
    BY <1>1, <2>4, TypesAfter DEF RefreshAnswered, Take
  <2>5. CASE SearchAnswered(c)
    BY <1>1, <2>1, <2>5 DEF SearchAnswered, Take, EditorTypes, Placed
  <2>6. CASE EditAnswered(c)
    <3>1. c.page \in Leaf /\ revision[c.page] \in Nat
      BY <1>1, <2>1, <2>6 DEF EditAnswered, Placed
    <3>2. editor' = [open |-> TRUE, id |-> c.page, expected |-> revision[c.page],
                     agreed |-> {<<c.page, revision[c.page]>>}]
      BY <2>6 DEF EditAnswered, Draft
    <3>3. {<<c.page, revision[c.page]>>} \in SUBSET ((Leaf \cup {NoLeaf}) \X Nat)
      BY <3>1
    <3>4. editor' \in Drafts
      BY <3>1, <3>2, <3>3 DEF Drafts
    <3> QED BY <1>1c, <2>6, <3>4 DEF EditAnswered, Draft, Take
  <2>7. CASE RestoreAnswered(c)
    <3>1. c.page \in Leaf /\ revision[c.page] \in Nat
      BY <1>1, <2>1, <2>7 DEF RestoreAnswered, Placed
    <3>2. editor' = [open |-> TRUE, id |-> current.page, expected |-> revision[c.page],
                     agreed |-> {<<c.page, revision[c.page]>>, <<current.page, current.rev>>}]
      BY <2>7 DEF RestoreAnswered, Draft
    <3>3. {<<c.page, revision[c.page]>>, <<current.page, current.rev>>}
            \in SUBSET ((Leaf \cup {NoLeaf}) \X Nat)
      BY <1>1, <3>1
    <3>4. editor' \in Drafts
      BY <1>1, <3>1, <3>2, <3>3 DEF Drafts
    <3> QED BY <1>1c, <2>7, <3>4 DEF RestoreAnswered, Draft, Take
  <2>8. CASE ConflictAnswered(c)
    <3>1. c.page \in Leaf /\ revision[c.page] \in Nat
      BY <1>1, <2>1, <2>8 DEF ConflictAnswered, Placed
    <3> QED BY <1>1, <2>8, <3>1 DEF ConflictAnswered, Take, EditorTypes, Placed
  <2>9. ASSUME NEW page \in Leaf, NEW rev \in Nat, Applied(c, page, rev), revision' \in [Leaf -> Nat],
               UNCHANGED <<current, editor, conflict, hits>>
        PROVE  EditorTypes'
    <3>1. CASE NextEpoch /\ calls' = (calls \ {c}) \cup {OpenCall(page, rev, c.of)}
      BY <1>1b, <2>1, <2>9, <3>1
    <3>2. CASE Take(c) /\ epoch' = epoch
      BY <1>1, <2>9, <3>2 DEF Take, EditorTypes, Placed
    <3> QED BY <2>9, <3>1, <3>2 DEF Applied
  <2>10. CASE Taken(c)
    <3>1. c.page \in Leaf /\ revision' = [revision EXCEPT ![c.page] = revision[c.page] + 1]
      BY <2>1, <2>10 DEF Taken
    <3>2. PICK rev : rev = IF c.kind = "delete" THEN c.rev + 1 ELSE 0
      OBVIOUS
    <3>3. Applied(c, c.page, rev) /\ rev \in Nat
      BY <2>1, <2>10, <3>2 DEF Taken
    <3>4. revision' \in [Leaf -> Nat]
      BY <1>1, <3>1
    <3> QED BY <2>9, <2>10, <3>1, <3>3, <3>4 DEF Taken
  <2>11. CASE Created(c)
    <3>1. PICK page \in Leaf : revision' = [revision EXCEPT ![page] = 1] /\ Applied(c, page, 0)
      BY <2>11 DEF Created
    <3>2. revision' \in [Leaf -> Nat]
      BY <1>1, <3>1
    <3> QED BY <2>9, <2>11, <3>1, <3>2 DEF Created
  <2>12. CASE SaveRefused(c)
    <3>1. editor.id # NoLeaf =>
            AskOf("conflict", editor.id, "save") \in Calls /\ Placed(AskOf("conflict", editor.id, "save"))
      BY <1>1 DEF Drafts, AskOf, Ask, Calls, Kinds, Parts, Placed
    <3> QED BY <1>1, <2>12, <3>1, TypesAfter DEF SaveRefused, Take
  <2>13. CASE Fails(c)
    BY <1>1, <2>1, <2>13 DEF Fails, Take, EditorTypes, Placed
  <2> QED BY <1>11, <2>2, <2>3, <2>4, <2>5, <2>6, <2>7, <2>8, <2>10, <2>11, <2>12, <2>13 DEF Answers
<1>12. ASSUME NEW p \in Leaf, OtherWriter(p) PROVE EditorTypes'
  BY <1>1, <1>12 DEF OtherWriter, EditorTypes, Placed
<1>13. CASE UNCHANGED editorVars
  BY <1>1, <1>13 DEF editorVars, EditorTypes, Placed
<1> QED BY <1>2, <1>3, <1>4, <1>5, <1>6, <1>7, <1>8, <1>9, <1>10, <1>11, <1>12, <1>13
     DEF EditorNext, Clicks

\* Requests that read a page are no new ones, and the page shown stays.
LEMMA TurnsStay ==
  ASSUME EditorTypes, Turns, current' = current, epoch'.turn = epoch.turn,
         \A c \in calls' : c.kind \in Reads => c \in calls
  PROVE  Turns'
BY DEF Turns

\* A page is asked for.
LEMMA TurnsBegin ==
  ASSUME EditorTypes, Turns, NEW p \in Leaf, NEW rev, NEW of, NEW D, D \subseteq calls,
         calls' = D \cup {OpenCall(p, rev, of)}, NextEpoch, current' = current
  PROVE  Turns'
<1>1. /\ epoch.turn \in Nat /\ epoch'.turn = epoch.turn + 1 /\ current.turn <= epoch.turn
      /\ current.turn \in Nat /\ \A c \in calls : c.turn \in Nat
  BY DEF NextEpoch, EditorTypes, Turns, Calls
<1>2. OpenCall(p, rev, of).turn = epoch.turn + 1
  BY DEF OpenCall
<1>3. \A c \in calls' : c.kind \in Reads =>
        \/ c = OpenCall(p, rev, of)
        \/ c \in calls /\ c.turn <= epoch.turn
  BY DEF Turns
<1>4. ASSUME NEW c \in calls', c.kind \in Reads
      PROVE  /\ c.turn <= epoch'.turn
             /\ c.turn = current.turn => c.page = current.page
             /\ \A d \in calls' : d.kind \in Reads /\ d.turn = c.turn => d.page = c.page
  <2>1. CASE c = OpenCall(p, rev, of)
    BY <1>1, <1>2, <1>3, <2>1
  <2>2. CASE c \in calls /\ c.turn <= epoch.turn
    BY <1>1, <1>2, <1>3, <1>4, <2>2 DEF Turns
  <2> QED BY <1>3, <1>4, <2>1, <2>2
<1> QED BY <1>1, <1>4 DEF Turns

LEMMA TurnsNext == EditorTypes /\ Turns /\ [EditorNext]_editorVars => Turns'
<1> SUFFICES ASSUME EditorTypes, Turns, [EditorNext]_editorVars PROVE Turns'
  OBVIOUS
<1>1. ASSUME NEW p \in Leaf, NEW r \in {0, 1}, Open(p, r) PROVE Turns'
  <2>1. calls' = calls \cup {OpenCall(p, r, "click")} /\ NextEpoch /\ current' = current
    BY <1>1 DEF Open, Issue
  <2> QED BY <2>1, TurnsBegin
<1>2. ASSUME NEW append \in BOOLEAN, NEW kind \in {"edit", "restore"},
             \/ Comments(append) \/ StartEdit(kind) \/ Search \/ CloseSearch \/ NewPage
             \/ CancelEdit \/ SaveDraft \/ DeleteShown \/ Merge
      PROVE  Turns'
  <2>1. current' = current /\ epoch' = epoch
    BY <1>2 DEF Comments, StartEdit, Search, CloseSearch, NewPage, CancelEdit, SaveDraft, DeleteShown, Merge
  <2>2. ASSUME NEW d, Issue(d), d.kind \notin Reads PROVE \A c \in calls' : c.kind \in Reads => c \in calls
    BY <2>2 DEF Issue
  <2>3. /\ Ask(kind, current.page).kind \notin Reads
        /\ \A of : AskOf("comments", current.page, of).kind \notin Reads
        /\ [Ask("search", NoLeaf) EXCEPT !.turn = hits.turn + 1].kind \notin Reads
        /\ [AskOf("save", editor.id, "save") EXCEPT !.rev = editor.expected].kind \notin Reads
        /\ [AskOf("delete", current.page, "delete") EXCEPT !.rev = current.rev].kind \notin Reads
    BY DEF Ask, AskOf, Reads
  <2>4. \A c \in calls' : c.kind \in Reads => c \in calls
    <3>1. CASE Comments(append)
      BY <2>2, <2>3, <3>1 DEF Comments
    <3>2. CASE StartEdit(kind)
      BY <2>2, <2>3, <3>2 DEF StartEdit
    <3>3. CASE Search \/ SaveDraft \/ DeleteShown
      BY <2>2, <2>3, <3>3 DEF Search, SaveDraft, DeleteShown
    <3>4. CASE CloseSearch \/ NewPage \/ CancelEdit \/ Merge
      BY <3>4 DEF CloseSearch, NewPage, CancelEdit, Merge
    <3> QED BY <1>2, <3>1, <3>2, <3>3, <3>4
  <2> QED BY <2>1, <2>4, TurnsStay
<1>3. ASSUME NEW c \in calls, Answers(c) PROVE Turns'
  <2>0. /\ c \in Calls /\ Placed(c) /\ c.turn \in Nat
        /\ \A d \in calls : d \in Calls
    BY DEF EditorTypes, Calls
  <2>1. CASE OpenAnswered(c) /\ Newest(c)
    <3> DEFINE d == [c EXCEPT !.kind = "navigation"]
    <3>1. /\ current'.page = c.page /\ current'.turn = c.turn /\ epoch' = epoch
          /\ calls' \subseteq (calls \ {c}) \cup {d} /\ c.turn = epoch.turn /\ c.kind \in Reads
      BY <2>1 DEF OpenAnswered, Newest, Reads
    <3>2. d.turn = c.turn /\ d.page = c.page
      BY <2>0 DEF Calls
    <3> HIDE DEF d
    <3> QED BY <2>0, <3>1, <3>2 DEF Turns, EditorTypes
  <2>2. ASSUME calls' \subseteq calls \cup ThenComments(c) \cup ThenRefresh(c), c.page \in Leaf,
               UNCHANGED <<current, epoch>>
        PROVE  Turns'
    <3>1. \A d \in calls' : d.kind \in Reads => d \in calls
      BY <2>0, <2>2, ThenCalls DEF Reads
    <3> QED BY <2>2, <3>1, TurnsStay
  <2>3. CASE (OpenAnswered(c) /\ ~Newest(c)) \/ NavigationAnswered(c) \/ CommentsAnswered(c)
    <3>1. /\ calls' \subseteq calls \cup ThenComments(c) \cup ThenRefresh(c) /\ c.page \in Leaf
          /\ UNCHANGED <<current, epoch>>
      BY <2>0, <2>3 DEF OpenAnswered, NavigationAnswered, CommentsAnswered, Placed
    <3> QED BY <2>2, <3>1
  <2>4. CASE Taken(c) \/ Created(c)
    <3>1. PICK page \in Leaf, rev \in {0, c.rev + 1} : Applied(c, page, rev)
      BY <2>0, <2>4 DEF Taken, Created, Calls
    <3>2. current' = current
      BY <2>4 DEF Taken, Created
    <3>3. CASE epoch' = epoch /\ Take(c)
      BY <3>2, <3>3, TurnsStay DEF Take
    <3>4. CASE NextEpoch /\ calls' = (calls \ {c}) \cup {OpenCall(page, rev, c.of)}
      <4>1. PICK D : D = calls \ {c}
        OBVIOUS
      <4>2. D \subseteq calls /\ calls' = D \cup {OpenCall(page, rev, c.of)}
        BY <3>4, <4>1
      <4> QED BY <3>2, <3>4, <4>2, TurnsBegin
    <3> QED BY <3>1, <3>3, <3>4 DEF Applied
  <2>5. CASE \/ SearchAnswered(c) \/ EditAnswered(c) \/ RestoreAnswered(c) \/ ConflictAnswered(c)
             \/ SaveRefused(c) \/ RefreshAnswered(c) \/ Fails(c)
    <3>1. current' = current /\ \A d \in calls' : d.kind \in Reads => d \in calls
      BY <2>5 DEF SearchAnswered, EditAnswered, RestoreAnswered, ConflictAnswered, SaveRefused,
         RefreshAnswered, Fails, Take, AskOf, Ask, Reads
    <3>2. epoch'.turn = epoch.turn
      BY <2>5 DEF SearchAnswered, EditAnswered, RestoreAnswered, ConflictAnswered, SaveRefused,
         RefreshAnswered, Fails, EditorTypes
    <3> QED BY <3>1, <3>2, TurnsStay
  <2> QED BY <1>3, <2>1, <2>3, <2>4, <2>5 DEF Answers
<1>4. CASE (\E p \in Leaf : OtherWriter(p)) \/ UNCHANGED editorVars
  <2>1. UNCHANGED <<current, epoch, calls>>
    BY <1>4 DEF OtherWriter, editorVars
  <2> QED BY <2>1, TurnsStay
<1> QED BY <1>1, <1>2, <1>3, <1>4 DEF EditorNext, Clicks

LEMMA SearchesStay ==
  ASSUME Searches, hits'.turn = hits.turn, hits'.query = hits.query,
         \A c \in calls' : c.kind = "search" => c \in calls
  PROVE  Searches'
BY DEF Searches

LEMMA SearchesNext == EditorTypes /\ Searches /\ [EditorNext]_editorVars => Searches'
<1> SUFFICES ASSUME EditorTypes, Searches, [EditorNext]_editorVars PROVE Searches'
  OBVIOUS
<1>0. /\ hits \in [turn: Nat, shown: Nat, failed: Nat, query: Nat]
      /\ \A c \in calls : c \in Calls /\ c.turn \in Nat
  BY DEF EditorTypes, Calls
<1>1. CASE Search
  <2>1. /\ hits'.turn = hits.turn + 1 /\ hits'.query = hits.turn + 1
        /\ calls' = calls \cup {[Ask("search", NoLeaf) EXCEPT !.turn = hits.turn + 1]}
    BY <1>0, <1>1 DEF Search, Issue
  <2>2. [Ask("search", NoLeaf) EXCEPT !.turn = hits.turn + 1].turn = hits.turn + 1
    BY DEF Ask
  <2>3. ASSUME NEW c \in calls', c.kind = "search" PROVE c.turn <= hits.turn + 1
    <3>1. CASE c \in calls
      <4>1. c.turn <= hits.turn /\ c.turn \in Nat /\ hits.turn \in Nat
        BY <1>0, <2>3, <3>1 DEF Searches
      <4> QED BY <4>1
    <3>2. CASE c = [Ask("search", NoLeaf) EXCEPT !.turn = hits.turn + 1]
      <4>1. c.turn = hits.turn + 1 /\ hits.turn \in Nat
        BY <1>0, <2>2, <3>2
      <4> QED BY <4>1
    <3> QED BY <2>1, <2>3, <3>1, <3>2
  <2>4. hits.turn + 1 # 0
    BY <1>0
  <2> QED BY <2>1, <2>3, <2>4 DEF Searches
<1>2. CASE CloseSearch
  <2>1. hits'.turn = hits.turn + 1 /\ hits'.query = 0 /\ calls' = calls
    BY <1>0, <1>2 DEF CloseSearch
  <2> QED BY <1>0, <2>1 DEF Searches
<1>3. CASE \/ \E p \in Leaf : OtherWriter(p)
           \/ \E p \in Leaf, r \in {0, 1} : Open(p, r)
           \/ \E append \in BOOLEAN : Comments(append)
           \/ \E kind \in {"edit", "restore"} : StartEdit(kind)
           \/ NewPage \/ CancelEdit \/ SaveDraft \/ DeleteShown \/ Merge \/ UNCHANGED editorVars
  <2>1. hits' = hits
    BY <1>3 DEF Open, Comments, StartEdit, NewPage, CancelEdit, SaveDraft, DeleteShown, Merge,
       OtherWriter, editorVars
  <2>2. CASE \/ \E p \in Leaf : OtherWriter(p)
             \/ NewPage \/ CancelEdit \/ Merge \/ UNCHANGED editorVars
    <3>1. calls' = calls
      BY <2>2 DEF NewPage, CancelEdit, Merge, OtherWriter, editorVars
    <3> QED BY <2>1, <3>1, SearchesStay
  <2>3. ASSUME NEW d, Issue(d), d.kind # "search" PROVE Searches'
    BY <2>1, <2>3, SearchesStay DEF Issue
  <2>4. ASSUME NEW p \in Leaf, NEW r \in {0, 1}, Open(p, r) PROVE Searches'
    <3>1. Issue(OpenCall(p, r, "click")) /\ OpenCall(p, r, "click").kind # "search"
      BY <2>4 DEF Open, OpenCall
    <3> QED BY <2>3, <3>1
  <2>5. ASSUME NEW append \in BOOLEAN, Comments(append) PROVE Searches'
    <3>1. \A of : AskOf("comments", current.page, of).kind # "search"
      BY DEF AskOf, Ask
    <3> QED BY <2>3, <2>5, <3>1 DEF Comments
  <2>6. ASSUME NEW kind \in {"edit", "restore"}, StartEdit(kind) PROVE Searches'
    <3>1. Ask(kind, current.page).kind # "search"
      BY DEF Ask
    <3> QED BY <2>3, <2>6, <3>1 DEF StartEdit
  <2>7. CASE SaveDraft
    <3>1. [AskOf("save", editor.id, "save") EXCEPT !.rev = editor.expected].kind # "search"
      BY DEF AskOf, Ask
    <3> QED BY <2>3, <2>7, <3>1 DEF SaveDraft
  <2>8. CASE DeleteShown
    <3>1. [AskOf("delete", current.page, "delete") EXCEPT !.rev = current.rev].kind # "search"
      BY DEF AskOf, Ask
    <3> QED BY <2>3, <2>8, <3>1 DEF DeleteShown
  <2> QED BY <1>3, <2>2, <2>4, <2>5, <2>6, <2>7, <2>8
<1>4. ASSUME NEW c \in calls, Answers(c) PROVE Searches'
  <2>1. hits'.turn = hits.turn /\ hits'.query = hits.query
    BY <1>0, <1>4 DEF Answers, OpenAnswered, NavigationAnswered, CommentsAnswered, SearchAnswered,
       EditAnswered, RestoreAnswered, ConflictAnswered, Taken, Created, SaveRefused, RefreshAnswered, Fails
  <2>2. \A d \in calls' : d.kind = "search" => d \in calls
    <3>1. CASE OpenAnswered(c) /\ Newest(c)
      <4>1. [c EXCEPT !.kind = "navigation"].kind = "navigation"
        BY <1>0 DEF Calls
      <4> QED BY <3>1, <4>1 DEF OpenAnswered
    <3>2. CASE (OpenAnswered(c) /\ ~Newest(c)) \/ NavigationAnswered(c) \/ CommentsAnswered(c)
      <4>1. calls' \subseteq calls \cup ThenComments(c) \cup ThenRefresh(c) /\ c.page \in Leaf
        BY <3>2 DEF OpenAnswered, NavigationAnswered, CommentsAnswered, EditorTypes, Placed
      <4> QED BY <1>0, <4>1, ThenCalls
    <3>3. CASE \/ SearchAnswered(c) \/ EditAnswered(c) \/ RestoreAnswered(c) \/ ConflictAnswered(c)
               \/ SaveRefused(c) \/ RefreshAnswered(c) \/ Fails(c)
      BY <3>3 DEF SearchAnswered, EditAnswered, RestoreAnswered, ConflictAnswered, SaveRefused,
         RefreshAnswered, Fails, Take, AskOf, Ask
    <3>4. CASE Taken(c) \/ Created(c)
      BY <3>4 DEF Taken, Created, Applied, Take, OpenCall
    <3> QED BY <1>4, <3>1, <3>2, <3>3, <3>4 DEF Answers
  <2> QED BY <2>1, <2>2, SearchesStay
<1> QED BY <1>1, <1>2, <1>3, <1>4 DEF EditorNext, Clicks

-----------------------------------------------------------------------------

\* The parts of PageCoherent.
TurnAwaited ==
  current.turn # epoch.turn =>
    epoch.failed = epoch.turn \/ \E c \in calls : c.kind = "open" /\ c.turn = epoch.turn
Beside == crumbs \in {NoLeaf, current.page} /\ (~current.old => thread \subseteq {current.page})
HitsAwaited ==
  /\ hits.query = 0 => hits.shown = 0
  /\ hits.shown \notin {0, hits.query} =>
       hits.failed = hits.turn \/ \E c \in calls : c.kind = "search" /\ c.turn = hits.turn

LEMMA TurnAwaitedStays ==
  ASSUME TurnAwaited, current'.turn = current.turn, epoch'.turn = epoch.turn,
         \/ epoch' = epoch /\ \A c \in calls : c.kind = "open" /\ c.turn = epoch.turn => c \in calls'
         \/ epoch'.failed = epoch'.turn
  PROVE  TurnAwaited'
BY DEF TurnAwaited

LEMMA TurnAwaitedNext == EditorTypes /\ TurnAwaited /\ [EditorNext]_editorVars => TurnAwaited'
<1> SUFFICES ASSUME EditorTypes, TurnAwaited, [EditorNext]_editorVars PROVE TurnAwaited'
  OBVIOUS
<1>0. /\ epoch \in [turn: Nat, failed: Nat] /\ \A c \in calls : c \in Calls
  BY DEF EditorTypes
<1>1. ASSUME NEW p, NEW rev, NEW of, NextEpoch, OpenCall(p, rev, of) \in calls'
      PROVE  TurnAwaited'
  <2>1. epoch'.turn = epoch.turn + 1
    BY <1>0, <1>1 DEF NextEpoch
  <2>2. OpenCall(p, rev, of).kind = "open" /\ OpenCall(p, rev, of).turn = epoch.turn + 1
    BY DEF OpenCall
  <2> QED BY <1>1, <2>1, <2>2 DEF TurnAwaited
<1>2. ASSUME NEW p \in Leaf, NEW r \in {0, 1}, Open(p, r) PROVE TurnAwaited'
  BY <1>1, <1>2 DEF Open, Issue
<1>3. CASE \/ \E p \in Leaf : OtherWriter(p)
           \/ \E append \in BOOLEAN : Comments(append)
           \/ \E kind \in {"edit", "restore"} : StartEdit(kind)
           \/ Search \/ CloseSearch \/ NewPage \/ CancelEdit \/ SaveDraft \/ DeleteShown \/ Merge
           \/ UNCHANGED editorVars
  <2>1. UNCHANGED <<current, epoch>> /\ \A c \in calls : c \in calls'
    BY <1>3 DEF Comments, StartEdit, Search, CloseSearch, NewPage, CancelEdit, SaveDraft, DeleteShown,
       Merge, OtherWriter, editorVars, Issue
  <2> QED BY <2>1, TurnAwaitedStays
<1>4. ASSUME NEW c \in calls, Answers(c) PROVE TurnAwaited'
  <2>1. CASE OpenAnswered(c) /\ Newest(c)
    BY <2>1 DEF OpenAnswered, Newest, TurnAwaited
  <2>2. CASE OpenAnswered(c) /\ ~Newest(c)
    <3>1. UNCHANGED <<current, epoch>> /\ calls \ {c} \subseteq calls' /\ c.turn # epoch.turn
      BY <2>2 DEF OpenAnswered, Newest
    <3> QED BY <3>1, TurnAwaitedStays
  <2>3. CASE Taken(c) \/ Created(c)
    <3>1. PICK page \in Leaf, rev \in {0, c.rev + 1} : Applied(c, page, rev)
      BY <1>0, <2>3 DEF Taken, Created, Calls
    <3>2. CASE NextEpoch /\ calls' = (calls \ {c}) \cup {OpenCall(page, rev, c.of)}
      BY <1>1, <3>2
    <3>3. CASE epoch' = epoch /\ Take(c)
      <4>1. c.kind # "open" /\ current' = current
        BY <2>3 DEF Taken, Created
      <4> QED BY <3>3, <4>1, TurnAwaitedStays DEF Take
    <3> QED BY <3>1, <3>2, <3>3 DEF Applied
  <2>4. CASE \/ NavigationAnswered(c) \/ CommentsAnswered(c) \/ SearchAnswered(c) \/ EditAnswered(c)
             \/ RestoreAnswered(c) \/ ConflictAnswered(c) \/ SaveRefused(c) \/ RefreshAnswered(c)
    <3>1. UNCHANGED <<current, epoch>> /\ \A d \in calls : d.kind = "open" => d \in calls'
      BY <2>4 DEF NavigationAnswered, CommentsAnswered, SearchAnswered, EditAnswered, RestoreAnswered,
         ConflictAnswered, SaveRefused, RefreshAnswered, Take
    <3> QED BY <3>1, TurnAwaitedStays
  <2>5. CASE Fails(c)
    <3>1. current' = current /\ calls' = calls \ {c}
      BY <2>5 DEF Fails, Take
    <3>2. CASE c.kind = "open" /\ c.turn = epoch.turn
      <4>1. epoch'.turn = epoch.turn /\ epoch'.failed = epoch'.turn
        BY <1>0, <2>5, <3>2 DEF Fails
      <4> QED BY <3>1, <4>1, TurnAwaitedStays
    <3>3. CASE ~(c.kind = "open" /\ c.turn = epoch.turn)
      <4>1. epoch' = epoch
        BY <2>5, <3>3 DEF Fails
      <4> QED BY <3>1, <3>3, <4>1, TurnAwaitedStays
    <3> QED BY <3>2, <3>3
  <2> QED BY <1>4, <2>1, <2>2, <2>3, <2>4, <2>5 DEF Answers
<1> QED BY <1>2, <1>3, <1>4 DEF EditorNext, Clicks

LEMMA BesideNext == EditorTypes /\ Turns /\ Beside /\ [EditorNext]_editorVars => Beside'
<1> SUFFICES ASSUME EditorTypes, Turns, Beside, [EditorNext]_editorVars PROVE Beside'
  OBVIOUS
<1>0. \A c \in calls : c \in Calls /\ c.rev \in Nat
  BY DEF EditorTypes, Calls
<1>1. CASE \/ \E p \in Leaf : OtherWriter(p) \/ \E r \in {0, 1} : Open(p, r)
           \/ \E append \in BOOLEAN : Comments(append)
           \/ \E kind \in {"edit", "restore"} : StartEdit(kind)
           \/ Search \/ CloseSearch \/ NewPage \/ CancelEdit \/ SaveDraft \/ DeleteShown \/ Merge
           \/ UNCHANGED editorVars
  <2>1. UNCHANGED <<current, crumbs, thread>>
    BY <1>1 DEF Open, Comments, StartEdit, Search, CloseSearch, NewPage, CancelEdit, SaveDraft,
       DeleteShown, Merge, OtherWriter, editorVars
  <2> QED BY <2>1 DEF Beside
<1>2. ASSUME NEW c \in calls, Answers(c) PROVE Beside'
  <2>1. CASE OpenAnswered(c) /\ Newest(c)
    <3>1. /\ current'.old = (c.rev > 0) /\ crumbs' = NoLeaf
          /\ thread' = IF c.rev > 0 THEN thread ELSE {}
      BY <2>1 DEF OpenAnswered
    <3> QED BY <3>1 DEF Beside
  <2>2. CASE NavigationAnswered(c)
    <3>1. /\ crumbs' \in {crumbs, IF c.turn = current.turn THEN c.page ELSE crumbs}
          /\ UNCHANGED <<current, thread>> /\ c.kind = "navigation"
      BY <2>2 DEF NavigationAnswered
    <3>2. c.turn = current.turn => c.page = current.page
      BY <3>1 DEF Turns, Reads
    <3> QED BY <3>1, <3>2 DEF Beside
  <2>3. CASE CommentsAnswered(c)
    BY <2>3 DEF CommentsAnswered, SamePage, Beside
  <2>4. CASE \/ OpenAnswered(c) /\ ~Newest(c)
             \/ SearchAnswered(c) \/ EditAnswered(c) \/ RestoreAnswered(c) \/ ConflictAnswered(c)
             \/ Taken(c) \/ Created(c) \/ SaveRefused(c) \/ RefreshAnswered(c) \/ Fails(c)
    <3>1. UNCHANGED <<current, crumbs, thread>>
      BY <2>4 DEF OpenAnswered, SearchAnswered, EditAnswered, RestoreAnswered, ConflictAnswered,
         Taken, Created, SaveRefused, RefreshAnswered, Fails
    <3> QED BY <3>1 DEF Beside
  <2> QED BY <1>2, <2>1, <2>2, <2>3, <2>4 DEF Answers
<1> QED BY <1>1, <1>2 DEF EditorNext, Clicks

LEMMA HitsAwaitedStay ==
  ASSUME HitsAwaited, hits'.query = hits.query, hits'.turn = hits.turn, hits'.shown = hits.shown,
         \/ hits'.failed = hits.failed /\ \A c \in calls : c.kind = "search" /\ c.turn = hits.turn => c \in calls'
         \/ hits'.failed = hits'.turn
  PROVE  HitsAwaited'
BY DEF HitsAwaited

LEMMA HitsAwaitedNext ==
  EditorTypes /\ Searches /\ HitsAwaited /\ [EditorNext]_editorVars => HitsAwaited'
<1> SUFFICES ASSUME EditorTypes, Searches, HitsAwaited, [EditorNext]_editorVars PROVE HitsAwaited'
  OBVIOUS
<1>0. /\ hits \in [turn: Nat, shown: Nat, failed: Nat, query: Nat]
      /\ \A c \in calls : c \in Calls /\ c.turn \in Nat
  BY DEF EditorTypes, Calls
<1>1. CASE Search
  <2>1. /\ hits'.turn = hits.turn + 1 /\ hits'.query = hits.turn + 1
        /\ [Ask("search", NoLeaf) EXCEPT !.turn = hits.turn + 1] \in calls'
    BY <1>0, <1>1 DEF Search, Issue
  <2>2. /\ [Ask("search", NoLeaf) EXCEPT !.turn = hits.turn + 1].turn = hits.turn + 1
        /\ [Ask("search", NoLeaf) EXCEPT !.turn = hits.turn + 1].kind = "search"
    BY DEF Ask
  <2>3. hits.turn + 1 # 0
    BY <1>0
  <2> QED BY <2>1, <2>2, <2>3 DEF HitsAwaited
<1>2. CASE CloseSearch
  BY <1>0, <1>2 DEF CloseSearch, HitsAwaited
<1>3. CASE \/ \E p \in Leaf : OtherWriter(p)
           \/ \E p \in Leaf, r \in {0, 1} : Open(p, r)
           \/ \E append \in BOOLEAN : Comments(append)
           \/ \E kind \in {"edit", "restore"} : StartEdit(kind)
           \/ NewPage \/ CancelEdit \/ SaveDraft \/ DeleteShown \/ Merge \/ UNCHANGED editorVars
  <2>1. hits' = hits /\ \A c \in calls : c \in calls'
    BY <1>3 DEF Open, Comments, StartEdit, NewPage, CancelEdit, SaveDraft, DeleteShown, Merge,
       OtherWriter, editorVars, Issue
  <2> QED BY <2>1, HitsAwaitedStay
<1>4. ASSUME NEW c \in calls, Answers(c) PROVE HitsAwaited'
  <2>1. CASE SearchAnswered(c) /\ c.turn = hits.turn
    <3>1. hits'.shown = hits.turn /\ hits'.turn = hits.turn /\ hits'.query = hits.query
      BY <1>0, <2>1 DEF SearchAnswered
    <3>2. hits.query = hits.turn /\ hits.query # 0
      BY <1>0, <2>1 DEF SearchAnswered, Searches
    <3> QED BY <3>1, <3>2 DEF HitsAwaited
  <2>2. CASE SearchAnswered(c) /\ c.turn # hits.turn
    <3>1. hits' = hits /\ calls' = calls \ {c}
      BY <2>2 DEF SearchAnswered, Take
    <3> QED BY <2>2, <3>1, HitsAwaitedStay
  <2>3. CASE Fails(c) /\ c.kind = "search" /\ c.turn = hits.turn
    <3>1. hits' = [hits EXCEPT !.failed = c.turn]
      BY <2>3 DEF Fails
    <3>2. /\ hits'.query = hits.query /\ hits'.turn = hits.turn /\ hits'.shown = hits.shown
          /\ hits'.failed = hits'.turn
      BY <1>0, <2>3, <3>1
    <3> QED BY <3>2, HitsAwaitedStay
  <2>4. CASE Fails(c) /\ ~(c.kind = "search" /\ c.turn = hits.turn)
    <3>1. hits' = hits /\ calls' = calls \ {c}
      BY <2>4 DEF Fails, Take
    <3> QED BY <2>4, <3>1, HitsAwaitedStay
  <2>5. CASE \/ OpenAnswered(c) \/ NavigationAnswered(c) \/ CommentsAnswered(c) \/ EditAnswered(c)
             \/ RestoreAnswered(c) \/ ConflictAnswered(c) \/ Taken(c) \/ Created(c) \/ SaveRefused(c)
             \/ RefreshAnswered(c)
    <3>1. hits' = hits /\ \A d \in calls : d.kind = "search" => d \in calls'
      BY <2>5 DEF OpenAnswered, NavigationAnswered, CommentsAnswered, EditAnswered, RestoreAnswered,
         ConflictAnswered, Taken, Created, Applied, SaveRefused, RefreshAnswered, Take
    <3> QED BY <3>1, HitsAwaitedStay
  <2> QED BY <1>4, <2>1, <2>2, <2>3, <2>4, <2>5 DEF Answers
<1> QED BY <1>1, <1>2, <1>3, <1>4 DEF EditorNext, Clicks

\* The requests of the save that is under way, if one is.
SaveCalls == {c \in calls : c.of = "save"}

LEMMA OneSaveNext == EditorTypes /\ OneSave /\ [EditorNext]_editorVars => OneSave'
<1> SUFFICES ASSUME EditorTypes, OneSave, [EditorNext]_editorVars PROVE OneSave'
  OBVIOUS
<1>0. /\ \A c \in calls : c \in Calls /\ Placed(c)
      /\ saving = (SaveCalls # {}) /\ \A c, d \in SaveCalls : c = d
  BY DEF EditorTypes, OneSave, SaveCalls
<1>1. ASSUME SaveCalls' = SaveCalls, saving' = saving PROVE OneSave'
  BY <1>1 DEF OneSave, SaveCalls
<1>2. ASSUME SaveCalls' = {}, saving' = FALSE PROVE OneSave'
  BY <1>2 DEF OneSave, SaveCalls
<1>3. ASSUME NEW d, SaveCalls' = {d}, saving' = TRUE PROVE OneSave'
  BY <1>3 DEF OneSave, SaveCalls
<1>4. ASSUME NEW d, Issue(d), d.of # "save", saving' = saving PROVE OneSave'
  BY <1>1, <1>4 DEF Issue, SaveCalls
<1>5. ASSUME NEW p \in Leaf, NEW r \in {0, 1}, Open(p, r) PROVE OneSave'
  <2>1. OpenCall(p, r, "click").of = "click"
    BY DEF OpenCall
  <2> QED BY <1>4, <1>5, <2>1 DEF Open
<1>6. ASSUME NEW append \in BOOLEAN, Comments(append) PROVE OneSave'
  <2>1. \A of : AskOf("comments", current.page, of).of = of
    BY DEF AskOf, Ask
  <2> QED BY <1>4, <1>6, <2>1 DEF Comments
<1>7. ASSUME NEW kind \in {"edit", "restore"}, StartEdit(kind) PROVE OneSave'
  <2>1. Ask(kind, current.page).of = "click"
    BY DEF Ask
  <2> QED BY <1>4, <1>7, <2>1 DEF StartEdit
<1>8. CASE Search
  <2>1. [Ask("search", NoLeaf) EXCEPT !.turn = hits.turn + 1].of = "click"
    BY DEF Ask
  <2> QED BY <1>4, <1>8, <2>1 DEF Search
<1>9. CASE DeleteShown
  <2>1. [AskOf("delete", current.page, "delete") EXCEPT !.rev = current.rev].of = "delete"
    BY DEF AskOf, Ask
  <2> QED BY <1>4, <1>9, <2>1 DEF DeleteShown
<1>10. CASE SaveDraft
  <2>1. [AskOf("save", editor.id, "save") EXCEPT !.rev = editor.expected].of = "save"
    BY DEF AskOf, Ask
  <2>2. /\ SaveCalls = {} /\ saving' = TRUE
        /\ calls' = calls \cup {[AskOf("save", editor.id, "save") EXCEPT !.rev = editor.expected]}
    BY <1>0, <1>10 DEF SaveDraft, Issue
  <2> QED BY <1>3, <2>1, <2>2 DEF SaveCalls
<1>11. CASE \/ CloseSearch \/ NewPage \/ CancelEdit \/ Merge \/ UNCHANGED editorVars
            \/ \E p \in Leaf : OtherWriter(p)
  BY <1>1, <1>11 DEF CloseSearch, NewPage, CancelEdit, Merge, OtherWriter, editorVars, SaveCalls
<1>12. ASSUME NEW c \in calls, Answers(c) PROVE OneSave'
  <2>1. c.of # "save" => SaveCalls \ {c} = SaveCalls
    BY DEF SaveCalls
  <2>2. c.of = "save" => SaveCalls = {c} /\ saving = TRUE
    BY <1>0 DEF SaveCalls
  <2>3. ASSUME calls' = calls \ {c}, saving' = (saving /\ c.of # "save") PROVE OneSave'
    <3>1. SaveCalls' = SaveCalls \ {c}
      BY <2>3 DEF SaveCalls
    <3>2. CASE c.of = "save"
      BY <1>2, <2>2, <2>3, <3>1, <3>2
    <3>3. CASE c.of # "save"
      BY <1>0, <1>1, <2>1, <2>3, <3>1, <3>3
    <3> QED BY <3>2, <3>3
  <2>4. ASSUME NEW d, d.of = c.of, calls' = (calls \ {c}) \cup {d}, saving' = saving PROVE OneSave'
    <3>1. CASE c.of = "save"
      <4>1. SaveCalls' = (SaveCalls \ {c}) \cup {d}
        BY <2>4, <3>1 DEF SaveCalls
      <4> QED BY <1>3, <2>2, <2>4, <3>1, <4>1
    <3>2. CASE c.of # "save"
      <4>1. SaveCalls' = SaveCalls \ {c}
        BY <2>4, <3>2 DEF SaveCalls
      <4> QED BY <1>1, <2>1, <2>4, <3>2, <4>1
    <3> QED BY <3>1, <3>2
  <2>5. ASSUME calls' = (calls \ {c}) \cup ThenRefresh(c), saving' = saving PROVE OneSave'
    <3>1. CASE c.of = "save"
      <4>1. AskOf("refresh", c.page, "save").of = "save"
        BY DEF AskOf, Ask
      <4> QED BY <2>4, <2>5, <3>1, <4>1 DEF ThenRefresh
    <3>2. CASE c.of # "save"
      BY <1>0, <2>3, <2>5, <3>2 DEF ThenRefresh
    <3> QED BY <3>1, <3>2
  <2>6. ASSUME calls' = (calls \ {c}) \cup ThenComments(c), saving' = saving PROVE OneSave'
    <3>1. CASE c.turn = epoch.turn /\ c.rev = 0
      <4>1. AskOf("comments", c.page, c.of).of = c.of
        BY DEF AskOf, Ask
      <4> QED BY <2>4, <2>6, <3>1, <4>1 DEF ThenComments
    <3>2. CASE ~(c.turn = epoch.turn /\ c.rev = 0)
      BY <2>5, <2>6, <3>2 DEF ThenComments
    <3> QED BY <3>1, <3>2
  <2>7. CASE OpenAnswered(c) /\ Newest(c)
    <3>1. CASE c.of = "delete"
      BY <1>0, <2>3, <2>7, <3>1 DEF OpenAnswered
    <3>2. CASE c.of # "delete"
      <4>1. [c EXCEPT !.kind = "navigation"].of = c.of
        BY <1>0 DEF Calls
      <4> QED BY <2>4, <2>7, <3>2, <4>1 DEF OpenAnswered
    <3> QED BY <3>1, <3>2
  <2>8. CASE (OpenAnswered(c) /\ ~Newest(c)) \/ CommentsAnswered(c)
    BY <2>5, <2>8 DEF OpenAnswered, CommentsAnswered
  <2>9. CASE NavigationAnswered(c)
    BY <2>6, <2>9 DEF NavigationAnswered
  <2>10. CASE SearchAnswered(c) \/ EditAnswered(c) \/ RestoreAnswered(c)
    <3>1. calls' = calls \ {c} /\ saving' = saving /\ c.of # "save"
      BY <1>0, <2>10 DEF SearchAnswered, EditAnswered, RestoreAnswered, Take, Placed
    <3> QED BY <1>0, <2>3, <3>1
  <2>11. CASE ConflictAnswered(c) \/ RefreshAnswered(c)
    <3>1. calls' = calls \ {c} /\ saving' = FALSE /\ c.of = "save"
      BY <1>0, <2>11 DEF ConflictAnswered, RefreshAnswered, Take, Placed
    <3> QED BY <2>3, <3>1
  <2>12. CASE Taken(c) \/ Created(c)
    <3>1. PICK page, rev : Applied(c, page, rev)
      BY <2>12 DEF Taken, Created
    <3>2. OpenCall(page, rev, c.of).of = c.of
      BY DEF OpenCall
    <3> QED BY <2>3, <2>4, <3>1, <3>2 DEF Applied, Take
  <2>13. CASE SaveRefused(c)
    <3>1. AskOf("conflict", editor.id, "save").of = "save"
      BY DEF AskOf, Ask
    <3>2. c.kind \in {"save", "delete"} /\ (c.of = "save" <=> c.kind = "save")
      BY <1>0, <2>13 DEF SaveRefused, Placed
    <3> QED BY <2>3, <2>4, <2>13, <3>1, <3>2 DEF SaveRefused, Take
  <2>14. CASE Fails(c)
    BY <2>3, <2>14 DEF Fails, Take
  <2> QED BY <1>12, <2>7, <2>8, <2>9, <2>10, <2>11, <2>12, <2>13, <2>14 DEF Answers
<1> QED BY <1>5, <1>6, <1>7, <1>8, <1>9, <1>10, <1>11, <1>12 DEF EditorNext, Clicks

LEMMA EditorStart == EditorInit => EditorInv /\ TurnAwaited /\ Beside /\ HitsAwaited /\ OneSave
<1> SUFFICES ASSUME EditorInit
             PROVE  EditorInv /\ TurnAwaited /\ Beside /\ HitsAwaited /\ OneSave
  OBVIOUS
<1>1. /\ [open |-> FALSE, id |-> NoLeaf, expected |-> 0, agreed |-> {}] \in Drafts
      /\ revision \in [Leaf -> Nat]
  BY DEF EditorInit, Drafts
<1>2. EditorTypes
  BY <1>1 DEF EditorInit, EditorTypes, NoConflict
<1>3. Turns /\ Searches
  BY DEF EditorInit, Turns, Searches
<1>4. TurnAwaited /\ Beside /\ HitsAwaited /\ OneSave
  BY DEF EditorInit, TurnAwaited, Beside, HitsAwaited, OneSave
<1> QED BY <1>2, <1>3, <1>4 DEF EditorInv

LEMMA EditorInvNext == EditorInv /\ [EditorNext]_editorVars => EditorInv'
BY EditorTypesNext, TurnsNext, SearchesNext DEF EditorInv

\* What the tab shows belongs together, for any pages, clicks and answers that
\* come late or not at all.
THEOREM PageIsCoherent == EditorSpec => []PageCoherent
<1>1. EditorInv /\ TurnAwaited /\ [EditorNext]_editorVars => TurnAwaited'
  BY TurnAwaitedNext DEF EditorInv
<1>2. EditorInv /\ Beside /\ [EditorNext]_editorVars => Beside'
  BY BesideNext DEF EditorInv
<1>3. EditorInv /\ HitsAwaited /\ [EditorNext]_editorVars => HitsAwaited'
  BY HitsAwaitedNext DEF EditorInv
<1>4. TurnAwaited /\ Beside /\ HitsAwaited => PageCoherent
  BY DEF TurnAwaited, Beside, HitsAwaited, PageCoherent
<1> QED BY <1>1, <1>2, <1>3, <1>4, EditorStart, EditorInvNext, PTL DEF EditorSpec

\* The flag that a save is under way is up exactly while one of its requests is,
\* and these are never of two saves, whatever fails, is refused or comes late.
THEOREM SavesAreOne == EditorSpec => []OneSave
<1>1. EditorInv /\ OneSave /\ [EditorNext]_editorVars => OneSave'
  BY OneSaveNext DEF EditorInv
<1> QED BY <1>1, EditorStart, EditorInvNext, PTL DEF EditorSpec

-----------------------------------------------------------------------------
(***************************************************************************)
(* The widgets of a chat page (ChatView). ViewInv adds to what is shown why *)
(* it stays so: at most one post is of a visit to the heading, and it is    *)
(* the heading's draft until it is accepted; all events of the page bear    *)
(* one name, of which the identity is told before or with the next; and the *)
(* composer holds what was last written until a send of that text is        *)
(* accepted.                                                                *)
(***************************************************************************)

Words == Titles \cup Texts \cup Nick \cup {NoText, BadName, NoEditor}
PostKinds == {"title", "text", "react", "unreact"}
Posts == [kind: PostKinds, text: Words, from: Words, visit: Nat,
          pc: {"pending", "failed", "ok"}, at: {"net", "log", "refused"}]
Identities == [name: Words, locked: BOOLEAN, editor: Words, label: Words]
Composers == [text: Words, sending: BOOLEAN]
FeedEvents == [kind: PostKinds, text: Words, from: Words, own: BOOLEAN]

ViewTypes ==
  /\ title \in Words /\ wrote \in Words /\ dirty \in BOOLEAN /\ gone \in BOOLEAN
  /\ head \in [text: Words, focus: BOOLEAN, draft: BOOLEAN, start: Words, visit: Nat]
  /\ me \in Identities
  /\ compose \in Composers
  /\ posts \in Seq(Posts) /\ feed \in Seq(FeedEvents)

\* The post of a visit to the heading, while it is not accepted, is its draft.
TitlePost(h, p) ==
  p.kind = "title" =>
    /\ p.visit <= h.visit /\ (h.focus => p.visit < h.visit)
    /\ p.visit = h.visit /\ p.pc # "ok" => h.draft /\ h.text = p.text
HeadingFits ==
  /\ ~head.focus /\ ~head.draft => head.text = title
  /\ \A i \in DOMAIN posts : TitlePost(head, posts[i])
  /\ \A i, j \in DOMAIN posts :
       posts[i].kind = "title" /\ posts[j].kind = "title" /\ posts[i].visit = posts[j].visit => i = j

\* The page's posts are all under one name, by which it is locked.
OneOwnName ==
  /\ \A m, n \in OwnName : m = n
  /\ \A k \in DOMAIN feed : feed[k].own => feed[k].from \in OwnName
  /\ me.locked => me.editor = NoEditor /\ me.name \in OwnName
NameDrawn == me.label = me.name /\ (~dirty => chips = Drawn(me.name))

WrittenFits ==
  /\ compose.text \in {NoText, wrote}
  /\ TextKept


-----------------------------------------------------------------------------

\* What a commit makes of the identity.
LEMMA CommittedIs ==
  ASSUME me \in Identities, NEW m, m = Committed
  PROVE  /\ m \in Identities /\ m.editor = NoEditor /\ m.locked = me.locked
         /\ me.label = me.name => m.label = m.name
         /\ me.locked \/ ~NewName => m.name = me.name
         /\ ~me.locked /\ NewName => m.name = me.editor
<1>1. me.editor \in Words /\ NoEditor \in Words
  BY DEF Identities, Words
<1>2. CASE me.locked \/ ~NewName
  <2>1. m = [me EXCEPT !.editor = NoEditor]
    BY <1>2 DEF Committed
  <2> QED BY <1>1, <1>2, <2>1 DEF Identities
<1>3. CASE ~me.locked /\ NewName
  <2>1. m = [me EXCEPT !.name = me.editor, !.label = me.editor, !.editor = NoEditor]
    BY <1>3 DEF Committed
  <2> QED BY <1>1, <1>3, <2>1 DEF Identities
<1> QED BY <1>2, <1>3

\* Who speaks, and what it changes of the identity.
LEMMA SpeakerIs ==
  ASSUME me \in Identities, NEW m, m = Speaker
  PROVE  /\ m \in Identities /\ m.locked = me.locked
         /\ me.label = me.name => m.label = m.name
         /\ m = me \/ m.editor = NoEditor
         /\ me.locked => m = me
<1>1. CASE me.locked \/ me.editor = NoEditor
  BY <1>1 DEF Speaker
<1>2. CASE ~(me.locked \/ me.editor = NoEditor)
  <2>1. m = Committed
    BY <1>2 DEF Speaker
  <2> QED BY <1>2, <2>1, CommittedIs
<1> QED BY <1>1, <1>2

\* One more post, which is on its way or has failed.
LEMMA AppendStep ==
  ASSUME ViewTypes, NEW kind \in PostKinds, NEW text \in Words, Append1(kind, text)
  PROVE  /\ \E p \in Posts : /\ posts' = Append(posts, p) /\ p.kind = kind /\ p.text = text
                             /\ p.visit = head.visit /\ p.pc # "ok" /\ p.at # "log"
         /\ me' \in Identities /\ me'.locked = me.locked
         /\ me.label = me.name => me'.label = me'.name
         /\ me' = me \/ me'.editor = NoEditor
         /\ me.locked => me' = me
         /\ \/ chips' = chips /\ me'.name = me.name
            \/ chips' = Drawn(me'.name)
<1>1. PICK m : m = Speaker
  OBVIOUS
<1>2. /\ me \in Identities /\ m \in Identities /\ m.locked = me.locked
      /\ me.label = me.name => m.label = m.name
      /\ m = me \/ m.editor = NoEditor
      /\ me.locked => m = me
  BY <1>1, SpeakerIs DEF ViewTypes
<1>3. PICK pc, at : /\ pc = IF CanPost THEN "pending" ELSE "failed"
                    /\ at = IF CanPost THEN "net" ELSE "refused"
  OBVIOUS
<1>4. PICK p : p = [kind |-> kind, text |-> text, from |-> m.name, visit |-> head.visit, pc |-> pc, at |-> at]
  OBVIOUS
<1>5. posts' = Append(posts, p)
  BY <1>1, <1>3, <1>4 DEF Append1
<1>6. /\ p \in Posts /\ p.kind = kind /\ p.text = text
      /\ p.visit = head.visit /\ p.pc # "ok" /\ p.at # "log"
  <2>1. pc \in {"pending", "failed"} /\ at \in {"net", "refused"}
    BY <1>3
  <2>2. head.visit \in Nat /\ m.name \in Words
    BY <1>2 DEF ViewTypes, Identities
  <2> QED BY <1>4, <2>1, <2>2 DEF Posts
<1>7. CASE CanPost
  <2>1. me' = m /\ chips' = IF m.name # me.name THEN Drawn(m.name) ELSE chips
    BY <1>1, <1>7 DEF Append1
  <2> QED BY <1>2, <1>5, <1>6, <2>1
<1>8. CASE ~CanPost
  <2>1. me' = me /\ chips' = chips
    BY <1>8 DEF Append1
  <2> QED BY <1>2, <1>5, <1>6, <2>1
<1> QED BY <1>7, <1>8

\* What a post keeps, whatever becomes of it.
StillSays(p, q) ==
  /\ q.kind = p.kind /\ q.text = p.text /\ q.visit = p.visit
  /\ p.pc = "ok" => q.pc = "ok"
  /\ p.at = "log" => q.at = "log" /\ q.from = p.from
PostsGrow ==
  posts' \in Seq(Posts) /\ \A i \in DOMAIN posts : i \in DOMAIN posts' /\ StillSays(posts[i], posts'[i])

LEMMA Appended ==
  ASSUME posts \in Seq(Posts), NEW p \in Posts, posts' = Append(posts, p)
  PROVE  /\ PostsGrow /\ DOMAIN posts' = DOMAIN posts \cup {Len(posts) + 1}
         /\ Len(posts) + 1 \notin DOMAIN posts
         /\ posts'[Len(posts) + 1] = p /\ \A i \in DOMAIN posts : posts'[i] = posts[i]
<1>1. /\ posts' \in Seq(Posts) /\ DOMAIN posts' = DOMAIN posts \cup {Len(posts) + 1}
      /\ Len(posts) + 1 \notin DOMAIN posts
      /\ posts'[Len(posts) + 1] = p /\ \A i \in DOMAIN posts : posts'[i] = posts[i]
  OBVIOUS
<1> QED BY <1>1 DEF PostsGrow, StillSays

LEMMA Rewritten ==
  ASSUME posts \in Seq(Posts), NEW i \in DOMAIN posts, NEW r \in Posts, StillSays(posts[i], r),
         posts' = [posts EXCEPT ![i] = r]
  PROVE  /\ PostsGrow /\ DOMAIN posts' = DOMAIN posts
         /\ posts'[i] = r /\ \A j \in DOMAIN posts : j # i => posts'[j] = posts[j]
<1>1. /\ posts' \in Seq(Posts) /\ DOMAIN posts' = DOMAIN posts
      /\ posts'[i] = r /\ \A j \in DOMAIN posts : j # i => posts'[j] = posts[j]
  OBVIOUS
<1>2. \A j \in DOMAIN posts : StillSays(posts[j], posts'[j])
  BY <1>1 DEF StillSays
<1> QED BY <1>1, <1>2 DEF PostsGrow

\* The outcome of a post, as its page or the channel knows it.
LEMMA OutcomeStep ==
  ASSUME ViewTypes, NEW i \in DOMAIN posts, posts[i].pc = "pending", NEW pc \in {"failed", "ok"},
         posts' = [posts EXCEPT ![i].pc = pc]
  PROVE  /\ PostsGrow /\ DOMAIN posts' = DOMAIN posts
         /\ \A j \in DOMAIN posts : /\ posts'[j].at = posts[j].at /\ posts'[j].from = posts[j].from
                                    /\ j # i => posts'[j] = posts[j]
         /\ posts'[i].pc = pc
<1>1. posts \in Seq(Posts) /\ posts[i] \in Posts
  BY DEF ViewTypes
<1>2. PICK r : r = [posts[i] EXCEPT !.pc = pc]
  OBVIOUS
<1>3. /\ r \in Posts /\ r.kind = posts[i].kind /\ r.text = posts[i].text /\ r.visit = posts[i].visit
      /\ r.at = posts[i].at /\ r.from = posts[i].from /\ r.pc = pc
  BY <1>1, <1>2 DEF Posts
<1>4. posts' = [posts EXCEPT ![i] = r]
  BY <1>2
<1>5. StillSays(posts[i], r)
  BY <1>3 DEF StillSays
<1>6. /\ PostsGrow /\ DOMAIN posts' = DOMAIN posts
      /\ posts'[i] = r /\ \A j \in DOMAIN posts : j # i => posts'[j] = posts[j]
  BY <1>1, <1>3, <1>4, <1>5, Rewritten
<1> QED BY <1>3, <1>6

LEMMA AcceptedStep ==
  ASSUME ViewTypes, NEW i \in DOMAIN posts, Accepted(i)
  PROVE  /\ PostsGrow /\ DOMAIN posts' = DOMAIN posts
         /\ posts[i].at = "net" /\ \A j \in DOMAIN posts : j # i => posts'[j] = posts[j]
         /\ posts'[i].pc = posts[i].pc /\ feed' \in Seq(FeedEvents)
         /\ \/ posts'[i].at = "refused" /\ feed' = feed
            \/ /\ posts'[i].at = "log" /\ (OwnName # {} => posts'[i].from \in OwnName)
               /\ \E e \in FeedEvents : feed' = Append(feed, e) /\ e.from = posts'[i].from
<1>1. posts \in Seq(Posts) /\ posts[i] \in Posts /\ feed \in Seq(FeedEvents) /\ posts[i].at = "net"
  BY DEF ViewTypes, Accepted
<1>2. OwnName \subseteq Words
  <2>1. \A j \in DOMAIN posts : posts[j] \in Posts
    BY <1>1
  <2>2. \A j \in DOMAIN posts : posts[j].from \in Words
    BY <2>1 DEF Posts
  <2> QED BY <2>2 DEF OwnName
<1>0. PICK from : from = IF OwnName = {} THEN posts[i].from ELSE CHOOSE n \in OwnName : TRUE
  OBVIOUS
<1>3. CASE posts' = [posts EXCEPT ![i].at = "refused"] /\ feed' = feed
  <2>1. PICK r : r = [posts[i] EXCEPT !.at = "refused"]
    OBVIOUS
  <2>2. /\ r \in Posts /\ r.kind = posts[i].kind /\ r.text = posts[i].text /\ r.visit = posts[i].visit
        /\ r.at = "refused" /\ r.from = posts[i].from /\ r.pc = posts[i].pc
    BY <1>1, <2>1 DEF Posts
  <2>3. posts' = [posts EXCEPT ![i] = r]
    BY <1>3, <2>1
  <2>4. StillSays(posts[i], r)
    BY <1>1, <2>2 DEF StillSays
  <2>5. /\ PostsGrow /\ DOMAIN posts' = DOMAIN posts
        /\ posts'[i] = r /\ \A j \in DOMAIN posts : j # i => posts'[j] = posts[j]
    BY <1>1, <2>2, <2>3, <2>4, Rewritten
  <2> QED BY <1>1, <1>3, <2>2, <2>5
<1>4. CASE /\ posts' = [posts EXCEPT ![i].at = "log", ![i].from = from]
           /\ feed' = Append(feed, [kind |-> posts[i].kind, text |-> posts[i].text,
                                    from |-> from, own |-> TRUE])
  <2>2. from \in Words /\ (OwnName # {} => from \in OwnName)
    BY <1>0, <1>1, <1>2 DEF Posts
  <2>3. PICK r : r = [posts[i] EXCEPT !.at = "log", !.from = from]
    OBVIOUS
  <2>4. /\ r \in Posts /\ r.kind = posts[i].kind /\ r.text = posts[i].text /\ r.visit = posts[i].visit
        /\ r.at = "log" /\ r.from = from /\ r.pc = posts[i].pc
    BY <1>1, <2>2, <2>3 DEF Posts
  <2>5. posts' = [posts EXCEPT ![i] = r]
    BY <1>1, <1>4, <2>3
  <2>6. StillSays(posts[i], r)
    BY <1>1, <2>4 DEF StillSays
  <2>7. /\ PostsGrow /\ DOMAIN posts' = DOMAIN posts
        /\ posts'[i] = r /\ \A j \in DOMAIN posts : j # i => posts'[j] = posts[j]
    BY <1>1, <2>4, <2>5, <2>6, Rewritten
  <2>8. PICK e : e = [kind |-> posts[i].kind, text |-> posts[i].text, from |-> from, own |-> TRUE]
    OBVIOUS
  <2>9. e \in FeedEvents /\ e.from = from
    BY <1>1, <2>2, <2>8 DEF Posts, FeedEvents
  <2>10. feed' = Append(feed, e) /\ feed' \in Seq(FeedEvents)
    BY <1>1, <1>4, <2>8, <2>9
  <2> QED BY <1>1, <2>2, <2>4, <2>7, <2>9, <2>10
<1> QED BY <1>0, <1>3, <1>4 DEF Accepted

-----------------------------------------------------------------------------
(* The names *)

\* Posts that leave the log as it is leave its names.
LEMMA OwnNameStays ==
  ASSUME PostsGrow, \A i \in DOMAIN posts' : posts'[i].at = "log" => i \in DOMAIN posts /\ posts[i].at = "log"
  PROVE  OwnName' = OwnName
BY DEF OwnName, PostsGrow, StillSays

LEMMA LockKeeps ==
  ASSUME me \in Identities, OneOwnName, NameDrawn, NEW from, from \in OwnName, from \in Words, Lock(from),
         reacted' = reacted \/ dirty', dirty => dirty', OwnName' = OwnName,
         \A k \in DOMAIN feed' : feed'[k].own => feed'[k].from \in OwnName
  PROVE  me' \in Identities /\ OneOwnName' /\ NameDrawn'
<1>1. CASE me.locked
  <2>1. me' = me /\ chips' = chips
    BY <1>1 DEF Lock
  <2> QED BY <2>1 DEF OneOwnName, NameDrawn, Drawn
<1>2. CASE ~me.locked
  <2>1. me' = [name |-> from, locked |-> TRUE, editor |-> NoEditor, label |-> from] /\ chips' = Drawn(from)
    BY <1>2 DEF Lock
  <2>2. me' \in Identities
    BY <2>1 DEF Identities, Words
  <2>3. NameDrawn'
    BY <2>1 DEF NameDrawn, Drawn
  <2>4. OneOwnName'
    BY <2>1 DEF OneOwnName
  <2> QED BY <2>2, <2>3, <2>4
<1> QED BY <1>1, <1>2

Names == me \in Identities /\ OneOwnName /\ NameDrawn

\* A post begins under the name that is shown from then on.
LEMMA AppendNames ==
  ASSUME ViewTypes, Names, NEW kind \in PostKinds, NEW text \in Words, Append1(kind, text),
         UNCHANGED <<feed, reacted, dirty>>
  PROVE  Names'
<1>1. PICK p \in Posts : posts' = Append(posts, p) /\ p.at # "log"
  BY AppendStep
<1>2. /\ PostsGrow /\ DOMAIN posts' = DOMAIN posts \cup {Len(posts) + 1}
      /\ posts'[Len(posts) + 1] = p /\ \A i \in DOMAIN posts : posts'[i] = posts[i]
  BY <1>1, Appended DEF ViewTypes
<1>3. OwnName' = OwnName
  BY <1>1, <1>2, OwnNameStays
<1>4. /\ me' \in Identities /\ me'.locked = me.locked
      /\ me.label = me.name => me'.label = me'.name
      /\ me' = me \/ me'.editor = NoEditor
      /\ me.locked => me' = me
      /\ \/ chips' = chips /\ me'.name = me.name
         \/ chips' = Drawn(me'.name)
  BY AppendStep
<1>5. OneOwnName'
  BY <1>3, <1>4 DEF Names, OneOwnName
<1>6. NameDrawn'
  BY <1>4 DEF Names, NameDrawn, Drawn
<1> QED BY <1>4, <1>5, <1>6 DEF Names

LEMMA EditorNames ==
  ASSUME ViewTypes, Names, EditName \/ TypeName \/ CommitName
  PROVE  Names'
<1>1. /\ me \in Identities /\ (me.locked => me.editor = NoEditor) /\ me.label = me.name
      /\ ~dirty => chips = Drawn(me.name)
  BY DEF Names, OneOwnName, NameDrawn
<1>2. UNCHANGED <<posts, feed, reacted, dirty>>
  BY DEF EditName, TypeName, CommitName, widgets
<1>3. OwnName' = OwnName
  BY <1>2 DEF OwnName
<1>4. CASE EditName \/ TypeName
  <2>1. ~me.locked /\ chips' = chips
    BY <1>1, <1>4 DEF EditName, TypeName
  <2>2. PICK t \in Words : me' = [me EXCEPT !.editor = t]
    <3>1. me.name \in Words /\ Nick \cup {NoText, BadName} \subseteq Words
      BY <1>1 DEF Identities, Words
    <3> QED BY <1>4, <3>1 DEF EditName, TypeName
  <2>3. me' \in Identities /\ me'.name = me.name /\ me'.label = me.label /\ me'.locked = me.locked
    BY <1>1, <2>2 DEF Identities
  <2>4. OneOwnName'
    BY <1>2, <1>3, <2>1, <2>3 DEF Names, OneOwnName
  <2>5. NameDrawn'
    BY <1>1, <1>2, <2>1, <2>3 DEF NameDrawn, Drawn
  <2> QED BY <2>3, <2>4, <2>5 DEF Names
<1>5. CASE CommitName
  <2>1. ~me.locked
    BY <1>1, <1>5 DEF CommitName
  <2>2. PICK m : m = Committed
    OBVIOUS
  <2>3. /\ m \in Identities /\ m.editor = NoEditor /\ m.locked = me.locked /\ m.label = m.name
        /\ ~NewName => m.name = me.name
        /\ NewName => m.name = me.editor
    BY <1>1, <2>1, <2>2, CommittedIs
  <2>4. me' = m /\ chips' = IF NewName THEN Drawn(me.editor) ELSE chips
    BY <1>5, <2>1, <2>2 DEF CommitName
  <2>5. OneOwnName'
    BY <1>2, <1>3, <2>1, <2>3, <2>4 DEF Names, OneOwnName
  <2>6. NameDrawn'
    <3>1. CASE NewName
      BY <1>2, <2>3, <2>4, <3>1 DEF NameDrawn, Drawn
    <3>2. CASE ~NewName
      BY <1>1, <1>2, <2>3, <2>4, <3>2 DEF NameDrawn, Drawn
    <3> QED BY <3>1, <3>2
  <2> QED BY <2>3, <2>4, <2>5, <2>6 DEF Names
<1> QED BY <1>4, <1>5

LEMMA OutcomeNames ==
  ASSUME ViewTypes, Names, NEW i \in DOMAIN posts, Accepted(i) \/ Succeeded(i) \/ PostFails(i)
  PROVE  Names'
<1>1. OneOwnName /\ NameDrawn /\ me \in Identities /\ posts \in Seq(Posts) /\ feed \in Seq(FeedEvents)
  BY DEF Names, ViewTypes
<1>2. CASE Accepted(i)
  <2>1. UNCHANGED <<me, chips, reacted, dirty>>
    BY <1>2 DEF Accepted
  <2>2. NameDrawn' /\ me' \in Identities
    BY <1>1, <2>1 DEF NameDrawn, Drawn
  <2>3. /\ PostsGrow /\ DOMAIN posts' = DOMAIN posts
        /\ posts[i].at = "net" /\ \A j \in DOMAIN posts : j # i => posts'[j] = posts[j]
    BY <1>2, AcceptedStep
  <2>4. CASE posts'[i].at = "refused" /\ feed' = feed
    <3>1. OwnName' = OwnName
      BY <2>3, <2>4, OwnNameStays
    <3>2. OneOwnName'
      BY <1>1, <2>1, <2>4, <3>1 DEF OneOwnName
    <3> QED BY <2>2, <3>2 DEF Names
  <2>5. ASSUME NEW e \in FeedEvents, feed' = Append(feed, e), e.from = posts'[i].from,
               posts'[i].at = "log", OwnName # {} => posts'[i].from \in OwnName
        PROVE  Names'
    <3>1. OwnName' = OwnName \cup {posts'[i].from}
      <4>1. \A j \in DOMAIN posts : posts'[j].at = "log" <=> j = i \/ posts[j].at = "log"
        BY <2>3, <2>5
      <4>2. \A j \in DOMAIN posts : j # i => posts'[j].from = posts[j].from
        BY <2>3
      <4>3. ASSUME NEW n PROVE n \in OwnName' <=> n \in OwnName \/ n = posts'[i].from
        <5>1. n \in OwnName' <=> \E j \in DOMAIN posts : posts'[j].at = "log" /\ posts'[j].from = n
          BY <2>3 DEF OwnName
        <5>2. n \in OwnName <=> \E j \in DOMAIN posts : posts[j].at = "log" /\ posts[j].from = n
          BY DEF OwnName
        <5>3. ~(posts[i].at = "log")
          BY <2>3
        <5> QED BY <4>1, <4>2, <5>1, <5>2, <5>3
      <4> QED BY <4>3
    <3>2. \A k \in DOMAIN feed' : feed'[k] = e \/ (k \in DOMAIN feed /\ feed'[k] = feed[k])
      BY <1>1, <2>5
    <3>3. \A k \in DOMAIN feed' : feed'[k].own => feed'[k].from \in OwnName'
      BY <1>1, <2>5, <3>1, <3>2 DEF OneOwnName
    <3>4. \A m, n \in OwnName' : m = n
      BY <1>1, <2>5, <3>1 DEF OneOwnName
    <3>5. OneOwnName'
      BY <1>1, <2>1, <3>1, <3>3, <3>4 DEF OneOwnName
    <3> QED BY <2>2, <3>5 DEF Names
  <2> QED BY <1>2, <2>4, <2>5, AcceptedStep
<1>3. CASE Succeeded(i) \/ PostFails(i)
  <2>1. PICK pc \in {"failed", "ok"} : posts' = [posts EXCEPT ![i].pc = pc] /\ posts[i].pc = "pending"
    BY <1>3 DEF Succeeded, PostFails
  <2>2. /\ PostsGrow /\ DOMAIN posts' = DOMAIN posts
        /\ \A j \in DOMAIN posts : posts'[j].at = posts[j].at
    BY <2>1, OutcomeStep
  <2>3. OwnName' = OwnName
    BY <2>2, OwnNameStays
  <2>4. UNCHANGED <<feed, reacted, dirty>>
    BY <1>3 DEF Succeeded, PostFails, widgets
  <2>5. CASE Succeeded(i)
    <3>1. posts[i].from \in OwnName /\ posts[i].from \in Words
      <4>1. posts[i].at = "log" /\ posts[i] \in Posts
        BY <1>1, <2>5 DEF Succeeded
      <4> QED BY <4>1 DEF OwnName, Posts
    <3>2. Lock(posts[i].from)
      BY <2>5 DEF Succeeded
    <3>3. \A k \in DOMAIN feed' : feed'[k].own => feed'[k].from \in OwnName
      BY <1>1, <2>4 DEF OneOwnName
    <3> QED BY <1>1, <2>3, <2>4, <3>1, <3>2, <3>3, LockKeeps DEF Names
  <2>6. CASE PostFails(i)
    <3>1. UNCHANGED <<me, chips>>
      BY <2>6 DEF PostFails
    <3>2. OneOwnName'
      BY <1>1, <2>3, <2>4, <3>1 DEF OneOwnName
    <3>3. NameDrawn'
      BY <1>1, <2>4, <3>1 DEF NameDrawn, Drawn
    <3> QED BY <1>1, <3>1, <3>2, <3>3 DEF Names
  <2> QED BY <1>3, <2>5, <2>6
<1> QED BY <1>2, <1>3

LEMMA DeliveryNames ==
  ASSUME ViewTypes, Names, PeerSays \/ Apply \/ Finish
  PROVE  Names'
<1>1. OneOwnName /\ NameDrawn /\ me \in Identities /\ feed \in Seq(FeedEvents) /\ posts' = posts
  BY DEF Names, ViewTypes, PeerSays, Apply, Finish
<1>2. OwnName' = OwnName
  BY <1>1 DEF OwnName
<1>3. CASE PeerSays
  <2>1. UNCHANGED <<me, chips, reacted, dirty>>
    BY <1>3 DEF PeerSays
  <2>2. PICK e : feed' = Append(feed, e) /\ e.own = FALSE
    BY <1>3 DEF PeerSays
  <2>3. \A k \in DOMAIN feed' : feed'[k] = e \/ (k \in DOMAIN feed /\ feed'[k] = feed[k])
    BY <1>1, <2>2
  <2>4. OneOwnName'
    BY <1>1, <1>2, <2>1, <2>2, <2>3 DEF OneOwnName
  <2>5. NameDrawn'
    BY <1>1, <2>1 DEF NameDrawn, Drawn
  <2> QED BY <1>1, <2>1, <2>4, <2>5 DEF Names
<1>4. CASE Apply
  <2>1. PICK e : e = Head(feed)
    OBVIOUS
  <2>2. /\ feed # <<>> /\ feed' = Tail(feed) /\ dirty' = (dirty \/ e.kind \in {"react", "unreact"})
        /\ reacted' = CASE e.kind = "react" -> reacted \cup {e.from}
                        [] e.kind = "unreact" -> reacted \ {e.from}
                        [] OTHER -> reacted
        /\ IF e.own THEN Lock(e.from) ELSE UNCHANGED <<me, chips>>
    BY <1>4, <2>1 DEF Apply
  <2>3. 1 \in DOMAIN feed /\ e = feed[1] /\ e \in FeedEvents
    BY <1>1, <2>1, <2>2
  <2>4. \A k \in DOMAIN feed' : k + 1 \in DOMAIN feed /\ feed'[k] = feed[k + 1]
    BY <1>1, <2>2
  <2>5. \A k \in DOMAIN feed' : feed'[k].own => feed'[k].from \in OwnName
    BY <1>1, <2>4 DEF OneOwnName
  <2>6. (reacted' = reacted \/ dirty') /\ (dirty => dirty')
    BY <2>2
  <2>7. CASE e.own
    <3>1. e.from \in OwnName /\ e.from \in Words
      BY <1>1, <2>3, <2>7 DEF OneOwnName, FeedEvents
    <3>2. Lock(e.from)
      BY <2>2, <2>7
    <3> QED BY <1>1, <1>2, <2>5, <2>6, <3>1, <3>2, LockKeeps DEF Names
  <2>8. CASE ~e.own
    <3>1. UNCHANGED <<me, chips>>
      BY <2>2, <2>8
    <3>2. OneOwnName'
      BY <1>1, <1>2, <2>5, <3>1 DEF OneOwnName
    <3>3. NameDrawn'
      BY <1>1, <2>6, <3>1 DEF NameDrawn, Drawn
    <3> QED BY <1>1, <3>1, <3>2, <3>3 DEF Names
  <2> QED BY <2>7, <2>8
<1>5. CASE Finish
  <2>1. UNCHANGED <<me, reacted, feed>> /\ chips' = Drawn(me.name)
    BY <1>5 DEF Finish
  <2>2. OneOwnName'
    BY <1>1, <1>2, <2>1 DEF OneOwnName
  <2>3. NameDrawn'
    BY <1>1, <2>1 DEF NameDrawn, Drawn
  <2> QED BY <1>1, <2>1, <2>2, <2>3 DEF Names
<1> QED BY <1>3, <1>4, <1>5

\* Whatever leaves the identity, its posts, the feed and the reactions alone.
LEMMA NamesStay ==
  ASSUME Names, UNCHANGED <<me, chips, posts, feed, reacted, dirty>>
  PROVE  Names'
BY DEF Names, OneOwnName, NameDrawn, Drawn, OwnName

-----------------------------------------------------------------------------
(* The heading *)

Headings == [text: Words, focus: BOOLEAN, draft: BOOLEAN, start: Words, visit: Nat]
Heading == ~gone => HeadingFits

\* Posts of a title are as they were, or better known.
LEMMA HeadingStays ==
  ASSUME ViewTypes, HeadingFits, PostsGrow, UNCHANGED <<head, title>>,
         \A i \in DOMAIN posts' : posts'[i].kind = "title" => i \in DOMAIN posts
  PROVE  HeadingFits'
<1>1. ASSUME NEW i \in DOMAIN posts' PROVE TitlePost(head', posts'[i])
  <2>1. CASE i \in DOMAIN posts
    BY <2>1 DEF HeadingFits, TitlePost, PostsGrow, StillSays
  <2>2. CASE i \notin DOMAIN posts
    BY <2>2 DEF TitlePost
  <2> QED BY <2>1, <2>2
<1>2. \A i, j \in DOMAIN posts' :
        posts'[i].kind = "title" /\ posts'[j].kind = "title" /\ posts'[i].visit = posts'[j].visit => i = j
  BY DEF HeadingFits, PostsGrow, StillSays
<1>3. ~head.focus /\ ~head.draft => head.text = title
  BY DEF HeadingFits
<1> QED BY <1>1, <1>2, <1>3 DEF HeadingFits

\* The heading changes and its posts do not.
LEMMA HeadingMoves ==
  ASSUME HeadingFits, posts' = posts, ~head'.focus /\ ~head'.draft => head'.text = title',
         \A i \in DOMAIN posts : TitlePost(head', posts[i])
  PROVE  HeadingFits'
BY DEF HeadingFits

LEMMA FocusHeading ==
  ASSUME ViewTypes, Heading,
         \/ Focus \/ TypeTitle \/ Escape
         \/ head.focus /\ head' = [head EXCEPT !.focus = FALSE, !.draft = FALSE, !.text = title]
            /\ UNCHANGED <<title, posts, gone>>
  PROVE  Heading' /\ head' \in Headings
<1>1. head \in Headings /\ title \in Words /\ posts \in Seq(Posts) /\ Titles \cup {NoText} \subseteq Words
  BY DEF ViewTypes, Headings, Words
<1>2. UNCHANGED <<title, posts, gone>>
  BY DEF Focus, TypeTitle, Escape
<1>3. \A i \in DOMAIN posts : posts[i].visit \in Nat /\ posts'[i] = posts[i]
  <2>1. \A i \in DOMAIN posts : posts[i] \in Posts
    BY <1>1
  <2> QED BY <1>2, <2>1 DEF Posts
<1>4. CASE Focus
  <2>0. PICK n, t : n = head.visit + 1 /\ t = head.text
    OBVIOUS
  <2>5. n \in Nat /\ t \in Words
    BY <1>1, <2>0 DEF Headings
  <2>1. head' = [head EXCEPT !.focus = TRUE, !.visit = n, !.start = t]
    BY <1>4, <2>0 DEF Focus
  <2>2. head' \in Headings /\ head'.focus = TRUE /\ head'.visit = head.visit + 1
    BY <1>1, <2>0, <2>5, <2>1 DEF Headings
  <2>3. ASSUME HeadingFits PROVE \A i \in DOMAIN posts : TitlePost(head', posts[i])
    <3>1. ASSUME NEW i \in DOMAIN posts, posts[i].kind = "title"
          PROVE  posts[i].visit <= head'.visit /\ posts[i].visit < head'.visit /\ posts[i].visit # head'.visit
      <4>1. posts[i].visit <= head.visit /\ posts[i].visit \in Nat /\ head.visit \in Nat
        BY <1>1, <1>3, <2>3, <3>1 DEF HeadingFits, TitlePost, Headings
      <4> QED BY <2>2, <4>1
    <3> QED BY <1>2, <3>1 DEF TitlePost
  <2> QED BY <1>2, <2>2, <2>3, HeadingMoves DEF Heading
<1>5. CASE TypeTitle
  <2>1. PICK t \in Words : head' = [head EXCEPT !.text = t]
    BY <1>1, <1>5 DEF TypeTitle
  <2>2. head' \in Headings /\ head'.focus = head.focus /\ head'.visit = head.visit /\ head.focus
    BY <1>1, <1>5, <2>1 DEF Headings, TypeTitle
  <2>3. ASSUME HeadingFits PROVE \A i \in DOMAIN posts : TitlePost(head', posts[i])
    <3>1. ASSUME NEW i \in DOMAIN posts, posts[i].kind = "title"
          PROVE  posts[i].visit <= head'.visit /\ posts[i].visit < head'.visit /\ posts[i].visit # head'.visit
      <4>1. /\ posts[i].visit <= head.visit /\ posts[i].visit < head.visit
            /\ posts[i].visit \in Nat /\ head.visit \in Nat
        BY <1>1, <1>3, <2>2, <2>3, <3>1 DEF HeadingFits, TitlePost, Headings
      <4> QED BY <2>2, <4>1
    <3> QED BY <1>2, <3>1 DEF TitlePost
  <2> QED BY <1>2, <2>2, <2>3, HeadingMoves DEF Heading
<1>6. ASSUME NEW h \in Headings, head' = h, h.focus = FALSE, h.draft = FALSE, h.text = title,
             h.visit = head.visit, head.focus
      PROVE  Heading' /\ head' \in Headings
  <2>1. ASSUME HeadingFits PROVE \A i \in DOMAIN posts : TitlePost(head', posts[i])
    <3>1. ASSUME NEW i \in DOMAIN posts, posts[i].kind = "title"
          PROVE  posts[i].visit <= head'.visit /\ posts[i].visit # head'.visit
      <4>1. /\ posts[i].visit <= head.visit /\ posts[i].visit < head.visit
            /\ posts[i].visit \in Nat /\ head.visit \in Nat
        BY <1>1, <1>3, <1>6, <2>1, <3>1 DEF HeadingFits, TitlePost, Headings
      <4> QED BY <1>6, <4>1
    <3> QED BY <1>2, <1>6, <3>1 DEF TitlePost
  <2> QED BY <1>2, <1>6, <2>1, HeadingMoves DEF Heading
<1>7. CASE Escape
  <2>1. PICK h : h = [head EXCEPT !.focus = FALSE, !.draft = FALSE, !.start = title, !.text = title]
    OBVIOUS
  <2>2. h \in Headings /\ h.focus = FALSE /\ h.draft = FALSE /\ h.text = title /\ h.visit = head.visit
    BY <1>1, <2>1 DEF Headings
  <2> QED BY <1>6, <1>7, <2>1, <2>2 DEF Escape
<1>8. CASE head.focus /\ head' = [head EXCEPT !.focus = FALSE, !.draft = FALSE, !.text = title]
  <2>1. PICK h : h = [head EXCEPT !.focus = FALSE, !.draft = FALSE, !.text = title]
    OBVIOUS
  <2>2. h \in Headings /\ h.focus = FALSE /\ h.draft = FALSE /\ h.text = title /\ h.visit = head.visit
    BY <1>1, <2>1 DEF Headings
  <2> QED BY <1>6, <1>8, <2>1, <2>2
<1> QED BY <1>4, <1>5, <1>7, <1>8

\* The one post of a visit is made of what the heading shows then.
LEMMA DraftHeading ==
  ASSUME ViewTypes, Heading, head.focus, head' = [head EXCEPT !.focus = FALSE, !.draft = TRUE],
         Append1("title", head.text), UNCHANGED <<title, gone>>
  PROVE  Heading' /\ head' \in Headings
<1>1. head \in Headings /\ posts \in Seq(Posts) /\ head.text \in Words
  BY DEF ViewTypes, Headings
<1>2. PICK p \in Posts : /\ posts' = Append(posts, p) /\ p.kind = "title" /\ p.text = head.text
                         /\ p.visit = head.visit
  BY <1>1, AppendStep DEF PostKinds
<1>3. /\ DOMAIN posts' = DOMAIN posts \cup {Len(posts) + 1} /\ Len(posts) + 1 \notin DOMAIN posts
      /\ posts'[Len(posts) + 1] = p /\ \A i \in DOMAIN posts : posts'[i] = posts[i]
  BY <1>1, <1>2, Appended
<1>4. /\ head' \in Headings /\ head'.focus = FALSE /\ head'.draft = TRUE /\ head'.text = head.text
      /\ head'.visit = head.visit /\ head.visit \in Nat
  BY <1>1 DEF Headings
<1>5. ASSUME HeadingFits PROVE HeadingFits'
  <2>1. ASSUME NEW i \in DOMAIN posts, posts[i].kind = "title"
        PROVE  posts[i].visit <= head.visit /\ posts[i].visit # head.visit
    <3>1. posts[i] \in Posts
      BY <1>1
    <3>2. posts[i].visit \in Nat /\ posts[i].visit < head.visit
      BY <1>5, <2>1, <3>1 DEF HeadingFits, TitlePost, Posts
    <3> QED BY <1>4, <3>2
  <2>2. ASSUME NEW i \in DOMAIN posts' PROVE TitlePost(head', posts'[i])
    <3>1. CASE i \in DOMAIN posts
      BY <1>3, <1>4, <2>1, <3>1 DEF TitlePost
    <3>2. CASE i = Len(posts) + 1
      <4>1. posts'[i] = p /\ head.visit <= head.visit
        BY <1>3, <1>4, <3>2
      <4> QED BY <1>2, <1>4, <4>1 DEF TitlePost
    <3> QED BY <1>3, <3>1, <3>2
  <2>3. \A i, j \in DOMAIN posts' :
          posts'[i].kind = "title" /\ posts'[j].kind = "title" /\ posts'[i].visit = posts'[j].visit => i = j
    BY <1>2, <1>3, <1>5, <2>1 DEF HeadingFits
  <2> QED BY <1>4, <2>2, <2>3 DEF HeadingFits
<1> QED BY <1>4, <1>5 DEF Heading

LEMMA SavedHeading ==
  ASSUME ViewTypes, Heading, NEW i \in DOMAIN posts, Succeeded(i)
  PROVE  Heading' /\ head' \in Headings
<1>1. head \in Headings /\ title \in Words /\ posts \in Seq(Posts) /\ UNCHANGED <<title, gone>>
  BY DEF ViewTypes, Headings, Succeeded
<1>2. /\ PostsGrow /\ DOMAIN posts' = DOMAIN posts /\ posts'[i].pc = "ok"
      /\ \A j \in DOMAIN posts : j # i => posts'[j] = posts[j]
  BY OutcomeStep DEF Succeeded
<1>3. CASE head' = head
  <2>1. HeadingFits => HeadingFits'
    BY <1>1, <1>2, <1>3, HeadingStays
  <2> QED BY <1>1, <1>3, <2>1 DEF Heading
<1>4. CASE posts[i].kind = "title" /\ posts[i].visit = head.visit /\ head' # head
  <2>1. PICK t : t = IF head.focus THEN head.text ELSE title
    OBVIOUS
  <2>2. head' = [head EXCEPT !.draft = FALSE, !.text = t]
    BY <1>4, <2>1 DEF Succeeded, TitleSaved
  <2>3. t \in Words
    BY <1>1, <2>1 DEF Headings
  <2>4. /\ head' \in Headings /\ head'.draft = FALSE /\ head'.text = t
        /\ head'.focus = head.focus /\ head'.visit = head.visit
    BY <1>1, <2>2, <2>3 DEF Headings
  <2>5. ASSUME HeadingFits PROVE HeadingFits'
    <3>1. ASSUME NEW j \in DOMAIN posts' PROVE TitlePost(head', posts'[j])
      <4>1. CASE j = i
        BY <1>2, <2>4, <2>5, <4>1 DEF HeadingFits, TitlePost, PostsGrow, StillSays
      <4>2. CASE j # i
        <5>1. posts'[j] = posts[j] /\ j \in DOMAIN posts /\ TitlePost(head, posts[j])
          BY <1>2, <2>5, <4>2 DEF HeadingFits
        <5>2. posts[j].kind = "title" => posts[j].visit # head.visit
          BY <1>4, <2>5, <4>2, <5>1 DEF HeadingFits
        <5> QED BY <2>4, <5>1, <5>2 DEF TitlePost
      <4> QED BY <4>1, <4>2
    <3>2. \A j, k \in DOMAIN posts' :
            posts'[j].kind = "title" /\ posts'[k].kind = "title" /\ posts'[j].visit = posts'[k].visit => j = k
      BY <1>2, <2>5 DEF HeadingFits, PostsGrow, StillSays
    <3>3. ~head'.focus /\ ~head'.draft => head'.text = title'
      BY <1>1, <2>1, <2>4
    <3> QED BY <3>1, <3>2, <3>3 DEF HeadingFits
  <2> QED BY <1>1, <2>4, <2>5 DEF Heading
<1> QED BY <1>3, <1>4 DEF Succeeded, TitleSaved

LEMMA TitleHeading ==
  ASSUME ViewTypes, Heading, NEW t \in Words, SetTitle(t), UNCHANGED <<posts, gone>>
  PROVE  Heading' /\ head' \in Headings
<1>1. head \in Headings /\ title' = t
  BY DEF ViewTypes, Headings, SetTitle
<1>2. CASE head.focus \/ head.draft
  <2>1. head' = head
    BY <1>2 DEF SetTitle
  <2> QED BY <1>1, <1>2, <2>1 DEF Heading, HeadingFits, TitlePost
<1>3. CASE ~head.focus /\ ~head.draft
  <2>1. head' = [head EXCEPT !.text = t]
    BY <1>3 DEF SetTitle
  <2>2. /\ head' \in Headings /\ head'.draft = head.draft /\ head'.text = t
        /\ head'.focus = head.focus /\ head'.visit = head.visit
    BY <1>1, <2>1 DEF Headings
  <2> QED BY <1>1, <1>3, <2>2 DEF Heading, HeadingFits, TitlePost
<1> QED BY <1>2, <1>3

-----------------------------------------------------------------------------
(* The composer *)

\* Posts are not taken back, so neither is what was accepted of them.
LEMMA WrittenStays ==
  ASSUME WrittenFits, PostsGrow, compose'.text = compose.text, wrote' = wrote
  PROVE  WrittenFits'
<1>1. SUFFICES ASSUME compose.text = NoText, wrote # NoText PROVE TextKept'
  BY DEF WrittenFits, TextKept
<1>2. PICK i \in DOMAIN posts : posts[i].kind = "text" /\ posts[i].text = wrote /\ posts[i].pc = "ok"
  BY <1>1 DEF WrittenFits, TextKept
<1>3. /\ i \in DOMAIN posts' /\ posts'[i].kind = "text" /\ posts'[i].text = wrote'
      /\ posts'[i].pc = "ok"
  BY <1>2 DEF PostsGrow, StillSays
<1> QED BY <1>3 DEF TextKept

\* The composer is emptied of what its send was accepted for, and of nothing else.
LEMMA SentComposer ==
  ASSUME ViewTypes, WrittenFits, NEW i \in DOMAIN posts, Succeeded(i)
  PROVE  WrittenFits' /\ compose' \in Composers
<1>1. /\ PostsGrow /\ DOMAIN posts' = DOMAIN posts /\ posts'[i].pc = "ok"
      /\ compose \in Composers /\ wrote' = wrote
  BY OutcomeStep DEF Succeeded, ViewTypes
<1>2. CASE posts[i].kind # "text"
  <2>1. compose' = compose
    BY <1>2 DEF Succeeded
  <2> QED BY <1>1, <2>1, WrittenStays
<1>3. CASE posts[i].kind = "text"
  <2>1. compose' = [text |-> IF compose.text = posts[i].text THEN NoText ELSE compose.text, sending |-> FALSE]
    BY <1>3 DEF Succeeded, Sent
  <2>2. CASE compose.text # posts[i].text \/ compose.text = NoText
    <3>1. compose' = [text |-> compose.text, sending |-> FALSE]
      BY <2>1, <2>2
    <3>2. compose' \in Composers /\ compose'.text = compose.text
      BY <1>1, <3>1 DEF Composers
    <3> QED BY <1>1, <3>2, WrittenStays
  <2>3. CASE compose.text = posts[i].text /\ compose.text # NoText
    <3>1. compose' = [text |-> NoText, sending |-> FALSE]
      BY <2>1, <2>3
    <3>2. compose' \in Composers /\ compose'.text = NoText
      BY <3>1 DEF Composers, Words
    <3>3. compose.text = wrote
      BY <2>3 DEF WrittenFits
    <3>4. /\ i \in DOMAIN posts' /\ posts'[i].kind = "text" /\ posts'[i].text = wrote'
          /\ posts'[i].pc = "ok"
      BY <1>1, <1>3, <2>3, <3>3 DEF PostsGrow, StillSays
    <3> QED BY <3>2, <3>4 DEF WrittenFits, TextKept
  <2> QED BY <2>2, <2>3
<1> QED BY <1>2, <1>3

-----------------------------------------------------------------------------
(* Every step *)

ViewInv == ViewTypes /\ Heading /\ Names /\ WrittenFits

\* A post that is not of the title begins.
LEMMA PostBegins ==
  ASSUME ViewInv, NEW kind \in PostKinds, kind # "title", NEW text \in Words, Append1(kind, text),
         UNCHANGED <<title, head, reacted, feed, dirty, gone, wrote>>,
         compose' \in Composers, compose'.text = compose.text
  PROVE  ViewInv'
<1>1. ViewTypes /\ Heading /\ Names /\ WrittenFits
  BY DEF ViewInv
<1>2. PICK p \in Posts : posts' = Append(posts, p) /\ p.kind = kind
  BY <1>1, AppendStep
<1>3. /\ PostsGrow /\ DOMAIN posts' = DOMAIN posts \cup {Len(posts) + 1}
      /\ posts'[Len(posts) + 1] = p
  BY <1>1, <1>2, Appended DEF ViewTypes
<1>4. Names'
  BY <1>1, AppendNames
<1>5. HeadingFits => HeadingFits'
  <2>1. \A i \in DOMAIN posts' : posts'[i].kind = "title" => i \in DOMAIN posts
    BY <1>2, <1>3
  <2> QED BY <1>1, <1>3, <2>1, HeadingStays
<1>6. WrittenFits'
  BY <1>1, <1>3, WrittenStays
<1>7. ViewTypes'
  BY <1>1, <1>3, <1>4 DEF ViewTypes, PostsGrow, Names
<1> QED BY <1>1, <1>4, <1>5, <1>6, <1>7 DEF ViewInv, Heading

\* Only the identity or its editor changes.
LEMMA EditorWhole ==
  ASSUME ViewInv, EditName \/ TypeName \/ CommitName
  PROVE  ViewInv'
<1>1. ViewTypes /\ Heading /\ Names /\ WrittenFits
  BY DEF ViewInv
<1>2. UNCHANGED <<title, head, feed, dirty, gone, wrote, compose, posts>>
  BY DEF EditName, TypeName, CommitName, widgets
<1>3. Names'
  BY <1>1, EditorNames
<1>4. ViewTypes'
  BY <1>1, <1>2, <1>3 DEF ViewTypes, Names
<1>5. Heading' /\ WrittenFits'
  BY <1>1, <1>2 DEF Heading, HeadingFits, WrittenFits, TextKept
<1> QED BY <1>3, <1>4, <1>5 DEF ViewInv

LEMMA HeadingWhole ==
  ASSUME ViewInv, Focus \/ TypeTitle \/ Escape \/ Blur
  PROVE  ViewInv'
<1>1. ViewTypes /\ Heading /\ Names /\ WrittenFits
  BY DEF ViewInv
<1>2. UNCHANGED <<title, reacted, compose, feed, dirty, gone, wrote>>
  BY DEF Focus, TypeTitle, Escape, Blur
<1>3. ASSUME Heading', head' \in Headings, UNCHANGED <<me, chips, posts>> PROVE ViewInv'
  <2>1. Names'
    BY <1>1, <1>2, <1>3, NamesStay
  <2>2. WrittenFits'
    BY <1>1, <1>2, <1>3 DEF WrittenFits, TextKept
  <2>3. ViewTypes'
    BY <1>1, <1>2, <1>3 DEF ViewTypes, Headings
  <2> QED BY <1>3, <2>1, <2>2, <2>3 DEF ViewInv
<1>4. CASE Focus \/ TypeTitle \/ Escape
  <2>1. Heading' /\ head' \in Headings
    BY <1>1, <1>4, FocusHeading
  <2>2. UNCHANGED <<me, chips, posts>>
    BY <1>4 DEF Focus, TypeTitle, Escape
  <2> QED BY <1>3, <2>1, <2>2
<1>5. CASE /\ head.focus /\ head' = [head EXCEPT !.focus = FALSE, !.draft = FALSE, !.text = title]
           /\ UNCHANGED <<me, chips, posts>>
  <2>1. Heading' /\ head' \in Headings
    BY <1>1, <1>2, <1>5, FocusHeading
  <2> QED BY <1>3, <1>5, <2>1
<1>6. CASE /\ head.focus /\ head' = [head EXCEPT !.focus = FALSE, !.draft = TRUE]
           /\ Append1("title", head.text)
  <2>1. Heading' /\ head' \in Headings
    BY <1>1, <1>2, <1>6, DraftHeading
  <2>2. "title" \in PostKinds /\ head.text \in Words
    BY <1>1 DEF PostKinds, ViewTypes
  <2>3. Names'
    BY <1>1, <1>2, <1>6, <2>2, AppendNames
  <2>4. PostsGrow
    <3>1. PICK p \in Posts : posts' = Append(posts, p)
      BY <1>1, <1>6, <2>2, AppendStep
    <3> QED BY <1>1, <3>1, Appended DEF ViewTypes
  <2>5. WrittenFits'
    BY <1>1, <1>2, <2>4, WrittenStays
  <2>6. ViewTypes'
    BY <1>1, <1>2, <2>1, <2>3, <2>4 DEF ViewTypes, Headings, Names, PostsGrow
  <2> QED BY <2>1, <2>3, <2>5, <2>6 DEF ViewInv
<1> QED BY <1>4, <1>5, <1>6 DEF Blur

\* Reacting, and sending the composer's text.
LEMMA PostWhole ==
  ASSUME ViewInv, ClickChip \/ Pick \/ SendText
  PROVE  ViewInv'
<1>1. ViewTypes /\ compose \in Composers
  BY DEF ViewInv, ViewTypes
<1>2. NoText \in Words /\ compose.text \in Words /\ {"react", "unreact", "text"} \subseteq PostKinds
  BY <1>1 DEF Words, Composers, PostKinds
<1>3. UNCHANGED <<title, head, reacted, feed, dirty, gone, wrote>>
  BY DEF ClickChip, Pick, SendText, widgets
<1>4. CASE ClickChip \/ Pick
  <2>1. PICK kind \in {"react", "unreact"} : Append1(kind, NoText)
    BY <1>4 DEF ClickChip, Pick
  <2>2. compose' = compose
    BY <1>4 DEF ClickChip, Pick
  <2>3. kind \in PostKinds /\ kind # "title"
    BY <1>2, <2>1
  <2> QED BY <1>1, <1>2, <1>3, <2>1, <2>2, <2>3, PostBegins
<1>5. CASE SendText
  <2>1. PICK b \in BOOLEAN : b = CanPost
    BY DEF CanPost
  <2>2. compose' = [compose EXCEPT !.sending = b]
    BY <1>5, <2>1 DEF SendText
  <2>3. compose' \in Composers /\ compose'.text = compose.text
    BY <1>1, <2>2 DEF Composers
  <2>4. Append1("text", compose.text)
    BY <1>5 DEF SendText
  <2>5. "text" \in PostKinds /\ "text" # "title"
    BY <1>2
  <2> QED BY <1>2, <1>3, <2>3, <2>4, <2>5, PostBegins
<1> QED BY <1>4, <1>5

LEMMA OutcomeWhole ==
  ASSUME ViewInv, NEW i \in DOMAIN posts, Accepted(i) \/ Succeeded(i) \/ PostFails(i)
  PROVE  ViewInv'
<1>1. /\ ViewTypes /\ Heading /\ Names /\ WrittenFits /\ compose \in Composers
      /\ posts \in Seq(Posts) /\ feed \in Seq(FeedEvents) /\ head \in Headings
  BY DEF ViewInv, ViewTypes, Headings
<1>2. Names'
  BY <1>1, OutcomeNames
<1>3. UNCHANGED <<title, dirty, gone, wrote>>
  BY DEF Accepted, Succeeded, PostFails, widgets
<1>4. PostsGrow /\ DOMAIN posts' = DOMAIN posts /\ feed' \in Seq(FeedEvents)
  <2>1. CASE Accepted(i)
    BY <1>1, <2>1, AcceptedStep
  <2>2. CASE Succeeded(i) \/ PostFails(i)
    <3>1. PICK pc \in {"failed", "ok"} : posts' = [posts EXCEPT ![i].pc = pc] /\ posts[i].pc = "pending"
      BY <2>2 DEF Succeeded, PostFails
    <3>2. PostsGrow /\ DOMAIN posts' = DOMAIN posts
      BY <1>1, <3>1, OutcomeStep
    <3>3. feed' = feed
      BY <2>2 DEF Succeeded, PostFails, widgets
    <3> QED BY <1>1, <3>2, <3>3
  <2> QED BY <2>1, <2>2
<1>5. Heading' /\ head' \in Headings
  <2>1. CASE Succeeded(i)
    BY <1>1, <2>1, SavedHeading
  <2>2. CASE Accepted(i) \/ PostFails(i)
    <3>1. head' = head
      BY <2>2 DEF Accepted, PostFails, widgets
    <3>2. HeadingFits => HeadingFits'
      BY <1>1, <1>3, <1>4, <3>1, HeadingStays
    <3> QED BY <1>1, <1>3, <3>1, <3>2 DEF Heading
  <2> QED BY <2>1, <2>2
<1>6. WrittenFits' /\ compose' \in Composers
  <2>1. CASE Succeeded(i)
    BY <1>1, <2>1, SentComposer
  <2>2. CASE Accepted(i) \/ PostFails(i)
    <3>1. compose' = compose \/ compose' = [compose EXCEPT !.sending = FALSE]
      BY <2>2 DEF Accepted, PostFails
    <3>2. compose' \in Composers /\ compose'.text = compose.text
      BY <1>1, <3>1 DEF Composers
    <3> QED BY <1>1, <1>3, <1>4, <3>2, WrittenStays
  <2> QED BY <2>1, <2>2
<1>7. ViewTypes'
  BY <1>1, <1>2, <1>3, <1>4, <1>5, <1>6 DEF ViewTypes, Headings, Names, PostsGrow
<1> QED BY <1>2, <1>5, <1>6, <1>7 DEF ViewInv

LEMMA DeliveryWhole ==
  ASSUME ViewInv, PeerSays \/ Apply \/ Finish
  PROVE  ViewInv'
<1>1. /\ ViewTypes /\ Heading /\ Names /\ WrittenFits /\ posts \in Seq(Posts)
      /\ feed \in Seq(FeedEvents) /\ head \in Headings /\ title \in Words
  BY DEF ViewInv, ViewTypes, Headings
<1>2. Names'
  BY <1>1, DeliveryNames
<1>3. UNCHANGED <<compose, posts, gone, wrote>>
  BY DEF PeerSays, Apply, Finish
<1>4. WrittenFits'
  BY <1>1, <1>3 DEF WrittenFits, TextKept
<1>5. feed' \in Seq(FeedEvents) /\ dirty' \in BOOLEAN
  <2>1. CASE PeerSays
    <3>1. PICK e : /\ feed' = Append(feed, e)
                   /\ e \in [kind: {"title"}, text: Titles, from: {"human"}, own: {FALSE}]
                            \cup [kind: {"react", "unreact"}, text: {NoText}, from: Nick, own: {FALSE}]
      BY <2>1 DEF PeerSays
    <3>2. "human" \in Words /\ NoText \in Words /\ Titles \subseteq Words /\ Nick \subseteq Words
      BY ChatViewAssumption DEF Words
    <3>3. e \in FeedEvents
      BY <3>1, <3>2 DEF FeedEvents, PostKinds
    <3> QED BY <1>1, <2>1, <3>1, <3>3 DEF PeerSays, ViewTypes
  <2>2. CASE Apply
    <3>1. feed # <<>> /\ feed' = Tail(feed) /\ dirty' \in BOOLEAN
      BY <1>1, <2>2 DEF Apply, ViewTypes
    <3> QED BY <1>1, <3>1
  <2>3. CASE Finish
    BY <1>1, <2>3 DEF Finish
  <2> QED BY <2>1, <2>2, <2>3
<1>6. Heading' /\ head' \in Headings /\ title' \in Words
  <2>1. CASE UNCHANGED <<title, head>>
    BY <1>1, <1>3, <2>1 DEF Heading, HeadingFits
  <2>2. CASE Apply /\ Head(feed).kind = "title"
    <3>1. PICK t : t = Head(feed).text
      OBVIOUS
    <3>2. SetTitle(t)
      BY <2>2, <3>1 DEF Apply
    <3>3. Head(feed) \in FeedEvents
      BY <1>1, <2>2 DEF Apply
    <3>4. t \in Words
      BY <3>1, <3>3 DEF FeedEvents
    <3>5. title' = t
      BY <3>2 DEF SetTitle
    <3> QED BY <1>1, <1>3, <3>2, <3>4, <3>5, TitleHeading
  <2> QED BY <2>1, <2>2 DEF PeerSays, Apply, Finish
<1>7. ViewTypes'
  BY <1>1, <1>2, <1>3, <1>5, <1>6 DEF ViewTypes, Headings, Names
<1> QED BY <1>2, <1>4, <1>6, <1>7 DEF ViewInv

\* The picker, a text being written, and the end of the channel.
LEMMA OtherWhole ==
  ASSUME ViewInv, OpenPicker \/ ClosePicker \/ WriteText \/ Gone
  PROVE  ViewInv'
<1>1. /\ ViewTypes /\ Heading /\ Names /\ WrittenFits /\ head \in Headings /\ compose \in Composers
  BY DEF ViewInv, ViewTypes, Headings
<1>2. UNCHANGED <<title, me, reacted, chips, posts, feed, dirty>>
  BY DEF OpenPicker, ClosePicker, WriteText, Gone
<1>3. Names'
  BY <1>1, <1>2, NamesStay
<1>4. CASE OpenPicker \/ ClosePicker
  <2>1. UNCHANGED <<head, compose, gone, wrote>>
    BY <1>4 DEF OpenPicker, ClosePicker
  <2> QED BY <1>1, <1>2, <1>3, <2>1
          DEF ViewInv, ViewTypes, Heading, HeadingFits, WrittenFits, TextKept
<1>5. CASE WriteText
  <2>1. PICK t \in Texts : compose' = [compose EXCEPT !.text = t] /\ wrote' = t
    BY <1>5 DEF WriteText
  <2>2. UNCHANGED <<head, gone>>
    BY <1>5 DEF WriteText
  <2>3. t \in Words /\ t # NoText
    BY ChatViewAssumption DEF Words
  <2>4. compose' \in Composers /\ compose'.text = t
    BY <1>1, <2>1, <2>3 DEF Composers
  <2>5. WrittenFits'
    BY <2>1, <2>3, <2>4 DEF WrittenFits, TextKept
  <2>6. ViewTypes' /\ Heading'
    BY <1>1, <1>2, <2>1, <2>2, <2>3, <2>4 DEF ViewTypes, Heading, HeadingFits
  <2> QED BY <1>3, <2>5, <2>6 DEF ViewInv
<1>6. CASE Gone
  <2>1. UNCHANGED <<compose, wrote>> /\ gone' = TRUE /\ head' = [head EXCEPT !.focus = FALSE]
    BY <1>6 DEF Gone
  <2>2. head' \in Headings
    BY <1>1, <2>1 DEF Headings
  <2>3. WrittenFits'
    BY <1>1, <1>2, <2>1 DEF WrittenFits, TextKept
  <2>4. ViewTypes' /\ Heading'
    BY <1>1, <1>2, <2>1, <2>2 DEF ViewTypes, Headings, Heading
  <2> QED BY <1>3, <2>3, <2>4 DEF ViewInv
<1> QED BY <1>4, <1>5, <1>6

LEMMA ViewBegins == ViewInit => ViewInv
<1>1. SUFFICES ASSUME ViewInit PROVE ViewInv
  OBVIOUS
<1>2. NoText \in Words /\ NoEditor \in Words /\ "human" \in Words
  BY ChatViewAssumption DEF Words
<1>3. posts = <<>> /\ feed = <<>> /\ DOMAIN posts = {} /\ DOMAIN feed = {}
  BY <1>1 DEF ViewInit
<1>4. ViewTypes
  <2>1. /\ head \in [text: Words, focus: BOOLEAN, draft: BOOLEAN, start: Words, visit: Nat]
        /\ compose \in Composers
    BY <1>1, <1>2 DEF ViewInit, Composers
  <2>2. me \in Identities
    BY <1>1, <1>2 DEF ViewInit, Identities
  <2>3. posts \in Seq(Posts) /\ feed \in Seq(FeedEvents)
    BY <1>3
  <2> QED BY <1>1, <1>2, <2>1, <2>2, <2>3 DEF ViewInit, ViewTypes
<1>5. Heading
  BY <1>1, <1>3 DEF ViewInit, Heading, HeadingFits
<1>6. Names
  <2>1. me = [name |-> "human", locked |-> FALSE, editor |-> NoEditor, label |-> "human"]
    BY <1>1 DEF ViewInit
  <2>2. OwnName = {}
    BY <1>3 DEF OwnName
  <2>3. me \in Identities
    BY <1>2, <2>1 DEF Identities
  <2>4. OneOwnName
    BY <1>3, <2>1, <2>2 DEF OneOwnName
  <2>5. chips = Drawn(me.name)
    <3>1. reacted = {} /\ chips = [who |-> {}, mine |-> FALSE]
      BY <1>1 DEF ViewInit
    <3>2. (me.name \in reacted) = FALSE
      BY <3>1
    <3> QED BY <3>1, <3>2 DEF Drawn
  <2> QED BY <2>1, <2>3, <2>4, <2>5 DEF Names, NameDrawn
<1>7. WrittenFits
  BY <1>1 DEF ViewInit, WrittenFits, TextKept
<1> QED BY <1>4, <1>5, <1>6, <1>7 DEF ViewInv

LEMMA ViewSteps == ViewInv /\ [ViewNext]_chatViewVars => ViewInv'
<1>1. SUFFICES ASSUME ViewInv, [ViewNext]_chatViewVars PROVE ViewInv'
  OBVIOUS
<1>2. CASE UNCHANGED chatViewVars
  BY <1>1, <1>2 DEF chatViewVars, ViewInv, ViewTypes, Heading, HeadingFits, Names, OneOwnName, NameDrawn,
                    Drawn, OwnName, WrittenFits, TextKept
<1>3. CASE EditName \/ TypeName \/ CommitName
  BY <1>1, <1>3, EditorWhole
<1>4. CASE Focus \/ TypeTitle \/ Escape \/ Blur
  BY <1>1, <1>4, HeadingWhole
<1>5. CASE ClickChip \/ Pick \/ SendText
  BY <1>1, <1>5, PostWhole
<1>6. CASE \E i \in DOMAIN posts : Accepted(i) \/ Succeeded(i) \/ PostFails(i)
  BY <1>1, <1>6, OutcomeWhole
<1>7. CASE PeerSays \/ Apply \/ Finish
  BY <1>1, <1>7, DeliveryWhole
<1>8. CASE OpenPicker \/ ClosePicker \/ WriteText \/ Gone
  BY <1>1, <1>8, OtherWhole
<1> QED BY <1>1, <1>2, <1>3, <1>4, <1>5, <1>6, <1>7, <1>8 DEF ViewNext

LEMMA WholeShows == ViewInv => ShownAsAsked
<1>1. SUFFICES ASSUME ViewInv PROVE ShownAsAsked
  OBVIOUS
<1>2. Heading /\ Names /\ WrittenFits
  BY <1>1 DEF ViewInv
<1>3. TitleKept
  BY <1>2 DEF TitleKept, Heading, HeadingFits, TitlePost
<1>4. NameShown
  BY <1>2 DEF NameShown, Names, OneOwnName, NameDrawn
<1> QED BY <1>2, <1>3, <1>4 DEF ShownAsAsked, WrittenFits

\* ...
THEOREM PageShowsWhatWasAsked == ViewSpec => []ShownAsAsked
<1> QED BY ViewBegins, ViewSteps, WholeShows, PTL DEF ViewSpec

=============================================================================
