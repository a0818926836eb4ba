------------------------- MODULE BrowserSessionProofs -------------------------
(***************************************************************************)
(* Theorems about one chat page for every number of sends, tries, names and *)
(* events of others: it speaks under one name, and each send is posted once *)
(* and each event presented once, in order.                                 *)
(*                                                                         *)
(* The argument: a post is accepted only at the head it was sealed for, so  *)
(* its page had been shown every event before it.  An own event that was    *)
(* shown has locked the name, since its attempt is evidence until then; so  *)
(* a later seal takes the name of the earlier event.                        *)
(***************************************************************************)
EXTENDS BrowserSession, FiniteSetTheorems, TLAPS

SendStates == [pc: {"new", "wait", "seal", "post", "fold", "ok", "failed"}, obj: Names,
               i: 1 .. MaxTries, wait: SUBSET Owners, prev: Int, from: Names,
               code: {"none", "ok", "conflict", "refused"}, hi: Int]
Batches == [owner: Owners, next: Nat, hi: Int, opening: BOOLEAN]
Posts == [id: Ids, prev: Int, from: Names]
Attempts == [seq: Nat, id: Ids, from: Names]
PollStates == [pc: {"idle", "read", "got", "deliver", "off"}, since: Int, hi: Int]

Types ==
  /\ log \in Seq(Blob) /\ net \subseteq Posts
  /\ name \in Names /\ locked \in BOOLEAN /\ attempts \subseteq Attempts
  /\ last \in Int /\ last >= -1 /\ last <= Head0
  /\ queue \in Seq(Batches) /\ snd \in [Sends -> SendStates] /\ poll \in PollStates
  /\ stopped \in BOOLEAN

\* The deliveries queued, and what waits for them.
BatchFits(j) ==
  /\ queue[j].next <= last + 1 /\ queue[j].hi <= Head0
  /\ queue[j].opening => j = 1 /\ queue[j].next = last + 1 /\ queue[j].next <= queue[j].hi
QueueFits ==
  /\ \A i, j \in DOMAIN queue : queue[i].owner = queue[j].owner => i = j
  /\ \A j \in DOMAIN queue : BatchFits(j)
  /\ poll.pc = "deliver" <=> Poll \in Queued
  /\ \A k \in Sends : snd[k].pc = "fold" <=> k \in Queued
  /\ \A k \in Sends : snd[k].wait \subseteq Queued
  /\ poll.since >= -1 /\ poll.since <= last /\ poll.hi <= Head0

\* What a send has on the way, as evidence and in the log is of its last try.
PostFits(r) ==
  /\ r.id[1] \in Sends /\ r.id = IdOf(r.id[1])
  /\ r.prev = snd[r.id[1]].prev /\ r.from = snd[r.id[1]].from
AttemptFits(a) ==
  /\ a.id[1] \in Sends /\ a.id = IdOf(a.id[1]) /\ snd[a.id[1]].pc \in {"post", "failed"}
  /\ a.seq = snd[a.id[1]].prev + 1 /\ a.from = snd[a.id[1]].from
EventFits(i) ==
  /\ log[i].id[1] \in Sends /\ log[i].id = IdOf(log[i].id[1])
  /\ log[i].from = snd[log[i].id[1]].from /\ i = snd[log[i].id[1]].prev + 2

InNet(k) == \E r \in net : r.id[1] = k
InLog(k) == \E i \in OwnEvents : log[i].id[1] = k
\* A post of k that is accepted is under the name of the own events before it.
Agrees(k) == \A i \in OwnEvents : i - 1 <= snd[k].prev => log[i].from = snd[k].from

SendFits(k) ==
  /\ snd[k].prev >= -1 /\ snd[k].prev <= last /\ snd[k].hi <= Head0
  /\ InNet(k) => snd[k].pc \in {"post", "failed"} /\ snd[k].code = "none" /\ ~InLog(k)
  /\ InLog(k) => /\ snd[k].pc \in {"post", "ok", "failed"} /\ snd[k].code \in {"none", "ok"}
                 /\ snd[k].pc = "post" => snd[k].code = "ok"
  /\ snd[k].pc = "ok" \/ snd[k].code = "ok" => InLog(k)
  /\ snd[k].pc \in {"new", "wait", "seal"} => snd[k].code = "none"
  /\ snd[k].pc = "fold" => snd[k].code = "conflict"
  /\ snd[k].pc = "seal" \/ InNet(k) => Agrees(k)

Lists ==
  /\ \A r \in net : PostFits(r)
  /\ \A a \in attempts : AttemptFits(a)
  /\ \A i \in OwnEvents : EventFits(i)
  /\ \A k \in Sends : SendFits(k)

\* Until the name is locked, own events are still to be shown and have evidence.
Evident(id) == \E a \in attempts : a.id = id
Unlocked ==
  ~locked /\ ~stopped =>
    /\ \A i \in OwnEvents : i - 1 > last /\ Evident(log[i].id)
    /\ queue # <<>> /\ queue[1].opening => \A i \in OwnEvents : i - 1 # queue[1].next
    /\ \A r \in net : r.prev = Head0 => Evident(r.id)
Named ==
  /\ \A i, j \in OwnEvents : log[i].from = log[j].from
  /\ locked => (\A i \in OwnEvents : log[i].from = name) /\ OwnEvents # {} /\ attempts = {}
  /\ Unlocked

Ordered == shown = [i \in 1 .. last + 1 |-> i - 1]
PeersFew == Cardinality(PeerEvents) <= MaxPeer

SessionInv == Types /\ QueueFits /\ Lists /\ Named /\ Ordered /\ PeersFew

\* The queue, its batches, and the log as sequences.
LEMMA QueueTyped ==
  ASSUME Types
  PROVE  /\ Len(queue) \in Nat /\ DOMAIN queue = 1 .. Len(queue)
         /\ \A j \in DOMAIN queue : /\ queue[j] \in Batches /\ queue[j].owner \in Owners
                                    /\ queue[j].next \in Nat /\ queue[j].hi \in Int
         /\ Queued \subseteq Owners
         /\ Len(log) \in Nat /\ DOMAIN log = 1 .. Len(log) /\ Head0 \in Int /\ poll.hi \in Int
<1>1. queue \in Seq(Batches) /\ log \in Seq(Blob) /\ poll \in PollStates
  BY DEF Types
<1>2. Len(queue) \in Nat /\ DOMAIN queue = 1 .. Len(queue) /\ \A j \in DOMAIN queue : queue[j] \in Batches
  BY <1>1
<1>3. \A b \in Batches : b.owner \in Owners /\ b.next \in Nat /\ b.hi \in Int
  BY DEF Batches
<1>4. Len(log) \in Nat /\ DOMAIN log = 1 .. Len(log)
  BY <1>1
<1>5. poll.hi \in Int
  BY <1>1 DEF PollStates
<1> QED BY <1>2, <1>3, <1>4, <1>5 DEF Queued, Head0

LEMMA InitFits == Init => SessionInv
<1> SUFFICES ASSUME Init PROVE SessionInv
  OBVIOUS
<1>1. OwnEvents = {} /\ PeerEvents = {} /\ DOMAIN queue = {} /\ Queued = {}
  BY DEF Init, OwnEvents, PeerEvents, Queued
<1>2. Types
  <2>1. snd \in [Sends -> SendStates]
    BY SessionAssumption DEF Init, SendStates
  <2>2. poll \in PollStates
    BY DEF Init, PollStates
  <2>3. log \in Seq(Blob) /\ queue \in Seq(Batches) /\ Head0 = -1
    BY DEF Init, Head0
  <2>4. net \subseteq Posts /\ attempts \subseteq Attempts /\ name \in Names
    BY SessionAssumption DEF Init
  <2>5. locked = FALSE /\ last = -1 /\ stopped = FALSE
    BY DEF Init
  <2>6. locked \in BOOLEAN /\ stopped \in BOOLEAN
    BY <2>5
  <2>7. last \in Int /\ last >= -1 /\ last <= Head0
    BY <2>3, <2>5
  <2> QED BY <2>1, <2>2, <2>3, <2>4, <2>6, <2>7 DEF Types
<1>3. QueueFits
  BY <1>1 DEF Init, QueueFits, Head0
<1>4. Lists
  BY <1>1 DEF Init, Lists, SendFits, InNet, InLog, Head0
<1>5. Named /\ Ordered
  BY <1>1 DEF Init, Named, Unlocked, Ordered
<1>6. PeersFew
  BY <1>1, FS_EmptySet, SessionAssumption DEF PeersFew
<1> QED BY <1>2, <1>3, <1>4, <1>5, <1>6 DEF SessionInv

-----------------------------------------------------------------------------
(* One send moves *)

\* Nothing of k is on the way, evidence or in the log.
Fresh(k) == ~InNet(k) /\ ~InLog(k) /\ \A a \in attempts : a.id[1] # k

LEMMA FreshSends ==
  ASSUME SessionInv, NEW k \in Sends, snd[k].pc \in {"new", "wait", "seal", "fold"}
  PROVE  Fresh(k)
BY DEF SessionInv, Lists, SendFits, AttemptFits, Fresh

\* The state of a send that is not fresh keeps its try.
SameTry(s, t) == s.i = t.i /\ s.prev = t.prev /\ s.from = t.from

\* The lists fit on when k's state becomes s.
LEMMA ListsMove ==
  ASSUME SessionInv, UNCHANGED <<log, net, last>>, attempts' \subseteq attempts,
         NEW k \in Sends, NEW s \in SendStates, snd' = [snd EXCEPT ![k] = s],
         Fresh(k) \/ SameTry(snd[k], s),
         \A a \in attempts' : a.id[1] = k => s.pc \in {"post", "failed"},
         SendFits(k)'
  PROVE  Lists'
<1>1. Lists /\ snd \in [Sends -> SendStates]
  BY DEF SessionInv, Types
<1>2. snd'[k] = s /\ \A m \in Sends : m # k => snd'[m] = snd[m]
  BY <1>1
<1>3. OwnEvents' = OwnEvents /\ Head0' = Head0
  BY DEF OwnEvents, Head0
<1>4. ASSUME NEW r \in net PROVE PostFits(r)'
  <2>1. PostFits(r)
    BY <1>1 DEF Lists
  <2>2. CASE r.id[1] = k
    <3>1. SameTry(snd[k], s)
      BY <2>2 DEF Fresh, InNet
    <3> QED BY <1>2, <2>1, <2>2, <3>1 DEF PostFits, SameTry, IdOf
  <2>3. CASE r.id[1] # k
    BY <1>2, <2>1, <2>3 DEF PostFits, IdOf
  <2> QED BY <2>2, <2>3
<1>5. ASSUME NEW a \in attempts' PROVE AttemptFits(a)'
  <2>1. a \in attempts /\ AttemptFits(a)
    BY <1>1 DEF Lists
  <2>2. CASE a.id[1] = k
    <3>1. SameTry(snd[k], s) /\ s.pc \in {"post", "failed"}
      BY <2>1, <2>2 DEF Fresh
    <3> QED BY <1>2, <2>1, <2>2, <3>1 DEF AttemptFits, SameTry, IdOf
  <2>3. CASE a.id[1] # k
    BY <1>2, <2>1, <2>3 DEF AttemptFits, IdOf
  <2> QED BY <2>2, <2>3
<1>6. ASSUME NEW i \in OwnEvents PROVE EventFits(i)'
  <2>1. EventFits(i)
    BY <1>1 DEF Lists
  <2>2. CASE log[i].id[1] = k
    <3>1. SameTry(snd[k], s)
      BY <2>2 DEF Fresh, InLog
    <3> QED BY <1>2, <2>1, <2>2, <3>1 DEF EventFits, SameTry, IdOf
  <2>3. CASE log[i].id[1] # k
    BY <1>2, <2>1, <2>3 DEF EventFits, IdOf
  <2> QED BY <2>2, <2>3
<1>7. ASSUME NEW m \in Sends, m # k PROVE SendFits(m)'
  <2>1. SendFits(m)
    BY <1>1 DEF Lists
  <2> QED BY <1>2, <1>3, <1>7, <2>1 DEF SendFits, InNet, InLog, Agrees
<1> QED BY <1>3, <1>4, <1>5, <1>6, <1>7 DEF Lists

\* The queue fits on when k's state becomes s and nobody is queued or done.
LEMMA QueueStays ==
  ASSUME SessionInv, UNCHANGED <<queue, last, poll>>, Head0' \in Int, Head0' >= Head0,
         NEW k \in Sends, NEW s \in SendStates, snd' = [snd EXCEPT ![k] = s],
         s.pc = "fold" <=> snd[k].pc = "fold", s.wait \subseteq Queued
  PROVE  QueueFits'
<1>1. QueueFits /\ snd \in [Sends -> SendStates] /\ queue \in Seq(Batches) /\ poll \in PollStates
      /\ log \in Seq(Blob)
  BY DEF SessionInv, Types
<1>2. snd'[k] = s /\ \A m \in Sends : m # k => snd'[m] = snd[m]
  BY <1>1
<1>3. Queued' = Queued
  BY DEF Queued
<1>4. Head0 \in Int /\ poll.hi \in Int /\ \A j \in DOMAIN queue : queue[j].hi \in Int
  BY QueueTyped DEF SessionInv
<1>5. \A j \in DOMAIN queue : BatchFits(j)'
  BY <1>1, <1>4 DEF QueueFits, BatchFits
<1> QED BY <1>1, <1>2, <1>3, <1>4, <1>5 DEF QueueFits

\* The name and its evidence are left alone, and so is the log.
LEMMA NamedStays ==
  ASSUME SessionInv, UNCHANGED <<log, net, locked, attempts, last, queue>>,
         locked => name' = name, stopped => stopped'
  PROVE  Named'
<1>1. OwnEvents' = OwnEvents /\ Head0' = Head0
  BY DEF OwnEvents, Head0
<1>2. \A id : Evident(id)' <=> Evident(id)
  BY DEF Evident
<1>3. Unlocked'
  BY <1>1, <1>2 DEF SessionInv, Named, Unlocked
<1> QED BY <1>1, <1>3 DEF SessionInv, Named

\* A step of a send that posts nothing and gets no answer.
LEMMA SendMoves ==
  ASSUME SessionInv, UNCHANGED <<log, net, identity, last, shown, queue, poll, stopped>>,
         NEW k \in Sends, NEW s \in SendStates, snd' = [snd EXCEPT ![k] = s],
         s.pc # "fold", snd[k].pc # "fold", s.wait \subseteq Queued,
         s.prev >= -1 /\ s.prev <= last /\ s.hi <= Head0,
         \/ /\ Fresh(k) /\ s.pc \in {"wait", "seal", "failed"} /\ s.code = "none"
            /\ s.pc = "seal" => \A i \in OwnEvents : i - 1 <= s.prev => log[i].from = s.from
         \/ /\ SameTry(snd[k], s) /\ s.code = snd[k].code
            /\ snd[k].pc = "post" /\ s.pc = "failed"
  PROVE  SessionInv'
<1>1. SessionInv /\ Lists /\ snd \in [Sends -> SendStates] /\ SendFits(k)
  BY DEF SessionInv, Types, Lists
<1>2. snd'[k] = s
  BY <1>1
<1>3. OwnEvents' = OwnEvents /\ Head0' = Head0 /\ UNCHANGED <<name, locked, attempts>>
  BY DEF OwnEvents, Head0, identity
<1>4. SendFits(k)'
  <2>1. CASE Fresh(k) /\ s.pc \in {"wait", "seal", "failed"} /\ s.code = "none"
             /\ (s.pc = "seal" => \A i \in OwnEvents : i - 1 <= s.prev => log[i].from = s.from)
    BY <1>2, <1>3, <2>1 DEF SendFits, Fresh, InNet, InLog, Agrees
  <2>2. CASE SameTry(snd[k], s) /\ s.code = snd[k].code /\ snd[k].pc = "post" /\ s.pc = "failed"
    BY <1>1, <1>2, <1>3, <2>2 DEF SendFits, SameTry, InNet, InLog, Agrees
  <2> QED BY <2>1, <2>2
<1>5. \A a \in attempts' : a.id[1] = k => s.pc \in {"post", "failed"}
  BY <1>3 DEF Fresh
<1>6. Lists'
  BY <1>3, <1>4, <1>5, ListsMove
<1>7. QueueFits'
  <2>1. Head0' \in Int /\ Head0' >= Head0
    BY <1>1, <1>3, QueueTyped DEF SessionInv
  <2>2. (s.pc = "fold") <=> (snd[k].pc = "fold")
    OBVIOUS
  <2> QED BY <1>1, <2>1, <2>2, QueueStays
<1>8. Named'
  BY <1>3, NamedStays
<1>9. Types' /\ Ordered' /\ PeersFew'
  BY <1>1, <1>3 DEF SessionInv, Types, Ordered, PeersFew, PeerEvents
<1> QED BY <1>6, <1>7, <1>8, <1>9 DEF SessionInv

LEMMA AgainMoves ==
  ASSUME NEW s \in SendStates, Queued \subseteq Owners
  PROVE  /\ Again(s) \in SendStates
         /\ Again(s).prev = s.prev /\ Again(s).hi = s.hi
         /\ \/ Again(s).pc = "failed" /\ Again(s).wait = s.wait /\ Again(s).code = s.code
            \/ Again(s).pc = "wait" /\ Again(s).wait = Queued /\ Again(s).code = "none"
<1>1. CASE s.i = MaxTries
  BY <1>1 DEF Again, SendStates
<1>2. CASE s.i # MaxTries
  <2>1. s.i + 1 \in 1 .. MaxTries
    BY <1>2, SessionAssumption DEF SendStates
  <2>2. PICK t : t = [s EXCEPT !.pc = "wait", !.i = s.i + 1, !.wait = Queued, !.code = "none"]
    OBVIOUS
  <2>3. /\ t \in SendStates /\ t.pc = "wait" /\ t.wait = Queued /\ t.code = "none"
        /\ t.prev = s.prev /\ t.hi = s.hi
    BY <2>1, <2>2 DEF SendStates
  <2>4. Again(s) = t
    BY <1>2, <2>2 DEF Again
  <2> QED BY <2>3, <2>4
<1> QED BY <1>1, <1>2

LEMMA QueuedOwners == ASSUME SessionInv PROVE Queued \subseteq Owners
BY QueueTyped DEF SessionInv

LEMMA BeginKeeps ==
  ASSUME SessionInv, NEW k \in Sends, StartSend(k) \/ Seal(k) \/ PostFailed(k)
  PROVE  SessionInv'
<1>1. snd[k] \in SendStates /\ SendFits(k) /\ snd[k].wait \subseteq Queued /\ Queued \subseteq Owners
      /\ snd \in [Sends -> SendStates] /\ name \in Names /\ last \in Int /\ last >= -1
  BY QueuedOwners DEF SessionInv, Types, Lists, QueueFits
<1>2. CASE StartSend(k)
  <2>1. PICK s : s = [snd[k] EXCEPT !.pc = "wait", !.obj = name, !.wait = Queued]
    OBVIOUS
  <2>2. /\ s \in SendStates /\ s.pc = "wait" /\ s.wait = Queued /\ s.prev = snd[k].prev
        /\ s.hi = snd[k].hi /\ s.code = snd[k].code
    BY <1>1, <2>1 DEF SendStates
  <2>3. snd' = [snd EXCEPT ![k] = s] /\ snd[k].pc = "new"
    BY <1>1, <1>2, <2>1 DEF StartSend
  <2>4. Fresh(k) /\ s.code = "none" /\ s.prev >= -1 /\ s.prev <= last /\ s.hi <= Head0
    BY <1>1, <2>2, <2>3, FreshSends DEF SendFits
  <2>5. s.pc # "fold" /\ snd[k].pc # "fold" /\ s.pc # "seal" /\ s.pc = "wait" /\ s.wait \subseteq Queued
    BY <2>2, <2>3
  <2>6. UNCHANGED <<log, net, identity, last, shown, queue, poll, stopped>>
    BY <1>2 DEF StartSend
  <2> QED BY <2>2, <2>3, <2>4, <2>5, <2>6, SendMoves
<1>3. CASE Seal(k) /\ stopped
  <2>1. PICK s : s = [snd[k] EXCEPT !.pc = "failed"]
    OBVIOUS
  <2>2. /\ s \in SendStates /\ s.pc = "failed" /\ s.wait = snd[k].wait /\ s.prev = snd[k].prev
        /\ s.hi = snd[k].hi /\ s.code = snd[k].code
    BY <1>1, <2>1 DEF SendStates
  <2>3. snd' = [snd EXCEPT ![k] = s] /\ snd[k].pc = "wait"
    BY <1>1, <1>3, <2>1 DEF Seal
  <2> QED BY <1>1, <1>3, <2>2, <2>3, FreshSends, SendMoves DEF Seal, SendFits
<1>4. CASE Seal(k) /\ ~stopped
  <2>1. PICK f : f = IF locked THEN name ELSE snd[k].obj
    OBVIOUS
  <2>2. PICK s : s = [snd[k] EXCEPT !.pc = "seal", !.prev = last, !.from = f]
    OBVIOUS
  <2>3. f \in Names
    BY <1>1, <2>1 DEF SendStates
  <2>4. /\ s \in SendStates /\ s.pc = "seal" /\ s.wait = snd[k].wait /\ s.prev = last
        /\ s.hi = snd[k].hi /\ s.code = snd[k].code /\ s.from = f
    BY <1>1, <2>2, <2>3 DEF SendStates
  <2>5. snd' = [snd EXCEPT ![k] = s] /\ snd[k].pc = "wait"
    BY <1>1, <1>4, <2>1, <2>2 DEF Seal
  <2>6. \A i \in OwnEvents : i - 1 <= last => log[i].from = f
    <3> SUFFICES ASSUME NEW i \in OwnEvents, i - 1 <= last PROVE log[i].from = f
      OBVIOUS
    <3>0. i \in Int
      BY QueueTyped DEF SessionInv, OwnEvents
    <3>1. locked
      BY <1>1, <1>4, <3>0 DEF SessionInv, Named, Unlocked
    <3> QED BY <2>1, <3>1 DEF SessionInv, Named
  <2>7. Fresh(k) /\ s.code = "none" /\ s.prev >= -1 /\ s.prev <= last /\ s.hi <= Head0
    BY <1>1, <2>4, <2>5, FreshSends DEF SendFits
  <2>8. s.pc # "fold" /\ snd[k].pc # "fold" /\ s.wait \subseteq Queued
    BY <1>1, <2>4, <2>5
  <2>9. UNCHANGED <<log, net, identity, last, shown, queue, poll, stopped>>
    BY <1>4 DEF Seal
  <2>10. \A i \in OwnEvents : i - 1 <= s.prev => log[i].from = s.from
    BY <2>4, <2>6
  <2> QED BY <2>4, <2>5, <2>7, <2>8, <2>9, <2>10, SendMoves
<1>5. CASE PostFailed(k)
  <2>1. PICK s : s = [snd[k] EXCEPT !.pc = "failed"]
    OBVIOUS
  <2>2. /\ s \in SendStates /\ s.pc = "failed" /\ s.wait = snd[k].wait /\ SameTry(snd[k], s)
        /\ s.hi = snd[k].hi /\ s.code = snd[k].code
    BY <1>1, <2>1 DEF SendStates, SameTry
  <2>3. snd' = [snd EXCEPT ![k] = s] /\ snd[k].pc = "post"
    BY <1>1, <1>5, <2>1 DEF PostFailed
  <2> QED BY <1>1, <1>5, <2>2, <2>3, SendMoves DEF PostFailed, SendFits, SameTry
<1> QED BY <1>2, <1>3, <1>4, <1>5

-----------------------------------------------------------------------------
(* Posts and answers *)

\* The post goes out, with evidence if it may prove something.
LEMMA PostGoes ==
  ASSUME SessionInv, NEW k \in Sends, snd[k].pc = "seal", ~stopped, Post(k),
         locked => snd[k].from = name, snd'[k].pc = "post"
  PROVE  SessionInv'
<1>1. /\ snd[k] \in SendStates /\ SendFits(k) /\ Fresh(k) /\ snd[k].wait \subseteq Queued
      /\ snd \in [Sends -> SendStates] /\ last \in Int /\ k # Peer /\ Lists /\ Types
      /\ snd[k].prev \in Int /\ snd[k].prev >= -1
  <2>1. Types /\ Lists /\ QueueFits
    BY DEF SessionInv
  <2>2. snd \in [Sends -> SendStates] /\ snd[k] \in SendStates /\ last \in Int
    BY <2>1 DEF Types
  <2>3. Fresh(k)
    BY FreshSends
  <2>4. SendFits(k) /\ snd[k].wait \subseteq Queued
    BY <2>1 DEF Lists, QueueFits
  <2>5. snd[k].prev \in Int /\ snd[k].prev >= -1
    BY <2>2, <2>4 DEF SendFits, SendStates
  <2>6. k # Peer
    BY DEF Sends, Peer
  <2> QED BY <2>1, <2>2, <2>3, <2>4, <2>5, <2>6
<1>2. PICK s, r, a : /\ s = [snd[k] EXCEPT !.pc = "post"]
                     /\ r = [id |-> IdOf(k), prev |-> snd[k].prev, from |-> snd[k].from]
                     /\ a = [seq |-> snd[k].prev + 1, id |-> IdOf(k), from |-> snd[k].from]
  OBVIOUS
<1>3. /\ s \in SendStates /\ s.pc = "post" /\ s.wait = snd[k].wait /\ SameTry(snd[k], s)
      /\ s.hi = snd[k].hi /\ s.code = snd[k].code /\ s.i \in 1 .. MaxTries /\ s.from \in Names
  BY <1>1, <1>2 DEF SendStates, SameTry
<1>4. IdOf(k) \in Ids /\ IdOf(k)[1] = k
  BY <1>1, <1>3, SessionAssumption DEF IdOf, Ids, Owners, SameTry
<1>5. /\ r \in Posts /\ r.id = IdOf(k) /\ r.prev = snd[k].prev /\ r.from = snd[k].from
      /\ a \in Attempts /\ a.id = IdOf(k) /\ a.seq = snd[k].prev + 1 /\ a.from = snd[k].from
  BY <1>1, <1>2, <1>3, <1>4 DEF Posts, Attempts, SameTry
<1>6. /\ net' = net \cup {r} /\ snd' = [snd EXCEPT ![k] = s]
      /\ attempts' = IF ~locked /\ snd[k].prev + 1 > last THEN attempts \cup {a} ELSE attempts
      /\ UNCHANGED <<log, name, locked, last, shown, queue, poll, stopped>>
  BY <1>2 DEF Post
<1>7. snd'[k] = s /\ \A m \in Sends : m # k => snd'[m] = snd[m]
  BY <1>1, <1>6
<1>8. OwnEvents' = OwnEvents /\ Head0' = Head0 /\ PeerEvents' = PeerEvents /\ IdOf(k)' = IdOf(k)
  BY <1>3, <1>6, <1>7 DEF OwnEvents, Head0, PeerEvents, IdOf, SameTry
<1>9. Types'
  BY <1>1, <1>3, <1>5, <1>6, <1>8 DEF Types
<1>10. QueueFits'
  <2>1. Head0' \in Int /\ Head0' >= Head0
    BY <1>1, <1>8, QueueTyped
  <2>2. ((s.pc = "fold") <=> (snd[k].pc = "fold")) /\ s.wait \subseteq Queued
    BY <1>1, <1>3
  <2>3. UNCHANGED <<queue, last, poll>> /\ snd' = [snd EXCEPT ![k] = s]
    BY <1>6
  <2> QED BY <1>3, <2>1, <2>2, <2>3, QueueStays
<1>11. ASSUME NEW q \in net' PROVE PostFits(q)'
  <2>1. CASE q = r
    BY <1>3, <1>4, <1>5, <1>7, <1>8, <2>1 DEF PostFits, SameTry
  <2>2. CASE q \in net
    <3>1. PostFits(q) /\ q.id[1] # k
      BY <1>1, <2>2 DEF Lists, Fresh, InNet
    <3> QED BY <1>7, <3>1 DEF PostFits, IdOf
  <2> QED BY <1>6, <2>1, <2>2
<1>12. ASSUME NEW b \in attempts' PROVE AttemptFits(b)'
  <2>1. CASE b = a
    BY <1>3, <1>4, <1>5, <1>7, <1>8, <2>1 DEF AttemptFits, SameTry
  <2>2. CASE b \in attempts
    <3>1. AttemptFits(b) /\ b.id[1] # k
      BY <1>1, <2>2 DEF Lists, Fresh
    <3> QED BY <1>7, <3>1 DEF AttemptFits, IdOf
  <2> QED BY <1>6, <2>1, <2>2
<1>13. ASSUME NEW i \in OwnEvents PROVE EventFits(i)'
  <2>1. EventFits(i) /\ log[i].id[1] # k
    BY <1>1 DEF Lists, Fresh, InLog
  <2> QED BY <1>6, <1>7, <2>1 DEF EventFits, IdOf
<1>14. SendFits(k)'
  BY <1>1, <1>3, <1>6, <1>7, <1>8 DEF SendFits, Fresh, InLog, Agrees, SameTry
<1>15. ASSUME NEW m \in Sends, m # k PROVE SendFits(m)'
  <2>1. SendFits(m) /\ (InNet(m)' <=> InNet(m))
    BY <1>1, <1>4, <1>5, <1>6, <1>15 DEF Lists, InNet
  <2> QED BY <1>6, <1>7, <1>8, <1>15, <2>1 DEF SendFits, InLog, Agrees
<1>16. Lists'
  BY <1>8, <1>11, <1>12, <1>13, <1>14, <1>15 DEF Lists
<1>17. Unlocked'
  <2> SUFFICES ASSUME ~locked, ~stopped PROVE Unlocked'
    BY <1>6 DEF Unlocked
  <2>1. attempts \subseteq attempts' /\ \A id : Evident(id) => Evident(id)'
    BY <1>6 DEF Evident
  <2>2. ASSUME NEW q \in net', q.prev = Head0 PROVE Evident(q.id)'
    <3>1. CASE q = r
      <4>1. snd[k].prev + 1 > last
        BY <1>1, <1>5, <2>2, <3>1 DEF Types, Head0
      <4> QED BY <1>5, <1>6, <3>1, <4>1 DEF Evident
    <3>2. CASE q \in net
      BY <2>1, <2>2, <3>2 DEF SessionInv, Named, Unlocked
    <3> QED BY <1>6, <3>1, <3>2
  <2> QED BY <1>6, <1>8, <2>1, <2>2 DEF SessionInv, Named, Unlocked
<1>18. Named'
  BY <1>6, <1>8, <1>17 DEF SessionInv, Named
<1>19. Ordered' /\ PeersFew'
  BY <1>6, <1>8 DEF SessionInv, Ordered, PeersFew
<1> QED BY <1>9, <1>10, <1>16, <1>18, <1>19 DEF SessionInv

LEMMA PostKeeps == ASSUME SessionInv, NEW k \in Sends, Post(k) PROVE SessionInv'
<1>1. /\ snd[k] \in SendStates /\ SendFits(k) /\ Fresh(k) /\ snd[k].wait \subseteq Queued
      /\ snd \in [Sends -> SendStates] /\ snd[k].pc = "seal" /\ Queued \subseteq Owners
      /\ snd[k].code = "none"
  BY FreshSends, QueuedOwners DEF SessionInv, Types, Lists, QueueFits, SendFits, Post
<1>2. UNCHANGED <<log, name, locked, last, shown, queue, poll, stopped>>
  BY DEF Post
<1>3. CASE stopped /\ snd' = [snd EXCEPT ![k].pc = "failed"] /\ UNCHANGED <<net, attempts>>
  <2>1. PICK s : s = [snd[k] EXCEPT !.pc = "failed"]
    OBVIOUS
  <2>2. /\ s \in SendStates /\ s.pc = "failed" /\ s.wait = snd[k].wait /\ s.prev = snd[k].prev
        /\ s.hi = snd[k].hi /\ s.code = snd[k].code
    BY <1>1, <2>1 DEF SendStates
  <2>3. snd' = [snd EXCEPT ![k] = s]
    BY <1>1, <1>3, <2>1
  <2>4. s.prev >= -1 /\ s.prev <= last /\ s.hi <= Head0
    BY <1>1, <2>2 DEF SendFits
  <2>5. UNCHANGED <<log, net, identity, last, shown, queue, poll, stopped>>
    BY <1>2, <1>3 DEF identity
  <2>6. s.pc # "fold" /\ snd[k].pc # "fold" /\ s.pc # "seal" /\ s.code = "none" /\ s.wait \subseteq Queued
    BY <1>1, <2>2
  <2> QED BY <1>1, <2>2, <2>3, <2>4, <2>5, <2>6, SendMoves
<1>4. CASE snd' = [snd EXCEPT ![k] = Again(snd[k])] /\ UNCHANGED <<net, attempts>>
  <2>1. PICK s : s = Again(snd[k])
    OBVIOUS
  <2>2. /\ s \in SendStates /\ s.prev = snd[k].prev /\ s.hi = snd[k].hi /\ s.code = "none"
        /\ s.pc \in {"wait", "failed"} /\ s.wait \subseteq Queued
    BY <1>1, <2>1, AgainMoves
  <2>3. s.prev >= -1 /\ s.prev <= last /\ s.hi <= Head0
    BY <1>1, <2>2 DEF SendFits
  <2>4. UNCHANGED <<log, net, identity, last, shown, queue, poll, stopped>>
    BY <1>2, <1>4 DEF identity
  <2>5. s.pc # "fold" /\ snd[k].pc # "fold" /\ s.pc # "seal"
    BY <1>1, <2>2
  <2>6. snd' = [snd EXCEPT ![k] = s]
    BY <1>4, <2>1
  <2> QED BY <1>1, <2>2, <2>3, <2>4, <2>5, <2>6, SendMoves
<1>5. CASE ~stopped /\ (locked => snd[k].from = name) /\ snd' = [snd EXCEPT ![k].pc = "post"]
  <2>1. snd'[k].pc = "post"
    BY <1>1, <1>5 DEF SendStates
  <2> QED BY <1>1, <1>5, <2>1, PostGoes
<1> QED BY <1>3, <1>4, <1>5 DEF Post

\* The log grows by an event e; sends keep their tries.
LEMMA LogGrows ==
  ASSUME SessionInv, NEW e \in Blob, log' = Append(log, e)
  PROVE  /\ log' \in Seq(Blob) /\ Len(log') = Len(log) + 1 /\ Len(log) \in Nat
         /\ log'[Len(log) + 1] = e /\ \A i \in 1 .. Len(log) : log'[i] = log[i]
         /\ Head0' = Head0 + 1 /\ Head0 \in Int
         /\ OwnEvents \subseteq 1 .. Len(log) /\ PeerEvents \subseteq 1 .. Len(log)
         /\ OwnEvents' = IF e.id[1] = Peer THEN OwnEvents ELSE OwnEvents \cup {Len(log) + 1}
         /\ PeerEvents' = IF e.id[1] = Peer THEN PeerEvents \cup {Len(log) + 1} ELSE PeerEvents
<1>1. log \in Seq(Blob)
  BY DEF SessionInv, Types
<1>2. /\ log' \in Seq(Blob) /\ Len(log') = Len(log) + 1 /\ Len(log) \in Nat
      /\ log'[Len(log) + 1] = e /\ \A i \in 1 .. Len(log) : log'[i] = log[i]
      /\ DOMAIN log = 1 .. Len(log) /\ DOMAIN log' = 1 .. Len(log) + 1
  BY <1>1
<1>3. \A i : i \in 1 .. Len(log) + 1 <=> i \in 1 .. Len(log) \/ i = Len(log) + 1
  BY <1>2
<1>4. OwnEvents' = IF e.id[1] = Peer THEN OwnEvents ELSE OwnEvents \cup {Len(log) + 1}
  BY <1>2, <1>3 DEF OwnEvents
<1>5. PeerEvents' = IF e.id[1] = Peer THEN PeerEvents \cup {Len(log) + 1} ELSE PeerEvents
  BY <1>2, <1>3 DEF PeerEvents
<1> QED BY <1>2, <1>4, <1>5 DEF Head0, OwnEvents, PeerEvents

LEMMA PeerPostKeeps == ASSUME SessionInv, NEW n \in Names, PeerPost(n) PROVE SessionInv'
<1>1. PICK e : e = [id |-> <<Peer, Cardinality(PeerEvents) + 1>>, from |-> n]
  OBVIOUS
<1>2. /\ log' = Append(log, e) /\ Cardinality(PeerEvents) < MaxPeer
      /\ UNCHANGED <<net, name, locked, attempts, last, shown, queue, snd, poll, stopped>>
  BY <1>1 DEF PeerPost, identity
<1>3. IsFiniteSet(PeerEvents) /\ Cardinality(PeerEvents) \in Nat
  <2>1. PeerEvents \subseteq 1 .. Len(log) /\ Len(log) \in Nat
    BY DEF PeerEvents, SessionInv, Types
  <2>2. IsFiniteSet(1 .. Len(log))
    BY <2>1, FS_Interval
  <2> QED BY <2>1, <2>2, FS_Subset, FS_CardinalityType
<1>4. e \in Blob /\ e.id[1] = Peer
  BY <1>1, <1>2, <1>3, SessionAssumption DEF Blob, Ids, Owners, Peer, Poll
<1>5. /\ log' \in Seq(Blob) /\ Len(log) \in Nat /\ Head0' = Head0 + 1 /\ Head0 \in Int
      /\ OwnEvents \subseteq 1 .. Len(log) /\ PeerEvents \subseteq 1 .. Len(log)
      /\ OwnEvents' = OwnEvents /\ PeerEvents' = PeerEvents \cup {Len(log) + 1}
      /\ \A i \in OwnEvents : log'[i] = log[i]
  BY <1>2, <1>4, LogGrows
<1>6. PeersFew'
  <2>0. Cardinality(PeerEvents \cup {Len(log) + 1})
          = IF Len(log) + 1 \in PeerEvents THEN Cardinality(PeerEvents) ELSE Cardinality(PeerEvents) + 1
    BY <1>3, FS_AddElement, Zenon
  <2>1. Cardinality(PeerEvents \cup {Len(log) + 1}) <= Cardinality(PeerEvents) + 1
    BY <1>3, <2>0
  <2>2. Cardinality(PeerEvents \cup {Len(log) + 1}) \in Nat
    BY <1>3, FS_AddElement, FS_CardinalityType
  <2> QED BY <1>2, <1>3, <1>5, <2>1, <2>2, SessionAssumption DEF PeersFew
<1>7. Types'
  BY <1>2, <1>5 DEF SessionInv, Types
<1>8. QueueFits'
  <2>1. poll.hi \in Int /\ \A j \in DOMAIN queue : queue[j].hi \in Int
    BY QueueTyped DEF SessionInv
  <2>2. \A j \in DOMAIN queue : BatchFits(j)'
    BY <1>2, <1>5, <2>1 DEF SessionInv, QueueFits, BatchFits
  <2> QED BY <1>2, <1>5, <2>1, <2>2 DEF SessionInv, QueueFits, Queued
<1>9. Lists'
  <2>1. \A r \in net : PostFits(r)'
    BY <1>2 DEF SessionInv, Lists, PostFits, IdOf
  <2>2. \A a \in attempts : AttemptFits(a)'
    BY <1>2 DEF SessionInv, Lists, AttemptFits, IdOf
  <2>3. \A i \in OwnEvents : EventFits(i)'
    BY <1>2, <1>5 DEF SessionInv, Lists, EventFits, IdOf
  <2>4. ASSUME NEW k \in Sends PROVE SendFits(k)'
    <3>1. SendFits(k) /\ snd[k].hi \in Int
      BY DEF SessionInv, Lists, Types, SendStates
    <3>2. (InNet(k)' <=> InNet(k)) /\ (InLog(k)' <=> InLog(k)) /\ (Agrees(k)' <=> Agrees(k))
      BY <1>2, <1>5 DEF InNet, InLog, Agrees
    <3> QED BY <1>2, <1>5, <3>1, <3>2 DEF SendFits
  <2> QED BY <1>2, <1>5, <2>1, <2>2, <2>3, <2>4 DEF Lists
<1>10. ASSUME NEW r \in net PROVE r.prev # Head0 + 1
  <2>1. r.id[1] \in Sends /\ r.prev = snd[r.id[1]].prev
    BY DEF SessionInv, Lists, PostFits
  <2>2. snd[r.id[1]].prev <= last /\ snd[r.id[1]].prev \in Int
    BY <2>1 DEF SessionInv, Lists, SendFits, Types, SendStates
  <2> QED BY <1>5, <2>1, <2>2 DEF SessionInv, Types
<1>11. Unlocked'
  BY <1>2, <1>5, <1>10 DEF SessionInv, Named, Unlocked, Evident
<1>12. Named'
  BY <1>2, <1>5, <1>11 DEF SessionInv, Named
<1>13. Ordered'
  BY <1>2 DEF SessionInv, Ordered
<1> QED BY <1>6, <1>7, <1>8, <1>9, <1>12, <1>13 DEF SessionInv

\* The sends once k's post was answered, if k still waits for that.
Answered(k, id, code, hi) ==
  IF snd[k].pc = "post" /\ IdOf(k) = id THEN [snd EXCEPT ![k].code = code, ![k].hi = hi] ELSE snd

Settles(s, k, code, hi) ==
  /\ snd' = [snd EXCEPT ![k] = s] /\ SameTry(snd[k], s) /\ s.pc = snd[k].pc
  /\ s.wait = snd[k].wait /\ s.pc \in {"post", "failed"}
  /\ s.pc = "post" => s.code = code /\ s.hi = hi
  /\ s.pc = "failed" => s.code = "none" /\ s.hi = snd[k].hi

\* What the server answers to the post of k becomes the state s of k.
LEMMA AnswerMoves ==
  ASSUME SessionInv, NEW r \in net, NEW k \in Sends, k = r.id[1],
         NEW code \in {"ok", "conflict", "refused"}, NEW hi \in Int,
         snd' = Answered(k, r.id, code, hi)
  PROVE  \E s \in SendStates : Settles(s, k, code, hi)
<1>1. /\ snd \in [Sends -> SendStates] /\ snd[k] \in SendStates /\ SendFits(k) /\ r.id = IdOf(k)
      /\ InNet(k)
  BY DEF SessionInv, Types, Lists, PostFits, InNet
<1>2. snd[k].pc \in {"post", "failed"} /\ snd[k].code = "none"
  BY <1>1 DEF SendFits
<1>3. CASE snd[k].pc = "post"
  <2>1. PICK s : s = [snd[k] EXCEPT !.code = code, !.hi = hi]
    OBVIOUS
  <2>2. /\ s \in SendStates /\ SameTry(snd[k], s) /\ s.pc = snd[k].pc /\ s.wait = snd[k].wait
        /\ s.code = code /\ s.hi = hi
    BY <1>1, <2>1 DEF SendStates, SameTry
  <2>3. snd' = [snd EXCEPT ![k] = s]
    BY <1>1, <1>3, <2>1 DEF Answered
  <2>4. Settles(s, k, code, hi)
    BY <1>3, <2>2, <2>3 DEF Settles
  <2> QED BY <2>2, <2>4
<1>4. CASE snd[k].pc = "failed"
  <2>1. snd' = [snd EXCEPT ![k] = snd[k]]
    BY <1>1, <1>4 DEF Answered
  <2>2. Settles(snd[k], k, code, hi)
    BY <1>1, <1>2, <1>4, <2>1 DEF Settles, SameTry
  <2> QED BY <1>1, <2>2
<1> QED BY <1>2, <1>3, <1>4

\* The server refuses a post or answers a conflict.
LEMMA RefusedKeeps ==
  ASSUME SessionInv, NEW r \in net, NEW k \in Sends, k = r.id[1],
         net' = net \ {r}, UNCHANGED <<log, identity, last, shown, queue, poll, stopped>>,
         NEW code \in {"conflict", "refused"}, NEW hi \in Int, hi <= Head0,
         snd' = Answered(k, r.id, code, hi)
  PROVE  SessionInv'
<1>0. PICK s \in SendStates : Settles(s, k, code, hi)
  <2>1. code \in {"ok", "conflict", "refused"}
    OBVIOUS
  <2> QED BY <2>1, AnswerMoves
<1>1. /\ snd' = [snd EXCEPT ![k] = s] /\ SameTry(snd[k], s) /\ s.pc = snd[k].pc
      /\ s.wait = snd[k].wait /\ s.pc \in {"post", "failed"}
      /\ s.pc = "post" => s.code = code /\ s.hi = hi
      /\ s.pc = "failed" => s.code = "none" /\ s.hi = snd[k].hi
  BY <1>0 DEF Settles
<1>2. snd \in [Sends -> SendStates] /\ snd'[k] = s /\ \A m \in Sends : m # k => snd'[m] = snd[m]
  BY <1>1 DEF SessionInv, Types
<1>3. OwnEvents' = OwnEvents /\ Head0' = Head0 /\ PeerEvents' = PeerEvents
      /\ UNCHANGED <<name, locked, attempts>>
  BY DEF OwnEvents, Head0, PeerEvents, identity
<1>4. SendFits(k) /\ InNet(k)
  BY DEF SessionInv, Lists, InNet
<1>5. ASSUME NEW q \in net, q.id[1] = k PROVE q = r
  <2>1. q \in Posts /\ r \in Posts /\ PostFits(q) /\ PostFits(r)
    BY DEF SessionInv, Types, Lists
  <2>2. q.id = r.id /\ q.prev = r.prev /\ q.from = r.from
    BY <1>5, <2>1 DEF PostFits
  <2> QED BY <2>1, <2>2 DEF Posts
<1>6. ~InNet(k)'
  BY <1>5 DEF InNet
<1>7. SendFits(k)'
  BY <1>1, <1>2, <1>3, <1>4, <1>6 DEF SendFits, InLog, SameTry
<1>8. ASSUME NEW q \in net' PROVE PostFits(q)'
  <2>1. PostFits(q) /\ q.id[1] # k
    BY <1>5 DEF SessionInv, Lists
  <2> QED BY <1>2, <2>1 DEF PostFits, IdOf
<1>9. ASSUME NEW a \in attempts PROVE AttemptFits(a)'
  <2>1. AttemptFits(a)
    BY DEF SessionInv, Lists
  <2>2. CASE a.id[1] = k
    BY <1>1, <1>2, <2>1, <2>2 DEF AttemptFits, IdOf, SameTry
  <2>3. CASE a.id[1] # k
    BY <1>2, <2>1, <2>3 DEF AttemptFits, IdOf
  <2> QED BY <2>2, <2>3
<1>10. ASSUME NEW i \in OwnEvents PROVE EventFits(i)'
  <2>1. EventFits(i)
    BY DEF SessionInv, Lists
  <2> QED BY <1>1, <1>2, <1>3, <2>1 DEF EventFits, IdOf, SameTry
<1>11. ASSUME NEW m \in Sends, m # k PROVE SendFits(m)'
  <2>1. SendFits(m) /\ (InNet(m)' <=> InNet(m))
    BY <1>11 DEF SessionInv, Lists, InNet
  <2> QED BY <1>2, <1>3, <1>11, <2>1 DEF SendFits, InLog, Agrees
<1>12. Lists'
  BY <1>3, <1>7, <1>8, <1>9, <1>10, <1>11 DEF Lists
<1>13. QueueFits'
  <2>1. Head0' \in Int /\ Head0' >= Head0
    BY <1>3, QueueTyped DEF SessionInv
  <2>2. ((s.pc = "fold") <=> (snd[k].pc = "fold")) /\ s.wait \subseteq Queued
    BY <1>1 DEF SessionInv, QueueFits
  <2> QED BY <1>1, <2>1, <2>2, QueueStays
<1>14. Unlocked'
  BY <1>3 DEF SessionInv, Named, Unlocked, Evident
<1>15. Named'
  BY <1>3, <1>14 DEF SessionInv, Named
<1>16. Types' /\ Ordered' /\ PeersFew'
  BY <1>1, <1>3 DEF SessionInv, Types, Ordered, PeersFew
<1> QED BY <1>12, <1>13, <1>15, <1>16 DEF SessionInv

\* The server appends the event of a post that was sealed at the head.
LEMMA AcceptedKeeps ==
  ASSUME SessionInv, NEW r \in net, NEW k \in Sends, k = r.id[1], r.prev = Head0,
         net' = net \ {r}, UNCHANGED <<identity, last, shown, queue, poll, stopped>>,
         log' = Append(log, [id |-> r.id, from |-> r.from]),
         snd' = Answered(k, r.id, "ok", -1)
  PROVE  SessionInv'
<1>0. PICK s \in SendStates : Settles(s, k, "ok", -1)
  <2>1. "ok" \in {"ok", "conflict", "refused"} /\ -1 \in Int
    OBVIOUS
  <2> QED BY <2>1, AnswerMoves
<1>1. /\ snd' = [snd EXCEPT ![k] = s] /\ SameTry(snd[k], s) /\ s.pc = snd[k].pc
      /\ s.wait = snd[k].wait /\ s.pc \in {"post", "failed"}
      /\ s.pc = "post" => s.code = "ok" /\ s.hi = -1
      /\ s.pc = "failed" => s.code = "none" /\ s.hi = snd[k].hi
  BY <1>0 DEF Settles
<1>2. snd \in [Sends -> SendStates] /\ snd'[k] = s /\ \A m \in Sends : m # k => snd'[m] = snd[m]
  BY <1>1 DEF SessionInv, Types
<1>3. PICK e, n : e = [id |-> r.id, from |-> r.from] /\ n = Len(log) + 1
  OBVIOUS
<1>4. r \in Posts /\ PostFits(r) /\ k # Peer
  BY DEF SessionInv, Types, Lists, Sends, Peer
<1>5. e \in Blob /\ e.id = r.id /\ e.from = r.from
  BY <1>3, <1>4 DEF Blob, Posts
<1>6. /\ log' \in Seq(Blob) /\ Len(log) \in Nat /\ Head0' = Head0 + 1 /\ Head0 \in Int
      /\ log'[n] = e /\ OwnEvents \subseteq 1 .. Len(log) /\ \A i \in OwnEvents : log'[i] = log[i]
      /\ OwnEvents' = OwnEvents \cup {n} /\ PeerEvents' = PeerEvents
  BY <1>3, <1>4, <1>5, LogGrows
<1>7. SendFits(k) /\ InNet(k) /\ Agrees(k) /\ ~InLog(k) /\ UNCHANGED <<name, locked, attempts>>
  BY DEF SessionInv, Lists, InNet, SendFits, identity
<1>8. ASSUME NEW q \in net, q.id[1] = k PROVE q = r
  <2>1. q \in Posts /\ r \in Posts /\ PostFits(q) /\ PostFits(r)
    BY DEF SessionInv, Types, Lists
  <2>2. q.id = r.id /\ q.prev = r.prev /\ q.from = r.from
    BY <1>8, <2>1 DEF PostFits
  <2> QED BY <2>1, <2>2 DEF Posts
<1>9. ~InNet(k)' /\ InLog(k)'
  <2>1. log'[n].id[1] = k /\ n \in OwnEvents'
    BY <1>5, <1>6
  <2> QED BY <1>8, <2>1 DEF InNet, InLog
<1>10. \A i \in OwnEvents : log[i].from = r.from
  <2>1. \A i \in OwnEvents : i - 1 <= snd[k].prev
    BY <1>4, <1>6 DEF PostFits, Head0
  <2> QED BY <1>4, <1>7, <2>1 DEF Agrees, PostFits
<1>11. \A m \in Sends : snd[m].prev < Len(log) /\ snd[m].prev \in Int
  <2>1. \A m \in Sends : snd[m].prev <= last /\ snd[m].prev \in Int
    BY DEF SessionInv, Lists, SendFits, Types, SendStates
  <2> QED BY <1>6, <2>1 DEF SessionInv, Types, Head0
<1>12. ASSUME NEW q \in net' PROVE PostFits(q)'
  <2>1. PostFits(q) /\ q.id[1] # k
    BY <1>8 DEF SessionInv, Lists
  <2> QED BY <1>2, <2>1 DEF PostFits, IdOf
<1>13. ASSUME NEW a \in attempts PROVE AttemptFits(a)'
  <2>1. AttemptFits(a)
    BY DEF SessionInv, Lists
  <2>2. CASE a.id[1] = k
    BY <1>1, <1>2, <2>1, <2>2 DEF AttemptFits, IdOf, SameTry
  <2>3. CASE a.id[1] # k
    BY <1>2, <2>1, <2>3 DEF AttemptFits, IdOf
  <2> QED BY <2>2, <2>3
<1>14. ASSUME NEW i \in OwnEvents' PROVE EventFits(i)'
  <2>1. CASE i = n
    <3>1. n = snd[k].prev + 2
      BY <1>3, <1>4, <1>6 DEF PostFits, Head0
    <3>2. log'[i].id = IdOf(k) /\ log'[i].id[1] = k /\ log'[i].from = s.from
      <4>1. log'[i] = e /\ e.id = r.id /\ e.from = r.from
        BY <1>5, <1>6, <2>1
      <4>2. r.id = IdOf(k) /\ r.from = s.from
        BY <1>1, <1>4 DEF PostFits, SameTry
      <4> QED BY <4>1, <4>2
    <3>3. IdOf(k)' = IdOf(k) /\ snd'[k].prev = snd[k].prev
      <4>1. snd'[k] = s /\ s.i = snd[k].i /\ s.prev = snd[k].prev
        BY <1>1, <1>2 DEF SameTry
      <4> QED BY <4>1 DEF IdOf
    <3>4. snd'[k].from = s.from
      BY <1>2
    <3> QED BY <2>1, <3>1, <3>2, <3>3, <3>4 DEF EventFits, IdOf
  <2>2. CASE i \in OwnEvents
    <3>1. EventFits(i) /\ log[i].id[1] # k
      BY <1>7, <2>2 DEF SessionInv, Lists, InLog
    <3>2. log'[i] = log[i] /\ snd'[log[i].id[1]] = snd[log[i].id[1]]
      BY <1>2, <1>6, <2>2, <3>1 DEF EventFits
    <3> QED BY <3>1, <3>2 DEF EventFits, IdOf
  <2> QED BY <1>6, <2>1, <2>2
<1>15. SendFits(k)'
  <2>0. Head0 >= -1 /\ snd[k].hi \in Int /\ snd[k].hi <= Head0
    BY <1>2, <1>6, <1>7 DEF SendFits, Head0, SendStates
  <2>1. s.hi <= Head0 + 1
    BY <1>1, <1>6, <2>0
  <2>2. /\ snd'[k] = s /\ s.prev = snd[k].prev /\ s.pc \in {"post", "failed"} /\ s.code \in {"none", "ok"}
        /\ s.pc = "post" => s.code = "ok"
    BY <1>1, <1>2 DEF SameTry
  <2>3. snd[k].prev >= -1 /\ snd[k].prev <= last /\ last' = last /\ s.hi <= Head0'
    BY <1>6, <1>7, <2>1 DEF SendFits
  <2> QED BY <1>9, <2>2, <2>3 DEF SendFits
<1>16. ASSUME NEW m \in Sends, m # k PROVE SendFits(m)'
  <2>1. SendFits(m) /\ (InNet(m)' <=> InNet(m))
    BY <1>16 DEF SessionInv, Lists, InNet
  <2>2. InLog(m)' <=> InLog(m)
    BY <1>5, <1>6, <1>16 DEF InLog
  <2>3. Agrees(m) => Agrees(m)'
    BY <1>2, <1>3, <1>6, <1>11, <1>16 DEF Agrees
  <2>4. snd[m].hi \in Int
    BY <1>2 DEF SendStates
  <2> QED BY <1>2, <1>6, <1>16, <2>1, <2>2, <2>3, <2>4 DEF SendFits
<1>17. Lists'
  BY <1>7, <1>12, <1>13, <1>14, <1>15, <1>16 DEF Lists
<1>18. QueueFits'
  <2>1. Head0' \in Int /\ Head0' >= Head0
    BY <1>6
  <2>2. ((s.pc = "fold") <=> (snd[k].pc = "fold")) /\ s.wait \subseteq Queued
    BY <1>1 DEF SessionInv, QueueFits
  <2> QED BY <1>1, <2>1, <2>2, QueueStays
<1>19. Unlocked'
  <2> SUFFICES ASSUME ~locked, ~stopped PROVE Unlocked'
    BY <1>7 DEF Unlocked
  <2>1. Evident(r.id) /\ \A id : Evident(id) => Evident(id)'
    BY <1>7 DEF SessionInv, Named, Unlocked, Evident
  <2>2. n - 1 > last
    BY <1>3, <1>6 DEF SessionInv, Types, Head0
  <2>3. queue # <<>> /\ queue[1].opening => n - 1 # queue[1].next
    <3> SUFFICES ASSUME queue # <<>>, queue[1].opening PROVE n - 1 # queue[1].next
      OBVIOUS
    <3>1. 1 \in DOMAIN queue /\ queue[1] \in Batches
      BY DEF SessionInv, Types
    <3>2. queue[1].next <= queue[1].hi /\ queue[1].hi <= Head0
      BY <3>1 DEF SessionInv, QueueFits, BatchFits
    <3> QED BY <1>3, <1>6, <3>1, <3>2 DEF Head0, Batches
  <2>4. ASSUME NEW q \in net' PROVE q.prev # Head0'
    <3>1. q.id[1] \in Sends /\ q.prev = snd[q.id[1]].prev
      BY DEF SessionInv, Lists, PostFits
    <3>2. q.prev < Len(log) /\ q.prev \in Int
      BY <1>11, <3>1
    <3> QED BY <1>6, <3>2 DEF Head0
  <2> QED BY <1>5, <1>6, <1>7, <2>1, <2>2, <2>3, <2>4 DEF SessionInv, Named, Unlocked
<1>20. Named'
  <2>1. \A i \in OwnEvents' : log'[i].from = r.from
    BY <1>5, <1>6, <1>10
  <2>2. locked => r.from = name /\ attempts' = {}
    BY <1>7, <1>10 DEF SessionInv, Named
  <2> QED BY <1>6, <1>7, <1>19, <2>1, <2>2 DEF Named
<1>21. Types'
  <2>1. snd' \in [Sends -> SendStates]
    BY <1>1, <1>2
  <2>2. last' <= Head0' /\ log' \in Seq(Blob)
    BY <1>6 DEF SessionInv, Types
  <2> QED BY <1>7, <2>1, <2>2 DEF SessionInv, Types
<1>22. Ordered' /\ PeersFew'
  BY <1>6 DEF SessionInv, Ordered, PeersFew
<1> QED BY <1>17, <1>18, <1>20, <1>21, <1>22 DEF SessionInv

LEMMA ServerPostKeeps == ASSUME SessionInv, NEW r \in net, ServerPost(r) PROVE SessionInv'
<1>1. PICK k \in Sends : k = r.id[1]
  BY DEF SessionInv, Lists, PostFits
<1>2. r.prev \in Int /\ Head0 \in Int
  BY QueueTyped DEF SessionInv, Types, Posts
<1>3. net' = net \ {r} /\ UNCHANGED <<identity, last, shown, queue, poll, stopped>>
  BY DEF ServerPost
<1>4. CASE r.prev = Head0 /\ log' = Append(log, [id |-> r.id, from |-> r.from])
           /\ snd' = Answered(k, r.id, "ok", -1)
  BY <1>1, <1>3, <1>4, AcceptedKeeps
<1>5. ASSUME NEW hi \in r.prev + 1 .. Head0, log' = log, snd' = Answered(k, r.id, "conflict", hi)
      PROVE  SessionInv'
  BY <1>1, <1>2, <1>3, <1>5, RefusedKeeps
<1>6. CASE log' = log /\ snd' = Answered(k, r.id, "refused", -1)
  <2>1. -1 \in Int /\ -1 <= Head0
    BY QueueTyped DEF SessionInv, Head0
  <2> QED BY <1>1, <1>3, <1>6, <2>1, RefusedKeeps
<1> QED BY <1>1, <1>4, <1>5, <1>6 DEF ServerPost, Answered

-----------------------------------------------------------------------------
(* The answer arrives, and deliveries are queued *)

\* A delivery b of an owner that has none joins the queue.
LEMMA QueueGrows ==
  ASSUME SessionInv, NEW b \in Batches, queue' = Append(queue, b), UNCHANGED <<log, last>>,
         b.owner \notin Queued, b.next <= last + 1, b.hi <= Head0, b.opening = FALSE
  PROVE  /\ queue' \in Seq(Batches) /\ Queued' = Queued \cup {b.owner}
         /\ \A i, j \in DOMAIN queue' : queue'[i].owner = queue'[j].owner => i = j
         /\ \A j \in DOMAIN queue' : BatchFits(j)'
         /\ queue' # <<>> /\ queue'[1].opening =>
              queue # <<>> /\ queue[1].opening /\ queue[1].next = queue'[1].next
<1>1. queue \in Seq(Batches) /\ QueueFits
  BY DEF SessionInv, Types
<1>2. /\ queue' \in Seq(Batches) /\ Len(queue) \in Nat /\ DOMAIN queue = 1 .. Len(queue)
      /\ DOMAIN queue' = 1 .. Len(queue) + 1 /\ queue'[Len(queue) + 1] = b
      /\ \A j \in 1 .. Len(queue) : queue'[j] = queue[j]
  BY <1>1
<1>3. \A j : j \in DOMAIN queue' <=> j \in DOMAIN queue \/ j = Len(queue) + 1
  BY <1>2
<1>4. \A j \in DOMAIN queue : queue[j].owner # b.owner
  BY DEF Queued
<1>5. Queued' = Queued \cup {b.owner}
  BY <1>2, <1>3 DEF Queued
<1>6. \A i, j \in DOMAIN queue' : queue'[i].owner = queue'[j].owner => i = j
  BY <1>1, <1>2, <1>3, <1>4 DEF QueueFits
<1>7. ASSUME NEW j \in DOMAIN queue' PROVE BatchFits(j)'
  <2>1. Head0' = Head0
    BY DEF Head0
  <2>2. CASE j \in DOMAIN queue
    BY <1>1, <1>2, <2>1, <2>2 DEF QueueFits, BatchFits
  <2>3. CASE j = Len(queue) + 1
    BY <1>2, <2>1, <2>3 DEF BatchFits
  <2> QED BY <1>3, <2>2, <2>3
<1>8. queue' # <<>> /\ queue'[1].opening =>
        queue # <<>> /\ queue[1].opening /\ queue[1].next = queue'[1].next
  <2>1. CASE Len(queue) = 0
    BY <1>2, <2>1
  <2>2. CASE Len(queue) # 0
    BY <1>1, <1>2, <2>2
  <2> QED BY <2>1, <2>2
<1> QED BY <1>2, <1>5, <1>6, <1>7, <1>8

\* An own event and its attempt are of one try of one send.
LEMMA EventTry ==
  ASSUME SessionInv, NEW i \in OwnEvents
  PROVE  /\ log[i].id[1] \in Sends /\ InLog(log[i].id[1]) /\ i \in Int /\ i = snd[log[i].id[1]].prev + 2
         /\ \A a \in attempts : a.id = log[i].id =>
              a.seq = i - 1 /\ a.from = log[i].from /\ a.seq \in Int
<1>1. EventFits(i) /\ i \in Int
  BY QueueTyped DEF SessionInv, Lists, OwnEvents
<1>2. InLog(log[i].id[1])
  BY <1>1 DEF InLog
<1>3. ASSUME NEW a \in attempts, a.id = log[i].id
      PROVE  a.seq = i - 1 /\ a.from = log[i].from /\ a.seq \in Int
  <2>1. AttemptFits(a) /\ a.seq \in Int
    BY DEF SessionInv, Lists, Types, Attempts
  <2>2. snd[log[i].id[1]].prev \in Int
    BY <1>1 DEF EventFits, SessionInv, Types, SendStates
  <2>3. i = snd[log[i].id[1]].prev + 2 /\ a.seq = snd[log[i].id[1]].prev + 1
    BY <1>1, <1>3, <2>1 DEF AttemptFits, EventFits
  <2>4. i - 1 = a.seq
    BY <2>2, <2>3
  <2> QED BY <1>1, <1>3, <2>1, <2>4 DEF AttemptFits, EventFits
<1> QED BY <1>1, <1>2, <1>3 DEF EventFits

\* The attempt of k's try is dropped; nothing else of k is on the way.
LEMMA WithoutKeeps ==
  ASSUME SessionInv, NEW k \in Sends, ~InNet(k), ~InLog(k), attempts' = Without(k),
         UNCHANGED <<log, net, name, locked, last, stopped>>,
         queue' # <<>> /\ queue'[1].opening =>
           queue # <<>> /\ queue[1].opening /\ queue[1].next = queue'[1].next
  PROVE  Named' /\ \A a \in attempts' : a.id[1] # k
<1>1. OwnEvents' = OwnEvents /\ Head0' = Head0
  BY DEF OwnEvents, Head0
<1>2. attempts' \subseteq attempts
  BY DEF Without
<1>3. ASSUME NEW a \in attempts' PROVE a.id[1] # k
  <2>1. a \in attempts /\ a.id # IdOf(k) /\ AttemptFits(a)
    BY <1>2 DEF Without, SessionInv, Lists
  <2> QED BY <2>1 DEF AttemptFits
<1>4. ASSUME NEW id, id[1] # k, Evident(id) PROVE Evident(id)'
  <2>1. PICK a \in attempts : a.id = id
    BY <1>4 DEF Evident
  <2>2. a.id # IdOf(k)
    BY <1>4, <2>1 DEF IdOf
  <2> QED BY <2>1, <2>2 DEF Without, Evident
<1>5. \A i \in OwnEvents : log[i].id[1] # k
  BY DEF InLog
<1>6. \A r \in net : r.id[1] # k
  BY DEF InNet
<1>7. Unlocked'
  <2> SUFFICES ASSUME ~locked, ~stopped PROVE Unlocked'
    BY DEF Unlocked
  <2>1. \A i \in OwnEvents : i - 1 > last /\ Evident(log[i].id)'
    BY <1>4, <1>5 DEF SessionInv, Named, Unlocked
  <2>2. \A r \in net : r.prev = Head0 => Evident(r.id)'
    BY <1>4, <1>6 DEF SessionInv, Named, Unlocked
  <2> QED BY <1>1, <2>1, <2>2 DEF SessionInv, Named, Unlocked
<1>8. locked => attempts' = {}
  BY <1>2 DEF SessionInv, Named
<1> QED BY <1>1, <1>3, <1>7, <1>8 DEF SessionInv, Named

LEMMA SuccessKeeps ==
  ASSUME SessionInv, NEW k \in Sends, snd[k].code = "ok", snd[k].pc = "post",
         LockName(snd[k].from, attempts), snd' = [snd EXCEPT ![k].pc = "ok"],
         UNCHANGED <<log, net, last, shown, queue, poll, stopped>>
  PROVE  SessionInv'
<1>1. /\ snd[k] \in SendStates /\ SendFits(k) /\ snd \in [Sends -> SendStates]
      /\ snd[k].wait \subseteq Queued
  BY DEF SessionInv, Types, Lists, QueueFits
<1>2. PICK s : s = [snd[k] EXCEPT !.pc = "ok"]
  OBVIOUS
<1>3. /\ s \in SendStates /\ s.pc = "ok" /\ s.wait = snd[k].wait /\ SameTry(snd[k], s)
      /\ s.hi = snd[k].hi /\ s.code = "ok" /\ s.from \in Names
  BY <1>1, <1>2 DEF SendStates, SameTry
<1>4. snd' = [snd EXCEPT ![k] = s]
  BY <1>1, <1>2
<1>5. snd'[k] = s
  BY <1>1, <1>4
<1>6. OwnEvents' = OwnEvents /\ Head0' = Head0 /\ PeerEvents' = PeerEvents
  BY DEF OwnEvents, Head0, PeerEvents
<1>7. InLog(k) /\ ~InNet(k)
  BY <1>1 DEF SendFits
<1>8. PICK e \in OwnEvents : log[e].id[1] = k
  BY <1>7 DEF InLog
<1>9. log[e].from = snd[k].from
  BY <1>8 DEF SessionInv, Lists, EventFits
<1>10. attempts' = {} /\ locked' = TRUE /\ name' = IF locked THEN name ELSE snd[k].from
  <2>1. CASE locked
    <3>1. locked' = locked /\ locked \in BOOLEAN /\ attempts = {} /\ attempts' = attempts /\ name' = name
      BY <2>1 DEF LockName, SessionInv, Named, Types
    <3> QED BY <2>1, <3>1
  <2>2. CASE ~locked
    BY <2>2 DEF LockName
  <2> QED BY <2>1, <2>2
<1>11. \A i \in OwnEvents : log[i].from = snd[k].from
  BY <1>9 DEF SessionInv, Named
<1>12. \A i \in OwnEvents : log[i].from = name'
  BY <1>10, <1>11 DEF SessionInv, Named
<1>13. Named'
  BY <1>6, <1>8, <1>10, <1>11, <1>12 DEF Named, Unlocked
<1>14. SendFits(k)'
  BY <1>1, <1>3, <1>5, <1>6, <1>7 DEF SendFits, InNet, InLog, Agrees
<1>15. Lists'
  BY <1>3, <1>4, <1>10, <1>14, ListsMove
<1>16. QueueFits'
  <2>1. Head0' \in Int /\ Head0' >= Head0
    BY <1>6, QueueTyped DEF SessionInv
  <2>2. ((s.pc = "fold") <=> (snd[k].pc = "fold")) /\ s.wait \subseteq Queued
    BY <1>1, <1>3
  <2> QED BY <1>3, <1>4, <2>1, <2>2, QueueStays
<1>17. name' \in Names
  BY <1>3, <1>10 DEF SessionInv, Types, SameTry
<1>18. Types'
  <2>1. snd' \in [Sends -> SendStates]
    BY <1>1, <1>3, <1>4
  <2> QED BY <1>6, <1>10, <1>17, <2>1 DEF SessionInv, Types
<1>19. Ordered' /\ PeersFew'
  BY <1>6 DEF SessionInv, Ordered, PeersFew
<1> QED BY <1>13, <1>15, <1>16, <1>18, <1>19 DEF SessionInv

LEMMA FailureKeeps ==
  ASSUME SessionInv, NEW k \in Sends, snd[k].code = "refused", snd[k].pc = "post",
         attempts' = Without(k), snd' = [snd EXCEPT ![k].pc = "failed"],
         UNCHANGED <<log, net, name, locked, last, shown, queue, poll, stopped>>
  PROVE  SessionInv'
<1>1. /\ snd[k] \in SendStates /\ SendFits(k) /\ snd \in [Sends -> SendStates]
      /\ snd[k].wait \subseteq Queued
  BY DEF SessionInv, Types, Lists, QueueFits
<1>2. PICK s : s = [snd[k] EXCEPT !.pc = "failed"]
  OBVIOUS
<1>3. /\ s \in SendStates /\ s.pc = "failed" /\ s.wait = snd[k].wait /\ SameTry(snd[k], s)
      /\ s.hi = snd[k].hi /\ s.code = "refused"
  BY <1>1, <1>2 DEF SendStates, SameTry
<1>4. snd' = [snd EXCEPT ![k] = s]
  BY <1>1, <1>2
<1>5. snd'[k] = s
  BY <1>1, <1>4
<1>6. OwnEvents' = OwnEvents /\ Head0' = Head0 /\ PeerEvents' = PeerEvents
  BY DEF OwnEvents, Head0, PeerEvents
<1>7. ~InLog(k) /\ ~InNet(k)
  BY <1>1 DEF SendFits
<1>8. Named'
  BY <1>7, WithoutKeeps
<1>9. SendFits(k)'
  BY <1>1, <1>3, <1>5, <1>6, <1>7 DEF SendFits, InNet, InLog, SameTry
<1>10. attempts' \subseteq attempts
  BY DEF Without
<1>11. Lists'
  BY <1>3, <1>4, <1>9, <1>10, ListsMove
<1>12. QueueFits'
  <2>1. Head0' \in Int /\ Head0' >= Head0
    BY <1>6, QueueTyped DEF SessionInv
  <2>2. ((s.pc = "fold") <=> (snd[k].pc = "fold")) /\ s.wait \subseteq Queued
    BY <1>1, <1>3
  <2> QED BY <1>3, <1>4, <2>1, <2>2, QueueStays
<1>13. Types'
  <2>1. snd' \in [Sends -> SendStates]
    BY <1>1, <1>3, <1>4
  <2> QED BY <1>6, <1>10, <2>1 DEF SessionInv, Types
<1>14. Ordered' /\ PeersFew'
  BY <1>6 DEF SessionInv, Ordered, PeersFew
<1> QED BY <1>8, <1>11, <1>12, <1>13, <1>14 DEF SessionInv

LEMMA ConflictKeeps ==
  ASSUME SessionInv, NEW k \in Sends, snd[k].code = "conflict", snd[k].pc = "post",
         attempts' = Without(k), snd' = [snd EXCEPT ![k].pc = "fold"],
         queue' = Append(queue, [owner |-> k, next |-> snd[k].prev + 1, hi |-> snd[k].hi, opening |-> FALSE]),
         UNCHANGED <<log, net, name, locked, last, shown, poll, stopped>>
  PROVE  SessionInv'
<1>1. /\ snd[k] \in SendStates /\ SendFits(k) /\ snd \in [Sends -> SendStates] /\ QueueFits
      /\ snd[k].wait \subseteq Queued /\ last \in Int /\ snd[k].prev \in Int /\ snd[k].hi \in Int
  BY DEF SessionInv, Types, Lists, QueueFits, SendStates
<1>2. PICK s, b : /\ s = [snd[k] EXCEPT !.pc = "fold"]
                  /\ b = [owner |-> k, next |-> snd[k].prev + 1, hi |-> snd[k].hi, opening |-> FALSE]
  OBVIOUS
<1>3. /\ s \in SendStates /\ s.pc = "fold" /\ s.wait = snd[k].wait /\ SameTry(snd[k], s)
      /\ s.hi = snd[k].hi /\ s.code = "conflict"
  BY <1>1, <1>2 DEF SendStates, SameTry
<1>4. snd' = [snd EXCEPT ![k] = s]
  BY <1>1, <1>2
<1>5. snd'[k] = s /\ \A m \in Sends : m # k => snd'[m] = snd[m]
  BY <1>1, <1>4
<1>6. OwnEvents' = OwnEvents /\ Head0' = Head0 /\ PeerEvents' = PeerEvents
  BY DEF OwnEvents, Head0, PeerEvents
<1>7. ~InLog(k) /\ ~InNet(k)
  BY <1>1 DEF SendFits
<1>8. /\ b \in Batches /\ b.owner = k /\ b.next <= last + 1 /\ b.hi <= Head0 /\ b.opening = FALSE
      /\ k # Poll /\ k \notin Queued
  BY <1>1, <1>2 DEF Batches, Owners, SendFits, QueueFits, Poll, Sends
<1>9. queue' = Append(queue, b)
  BY <1>2
<1>10. /\ queue' \in Seq(Batches) /\ Queued' = Queued \cup {k}
       /\ \A i, j \in DOMAIN queue' : queue'[i].owner = queue'[j].owner => i = j
       /\ \A j \in DOMAIN queue' : BatchFits(j)'
       /\ queue' # <<>> /\ queue'[1].opening =>
            queue # <<>> /\ queue[1].opening /\ queue[1].next = queue'[1].next
  BY <1>8, <1>9, QueueGrows
<1>11. Named' /\ \A a \in attempts' : a.id[1] # k
  BY <1>7, <1>10, WithoutKeeps
<1>12. SendFits(k)'
  BY <1>1, <1>3, <1>5, <1>6, <1>7 DEF SendFits, InNet, InLog, SameTry
<1>13. attempts' \subseteq attempts
  BY DEF Without
<1>14. Lists'
  BY <1>3, <1>4, <1>11, <1>12, <1>13, ListsMove
<1>15. QueueFits'
  <2>1. poll.pc = "deliver" <=> Poll \in Queued'
    BY <1>1, <1>8, <1>10 DEF QueueFits
  <2>2. \A m \in Sends : snd'[m].pc = "fold" <=> m \in Queued'
    BY <1>1, <1>3, <1>5, <1>10 DEF QueueFits
  <2>3. \A m \in Sends : snd'[m].wait \subseteq Queued'
    BY <1>1, <1>3, <1>5, <1>10 DEF QueueFits
  <2> QED BY <1>1, <1>6, <1>10, <2>1, <2>2, <2>3 DEF QueueFits
<1>16. Types'
  <2>1. snd' \in [Sends -> SendStates]
    BY <1>1, <1>3, <1>4
  <2> QED BY <1>6, <1>10, <1>13, <2>1 DEF SessionInv, Types
<1>17. Ordered' /\ PeersFew'
  BY <1>6 DEF SessionInv, Ordered, PeersFew
<1> QED BY <1>11, <1>14, <1>15, <1>16, <1>17 DEF SessionInv

LEMMA PostAnsweredKeeps == ASSUME SessionInv, NEW k \in Sends, PostAnswered(k) PROVE SessionInv'
<1>1. snd[k].pc = "post" /\ UNCHANGED <<log, net, last, shown, poll, stopped>>
  BY DEF PostAnswered
<1>2. CASE snd[k].code = "ok" /\ LockName(snd[k].from, attempts)
           /\ snd' = [snd EXCEPT ![k].pc = "ok"] /\ UNCHANGED queue
  BY <1>1, <1>2, SuccessKeeps
<1>3. CASE snd[k].code = "refused" /\ attempts' = Without(k)
           /\ snd' = [snd EXCEPT ![k].pc = "failed"] /\ UNCHANGED <<name, locked, queue>>
  BY <1>1, <1>3, FailureKeeps
<1>4. CASE /\ snd[k].code = "conflict" /\ attempts' = Without(k)
           /\ queue' = Append(queue, [owner |-> k, next |-> snd[k].prev + 1, hi |-> snd[k].hi, opening |-> FALSE])
           /\ snd' = [snd EXCEPT ![k].pc = "fold"] /\ UNCHANGED <<name, locked>>
  BY <1>1, <1>4, ConflictKeeps
<1> QED BY <1>2, <1>3, <1>4 DEF PostAnswered

-----------------------------------------------------------------------------
(* The head of the queue *)

\* The head's batch becomes b, and the cursor may advance to it.
LEMMA HeadMoves ==
  ASSUME SessionInv, queue # <<>>, NEW b \in Batches, queue' = [queue EXCEPT ![1] = b],
         b.owner = queue[1].owner, b.hi = queue[1].hi, UNCHANGED <<log, snd, poll>>,
         last' \in Int, last' >= last, b.next <= last' + 1,
         b.opening => b.next = last' + 1 /\ b.next <= b.hi,
         last' # last => ~b.opening
  PROVE  QueueFits' /\ queue' \in Seq(Batches) /\ queue' # <<>> /\ queue'[1] = b
<1>1. queue \in Seq(Batches) /\ QueueFits /\ last \in Int /\ Head0' = Head0 /\ poll.since \in Int
  BY DEF SessionInv, Types, Head0, PollStates
<1>2. /\ queue' \in Seq(Batches) /\ 1 \in DOMAIN queue /\ DOMAIN queue' = DOMAIN queue /\ queue' # <<>>
      /\ queue'[1] = b /\ \A j \in DOMAIN queue : j # 1 => queue'[j] = queue[j]
  BY <1>1
<1>3. \A j \in DOMAIN queue : queue'[j].owner = queue[j].owner /\ queue[j].next \in Int /\ queue[j].hi \in Int
  BY <1>2, QueueTyped DEF SessionInv
<1>4. Queued' = Queued
  BY <1>2, <1>3 DEF Queued
<1>5. \A i, j \in DOMAIN queue' : queue'[i].owner = queue'[j].owner => i = j
  BY <1>1, <1>2, <1>3 DEF QueueFits
<1>6. ASSUME NEW j \in DOMAIN queue' PROVE BatchFits(j)'
  <2>1. CASE j = 1
    <3>1. b.hi <= Head0
      BY <1>1, <1>2 DEF QueueFits, BatchFits
    <3> QED BY <1>1, <1>2, <2>1, <3>1 DEF BatchFits
  <2>2. CASE j # 1
    <3>1. queue'[j] = queue[j] /\ BatchFits(j)
      BY <1>1, <1>2, <2>2 DEF QueueFits
    <3> QED BY <1>1, <1>2, <1>3, <2>2, <3>1 DEF BatchFits
  <2> QED BY <2>1, <2>2
<1> QED BY <1>1, <1>2, <1>4, <1>5, <1>6 DEF QueueFits

\* Batches that moved are batches.
MovedTo(q, n, o) == [q EXCEPT !.next = n, !.opening = o]

LEMMA BatchMoves ==
  ASSUME NEW q \in Batches, NEW n \in Nat, NEW o \in BOOLEAN
  PROVE  /\ MovedTo(q, n, o) \in Batches
         /\ MovedTo(q, n, o).owner = q.owner /\ MovedTo(q, n, o).hi = q.hi
         /\ MovedTo(q, n, o).next = n /\ MovedTo(q, n, o).opening = o
<1>1. PICK b : b = [q EXCEPT !.next = n, !.opening = o]
  OBVIOUS
<1>2. b \in Batches /\ b.owner = q.owner /\ b.hi = q.hi /\ b.next = n /\ b.opening = o
  BY <1>1 DEF Batches
<1> QED BY <1>1, <1>2 DEF MovedTo

\* What the head of the queue is when it moves.
LEMMA HeadFits ==
  ASSUME SessionInv, queue # <<>>
  PROVE  /\ Batch = queue[1] /\ Batch \in Batches /\ BatchFits(1) /\ 1 \in DOMAIN queue
         /\ Batch.next \in Nat /\ Batch.hi \in Int /\ Batch.opening \in BOOLEAN /\ Batch.owner \in Owners
         /\ last \in Int /\ Head0 \in Int /\ Len(log) \in Nat /\ Batch.hi <= Head0 /\ Batch.next <= last + 1
<1>1. queue \in Seq(Batches) /\ QueueFits /\ last \in Int
  BY DEF SessionInv, Types
<1>2. 1 \in DOMAIN queue /\ Batch = queue[1] /\ Batch \in Batches
  BY <1>1 DEF Batch
<1>3. Batch.next \in Nat /\ Batch.hi \in Int /\ Batch.opening \in BOOLEAN /\ Batch.owner \in Owners
  BY <1>2 DEF Batches
<1>4. BatchFits(1)
  BY <1>1, <1>2 DEF QueueFits
<1>5. Len(log) \in Nat /\ Head0 \in Int
  BY QueueTyped DEF SessionInv
<1> QED BY <1>1, <1>2, <1>3, <1>4, <1>5 DEF BatchFits

\* The identity changed on what the delivery saw; the lists fit on.
LEMMA ListsShrink ==
  ASSUME SessionInv, UNCHANGED <<log, net, snd>>, attempts' \subseteq attempts,
         last' \in Int, last' >= last
  PROVE  Lists'
<1>1. OwnEvents' = OwnEvents /\ Head0' = Head0 /\ last \in Int
  BY DEF OwnEvents, Head0, SessionInv, Types
<1>2. \A r \in net : PostFits(r)'
  BY DEF SessionInv, Lists, PostFits, IdOf
<1>3. \A a \in attempts' : AttemptFits(a)'
  BY DEF SessionInv, Lists, AttemptFits, IdOf
<1>4. \A i \in OwnEvents : EventFits(i)'
  BY DEF SessionInv, Lists, EventFits, IdOf
<1>5. ASSUME NEW k \in Sends PROVE SendFits(k)'
  <2>1. SendFits(k) /\ snd[k].prev \in Int
    BY DEF SessionInv, Lists, Types, SendStates
  <2>2. (InNet(k)' <=> InNet(k)) /\ (InLog(k)' <=> InLog(k)) /\ (Agrees(k)' <=> Agrees(k))
    BY <1>1 DEF InNet, InLog, Agrees
  <2> QED BY <1>1, <2>1, <2>2 DEF SendFits
<1> QED BY <1>1, <1>2, <1>3, <1>4, <1>5 DEF Lists

\* The delivery saw event s: its own attempt locks the name, and what waited
\* for an event up to s is no evidence any more.
LEMMA ObserveNames ==
  ASSUME SessionInv, NEW s \in Nat, s <= last + 1, s <= Head0, UNCHANGED <<log, net, last, stopped>>,
         NEW own, own = {a \in attempts : a.seq = s /\ a.id = log[s + 1].id},
         NEW later, later = {a \in attempts : a.seq > s},
         IF own # {} THEN \E a \in own : LockName(a.from, later)
                     ELSE attempts' = later /\ UNCHANGED <<name, locked>>,
         queue' # <<>> /\ queue'[1].opening => queue'[1].next = s /\ s > last
  PROVE  Named' /\ attempts' \subseteq attempts /\ name' \in Names /\ locked' \in BOOLEAN
<1>1. OwnEvents' = OwnEvents /\ Head0' = Head0 /\ last \in Int
      /\ Head0 \in Int /\ Len(log) \in Nat /\ DOMAIN log = 1 .. Len(log)
  BY QueueTyped DEF OwnEvents, Head0, SessionInv, Types
<1>2. s + 1 \in DOMAIN log
  BY <1>1 DEF Head0
<1>3. name \in Names /\ locked \in BOOLEAN /\ attempts \subseteq Attempts
  BY DEF SessionInv, Types
<1>4. CASE own # {}
  <2>1. PICK a \in own : LockName(a.from, later)
    BY <1>4
  <2>2. a \in attempts /\ a.id = log[s + 1].id /\ a.from \in Names
    BY <1>3 DEF Attempts
  <2>3. s + 1 \in OwnEvents
    <3>1. a.id[1] \in Sends
      BY <2>2 DEF SessionInv, Lists, AttemptFits
    <3> QED BY <1>2, <2>2, <3>1 DEF OwnEvents, Sends, Peer
  <2>4. ~locked
    BY <2>2 DEF SessionInv, Named
  <2>5. name' = a.from /\ locked' = TRUE /\ attempts' = {}
    BY <2>1, <2>4 DEF LockName
  <2>6. log[s + 1].from = a.from
    BY <2>2, <2>3, EventTry
  <2>7. \A i \in OwnEvents : log[i].from = a.from
    BY <2>3, <2>6 DEF SessionInv, Named
  <2> QED BY <1>1, <2>2, <2>3, <2>5, <2>7 DEF Named, Unlocked
<1>5. CASE own = {}
  <2>1. attempts' = later /\ UNCHANGED <<name, locked>>
    BY <1>5
  <2>2. ASSUME NEW id, NEW a \in attempts, a.id = id, a.seq > s PROVE Evident(id)'
    BY <2>1, <2>2 DEF Evident
  <2>3. Unlocked'
    <3> SUFFICES ASSUME ~locked, ~stopped PROVE Unlocked'
      BY <2>1 DEF Unlocked
    <3>1. ASSUME NEW i \in OwnEvents PROVE i - 1 > s /\ Evident(log[i].id)'
      <4>1. i - 1 > last /\ Evident(log[i].id) /\ i \in Int
        BY EventTry DEF SessionInv, Named, Unlocked
      <4>2. PICK a \in attempts : a.id = log[i].id
        BY <4>1 DEF Evident
      <4>3. a.seq = i - 1
        BY <4>2, EventTry
      <4>4. i - 1 # s
        <5> SUFFICES ASSUME i - 1 = s PROVE FALSE
          OBVIOUS
        <5>1. i = s + 1
          BY <4>1
        <5> QED BY <1>5, <4>2, <4>3, <5>1
      <4>5. i - 1 > s
        BY <1>1, <4>1, <4>4
      <4> QED BY <2>2, <4>2, <4>3, <4>5
    <3>2. ASSUME NEW r \in net, r.prev = Head0 PROVE Evident(r.id)'
      <4>1. PICK a \in attempts : a.id = r.id
        BY <3>2 DEF SessionInv, Named, Unlocked, Evident
      <4>2. a.seq = Head0 + 1
        BY <3>2, <4>1 DEF SessionInv, Lists, PostFits, AttemptFits
      <4> QED BY <1>1, <2>2, <4>1, <4>2
    <3>3. \A i \in OwnEvents : i - 1 > last
      BY DEF SessionInv, Named, Unlocked
    <3> QED BY <1>1, <3>1, <3>2, <3>3 DEF Unlocked
  <2>4. attempts' \subseteq attempts
    BY <2>1
  <2>5. locked => attempts' = {}
    BY <2>4 DEF SessionInv, Named
  <2> QED BY <1>1, <1>3, <2>1, <2>3, <2>4, <2>5 DEF SessionInv, Named
<1> QED BY <1>4, <1>5

LEMMA ObserveKeeps == ASSUME SessionInv, Observe PROVE SessionInv'
<1>1. /\ queue # <<>> /\ ~Batch.opening /\ Batch.next <= Batch.hi
      /\ UNCHANGED <<log, net, last, shown, snd, poll, stopped>>
  BY DEF Observe
<1>2. /\ Batch = queue[1] /\ Batch \in Batches /\ Batch.next \in Nat /\ Batch.hi \in Int
      /\ Batch.opening = FALSE /\ last \in Int /\ Head0 \in Int /\ queue \in Seq(Batches)
      /\ Batch.next <= last + 1 /\ Batch.hi <= Head0
  BY <1>1, HeadFits DEF SessionInv, Types
<1>3. PICK s, own, later :
        /\ s = Batch.next
        /\ own = {a \in attempts : a.seq = s /\ a.id = log[s + 1].id}
        /\ later = {a \in attempts : a.seq > s}
  OBVIOUS
<1>4. /\ IF own # {} THEN \E a \in own : LockName(a.from, later)
                     ELSE attempts' = later /\ UNCHANGED <<name, locked>>
      /\ queue' = IF s <= last THEN [queue EXCEPT ![1].next = s + 1]
                               ELSE [queue EXCEPT ![1].opening = TRUE]
  BY <1>3 DEF Observe
<1>5. PICK n, o, b : /\ n = IF s <= last THEN s + 1 ELSE s
                     /\ o = IF s <= last THEN FALSE ELSE TRUE
                     /\ b = MovedTo(queue[1], n, o)
  OBVIOUS
<1>6. /\ b \in Batches /\ b.owner = queue[1].owner /\ b.hi = queue[1].hi
      /\ s <= last => b.next = s + 1 /\ b.opening = FALSE
      /\ ~(s <= last) => b.next = s /\ b.opening = TRUE
  <2>0. n \in Nat
    BY <1>2, <1>3, <1>5
  <2>1. queue[1] \in Batches /\ n \in Nat /\ o \in BOOLEAN
    BY <1>2, <1>5, <2>0
  <2>2. b \in Batches /\ b.owner = queue[1].owner /\ b.hi = queue[1].hi /\ b.next = n /\ b.opening = o
    <3>1. b = MovedTo(queue[1], n, o)
      BY <1>5
    <3> QED BY <2>1, <3>1, BatchMoves
  <2> QED BY <1>5, <2>2
<1>7. queue' = [queue EXCEPT ![1] = b]
  <2>1. CASE s <= last
    <3>1. [queue[1] EXCEPT !.next = s + 1] = b
      BY <1>2, <1>5, <2>1 DEF Batches, MovedTo
    <3> QED BY <1>2, <1>4, <2>1, <3>1
  <2>2. CASE ~(s <= last)
    <3>1. [queue[1] EXCEPT !.opening = TRUE] = b
      BY <1>2, <1>3, <1>5, <2>2 DEF Batches, MovedTo
    <3> QED BY <1>2, <1>4, <2>2, <3>1
  <2> QED BY <2>1, <2>2
<1>8. QueueFits' /\ queue' \in Seq(Batches) /\ queue' # <<>> /\ queue'[1] = b
  <2>1. b.next <= last + 1 /\ (b.opening => b.next = last + 1 /\ b.next <= b.hi)
    BY <1>1, <1>2, <1>3, <1>6
  <2>2. last' \in Int /\ last' = last /\ last' >= last
    BY <1>1, <1>2
  <2> QED BY <1>1, <1>6, <1>7, <2>1, <2>2, HeadMoves
<1>9. Named' /\ attempts' \subseteq attempts /\ name' \in Names /\ locked' \in BOOLEAN
  <2>1. s \in Nat /\ s <= last + 1 /\ s <= Head0
    BY <1>1, <1>2, <1>3
  <2>2. queue' # <<>> /\ queue'[1].opening => queue'[1].next = s /\ s > last
    BY <1>2, <1>6, <1>8, <2>1
  <2> QED BY <1>1, <1>3, <1>4, <2>1, <2>2, ObserveNames
<1>10. Lists'
  BY <1>1, <1>2, <1>9, ListsShrink
<1>11. Types'
  BY <1>1, <1>8, <1>9 DEF SessionInv, Types, Head0
<1>12. Ordered' /\ PeersFew'
  BY <1>1 DEF SessionInv, Ordered, PeersFew, PeerEvents
<1> QED BY <1>8, <1>9, <1>10, <1>11, <1>12 DEF SessionInv

LEMMA ShownGrows ==
  ASSUME SessionInv, last' = last + 1, shown' = Append(shown, last + 1)
  PROVE  Ordered'
<1>1. last \in Int /\ last >= -1 /\ Ordered
  BY DEF SessionInv, Types
<1>2. PICK n \in Nat : n = last + 1
  BY <1>1
<1>3. shown = [i \in 1 .. n |-> i - 1]
  BY <1>1, <1>2 DEF Ordered
<1>4. shown \in Seq(Int) /\ Len(shown) = n /\ \A i \in 1 .. n : shown[i] = i - 1
  BY <1>3
<1>5. /\ shown' \in Seq(Int) /\ Len(shown') = n + 1 /\ shown'[n + 1] = n
      /\ \A i \in 1 .. n : shown'[i] = shown[i]
  BY <1>2, <1>4
<1>6. DOMAIN shown' = 1 .. n + 1 /\ shown' = [i \in 1 .. n + 1 |-> shown'[i]]
  BY <1>5
<1>7. \A i \in 1 .. n + 1 : shown'[i] = i - 1
  BY <1>4, <1>5
<1>8. shown' = [i \in 1 .. n + 1 |-> i - 1]
  BY <1>6, <1>7
<1> QED BY <1>2, <1>8 DEF Ordered

LEMMA PresentKeeps == ASSUME SessionInv, Present PROVE SessionInv'
<1>1. /\ queue # <<>> /\ Batch.opening /\ last' = Batch.next /\ shown' = Append(shown, Batch.next)
      /\ queue' = [queue EXCEPT ![1].next = @ + 1, ![1].opening = FALSE]
      /\ UNCHANGED <<log, net, name, locked, attempts, snd, poll, stopped>>
  BY DEF Present, identity
<1>2. /\ Batch = queue[1] /\ Batch \in Batches /\ Batch.next \in Nat /\ Batch.hi \in Int /\ 1 \in DOMAIN queue
      /\ last \in Int /\ Head0 \in Int /\ queue \in Seq(Batches) /\ Batch.hi <= Head0 /\ BatchFits(1)
  BY <1>1, HeadFits DEF SessionInv, Types
<1>3. Batch.next = last + 1 /\ Batch.next <= Batch.hi
  BY <1>1, <1>2 DEF BatchFits
<1>4. PICK b : b = MovedTo(queue[1], queue[1].next + 1, FALSE)
  OBVIOUS
<1>5. /\ b \in Batches /\ b.owner = queue[1].owner /\ b.hi = queue[1].hi
      /\ b.next = Batch.next + 1 /\ b.opening = FALSE
  <2>1. queue[1] \in Batches /\ queue[1].next + 1 \in Nat /\ FALSE \in BOOLEAN
    BY <1>2
  <2>2. b \in Batches /\ b.owner = queue[1].owner /\ b.hi = queue[1].hi
        /\ b.next = queue[1].next + 1 /\ b.opening = FALSE
    <3>1. b = MovedTo(queue[1], queue[1].next + 1, FALSE)
      BY <1>4
    <3> QED BY <2>1, <3>1, BatchMoves
  <2> QED BY <1>2, <2>2
<1>6. queue' = [queue EXCEPT ![1] = b]
  BY <1>1, <1>2, <1>4 DEF MovedTo
<1>7. last' \in Int /\ last' = last + 1 /\ last' <= Head0
  BY <1>1, <1>2, <1>3
<1>8. QueueFits' /\ queue' \in Seq(Batches) /\ queue' # <<>> /\ queue'[1] = b
  <2>1. b.next <= last' + 1 /\ ~b.opening /\ last' >= last
    BY <1>2, <1>3, <1>5, <1>7
  <2> QED BY <1>1, <1>5, <1>6, <1>7, <2>1, HeadMoves
<1>9. OwnEvents' = OwnEvents /\ Head0' = Head0 /\ PeerEvents' = PeerEvents
  BY <1>1 DEF OwnEvents, Head0, PeerEvents
<1>10. Lists'
  BY <1>1, <1>2, <1>7, ListsShrink
<1>11. Unlocked'
  <2> SUFFICES ASSUME ~locked, ~stopped PROVE Unlocked'
    BY <1>1 DEF Unlocked
  <2>1. ASSUME NEW i \in OwnEvents PROVE i - 1 > last' /\ Evident(log[i].id)'
    <3>1. i - 1 > last /\ Evident(log[i].id) /\ i - 1 # queue[1].next /\ i \in Int
      BY <1>1, <1>2, EventTry DEF SessionInv, Named, Unlocked
    <3>2. Evident(log[i].id)'
      BY <1>1, <3>1 DEF Evident
    <3> QED BY <1>2, <1>3, <1>7, <3>1, <3>2
  <2>2. \A r \in net : r.prev = Head0 => Evident(r.id)'
    BY <1>1 DEF SessionInv, Named, Unlocked, Evident
  <2> QED BY <1>1, <1>5, <1>8, <1>9, <2>1, <2>2 DEF Unlocked
<1>12. Named'
  BY <1>1, <1>9, <1>11 DEF SessionInv, Named
<1>13. Ordered'
  BY <1>1, <1>3, <1>7, ShownGrows
<1>14. Types'
  BY <1>1, <1>7, <1>8, <1>9 DEF SessionInv, Types
<1>15. PeersFew'
  BY <1>9 DEF SessionInv, PeersFew
<1> QED BY <1>8, <1>10, <1>12, <1>13, <1>14, <1>15 DEF SessionInv

\* A send goes on after the head's delivery.
LEMMA WokenSend ==
  ASSUME SessionInv, NEW o, NEW s \in SendStates
  PROVE  /\ Woken(s, o) \in SendStates /\ Woken(s, o).wait = s.wait \ {o}
         /\ Woken(s, o).pc = s.pc /\ Woken(s, o).code = s.code /\ Woken(s, o).hi = s.hi
         /\ SameTry(s, Woken(s, o))
<1>1. PICK w : w = [s EXCEPT !.wait = s.wait \ {o}]
  OBVIOUS
<1>2. s.wait \ {o} \in SUBSET Owners
  BY DEF SendStates
<1>3. w \in SendStates /\ w.wait = s.wait \ {o} /\ w.pc = s.pc /\ w.code = s.code /\ w.hi = s.hi /\ SameTry(s, w)
  BY <1>1, <1>2 DEF SendStates, SameTry
<1>4. Woken(s, o) = w
  BY <1>1 DEF Woken
<1> QED BY <1>3, <1>4

\* The head of the queue is gone.
LEMMA TailFits ==
  ASSUME SessionInv, queue # <<>>, queue' = Tail(queue), UNCHANGED <<log, last>>
  PROVE  /\ queue' \in Seq(Batches) /\ Queued' = Queued \ {Batch.owner} /\ Batch.owner \in Queued
         /\ \A i, j \in DOMAIN queue' : queue'[i].owner = queue'[j].owner => i = j
         /\ \A j \in DOMAIN queue' : BatchFits(j)' /\ ~queue'[j].opening
<1>1. queue \in Seq(Batches) /\ QueueFits /\ Batch = queue[1] /\ 1 \in DOMAIN queue
  BY HeadFits DEF SessionInv, Types
<1>2. /\ queue' \in Seq(Batches) /\ Len(queue) \in Nat /\ DOMAIN queue = 1 .. Len(queue)
      /\ DOMAIN queue' = 1 .. Len(queue) - 1 /\ \A j \in 1 .. Len(queue) - 1 : queue'[j] = queue[j + 1]
  BY <1>1
<1>3. \A j \in DOMAIN queue' : j + 1 \in DOMAIN queue /\ j + 1 # 1 /\ j \in Int
  BY <1>2
<1>4. \A j \in DOMAIN queue : j # 1 => j - 1 \in DOMAIN queue' /\ queue'[j - 1] = queue[j]
  BY <1>2
<1>5. Queued' = Queued \ {Batch.owner}
  <2>1. ASSUME NEW x \in Queued' PROVE x \in Queued \ {Batch.owner}
    <3>1. PICK j \in DOMAIN queue' : x = queue'[j].owner
      BY DEF Queued
    <3>2. x = queue[j + 1].owner /\ j + 1 \in DOMAIN queue /\ j + 1 # 1
      BY <1>2, <1>3, <3>1
    <3> QED BY <1>1, <3>2 DEF Queued, QueueFits
  <2>2. ASSUME NEW x \in Queued \ {Batch.owner} PROVE x \in Queued'
    <3>1. PICK j \in DOMAIN queue : x = queue[j].owner
      BY DEF Queued
    <3>2. j # 1
      BY <1>1, <3>1
    <3>3. j - 1 \in DOMAIN queue' /\ x = queue'[j - 1].owner
      BY <1>4, <3>1, <3>2
    <3> QED BY <3>3 DEF Queued
  <2> QED BY <2>1, <2>2
<1>6. \A i, j \in DOMAIN queue' : queue'[i].owner = queue'[j].owner => i = j
  <2> SUFFICES ASSUME NEW i \in DOMAIN queue', NEW j \in DOMAIN queue', queue'[i].owner = queue'[j].owner
               PROVE  i = j
    OBVIOUS
  <2>1. queue[i + 1].owner = queue[j + 1].owner
    BY <1>2
  <2>2. i + 1 = j + 1
    BY <1>1, <1>3, <2>1 DEF QueueFits
  <2> QED BY <1>3, <2>2
<1>7. ASSUME NEW j \in DOMAIN queue' PROVE BatchFits(j)' /\ ~queue'[j].opening
  <2>1. queue'[j] = queue[j + 1] /\ BatchFits(j + 1)
    BY <1>1, <1>2, <1>3 DEF QueueFits
  <2>2. Head0' = Head0
    BY DEF Head0
  <2> QED BY <1>3, <2>1, <2>2 DEF BatchFits
<1>8. Batch.owner \in Queued
  BY <1>1 DEF Queued
<1> QED BY <1>2, <1>5, <1>6, <1>7, <1>8

\* What Finish does to the state of send m.
LEMMA FinishSend ==
  ASSUME SessionInv, NEW o \in Queued, NEW m \in Sends, NEW s,
         s = Woken(IF m = o THEN Again(snd[m]) ELSE snd[m], o)
  PROVE  /\ s \in SendStates /\ s.prev = snd[m].prev /\ s.hi = snd[m].hi
         /\ s.wait \subseteq Queued \ {o}
         /\ m # o => s.pc = snd[m].pc /\ s.code = snd[m].code /\ SameTry(snd[m], s)
         /\ m = o => snd[m].pc = "fold" /\ \/ s.pc = "wait" /\ s.code = "none"
                                           \/ s.pc = "failed" /\ s.code = "conflict"
<1>1. snd[m] \in SendStates /\ snd[m].wait \subseteq Queued /\ Queued \subseteq Owners /\ SendFits(m)
  BY QueuedOwners DEF SessionInv, Types, QueueFits, Lists
<1>2. CASE m # o
  <2>1. s = Woken(snd[m], o)
    BY <1>2
  <2>2. /\ s \in SendStates /\ s.wait = snd[m].wait \ {o} /\ s.pc = snd[m].pc /\ s.code = snd[m].code
        /\ s.hi = snd[m].hi /\ SameTry(snd[m], s)
    BY <1>1, <2>1, WokenSend
  <2> QED BY <1>1, <1>2, <2>2 DEF SameTry
<1>3. CASE m = o
  <2>1. PICK t : t = Again(snd[m])
    OBVIOUS
  <2>2. s = Woken(t, o)
    BY <1>3, <2>1
  <2>3. snd[m].pc = "fold" /\ snd[m].code = "conflict"
    BY <1>1, <1>3 DEF SessionInv, QueueFits, SendFits
  <2>4. /\ t \in SendStates /\ t.prev = snd[m].prev /\ t.hi = snd[m].hi /\ t.wait \subseteq Queued
        /\ \/ t.pc = "wait" /\ t.code = "none"
           \/ t.pc = "failed" /\ t.code = "conflict"
    BY <1>1, <2>1, <2>3, AgainMoves
  <2>5. /\ s \in SendStates /\ s.wait = t.wait \ {o} /\ s.pc = t.pc /\ s.code = t.code /\ s.hi = t.hi
        /\ SameTry(t, s)
    BY <2>2, <2>4, WokenSend
  <2> QED BY <1>3, <2>3, <2>4, <2>5 DEF SameTry
<1> QED BY <1>2, <1>3

LEMMA FinishKeeps == ASSUME SessionInv, Finish PROVE SessionInv'
<1>1. PICK o : o = Batch.owner
  OBVIOUS
<1>2. /\ queue # <<>> /\ queue' = Tail(queue)
      /\ snd' = [k \in Sends |-> Woken(IF k = o THEN Again(snd[k]) ELSE snd[k], o)]
      /\ poll' = IF o = Poll THEN [poll EXCEPT !.pc = "idle"] ELSE poll
      /\ UNCHANGED <<log, net, name, locked, attempts, last, shown, stopped>>
  BY <1>1 DEF Finish, identity
<1>3. /\ queue' \in Seq(Batches) /\ Queued' = Queued \ {o} /\ o \in Queued
      /\ \A i, j \in DOMAIN queue' : queue'[i].owner = queue'[j].owner => i = j
      /\ \A j \in DOMAIN queue' : BatchFits(j)' /\ ~queue'[j].opening
  BY <1>1, <1>2, TailFits
<1>4. ASSUME NEW m \in Sends
      PROVE  /\ snd'[m] \in SendStates /\ snd'[m].prev = snd[m].prev /\ snd'[m].hi = snd[m].hi
             /\ snd'[m].wait \subseteq Queued'
             /\ m # o => snd'[m].pc = snd[m].pc /\ snd'[m].code = snd[m].code /\ SameTry(snd[m], snd'[m])
             /\ m = o => snd[m].pc = "fold" /\ \/ snd'[m].pc = "wait" /\ snd'[m].code = "none"
                                               \/ snd'[m].pc = "failed" /\ snd'[m].code = "conflict"
  <2>1. PICK s : s = Woken(IF m = o THEN Again(snd[m]) ELSE snd[m], o)
    OBVIOUS
  <2>2. snd'[m] = s
    BY <1>2, <2>1
  <2> QED BY <1>3, <2>1, <2>2, FinishSend
<1>5. OwnEvents' = OwnEvents /\ Head0' = Head0 /\ PeerEvents' = PeerEvents
  BY <1>2 DEF OwnEvents, Head0, PeerEvents
<1>6. \A m \in Sends : m = o => Fresh(m)
  BY <1>4, FreshSends
<1>7. poll' \in PollStates /\ poll'.since = poll.since /\ poll'.hi = poll.hi
      /\ (poll'.pc = "deliver" <=> poll.pc = "deliver" /\ o # Poll)
  <2>1. poll \in PollStates
    BY DEF SessionInv, Types
  <2>2. CASE o = Poll
    BY <1>2, <2>1, <2>2 DEF PollStates
  <2>3. CASE o # Poll
    BY <1>2, <2>1, <2>3
  <2> QED BY <2>2, <2>3
<1>8. QueueFits'
  <2>1. poll'.pc = "deliver" <=> Poll \in Queued'
    BY <1>3, <1>7 DEF SessionInv, QueueFits
  <2>2. \A m \in Sends : snd'[m].pc = "fold" <=> m \in Queued'
    BY <1>3, <1>4 DEF SessionInv, QueueFits
  <2>3. poll'.since >= -1 /\ poll'.since <= last' /\ poll'.hi <= Head0'
    BY <1>2, <1>5, <1>7 DEF SessionInv, QueueFits
  <2> QED BY <1>3, <1>4, <2>1, <2>2, <2>3 DEF QueueFits
<1>9. Lists'
  <2>1. ASSUME NEW r \in net PROVE PostFits(r)'
    <3>1. PostFits(r) /\ r.id[1] # o
      BY <1>6 DEF SessionInv, Lists, PostFits, Fresh, InNet
    <3> QED BY <1>4, <3>1 DEF PostFits, IdOf, SameTry
  <2>2. ASSUME NEW a \in attempts PROVE AttemptFits(a)'
    <3>1. AttemptFits(a) /\ a.id[1] # o
      BY <1>6 DEF SessionInv, Lists, AttemptFits, Fresh
    <3> QED BY <1>4, <3>1 DEF AttemptFits, IdOf, SameTry
  <2>3. ASSUME NEW i \in OwnEvents PROVE EventFits(i)'
    <3>1. EventFits(i) /\ log[i].id[1] # o
      BY <1>6 DEF SessionInv, Lists, EventFits, Fresh, InLog
    <3> QED BY <1>2, <1>4, <3>1 DEF EventFits, IdOf, SameTry
  <2>4. ASSUME NEW m \in Sends PROVE SendFits(m)'
    <3>1. SendFits(m) /\ (InNet(m)' <=> InNet(m)) /\ (InLog(m)' <=> InLog(m))
      BY <1>2, <1>5 DEF SessionInv, Lists, InNet, InLog
    <3>2. CASE m = o
      BY <1>2, <1>4, <1>5, <1>6, <3>1, <3>2 DEF SendFits, Fresh
    <3>3. CASE m # o
      <4>1. Agrees(m)' <=> Agrees(m)
        BY <1>2, <1>4, <1>5, <3>3 DEF Agrees, SameTry
      <4> QED BY <1>2, <1>4, <1>5, <3>1, <3>3, <4>1 DEF SendFits
    <3> QED BY <3>2, <3>3
  <2> QED BY <1>2, <1>5, <2>1, <2>2, <2>3, <2>4 DEF Lists
<1>10. Named'
  <2>1. \A id : Evident(id)' <=> Evident(id)
    BY <1>2 DEF Evident
  <2>2. ~(queue' # <<>> /\ queue'[1].opening)
    <3>1. queue' # <<>> => 1 \in DOMAIN queue'
      BY <1>3
    <3> QED BY <1>3, <3>1
  <2>3. Unlocked'
    BY <1>2, <1>5, <2>1, <2>2 DEF SessionInv, Named, Unlocked
  <2> QED BY <1>2, <1>5, <2>3 DEF SessionInv, Named
<1>11. Types'
  <2>1. snd' \in [Sends -> SendStates]
    BY <1>2, <1>4
  <2> QED BY <1>2, <1>3, <1>5, <1>7, <2>1 DEF SessionInv, Types
<1>12. Ordered' /\ PeersFew'
  BY <1>2, <1>5 DEF SessionInv, Ordered, PeersFew
<1> QED BY <1>8, <1>9, <1>10, <1>11, <1>12 DEF SessionInv

-----------------------------------------------------------------------------
(* The poll loop, the name and the end of the channel *)

LEMMA PollMoves ==
  ASSUME SessionInv, UNCHANGED <<log, net, identity, last, shown, queue, snd, stopped>>,
         NEW p \in PollStates, poll' = p, p.pc = "deliver" <=> poll.pc = "deliver",
         p.since >= -1, p.since <= last, p.hi <= Head0
  PROVE  SessionInv'
<1>1. UNCHANGED <<name, locked, attempts>>
  BY DEF identity
<1>2. Queued' = Queued /\ Head0' = Head0 /\ PeerEvents' = PeerEvents
  BY DEF Queued, Head0, PeerEvents
<1>3. \A j \in DOMAIN queue : BatchFits(j)'
  BY <1>2 DEF SessionInv, QueueFits, BatchFits
<1>4. QueueFits'
  BY <1>2, <1>3 DEF SessionInv, QueueFits
<1>5. Lists'
  BY <1>1, ListsShrink DEF SessionInv, Types
<1>6. Named'
  BY <1>1, NamedStays
<1>7. Types' /\ Ordered' /\ PeersFew'
  BY <1>1, <1>2 DEF SessionInv, Types, Ordered, PeersFew
<1> QED BY <1>4, <1>5, <1>6, <1>7 DEF SessionInv

LEMMA PageArrives ==
  ASSUME SessionInv, DeliverPage, ~stopped
  PROVE  SessionInv'
<1>1. /\ poll.pc = "got" /\ poll' = [poll EXCEPT !.pc = "deliver"]
      /\ queue' = Append(queue, [owner |-> Poll, next |-> poll.since + 1, hi |-> poll.hi, opening |-> FALSE])
      /\ UNCHANGED <<log, net, name, locked, attempts, last, shown, snd, stopped>>
  BY DEF DeliverPage, identity
<1>2. poll \in PollStates /\ QueueFits /\ last \in Int
  BY DEF SessionInv, Types
<1>3. PICK b : b = [owner |-> Poll, next |-> poll.since + 1, hi |-> poll.hi, opening |-> FALSE]
  OBVIOUS
<1>4. poll.since \in Int /\ poll.hi \in Int /\ poll.since >= -1 /\ poll.since <= last /\ poll.hi <= Head0
  BY <1>2 DEF PollStates, QueueFits
<1>5. /\ b \in Batches /\ b.owner = Poll /\ b.next <= last + 1 /\ b.hi <= Head0 /\ b.opening = FALSE
      /\ Poll \notin Queued
  BY <1>1, <1>2, <1>3, <1>4 DEF Batches, Owners, QueueFits
<1>6. /\ poll' \in PollStates /\ poll'.pc = "deliver" /\ poll'.since = poll.since /\ poll'.hi = poll.hi
  BY <1>1, <1>2 DEF PollStates
<1>7. /\ queue' \in Seq(Batches) /\ Queued' = Queued \cup {Poll}
      /\ \A i, j \in DOMAIN queue' : queue'[i].owner = queue'[j].owner => i = j
      /\ \A j \in DOMAIN queue' : BatchFits(j)'
      /\ queue' # <<>> /\ queue'[1].opening =>
           queue # <<>> /\ queue[1].opening /\ queue[1].next = queue'[1].next
  BY <1>1, <1>3, <1>5, QueueGrows
<1>8. OwnEvents' = OwnEvents /\ Head0' = Head0 /\ PeerEvents' = PeerEvents
  BY <1>1 DEF OwnEvents, Head0, PeerEvents
<1>9. QueueFits'
  <2>1. \A m \in Sends : snd'[m].pc = "fold" <=> m \in Queued'
    BY <1>1, <1>2, <1>7 DEF QueueFits, Poll, Sends
  <2>2. \A m \in Sends : snd'[m].wait \subseteq Queued'
    BY <1>1, <1>2, <1>7 DEF QueueFits
  <2> QED BY <1>1, <1>4, <1>6, <1>7, <1>8, <2>1, <2>2 DEF QueueFits
<1>10. Lists'
  BY <1>1, <1>2, ListsShrink
<1>11. Named'
  <2>1. \A id : Evident(id)' <=> Evident(id)
    BY <1>1 DEF Evident
  <2>2. Unlocked'
    BY <1>1, <1>7, <1>8, <2>1 DEF SessionInv, Named, Unlocked
  <2> QED BY <1>1, <1>8, <2>2 DEF SessionInv, Named
<1>12. Types'
  BY <1>1, <1>6, <1>7, <1>8 DEF SessionInv, Types
<1>13. Ordered' /\ PeersFew'
  BY <1>1, <1>8 DEF SessionInv, Ordered, PeersFew
<1> QED BY <1>9, <1>10, <1>11, <1>12, <1>13 DEF SessionInv

LEMMA PollKeeps ==
  ASSUME SessionInv, StartRead \/ ReadFailed \/ DeliverPage \/ \E hi \in poll.since .. Head0 : ServerRead(hi)
  PROVE  SessionInv'
<1>1. /\ poll \in PollStates /\ poll.since \in Int /\ poll.hi \in Int /\ poll.since >= -1
      /\ poll.since <= last /\ poll.hi <= Head0 /\ last \in Int /\ last >= -1 /\ Head0 \in Int
  BY QueueTyped DEF SessionInv, Types, PollStates, QueueFits
<1>2. CASE StartRead
  <2>1. PICK l, p : l = last /\ p = [poll EXCEPT !.pc = "read", !.since = l]
    OBVIOUS
  <2>2. p \in PollStates /\ p.pc = "read" /\ p.since = last /\ p.hi = poll.hi
    BY <1>1, <2>1 DEF PollStates
  <2>3. poll' = p /\ poll.pc = "idle" /\ UNCHANGED <<log, net, identity, last, shown, queue, snd, stopped>>
    BY <1>2, <2>1 DEF StartRead
  <2>4. p.pc = "deliver" <=> poll.pc = "deliver"
    BY <2>2, <2>3
  <2> QED BY <1>1, <2>2, <2>3, <2>4, PollMoves
<1>3. CASE ReadFailed
  <2>1. PICK p : p = [poll EXCEPT !.pc = "idle"]
    OBVIOUS
  <2>2. p \in PollStates /\ p.pc = "idle" /\ p.since = poll.since /\ p.hi = poll.hi
    BY <1>1, <2>1 DEF PollStates
  <2>3. poll' = p /\ poll.pc = "read" /\ UNCHANGED <<log, net, identity, last, shown, queue, snd, stopped>>
    BY <1>3, <2>1 DEF ReadFailed
  <2>4. p.pc = "deliver" <=> poll.pc = "deliver"
    BY <2>2, <2>3
  <2> QED BY <1>1, <2>2, <2>3, <2>4, PollMoves
<1>4. CASE DeliverPage /\ stopped
  <2>1. PICK p : p = [poll EXCEPT !.pc = "off"]
    OBVIOUS
  <2>2. p \in PollStates /\ p.pc = "off" /\ p.since = poll.since /\ p.hi = poll.hi
    BY <1>1, <2>1 DEF PollStates
  <2>3. poll' = p /\ poll.pc = "got" /\ UNCHANGED <<log, net, identity, last, shown, queue, snd, stopped>>
    BY <1>4, <2>1 DEF DeliverPage
  <2>4. p.pc = "deliver" <=> poll.pc = "deliver"
    BY <2>2, <2>3
  <2> QED BY <1>1, <2>2, <2>3, <2>4, PollMoves
<1>5. ASSUME NEW hi \in poll.since .. Head0, ServerRead(hi) PROVE SessionInv'
  <2>1. PICK p : p = [poll EXCEPT !.pc = "got", !.hi = hi]
    OBVIOUS
  <2>0. hi \in Int /\ hi <= Head0
    BY <1>1
  <2>2. p \in PollStates /\ p.pc = "got" /\ p.since = poll.since /\ p.hi = hi /\ p.hi <= Head0
    BY <1>1, <2>0, <2>1 DEF PollStates
  <2>3. poll' = p /\ poll.pc = "read" /\ UNCHANGED <<log, net, identity, last, shown, queue, snd, stopped>>
    BY <1>5, <2>1 DEF ServerRead
  <2>4. p.pc = "deliver" <=> poll.pc = "deliver"
    BY <2>2, <2>3
  <2> QED BY <1>1, <2>2, <2>3, <2>4, PollMoves
<1> QED BY <1>2, <1>3, <1>4, <1>5, PageArrives

LEMMA SetNameKeeps == ASSUME SessionInv, NEW n \in Names, SetName(n) PROVE SessionInv'
<1>1. /\ ~locked /\ name' = n
      /\ UNCHANGED <<log, net, locked, attempts, last, shown, queue, snd, poll, stopped>>
  BY DEF SetName
<1>2. Queued' = Queued /\ Head0' = Head0 /\ PeerEvents' = PeerEvents /\ last \in Int
  BY <1>1 DEF Queued, Head0, PeerEvents, SessionInv, Types
<1>3. QueueFits'
  BY <1>1, <1>2 DEF SessionInv, QueueFits, BatchFits
<1>4. Lists'
  BY <1>1, <1>2, ListsShrink
<1>5. Named'
  BY <1>1, NamedStays
<1>6. Types' /\ Ordered' /\ PeersFew'
  BY <1>1, <1>2 DEF SessionInv, Types, Ordered, PeersFew
<1> QED BY <1>3, <1>4, <1>5, <1>6 DEF SessionInv

LEMMA StopKeeps == ASSUME SessionInv, Stop PROVE SessionInv'
<1>1. /\ stopped' = TRUE /\ attempts' = {}
      /\ UNCHANGED <<log, net, name, locked, last, shown, queue, snd, poll>>
  BY DEF Stop
<1>2. Queued' = Queued /\ Head0' = Head0 /\ PeerEvents' = PeerEvents /\ OwnEvents' = OwnEvents /\ last \in Int
  BY <1>1 DEF Queued, Head0, PeerEvents, OwnEvents, SessionInv, Types
<1>3. QueueFits'
  BY <1>1, <1>2 DEF SessionInv, QueueFits, BatchFits
<1>4. Lists'
  BY <1>1, <1>2, ListsShrink
<1>5. Named'
  BY <1>1, <1>2 DEF SessionInv, Named, Unlocked
<1>6. Types' /\ Ordered' /\ PeersFew'
  BY <1>1, <1>2 DEF SessionInv, Types, Ordered, PeersFew
<1> QED BY <1>3, <1>4, <1>5, <1>6 DEF SessionInv

LEMMA StutterKeeps == ASSUME SessionInv, UNCHANGED vars PROVE SessionInv'
<1>1. UNCHANGED <<log, net, name, locked, attempts, last, shown, queue, snd, poll, stopped>>
  BY DEF vars, identity
<1>2. Queued' = Queued /\ Head0' = Head0 /\ PeerEvents' = PeerEvents /\ last \in Int
  BY <1>1 DEF Queued, Head0, PeerEvents, SessionInv, Types
<1>3. QueueFits'
  BY <1>1, <1>2 DEF SessionInv, QueueFits, BatchFits
<1>4. Lists'
  BY <1>1, <1>2, ListsShrink
<1>5. Named'
  BY <1>1, NamedStays
<1>6. Types' /\ Ordered' /\ PeersFew'
  BY <1>1, <1>2 DEF SessionInv, Types, Ordered, PeersFew
<1> QED BY <1>3, <1>4, <1>5, <1>6 DEF SessionInv

LEMMA SessionStep == ASSUME SessionInv, [Next]_vars PROVE SessionInv'
<1>1. CASE UNCHANGED vars
  BY <1>1, StutterKeeps
<1>2. ASSUME NEW n \in Names, SetName(n) \/ PeerPost(n) PROVE SessionInv'
  BY <1>2, SetNameKeeps, PeerPostKeeps
<1>3. ASSUME NEW k \in Sends, StartSend(k) \/ Seal(k) \/ Post(k) \/ PostAnswered(k) \/ PostFailed(k)
      PROVE  SessionInv'
  BY <1>3, BeginKeeps, PostKeeps, PostAnsweredKeeps
<1>4. ASSUME NEW r \in net, ServerPost(r) PROVE SessionInv'
  BY <1>4, ServerPostKeeps
<1>5. CASE Observe \/ Present \/ Finish
  BY <1>5, ObserveKeeps, PresentKeeps, FinishKeeps
<1>6. CASE StartRead \/ ReadFailed \/ DeliverPage \/ \E hi \in poll.since .. Head0 : ServerRead(hi)
  BY <1>6, PollKeeps
<1>7. CASE Stop
  BY <1>7, StopKeeps
<1> QED BY <1>1, <1>2, <1>3, <1>4, <1>5, <1>6, <1>7 DEF Next

-----------------------------------------------------------------------------
(* What the log holds *)

\* Own events are of different sends: no more of them than sends they may be of.
LEMMA OwnAreFew ==
  ASSUME SessionInv, NEW T \in SUBSET Sends, \A i \in OwnEvents : log[i].id[1] \in T
  PROVE  IsFiniteSet(OwnEvents) /\ Cardinality(OwnEvents) <= Cardinality(T)
<1>1. PICK f : f = [i \in OwnEvents |-> log[i].id[1]]
  OBVIOUS
<1>2. f \in [OwnEvents -> T] /\ DOMAIN f = OwnEvents
  BY <1>1
<1>3. ASSUME NEW i \in OwnEvents, NEW j \in OwnEvents, f[i] = f[j] PROVE i = j
  <2>1. log[i].id[1] = log[j].id[1]
    BY <1>1, <1>3
  <2>2. i = snd[log[i].id[1]].prev + 2 /\ j = snd[log[j].id[1]].prev + 2
    BY EventTry
  <2> QED BY <2>1, <2>2
<1>4. f \in Injection(OwnEvents, T)
  <2>1. IsInjective(f)
    BY <1>2, <1>3, Zenon DEF IsInjective
  <2> QED BY <1>2, <2>1, Zenon DEF Injection
<1>5. IsFiniteSet(T)
  <2>1. IsFiniteSet(Sends)
    BY FS_Interval, SessionAssumption DEF Sends
  <2> QED BY <2>1, FS_Subset
<1> QED BY <1>4, <1>5, FS_Injection

LEMMA Product == ASSUME NEW n \in Nat, NEW m \in Nat \ {0} PROVE n * m \in Nat /\ n <= n * m
<1>1. PICK l \in Nat : m = l + 1
  <2>1. m - 1 \in Nat /\ m = (m - 1) + 1
    OBVIOUS
  <2> QED BY <2>1
<1>2. n * l \in Nat
  OBVIOUS
<1>3. n * (l + 1) = n * l + n
  OBVIOUS
<1> QED BY <1>1, <1>2, <1>3

\* The log has room for what the page may still send; a send that still has
\* evidence at its end has nothing in it.
LEMMA LogBound ==
  ASSUME SessionInv
  PROVE  /\ MaxLog \in Nat /\ Len(log) \in Nat /\ Len(log) <= MaxLog
         /\ \A a \in attempts : a.seq \in Int /\ a.seq >= 0 /\ a.seq <= MaxLog - 1
<1>1. Len(log) \in Nat /\ DOMAIN log = 1 .. Len(log)
  BY QueueTyped DEF SessionInv
<1>2. IsFiniteSet(Sends) /\ Cardinality(Sends) = NSends /\ NSends \in Nat
  BY FS_Interval, SessionAssumption DEF Sends
<1>3. NSends <= NSends * MaxTries /\ MaxPeer \in Nat /\ NSends * MaxTries \in Nat
  BY Product, SessionAssumption
<1>4. /\ IsFiniteSet(PeerEvents) /\ Cardinality(PeerEvents) \in Nat
      /\ Cardinality(PeerEvents) <= MaxPeer
  <2>1. PeerEvents \subseteq 1 .. Len(log) /\ IsFiniteSet(1 .. Len(log))
    BY <1>1, FS_Interval DEF PeerEvents
  <2> QED BY <2>1, FS_Subset, FS_CardinalityType DEF SessionInv, PeersFew
<1>5. ASSUME NEW T \in SUBSET Sends, \A i \in OwnEvents : log[i].id[1] \in T
      PROVE  Len(log) <= Cardinality(T) + MaxPeer /\ Cardinality(T) \in Nat
  <2>1. IsFiniteSet(T) /\ Cardinality(T) \in Nat
    BY <1>2, FS_Subset, FS_CardinalityType
  <2>2. IsFiniteSet(OwnEvents) /\ Cardinality(OwnEvents) <= Cardinality(T)
    BY <1>5, OwnAreFew
  <2>3. Cardinality(OwnEvents) \in Nat
    BY <2>2, FS_CardinalityType
  <2>4. OwnEvents \cup PeerEvents = 1 .. Len(log) /\ OwnEvents \cap PeerEvents = {}
    BY <1>1 DEF OwnEvents, PeerEvents
  <2>5. Cardinality(1 .. Len(log)) = Cardinality(OwnEvents) + Cardinality(PeerEvents) - Cardinality({})
    <3>1. Cardinality(OwnEvents \cup PeerEvents)
          = Cardinality(OwnEvents) + Cardinality(PeerEvents) - Cardinality(OwnEvents \cap PeerEvents)
      BY <1>4, <2>2, FS_Union, Zenon
    <3> QED BY <2>4, <3>1
  <2>6. Cardinality({}) = 0 /\ Cardinality(1 .. Len(log)) = Len(log)
    <3>1. Cardinality({}) = 0
      BY FS_EmptySet
    <3>2. 1 \in Int /\ Len(log) \in Int
      BY <1>1
    <3>3. Cardinality(1 .. Len(log)) = IF 1 > Len(log) THEN 0 ELSE Len(log) - 1 + 1
      BY <3>2, FS_Interval, Zenon
    <3> QED BY <1>1, <3>1, <3>3
  <2> QED BY <1>3, <1>4, <2>1, <2>2, <2>3, <2>5, <2>6
<1>6. Len(log) <= NSends + MaxPeer
  <2>1. \A i \in OwnEvents : log[i].id[1] \in Sends
    BY EventTry
  <2> QED BY <1>2, <1>5, <2>1
<1>7. MaxLog \in Nat /\ NSends + MaxPeer <= MaxLog
  BY <1>2, <1>3 DEF MaxLog
<1>8. ASSUME NEW a \in attempts PROVE a.seq \in Int /\ a.seq >= 0 /\ a.seq <= MaxLog - 1
  <2>1. PICK k : k = a.id[1]
    OBVIOUS
  <2>2. /\ k \in Sends /\ AttemptFits(a) /\ a.seq \in Nat /\ a.seq = snd[k].prev + 1
        /\ snd[k].prev \in Int /\ snd[k].prev <= last /\ last <= Head0 /\ last \in Int
    BY <2>1 DEF SessionInv, Types, Attempts, Lists, AttemptFits, SendFits, SendStates
  <2>3. a.seq <= Len(log)
    BY <1>1, <2>2 DEF Head0
  <2>4. CASE a.seq < Len(log)
    BY <1>1, <1>2, <1>3, <1>6, <1>7, <2>2, <2>4
  <2>5. CASE a.seq = Len(log)
    <3>1. \A i \in OwnEvents : log[i].id[1] \in Sends \ {k}
      <4> SUFFICES ASSUME NEW i \in OwnEvents, log[i].id[1] = k PROVE FALSE
        BY EventTry
      <4>1. i = snd[k].prev + 2 /\ i \in 1 .. Len(log)
        BY <1>1, EventTry DEF OwnEvents
      <4> QED BY <1>1, <2>2, <2>5, <4>1
    <3>2. Len(log) <= Cardinality(Sends \ {k}) + MaxPeer
      BY <1>5, <3>1
    <3>3. Cardinality(Sends \ {k}) = NSends - 1
      BY <1>2, <2>2, FS_RemoveElement
    <3> QED BY <1>1, <1>2, <1>3, <1>7, <2>5, <3>2, <3>3
  <2> QED BY <1>1, <2>2, <2>3, <2>4, <2>5
<1> QED BY <1>1, <1>2, <1>3, <1>6, <1>7, <1>8

LEMMA TypesHold == ASSUME SessionInv PROVE TypeOK
<1>1. MaxLog \in Nat /\ Len(log) \in Nat /\ Len(log) <= MaxLog
  BY LogBound
<1>2. last \in Seqs
  BY <1>1 DEF SessionInv, Types, Head0, Seqs
<1>3. \A i \in DOMAIN log : log[i] \in Blob
  BY DEF SessionInv, Types
<1>4. ASSUME NEW r \in net PROVE [id |-> r.id, from |-> r.from] \in Blob /\ r.prev \in Seqs
  <2>1. r \in Posts /\ PostFits(r)
    BY DEF SessionInv, Types, Lists
  <2>2. [id |-> r.id, from |-> r.from] \in Blob
    BY <2>1 DEF Posts, Blob
  <2>3. r.prev \in Int /\ r.prev >= -1 /\ r.prev <= last /\ last \in Int /\ last <= Head0
    BY <2>1 DEF SessionInv, Types, Lists, PostFits, SendFits, Posts
  <2> QED BY <1>1, <2>2, <2>3 DEF Seqs, Head0
<1>5. ASSUME NEW a \in attempts PROVE a.seq \in Seqs /\ [id |-> a.id, from |-> a.from] \in Blob
  <2>1. a \in Attempts
    BY DEF SessionInv, Types
  <2>2. [id |-> a.id, from |-> a.from] \in Blob
    BY <2>1 DEF Attempts, Blob
  <2>3. a.seq \in Seqs
    BY <1>1, LogBound DEF Seqs
  <2> QED BY <2>2, <2>3
<1>6. \A k \in Sends : snd[k].i \in 1 .. MaxTries /\ snd[k].wait \subseteq Queued
  BY DEF SessionInv, Types, QueueFits, SendStates
<1>7. name \in Names /\ locked \in BOOLEAN
  BY DEF SessionInv, Types
<1>8. /\ \A i, j \in DOMAIN queue : queue[i].owner = queue[j].owner => i = j
      /\ (poll.pc = "deliver") <=> (Poll \in Queued)
      /\ \A k \in Sends : (snd[k].pc = "fold") <=> (k \in Queued)
  BY DEF SessionInv, QueueFits
<1> QED BY <1>2, <1>3, <1>4, <1>5, <1>6, <1>7, <1>8 DEF TypeOK

LEMMA NameHolds == ASSUME SessionInv PROVE OneName
<1>1. \A i, j \in OwnEvents : log[i].from = log[j].from
  BY DEF SessionInv, Named
<1>2. locked => (\A i \in OwnEvents : log[i].from = name) /\ OwnEvents # {}
  BY DEF SessionInv, Named
<1>3. ~stopped /\ (\E i \in OwnEvents : i - 1 <= last) => locked
  <2> SUFFICES ASSUME ~stopped, ~locked, NEW i \in OwnEvents, i - 1 <= last PROVE FALSE
    OBVIOUS
  <2>1. i - 1 > last
    BY DEF SessionInv, Named, Unlocked
  <2> QED BY <2>1, EventTry DEF SessionInv, Types
<1> QED BY <1>1, <1>2, <1>3, TypesHold DEF OneName

LEMMA OnceHolds == ASSUME SessionInv PROVE PostedOnce
<1>1. ASSUME NEW k \in Sends
      PROVE  /\ Cardinality(EventsOf(k)) <= 1
             /\ snd[k].pc = "ok" => Cardinality(EventsOf(k)) = 1
             /\ snd[k].pc = "failed" /\ snd[k].code \in {"refused", "conflict"} => EventsOf(k) = {}
  <2>1. SendFits(k)
    BY DEF SessionInv, Lists
  <2>2. \A i \in EventsOf(k) : i \in OwnEvents /\ i = snd[k].prev + 2 /\ InLog(k)
    <3>1. k # Peer
      BY DEF Sends, Peer
    <3>2. \A i \in EventsOf(k) : i \in OwnEvents /\ log[i].id[1] = k
      BY <3>1 DEF EventsOf, OwnEvents
    <3> QED BY <3>2, EventTry
  <2>3. EventsOf(k) = {} => Cardinality(EventsOf(k)) = 0
    BY FS_EmptySet
  <2>4. EventsOf(k) # {} => Cardinality(EventsOf(k)) = 1
    <3> SUFFICES ASSUME EventsOf(k) # {} PROVE Cardinality(EventsOf(k)) = 1
      OBVIOUS
    <3>1. EventsOf(k) = {snd[k].prev + 2}
      BY <2>2
    <3> QED BY <3>1, FS_Singleton
  <2>5. snd[k].pc = "ok" => EventsOf(k) # {}
    BY <2>1 DEF SendFits, InLog, OwnEvents, EventsOf
  <2>6. snd[k].pc = "failed" /\ snd[k].code \in {"refused", "conflict"} => EventsOf(k) = {}
    BY <2>1, <2>2 DEF SendFits
  <2>7. Cardinality(EventsOf(k)) <= 1
    BY <2>3, <2>4
  <2> QED BY <2>4, <2>5, <2>6, <2>7
<1> QED BY <1>1 DEF PostedOnce, SessionInv, Ordered

-----------------------------------------------------------------------------
(* The theorems *)

\* The inductive invariant of one page.
THEOREM SessionInvHolds == Spec => []SessionInv
<1>1. Init => SessionInv
  BY InitFits
<1>2. SessionInv /\ [Next]_vars => SessionInv'
  BY SessionStep
<1> QED BY <1>1, <1>2, PTL DEF Spec

\* Everything a page got into the log is under one name, which a locked page
\* still has, and a page that was shown an event of its own is locked: lockName
\* and observe hold what browser.md says of retries, however many sends, tries,
\* renames and failed posts there are.
THEOREM PageHasOneName == Spec => []OneName
BY SessionInvHolds, NameHolds, PTL

\* A send is in the log at most once, exactly once when it reported success and
\* not at all when it was refused, and the page presented each event up to its
\* cursor once and in order.
THEOREM SendsArePostedOnce == Spec => []PostedOnce
BY SessionInvHolds, OnceHolds, PTL

=============================================================================
