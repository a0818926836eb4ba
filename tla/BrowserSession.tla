--------------------------- MODULE BrowserSession ---------------------------
(***************************************************************************)
(* One open chat page (srv/browser/session.js, poll.js) against the        *)
(* server's compare-and-append log: concurrent sends, the one poll loop,   *)
(* the serialized delivery queue, and the rule that a page speaks under    *)
(* one name once anything it sent was accepted.                            *)
(*                                                                         *)
(* The page is single-threaded: code between two awaits is one step.  A    *)
(* send awaits the delivery queue, the sealing and the post; a delivery    *)
(* awaits the opening of each event.  A post may fail for the page and     *)
(* still reach the server later.  Messages are a send, its try and a name; *)
(* a try's nonce and ciphertext are its identity, as each sealing draws a  *)
(* fresh nonce.  A page of events is an interval of sequence numbers.      *)
(* The server's append is ChannelStore.tla's; here it is one step.         *)
(***************************************************************************)
EXTENDS Integers, Sequences, FiniteSets

CONSTANTS
  NSends,    \* sends of the page: messages, titles, reactions
  Names,
  Human,     \* the name a page starts with
  MaxTries,  \* tries of one send (50 in the code)
  MaxPeer    \* bound: events of other participants

Sends == 1 .. NSends
Peer  == 0
Poll  == 0                       \* the poller, as owner of a delivery
Owners == {Poll} \cup Sends
MaxLog == NSends * MaxTries + MaxPeer
Seqs  == -1 .. MaxLog - 1
Ids   == Owners \X (1 .. MaxTries + MaxPeer)
Blob  == [id: Ids, from: Names]

ASSUME SessionAssumption ==
  NSends \in Nat \ {0} /\ MaxTries \in Nat \ {0} /\ MaxPeer \in Nat /\ Human \in Names

VARIABLES
  log,      \* the server's events; event s is log[s + 1]
  net,      \* posts that have not reached the server
  name, locked, attempts,  \* identity: the posting name and the post evidence
  last,     \* the delivered cursor
  shown,    \* history: the sequence numbers presented, in order
  queue,    \* deliveries in order; the head one is being folded
  snd,      \* per send, its append call
  poll,     \* the poll loop
  stopped   \* the page learned that the channel is gone

identity == <<name, locked, attempts>>
vars == <<log, net, identity, last, shown, queue, snd, poll, stopped>>

Head0 == Len(log) - 1            \* the server's head sequence number
Queued == {queue[i].owner : i \in DOMAIN queue}
Active == {k \in Sends : snd[k].pc \notin {"new", "ok", "failed"}}
IdOf(k) == <<k, snd[k].i>>

Init ==
  /\ log = <<>> /\ net = {}
  /\ name = Human /\ locked = FALSE /\ attempts = {}
  /\ last = -1 /\ shown = <<>> /\ queue = <<>>
  /\ snd = [k \in Sends |-> [pc |-> "new", obj |-> name, i |-> 1, wait |-> {},
                             prev |-> -1, from |-> name, code |-> "none", hi |-> -1]]
  /\ poll = [pc |-> "idle", since |-> -1, hi |-> -1]
  /\ stopped = FALSE

-----------------------------------------------------------------------------
(* The name *)

SetName(n) ==
  /\ ~locked /\ Active = {} /\ ~stopped
  /\ name' = n
  /\ UNCHANGED <<log, net, locked, attempts, last, shown, queue, snd, poll, stopped>>

\* lockName: the first proof of a success fixes the name and ends the evidence.
LockName(from, kept) ==
  IF locked THEN attempts' = kept /\ UNCHANGED <<name, locked>>
            ELSE name' = from /\ locked' = TRUE /\ attempts' = {}

-----------------------------------------------------------------------------
(* append *)

\* The top of the loop: wait for the deliveries queued now, or give up.
Again(s) == IF s.i = MaxTries THEN [s EXCEPT !.pc = "failed"]
            ELSE [s EXCEPT !.pc = "wait", !.i = @ + 1, !.wait = Queued, !.code = "none"]

StartSend(k) ==
  /\ snd[k].pc = "new"
  /\ snd' = [snd EXCEPT ![k].pc = "wait", ![k].obj = name, ![k].wait = Queued]
  /\ UNCHANGED <<log, net, identity, last, shown, queue, poll, stopped>>

\* await queue returned: seal for the next sequence number, under the locked
\* name or, before any success, under the name the send was made with.
Seal(k) ==
  /\ snd[k].pc = "wait" /\ snd[k].wait = {}
  /\ snd' = IF stopped THEN [snd EXCEPT ![k].pc = "failed"]
            ELSE [snd EXCEPT ![k].pc = "seal", ![k].prev = last,
                             ![k].from = IF locked THEN name ELSE snd[k].obj]
  /\ UNCHANGED <<log, net, identity, last, shown, queue, poll, stopped>>

\* Sealing returned: a name locked meanwhile starts over, else the post goes
\* out and, while no name is locked, leaves evidence of the attempt.
Post(k) ==
  /\ snd[k].pc = "seal"
  /\ \/ /\ stopped
        /\ snd' = [snd EXCEPT ![k].pc = "failed"]
        /\ UNCHANGED <<net, attempts>>
     \/ /\ ~stopped /\ locked /\ snd[k].from # name
        /\ snd' = [snd EXCEPT ![k] = Again(snd[k])]
        /\ UNCHANGED <<net, attempts>>
     \/ /\ ~stopped /\ (locked => snd[k].from = name)
        /\ attempts' = IF ~locked /\ snd[k].prev + 1 > last
                       THEN attempts \cup {[seq |-> snd[k].prev + 1, id |-> IdOf(k), from |-> snd[k].from]}
                       ELSE attempts
        /\ net' = net \cup {[id |-> IdOf(k), prev |-> snd[k].prev, from |-> snd[k].from]}
        /\ snd' = [snd EXCEPT ![k].pc = "post"]
  /\ UNCHANGED <<log, name, locked, last, shown, queue, poll, stopped>>

\* The server takes a post: it appends on a match, refuses for another
\* reason, or answers a conflict with a page of what follows prev.  The
\* answer is kept if the send still waits for it.
ServerPost(r) ==
  LET k == r.id[1]
      Answer(code, hi) ==
        snd' = IF snd[k].pc = "post" /\ IdOf(k) = r.id
               THEN [snd EXCEPT ![k].code = code, ![k].hi = hi] ELSE snd
  IN  /\ net' = net \ {r}
      /\ \/ /\ r.prev = Head0
            /\ log' = Append(log, [id |-> r.id, from |-> r.from])
            /\ Answer("ok", -1)
         \/ /\ r.prev # Head0
            /\ \E hi \in r.prev + 1 .. Head0 : Answer("conflict", hi)
            /\ UNCHANGED log
         \/ Answer("refused", -1) /\ UNCHANGED log
      /\ UNCHANGED <<identity, last, shown, queue, poll, stopped>>

\* The attempt of k's current try is no longer evidence.
Without(k) == {a \in attempts : a.id # IdOf(k)}

\* The answer arrived.  Success locks the name but only a delivery advances
\* the cursor; a conflict folds the missed events and tries again.
PostAnswered(k) ==
  /\ snd[k].pc = "post" /\ snd[k].code # "none"
  /\ \/ /\ snd[k].code = "ok"
        /\ LockName(snd[k].from, attempts)
        /\ snd' = [snd EXCEPT ![k].pc = "ok"]
        /\ UNCHANGED queue
     \/ /\ snd[k].code = "refused"
        /\ attempts' = Without(k)
        /\ snd' = [snd EXCEPT ![k].pc = "failed"]
        /\ UNCHANGED <<name, locked, queue>>
     \/ /\ snd[k].code = "conflict"
        /\ attempts' = Without(k)
        /\ queue' = Append(queue, [owner |-> k, next |-> snd[k].prev + 1, hi |-> snd[k].hi, opening |-> FALSE])
        /\ snd' = [snd EXCEPT ![k].pc = "fold"]
        /\ UNCHANGED <<name, locked>>
  /\ UNCHANGED <<log, net, last, shown, poll, stopped>>

\* A plausible mistake: a post that failed is sent again.
PostFailed_Retries(k) ==
  /\ snd[k].pc = "post"
  /\ snd' = [snd EXCEPT ![k] = Again(snd[k])]
  /\ UNCHANGED <<log, net, identity, last, shown, queue, poll, stopped>>

\* The post failed for the page: it may have been, or may yet be, accepted.
\* The evidence stays, and the send reports its failure.
PostFailed(k) ==
  /\ snd[k].pc = "post"
  /\ snd' = [snd EXCEPT ![k].pc = "failed"]
  /\ UNCHANGED <<log, net, identity, last, shown, queue, poll, stopped>>

-----------------------------------------------------------------------------
(* deliver: the head of the queue *)

Batch == Head(queue)

\* A plausible mistake: an event at or below the cursor is presented again.
Observe_Duplicates ==
  /\ queue # <<>> /\ ~Batch.opening /\ Batch.next <= Batch.hi
  /\ LET s == Batch.next
         own == {a \in attempts : a.seq = s /\ a.id = log[s + 1].id}
         later == {a \in attempts : a.seq > s}
     IN  /\ IF own # {} THEN \E a \in own : LockName(a.from, later)
                        ELSE attempts' = later /\ UNCHANGED <<name, locked>>
         /\ queue' = [queue EXCEPT ![1].opening = TRUE]
  /\ UNCHANGED <<log, net, last, shown, snd, poll, stopped>>

\* A plausible mistake: an event under the name of an attempt counts as its success.
Observe_ByName ==
  /\ queue # <<>> /\ ~Batch.opening /\ Batch.next <= Batch.hi
  /\ LET s == Batch.next
         own == {a \in attempts : a.seq = s /\ a.from = log[s + 1].from}
         later == {a \in attempts : a.seq > s}
     IN  /\ IF own # {} THEN \E a \in own : LockName(a.from, later)
                        ELSE attempts' = later /\ UNCHANGED <<name, locked>>
         /\ queue' = IF s <= last THEN [queue EXCEPT ![1].next = s + 1]
                                  ELSE [queue EXCEPT ![1].opening = TRUE]
  /\ UNCHANGED <<log, net, last, shown, snd, poll, stopped>>

\* observe, then the duplicate check, in the turn before the event is opened.
Observe ==
  /\ queue # <<>> /\ ~Batch.opening /\ Batch.next <= Batch.hi
  /\ LET s == Batch.next
         own == {a \in attempts : a.seq = s /\ a.id = log[s + 1].id}
         later == {a \in attempts : a.seq > s}
     IN  /\ IF own # {} THEN \E a \in own : LockName(a.from, later)
                        ELSE attempts' = later /\ UNCHANGED <<name, locked>>
         /\ queue' = IF s <= last THEN [queue EXCEPT ![1].next = s + 1]
                                  ELSE [queue EXCEPT ![1].opening = TRUE]
  /\ UNCHANGED <<log, net, last, shown, snd, poll, stopped>>

\* The event is open: present it and advance the cursor.
Present ==
  /\ queue # <<>> /\ Batch.opening
  /\ last' = Batch.next
  /\ shown' = Append(shown, Batch.next)
  /\ queue' = [queue EXCEPT ![1].next = @ + 1, ![1].opening = FALSE]
  /\ UNCHANGED <<log, net, identity, snd, poll, stopped>>

\* The delivery of o no longer keeps a send waiting.
Woken(s, o) == [s EXCEPT !.wait = s.wait \ {o}]

\* A plausible mistake: sends that waited for the delivery are not resumed.
Finish_NoWake ==
  /\ queue # <<>> /\ ~Batch.opening /\ Batch.next > Batch.hi
  /\ queue' = Tail(queue)
  /\ LET o == Batch.owner
     IN  IF o = Poll
         THEN poll' = [poll EXCEPT !.pc = "idle"] /\ UNCHANGED snd
         ELSE snd' = [snd EXCEPT ![o] = Woken(Again(snd[o]), o)] /\ UNCHANGED poll
  /\ UNCHANGED <<log, net, identity, last, shown, stopped>>

\* The delivery is done: its caller goes on, and so do sends that waited.
Finish ==
  /\ queue # <<>> /\ ~Batch.opening /\ Batch.next > Batch.hi
  /\ queue' = Tail(queue)
  /\ LET o == Batch.owner
     IN  /\ snd' = [k \in Sends |-> Woken(IF k = o THEN Again(snd[k]) ELSE snd[k], o)]
         /\ poll' = IF o = Poll THEN [poll EXCEPT !.pc = "idle"] ELSE poll
  /\ UNCHANGED <<log, net, identity, last, shown, stopped>>

-----------------------------------------------------------------------------
(* The poll loop, and the world *)

StartRead ==
  /\ poll.pc = "idle" /\ ~stopped
  /\ poll' = [poll EXCEPT !.pc = "read", !.since = last]
  /\ UNCHANGED <<log, net, identity, last, shown, queue, snd, stopped>>

\* The whole page the server answered with has arrived; it is empty when the
\* server waited long enough.
ServerRead(hi) ==
  /\ poll.pc = "read"
  /\ poll' = [poll EXCEPT !.pc = "got", !.hi = hi]
  /\ UNCHANGED <<log, net, identity, last, shown, queue, snd, stopped>>

\* The read failed, ran into its deadline, or was interrupted by a wake-up.
ReadFailed ==
  /\ poll.pc = "read"
  /\ poll' = [poll EXCEPT !.pc = "idle"]
  /\ UNCHANGED <<log, net, identity, last, shown, queue, snd, stopped>>

\* A plausible mistake: the next read does not wait for the delivery.
DeliverPage_ReadsOn ==
  /\ poll.pc = "got"
  /\ IF stopped THEN poll' = [poll EXCEPT !.pc = "off"] /\ UNCHANGED queue
     ELSE /\ poll' = [poll EXCEPT !.pc = "idle"]
          /\ queue' = Append(queue, [owner |-> Poll, next |-> poll.since + 1, hi |-> poll.hi, opening |-> FALSE])
  /\ UNCHANGED <<log, net, identity, last, shown, snd, stopped>>

\* The loop delivers before it reads again; a stopped page ends the loop.
DeliverPage ==
  /\ poll.pc = "got"
  /\ IF stopped THEN poll' = [poll EXCEPT !.pc = "off"] /\ UNCHANGED queue
     ELSE /\ poll' = [poll EXCEPT !.pc = "deliver"]
          /\ queue' = Append(queue, [owner |-> Poll, next |-> poll.since + 1, hi |-> poll.hi, opening |-> FALSE])
  /\ UNCHANGED <<log, net, identity, last, shown, snd, stopped>>

PeerEvents == {i \in DOMAIN log : log[i].id[1] = Peer}
PeerPost(from) ==
  /\ Cardinality(PeerEvents) < MaxPeer
  /\ log' = Append(log, [id |-> <<Peer, Cardinality(PeerEvents) + 1>>, from |-> from])
  /\ UNCHANGED <<net, identity, last, shown, queue, snd, poll, stopped>>

\* channelGone: the page deleted the channel or a read found it missing.
Stop ==
  /\ ~stopped
  /\ stopped' = TRUE /\ attempts' = {}
  /\ UNCHANGED <<log, net, name, locked, last, shown, queue, snd, poll>>

Next ==
  \/ \E n \in Names : SetName(n) \/ PeerPost(n)
  \/ \E k \in Sends : StartSend(k) \/ Seal(k) \/ Post(k) \/ PostAnswered(k) \/ PostFailed(k)
  \/ \E r \in net : ServerPost(r)
  \/ Observe \/ Present \/ Finish
  \/ StartRead \/ ReadFailed \/ DeliverPage
  \/ \E hi \in poll.since .. Head0 : ServerRead(hi)
  \/ Stop

Spec == Init /\ [][Next]_vars

\* The page's own steps run, a post is answered or fails, and reads repeated
\* for ever are at some time answered with what there is.
FairSpec ==
  /\ Spec
  /\ \A k \in Sends : /\ WF_vars(Seal(k)) /\ WF_vars(Post(k))
                      /\ WF_vars(PostAnswered(k) \/ PostFailed(k))
  /\ WF_vars(Observe) /\ WF_vars(Present) /\ WF_vars(Finish)
  /\ WF_vars(StartRead) /\ WF_vars(DeliverPage)
  /\ SF_vars(poll.pc = "read" /\ Head0 > poll.since /\ ServerRead(Head0))

-----------------------------------------------------------------------------
(* Properties *)

OwnEvents == {i \in DOMAIN log : log[i].id[1] # Peer}
EventsOf(k) == {i \in DOMAIN log : log[i].id[1] = k}

\* The identity, the queue and the sends hold what the page can store; at
\* most one delivery of an owner is queued, and the poller waits for its own.
TypeOK ==
  /\ \A i \in DOMAIN log : log[i] \in Blob
  /\ \A r \in net : [id |-> r.id, from |-> r.from] \in Blob /\ r.prev \in Seqs
  /\ name \in Names /\ locked \in BOOLEAN /\ last \in Seqs
  /\ \A a \in attempts : a.seq \in Seqs /\ [id |-> a.id, from |-> a.from] \in Blob
  /\ \A i, j \in DOMAIN queue : queue[i].owner = queue[j].owner => i = j
  /\ (poll.pc = "deliver") <=> (Poll \in Queued)
  /\ \A k \in Sends : (snd[k].pc = "fold") <=> (k \in Queued)
  /\ \A k \in Sends : snd[k].i \in 1 .. MaxTries /\ snd[k].wait \subseteq Queued

\* Everything the page ever got into the log is under one name, and a locked
\* page speaks under that name: a post that seemed to fail and was accepted
\* after all binds later sends, also those started after a rename
\* (browser.md: pending CAS retries use the locked name).  The name is locked
\* by proof and by every proof: a peer under the same name or at the expected
\* sequence number is no evidence, and a page that was shown an event of its
\* own is locked, whatever answer it got for the post (observe).
OneName ==
  /\ TypeOK
  /\ \A i, j \in OwnEvents : log[i].from = log[j].from
  /\ locked => /\ \A i \in OwnEvents : log[i].from = name
               /\ OwnEvents # {}
  /\ ~stopped /\ (\E i \in OwnEvents : i - 1 <= last) => locked

\* One send puts at most one event in the log, exactly one when it reports
\* success, and none when the server's last answer refused it; and every event
\* up to the cursor was presented once and in order, and none beyond it,
\* although conflict pages overlap the poll's (deliver).
PostedOnce ==
  /\ shown = [i \in 1 .. last + 1 |-> i - 1]
  /\ \A k \in Sends :
       /\ Cardinality(EventsOf(k)) <= 1
       /\ snd[k].pc = "ok" => Cardinality(EventsOf(k)) = 1
       /\ snd[k].pc = "failed" /\ snd[k].code \in {"refused", "conflict"} => EventsOf(k) = {}

\* Every send comes to an end, however many overlap: the awaits of append and
\* the deliveries it queues never wait for each other; and every event of the
\* log is presented in the end, unless the channel goes.
SendSettles == []<>(Active = {}) /\ []<>(last = Head0 \/ stopped)

=============================================================================
