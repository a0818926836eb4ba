---------------------------- MODULE ChannelStore ----------------------------
(***************************************************************************)
(* One channel of the Go server (srv/store.go, srv/api.go, srv/server.go): *)
(* a compare-and-swap append log with paged reads and long polls, served   *)
(* by one goroutine per request, a reaper, a graceful stop and a crash.    *)
(*                                                                         *)
(* The pool holds one connection (srv/sqlite.go:38), so each transaction   *)
(* is one step; everything a handler does between two transactions or on   *)
(* the waiters map is a step of its own.  Envelopes are opaque to the      *)
(* server: an event is the client that posted it, and its sequence number  *)
(* is its position minus one.  Byte limits appear as the freedom to end a  *)
(* page early (never before one event) and to refuse a post as full.       *)
(* All clients hold the channel's key, so only the existence part of       *)
(* authorizeEvents is kept.                                                *)
(***************************************************************************)
EXTENDS Integers, Sequences, FiniteSets

CONSTANTS
  Client,       \* holders of the channel's URL
  Request,      \* connections, each served by one handler goroutine at a time
  Owner,        \* the client a connection belongs to
  MaxEvents,    \* events one channel may hold (srv: maxEvents)
  PageEvents,   \* events one page may hold (srv: pageEvents)
  MaxGen        \* bound: how often the channel is created

ASSUME StoreAssumption ==
  /\ Owner \in [Request -> Client]
  /\ MaxEvents \in Nat \ {0}
  /\ PageEvents \in Nat \ {0}
  /\ MaxGen \in Nat

VARIABLES
  live,      \* the channels row exists
  gen,       \* how many times the channel was created: names an incarnation
  log,       \* the events rows of the current incarnation, in order
  entry,     \* the waiters map holds an open Go channel for this channel
  subs,      \* handlers that hold that open Go channel
  stopping,  \* the server's stopping channel is closed
  reaping,   \* the reaper deleted the channel and has not yet notified
  req,       \* per handler: where it is and what it holds
  cursor,    \* per client: the "last" of the newest reply it received
  fresh,     \* per client: the incarnation that cursor belongs to, 0 if mixed
  seen,      \* per client: <<incarnation, seq>> of the events it received
  reply      \* the response sent by the last step, or NoReply

store   == <<live, gen, log>>
clients == <<cursor, fresh, seen>>
vars == <<store, entry, subs, stopping, reaping, req, clients, reply>>

\* The cursors a request may send: parseSince and parseLast refuse the rest.
Seqs   == Nat \cup {-1}
Events == Nat \X Seqs

Pcs   == {"free", "loop", "read", "gone", "waiting",
          "append", "conflict", "posted", "deleted"}
Codes == {"none", "page", "posted", "conflict", "full", "refused", "404", "204"}

\* A handler: its program counter and method; the cursor it was sent and
\* that cursor's incarnation; the empty page it holds while it waits; the
\* incarnation it appended to.
Handler == [pc: Pcs, op: {"get", "post", "delete"}, since: Seqs, lin: Nat,
            page: [gen: Nat, last: Seqs], wrote: Nat]

NoPage == [gen |-> 0, last |-> -1]
Free == [pc |-> "free", op |-> "get", since |-> -1, lin |-> 0, page |-> NoPage,
         wrote |-> 0]

\* A response: its status, and whether the request had appended its event.
Answer  == [code: Codes, wrote: BOOLEAN]
NoReply == [code |-> "none", wrote |-> FALSE]

TypeOK ==
  /\ live \in BOOLEAN /\ gen \in Nat
  /\ log \in Seq(Client) /\ Len(log) <= MaxEvents
  /\ entry \in BOOLEAN /\ subs \in SUBSET Request
  /\ stopping \in BOOLEAN /\ reaping \in BOOLEAN
  /\ req \in [Request -> Handler]
  /\ cursor \in [Client -> Seqs] /\ fresh \in [Client -> Nat]
  /\ seen \in [Client -> SUBSET Events]
  /\ reply \in Answer

Init ==
  /\ live = FALSE /\ gen = 0 /\ log = <<>>
  /\ entry = FALSE /\ subs = {} /\ stopping = FALSE /\ reaping = FALSE
  /\ req = [r \in Request |-> Free]
  /\ cursor = [c \in Client |-> -1] /\ fresh = [c \in Client |-> 0]
  /\ seen = [c \in Client |-> {}]
  /\ reply = NoReply

-----------------------------------------------------------------------------
(***************************************************************************)
(* Helpers: the head of the log, pages, the waiters map and replies.       *)
(***************************************************************************)

Head_ == Len(log) - 1

\* Events(since): the seq of the last event a page after since may end with.
\* An empty page answers with the head, also when since is ahead of it.
PageLasts(since) ==
  IF Head_ <= since THEN {Head_}
  ELSE {n \in (since + 1) .. Head_ : n <= since + PageEvents}

At(r, p) == req[r].pc = p
Goto(r, p) == req' = [req EXCEPT ![r].pc = p]

\* notifyCh: hold the open Go channel, made if there is none.
NotifyCh(r) == entry' = TRUE /\ subs' = subs \cup {r}
\* notify: close the open Go channel, if any, and forget it.
Notify == entry' = FALSE /\ subs' = {}

Say(r, code) == reply' = [code |-> code, wrote |-> req[r].wrote # 0]
Quiet == reply' = NoReply
\* The restart guard around every handler: what arrives at a stopping server
\* is answered without running one.
Restarting == /\ stopping /\ UNCHANGED req
              /\ reply' = [NoReply EXCEPT !.code = "refused"]

\* The handler returns; its client receives a page of incarnation g that
\* ends at last, or the connection is gone and it receives nothing.
Finish(r, code) == req' = [req EXCEPT ![r] = Free] /\ Say(r, code)
Lost == UNCHANGED clients
Receive(r, g, last) ==
  LET c == Owner[r]
      own == IF req[r].wrote # 0 THEN {<<req[r].wrote, req[r].since>>} ELSE {}
      page == {<<g, n>> : n \in (req[r].since + 1) .. last}
  IN /\ cursor' = [cursor EXCEPT ![c] = last]
     /\ fresh' = [fresh EXCEPT ![c] =
                    IF req[r].since = -1 \/ req[r].lin = g THEN g ELSE 0]
     /\ seen' = [seen EXCEPT ![c] = @ \cup own \cup page]
AnswerPage(r, code, g, last) == Finish(r, code) /\ (Receive(r, g, last) \/ Lost)
AnswerError(r, code) == Finish(r, code) /\ Lost
Success(r) == IF req[r].op = "get" THEN "page" ELSE "posted"

-----------------------------------------------------------------------------
(***************************************************************************)
(* Creation, retention and deletion of the row.                            *)
(***************************************************************************)

\* CreateChannel: refuses an id that exists; a new row has no events.
CreateChannel == ~live /\ live' = TRUE /\ gen' = gen + 1 /\ log' = <<>>
\* The row goes, and its events with it.
DeleteRow == live /\ live' = FALSE /\ log' = <<>> /\ gen' = gen

\* handleNew, for an address that has a creation token.  A handler that was
\* entered before a stop still commits, so neither this nor a deletion under
\* way is kept off by it.
Create ==
  /\ gen < MaxGen /\ CreateChannel
  /\ Quiet /\ UNCHANGED <<entry, subs, stopping, reaping, req, clients>>

\* Reap: one DELETE, then a notification per deleted id.  Whether the last
\* activity is older than the retention is left to the clock: any channel may
\* be reaped at any time, also right after a post.
Reap == DeleteRow /\ reaping' = TRUE
\* The reaper's loop: one Reap at a time.
ReapDelete ==
  /\ ~reaping /\ Reap
  /\ Quiet /\ UNCHANGED <<entry, subs, stopping, req, clients>>
\* The reaper leaves the long polls of a deleted channel asleep.
ReapNotify_Silent ==
  /\ reaping /\ reaping' = FALSE
  /\ Quiet /\ UNCHANGED <<store, stopping, req, clients, entry, subs>>
ReapNotify ==
  /\ reaping /\ reaping' = FALSE /\ Notify
  /\ Quiet /\ UNCHANGED <<store, stopping, req, clients>>

\* DeleteChannel: authentication and deletion in one transaction, then notify.
DeleteChannel(r) ==
  \/ /\ ~live /\ AnswerError(r, "404") /\ UNCHANGED store
  \/ /\ DeleteRow /\ UNCHANGED clients /\ Quiet
     /\ req' = [req EXCEPT ![r] = [Free EXCEPT !.pc = "deleted", !.op = "delete"]]
\* handleDelete, from its arrival to the commit.
Delete(r) ==
  /\ At(r, "free")
  /\ \/ Restarting /\ UNCHANGED <<store, clients>>
     \/ DeleteChannel(r)
  /\ UNCHANGED <<entry, subs, stopping, reaping>>
DeleteNotify(r) ==
  /\ At(r, "deleted") /\ Notify /\ AnswerError(r, "204")
  /\ UNCHANGED <<store, stopping, reaping>>

-----------------------------------------------------------------------------
(***************************************************************************)
(* Requests.                                                               *)
(***************************************************************************)

\* Channel: the row is found, or the id is unknown.
Channel == live
\* A client sends a request.  A server that is stopping refuses it at once;
\* otherwise authorizeEvents loads the row, before the body is read.
Send(r, op, pc, since) ==
  /\ At(r, "free") /\ UNCHANGED <<store, entry, subs, stopping, reaping, clients>>
  /\ \/ Restarting
     \/ /\ ~stopping /\ ~Channel /\ UNCHANGED req
        /\ reply' = [NoReply EXCEPT !.code = "404"]
     \/ /\ ~stopping /\ Channel /\ Quiet
        /\ req' = [req EXCEPT ![r] = [Free EXCEPT !.pc = pc, !.op = op,
                     !.since = since, !.lin = fresh[Owner[r]]]]

Get(r)  == \E since \in {cursor[Owner[r]], -1} : Send(r, "get", "loop", since)
Post(r) == Send(r, "post", "append", cursor[Owner[r]])

\* Variants with a defect, each the definition it precedes with one line wrong.
\* Append without comparing the cursor with the head.
AppendTx_Blind(r) ==
  /\ At(r, "append") /\ live /\ Len(log) < MaxEvents
  /\ log' = Append(log, Owner[r])
  /\ req' = [req EXCEPT ![r].pc = "posted", ![r].since = Len(log), ![r].wrote = gen]
  /\ Quiet /\ UNCHANGED <<live, gen, clients, entry, subs, stopping, reaping>>

\* Append: the transaction.  On a conflict it is rolled back first, because
\* the page is read in a transaction of its own.
AppendTx(r) ==
  /\ At(r, "append")
  /\ \/ /\ ~live /\ AnswerError(r, "404") /\ UNCHANGED store
     \/ /\ live /\ Head_ # req[r].since
        /\ Goto(r, "conflict") /\ Quiet /\ UNCHANGED <<store, clients>>
     \/ /\ live /\ Head_ = req[r].since  \* the count, or the byte budget
        /\ AnswerError(r, "full") /\ UNCHANGED store
     \/ /\ live /\ Head_ = req[r].since /\ Len(log) < MaxEvents
        /\ log' = Append(log, Owner[r])
        /\ req' = [req EXCEPT ![r].pc = "posted", ![r].since = Len(log),
                     ![r].wrote = gen,
                     ![r].lin = IF req[r].since = -1 \/ @ = gen THEN gen ELSE 0]
        /\ Quiet /\ UNCHANGED <<live, gen, clients>>
  /\ UNCHANGED <<entry, subs, stopping, reaping>>

ConflictRead(r) ==
  /\ At(r, "conflict")
  /\ \/ ~live /\ AnswerError(r, "404")
     \/ live /\ \E last \in PageLasts(req[r].since) : AnswerPage(r, "conflict", gen, last)
  /\ UNCHANGED <<store, entry, subs, stopping, reaping>>

PostNotify(r) ==
  /\ At(r, "posted") /\ Notify /\ Goto(r, "loop") /\ Quiet
  /\ UNCHANGED <<store, stopping, reaping, clients>>

\* A committed post is refused with the reads; or it claims the head.
AnswerRestarting_RefuseAll(r) == AnswerError(r, "refused")
AnswerRestarting_ClaimHead(r) ==
  \/ /\ req[r].op = "get" /\ AnswerError(r, "refused")
  \/ /\ req[r].op = "post" /\ Finish(r, "posted")
     /\ cursor' = [cursor EXCEPT ![Owner[r]] = Head_]
     /\ fresh' = [fresh EXCEPT ![Owner[r]] = req[r].lin]
     /\ seen' = [seen EXCEPT ![Owner[r]] = @ \cup {<<req[r].wrote, req[r].since>>}]

\* A wait cut short by the stop: a read is refused; a post has committed, so
\* it is acknowledged with its own seq as the cursor.
AnswerRestarting(r) ==
  \/ /\ req[r].op = "get" /\ AnswerError(r, "refused")
  \/ /\ req[r].op = "post"
     /\ Finish(r, "posted")
     /\ (Receive(r, req[r].wrote, req[r].since) \/ Lost)

\* WaitEvents: subscribe before reading, so that no wakeup is lost.
Subscribe(r) ==
  /\ At(r, "loop")
  /\ \/ /\ stopping /\ AnswerRestarting(r) /\ UNCHANGED <<entry, subs>>
     \/ /\ ~stopping /\ NotifyCh(r)
        /\ Goto(r, "read") /\ Quiet /\ Lost
  /\ UNCHANGED <<store, stopping, reaping>>

ReadPage(r) ==
  /\ At(r, "read")
  /\ \/ ~live /\ Goto(r, "gone") /\ Quiet /\ Lost
     \/ live /\ \E last \in PageLasts(req[r].since) : AnswerPage(r, Success(r), gen, last)
     \/ /\ live /\ Head_ <= req[r].since /\ Quiet /\ Lost
        /\ req' = [req EXCEPT ![r].pc = "waiting",
                     ![r].page = [gen |-> gen, last |-> Head_]]
  /\ UNCHANGED <<store, entry, subs, stopping, reaping>>

\* The handler leaves the entry it re-created.
GoneNotify_Leak(r) ==
  /\ At(r, "gone") /\ AnswerError(r, "404")
  /\ UNCHANGED <<store, stopping, reaping, entry, subs>>
\* The poll may have re-created the waiters entry of a deleted channel.
GoneNotify(r) ==
  /\ At(r, "gone") /\ Notify /\ AnswerError(r, "404")
  /\ UNCHANGED <<store, stopping, reaping>>

\* The select: notified, timed out or abandoned, or stopped by the server.
Wake(r) ==
  /\ At(r, "waiting") /\ r \notin subs /\ Quiet /\ Lost
  /\ req' = [req EXCEPT ![r].pc = "loop", ![r].page = NoPage]
  /\ UNCHANGED <<store, entry, subs, stopping, reaping>>
TimeOut(r) ==
  /\ At(r, "waiting") /\ AnswerPage(r, Success(r), req[r].page.gen, req[r].page.last)
  /\ UNCHANGED <<store, entry, subs, stopping, reaping>>
StopWait(r) ==
  /\ At(r, "waiting") /\ stopping /\ AnswerRestarting(r)
  /\ UNCHANGED <<store, entry, subs, stopping, reaping>>

-----------------------------------------------------------------------------
(***************************************************************************)
(* The process.                                                            *)
(***************************************************************************)

BeginStop ==
  /\ ~stopping /\ stopping' = TRUE /\ Quiet
  /\ UNCHANGED <<store, entry, subs, reaping, req, clients>>

\* The process ends, by the shutdown timeout or by a crash, and a new one
\* starts over the same database: committed rows survive, handlers do not.
Restart ==
  /\ stopping' = FALSE /\ reaping' = FALSE /\ entry' = FALSE /\ subs' = {}
  /\ req' = [r \in Request |-> Free] /\ Quiet
  /\ UNCHANGED <<store, clients>>

Handle(r) ==
  \/ DeleteNotify(r) \/ AppendTx(r)
  \/ ConflictRead(r) \/ PostNotify(r) \/ Subscribe(r) \/ ReadPage(r)
  \/ GoneNotify(r) \/ Wake(r) \/ TimeOut(r) \/ StopWait(r)

Next ==
  \/ Create \/ ReapDelete \/ ReapNotify \/ BeginStop \/ Restart
  \/ \E r \in Request :
       Get(r) \/ Post(r) \/ Delete(r) \/ Handle(r)

\* Goroutines run: a step a handler or the reaper can take without a client
\* or a clock is taken.  A timeout is not forced, nor any client's request.
Progress(r) == \/ PostNotify(r) \/ DeleteNotify(r) \/ GoneNotify(r)
               \/ Wake(r) \/ Subscribe(r) \/ ReadPage(r)
Fairness == WF_vars(ReapNotify) /\ \A r \in Request : WF_vars(Progress(r))

Spec == Init /\ [][Next]_vars
FairSpec == Spec /\ Fairness

-----------------------------------------------------------------------------
(***************************************************************************)
(* Properties.                                                             *)
(***************************************************************************)

\* A notification is under way: a row changed and its writer has not yet
\* closed the open Go channel.
Notifying == reaping \/ \E r \in Request : req[r].pc \in {"posted", "deleted", "gone"}

\* A handler that still sleeps on the open Go channel although the channel is
\* gone or holds an event it waits for is about to be woken.
NoLostWakeup ==
  \A r \in Request :
    (At(r, "waiting") /\ r \in subs /\ (~live \/ Head_ > req[r].since)) => Notifying

\* A waiters entry of a deleted channel exists only while a handler or the
\* reaper is still going to remove it.
NoOrphanEntry ==
  (entry /\ ~live) =>
    \/ Notifying
    \/ \E r \in Request : At(r, "read")

\* No wakeup is lost between a commit and its notification (the order of
\* notifyCh and Events in WaitEvents), and the waiters map does not keep
\* entries of deleted channels for ever (the second notify of WaitEvents).
Wakeups == NoLostWakeup /\ NoOrphanEntry

\* A cursor acknowledges only events its holder received: a client whose
\* cursor belongs to the current incarnation received every event up to it.
CursorCovered ==
  \A c \in Client : (live /\ fresh[c] = gen) =>
    \A n \in 0 .. cursor[c] : <<gen, n>> \in seen[c]

\* Read before reply: a post is accepted only from a client that received
\* every event before it, given that its cursor was obtained in this
\* incarnation of the channel.
Accepts(r) == /\ At(r, "append") /\ req'[r].pc = "posted"
ReadBeforeReply ==
  [][\A r \in Request : (Accepts(r) /\ req[r].lin = gen) =>
       \A n \in 0 .. Head_ : <<gen, n>> \in seen[Owner[r]]]_vars

\* A reply never misstates whether the post was appended: "posted:false" and
\* the refusals follow no append, "posted:true" follows one.
HonestReply ==
  /\ reply.code \in {"conflict", "full", "refused"} => ~reply.wrote
  /\ reply.code = "posted" => reply.wrote

\* A long poll whose answer is available is answered, unless the channel is
\* created anew before the handler reads it.
Answerable(r) == ~live \/ Head_ > req[r].since
PollAnswered ==
  \A r \in Request :
    (At(r, "waiting") /\ Answerable(r)) ~> (At(r, "free") \/ ~Answerable(r))

\* The log and what the clients know of it implement the abstract log, while
\* the channel is created only once (MaxGen = 1).
Cas == INSTANCE CasLog WITH
  alive <- live,
  got <- [c \in Client |-> {n \in 0 .. MaxEvents : live /\ <<gen, n>> \in seen[c]}]
ImplementsCasLog == Cas!Spec
=============================================================================
