------------------------- MODULE ChannelStoreProofs -------------------------
(***************************************************************************)
(* Theorems of ChannelStore, for any clients, connections and limits.      *)
(***************************************************************************)
EXTENDS ChannelStore, TLAPS

(***************************************************************************)
(* The type invariant.                                                     *)
(***************************************************************************)

LEMMA FreeType == Free \in Handler /\ NoReply \in Answer
BY DEF Free, Handler, NoPage, Seqs, Pcs, NoReply, Answer, Codes

LEMMA EmptyLog == <<>> \in Seq(Client) /\ Len(<<>>) = 0 /\ 0 <= MaxEvents
BY StoreAssumption

\* What a step may assign to the fields of a handler keeps it a handler.
LEMMA HandlerFields ==
  ASSUME NEW h \in Handler
  PROVE  /\ \A pc \in Pcs : [h EXCEPT !.pc = pc] \in Handler
         /\ \A op \in {"get", "post", "delete"} : [h EXCEPT !.op = op] \in Handler
         /\ \A since \in Seqs : [h EXCEPT !.since = since] \in Handler
         /\ \A n \in Nat : [h EXCEPT !.lin = n] \in Handler
         /\ \A n \in Nat : [h EXCEPT !.wrote = n] \in Handler
         /\ \A p \in [gen: Nat, last: Seqs] : [h EXCEPT !.page = p] \in Handler
<1>1. \A pc \in Pcs : [h EXCEPT !.pc = pc] \in Handler
  BY DEF Handler
<1>2. \A op \in {"get", "post", "delete"} : [h EXCEPT !.op = op] \in Handler
  BY DEF Handler
<1>3. \A since \in Seqs : [h EXCEPT !.since = since] \in Handler
  BY DEF Handler
<1>4. \A n \in Nat : [h EXCEPT !.lin = n] \in Handler
  BY DEF Handler
<1>5. \A n \in Nat : [h EXCEPT !.wrote = n] \in Handler
  BY DEF Handler
<1>6. \A p \in [gen: Nat, last: Seqs] : [h EXCEPT !.page = p] \in Handler
  BY DEF Handler
<1> QED BY <1>1, <1>2, <1>3, <1>4, <1>5, <1>6

LEMMA PageLastsType ==
  ASSUME TypeOK, NEW since \in Seqs
  PROVE  /\ Head_ \in Seqs
         /\ \A n \in PageLasts(since) : n \in Seqs /\ n <= Head_ /\ (n > since \/ n = Head_)
<1>1. /\ Len(log) \in Nat /\ Head_ = Len(log) - 1 /\ PageEvents \in Nat
      /\ Head_ \in Seqs /\ since \in Int /\ since >= -1
  BY StoreAssumption DEF TypeOK, Head_, Seqs
<1>2. CASE Head_ <= since
  BY <1>1, <1>2 DEF PageLasts
<1>3. CASE ~(Head_ <= since)
  <2>1. PageLasts(since) = {n \in (since + 1) .. Head_ : n <= since + PageEvents}
    BY <1>3 DEF PageLasts
  <2>2. \A n \in PageLasts(since) : n \in Int /\ since + 1 <= n /\ n <= Head_
    BY <1>1, <2>1
  <2> QED BY <1>1, <2>2 DEF Seqs
<1> QED BY <1>1, <1>2, <1>3

LEMMA FinishType ==
  ASSUME TypeOK, NEW r \in Request, NEW code \in Codes, Finish(r, code)
  PROVE  req' \in [Request -> Handler] /\ reply' \in Answer
BY FreeType DEF TypeOK, Finish, Say, Answer

LEMMA ReceiveType ==
  ASSUME TypeOK, NEW r \in Request, NEW g \in Nat, NEW last \in Seqs,
         Receive(r, g, last) \/ Lost
  PROVE  /\ cursor' \in [Client -> Seqs] /\ fresh' \in [Client -> Nat]
         /\ seen' \in [Client -> SUBSET Events]
<1>1. CASE Lost
  BY <1>1 DEF Lost, clients, TypeOK
<1>2. CASE Receive(r, g, last)
  <2>1. Owner[r] \in Client /\ req[r] \in Handler
    BY StoreAssumption DEF TypeOK
  <2>2. cursor' \in [Client -> Seqs] /\ fresh' \in [Client -> Nat]
    BY <1>2, <2>1 DEF Receive, TypeOK, Handler
  <2>3. {<<g, n>> : n \in (req[r].since + 1) .. last} \subseteq Events
    BY <2>1 DEF Events, Handler, Seqs
  <2>4. (IF req[r].wrote # 0 THEN {<<req[r].wrote, req[r].since>>} ELSE {}) \subseteq Events
    BY <2>1 DEF Events, Handler
  <2>5. seen' \in [Client -> SUBSET Events]
    BY <1>2, <2>1, <2>3, <2>4 DEF Receive, TypeOK
  <2> QED BY <2>2, <2>5
<1> QED BY <1>1, <1>2

LEMMA TypeInit == ASSUME Init PROVE TypeOK
<1>1. cursor \in [Client -> Seqs] /\ fresh \in [Client -> Nat]
  BY DEF Init, Seqs
<1>2. seen \in [Client -> SUBSET Events] /\ req \in [Request -> Handler]
  BY FreeType DEF Init
<1>3. log \in Seq(Client) /\ Len(log) <= MaxEvents
  BY EmptyLog DEF Init
<1> QED BY <1>1, <1>2, <1>3, FreeType DEF Init, TypeOK

LEMMA RestartingType ==
  ASSUME TypeOK, NEW r \in Request, AnswerRestarting(r)
  PROVE  /\ req' \in [Request -> Handler] /\ reply' \in Answer
         /\ cursor' \in [Client -> Seqs] /\ fresh' \in [Client -> Nat]
         /\ seen' \in [Client -> SUBSET Events]
<1>1. CASE AnswerError(r, "refused")
  BY <1>1, FinishType DEF AnswerError, Lost, clients, TypeOK, Codes
<1>2. CASE Finish(r, "posted") /\ (Receive(r, req[r].wrote, req[r].since) \/ Lost)
  <2>1. req[r].wrote \in Nat /\ req[r].since \in Seqs
    BY DEF TypeOK, Handler
  <2> QED BY <1>2, <2>1, FinishType, ReceiveType DEF Codes
<1> QED BY <1>1, <1>2 DEF AnswerRestarting

LEMMA TypeNext == TypeOK /\ [Next]_vars => TypeOK'
<1> SUFFICES ASSUME TypeOK, [Next]_vars PROVE TypeOK'
  OBVIOUS
<1> USE DEF Quiet, Lost, store, clients
<1>0. gen \in Nat /\ Head_ \in Seqs /\ Len(log) \in Nat
  BY DEF TypeOK, Head_, Seqs
<1>1. CASE Create
  BY <1>1, FreeType, EmptyLog DEF Create, CreateChannel, TypeOK
<1>2. CASE ReapDelete
  BY <1>2, FreeType, EmptyLog DEF ReapDelete, Reap, DeleteRow, TypeOK
<1>3. CASE ReapNotify
  BY <1>3, FreeType DEF ReapNotify, Notify, TypeOK
<1>4. CASE BeginStop
  BY <1>4, FreeType DEF BeginStop, TypeOK
<1>5. CASE Restart
  BY <1>5, FreeType DEF Restart, TypeOK
<1>6. ASSUME NEW r \in Request, Get(r) \/ Post(r) PROVE TypeOK'
  <2>1. Owner[r] \in Client /\ cursor[Owner[r]] \in Seqs /\ fresh[Owner[r]] \in Nat
    BY StoreAssumption DEF TypeOK
  <2>2. PICK op \in {"get", "post"}, pc \in {"loop", "append"}, since \in Seqs :
           Send(r, op, pc, since)
    BY <1>6, <2>1 DEF Get, Post, Seqs
  <2>3. [Free EXCEPT !.pc = pc, !.op = op, !.since = since,
                     !.lin = fresh[Owner[r]]] \in Handler
    <3>1. [Free EXCEPT !.pc = pc] \in Handler
      BY FreeType, HandlerFields DEF Pcs
    <3>2. [Free EXCEPT !.pc = pc, !.op = op] \in Handler
      BY <3>1, HandlerFields
    <3>3. [Free EXCEPT !.pc = pc, !.op = op, !.since = since] \in Handler
      BY <3>2, HandlerFields
    <3>4. [Free EXCEPT !.pc = pc, !.op = op, !.since = since,
                       !.lin = fresh[Owner[r]]] \in Handler
      BY <2>1, <3>3, HandlerFields
    <3> QED BY <1>0, <3>4, HandlerFields
  <2>4. req' \in [Request -> Handler]
    BY <2>2, <2>3 DEF Send, Restarting, Channel, TypeOK
  <2>5. reply' \in Answer
    BY <2>2, FreeType DEF Send, Restarting, Channel, NoReply, Answer, Codes
  <2> QED BY <2>2, <2>4, <2>5 DEF Send, Restarting, Channel, TypeOK
<1>7. ASSUME NEW r \in Request, Delete(r) PROVE TypeOK'
  <2>1. CASE AnswerError(r, "404") /\ UNCHANGED store
    BY <1>7, <2>1, FinishType DEF Delete, AnswerError, TypeOK, Codes
  <2>2. CASE Restarting /\ UNCHANGED <<store, clients>>
    BY <1>7, <2>2 DEF Delete, Restarting, TypeOK, NoReply, Answer, Codes
  <2>3. CASE DeleteRow /\ req' = [req EXCEPT ![r] = [Free EXCEPT !.pc = "deleted", !.op = "delete"]]
                       /\ UNCHANGED clients /\ Quiet
    <3>1. [Free EXCEPT !.pc = "deleted", !.op = "delete"] \in Handler
      <4>1. [Free EXCEPT !.pc = "deleted"] \in Handler
        BY FreeType, HandlerFields DEF Pcs
      <4> QED BY <4>1, HandlerFields
    <3> QED BY <1>7, <2>3, <3>1, FreeType, EmptyLog DEF Delete, DeleteRow, TypeOK
  <2> QED BY <1>7, <2>1, <2>2, <2>3 DEF Delete, DeleteChannel
<1>8. ASSUME NEW r \in Request, DeleteNotify(r) \/ GoneNotify(r) PROVE TypeOK'
  BY <1>8, FinishType DEF DeleteNotify, GoneNotify, AnswerError, Notify, TypeOK, Codes
<1>9. ASSUME NEW r \in Request, AppendTx(r) PROVE TypeOK'
  <2>1. CASE \E code \in {"404", "full"} : AnswerError(r, code) /\ UNCHANGED store
    BY <1>9, <2>1, FinishType DEF AppendTx, AnswerError, TypeOK, Codes
  <2>2. CASE Goto(r, "conflict") /\ Quiet /\ UNCHANGED <<store, clients>>
    <3>1. [req[r] EXCEPT !.pc = "conflict"] \in Handler
      BY DEF TypeOK, Handler, Pcs
    <3> QED BY <1>9, <2>2, <3>1, FreeType DEF AppendTx, Goto, TypeOK
  <2>3. CASE /\ live /\ Head_ = req[r].since /\ Len(log) < MaxEvents
             /\ log' = Append(log, Owner[r])
             /\ req' = [req EXCEPT ![r].pc = "posted", ![r].since = Len(log),
                         ![r].wrote = gen,
                         ![r].lin = IF req[r].since = -1 \/ @ = gen THEN gen ELSE 0]
             /\ Quiet /\ UNCHANGED <<live, gen, clients>>
    <3>1. [req[r] EXCEPT !.pc = "posted", !.since = Len(log), !.wrote = gen,
                         !.lin = IF req[r].since = -1 \/ req[r].lin = gen THEN gen ELSE 0]
             \in Handler
      <4>1. [req[r] EXCEPT !.pc = "posted"] \in Handler
        BY HandlerFields DEF TypeOK, Pcs
      <4>2. [req[r] EXCEPT !.pc = "posted", !.since = Len(log)] \in Handler
        <5>1. Len(log) \in Seqs
          BY <1>0 DEF Seqs
        <5> QED BY <4>1, <5>1, HandlerFields
      <4>3. [req[r] EXCEPT !.pc = "posted", !.since = Len(log), !.wrote = gen] \in Handler
        BY <1>0, <4>2, HandlerFields
      <4> QED BY <1>0, <4>3, HandlerFields
    <3>2. req' \in [Request -> Handler]
      BY <2>3, <3>1 DEF TypeOK
    <3>3. Owner[r] \in Client
      BY StoreAssumption
    <3>4. log' \in Seq(Client) /\ Len(log') <= MaxEvents
      BY <2>3, <3>3, <1>0, StoreAssumption DEF TypeOK
    <3> QED BY <1>9, <2>3, <3>2, <3>4, FreeType DEF AppendTx, TypeOK
  <2> QED BY <1>9, <2>1, <2>2, <2>3 DEF AppendTx
<1>10. ASSUME NEW r \in Request, ConflictRead(r) PROVE TypeOK'
  <2>1. CASE AnswerError(r, "404")
    BY <1>10, <2>1, FinishType DEF ConflictRead, AnswerError, TypeOK, Codes
  <2>2. ASSUME NEW last \in PageLasts(req[r].since), AnswerPage(r, "conflict", gen, last)
        PROVE TypeOK'
    <3>1. last \in Seqs
      BY PageLastsType, <2>2 DEF TypeOK, Handler
    <3> QED BY <1>10, <2>2, <3>1, <1>0, FinishType, ReceiveType
            DEF ConflictRead, AnswerPage, TypeOK, Codes
  <2> QED BY <1>10, <2>1, <2>2 DEF ConflictRead
<1>11. ASSUME NEW r \in Request, PostNotify(r) PROVE TypeOK'
  <2>1. [req[r] EXCEPT !.pc = "loop"] \in Handler
    BY DEF TypeOK, Handler, Pcs
  <2> QED BY <1>11, <2>1, FreeType DEF PostNotify, Notify, Goto, TypeOK
<1>12. ASSUME NEW r \in Request, Subscribe(r) PROVE TypeOK'
  <2>1. CASE AnswerRestarting(r) /\ UNCHANGED <<entry, subs>>
    BY <1>12, <2>1, RestartingType DEF Subscribe, TypeOK
  <2>2. CASE /\ entry' = TRUE /\ subs' = subs \cup {r}
             /\ Goto(r, "read") /\ Quiet /\ Lost
    <3>1. [req[r] EXCEPT !.pc = "read"] \in Handler
      BY DEF TypeOK, Handler, Pcs
    <3> QED BY <1>12, <2>2, <3>1, FreeType DEF Subscribe, NotifyCh, Goto, TypeOK
  <2> QED BY <1>12, <2>1, <2>2 DEF Subscribe, NotifyCh
<1>13. ASSUME NEW r \in Request, ReadPage(r) PROVE TypeOK'
  <2>1. CASE Goto(r, "gone") /\ Quiet /\ Lost
    <3>1. [req[r] EXCEPT !.pc = "gone"] \in Handler
      BY DEF TypeOK, Handler, Pcs
    <3> QED BY <1>13, <2>1, <3>1, FreeType DEF ReadPage, Goto, TypeOK
  <2>2. ASSUME NEW last \in PageLasts(req[r].since), AnswerPage(r, Success(r), gen, last)
        PROVE TypeOK'
    <3>1. last \in Seqs /\ Success(r) \in Codes
      BY PageLastsType, <2>2 DEF TypeOK, Handler, Success, Codes
    <3> QED BY <1>13, <2>2, <3>1, <1>0, FinishType, ReceiveType
            DEF ReadPage, AnswerPage, TypeOK
  <2>3. CASE /\ Quiet /\ Lost
             /\ req' = [req EXCEPT ![r].pc = "waiting",
                         ![r].page = [gen |-> gen, last |-> Head_]]
    <3>1. [req[r] EXCEPT !.pc = "waiting", !.page = [gen |-> gen, last |-> Head_]] \in Handler
      BY <1>0 DEF TypeOK, Handler, Pcs
    <3> QED BY <1>13, <2>3, <3>1, FreeType DEF ReadPage, TypeOK
  <2> QED BY <1>13, <2>1, <2>2, <2>3 DEF ReadPage
<1>14. ASSUME NEW r \in Request, Wake(r) PROVE TypeOK'
  <2>1. [req[r] EXCEPT !.pc = "loop", !.page = NoPage] \in Handler
    <3>1. [req[r] EXCEPT !.pc = "loop"] \in Handler
      BY HandlerFields DEF TypeOK, Pcs
    <3>2. NoPage \in [gen: Nat, last: Seqs]
      BY DEF NoPage, Seqs
    <3> QED BY <3>1, <3>2, HandlerFields
  <2> QED BY <1>14, <2>1, FreeType DEF Wake, TypeOK
<1>15. ASSUME NEW r \in Request, TimeOut(r) PROVE TypeOK'
  <2>1. req[r].page.gen \in Nat /\ req[r].page.last \in Seqs /\ Success(r) \in Codes
    BY DEF TypeOK, Handler, Success, Codes
  <2> QED BY <1>15, <2>1, FinishType, ReceiveType DEF TimeOut, AnswerPage, TypeOK
<1>16. ASSUME NEW r \in Request, StopWait(r) PROVE TypeOK'
  BY <1>16, RestartingType DEF StopWait, TypeOK
<1>17. CASE UNCHANGED vars
  BY <1>17 DEF vars, TypeOK
<1> QED
  BY <1>1, <1>2, <1>3, <1>4, <1>5, <1>6, <1>7, <1>8, <1>9, <1>10, <1>11, <1>12,
     <1>13, <1>14, <1>15, <1>16, <1>17 DEF Next, Handle

\* Every reachable state of the server is well typed; in particular no channel
\* ever holds more than MaxEvents events (Append's check before its insert).
THEOREM StoreTypeOK == Spec => []TypeOK
<1>1. Init => TypeOK
  BY TypeInit
<1>2. TypeOK /\ [Next]_vars => TypeOK'
  BY TypeNext
<1> QED BY <1>1, <1>2, PTL DEF Spec

-----------------------------------------------------------------------------
(***************************************************************************)
(* Wakeups.  Every step that makes an answer available also puts its       *)
(* handler (or the reaper) where it is about to notify, and leaves that    *)
(* place only by notifying, which empties subs and drops the entry.        *)
(***************************************************************************)

LEMMA WakeupsInit == Init => Wakeups
BY DEF Init, Wakeups, NoLostWakeup, NoOrphanEntry

\* A notification leaves nobody asleep and no entry.
LEMMA NotifyWakes == Notify => Wakeups'
BY DEF Notify, Wakeups, NoLostWakeup, NoOrphanEntry

\* So does a step that still has its notification to make.
LEMMA NotifyingWakes == Notifying' => Wakeups'
BY DEF Wakeups, NoLostWakeup, NoOrphanEntry

\* A handler that has nothing to notify returns or moves on to a place where
\* it does not sleep; nothing else changes.
LEMMA QuietStep ==
  ASSUME TypeOK, Wakeups, NEW r \in Request, NEW h \in Handler,
         req' = [req EXCEPT ![r] = h],
         h.pc \in {"free", "loop", "append", "conflict"},
         req[r].pc \notin {"posted", "deleted", "gone"},
         req[r].pc = "read" => live,
         UNCHANGED <<store, entry, subs, reaping>>
  PROVE  Wakeups'
<1>1. Notifying' = Notifying
  <2>1. \A q \in Request : q # r => req'[q] = req[q]
    BY DEF TypeOK
  <2>2. req'[r] = h
    BY DEF TypeOK
  <2> QED BY <2>1, <2>2 DEF Notifying
<1>2. NoLostWakeup'
  BY <1>1 DEF TypeOK, Wakeups, NoLostWakeup, At, store, Head_
<1>3. NoOrphanEntry'
  BY <1>1 DEF TypeOK, Wakeups, NoOrphanEntry, At, store
<1> QED BY <1>2, <1>3 DEF Wakeups

LEMMA WakeupsNext == TypeOK /\ Wakeups /\ [Next]_vars => Wakeups'
<1> SUFFICES ASSUME TypeOK, Wakeups, [Next]_vars PROVE Wakeups'
  OBVIOUS
<1> USE DEF Lost, clients, store
<1>0. Free \in Handler /\ Free.pc = "free" /\ Head_ \in Int
  BY FreeType DEF Free, TypeOK, Head_
<1>1. CASE Create
  <2>1. live' /\ Head_' = -1 /\ UNCHANGED <<req, reaping, entry, subs>>
    BY <1>1 DEF Create, CreateChannel, Head_
  <2>2. \A q \in Request : ~(Head_' > req'[q].since)
    <3> SUFFICES ASSUME NEW q \in Request PROVE ~(-1 > req[q].since)
      BY <2>1
    <3>1. req[q].since \in Seqs
      BY DEF TypeOK, Handler
    <3> QED BY <3>1 DEF Seqs
  <2> QED BY <2>1, <2>2 DEF Wakeups, NoLostWakeup, NoOrphanEntry
<1>2. CASE ReapDelete
  BY <1>2, NotifyingWakes DEF ReapDelete, Reap, DeleteRow, Notifying
<1>3. CASE ReapNotify
  BY <1>3, NotifyWakes DEF ReapNotify
<1>4. CASE BeginStop
  BY <1>4 DEF BeginStop, Wakeups, NoLostWakeup, NoOrphanEntry, Notifying, At, Head_
<1>5. CASE Restart
  BY <1>5 DEF Restart, Wakeups, NoLostWakeup, NoOrphanEntry
<1>6. ASSUME NEW r \in Request, Get(r) \/ Post(r) PROVE Wakeups'
  <2>1. PICK op \in {"get", "post"}, pc \in {"loop", "append"}, since \in Int \cup Seqs :
           Send(r, op, pc, since)
    <3>1. Owner[r] \in Client
      BY StoreAssumption
    <3> QED BY <1>6, <3>1 DEF Get, Post, TypeOK, Seqs
  <2>2. CASE UNCHANGED req
    BY <2>1, <2>2 DEF Send, Restarting, Channel, Wakeups, NoLostWakeup, NoOrphanEntry, Notifying, At, Head_
  <2>3. CASE ~UNCHANGED req
    <3>1. req' = [req EXCEPT ![r] = req'[r]] /\ req'[r].pc = pc
      BY <2>1, <2>3 DEF Send, Restarting, Channel, Free, TypeOK
    <3>2. req'[r] \in Handler
      BY TypeNext DEF TypeOK
    <3>3. req[r].pc = "free" /\ UNCHANGED <<store, entry, subs, reaping>>
      BY <2>1 DEF Send, Restarting, Channel, At
    <3> QED BY <3>1, <3>2, <3>3, QuietStep
  <2> QED BY <2>2, <2>3
<1>7. ASSUME NEW r \in Request, Delete(r) PROVE Wakeups'
  <2>1. CASE AnswerError(r, "404") /\ UNCHANGED store
    BY <1>0, <1>7, <2>1, QuietStep DEF Delete, AnswerError, Finish, At
  <2>2. CASE Restarting /\ UNCHANGED store
    BY <1>7, <2>2 DEF Delete, Restarting, Wakeups, NoLostWakeup, NoOrphanEntry, Notifying, At, Head_
  <2>3. CASE req' = [req EXCEPT ![r] = [Free EXCEPT !.pc = "deleted", !.op = "delete"]]
    BY <2>3, NotifyingWakes DEF TypeOK, Notifying, Free
  <2> QED BY <1>7, <2>1, <2>2, <2>3 DEF Delete, DeleteChannel
<1>8. ASSUME NEW r \in Request, DeleteNotify(r) \/ GoneNotify(r) \/ PostNotify(r)
      PROVE Wakeups'
  BY <1>8, NotifyWakes DEF DeleteNotify, GoneNotify, PostNotify
<1>9. ASSUME NEW r \in Request, AppendTx(r) PROVE Wakeups'
  <2>1. CASE \E code \in Codes : AnswerError(r, code) /\ UNCHANGED store
    BY <1>0, <1>9, <2>1, QuietStep DEF AppendTx, AnswerError, Finish, At
  <2>2. CASE Goto(r, "conflict") /\ UNCHANGED <<store, clients>>
    <3>1. [req[r] EXCEPT !.pc = "conflict"] \in Handler
      BY HandlerFields DEF TypeOK, Pcs
    <3>2. [req[r] EXCEPT !.pc = "conflict"].pc = "conflict"
      BY DEF TypeOK, Handler
    <3> QED BY <1>9, <2>2, <3>1, <3>2, QuietStep DEF AppendTx, Goto, At
  <2>3. CASE req'[r].pc = "posted"
    BY <2>3, NotifyingWakes DEF Notifying
  <2>4. req' = [req EXCEPT ![r].pc = "posted", ![r].since = Len(log), ![r].wrote = gen,
                  ![r].lin = IF req[r].since = -1 \/ @ = gen THEN gen ELSE 0]
          => req'[r].pc = "posted"
    BY DEF TypeOK, Handler
  <2> QED BY <1>9, <2>1, <2>2, <2>3, <2>4 DEF AppendTx, Codes
<1>10. ASSUME NEW r \in Request, ConflictRead(r) PROVE Wakeups'
  BY <1>0, <1>10, QuietStep DEF ConflictRead, AnswerError, AnswerPage, Finish, At
<1>11. ASSUME NEW r \in Request, Subscribe(r) PROVE Wakeups'
  <2>1. CASE AnswerRestarting(r) /\ UNCHANGED <<entry, subs>>
    BY <1>0, <1>11, <2>1, QuietStep DEF Subscribe, NotifyCh, AnswerRestarting, AnswerError, Finish, At
  <2>2. CASE entry' = TRUE /\ subs' = subs \cup {r} /\ Goto(r, "read")
    <3>1. req' = [req EXCEPT ![r].pc = "read"] /\ req'[r].pc = "read"
      BY <2>2 DEF Goto, TypeOK, Handler
    <3>2. Notifying' = Notifying
      <4>1. \A q \in Request : q # r => req'[q] = req[q]
        BY <3>1 DEF TypeOK
      <4> QED BY <1>11, <3>1, <4>1 DEF Notifying, Subscribe, NotifyCh, At
    <3>3. NoLostWakeup'
      BY <1>11, <2>2, <3>1, <3>2 DEF TypeOK, Wakeups, NoLostWakeup, At, Head_, Subscribe, NotifyCh
    <3>4. NoOrphanEntry'
      BY <3>1 DEF NoOrphanEntry, At
    <3> QED BY <3>3, <3>4 DEF Wakeups
  <2> QED BY <1>11, <2>1, <2>2 DEF Subscribe, NotifyCh
<1>12. ASSUME NEW r \in Request, ReadPage(r) PROVE Wakeups'
  <2>1. CASE Goto(r, "gone")
    <3>1. req'[r].pc = "gone"
      BY <2>1 DEF Goto, TypeOK, Handler
    <3> QED BY <3>1, NotifyingWakes DEF Notifying
  <2>2. CASE live /\ \E last \in PageLasts(req[r].since) : AnswerPage(r, Success(r), gen, last)
    BY <1>0, <1>12, <2>2, QuietStep DEF ReadPage, AnswerPage, Finish, At
  <2>3. CASE /\ live /\ Head_ <= req[r].since
             /\ req' = [req EXCEPT ![r].pc = "waiting",
                          ![r].page = [gen |-> gen, last |-> Head_]]
    <3>1. /\ req'[r].pc = "waiting" /\ req'[r].since = req[r].since
          /\ \A q \in Request : q # r => req'[q] = req[q]
      BY <2>3 DEF TypeOK, Handler
    <3>2. Notifying' = Notifying /\ Head_' = Head_
      BY <1>12, <3>1 DEF Notifying, ReadPage, At, Head_
    <3>3. NoLostWakeup'
      <4> SUFFICES ASSUME NEW q \in Request, At(q, "waiting")', q \in subs',
                          ~live' \/ Head_' > req'[q].since
                   PROVE  Notifying'
        BY DEF NoLostWakeup
      <4>1. CASE q = r
        <5>1. live' /\ Head_' = Head_ /\ req'[q].since = req[r].since
          BY <1>12, <2>3, <3>1, <3>2, <4>1 DEF ReadPage
        <5>2. req[r].since \in Int
          BY DEF TypeOK, Handler, Seqs
        <5> QED BY <1>0, <2>3, <5>1, <5>2
      <4>2. CASE q # r
        BY <1>12, <3>1, <3>2, <4>2 DEF ReadPage, Wakeups, NoLostWakeup, At
      <4> QED BY <4>1, <4>2
    <3>4. NoOrphanEntry'
      BY <1>12, <2>3 DEF NoOrphanEntry, ReadPage
    <3> QED BY <3>3, <3>4 DEF Wakeups
  <2> QED BY <1>12, <2>1, <2>2, <2>3 DEF ReadPage
<1>13. ASSUME NEW r \in Request, Wake(r) PROVE Wakeups'
  <2>1. req' = [req EXCEPT ![r] = req'[r]] /\ req'[r].pc = "loop" /\ req'[r] \in Handler
    BY <1>13, TypeNext DEF Wake, TypeOK, Handler
  <2> QED BY <1>13, <2>1, QuietStep DEF Wake, At
<1>14. ASSUME NEW r \in Request, TimeOut(r) \/ StopWait(r) PROVE Wakeups'
  BY <1>0, <1>14, QuietStep
     DEF TimeOut, StopWait, AnswerPage, AnswerRestarting, AnswerError, Finish, At
<1>15. CASE UNCHANGED vars
  BY <1>15 DEF vars, Wakeups, NoLostWakeup, NoOrphanEntry, Notifying, At, Head_
<1> QED
  BY <1>1, <1>2, <1>3, <1>4, <1>5, <1>6, <1>7, <1>8, <1>9, <1>10, <1>11, <1>12,
     <1>13, <1>14, <1>15 DEF Next, Handle

\* No lost wakeup and no orphaned waiters entry, for any number of connections
\* and incarnations: whoever sleeps although its answer is there is about to be
\* woken, and no entry outlives its channel unless a handler or the reaper is on
\* its way to remove it.
THEOREM StoreWakeups == Spec => []Wakeups
<1>1. Init => TypeOK /\ Wakeups
  BY TypeInit, WakeupsInit
<1>2. TypeOK /\ Wakeups /\ [Next]_vars => (TypeOK /\ Wakeups)'
  BY TypeNext, WakeupsNext
<1> QED BY <1>1, <1>2, PTL DEF Spec

-----------------------------------------------------------------------------
(***************************************************************************)
(* Cursors.  The ledger relates what each handler and each client hold to  *)
(* what the client received: a cursor that belongs to one incarnation      *)
(* stands for all events of that incarnation up to it.  A handler whose    *)
(* event was appended stands for all events before its own.                *)
(***************************************************************************)

Have(c, g, n) == \A k \in 0 .. n : <<g, k>> \in seen[c]

HandlerOK(h) ==
  /\ h.op = "get" => h.wrote = 0
  /\ h.pc \in {"append", "conflict"} => (h.wrote = 0 /\ h.op # "get")
  /\ (h.op # "get" /\ h.pc \in {"posted", "loop", "read", "waiting"}) => h.wrote # 0
  /\ h.wrote # 0 => (h.since # -1 /\ h.lin \in {0, h.wrote})

Known(h) == IF h.wrote # 0 THEN h.since - 1 ELSE h.since

HandlersOK == \A r \in Request : HandlerOK(req[r])
HandlersCovered == \A r \in Request : req[r].lin # 0 => Have(Owner[r], req[r].lin, Known(req[r]))
CursorsCovered == \A c \in Client : fresh[c] # 0 => Have(c, fresh[c], cursor[c])
Created == live => gen # 0

Ledger == HandlersOK /\ HandlersCovered /\ CursorsCovered /\ Created

LEMMA LedgerInit == Init => Ledger
BY DEF Init, Ledger, HandlersOK, HandlerOK, HandlersCovered, CursorsCovered, Created, Free

LEMMA SeenGrows ==
  ASSUME TypeOK, NEW r \in Request, NEW g, NEW last, Receive(r, g, last) \/ Lost
  PROVE  \A c \in Client : seen[c] \subseteq seen'[c]
<1>1. CASE Lost BY <1>1 DEF Lost, clients
<1>2. CASE Receive(r, g, last)
  <2>1. DOMAIN seen = Client BY DEF TypeOK
  <2>2. PICK own, page : seen' = [seen EXCEPT ![Owner[r]] = seen[Owner[r]] \cup own \cup page]
    BY <1>2, Zenon DEF Receive
  <2> QED BY <2>1, <2>2
<1> QED BY <1>1, <1>2

\* The cursor a client receives stands for events it has received.
LEMMA ReceiveCovers ==
  ASSUME TypeOK, Ledger, NEW r \in Request, NEW g \in Nat, NEW last \in Seqs,
         Receive(r, g, last) \/ Lost
  PROVE  CursorsCovered'
<1>1. CASE Lost
  BY <1>1 DEF Lost, clients, Ledger, CursorsCovered, Have
<1>2. CASE Receive(r, g, last)
  <2> DEFINE c == Owner[r]
  <2>1. c \in Client /\ req[r] \in Handler
    BY StoreAssumption DEF TypeOK
  <2>2. /\ req[r].since \in Int /\ req[r].since >= -1 /\ req[r].wrote \in Nat
        /\ last \in Int
    BY <2>1 DEF Handler, Seqs
  <2>3. SUFFICES ASSUME NEW d \in Client, fresh'[d] # 0, NEW k \in 0 .. cursor'[d]
                 PROVE  <<fresh'[d], k>> \in seen'[d]
    BY DEF CursorsCovered, Have
  <2>4. CASE d # c
    BY <1>2, <2>1, <2>3, <2>4 DEF Receive, Ledger, CursorsCovered, Have, TypeOK
  <2>5. CASE d = c
    <3>1. /\ fresh'[c] = g /\ g # 0 /\ k \in 0 .. last
          /\ req[r].since = -1 \/ req[r].lin = g
      BY <1>2, <2>1, <2>3, <2>5 DEF Receive, TypeOK
    <3>2. CASE k > req[r].since
      <4>1. k \in (req[r].since + 1) .. last
        BY <2>2, <3>1, <3>2
      <4>2. <<g, k>> \in {<<g, n>> : n \in (req[r].since + 1) .. last}
        BY <4>1
      <4> QED BY <1>2, <2>1, <2>5, <3>1, <4>2 DEF Receive, TypeOK
    <3>3. CASE k <= req[r].since
      <4>1. req[r].lin = g /\ Have(c, g, Known(req[r]))
        BY <2>2, <3>1, <3>3 DEF Ledger, HandlersCovered
      <4>2. CASE k \in 0 .. Known(req[r])
        BY <1>2, <2>1, <2>5, <3>1, <4>1, <4>2, SeenGrows DEF Have
      <4>3. CASE k \notin 0 .. Known(req[r])
        <5>1. req[r].wrote = g /\ k = req[r].since
          BY <2>2, <3>1, <3>3, <4>1, <4>3 DEF Known, Ledger, HandlersOK, HandlerOK
        <5>2. <<g, k>> \in (IF req[r].wrote # 0
                             THEN {<<req[r].wrote, req[r].since>>} ELSE {})
          BY <3>1, <5>1
        <5> QED BY <1>2, <2>1, <2>5, <3>1, <5>2 DEF Receive, TypeOK
      <4> QED BY <4>2, <4>3
    <3> QED BY <2>2, <3>1, <3>2, <3>3
  <2> QED BY <2>4, <2>5
<1> QED BY <1>1, <1>2

\* A handler that takes value h, while clients may have received something:
\* the other handlers keep what they knew.
LEMMA HandlerStep ==
  ASSUME TypeOK, Ledger, NEW r \in Request, NEW h \in Handler,
         req' = [req EXCEPT ![r] = h], HandlerOK(h),
         h.lin # 0 => Have(Owner[r], h.lin, Known(h)),
         \A c \in Client : seen[c] \subseteq seen'[c]
  PROVE  HandlersOK' /\ HandlersCovered'
<1>1. \A q \in Request : req'[q] = IF q = r THEN h ELSE req[q]
  BY DEF TypeOK
<1>2. HandlersOK'
  BY <1>1 DEF Ledger, HandlersOK
<1>3. HandlersCovered'
  <2> SUFFICES ASSUME NEW q \in Request, req'[q].lin # 0
               PROVE  \A k \in 0 .. Known(req'[q]) : <<req'[q].lin, k>> \in seen'[Owner[q]]
    BY DEF HandlersCovered, Have, Known
  <2>1. Owner[q] \in Client
    BY StoreAssumption
  <2>2. Have(Owner[q], req'[q].lin, Known(req'[q]))
    BY <1>1 DEF Ledger, HandlersCovered
  <2> QED BY <2>1, <2>2 DEF Have
<1> QED BY <1>2, <1>3

LEMMA FreeOK == HandlerOK(Free) /\ Free.lin = 0
BY DEF HandlerOK, Free

\* A handler that answers.
LEMMA AnswerLedger ==
  ASSUME TypeOK, Ledger, NEW r \in Request, NEW code, NEW g \in Nat, NEW last \in Seqs,
         Finish(r, code), Receive(r, g, last) \/ Lost, UNCHANGED store
  PROVE  Ledger'
<1>1. CursorsCovered'
  BY ReceiveCovers
<1>2. HandlersOK' /\ HandlersCovered'
  BY SeenGrows, FreeType, FreeOK, HandlerStep DEF Finish
<1> QED BY <1>1, <1>2 DEF Ledger, Created, store

LEMMA ErrorLedger ==
  ASSUME TypeOK, Ledger, NEW r \in Request, NEW code, AnswerError(r, code), UNCHANGED store
  PROVE  Ledger'
BY AnswerLedger DEF AnswerError, TypeOK, Seqs

\* A handler that moves on with what it holds.
LEMMA MoveLedger ==
  ASSUME TypeOK, Ledger, NEW r \in Request, req'[r] \in Handler,
         req' = [req EXCEPT ![r] = req'[r]], HandlerOK(req'[r]),
         req'[r].lin = req[r].lin, req'[r].since = req[r].since,
         req'[r].wrote = req[r].wrote, UNCHANGED <<store, clients>>
  PROVE  Ledger'
<1>1. HandlersOK' /\ HandlersCovered'
  <2>1. \A c \in Client : seen[c] \subseteq seen'[c]
    BY DEF clients
  <2>2. req'[r].lin # 0 => Have(Owner[r], req'[r].lin, Known(req'[r]))
    BY DEF Ledger, HandlersCovered, Known
  <2> QED BY <2>1, <2>2, HandlerStep
<1>2. CursorsCovered'
  BY DEF Ledger, CursorsCovered, Have, clients
<1> QED BY <1>1, <1>2 DEF Ledger, Created, store

\* What a post finds when it is accepted.
LEMMA AcceptedCovered ==
  ASSUME TypeOK, Ledger, NEW r \in Request, At(r, "append"), live, Head_ = req[r].since,
         req[r].since = -1 \/ req[r].lin = gen
  PROVE  gen # 0 /\ req[r].wrote = 0 /\ Have(Owner[r], gen, Head_)
<1>1. gen # 0 /\ req[r].wrote = 0
  BY DEF Ledger, Created, HandlersOK, HandlerOK, At
<1>2. CASE req[r].since = -1
  BY <1>1, <1>2 DEF Have
<1>3. CASE req[r].lin = gen
  BY <1>1, <1>3 DEF Ledger, HandlersCovered, Known
<1> QED BY <1>1, <1>2, <1>3

LEMMA LedgerNext == TypeOK /\ Ledger /\ [Next]_vars => Ledger'
<1> SUFFICES ASSUME TypeOK, Ledger, [Next]_vars PROVE Ledger'
  OBVIOUS
<1>0. gen \in Nat /\ Len(log) \in Nat /\ Head_ = Len(log) - 1 /\ TypeOK'
  BY TypeNext DEF TypeOK, Head_
<1>1. CASE UNCHANGED <<req, clients>> /\ Created'
  BY <1>1 DEF Ledger, HandlersOK, HandlersCovered, CursorsCovered, Have, Known, clients
<1>2. CASE Create \/ ReapDelete \/ ReapNotify \/ BeginStop
  BY <1>0, <1>1, <1>2 DEF Create, CreateChannel, ReapDelete, Reap, DeleteRow, ReapNotify, BeginStop, Ledger, Created, clients, store
<1>3. CASE Restart
  BY <1>3, FreeOK DEF Restart, Ledger, HandlersOK, HandlersCovered, CursorsCovered,
     Created, Have, clients, store
<1>4. CASE UNCHANGED vars
  BY <1>1, <1>4 DEF vars, Ledger, Created, store
<1>5. ASSUME NEW r \in Request, Get(r) \/ Post(r) PROVE Ledger'
  <2>1. Owner[r] \in Client
    BY StoreAssumption
  <2>2. PICK op \in {"get", "post"}, pc \in {"loop", "append"},
             since \in {cursor[Owner[r]], -1} :
           Send(r, op, pc, since) /\ (op = "get" <=> pc = "loop")
    BY <1>5 DEF Get, Post
  <2>3. CASE UNCHANGED req
    BY <1>1, <2>2, <2>3 DEF Send, Restarting, Channel, Ledger, Created, store
  <2>4. CASE ~UNCHANGED req
    <3> DEFINE h == req'[r]
    <3>1. /\ req' = [req EXCEPT ![r] = h] /\ h.pc = pc /\ h.op = op /\ h.since = since
          /\ h.lin = fresh[Owner[r]] /\ h.wrote = 0
      BY <2>2, <2>4 DEF Send, Restarting, Channel, Free, TypeOK
    <3>2. h \in Handler /\ HandlerOK(h) /\ Known(h) = since
      BY <1>0, <2>2, <3>1 DEF TypeOK, HandlerOK, Known
    <3>3. h.lin # 0 => Have(Owner[r], h.lin, Known(h))
      BY <2>1, <2>2, <3>1, <3>2 DEF Ledger, CursorsCovered, Have
    <3>4. UNCHANGED <<store, clients>>
      BY <2>2 DEF Send, Restarting, Channel
    <3>5. HandlersOK' /\ HandlersCovered'
      BY <3>1, <3>2, <3>3, <3>4, HandlerStep DEF clients
    <3> QED BY <3>4, <3>5 DEF Ledger, CursorsCovered, Created, Have, clients, store
  <2> QED BY <2>3, <2>4
<1>6. ASSUME NEW r \in Request, Delete(r) PROVE Ledger'
  <2>1. CASE AnswerError(r, "404") /\ UNCHANGED store
    BY <2>1, ErrorLedger
  <2>2. CASE Restarting /\ UNCHANGED <<store, clients>>
    BY <2>2 DEF Restarting, Ledger, HandlersOK, HandlerOK, HandlersCovered, CursorsCovered,
       Created, Have, store, clients
  <2>3. CASE /\ live /\ live' = FALSE /\ gen' = gen /\ UNCHANGED clients
             /\ req' = [req EXCEPT ![r] = [Free EXCEPT !.pc = "deleted", !.op = "delete"]]
    <3> DEFINE h == [Free EXCEPT !.pc = "deleted", !.op = "delete"]
    <3>1. HandlerOK(h) /\ h.lin = 0 /\ h = req'[r]
      BY <2>3 DEF HandlerOK, Free, TypeOK
    <3>2. h \in Handler
      BY <1>0, <3>1 DEF TypeOK
    <3>3. HandlersOK' /\ HandlersCovered'
      BY <2>3, <3>1, <3>2, HandlerStep DEF clients
    <3> QED BY <2>3, <3>3 DEF Ledger, CursorsCovered, Created, Have, clients
  <2> QED BY <1>6, <2>1, <2>2, <2>3 DEF Delete, DeleteChannel, DeleteRow
<1>7. ASSUME NEW r \in Request, DeleteNotify(r) \/ GoneNotify(r) PROVE Ledger'
  BY <1>7, ErrorLedger DEF DeleteNotify, GoneNotify
<1>8. ASSUME NEW r \in Request, AppendTx(r) PROVE Ledger'
  <2>1. CASE \E code \in Codes : AnswerError(r, code) /\ UNCHANGED store
    BY <2>1, ErrorLedger
  <2>2. CASE Goto(r, "conflict") /\ UNCHANGED <<store, clients>>
    <3>1. /\ req' = [req EXCEPT ![r] = req'[r]] /\ req'[r] \in Handler
          /\ req'[r].pc = "conflict" /\ req'[r].op = req[r].op
          /\ req'[r].lin = req[r].lin /\ req'[r].since = req[r].since
          /\ req'[r].wrote = req[r].wrote
      BY <1>0, <2>2 DEF Goto, TypeOK, Handler
    <3>2. HandlerOK(req'[r])
      BY <1>8, <3>1 DEF AppendTx, At, Ledger, HandlersOK, HandlerOK
    <3> QED BY <2>2, <3>1, <3>2, MoveLedger
  <2>3. CASE /\ live /\ Head_ = req[r].since
             /\ req' = [req EXCEPT ![r].pc = "posted", ![r].since = Len(log),
                         ![r].wrote = gen,
                         ![r].lin = IF req[r].since = -1 \/ @ = gen THEN gen ELSE 0]
             /\ UNCHANGED <<live, gen, clients>>
    <3> DEFINE h == req'[r]
    <3>1. /\ req' = [req EXCEPT ![r] = h] /\ h \in Handler /\ h.pc = "posted"
          /\ h.op = req[r].op /\ h.since = Len(log) /\ h.wrote = gen
          /\ h.lin = IF req[r].since = -1 \/ req[r].lin = gen THEN gen ELSE 0
      BY <1>0, <2>3 DEF TypeOK, Handler
    <3>2. gen # 0 /\ req[r].wrote = 0
      BY <1>8, <2>3 DEF AppendTx, Ledger, Created, HandlersOK, HandlerOK, At
    <3>3. h.op # "get"
      BY <1>8, <3>1 DEF AppendTx, Ledger, HandlersOK, HandlerOK, At
    <3>4. HandlerOK(h)
      BY <1>0, <3>1, <3>2, <3>3 DEF HandlerOK
    <3>5. Known(h) = Head_
      BY <1>0, <3>1, <3>2 DEF Known
    <3>6. h.lin # 0 => Have(Owner[r], h.lin, Known(h))
      BY <1>8, <2>3, <3>1, <3>5, AcceptedCovered DEF AppendTx
    <3>7. HandlersOK' /\ HandlersCovered'
      BY <2>3, <3>1, <3>4, <3>6, HandlerStep DEF clients
    <3> QED BY <2>3, <3>7 DEF Ledger, CursorsCovered, Created, Have, clients
  <2> QED BY <1>8, <2>1, <2>2, <2>3 DEF AppendTx, Codes
<1>9. ASSUME NEW r \in Request, ConflictRead(r) PROVE Ledger'
  <2>1. req[r].since \in Seqs
    BY DEF TypeOK, Handler
  <2> QED BY <1>0, <1>9, <2>1, PageLastsType, AnswerLedger, ErrorLedger
          DEF ConflictRead, AnswerPage
<1>10. ASSUME NEW r \in Request, AnswerRestarting(r), UNCHANGED store PROVE Ledger'
  <2>1. req[r].since \in Seqs /\ req[r].wrote \in Nat
    BY DEF TypeOK, Handler
  <2> QED BY <1>10, <2>1, AnswerLedger, ErrorLedger DEF AnswerRestarting
<1>11. ASSUME NEW r \in Request, NEW pc \in Pcs, UNCHANGED <<store, clients>>,
              pc \notin {"append", "conflict"}, req[r].pc \in {"posted", "loop", "read", "waiting"},
              req' = [req EXCEPT ![r] = req'[r]], req'[r].pc = pc, req'[r].op = req[r].op,
              req'[r].since = req[r].since, req'[r].lin = req[r].lin, req'[r].wrote = req[r].wrote
       PROVE Ledger'
  <2>1. req'[r] \in Handler
    BY <1>0 DEF TypeOK
  <2>2. HandlerOK(req'[r])
    BY <1>11 DEF Ledger, HandlersOK, HandlerOK
  <2> QED BY <1>11, <2>1, <2>2, MoveLedger
<1>12. ASSUME NEW r \in Request, PostNotify(r) PROVE Ledger'
  BY <1>11, <1>12 DEF PostNotify, Goto, At, TypeOK, Handler, Pcs
<1>13. ASSUME NEW r \in Request, Subscribe(r) PROVE Ledger'
  <2>1. CASE AnswerRestarting(r)
    BY <1>10, <1>13, <2>1 DEF Subscribe, NotifyCh
  <2>2. CASE Goto(r, "read") /\ Lost
    BY <1>11, <1>13, <2>2 DEF Subscribe, NotifyCh, Goto, At, Lost, TypeOK, Handler, Pcs
  <2> QED BY <1>13, <2>1, <2>2 DEF Subscribe
<1>14. ASSUME NEW r \in Request, ReadPage(r) PROVE Ledger'
  <2>1. CASE \E last \in PageLasts(req[r].since) : AnswerPage(r, Success(r), gen, last)
    <3>1. req[r].since \in Seqs
      BY DEF TypeOK, Handler
    <3> QED BY <1>0, <1>14, <2>1, <3>1, PageLastsType, AnswerLedger DEF ReadPage, AnswerPage
  <2>2. CASE Goto(r, "gone") /\ Lost
    BY <1>11, <1>14, <2>2 DEF ReadPage, Goto, At, Lost, TypeOK, Handler, Pcs
  <2>3. CASE /\ Lost
             /\ req' = [req EXCEPT ![r].pc = "waiting",
                          ![r].page = [gen |-> gen, last |-> Head_]]
    BY <1>11, <1>14, <2>3 DEF ReadPage, At, Lost, TypeOK, Handler, Pcs
  <2> QED BY <1>14, <2>1, <2>2, <2>3 DEF ReadPage
<1>15. ASSUME NEW r \in Request, Wake(r) PROVE Ledger'
  BY <1>11, <1>15 DEF Wake, At, Lost, TypeOK, Handler, Pcs
<1>16. ASSUME NEW r \in Request, TimeOut(r) PROVE Ledger'
  <2>1. req[r].page.gen \in Nat /\ req[r].page.last \in Seqs
    BY DEF TypeOK, Handler
  <2> QED BY <1>16, <2>1, AnswerLedger DEF TimeOut, AnswerPage
<1>17. ASSUME NEW r \in Request, StopWait(r) PROVE Ledger'
  BY <1>10, <1>17 DEF StopWait
<1> QED
  BY <1>2, <1>3, <1>4, <1>5, <1>6, <1>7, <1>8, <1>9, <1>12, <1>13, <1>14, <1>15,
     <1>16, <1>17 DEF Next, Handle

\* Every reachable state keeps the ledger.
LEMMA StoreLedger == Spec => [](TypeOK /\ Ledger)
<1>1. Init => TypeOK /\ Ledger
  BY TypeInit, LedgerInit
<1>2. TypeOK /\ Ledger /\ [Next]_vars => (TypeOK /\ Ledger)'
  BY TypeNext, LedgerNext
<1> QED BY <1>1, <1>2, PTL DEF Spec

\* A cursor of the current incarnation acknowledges only events its client
\* received, for any number of clients and incarnations.
THEOREM StoreCursorCovered == Spec => []CursorCovered
<1>1. TypeOK /\ Ledger => CursorCovered
  BY DEF Ledger, CursorsCovered, Created, Have, CursorCovered
<1> QED BY <1>1, StoreLedger, PTL

\* Only Append accepts a post.
LEMMA OnlyAppendAccepts ==
  ASSUME TypeOK, Next, NEW r \in Request, Accepts(r)
  PROVE  AppendTx(r)
<1>1. req[r].pc = "append" /\ req'[r].pc = "posted" /\ req'[r] # req[r]
  BY DEF Accepts, At
<1>2. ~UNCHANGED req
  BY <1>1
<1>3. ~(Create \/ ReapDelete \/ ReapNotify \/ BeginStop)
  BY <1>2 DEF Create, CreateChannel, ReapDelete, Reap, DeleteRow, ReapNotify, BeginStop
<1>4. ~Restart
  BY <1>1 DEF Restart, Free
<1>5. PICK q \in Request : Get(q) \/ Post(q) \/ Delete(q) \/ Handle(q)
  BY <1>3, <1>4 DEF Next
<1>6. q = r
  <2>1. \E h : req' = [req EXCEPT ![q] = h]
    <3>1. CASE Get(q) \/ Post(q)
      BY <1>2, <3>1 DEF Get, Post, Send, Restarting, Channel
    <3>2. CASE Delete(q)
      BY <1>2, <3>2 DEF Delete, DeleteChannel, Restarting, AnswerError, Finish
    <3>3. CASE DeleteNotify(q) \/ GoneNotify(q)
      BY <3>3 DEF DeleteNotify, GoneNotify, AnswerError, Finish
    <3>4. CASE AppendTx(q)
      BY <3>4 DEF AppendTx, AnswerError, Finish, Goto
    <3>5. CASE ConflictRead(q)
      BY <3>5 DEF ConflictRead, AnswerError, AnswerPage, Finish
    <3>6. CASE PostNotify(q)
      BY <3>6 DEF PostNotify, Goto
    <3>7. CASE Subscribe(q)
      BY <3>7 DEF Subscribe, NotifyCh, AnswerRestarting, AnswerError, Finish, Goto
    <3>8. CASE ReadPage(q)
      BY <3>8 DEF ReadPage, AnswerPage, Finish, Goto
    <3>9. CASE Wake(q) \/ TimeOut(q) \/ StopWait(q)
      BY <3>9 DEF Wake, TimeOut, StopWait, AnswerPage, AnswerRestarting, AnswerError, Finish
    <3> QED BY <1>5, <3>1, <3>2, <3>3, <3>4, <3>5, <3>6, <3>7, <3>8, <3>9 DEF Handle
  <2> QED BY <1>1, <2>1 DEF TypeOK
<1> QED
  BY <1>1, <1>5, <1>6 DEF Handle, Get, Post, Send, Restarting, Channel, Delete, DeleteNotify,
     GoneNotify, ConflictRead, PostNotify, Subscribe, ReadPage, Wake, TimeOut, StopWait, At

\* What ReadBeforeReply says of one step.
AcceptsOnlyInformed ==
  \A r \in Request : (Accepts(r) /\ req[r].lin = gen) =>
    \A n \in 0 .. Head_ : <<gen, n>> \in seen[Owner[r]]

\* Read before reply, for any number of clients: a post is accepted only from
\* a client that received every event before it.
THEOREM StoreReadBeforeReply == Spec => ReadBeforeReply
<1>1. TypeOK /\ Ledger /\ [Next]_vars => [AcceptsOnlyInformed]_vars
  <2> SUFFICES ASSUME TypeOK, Ledger, Next, NEW r \in Request, Accepts(r), req[r].lin = gen
               PROVE  \A n \in 0 .. Head_ : <<gen, n>> \in seen[Owner[r]]
    BY DEF AcceptsOnlyInformed
  <2>1. AppendTx(r) /\ At(r, "append") /\ req'[r].pc = "posted"
    BY OnlyAppendAccepts DEF Accepts
  <2>2. live /\ Head_ = req[r].since
    BY <2>1 DEF AppendTx, AnswerError, Finish, Goto, Free, TypeOK, Handler
  <2> QED BY <2>1, <2>2, AcceptedCovered DEF Have
<1> QED BY <1>1, StoreLedger, PTL DEF Spec, ReadBeforeReply, AcceptsOnlyInformed

LEMMA HonestNext == TypeOK /\ Ledger /\ HonestReply /\ [Next]_vars => HonestReply'
<1> SUFFICES ASSUME TypeOK, Ledger, HonestReply, [Next]_vars PROVE HonestReply'
  OBVIOUS
<1>1. CASE Quiet
  BY <1>1 DEF Quiet, NoReply, HonestReply
<1>2. ASSUME NEW r \in Request, NEW code \in Codes, Finish(r, code),
             code \in {"conflict", "full", "refused"} => req[r].wrote = 0,
             code = "posted" => req[r].wrote # 0
      PROVE  HonestReply'
  BY <1>2 DEF Finish, Say, HonestReply
<1>3. CASE Create \/ ReapDelete \/ ReapNotify \/ BeginStop \/ Restart
  BY <1>1, <1>3 DEF Create, CreateChannel, ReapDelete, Reap, DeleteRow, ReapNotify, BeginStop, Restart
<1>4. ASSUME NEW r \in Request, Get(r) \/ Post(r) PROVE HonestReply'
  <2>1. \E op, pc, since : Send(r, op, pc, since)
    BY <1>4 DEF Get, Post
  <2> QED BY <1>1, <2>1 DEF Send, Restarting, Channel, NoReply, HonestReply
<1>5. ASSUME NEW r \in Request, Delete(r) \/ DeleteNotify(r) \/ GoneNotify(r)
      PROVE HonestReply'
  <2>1. CASE Restarting
    BY <2>1 DEF Restarting, NoReply, HonestReply
  <2> QED BY <1>1, <1>2, <1>5, <2>1
          DEF Delete, DeleteChannel, DeleteNotify, GoneNotify, AnswerError, Codes
<1>6. ASSUME NEW r \in Request, AppendTx(r) \/ ConflictRead(r) PROVE HonestReply'
  <2>1. req[r].wrote = 0
    BY <1>6 DEF AppendTx, ConflictRead, At, Ledger, HandlersOK, HandlerOK
  <2> QED BY <1>1, <1>2, <1>6, <2>1
          DEF AppendTx, ConflictRead, AnswerError, AnswerPage, Codes
<1>7. ASSUME NEW r \in Request, PostNotify(r) \/ Wake(r) PROVE HonestReply'
  BY <1>1, <1>7 DEF PostNotify, Wake
<1>8. ASSUME NEW r \in Request, req[r].pc \in {"loop", "read", "waiting"}
      PROVE  req[r].op = "get" <=> req[r].wrote = 0
  BY <1>8 DEF Ledger, HandlersOK, HandlerOK
<1>9. ASSUME NEW r \in Request, req[r].pc \in {"loop", "waiting"}, AnswerRestarting(r)
      PROVE HonestReply'
  BY <1>2, <1>8, <1>9 DEF AnswerRestarting, AnswerError, Codes
<1>10. ASSUME NEW r \in Request, Subscribe(r) \/ StopWait(r) PROVE HonestReply'
  BY <1>1, <1>9, <1>10 DEF Subscribe, NotifyCh, StopWait, At
<1>11. ASSUME NEW r \in Request, ReadPage(r) \/ TimeOut(r) PROVE HonestReply'
  BY <1>1, <1>2, <1>8, <1>11 DEF ReadPage, TimeOut, AnswerPage, At, Success, Codes
<1>12. CASE UNCHANGED vars
  BY <1>12 DEF vars, HonestReply
<1> QED BY <1>3, <1>4, <1>5, <1>6, <1>7, <1>10, <1>11, <1>12 DEF Next, Handle

\* No reply misstates whether the post was appended, also when the server stops
\* between the append and the reply.
THEOREM StoreHonestReply == Spec => []HonestReply
<1>1. Init => HonestReply
  BY DEF Init, HonestReply, NoReply
<1>2. TypeOK /\ Ledger /\ HonestReply /\ [Next]_vars => HonestReply'
  BY HonestNext
<1> QED BY <1>1, <1>2, StoreLedger, PTL DEF Spec

-----------------------------------------------------------------------------
(***************************************************************************)
(* The refinement.  What a handler or a client holds names an incarnation  *)
(* that was created and, while that one lives, an event that exists.       *)
(***************************************************************************)

\* Event n of incarnation g exists, or went with its incarnation.
Real(g, n) == g <= gen /\ ((live /\ g = gen) => n <= Head_)

HandlerPast(h) ==
  /\ h.lin <= gen /\ Real(h.wrote, h.since)
  /\ h.pc = "waiting" => (h.page.gen # 0 /\ Real(h.page.gen, h.page.last))

HandlersPast == \A r \in Request : HandlerPast(req[r])
ClientsPast == \A c \in Client : fresh[c] <= gen /\ \A e \in seen[c] : e[1] <= gen
NoRow == ~live => log = <<>>
Past == HandlersPast /\ ClientsPast /\ NoRow

\* While there has been one incarnation, every cursor belongs to it.
Unmixed ==
  gen <= 1 =>
    /\ \A c \in Client : cursor[c] # -1 => fresh[c] # 0
    /\ \A r \in Request : req[r].since # -1 => req[r].lin # 0

Trace == Past /\ Unmixed

\* What a step may do to the rows.
RowStep ==
  \/ UNCHANGED store \/ CreateChannel \/ DeleteRow
  \/ live /\ UNCHANGED <<live, gen>> /\ Len(log') = Len(log) + 1

LEMMA TraceInit == Init => Trace
BY DEF Init, Trace, Past, Unmixed, HandlersPast, HandlerPast, Real, ClientsPast, NoRow, Free,
   Head_

\* What exists goes on existing while its incarnation lives.
LEMMA RealKept ==
  ASSUME TypeOK, RowStep, NEW g \in Nat, NEW n \in Seqs, Real(g, n)
  PROVE  Real(g, n)' /\ gen \in Nat /\ gen' \in Nat /\ gen <= gen'
<1>1. gen \in Nat /\ Len(log) \in Nat /\ n \in Int
  BY DEF TypeOK, Seqs
<1>2. CASE UNCHANGED store
  BY <1>1, <1>2 DEF store, Real, Head_
<1>3. CASE CreateChannel
  BY <1>1, <1>3 DEF CreateChannel, Real, Head_
<1>4. CASE DeleteRow
  BY <1>1, <1>4 DEF DeleteRow, Real, Head_
<1>5. CASE live /\ UNCHANGED <<live, gen>> /\ Len(log') = Len(log) + 1
  BY <1>1, <1>5 DEF Real, Head_
<1> QED BY <1>2, <1>3, <1>4, <1>5 DEF RowStep

\* The handlers that do not move keep what they hold.
LEMMA HandlersKept ==
  ASSUME TypeOK, HandlersPast, RowStep, NEW Q \in SUBSET Request,
         \A q \in Request \ Q : req'[q] = req[q],
         \A q \in Q : HandlerPast(req[q])'
  PROVE  HandlersPast'
<1> SUFFICES ASSUME NEW q \in Request \ Q PROVE HandlerPast(req[q])'
  BY DEF HandlersPast
<1>1. PICK h \in Handler : req[q] = h /\ req'[q] = h
  BY DEF TypeOK
<1>2. /\ gen \in Nat /\ h.lin \in Nat /\ h.wrote \in Nat /\ h.since \in Seqs
      /\ h.page.gen \in Nat /\ h.page.last \in Seqs
  BY DEF TypeOK, Handler
<1>3. HandlerPast(h)
  BY <1>1 DEF HandlersPast
<1>4. Real(h.wrote, h.since)' /\ h.lin <= gen'
  <2>1. Real(h.wrote, h.since)' /\ gen' \in Nat /\ gen <= gen'
    BY <1>2, <1>3, RealKept DEF HandlerPast
  <2> QED BY <1>2, <1>3, <2>1 DEF HandlerPast
<1>5. h.pc = "waiting" => h.page.gen # 0 /\ Real(h.page.gen, h.page.last)'
  BY <1>2, <1>3, RealKept DEF HandlerPast
<1>6. HandlerPast(h)'
  BY <1>4, <1>5 DEF HandlerPast
<1> QED BY <1>1, <1>6 DEF HandlerPast, Real

\* A client that received a page of a created incarnation.
LEMMA ReceivePast ==
  ASSUME TypeOK, Past, Unmixed, UNCHANGED store, NEW r \in Request,
         NEW g \in Nat, NEW last \in Seqs,
         Lost \/ (g # 0 /\ g <= gen /\ Receive(r, g, last))
  PROVE  ClientsPast' /\ (gen <= 1 => \A c \in Client : cursor'[c] # -1 => fresh'[c] # 0)
<1>1. CASE Lost
  BY <1>1 DEF Lost, clients, store, Past, ClientsPast, Unmixed
<1>2. CASE g # 0 /\ g <= gen /\ Receive(r, g, last)
  <2> DEFINE d == Owner[r]
             own == IF req[r].wrote # 0 THEN {<<req[r].wrote, req[r].since>>} ELSE {}
             page == {<<g, n>> : n \in (req[r].since + 1) .. last}
  <2>1. /\ d \in Client /\ gen \in Nat /\ gen' = gen /\ req[r].lin \in Nat
        /\ req[r].lin <= gen /\ req[r].wrote <= gen
    BY StoreAssumption DEF TypeOK, Handler, store, Past, HandlersPast, HandlerPast, Real
  <2>2. /\ cursor' = [cursor EXCEPT ![d] = last]
        /\ fresh' = [fresh EXCEPT ![d] = IF req[r].since = -1 \/ req[r].lin = g THEN g ELSE 0]
        /\ seen' = [seen EXCEPT ![d] = seen[d] \cup own \cup page]
    BY <1>2, Zenon DEF Receive
  <2>3. \A e \in own \cup page : e[1] <= gen
    BY <1>2, <2>1
  <2> HIDE DEF own, page
  <2>4. \A c \in Client : \A e \in seen'[c] : e[1] <= gen
    BY <2>2, <2>3 DEF TypeOK, Past, ClientsPast
  <2>5. \A c \in Client : fresh'[c] <= gen
    BY <1>2, <2>1, <2>2 DEF TypeOK, Past, ClientsPast
  <2>6. ASSUME gen <= 1, NEW c \in Client, cursor'[c] # -1 PROVE fresh'[c] # 0
    <3>1. CASE c # d
      BY <2>1, <2>2, <2>6, <3>1 DEF TypeOK, Unmixed
    <3>2. CASE c = d
      <4>1. req[r].since = -1 \/ req[r].lin = g
        BY <1>2, <2>1, <2>6 DEF Unmixed
      <4> QED BY <1>2, <2>1, <2>2, <3>2, <4>1 DEF TypeOK
    <3> QED BY <3>1, <3>2
  <2> QED BY <2>1, <2>4, <2>5, <2>6 DEF ClientsPast
<1> QED BY <1>1, <1>2

\* One handler moves; the rows, and what its client received, may change.
LEMMA OneMoves ==
  ASSUME TypeOK, TypeOK', Trace, RowStep, NoRow', NEW r \in Request,
         \A q \in Request \ {r} : req'[q] = req[q],
         HandlerPast(req[r])',
         gen' <= 1 => (req'[r].since # -1 => req'[r].lin # 0),
         ClientsPast', gen <= 1 => \A c \in Client : cursor'[c] # -1 => fresh'[c] # 0
  PROVE  Trace'
<1>1. HandlersPast'
  <2>1. {r} \in SUBSET Request /\ HandlersPast
    BY DEF Trace, Past
  <2>2. \A q \in {r} : HandlerPast(req[q])'
    <3> SUFFICES ASSUME NEW q \in {r} PROVE HandlerPast(req[q])'
      OBVIOUS
    <3>1. q = r
      OBVIOUS
    <3> QED BY <3>1
  <2> QED BY <2>1, <2>2, HandlersKept
<1>2. gen' <= 1 => gen <= 1
  BY DEF TypeOK, RowStep, store, CreateChannel, DeleteRow
<1>3. Unmixed'
  BY <1>2 DEF Trace, Unmixed
<1> QED BY <1>1, <1>3 DEF Trace, Past

\* A handler that answers and is free again.
LEMMA AnswerTrace ==
  ASSUME TypeOK, TypeOK', Trace, UNCHANGED store, NEW r \in Request, NEW code,
         NEW g \in Nat, NEW last \in Seqs, Finish(r, code),
         Lost \/ (g # 0 /\ g <= gen /\ Receive(r, g, last))
  PROVE  Trace'
<1>1. /\ req'[r] = Free /\ \A q \in Request \ {r} : req'[q] = req[q]
      /\ gen' \in Nat /\ RowStep /\ NoRow'
  BY DEF Finish, TypeOK, RowStep, Trace, Past, NoRow, store
<1>2. HandlerPast(Free)'
  <2>1. live' => gen' # 0 \/ -1 <= Head_'
    BY DEF TypeOK, Head_
  <2> QED BY <1>1, <2>1 DEF HandlerPast, Real, Free, TypeOK, Head_
<1>3. HandlerPast(req[r])'
  BY <1>1, <1>2 DEF HandlerPast, Real
<1>4. req'[r].since = -1
  BY <1>1 DEF Free
<1> QED BY <1>1, <1>3, <1>4, ReceivePast, OneMoves DEF Trace

LEMMA ErrorTrace ==
  ASSUME TypeOK, TypeOK', Trace, UNCHANGED store, NEW r \in Request, NEW code,
         AnswerError(r, code)
  PROVE  Trace'
BY AnswerTrace DEF AnswerError, Seqs

\* A handler that moves on with what it holds.
LEMMA MoveTrace ==
  ASSUME TypeOK, TypeOK', Trace, UNCHANGED <<store, clients>>, NEW r \in Request,
         \A q \in Request \ {r} : req'[q] = req[q],
         req'[r].lin = req[r].lin, req'[r].since = req[r].since, req'[r].wrote = req[r].wrote,
         req'[r].pc = "waiting" =>
           (req'[r].page.gen # 0 /\ req'[r].page.gen <= gen /\ req'[r].page.last <= Head_)
  PROVE  Trace'
<1>1. RowStep /\ NoRow' /\ Lost /\ gen' = gen
  BY DEF RowStep, Trace, Past, NoRow, store, Lost
<1>2. HandlerPast(req[r])'
  BY DEF Trace, Past, HandlersPast, HandlerPast, Real, store, Head_
<1>3. gen' <= 1 => (req'[r].since # -1 => req'[r].lin # 0)
  BY <1>1 DEF Trace, Unmixed
<1>4. ClientsPast' /\ (gen <= 1 => \A c \in Client : cursor'[c] # -1 => fresh'[c] # 0)
  BY DEF Trace, Past, ClientsPast, Unmixed, store, clients
<1> QED BY <1>1, <1>2, <1>3, <1>4, OneMoves

LEMMA TraceNext == TypeOK /\ TypeOK' /\ Ledger /\ Trace /\ [Next]_vars => Trace'
<1> SUFFICES ASSUME TypeOK, TypeOK', Ledger, Trace, [Next]_vars PROVE Trace'
  OBVIOUS
<1>0. gen \in Nat /\ Len(log) \in Nat /\ Head_ = Len(log) - 1
  BY DEF TypeOK, Head_
<1>1. ASSUME RowStep, NoRow', UNCHANGED <<req, clients>> PROVE Trace'
  <2>1. gen' \in Nat /\ gen <= gen'
    BY <1>0, <1>1 DEF RowStep, store, CreateChannel, DeleteRow
  <2>2. HandlersPast'
    <3>1. {} \in SUBSET Request /\ \A q \in Request \ {} : req'[q] = req[q]
      BY <1>1
    <3> QED BY <1>1, <3>1, HandlersKept DEF Trace, Past
  <2>3. ClientsPast' /\ Unmixed'
    <3>1. /\ \A c \in Client : fresh[c] \in Nat /\ \A e \in seen[c] : e[1] \in Nat
      BY DEF TypeOK, Events
    <3> QED BY <1>0, <1>1, <2>1, <3>1 DEF Trace, Past, ClientsPast, Unmixed, clients
  <2> QED BY <1>1, <2>2, <2>3 DEF Trace, Past
<1>2. CASE Create \/ ReapDelete \/ ReapNotify \/ BeginStop
  BY <1>1, <1>2 DEF Create, CreateChannel, ReapDelete, Reap, DeleteRow, ReapNotify, BeginStop,
     RowStep, Trace, Past, NoRow, store
<1>3. CASE Restart
  <2>1. UNCHANGED <<store, clients>> /\ \A q \in Request : req'[q] = Free
    BY <1>3 DEF Restart
  <2>2. Free.lin <= gen /\ Real(Free.wrote, Free.since) /\ Free.pc # "waiting" /\ Free.since = -1
    BY <1>0 DEF Free, Real
  <2> QED BY <2>1, <2>2 DEF Trace, Past, Unmixed, HandlersPast, HandlerPast, Real, ClientsPast,
             NoRow, store, clients, Head_
<1>4. CASE UNCHANGED vars
  BY <1>1, <1>4 DEF vars, RowStep, Trace, Past, NoRow, store
<1>5. ASSUME NEW r \in Request, Get(r) \/ Post(r) PROVE Trace'
  <2>1. Owner[r] \in Client
    BY StoreAssumption
  <2>2. PICK op \in {"get", "post"}, pc \in {"loop", "append"},
             since \in {cursor[Owner[r]], -1} : Send(r, op, pc, since)
    BY <1>5 DEF Get, Post
  <2>3. UNCHANGED <<store, clients>> /\ Lost
    BY <2>2 DEF Send, Lost
  <2>4. CASE UNCHANGED req
    BY <1>1, <2>3, <2>4 DEF RowStep, Trace, Past, NoRow, store
  <2>5. CASE ~UNCHANGED req
    <3>1. /\ \A q \in Request \ {r} : req'[q] = req[q]
          /\ req'[r].pc = pc /\ req'[r].since = since /\ req'[r].wrote = 0
          /\ req'[r].lin = fresh[Owner[r]] /\ live
      <4>1. /\ live /\ req' = [req EXCEPT ![r] = [Free EXCEPT !.pc = pc, !.op = op,
                                 !.since = since, !.lin = fresh[Owner[r]]]]
        BY <2>2, <2>5 DEF Send, Restarting, Channel
      <4> QED BY <4>1 DEF Free, TypeOK
    <3>2. gen # 0 /\ fresh[Owner[r]] \in Nat /\ fresh[Owner[r]] <= gen
      BY <2>1, <3>1 DEF Ledger, Created, Trace, Past, ClientsPast, TypeOK
    <3>3. HandlerPast(req[r])'
      BY <1>0, <2>2, <2>3, <3>1, <3>2 DEF HandlerPast, Real, store
    <3>4. gen <= 1 => (req'[r].since # -1 => req'[r].lin # 0)
      BY <2>1, <2>2, <3>1 DEF Trace, Unmixed
    <3>5. RowStep /\ NoRow' /\ gen' = gen
      BY <2>3 DEF RowStep, store, Trace, Past, NoRow
    <3>6. ClientsPast' /\ (gen <= 1 => \A c \in Client : cursor'[c] # -1 => fresh'[c] # 0)
      BY <2>3 DEF Trace, Past, ClientsPast, Unmixed, store, clients
    <3> QED BY <3>1, <3>3, <3>4, <3>5, <3>6, OneMoves
  <2> QED BY <2>4, <2>5
<1>6. ASSUME NEW r \in Request, Delete(r) PROVE Trace'
  <2>1. CASE AnswerError(r, "404") /\ UNCHANGED store
    BY <2>1, ErrorTrace
  <2>2. CASE Restarting /\ UNCHANGED <<store, clients>>
    BY <1>1, <2>2 DEF Restarting, RowStep, Trace, Past, NoRow, store
  <2>3. CASE /\ DeleteRow /\ UNCHANGED clients
             /\ req' = [req EXCEPT ![r] = [Free EXCEPT !.pc = "deleted", !.op = "delete"]]
    <3>1. /\ \A q \in Request \ {r} : req'[q] = req[q]
          /\ req'[r].pc = "deleted" /\ req'[r].since = -1 /\ req'[r].wrote = 0 /\ req'[r].lin = 0
          /\ RowStep /\ NoRow' /\ gen' = gen /\ ~live'
      BY <2>3 DEF Free, TypeOK, RowStep, DeleteRow, NoRow
    <3>2. HandlerPast(req[r])'
      BY <1>0, <3>1 DEF HandlerPast, Real
    <3>3. ClientsPast' /\ (gen <= 1 => \A c \in Client : cursor'[c] # -1 => fresh'[c] # 0)
      BY <2>3, <3>1 DEF Trace, Past, ClientsPast, Unmixed, clients
    <3> QED BY <3>1, <3>2, <3>3, OneMoves
  <2> QED BY <1>6, <2>1, <2>2, <2>3 DEF Delete, DeleteChannel
<1>7. ASSUME NEW r \in Request, DeleteNotify(r) \/ GoneNotify(r) PROVE Trace'
  BY <1>7, ErrorTrace DEF DeleteNotify, GoneNotify
<1>8. ASSUME NEW r \in Request, AppendTx(r) PROVE Trace'
  <2>1. CASE \E code \in Codes : AnswerError(r, code) /\ UNCHANGED store
    BY <2>1, ErrorTrace
  <2>2. CASE Goto(r, "conflict") /\ UNCHANGED <<store, clients>>
    BY <2>2, MoveTrace DEF Goto, TypeOK, Handler
  <2>3. CASE /\ live /\ Head_ = req[r].since /\ log' = Append(log, Owner[r])
             /\ req' = [req EXCEPT ![r].pc = "posted", ![r].since = Len(log),
                         ![r].wrote = gen,
                         ![r].lin = IF req[r].since = -1 \/ @ = gen THEN gen ELSE 0]
             /\ UNCHANGED <<live, gen, clients>>
    <3>1. /\ \A q \in Request \ {r} : req'[q] = req[q]
          /\ req'[r].pc = "posted" /\ req'[r].since = Len(log) /\ req'[r].wrote = gen
          /\ req'[r].lin = IF req[r].since = -1 \/ req[r].lin = gen THEN gen ELSE 0
      BY <2>3 DEF TypeOK, Handler
    <3>2. Len(log') = Len(log) + 1 /\ RowStep /\ NoRow' /\ gen # 0 /\ req[r].lin \in Nat
          /\ req[r].lin <= gen
      <4>1. Owner[r] \in Client /\ log \in Seq(Client)
        BY StoreAssumption DEF TypeOK
      <4> QED BY <2>3, <4>1 DEF RowStep, NoRow, Ledger, Created, Trace, Past, HandlersPast,
              HandlerPast, TypeOK, Handler
    <3>3. HandlerPast(req[r])'
      BY <1>0, <2>3, <3>1, <3>2 DEF HandlerPast, Real, Head_
    <3>4. gen <= 1 => req'[r].lin # 0
      BY <1>0, <3>1, <3>2 DEF Trace, Unmixed
    <3>5. ClientsPast' /\ (gen <= 1 => \A c \in Client : cursor'[c] # -1 => fresh'[c] # 0)
      BY <2>3 DEF Trace, Past, ClientsPast, Unmixed, clients
    <3> QED BY <2>3, <3>1, <3>2, <3>3, <3>4, <3>5, OneMoves
  <2> QED BY <1>8, <2>1, <2>2, <2>3 DEF AppendTx, Codes
<1>9. ASSUME NEW r \in Request, ConflictRead(r) PROVE Trace'
  <2>1. req[r].since \in Seqs
    BY DEF TypeOK, Handler
  <2>2. live => gen # 0 /\ gen <= gen
    BY <1>0 DEF Ledger, Created
  <2> QED BY <1>0, <1>9, <2>1, <2>2, PageLastsType, AnswerTrace, ErrorTrace
          DEF ConflictRead, AnswerPage
<1>10. ASSUME NEW r \in Request, req[r].pc \in {"loop", "waiting"}, AnswerRestarting(r),
              UNCHANGED store
       PROVE Trace'
  <2>1. req[r].since \in Seqs /\ req[r].wrote \in Nat /\ req[r].wrote <= gen
    BY DEF TypeOK, Handler, Trace, Past, HandlersPast, HandlerPast, Real
  <2>2. req[r].op = "post" => req[r].wrote # 0
    BY <1>10 DEF Ledger, HandlersOK, HandlerOK
  <2> QED BY <1>10, <2>1, <2>2, AnswerTrace, ErrorTrace DEF AnswerRestarting
<1>11. ASSUME NEW r \in Request, PostNotify(r) \/ Wake(r) PROVE Trace'
  <2>1. /\ \A q \in Request \ {r} : req'[q] = req[q]
        /\ req'[r].lin = req[r].lin /\ req'[r].since = req[r].since
        /\ req'[r].wrote = req[r].wrote /\ req'[r].pc = "loop"
    BY <1>11 DEF PostNotify, Wake, Goto, TypeOK, Handler
  <2> QED BY <1>11, <2>1, MoveTrace DEF PostNotify, Wake, Lost
<1>12. ASSUME NEW r \in Request, Subscribe(r) PROVE Trace'
  <2>1. CASE AnswerRestarting(r)
    BY <1>10, <1>12, <2>1 DEF Subscribe, At
  <2>2. CASE Goto(r, "read") /\ Lost
    BY <1>12, <2>2, MoveTrace DEF Subscribe, Goto, Lost, TypeOK, Handler
  <2> QED BY <1>12, <2>1, <2>2 DEF Subscribe
<1>13. ASSUME NEW r \in Request, ReadPage(r) PROVE Trace'
  <2>1. CASE live /\ \E last \in PageLasts(req[r].since) : AnswerPage(r, Success(r), gen, last)
    <3>1. req[r].since \in Seqs /\ gen # 0 /\ gen <= gen
      BY <1>0, <2>1 DEF TypeOK, Handler, Ledger, Created
    <3> QED BY <1>0, <1>13, <2>1, <3>1, PageLastsType, AnswerTrace DEF ReadPage, AnswerPage
  <2>2. CASE Goto(r, "gone") /\ Lost
    BY <1>13, <2>2, MoveTrace DEF ReadPage, Goto, Lost, TypeOK, Handler
  <2>3. CASE /\ live /\ Lost
             /\ req' = [req EXCEPT ![r].pc = "waiting",
                          ![r].page = [gen |-> gen, last |-> Head_]]
    <3>1. gen # 0 /\ gen <= gen /\ Head_ <= Head_
      BY <1>0, <2>3 DEF Ledger, Created
    <3> QED BY <1>13, <2>3, <3>1, MoveTrace DEF ReadPage, Lost, TypeOK, Handler
  <2> QED BY <1>13, <2>1, <2>2, <2>3 DEF ReadPage
<1>14. ASSUME NEW r \in Request, TimeOut(r) PROVE Trace'
  <2>1. /\ req[r].page.gen \in Nat /\ req[r].page.last \in Seqs
        /\ req[r].page.gen # 0 /\ req[r].page.gen <= gen
    BY <1>14 DEF TimeOut, At, TypeOK, Handler, Trace, Past, HandlersPast, HandlerPast, Real
  <2> QED BY <1>14, <2>1, AnswerTrace DEF TimeOut, AnswerPage
<1>15. ASSUME NEW r \in Request, StopWait(r) PROVE Trace'
  BY <1>10, <1>15 DEF StopWait, At
<1> QED
  BY <1>2, <1>3, <1>4, <1>5, <1>6, <1>7, <1>8, <1>9, <1>11, <1>12, <1>13, <1>14,
     <1>15 DEF Next, Handle

\* The events of the living incarnation that each client received.
Got == [c \in Client |-> {n \in 0 .. MaxEvents : live /\ <<gen, n>> \in seen[c]}]

\* Nobody receives anything and the rows stay: the abstract log stutters.
LEMMA StutterStep == ASSUME UNCHANGED <<store, clients>> PROVE UNCHANGED Cas!vars
BY DEF store, clients, Cas!vars

\* A client that receives a page learns events of the log.
LEMMA ReceiveLearns ==
  ASSUME TypeOK, Trace, UNCHANGED store, NEW r \in Request, NEW g \in Nat, NEW last \in Seqs,
         Lost \/ (Receive(r, g, last) /\ Real(g, last))
  PROVE  Cas!Learn(Owner[r]) \/ UNCHANGED Cas!vars
<1>1. CASE Lost
  BY <1>1, StutterStep DEF Lost
<1>2. CASE ~live
  BY <1>2 DEF store, Cas!vars
<1>3. CASE live /\ Receive(r, g, last) /\ Real(g, last)
  <2> DEFINE d == Owner[r]
             own == IF req[r].wrote # 0 THEN {<<req[r].wrote, req[r].since>>} ELSE {}
             page == {<<g, n>> : n \in (req[r].since + 1) .. last}
             s == {n \in 0 .. Head_ : <<gen, n>> \in own \cup page}
  <2>1. /\ d \in Client /\ Head_ = Len(log) - 1 /\ Len(log) \in Nat /\ Len(log) <= MaxEvents
        /\ req[r].since \in Seqs /\ Real(req[r].wrote, req[r].since) /\ MaxEvents \in Nat
    BY StoreAssumption DEF TypeOK, Head_, Trace, Past, HandlersPast, HandlerPast, Handler
  <2>2. seen' = [seen EXCEPT ![d] = seen[d] \cup own \cup page]
    BY <1>3, Zenon DEF Receive
  <2>3. \A n \in 0 .. MaxEvents : <<gen, n>> \in own \cup page => n \in s
    <3> SUFFICES ASSUME NEW n \in 0 .. MaxEvents, <<gen, n>> \in own \cup page PROVE n <= Head_
      BY <2>1
    <3>1. CASE <<gen, n>> \in own
      BY <1>3, <2>1, <3>1 DEF Real
    <3>2. CASE <<gen, n>> \in page
      <4>1. gen = g /\ n \in (req[r].since + 1) .. last
        BY <3>2
      <4> QED BY <1>3, <2>1, <4>1 DEF Real, Seqs
    <3> QED BY <3>1, <3>2
  <2>4. s \subseteq 0 .. MaxEvents /\ \A n \in s : <<gen, n>> \in own \cup page
    BY <2>1
  <2> HIDE DEF own, page, s
  <2>5. Got' = [Got EXCEPT ![d] = @ \cup s]
    <3>1. live' = live /\ gen' = gen
      BY DEF store
    <3>2. \A c \in Client : Got'[c] = IF c = d THEN Got[d] \cup s ELSE Got[c]
      <4> SUFFICES ASSUME NEW c \in Client
                   PROVE  Got'[c] = IF c = d THEN Got[d] \cup s ELSE Got[c]
        OBVIOUS
      <4>1. CASE c # d
        BY <2>2, <3>1, <4>1 DEF Got, TypeOK
      <4>2. CASE c = d
        <5>1. seen'[d] = seen[d] \cup own \cup page
          BY <2>1, <2>2 DEF TypeOK
        <5> QED BY <1>3, <2>3, <2>4, <3>1, <4>2, <5>1 DEF Got
      <4> QED BY <4>1, <4>2
    <3>3. Got' = [c \in Client |-> Got'[c]] /\ DOMAIN Got = Client
      BY DEF Got
    <3> QED BY <3>2, <3>3
  <2>6. s \in SUBSET (0 .. (Len(log) - 1))
    BY <2>1 DEF s
  <2> QED BY <1>3, <2>5, <2>6 DEF Cas!Learn, Got, store
<1> QED BY <1>1, <1>2, <1>3

\* A post that is accepted extends the log of a client that has it all.
LEMMA AppendPosts ==
  ASSUME TypeOK, Ledger, Trace, gen <= 1, NEW r \in Request, At(r, "append"),
         live, Head_ = req[r].since, Len(log) < MaxEvents,
         log' = Append(log, Owner[r]), UNCHANGED <<live, gen, clients>>
  PROVE  Cas!Post(Owner[r])
<1>1. /\ Owner[r] \in Client /\ Len(log) \in Nat /\ Head_ = Len(log) - 1 /\ MaxEvents \in Nat
      /\ gen \in Nat
  BY StoreAssumption DEF TypeOK, Head_
<1>2. req[r].since = -1 \/ req[r].lin = gen
  <2>1. req[r].lin \in Nat /\ req[r].lin <= gen
    BY DEF TypeOK, Handler, Trace, Past, HandlersPast, HandlerPast
  <2>2. req[r].since # -1 => req[r].lin # 0
    BY DEF Trace, Unmixed
  <2> QED BY <1>1, <2>1, <2>2
<1>3. \A k \in 0 .. Head_ : <<gen, k>> \in seen[Owner[r]]
  BY <1>2, AcceptedCovered DEF Have
<1>4. 0 .. (Len(log) - 1) \subseteq Got[Owner[r]]
  BY <1>1, <1>3 DEF Got
<1>5. Got' = Got
  BY DEF Got, clients
<1> QED BY <1>4, <1>5 DEF Cas!Post, Got

LEMMA RefineStep ==
  TypeOK /\ TypeOK' /\ Ledger /\ Trace /\ gen <= 1 /\ [Next]_vars => [Cas!Next]_(Cas!vars)
<1> SUFFICES ASSUME TypeOK, TypeOK', Ledger, Trace, gen <= 1, [Next]_vars
             PROVE  Cas!Next \/ UNCHANGED Cas!vars
  OBVIOUS
<1>0. gen \in Nat /\ Len(log) \in Nat /\ Head_ = Len(log) - 1
  BY DEF TypeOK, Head_
<1>1. CASE UNCHANGED <<store, clients>>
  BY <1>1, StutterStep
<1>2. ASSUME NEW r \in Request, NEW g \in Nat, NEW last \in Seqs, UNCHANGED store,
             Lost \/ (Receive(r, g, last) /\ Real(g, last))
      PROVE  Cas!Next \/ UNCHANGED Cas!vars
  <2>1. Owner[r] \in Client
    BY StoreAssumption
  <2> QED BY <1>2, <2>1, ReceiveLearns DEF Cas!Next
<1>3. CASE CreateChannel /\ UNCHANGED clients
  <2>1. \A c \in Client : \A n \in 0 .. MaxEvents : <<gen', n>> \notin seen'[c]
    BY <1>0, <1>3 DEF CreateChannel, clients, Trace, Past, ClientsPast
  <2>2. Got' = Got
    BY <1>3, <2>1 DEF Got, CreateChannel
  <2>3. log = <<>> /\ log' = <<>> /\ ~live /\ live'
    BY <1>3 DEF CreateChannel, Trace, Past, NoRow
  <2> QED BY <2>2, <2>3 DEF Cas!Next, Cas!Open, Got
<1>4. CASE DeleteRow
  <2>1. live /\ live' = FALSE /\ log' = <<>> /\ Got' = [c \in Client |-> {}]
    BY <1>4 DEF DeleteRow, Got
  <2> QED BY <2>1 DEF Cas!Next, Cas!Close, Cas!Nothing, Got
<1>5. CASE Create \/ ReapDelete \/ ReapNotify \/ BeginStop \/ Restart
  BY <1>1, <1>3, <1>4, <1>5 DEF Create, ReapDelete, Reap, ReapNotify, BeginStop, Restart
<1>6. ASSUME NEW r \in Request, Get(r) \/ Post(r) \/ Delete(r)
      PROVE  Cas!Next \/ UNCHANGED Cas!vars
  <2>1. CASE Get(r) \/ Post(r)
    BY <1>1, <2>1 DEF Get, Post, Send
  <2>2. CASE Delete(r)
    BY <1>1, <1>4, <2>2 DEF Delete, DeleteChannel, AnswerError, Lost
  <2> QED BY <1>6, <2>1, <2>2
<1>7. ASSUME NEW r \in Request, AppendTx(r) PROVE Cas!Next \/ UNCHANGED Cas!vars
  <2>1. CASE UNCHANGED <<store, clients>>
    BY <1>1, <2>1
  <2>2. CASE /\ live /\ Head_ = req[r].since /\ Len(log) < MaxEvents
             /\ log' = Append(log, Owner[r]) /\ UNCHANGED <<live, gen, clients>>
    <3>1. Cas!Post(Owner[r]) /\ Owner[r] \in Client
      BY <1>7, <2>2, AppendPosts, StoreAssumption DEF AppendTx
    <3> QED BY <3>1 DEF Cas!Next
  <2> QED BY <1>7, <2>1, <2>2 DEF AppendTx, AnswerError, Lost
<1>8. ASSUME NEW r \in Request, NEW last \in PageLasts(req[r].since), UNCHANGED store,
             Receive(r, gen, last) \/ Lost
      PROVE  Cas!Next \/ UNCHANGED Cas!vars
  <2>1. last \in Seqs /\ Real(gen, last)
    BY <1>0, PageLastsType DEF TypeOK, Handler, Real
  <2> QED BY <1>0, <1>2, <1>8, <2>1
<1>9. ASSUME NEW r \in Request, ConflictRead(r) \/ ReadPage(r)
      PROVE  Cas!Next \/ UNCHANGED Cas!vars
  BY <1>1, <1>8, <1>9 DEF ConflictRead, ReadPage, AnswerPage, AnswerError, Lost
<1>10. ASSUME NEW r \in Request, AnswerRestarting(r), UNCHANGED store
       PROVE  Cas!Next \/ UNCHANGED Cas!vars
  <2>1. req[r].wrote \in Nat /\ req[r].since \in Seqs /\ Real(req[r].wrote, req[r].since)
    BY DEF TypeOK, Handler, Trace, Past, HandlersPast, HandlerPast
  <2> QED BY <1>1, <1>2, <1>10, <2>1 DEF AnswerRestarting, AnswerError, Lost
<1>11. ASSUME NEW r \in Request, Subscribe(r) \/ StopWait(r)
       PROVE  Cas!Next \/ UNCHANGED Cas!vars
  BY <1>1, <1>10, <1>11 DEF Subscribe, StopWait, Lost
<1>12. ASSUME NEW r \in Request, TimeOut(r) PROVE Cas!Next \/ UNCHANGED Cas!vars
  <2>1. /\ req[r].page.gen \in Nat /\ req[r].page.last \in Seqs
        /\ Real(req[r].page.gen, req[r].page.last)
    BY <1>12 DEF TimeOut, At, TypeOK, Handler, Trace, Past, HandlersPast, HandlerPast
  <2> QED BY <1>2, <1>12, <2>1 DEF TimeOut, AnswerPage
<1>13. ASSUME NEW r \in Request, DeleteNotify(r) \/ GoneNotify(r) \/ PostNotify(r) \/ Wake(r)
       PROVE  Cas!Next \/ UNCHANGED Cas!vars
  BY <1>1, <1>13 DEF DeleteNotify, GoneNotify, PostNotify, Wake, AnswerError, Lost
<1>14. CASE UNCHANGED vars
  BY <1>1, <1>14 DEF vars
<1> QED
  BY <1>5, <1>6, <1>7, <1>9, <1>11, <1>12, <1>13, <1>14 DEF Next, Handle

\* A channel that is created once implements the abstract log, for any clients,
\* connections and limits: what the server does to the rows and what its clients
\* receive is a sequence of Open, Post, Learn and Close.
THEOREM StoreImplementsCasLog == Spec /\ [](gen <= 1) => ImplementsCasLog
<1>1. Init => Cas!Init
  BY DEF Init, Cas!Init, Cas!Nothing
<1>2. Init => TypeOK /\ Ledger /\ Trace
  BY TypeInit, LedgerInit, TraceInit
<1>3. TypeOK /\ Ledger /\ Trace /\ [Next]_vars => (TypeOK /\ Ledger /\ Trace)'
  BY TypeNext, LedgerNext, TraceNext
<1>4. TypeOK /\ TypeOK' /\ Ledger /\ Trace /\ gen <= 1 /\ [Next]_vars => [Cas!Next]_(Cas!vars)
  BY RefineStep
<1> QED BY <1>1, <1>2, <1>3, <1>4, PTL DEF Spec, ImplementsCasLog, Cas!Spec
=============================================================================
