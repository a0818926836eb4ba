--------------------------- MODULE CelldChatProofs ---------------------------
(***************************************************************************)
(* What holds of one chat of the edge deployment for any clients, limits   *)
(* and number of re-creations: what it stores was authorized in its        *)
(* present generation by a sender that had received all before it, and no  *)
(* poll sleeps on news (StoredInGeneration).                               *)
(*                                                                         *)
(* The invariant says it of every handler on its way too: a handler that   *)
(* continues a reply of this generation has all up to its cursor (Fit),    *)
(* and so has the client whose newest reply is of this generation          *)
(* (Informs).  Both only while the chat lives: after an erase a client's   *)
(* cursor still names the generation whose events are gone.                *)
(*                                                                         *)
(* The last part shows that a chat created once implements the abstract    *)
(* compare-and-append log (CasLog.tla).                                    *)
(***************************************************************************)
EXTENDS CelldChat, TLAPS

Entries == [by: Client, gen: Nat, informed: BOOLEAN]
Handlers == [pc: Pcs, op: Ops, since: Seqs, lin: Nat, gen: Nat, head: Seqs]

\* The channel row and its events.
Row ==
  /\ live \in BOOLEAN /\ gen \in 0 .. MaxGen
  /\ live => gen >= 1
  /\ log \in Seq(Entries) /\ Len(log) <= MaxEvents
  /\ old \in BOOLEAN /\ alarm \in BOOLEAN /\ alarming \in BOOLEAN
  /\ ~live => log = <<>> /\ links = {} /\ ~old
  /\ \A i \in DOMAIN log : log[i].gen = gen /\ log[i].informed
  /\ links \subseteq {gen}

Clients ==
  /\ cursor \in [Client -> Seqs] /\ fresh \in [Client -> Nat]
  /\ seen \in [Client -> SUBSET Nat] /\ h \in [Client -> Handlers]

\* What a client received, and what its cursor stands for.
Informs(c) ==
  /\ fresh[c] <= gen /\ seen[c] \subseteq 0 .. HeadSeq
  /\ live /\ fresh[c] = gen => 0 .. cursor[c] \subseteq seen[c]

\* A handler k of client c.
Dated(k) == k.lin <= gen /\ k.gen <= gen /\ (k.pc \in {"waiting", "ready"} => k.head <= k.since)
Fit(k, c) ==
  /\ Dated(k)
  /\ k.pc = "waiting" => live /\ HeadSeq <= k.since
  /\ live /\ k.lin = gen => 0 .. k.since \subseteq seen[c]

Inv == Row /\ Clients /\ \A c \in Client : Informs(c) /\ Fit(h[c], c)

-----------------------------------------------------------------------------
(***************************************************************************)
(* Handlers.                                                               *)
(***************************************************************************)

LEMMA Numbers ==
  ASSUME Inv
  PROVE  /\ Len(log) \in Nat /\ HeadSeq \in Seqs /\ HeadSeq \in Int /\ HeadSeq >= -1
         /\ gen \in Nat /\ MaxEvents \in Nat /\ PageEvents \in Nat \ {0}
         /\ -1 \in Seqs /\ Seqs \subseteq Int /\ \A n \in Seqs : n >= -1
         /\ HeadSeq = Len(log) - 1
<1>1. Len(log) \in Nat /\ Len(log) <= MaxEvents /\ gen \in 0 .. MaxGen BY DEF Inv, Row
<1>2. HeadSeq = Len(log) - 1 BY DEF HeadSeq
<1>3. MaxEvents \in Nat \ {0} /\ PageEvents \in Nat \ {0} /\ MaxGen \in Nat BY ChatAssumption
<1>4. -1 \in Seqs /\ Seqs \subseteq Int /\ \A n \in Seqs : n >= -1 BY <1>3 DEF Seqs
<1>5. HeadSeq \in Seqs /\ HeadSeq \in Int /\ HeadSeq >= -1 BY <1>1, <1>2, <1>3 DEF Seqs
<1> QED BY <1>1, <1>2, <1>3, <1>4, <1>5

LEMMA FreeFits ==
  /\ Free \in Handlers /\ Free.pc = "free" /\ Free.lin = 0 /\ Free.gen = 0 /\ Free.since = -1
  BY ChatAssumption DEF Free, Handlers, Pcs, Ops, Seqs

\* A step that only moves handlers on.
LEMMA HandlersMove ==
  ASSUME Inv, UNCHANGED <<live, gen, log, links, clientVars>>,
         old' \in BOOLEAN, alarm' \in BOOLEAN, alarming' \in BOOLEAN, old' => live,
         h' \in [Client -> Handlers],
         \A c \in Client : h'[c] = h[c] \/ Fit(h'[c], c) \/ h'[c] = Free
  PROVE  Inv'
<1>1. Row' BY DEF Inv, Row
<1>2. Clients' BY DEF Inv, Clients, clientVars
<1>3. ASSUME NEW c \in Client PROVE Informs(c)' /\ Fit(h[c], c)'
  <2>1. Informs(c)' BY DEF Inv, Informs, clientVars, HeadSeq
  <2>2. CASE h'[c] = h[c] \/ Fit(h'[c], c)
    <3>1. PICK k : k = h'[c] OBVIOUS
    <3>2. Fit(k, c) BY <2>2, <3>1 DEF Inv
    <3>3. HeadSeq' = HeadSeq BY DEF HeadSeq
    <3>4. UNCHANGED <<live, gen, seen>> BY DEF clientVars
    <3>5. Fit(k, c)' BY <3>2, <3>3, <3>4 DEF Fit, Dated
    <3> QED BY <2>1, <3>1, <3>5 DEF Fit, Dated
  <2>3. CASE h'[c] = Free
    <3>1. gen \in Nat /\ 0 <= gen BY Numbers
    <3>2. 0 .. -1 = {} OBVIOUS
    <3>3. PICK k : k = Free /\ k = h'[c] BY <2>3
    <3>4. /\ k.lin = 0 /\ k.gen = 0 /\ k.since = -1 /\ k.pc \notin {"waiting", "ready"}
      BY <3>3, FreeFits
    <3>5. Fit(k, c)' BY <3>1, <3>2, <3>4 DEF Fit, Dated
    <3> QED BY <2>1, <3>3, <3>5 DEF Fit, Dated
  <2> QED BY <2>1, <2>2, <2>3
<1> QED BY <1>1, <1>2, <1>3 DEF Inv

\* One handler moves on, or is done.
LEMMA OneMoves ==
  ASSUME Inv, UNCHANGED <<chatVars, clientVars, alarming>>, NEW c \in Client,
         NEW k \in Handlers, k = Free \/ Fit(k, c), h' = [h EXCEPT ![c] = k]
  PROVE  Inv'
<1>1. h' \in [Client -> Handlers] BY DEF Inv, Clients
<1>2. \A d \in Client : h'[d] = h[d] \/ Fit(h'[d], d) \/ h'[d] = Free
  <2> SUFFICES ASSUME NEW d \in Client PROVE h'[d] = h[d] \/ Fit(h'[d], d) \/ h'[d] = Free
    OBVIOUS
  <2>1. CASE d = c
    <3>1. h'[d] = k BY <2>1 DEF Inv, Clients
    <3> QED BY <2>1, <3>1
  <2>2. CASE d # c BY <2>2 DEF Inv, Clients
  <2> QED BY <2>1, <2>2
<1> QED BY <1>1, <1>2, HandlersMove DEF chatVars, Inv, Row

LEMMA RefusedKeeps ==
  ASSUME Inv, NEW c \in Client, Refused(c), UNCHANGED alarming
  PROVE  Inv'
  BY OneMoves, FreeFits DEF Refused, Done

\* Handlers in any state, dated no later than now, survive an erase.
LEMMA EraseKeeps ==
  ASSUME Inv, NEW k \in [Client -> Handlers], \A c \in Client : Dated(k[c]),
         Erase(k), alarming' \in BOOLEAN
  PROVE  Inv'
<1>1. /\ live' = FALSE /\ log' = <<>> /\ links' = {} /\ old' = FALSE /\ alarm' = FALSE
      /\ h' = Notify(k) /\ seen' = [c \in Client |-> {}] /\ UNCHANGED <<gen, cursor, fresh>>
  BY DEF Erase
<1>2. Row'
  <2>1. <<>> \in Seq(Entries) /\ Len(<<>>) = 0 /\ DOMAIN <<>> = {} OBVIOUS
  <2>2. log' \in Seq(Entries) /\ Len(log') <= MaxEvents /\ DOMAIN log' = {}
    BY <1>1, <2>1, ChatAssumption
  <2>3. links' \subseteq {gen'} BY <1>1
  <2>4. gen' \in 0 .. MaxGen /\ ~live' /\ live' \in BOOLEAN /\ old' = FALSE /\ alarm' = FALSE
    BY <1>1 DEF Inv, Row
  <2> QED BY <1>1, <2>2, <2>3, <2>4 DEF Row
<1>3. ASSUME NEW c \in Client
      PROVE  h'[c] \in Handlers /\ Dated(h'[c]) /\ h'[c].pc # "waiting"
  <2>1. h'[c] = IF k[c].pc = "waiting" THEN [k[c] EXCEPT !.pc = "ready"] ELSE k[c]
    BY <1>1 DEF Notify
  <2>2. "ready" \in Pcs BY DEF Pcs
  <2> QED BY <2>1, <2>2 DEF Handlers, Dated
<1>4. h' \in [Client -> Handlers] BY <1>1, <1>3 DEF Notify
<1>5. Clients' BY <1>1, <1>4 DEF Inv, Clients
<1>6. ASSUME NEW c \in Client PROVE Informs(c)' /\ Fit(h[c], c)'
  <2>1. Informs(c)' BY <1>1 DEF Inv, Informs
  <2>2. PICK m : m = h'[c] OBVIOUS
  <2>3. Dated(m) /\ m.pc # "waiting" BY <1>3, <2>2
  <2> QED BY <1>1, <2>1, <2>2, <2>3 DEF Fit, Dated
<1> QED BY <1>2, <1>5, <1>6 DEF Inv

LEMMA ExpireKeeps ==
  ASSUME Inv, NEW c \in Client, NEW k \in Handlers, Fit(k, c), k.pc # "waiting",
         Expire([h EXCEPT ![c] = k]), UNCHANGED alarming
  PROVE  Inv'
<1> DEFINE hk == [h EXCEPT ![c] = k]
<1>1. CASE Overdue
  <2>1. hk \in [Client -> Handlers] BY DEF Inv, Clients
  <2>2. \A d \in Client : Dated(hk[d])
    <3> SUFFICES ASSUME NEW d \in Client PROVE Dated(hk[d]) OBVIOUS
    <3>1. CASE d = c
      <4>1. hk[d] = k BY <3>1 DEF Inv, Clients
      <4> QED BY <4>1 DEF Fit
    <3>2. CASE d # c
      <4>1. hk[d] = h[d] BY <3>2 DEF Inv, Clients
      <4> QED BY <4>1 DEF Inv, Fit
    <3> QED BY <3>1, <3>2
  <2>3. Erase(hk) BY <1>1 DEF Expire
  <2> HIDE DEF hk
  <2>4. alarming' \in BOOLEAN BY DEF Inv, Row
  <2> QED BY <2>1, <2>2, <2>3, <2>4, EraseKeeps
<1>2. CASE ~Overdue
  BY <1>2, OneMoves DEF Expire
<1> QED BY <1>1, <1>2

-----------------------------------------------------------------------------
(***************************************************************************)
(* Replies.                                                                *)
(***************************************************************************)

\* A reply past the handler's cursor is of events that are there; one at or
\* before it adds none.
LEMMA AnswerKeeps ==
  ASSUME Inv, NEW c \in Client, NEW lasts, Answer(c, lasts), UNCHANGED alarming,
         \A n \in lasts : n \in Seqs /\ (n <= HeadSeq \/ n <= h[c].since)
  PROVE  Inv'
<1>1. CASE UNCHANGED clientVars
  BY <1>1, OneMoves, FreeFits DEF Answer, Done
<1>2. CASE \E last \in lasts :
             /\ cursor' = [cursor EXCEPT ![c] = last]
             /\ fresh' = [fresh EXCEPT ![c] =
                  IF h[c].since = -1 \/ h[c].lin = gen THEN gen ELSE 0]
             /\ seen' = [seen EXCEPT ![c] = @ \cup (h[c].since + 1 .. last)]
  <2>1. PICK last \in lasts :
             /\ cursor' = [cursor EXCEPT ![c] = last]
             /\ fresh' = [fresh EXCEPT ![c] =
                  IF h[c].since = -1 \/ h[c].lin = gen THEN gen ELSE 0]
             /\ seen' = [seen EXCEPT ![c] = @ \cup (h[c].since + 1 .. last)]
    BY <1>2
  <2>2. /\ h' = [h EXCEPT ![c] = Free] /\ UNCHANGED chatVars
        /\ last \in Seqs /\ (last <= HeadSeq \/ last <= h[c].since)
    BY DEF Answer, Done
  <2>3. /\ h[c] \in Handlers /\ h[c].since \in Int /\ h[c].since >= -1 /\ last \in Int
        /\ last >= -1 /\ Fit(h[c], c) /\ Informs(c) /\ fresh[c] \in Nat
        /\ seen[c] \subseteq Nat /\ HeadSeq \in Int /\ gen \in Nat
    BY <2>2, Numbers DEF Inv, Clients, Handlers, Seqs
  <2>4. (h[c].since + 1 .. last) \subseteq 0 .. HeadSeq
    BY <2>2, <2>3
  <2>5. (0 .. last) \subseteq (0 .. h[c].since) \cup (h[c].since + 1 .. last)
    BY <2>3
  <2>6. Row' BY <2>2 DEF Inv, Row, chatVars
  <2>7. Clients'
    <3>1. h' \in [Client -> Handlers] /\ cursor' \in [Client -> Seqs]
      BY <2>1, <2>2, FreeFits DEF Inv, Clients
    <3>2. fresh' \in [Client -> Nat] BY <2>1, <2>3 DEF Inv, Clients
    <3>3. (h[c].since + 1 .. last) \subseteq Nat BY <2>3
    <3>4. seen' \in [Client -> SUBSET Nat] BY <2>1, <2>3, <3>3 DEF Inv, Clients
    <3> QED BY <3>1, <3>2, <3>4 DEF Clients
  <2>8. ASSUME NEW d \in Client PROVE Informs(d)' /\ Fit(h[d], d)'
    <3>1. CASE d # c
      <4>1. UNCHANGED <<cursor[d], fresh[d], seen[d], h[d]>>
        BY <2>1, <2>2, <3>1 DEF Inv, Clients
      <4>2. Informs(d) /\ Fit(h[d], d) BY DEF Inv
      <4>3. PICK k : k = h[d] /\ k = h'[d] BY <4>1
      <4> QED BY <2>2, <4>1, <4>2, <4>3 DEF Informs, Fit, Dated, chatVars, HeadSeq
    <3>2. CASE d = c
      <4>1. /\ cursor'[c] = last /\ h'[c] = Free
            /\ fresh'[c] = IF h[c].since = -1 \/ h[c].lin = gen THEN gen ELSE 0
            /\ seen'[c] = seen[c] \cup (h[c].since + 1 .. last)
        BY <2>1, <2>2 DEF Inv, Clients
      <4>2. UNCHANGED <<live, gen>> /\ HeadSeq' = HeadSeq BY <2>2 DEF chatVars, HeadSeq
      <4>3. fresh'[c] <= gen /\ seen'[c] \subseteq 0 .. HeadSeq
        BY <2>3, <2>4, <4>1 DEF Informs
      <4>4. ASSUME live, fresh'[c] = gen PROVE 0 .. last \subseteq seen'[c]
        <5>1. gen >= 1 BY <4>4 DEF Inv, Row
        <5>2. h[c].since = -1 \/ h[c].lin = gen BY <2>3, <4>1, <4>4, <5>1
        <5>3. 0 .. h[c].since \subseteq seen[c]
          <6>1. CASE h[c].since = -1 BY <6>1
          <6>2. CASE h[c].lin = gen BY <2>3, <4>4, <6>2 DEF Fit
          <6> QED BY <5>2, <6>1, <6>2
        <5> QED BY <2>5, <4>1, <5>3
      <4>5. Informs(c)' BY <4>1, <4>2, <4>3, <4>4 DEF Informs
      <4>6. Fit(h[c], c)'
        <5>1. 0 <= gen /\ 0 .. -1 = {} BY <2>3
        <5> QED BY <4>1, <4>2, <5>1, FreeFits DEF Fit, Dated
      <4> QED BY <3>2, <4>5, <4>6
    <3> QED BY <3>1, <3>2
  <2> QED BY <2>6, <2>7, <2>8 DEF Inv
<1> QED BY <1>1, <1>2 DEF Answer

LEMMA PagesFit ==
  ASSUME Inv, NEW since \in Seqs
  PROVE  \A n \in PageLasts(since) : n \in Seqs /\ n <= HeadSeq
<1>1. since \in Int /\ since >= -1 BY DEF Seqs
<1>2. CASE HeadSeq <= since BY <1>2, Numbers DEF PageLasts
<1>3. CASE ~(HeadSeq <= since)
  <2>1. \A n \in PageLasts(since) : n \in Int /\ since + 1 <= n /\ n <= HeadSeq
    BY <1>1, <1>3, Numbers DEF PageLasts
  <2>2. HeadSeq <= MaxEvents - 1 BY Numbers DEF Inv, Row
  <2> QED BY <1>1, <2>1, <2>2, Numbers DEF Seqs
<1> QED BY <1>2, <1>3

LEMMA PageKeeps ==
  ASSUME Inv, NEW c \in Client, Answer(c, PageLasts(h[c].since)), UNCHANGED alarming
  PROVE  Inv'
<1>1. h[c].since \in Seqs BY DEF Inv, Clients, Handlers
<1>2. \A n \in PageLasts(h[c].since) : n \in Seqs /\ n <= HeadSeq BY <1>1, PagesFit
<1> QED BY <1>2, AnswerKeeps

LEMMA RoundKeeps ==
  ASSUME Inv, NEW c \in Client, PollRound(c), UNCHANGED alarming
  PROVE  Inv'
<1>1. CASE Refused(c) BY <1>1, RefusedKeeps
<1>2. CASE Answer(c, PageLasts(h[c].since)) BY <1>2, PageKeeps
<1>3. CASE /\ live /\ HeadSeq <= h[c].since
           /\ h' = [h EXCEPT ![c].pc = "waiting", ![c].head = HeadSeq]
           /\ UNCHANGED <<chatVars, clientVars>>
  <2> DEFINE k == [h[c] EXCEPT !.pc = "waiting", !.head = HeadSeq]
  <2>1. h[c] \in Handlers /\ Fit(h[c], c) BY DEF Inv, Clients
  <2>2. k \in Handlers BY <2>1, Numbers DEF Handlers, Pcs
  <2>3. Fit(k, c) BY <1>3, <2>1 DEF Fit, Dated, Handlers
  <2>4. h' = [h EXCEPT ![c] = k] BY <1>3 DEF Inv, Clients
  <2> HIDE DEF k
  <2> QED BY <1>3, <2>2, <2>3, <2>4, OneMoves
<1> QED BY <1>1, <1>2, <1>3 DEF PollRound

LEMMA EmptyPageKeeps ==
  ASSUME Inv, NEW c \in Client, h[c].pc \in {"waiting", "ready"}, EmptyPage(c), UNCHANGED alarming
  PROVE  Inv'
<1>1. h[c].head \in Seqs /\ h[c].head <= h[c].since
  BY DEF Inv, Clients, Handlers, Fit, Dated
<1> QED BY <1>1, AnswerKeeps DEF EmptyPage

-----------------------------------------------------------------------------
(***************************************************************************)
(* The steps.                                                              *)
(***************************************************************************)

\* A handler that goes to another place than the waiters stays what it is.
LEMMA GotoFits ==
  ASSUME Inv, NEW c \in Client, NEW pc \in Pcs \ {"waiting", "ready"}, NEW g \in {h[c].gen, gen}
  PROVE  /\ [h[c] EXCEPT !.pc = pc, !.gen = g] \in Handlers
         /\ Fit([h[c] EXCEPT !.pc = pc, !.gen = g], c)
         /\ [h[c] EXCEPT !.pc = pc, !.gen = g].pc # "waiting"
<1>1. h[c] \in Handlers /\ Fit(h[c], c) /\ gen \in Nat
  BY Numbers DEF Inv, Clients
<1>2. g \in Nat /\ g <= gen BY <1>1 DEF Handlers, Fit, Dated
<1>3. PICK k : k = [h[c] EXCEPT !.pc = pc, !.gen = g] OBVIOUS
<1>4. /\ k \in Handlers /\ k.pc = pc /\ k.gen = g /\ k.lin = h[c].lin
      /\ k.since = h[c].since
  BY <1>1, <1>2, <1>3 DEF Handlers
<1>5. Fit(k, c) BY <1>1, <1>2, <1>4 DEF Fit, Dated
<1> QED BY <1>3, <1>4, <1>5

LEMMA GotoMoves ==
  ASSUME Inv, NEW c \in Client, NEW pc \in Pcs
  PROVE  /\ Goto(c, pc) = [h EXCEPT ![c] = [h[c] EXCEPT !.pc = pc, !.gen = h[c].gen]]
         /\ [h EXCEPT ![c].gen = gen, ![c].pc = pc] =
              [h EXCEPT ![c] = [h[c] EXCEPT !.pc = pc, !.gen = gen]]
<1>1. h[c] \in Handlers /\ h \in [Client -> Handlers] BY DEF Inv, Clients
<1>2. [h[c] EXCEPT !.pc = pc] = [h[c] EXCEPT !.pc = pc, !.gen = h[c].gen]
  BY <1>1 DEF Handlers
<1>3. Goto(c, pc) = [h EXCEPT ![c] = [h[c] EXCEPT !.pc = pc]]
  BY <1>1 DEF Goto
<1>4. [[h[c] EXCEPT !.gen = gen] EXCEPT !.pc = pc] = [h[c] EXCEPT !.pc = pc, !.gen = gen]
  BY <1>1 DEF Handlers
<1>5. [h EXCEPT ![c].gen = gen, ![c].pc = pc] =
        [h EXCEPT ![c] = [[h[c] EXCEPT !.gen = gen] EXCEPT !.pc = pc]]
  BY <1>1
<1> QED BY <1>2, <1>3, <1>4, <1>5

LEMMA ArriveKeeps ==
  ASSUME Inv, NEW c \in Client, NEW op \in Ops, NEW since \in {cursor[c], -1},
         Arrive(c, op, since)
  PROVE  Inv'
<1> DEFINE k == [pc |-> "arrived", op |-> op, since |-> since, lin |-> fresh[c], gen |-> 0,
                 head |-> -1]
<1>1. /\ fresh[c] \in Nat /\ fresh[c] <= gen /\ since \in Seqs /\ -1 \in Seqs /\ gen \in Nat
      /\ Informs(c)
  BY Numbers DEF Inv, Clients, Informs
<1>2. k \in Handlers BY <1>1 DEF Handlers, Pcs
<1>3. Fit(k, c)
  <2>1. live /\ fresh[c] = gen => 0 .. since \subseteq seen[c]
    BY <1>1 DEF Informs
  <2> QED BY <1>1, <2>1 DEF Fit, Dated
<1>4. k.pc # "waiting" OBVIOUS
<1>5. Expire([h EXCEPT ![c] = k]) /\ UNCHANGED alarming BY DEF Arrive
<1> HIDE DEF k
<1> QED BY <1>2, <1>3, <1>4, <1>5, ExpireKeeps

LEMMA DeleteKeeps == ASSUME Inv, NEW c \in Client, Delete(c) PROVE Inv'
<1>1. CASE Refused(c) BY <1>1, RefusedKeeps DEF Delete
<1>2. CASE Erase([h EXCEPT ![c] = Free])
  <2> DEFINE k == [h EXCEPT ![c] = Free]
  <2>1. k \in [Client -> Handlers] BY FreeFits DEF Inv, Clients
  <2>2. ASSUME NEW d \in Client PROVE Dated(k[d])
    <3>1. gen \in Nat BY Numbers
    <3>2. CASE d = c
      <4>1. k[d] = Free BY <3>2 DEF Inv, Clients
      <4> QED BY <3>1, <4>1, FreeFits DEF Dated
    <3>3. CASE d # c
      <4>1. k[d] = h[d] BY <3>3 DEF Inv, Clients
      <4> QED BY <4>1 DEF Inv, Fit
    <3> QED BY <3>2, <3>3
  <2>3. Erase(k) BY <1>2
  <2> HIDE DEF k
  <2>4. alarming' \in BOOLEAN BY DEF Delete, Inv, Row
  <2> QED BY <2>1, <2>2, <2>3, <2>4, EraseKeeps
<1> QED BY <1>1, <1>2 DEF Delete

LEMMA AuthorizeKeeps == ASSUME Inv, NEW c \in Client, Authorize(c) PROVE Inv'
<1>1. CASE Refused(c) BY <1>1, RefusedKeeps DEF Authorize
<1>2. CASE /\ h' = [h EXCEPT ![c].gen = gen,
                             ![c].pc = IF h[c].op = "post" THEN "body" ELSE "linkbody"]
           /\ UNCHANGED <<chatVars, clientVars>>
  <2>1. PICK pc \in {"body", "linkbody"} :
          pc = (IF h[c].op = "post" THEN "body" ELSE "linkbody")
    OBVIOUS
  <2>2. pc \in Pcs \ {"waiting", "ready"} BY DEF Pcs
  <2> DEFINE k == [h[c] EXCEPT !.pc = pc, !.gen = gen]
  <2>3. h' = [h EXCEPT ![c] = k] BY <1>2, <2>1, <2>2, GotoMoves
  <2>4. k \in Handlers /\ Fit(k, c) BY <2>2, GotoFits
  <2> HIDE DEF k
  <2> QED BY <1>2, <2>3, <2>4, OneMoves DEF Authorize
<1> QED BY <1>1, <1>2 DEF Authorize

LEMMA UnfitKeeps == ASSUME Inv, NEW c \in Client, Unfit(c), UNCHANGED alarming PROVE Inv'
  BY RefusedKeeps, PageKeeps DEF Unfit

LEMMA GotoKeeps ==
  ASSUME Inv, NEW c \in Client, NEW pc \in Pcs \ {"waiting", "ready"},
         \/ h' = Goto(c, pc) /\ UNCHANGED <<chatVars, clientVars>>
         \/ Expire(Goto(c, pc)),
         UNCHANGED alarming
  PROVE  Inv'
<1> DEFINE k == [h[c] EXCEPT !.pc = pc, !.gen = h[c].gen]
<1>1. Goto(c, pc) = [h EXCEPT ![c] = k] BY GotoMoves
<1>2. k \in Handlers /\ Fit(k, c) /\ k.pc # "waiting" BY GotoFits
<1> HIDE DEF k
<1> QED BY <1>1, <1>2, OneMoves, ExpireKeeps

\* The event is of this generation, and its sender has now received all.
LEMMA AppendKeeps ==
  ASSUME Inv, NEW c \in Client, Fits(c), Len(log) < MaxEvents, Append_(c), UNCHANGED alarming
  PROVE  Inv'
<1> DEFINE e == [by |-> c, gen |-> h[c].gen, informed |-> Informed(c)]
           lin == IF h[c].lin = gen \/ h[c].since = -1 THEN gen ELSE 0
           k == [h[c] EXCEPT !.pc = "posted", !.since = Len(log), !.lin = lin]
           hk == [h EXCEPT ![c] = k]
<1>1. /\ live /\ h[c].gen = gen /\ HeadSeq = h[c].since
      /\ h[c] \in Handlers /\ Fit(h[c], c) /\ h \in [Client -> Handlers]
      /\ Len(log) \in Nat /\ HeadSeq = Len(log) - 1 /\ gen \in Nat
  BY Numbers DEF Inv, Clients, Fits
<1>2. /\ log' = Append(log, e) /\ old' = FALSE /\ alarm' = Retention
      /\ seen' = [seen EXCEPT ![c] = @ \cup {Len(log)}]
      /\ UNCHANGED <<live, gen, links, cursor, fresh>>
  BY DEF Append_
<1>3. h' = Notify(hk)
  <2>1. [h EXCEPT ![c] = [@ EXCEPT !.pc = "posted", !.since = Len(log),
                !.lin = IF h[c].lin = gen \/ h[c].since = -1 THEN gen ELSE 0]] = hk
    BY <1>1
  <2> QED BY <2>1 DEF Append_
<1>4. Informed(c) = TRUE
  BY <1>1 DEF Informed, Fit
<1>5. e \in Entries /\ e.gen = gen /\ e.informed
  BY <1>1, <1>4 DEF Entries
<1>6. lin \in Nat /\ lin <= gen BY <1>1
<1>7. k \in Handlers /\ k.pc = "posted" /\ k.since = Len(log) /\ k.lin = lin /\ k.gen = gen
  <2>1. Len(log) \in Seqs BY <1>1, ChatAssumption DEF Seqs
  <2> QED BY <1>1, <1>6, <2>1 DEF Handlers, Pcs
<1>8. lin = gen => 0 .. HeadSeq \subseteq seen[c]
  <2>1. CASE h[c].lin = gen BY <1>1, <2>1 DEF Fit
  <2>2. CASE h[c].since = -1
    <3>1. 0 .. -1 = {} OBVIOUS
    <3> QED BY <1>1, <2>2, <3>1
  <2>3. CASE h[c].lin # gen /\ h[c].since # -1
    <3>1. gen >= 1 BY <1>1 DEF Inv, Row
    <3> QED BY <2>3, <3>1
  <2> QED BY <2>1, <2>2, <2>3
<1>9. 0 .. Len(log) = (0 .. HeadSeq) \cup {Len(log)} BY <1>1
<1> HIDE DEF e, lin, k
<1>10. HeadSeq' = Len(log) /\ Len(log') = Len(log) + 1
  <2>1. log \in Seq(Entries) BY DEF Inv, Row
  <2>2. Len(log') = Len(log) + 1 BY <1>2, <1>5, <2>1
  <2> QED BY <1>1, <2>2 DEF HeadSeq
<1>11. Row'
  <2>1. log \in Seq(Entries) BY DEF Inv, Row
  <2>2. log' \in Seq(Entries) BY <1>2, <1>5, <2>1
  <2>3. ASSUME NEW i \in DOMAIN log' PROVE log'[i].gen = gen /\ log'[i].informed
    <3>1. CASE i = Len(log) + 1 BY <1>2, <1>5, <2>1, <3>1
    <3>2. CASE i # Len(log) + 1
      <4>1. i \in DOMAIN log /\ log'[i] = log[i] BY <1>2, <1>5, <1>10, <2>1, <2>2, <2>3, <3>2
      <4> QED BY <4>1 DEF Inv, Row
    <3> QED BY <3>1, <3>2
  <2>4. alarm' \in BOOLEAN /\ Len(log') <= MaxEvents
    BY <1>1, <1>2, <1>10, ChatAssumption
  <2> QED BY <1>1, <1>2, <2>2, <2>3, <2>4 DEF Inv, Row
<1>12. ASSUME NEW d \in Client
       PROVE  /\ h'[d] \in Handlers /\ Dated(h'[d]) /\ h'[d].pc # "waiting"
              /\ h'[d].since = hk[d].since /\ h'[d].lin = hk[d].lin
  <2>1. h'[d] = IF hk[d].pc = "waiting" THEN [hk[d] EXCEPT !.pc = "ready"] ELSE hk[d]
    BY <1>3 DEF Notify
  <2>2. hk[d] \in Handlers /\ Dated(hk[d])
    <3>1. CASE d = c
      <4>1. hk[d] = k BY <1>1, <3>1
      <4> QED BY <1>1, <1>6, <1>7, <4>1 DEF Dated
    <3>2. CASE d # c
      <4>1. hk[d] = h[d] BY <1>1, <3>2
      <4> QED BY <1>1, <4>1 DEF Inv, Fit
    <3> QED BY <3>1, <3>2
  <2> HIDE DEF hk
  <2>3. "ready" \in Pcs BY DEF Pcs
  <2> QED BY <2>1, <2>2, <2>3 DEF Handlers, Dated
<1>13. Clients'
  <2>1. h' \in [Client -> Handlers] BY <1>3, <1>12 DEF Notify
  <2>2. seen' \in [Client -> SUBSET Nat] BY <1>1, <1>2 DEF Inv, Clients
  <2> QED BY <1>2, <2>1, <2>2 DEF Inv, Clients
<1>14. ASSUME NEW d \in Client PROVE Informs(d)' /\ Fit(h[d], d)'
  <2>1. seen[d] \subseteq seen'[d] /\ (d = c => seen'[d] = seen[d] \cup {Len(log)})
        /\ seen'[d] \subseteq seen[d] \cup {Len(log)}
    BY <1>2 DEF Inv, Clients
  <2>2. 0 .. HeadSeq' = (0 .. HeadSeq) \cup {Len(log)} BY <1>9, <1>10
  <2>3. Informs(d)'
    <3>1. Informs(d) BY DEF Inv
    <3>2. seen'[d] \subseteq 0 .. HeadSeq' BY <2>1, <2>2, <3>1 DEF Informs
    <3> QED BY <1>2, <2>1, <3>1, <3>2 DEF Informs
  <2>4. Fit(h[d], d)'
    <3>1. PICK m : m = h'[d] OBVIOUS
    <3>2. Dated(m) /\ m.pc # "waiting" /\ m.since = hk[d].since /\ m.lin = hk[d].lin
      BY <1>12, <3>1
    <3>3. live /\ m.lin = gen => 0 .. m.since \subseteq seen'[d]
      <4>1. CASE d = c
        <5>1. hk[d] = k BY <1>1, <4>1
        <5> QED BY <1>7, <1>8, <1>9, <2>1, <3>2, <4>1, <5>1
      <4>2. CASE d # c
        <5>1. hk[d] = h[d] BY <1>1, <4>2
        <5>2. live /\ h[d].lin = gen => 0 .. h[d].since \subseteq seen[d] BY DEF Inv, Fit
        <5> QED BY <2>1, <3>2, <5>1, <5>2
      <4> QED BY <4>1, <4>2
    <3>4. Fit(m, d)' BY <1>2, <3>2, <3>3 DEF Fit, Dated
    <3> QED BY <3>1, <3>4 DEF Fit, Dated
  <2> QED BY <2>3, <2>4
<1> QED BY <1>11, <1>13, <1>14 DEF Inv

\* A link is of the generation it was authorized in, checked when stored.
LEMMA LinkKeeps == ASSUME Inv, NEW c \in Client, Link(c) PROVE Inv'
<1>1. CASE Refused(c) BY <1>1, RefusedKeeps DEF Link
<1>2. CASE /\ live /\ gen = h[c].gen
           /\ links' = IF h[c].op = "link" THEN links \cup {h[c].gen} ELSE {}
           /\ Done(c) /\ UNCHANGED <<live, gen, log, old, alarm, clientVars>>
  <2>1. /\ h' = [h EXCEPT ![c] = Free] /\ UNCHANGED <<cursor, fresh, seen, alarming>>
        /\ HeadSeq' = HeadSeq /\ links' \subseteq {gen}
    BY <1>2 DEF Done, clientVars, Link, HeadSeq, Inv, Row
  <2>2. Row' BY <1>2, <2>1 DEF Inv, Row, Link
  <2>3. Clients' BY <2>1, FreeFits DEF Inv, Clients
  <2>4. ASSUME NEW d \in Client PROVE Informs(d)' /\ Fit(h[d], d)'
    <3>1. Informs(d)' BY <1>2, <2>1 DEF Inv, Informs
    <3>2. PICK k : k = h'[d] OBVIOUS
    <3>3. k = Free \/ Fit(k, d) BY <2>1, <3>2 DEF Inv, Clients
    <3>4. Fit(k, d)'
      <4>1. CASE Fit(k, d) BY <1>2, <2>1, <4>1 DEF Fit, Dated
      <4>2. CASE k = Free
        <5>1. gen \in Nat /\ 0 .. -1 = {} BY Numbers
        <5>2. k.lin = 0 /\ k.gen = 0 /\ k.since = -1 /\ k.pc \notin {"waiting", "ready"}
          BY <4>2, FreeFits
        <5> QED BY <1>2, <5>1, <5>2 DEF Fit, Dated
      <4> QED BY <3>3, <4>1, <4>2
    <3> QED BY <3>1, <3>2, <3>4 DEF Fit, Dated
  <2> QED BY <2>2, <2>3, <2>4 DEF Inv
<1> QED BY <1>1, <1>2 DEF Link

\* A new generation begins without events, and nobody has a cursor of it.
LEMMA CreateKeeps == ASSUME Inv, Create PROVE Inv'
<1>1. /\ ~live /\ live' = TRUE /\ gen' = gen + 1 /\ old' = FALSE /\ gen < MaxGen
      /\ alarm' = Retention /\ UNCHANGED <<log, links, alarming, h, cursor, fresh, seen>>
      /\ log = <<>> /\ links = {} /\ gen \in Nat /\ MaxGen \in Nat /\ HeadSeq' = HeadSeq
  BY Numbers, ChatAssumption DEF Create, clientVars, Inv, Row, HeadSeq
<1>2. Row'
  <2>1. DOMAIN log = {} BY <1>1
  <2>2. gen' \in 0 .. MaxGen /\ gen' >= 1 BY <1>1
  <2>3. alarm' \in BOOLEAN BY <1>1, ChatAssumption
  <2> QED BY <1>1, <2>1, <2>2, <2>3 DEF Inv, Row
<1>3. Clients' BY <1>1 DEF Inv, Clients
<1>4. ASSUME NEW c \in Client PROVE Informs(c)' /\ Fit(h[c], c)'
  <2>1. /\ fresh[c] \in Nat /\ fresh[c] <= gen /\ h[c].lin \in Nat /\ h[c].gen \in Nat
        /\ Informs(c) /\ Fit(h[c], c)
    BY DEF Inv, Clients, Informs, Handlers
  <2>2. Informs(c)' BY <1>1, <2>1 DEF Informs
  <2>3. PICK k : k = h[c] OBVIOUS
  <2>4. Fit(k, c)' BY <1>1, <2>1, <2>3 DEF Fit, Dated
  <2> QED BY <1>1, <2>2, <2>3, <2>4 DEF Fit, Dated
<1> QED BY <1>2, <1>3, <1>4 DEF Inv

LEMMA AlarmKeeps == ASSUME Inv, AlarmFires \/ AlarmEnds \/ Tick PROVE Inv'
<1>1. CASE AlarmFires /\ Overdue
  <2>1. Erase(h) /\ alarming' \in BOOLEAN BY <1>1 DEF AlarmFires
  <2>2. h \in [Client -> Handlers] /\ \A c \in Client : Dated(h[c])
    BY DEF Inv, Clients, Fit
  <2> QED BY <2>1, <2>2, EraseKeeps
<1>2. CASE (AlarmFires /\ ~Overdue) \/ AlarmEnds \/ Tick
  <2>1. /\ UNCHANGED <<live, gen, log, links, h, clientVars>>
        /\ old' \in BOOLEAN /\ alarm' \in BOOLEAN /\ alarming' \in BOOLEAN /\ (old' => live)
    <3>1. /\ live \in BOOLEAN /\ old \in BOOLEAN /\ alarm \in BOOLEAN /\ alarming \in BOOLEAN
          /\ (~live => ~old) /\ Retention \in BOOLEAN
      BY ChatAssumption DEF Inv, Row
    <3>2. CASE AlarmFires /\ ~Overdue BY <3>1, <3>2 DEF AlarmFires
    <3>3. CASE AlarmEnds BY <3>1, <3>3 DEF AlarmEnds, Scheduled
    <3>4. CASE Tick BY <3>1, <3>4 DEF Tick
    <3> QED BY <1>2, <3>2, <3>3, <3>4
  <2>2. h' \in [Client -> Handlers] BY <2>1 DEF Inv, Clients
  <2> QED BY <2>1, <2>2, HandlersMove
<1> QED BY <1>1, <1>2

LEMMA RestartKeeps == ASSUME Inv, Restart PROVE Inv'
<1>1. /\ UNCHANGED <<live, gen, log, links, clientVars>>
      /\ old' \in BOOLEAN /\ alarm' \in BOOLEAN /\ alarming' \in BOOLEAN /\ (old' => live)
      /\ h' = [c \in Client |-> Free]
  BY DEF Restart, Inv, Row
<1>2. h' \in [Client -> Handlers] BY <1>1, FreeFits
<1>3. \A c \in Client : h'[c] = Free BY <1>1
<1> QED BY <1>1, <1>2, <1>3, HandlersMove

-----------------------------------------------------------------------------
(***************************************************************************)
(* The theorems.                                                           *)
(***************************************************************************)

LEMMA InvInit == Init => Inv
<1> SUFFICES ASSUME Init PROVE Inv OBVIOUS
<1>1. <<>> \in Seq(Entries) /\ Len(<<>>) = 0 /\ DOMAIN <<>> = {} OBVIOUS
<1>2. MaxEvents \in Nat \ {0} /\ MaxGen \in Nat BY ChatAssumption
<1>6. log \in Seq(Entries) /\ Len(log) <= MaxEvents /\ DOMAIN log = {}
  BY <1>1, <1>2 DEF Init
<1>7. links \subseteq {gen} /\ gen \in 0 .. MaxGen BY <1>2 DEF Init
<1>3. Row BY <1>6, <1>7 DEF Init, Row
<1>4. Clients BY <1>2, FreeFits DEF Init, Clients, Seqs
<1>5. ASSUME NEW c \in Client PROVE Informs(c) /\ Fit(h[c], c)
  <2>1. h[c] = Free /\ gen = 0 /\ ~live /\ seen[c] = {} /\ fresh[c] = 0
    BY DEF Init
  <2> QED BY <2>1, FreeFits DEF Informs, Fit, Dated
<1> QED BY <1>3, <1>4, <1>5 DEF Inv

LEMMA InvNext == Inv /\ [Next]_vars => Inv'
<1> SUFFICES ASSUME Inv, [Next]_vars PROVE Inv' OBVIOUS
<1>1. ASSUME NEW c \in Client, Resume(c) PROVE Inv'
  BY <1>1, RoundKeeps, EmptyPageKeeps DEF Resume, At
<1>2. ASSUME NEW c \in Client, \E since \in {cursor[c], -1} : Arrive(c, "poll", since)
      PROVE  Inv'
  BY <1>2, ArriveKeeps DEF Ops
<1>3. ASSUME NEW c \in Client, \E op \in Ops \ {"poll"} : Arrive(c, op, cursor[c])
      PROVE  Inv'
  BY <1>3, ArriveKeeps
<1>4. ASSUME NEW c \in Client, Poll(c) PROVE Inv' BY <1>4, RoundKeeps DEF Poll
<1>5. ASSUME NEW c \in Client, TimeOut(c) PROVE Inv'
  BY <1>5, EmptyPageKeeps DEF TimeOut, At
<1>6. ASSUME NEW c \in Client, Delete(c) PROVE Inv' BY <1>6, DeleteKeeps
<1>7. ASSUME NEW c \in Client, Authorize(c) PROVE Inv' BY <1>7, AuthorizeKeeps
<1>8. {"screen", "commit", "linking"} \subseteq Pcs \ {"waiting", "ready"} BY DEF Pcs
<1>9. ASSUME NEW c \in Client, Body(c) PROVE Inv'
  BY <1>8, <1>9, UnfitKeeps, GotoKeeps DEF Body
<1>10. ASSUME NEW c \in Client, Screen(c) PROVE Inv'
  BY <1>8, <1>10, RefusedKeeps, GotoKeeps DEF Screen
<1>11. ASSUME NEW c \in Client, Commit(c) PROVE Inv'
  BY <1>11, UnfitKeeps, AppendKeeps DEF Commit
<1>12. ASSUME NEW c \in Client, Posted(c) PROVE Inv' BY <1>12, RoundKeeps DEF Posted
<1>13. ASSUME NEW c \in Client, LinkBody(c) PROVE Inv'
  BY <1>8, <1>13, RefusedKeeps, GotoKeeps DEF LinkBody
<1>14. ASSUME NEW c \in Client, Link(c) PROVE Inv' BY <1>14, LinkKeeps
<1>15. ASSUME NEW c \in Client, Event(c) PROVE Inv'
  BY <1>2, <1>3, <1>4, <1>5, <1>6, <1>7, <1>9, <1>10, <1>11, <1>12, <1>13, <1>14, <1>15
  DEF Event
<1>16. CASE UNCHANGED vars
  <2>1. /\ UNCHANGED <<live, gen, log, links, old, alarm, alarming, h, clientVars>>
        /\ h' \in [Client -> Handlers]
    BY <1>16 DEF vars, chatVars, Inv, Clients
  <2>2. /\ old' \in BOOLEAN /\ alarm' \in BOOLEAN /\ alarming' \in BOOLEAN /\ (old' => live)
    BY <2>1 DEF Inv, Row
  <2> QED BY <2>1, <2>2, HandlersMove
<1> QED BY <1>1, <1>15, <1>16, CreateKeeps, AlarmKeeps, RestartKeeps DEF Next

LEMMA ChatInv == Spec => []Inv
  BY InvInit, InvNext, PTL DEF Spec

\* Type correctness, and that a deleted or expired chat keeps no event and no
\* link, and a living one no more events than its limit (erase, check, append).
THEOREM ChatTypeOK == Spec => []TypeOK
<1>1. Inv => TypeOK
  <2> SUFFICES ASSUME Inv PROVE TypeOK OBVIOUS
  <2>1. links \subseteq 1 .. gen
    <3>1. CASE live
      <4>1. gen \in Nat /\ gen >= 1 BY <3>1, Numbers DEF Inv, Row
      <4> QED BY <4>1 DEF Inv, Row
    <3>2. CASE ~live BY <3>2 DEF Inv, Row
    <3> QED BY <3>1, <3>2
  <2>2. ASSUME NEW c \in Client
        PROVE  /\ h[c].pc \in Pcs /\ h[c].op \in Ops
               /\ {h[c].since, h[c].head, cursor[c]} \subseteq Seqs
               /\ {h[c].lin, h[c].gen, fresh[c]} \subseteq 0 .. gen
               /\ seen[c] \subseteq 0 .. HeadSeq
    <3>1. h[c] \in Handlers /\ cursor[c] \in Seqs /\ fresh[c] \in Nat /\ gen \in Nat
      BY Numbers DEF Inv, Clients
    <3>2. Informs(c) /\ Dated(h[c]) BY DEF Inv, Fit
    <3> QED BY <3>1, <3>2 DEF Handlers, Informs, Dated
  <2> QED BY <2>1, <2>2 DEF Inv, Row, TypeOK
<1> QED BY <1>1, ChatInv, PTL

\* What a chat stores was authorized in its present generation by senders that
\* had received all before it, and no poll sleeps on a chat that is gone or
\* has an event for it, whatever expired, was deleted or was created again
\* while a post awaited its body or the provider (check, append, expire, poll).
THEOREM ChatStoredInGeneration == Spec => []StoredInGeneration
<1>1. Inv => \A c \in Client : At(c, "waiting") => live /\ HeadSeq <= h[c].since
  BY DEF Inv, Fit, At
<1>2. Inv /\ TypeOK => StoredInGeneration
  BY <1>1 DEF Inv, Row, StoredInGeneration
<1> QED BY <1>2, ChatInv, ChatTypeOK, PTL

-----------------------------------------------------------------------------
(***************************************************************************)
(* The abstract log.  A chat that is created once has one generation, so a *)
(* cursor is either empty or of that generation, and a post that fits      *)
(* comes from a client that received the whole log.                        *)
(***************************************************************************)

\* The handler k has a cursor of a chat it read from, or none.
Lone(k) == k.lin = 0 => k.since = -1
Sole == gen <= 1 => \A c \in Client : (fresh[c] = 0 => cursor[c] = -1) /\ Lone(h[c])

\* A step is one of the abstract log, and leaves no cursor of another generation.
Maps == Sole' /\ (gen <= 1 => Cas!Next \/ UNCHANGED Cas!vars)

LEMMA FreeIsLone == Lone(Free)
  BY FreeFits DEF Lone

\* A step that only moves handlers on.
LEMMA QuietMaps ==
  ASSUME Inv, Sole, UNCHANGED <<live, gen, log, clientVars>>,
         \A c \in Client : Lone(h[c]) => Lone(h'[c])
  PROVE  Maps
<1>1. Sole' BY DEF Sole, clientVars
<1>2. UNCHANGED Cas!vars BY DEF Cas!vars, clientVars
<1> QED BY <1>1, <1>2 DEF Maps

LEMMA OneMaps ==
  ASSUME Inv, Sole, UNCHANGED <<live, gen, log, clientVars>>, NEW c \in Client, NEW k \in Handlers,
         Lone(h[c]) => Lone(k), h' = [h EXCEPT ![c] = k]
  PROVE  Maps
<1>1. ASSUME NEW d \in Client, Lone(h[d]) PROVE Lone(h'[d])
  <2>1. CASE d = c
    <3>1. h'[d] = k BY <2>1 DEF Inv, Clients
    <3> QED BY <1>1, <2>1, <3>1
  <2>2. CASE d # c BY <1>1, <2>2 DEF Inv, Clients
  <2> QED BY <2>1, <2>2
<1> QED BY <1>1, QuietMaps

LEMMA RefusedMaps ==
  ASSUME Inv, Sole, NEW c \in Client, Refused(c)
  PROVE  Maps
  BY OneMaps, FreeFits, FreeIsLone DEF Refused, Done, chatVars

\* An erase takes all events from the log and from what clients have of it.
LEMMA EraseMaps ==
  ASSUME Inv, Sole, live, NEW k \in [Client -> Handlers],
         \A c \in Client : Lone(h[c]) => Lone(k[c]), Erase(k)
  PROVE  Maps
<1>1. /\ live' = FALSE /\ log' = <<>> /\ h' = Notify(k)
      /\ seen' = [c \in Client |-> {}] /\ UNCHANGED <<gen, cursor, fresh>>
  BY DEF Erase
<1>2. ASSUME NEW c \in Client, Lone(h[c]) PROVE Lone(h'[c])
  <2>1. h'[c] = IF k[c].pc = "waiting" THEN [k[c] EXCEPT !.pc = "ready"] ELSE k[c]
    BY <1>1 DEF Notify
  <2>2. Lone(k[c]) BY <1>2
  <2> QED BY <2>1, <2>2 DEF Handlers, Lone
<1>3. Sole' BY <1>1, <1>2 DEF Sole
<1>4. [i \in DOMAIN log |-> log[i].by]' = <<>> BY <1>1
<1>5. Cas!Close BY <1>1, <1>4 DEF Cas!Close, Cas!Nothing
<1> QED BY <1>3, <1>5 DEF Maps, Cas!Next

LEMMA ExpireMaps ==
  ASSUME Inv, Sole, NEW c \in Client, NEW k \in Handlers, Lone(h[c]) => Lone(k),
         Expire([h EXCEPT ![c] = k])
  PROVE  Maps
<1> DEFINE hk == [h EXCEPT ![c] = k]
<1>1. CASE Overdue
  <2>1. hk \in [Client -> Handlers] /\ \A d \in Client : Lone(h[d]) => Lone(hk[d])
    BY DEF Inv, Clients
  <2>2. Erase(hk) /\ live BY <1>1 DEF Expire, Overdue
  <2> HIDE DEF hk
  <2> QED BY <2>1, <2>2, EraseMaps
<1>2. CASE ~Overdue BY <1>2, OneMaps DEF Expire, chatVars
<1> QED BY <1>1, <1>2

\* A reply teaches its client events that are there, or none.
LEMMA AnswerMaps ==
  ASSUME Inv, Sole, NEW c \in Client, NEW lasts, Answer(c, lasts),
         \A n \in lasts : n \in Seqs /\ ((live /\ n <= HeadSeq) \/ n <= h[c].since)
  PROVE  Maps
<1>1. CASE UNCHANGED clientVars
  BY <1>1, OneMaps, FreeFits, FreeIsLone DEF Answer, Done, chatVars
<1>2. CASE \E last \in lasts :
             /\ cursor' = [cursor EXCEPT ![c] = last]
             /\ fresh' = [fresh EXCEPT ![c] =
                  IF h[c].since = -1 \/ h[c].lin = gen THEN gen ELSE 0]
             /\ seen' = [seen EXCEPT ![c] = @ \cup (h[c].since + 1 .. last)]
  <2>1. PICK last \in lasts :
             /\ cursor' = [cursor EXCEPT ![c] = last]
             /\ fresh' = [fresh EXCEPT ![c] =
                  IF h[c].since = -1 \/ h[c].lin = gen THEN gen ELSE 0]
             /\ seen' = [seen EXCEPT ![c] = @ \cup (h[c].since + 1 .. last)]
    BY <1>2
  <2>2. /\ h' = [h EXCEPT ![c] = Free] /\ UNCHANGED chatVars
        /\ last \in Seqs /\ ((live /\ last <= HeadSeq) \/ last <= h[c].since)
    BY DEF Answer, Done
  <2>3. /\ h[c] \in Handlers /\ h[c].since \in Int /\ h[c].since >= -1 /\ last \in Int
        /\ last >= -1 /\ Fit(h[c], c) /\ h[c].lin \in Nat /\ HeadSeq \in Int /\ gen \in Nat
        /\ HeadSeq = Len(log) - 1 /\ seen \in [Client -> SUBSET Nat]
        /\ cursor \in [Client -> Seqs] /\ fresh \in [Client -> Nat]
        /\ h \in [Client -> Handlers]
    BY <2>2, Numbers DEF Inv, Clients, Handlers, Seqs
  <2>4. Sole'
    <3> SUFFICES ASSUME gen <= 1, NEW d \in Client
                 PROVE  (fresh'[d] = 0 => cursor'[d] = -1) /\ Lone(h'[d])
      BY <2>2 DEF Sole, chatVars
    <3>1. (fresh[d] = 0 => cursor[d] = -1) /\ Lone(h[d]) /\ Lone(h[c]) BY DEF Sole
    <3>2. CASE d # c BY <2>1, <2>2, <2>3, <3>1, <3>2
    <3>3. CASE d = c
      <4>1. /\ cursor'[c] = last /\ h'[c] = Free
            /\ fresh'[c] = IF h[c].since = -1 \/ h[c].lin = gen THEN gen ELSE 0
        BY <2>1, <2>2, <2>3
      <4>2. ASSUME fresh'[c] = 0 PROVE last = -1
        <5>1. h[c].lin = 0 => h[c].since = -1 BY <3>1 DEF Lone
        <5>2. h[c].lin <= gen BY <2>3 DEF Fit, Dated
        <5>3. gen = 0 BY <2>3, <4>1, <4>2, <5>1, <5>2
        <5>4. ~live BY <5>3 DEF Inv, Row
        <5> QED BY <2>2, <2>3, <5>1, <5>2, <5>3, <5>4
      <4> QED BY <3>3, <4>1, <4>2, FreeIsLone
    <3> QED BY <3>2, <3>3
  <2>5. UNCHANGED <<live, [i \in DOMAIN log |-> log[i].by]>> BY <2>2 DEF chatVars
  <2>6. CASE last <= h[c].since
    <3>1. (h[c].since + 1 .. last) = {} BY <2>3, <2>6
    <3>2. seen' = seen BY <2>1, <2>3, <3>1
    <3> QED BY <2>4, <2>5, <3>2 DEF Maps, Cas!vars
  <2>7. CASE live /\ last <= HeadSeq
    <3>1. Len([i \in DOMAIN log |-> log[i].by]) = Len(log) BY DEF Inv, Row
    <3>2. (h[c].since + 1 .. last) \in SUBSET (0 .. (Len(log) - 1)) BY <2>3, <2>7
    <3>3. Cas!Learn(c) BY <2>1, <2>5, <2>7, <3>1, <3>2 DEF Cas!Learn
    <3> QED BY <2>4, <3>3 DEF Maps, Cas!Next
  <2> QED BY <2>2, <2>6, <2>7
<1> QED BY <1>1, <1>2 DEF Answer

LEMMA PageMaps ==
  ASSUME Inv, Sole, NEW c \in Client, live, Answer(c, PageLasts(h[c].since))
  PROVE  Maps
<1>1. h[c].since \in Seqs BY DEF Inv, Clients, Handlers
<1>2. \A n \in PageLasts(h[c].since) : n \in Seqs /\ n <= HeadSeq BY <1>1, PagesFit
<1> QED BY <1>2, AnswerMaps

LEMMA RoundMaps ==
  ASSUME Inv, Sole, NEW c \in Client, PollRound(c)
  PROVE  Maps
<1>1. CASE Refused(c) BY <1>1, RefusedMaps
<1>2. CASE live /\ Answer(c, PageLasts(h[c].since)) BY <1>2, PageMaps
<1>3. CASE /\ h' = [h EXCEPT ![c].pc = "waiting", ![c].head = HeadSeq]
           /\ UNCHANGED <<chatVars, clientVars>>
  <2> DEFINE k == [h[c] EXCEPT !.pc = "waiting", !.head = HeadSeq]
  <2>1. h[c] \in Handlers BY DEF Inv, Clients
  <2>2. k \in Handlers BY <2>1, Numbers DEF Handlers, Pcs
  <2>3. k.lin = h[c].lin /\ k.since = h[c].since BY <2>1 DEF Handlers
  <2>4. h' = [h EXCEPT ![c] = k] BY <1>3 DEF Inv, Clients
  <2> HIDE DEF k
  <2>5. Lone(h[c]) => Lone(k) BY <2>3 DEF Lone
  <2> QED BY <1>3, <2>2, <2>4, <2>5, OneMaps DEF chatVars
<1> QED BY <1>1, <1>2, <1>3 DEF PollRound

LEMMA EmptyPageMaps ==
  ASSUME Inv, Sole, NEW c \in Client, h[c].pc \in {"waiting", "ready"}, EmptyPage(c)
  PROVE  Maps
<1>1. h[c].head \in Seqs /\ h[c].head <= h[c].since
  BY DEF Inv, Clients, Handlers, Fit, Dated
<1> QED BY <1>1, AnswerMaps DEF EmptyPage

LEMMA UnfitMaps == ASSUME Inv, Sole, NEW c \in Client, Unfit(c) PROVE Maps
  BY RefusedMaps, PageMaps DEF Unfit

LEMMA GotoMaps ==
  ASSUME Inv, Sole, NEW c \in Client, NEW pc \in Pcs \ {"waiting", "ready"},
         \/ h' = Goto(c, pc) /\ UNCHANGED <<chatVars, clientVars>>
         \/ Expire(Goto(c, pc))
  PROVE  Maps
<1> DEFINE k == [h[c] EXCEPT !.pc = pc, !.gen = h[c].gen]
<1>1. Goto(c, pc) = [h EXCEPT ![c] = k] BY GotoMoves
<1>2. k \in Handlers BY GotoFits
<1>3. Lone(h[c]) => Lone(k) BY DEF Inv, Clients, Handlers, Lone
<1> HIDE DEF k
<1> QED BY <1>1, <1>2, <1>3, OneMaps, ExpireMaps DEF chatVars

LEMMA ArriveMaps ==
  ASSUME Inv, Sole, NEW c \in Client, NEW op \in Ops, NEW since \in {cursor[c], -1},
         Arrive(c, op, since)
  PROVE  Maps
<1> DEFINE k == [pc |-> "arrived", op |-> op, since |-> since, lin |-> fresh[c], gen |-> 0,
                 head |-> -1]
<1>1. k \in Handlers BY Numbers DEF Inv, Clients, Handlers, Pcs
<1>2. gen <= 1 => Lone(k) BY DEF Sole, Lone
<1>3. Expire([h EXCEPT ![c] = k]) BY DEF Arrive
<1> HIDE DEF k
<1>4. CASE gen <= 1 BY <1>1, <1>2, <1>3, <1>4, ExpireMaps
<1>5. CASE ~(gen <= 1)
  <2>1. gen' = gen BY <1>3 DEF Expire, Erase, chatVars
  <2> QED BY <1>5, <2>1 DEF Maps, Sole
<1> QED BY <1>4, <1>5

LEMMA DeleteMaps == ASSUME Inv, Sole, NEW c \in Client, Delete(c) PROVE Maps
<1>1. CASE Refused(c) BY <1>1, RefusedMaps
<1>2. CASE live /\ Erase([h EXCEPT ![c] = Free])
  <2> DEFINE k == [h EXCEPT ![c] = Free]
  <2>1. k \in [Client -> Handlers] BY FreeFits DEF Inv, Clients
  <2>2. \A d \in Client : Lone(h[d]) => Lone(k[d]) BY FreeIsLone DEF Inv, Clients
  <2>3. Erase(k) BY <1>2
  <2> HIDE DEF k
  <2> QED BY <1>2, <2>1, <2>2, <2>3, EraseMaps
<1> QED BY <1>1, <1>2 DEF Delete

LEMMA AuthorizeMaps == ASSUME Inv, Sole, NEW c \in Client, Authorize(c) PROVE Maps
<1>1. CASE Refused(c) BY <1>1, RefusedMaps
<1>2. CASE /\ h' = [h EXCEPT ![c].gen = gen,
                             ![c].pc = IF h[c].op = "post" THEN "body" ELSE "linkbody"]
           /\ UNCHANGED <<chatVars, clientVars>>
  <2>1. PICK pc \in {"body", "linkbody"} :
          pc = (IF h[c].op = "post" THEN "body" ELSE "linkbody")
    OBVIOUS
  <2>2. pc \in Pcs \ {"waiting", "ready"} BY DEF Pcs
  <2> DEFINE k == [h[c] EXCEPT !.pc = pc, !.gen = gen]
  <2>3. h' = [h EXCEPT ![c] = k] BY <1>2, <2>1, <2>2, GotoMoves
  <2>4. k \in Handlers BY <2>2, GotoFits
  <2>5. Lone(h[c]) => Lone(k) BY DEF Inv, Clients, Handlers, Lone
  <2> HIDE DEF k
  <2> QED BY <1>2, <2>3, <2>4, <2>5, OneMaps DEF chatVars
<1> QED BY <1>1, <1>2 DEF Authorize

\* The sender of an event that fits has the whole log.
LEMMA AppendMaps ==
  ASSUME Inv, Sole, NEW c \in Client, Fits(c), Len(log) < MaxEvents, Append_(c)
  PROVE  Maps
<1> DEFINE e == [by |-> c, gen |-> h[c].gen, informed |-> Informed(c)]
           lin == IF h[c].lin = gen \/ h[c].since = -1 THEN gen ELSE 0
           k == [h[c] EXCEPT !.pc = "posted", !.since = Len(log), !.lin = lin]
           hk == [h EXCEPT ![c] = k]
           by == [i \in DOMAIN log |-> log[i].by]
<1>1. /\ live /\ HeadSeq = h[c].since /\ h[c] \in Handlers /\ Fit(h[c], c)
      /\ h \in [Client -> Handlers] /\ Len(log) \in Nat /\ HeadSeq = Len(log) - 1
      /\ gen \in Nat /\ gen >= 1 /\ log \in Seq(Entries)
  BY Numbers DEF Inv, Row, Clients, Fits
<1>2. /\ log' = Append(log, e) /\ seen' = [seen EXCEPT ![c] = @ \cup {Len(log)}]
      /\ UNCHANGED <<live, gen, cursor, fresh>>
  BY DEF Append_
<1>3. h' = Notify(hk)
  <2>1. [h EXCEPT ![c] = [@ EXCEPT !.pc = "posted", !.since = Len(log),
                !.lin = IF h[c].lin = gen \/ h[c].since = -1 THEN gen ELSE 0]] = hk
    BY <1>1
  <2> QED BY <2>1 DEF Append_
<1>4. k \in Handlers /\ k.lin = lin
  <2>1. Len(log) \in Seqs BY <1>1, ChatAssumption DEF Seqs
  <2>2. lin \in Nat BY <1>1
  <2> QED BY <1>1, <2>1, <2>2 DEF Handlers, Pcs
<1>5. ASSUME gen <= 1 PROVE lin = gen /\ 0 .. HeadSeq \subseteq seen[c]
  <2>1. Lone(h[c]) BY <1>5 DEF Sole
  <2>2. h[c].lin <= gen /\ h[c].lin \in Nat BY <1>1 DEF Fit, Dated, Handlers
  <2>3. CASE h[c].lin = gen BY <1>1, <2>3 DEF Fit
  <2>4. CASE h[c].lin # gen
    <3>1. h[c].since = -1 BY <1>1, <1>5, <2>1, <2>2, <2>4 DEF Lone
    <3>2. 0 .. -1 = {} OBVIOUS
    <3> QED BY <1>1, <3>1, <3>2
  <2> QED BY <2>3, <2>4
<1>6. Sole'
  <2> SUFFICES ASSUME gen <= 1, NEW d \in Client PROVE Lone(h'[d])
    BY <1>2 DEF Sole
  <2>1. h'[d] = IF hk[d].pc = "waiting" THEN [hk[d] EXCEPT !.pc = "ready"] ELSE hk[d]
    BY <1>3 DEF Notify
  <2>2. hk[d] \in Handlers /\ Lone(hk[d])
    <3>1. CASE d = c
      <4>1. hk[d] = k BY <1>1, <3>1
      <4>2. k.lin = gen BY <1>4, <1>5
      <4> HIDE DEF k
      <4> QED BY <1>1, <1>4, <4>1, <4>2 DEF Lone
    <3>2. CASE d # c
      <4>1. hk[d] = h[d] BY <1>1, <3>2
      <4> QED BY <1>1, <4>1 DEF Sole
    <3> QED BY <3>1, <3>2
  <2> HIDE DEF hk
  <2> QED BY <2>1, <2>2 DEF Handlers, Lone
<1> HIDE DEF e
<1>7. e.by = c /\ e \in Entries
  BY <1>1 DEF e, Entries, Handlers, Informed
<1>8. Len(by) = Len(log) /\ DOMAIN by = DOMAIN log BY <1>1
<1>9. by' = Append(by, c)
  <2>1. Len(log') = Len(log) + 1 /\ log' \in Seq(Entries) BY <1>1, <1>2, <1>7
  <2>2. DOMAIN log' = 1 .. Len(log) + 1 /\ DOMAIN log = 1 .. Len(log) BY <1>1, <2>1
  <2>3. by \in Seq(Client)
    <3>1. ASSUME NEW i \in 1 .. Len(log) PROVE log[i].by \in Client
      <4>1. log[i] \in Entries BY <1>1
      <4> QED BY <4>1 DEF Entries
    <3> QED BY <1>1, <2>2, <3>1
  <2>4. DOMAIN Append(by, c) = 1 .. Len(log) + 1 BY <1>1, <1>8, <2>3
  <2>5. ASSUME NEW i \in 1 .. Len(log) + 1 PROVE log'[i].by = Append(by, c)[i]
    <3>1. CASE i = Len(log) + 1 BY <1>1, <1>2, <1>7, <1>8, <2>3, <3>1
    <3>2. CASE i # Len(log) + 1
      <4>1. i \in DOMAIN log /\ log'[i] = log[i] BY <1>1, <1>2, <1>7, <2>2, <2>5, <3>2
      <4>2. Append(by, c)[i] = by[i] BY <1>1, <1>8, <2>2, <2>3, <4>1
      <4> QED BY <4>1, <4>2
    <3> QED BY <3>1, <3>2
  <2>6. Append(by, c) = [i \in 1 .. Len(log) + 1 |-> Append(by, c)[i]] BY <1>1, <1>8, <2>3, <2>4
  <2>7. by' = [i \in DOMAIN log' |-> log'[i].by] OBVIOUS
  <2> HIDE DEF by
  <2> QED BY <2>2, <2>5, <2>6, <2>7
<1>10. ASSUME gen <= 1 PROVE Cas!Post(c)
  <2>1. 0 .. (Len(by) - 1) \subseteq seen[c] BY <1>1, <1>5, <1>8, <1>10
  <2>2. Len(by) < MaxEvents BY <1>8
  <2> QED BY <1>1, <1>2, <1>8, <1>9, <2>1, <2>2 DEF Cas!Post
<1> QED BY <1>6, <1>10 DEF Maps, Cas!Next

LEMMA LinkMaps == ASSUME Inv, Sole, NEW c \in Client, Link(c) PROVE Maps
<1>1. CASE Refused(c) BY <1>1, RefusedMaps
<1>2. CASE Done(c) /\ UNCHANGED <<live, gen, log, old, alarm, clientVars>>
  BY <1>2, OneMaps, FreeFits, FreeIsLone DEF Done
<1> QED BY <1>1, <1>2 DEF Link

LEMMA CreateMaps == ASSUME Inv, Sole, Create PROVE Maps
<1>1. /\ ~live /\ live' = TRUE /\ gen' = gen + 1 /\ gen \in Nat
      /\ UNCHANGED <<log, h, cursor, fresh, seen>>
  BY Numbers DEF Create, clientVars
<1>2. Sole' BY <1>1 DEF Sole
<1>3. UNCHANGED [i \in DOMAIN log |-> log[i].by] BY <1>1
<1>4. Cas!Open BY <1>1, <1>3 DEF Cas!Open, Inv, Row
<1> QED BY <1>2, <1>4 DEF Maps, Cas!Next

LEMMA AlarmMaps == ASSUME Inv, Sole, AlarmFires \/ AlarmEnds \/ Tick PROVE Maps
<1>1. CASE AlarmFires /\ Overdue
  BY <1>1, EraseMaps DEF AlarmFires, Overdue, Inv, Clients
<1>2. CASE (AlarmFires /\ ~Overdue) \/ AlarmEnds \/ Tick
  BY <1>2, QuietMaps DEF AlarmFires, AlarmEnds, Tick
<1> QED BY <1>1, <1>2

LEMMA RestartMaps == ASSUME Inv, Sole, Restart PROVE Maps
  BY QuietMaps, FreeIsLone DEF Restart

LEMMA NextMaps == Inv /\ Sole /\ [Next]_vars => Maps
<1> SUFFICES ASSUME Inv, Sole, [Next]_vars PROVE Maps OBVIOUS
<1>1. ASSUME NEW c \in Client, Resume(c) PROVE Maps
  BY <1>1, RoundMaps, EmptyPageMaps DEF Resume, At
<1>2. ASSUME NEW c \in Client, \E since \in {cursor[c], -1} : Arrive(c, "poll", since)
      PROVE  Maps
  BY <1>2, ArriveMaps DEF Ops
<1>3. ASSUME NEW c \in Client, \E op \in Ops \ {"poll"} : Arrive(c, op, cursor[c])
      PROVE  Maps
  BY <1>3, ArriveMaps
<1>4. ASSUME NEW c \in Client, Poll(c) \/ Posted(c) PROVE Maps
  BY <1>4, RoundMaps DEF Poll, Posted
<1>5. ASSUME NEW c \in Client, TimeOut(c) PROVE Maps
  BY <1>5, EmptyPageMaps DEF TimeOut, At
<1>6. {"screen", "commit", "linking"} \subseteq Pcs \ {"waiting", "ready"} BY DEF Pcs
<1>7. ASSUME NEW c \in Client, Body(c) PROVE Maps
  BY <1>6, <1>7, UnfitMaps, GotoMaps DEF Body
<1>8. ASSUME NEW c \in Client, Screen(c) \/ LinkBody(c) PROVE Maps
  BY <1>6, <1>8, RefusedMaps, GotoMaps DEF Screen, LinkBody
<1>9. ASSUME NEW c \in Client, Commit(c) PROVE Maps
  BY <1>9, UnfitMaps, AppendMaps DEF Commit
<1>10. ASSUME NEW c \in Client, Event(c) PROVE Maps
  BY <1>2, <1>3, <1>4, <1>5, <1>7, <1>8, <1>9, <1>10, DeleteMaps, AuthorizeMaps, LinkMaps
  DEF Event
<1>11. CASE UNCHANGED vars
  BY <1>11, QuietMaps DEF vars, chatVars
<1> QED BY <1>1, <1>10, <1>11, CreateMaps, AlarmMaps, RestartMaps DEF Next

\* A chat that is created once implements the abstract log, for any clients and
\* limits: whatever posts, polls, expiries, deletions and evictions overlap, an
\* event is added only by a client that had received all before it, and events
\* go only all together, from every client's view too (check, append, erase).
THEOREM ChatImplementsCasLog == Spec /\ [](gen <= 1) => ImplementsCasLog
<1>1. Init => Cas!Init /\ Sole
  <2> SUFFICES ASSUME Init PROVE Cas!Init /\ Sole OBVIOUS
  <2>1. [i \in DOMAIN log |-> log[i].by] = <<>> BY DEF Init
  <2>2. Sole BY FreeIsLone DEF Init, Sole
  <2> QED BY <2>1, <2>2 DEF Init, Cas!Init, Cas!Nothing
<1>2. Inv /\ Sole /\ [Next]_vars => Sole' BY NextMaps DEF Maps
<1>3. Inv /\ Sole /\ gen <= 1 /\ [Next]_vars => [Cas!Next]_(Cas!vars)
  BY NextMaps DEF Maps
<1> QED BY <1>1, <1>2, <1>3, ChatInv, PTL DEF Spec, ImplementsCasLog, Cas!Spec
=============================================================================
