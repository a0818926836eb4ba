------------------------- MODULE CreationJournalProofs -------------------------
(***************************************************************************)
(* Proofs about CreationJournal, for any chats, clients, environments,     *)
(* limits, crashes and redeployments: an attempt creates and is charged    *)
(* once at most, an acknowledged client owns its chat, and a closed hourly *)
(* window counted exactly the chats of its hour.                           *)
(*                                                                         *)
(* The inductive invariant follows an attempt through its durable traces:  *)
(* the journal row at the gate, the receipt and the channel at the Chat    *)
(* (Rows, Channels), what the one handler of the gate knows of it (Gate),  *)
(* and what the report of the open window may still miss (Reports).        *)
(***************************************************************************)
EXTENDS CreationJournal, FiniteSetTheorems, WellFoundedInduction, TLAPS

Attempt == [chat: Chats, client: Clients, mode: {0, 1}, at: 0 .. MaxHours, journaled: BOOLEAN]
Channel == [gen: 0 .. MaxEvents, auth: Clients \cup {None}]
Handler == [pc: {"idle", "call", "answer", "replay"}, job: {"none", "create", "alarm", "cron"},
            ev: 0 .. MaxEvents, by: Clients \cup {None}, mode: {0, 1}, tokens: Nat,
            code: Codes, todo: SUBSET Events]

\* Events are numbered as they are used.
Numbered == \E n \in 0 .. MaxEvents : Used = 1 .. n
Typed ==
  /\ env \in Env /\ alarm \in BOOLEAN
  /\ Numbered
  /\ \A e \in Used : attempt[e] \in Attempt
  /\ journal \in [Events -> {"none", "pending", "recorded"}]
  /\ tokens \in [Clients -> 0 .. Capacity]
  /\ births \in [Events -> {0, 1}] /\ charges \in [Events -> {0, 1}]
  /\ hour \in 0 .. MaxHours /\ window \in 0 .. hour

\* The row of an attempt against its chat and its charge.
Row(e) ==
  /\ e \notin Used => births[e] = 0 /\ charges[e] = 0 /\ journal[e] = "none"
  /\ charges[e] = 1 => births[e] = 1 /\ journal[e] # "pending"
  /\ journal[e] = "recorded" => births[e] = 1
  /\ e \in Used /\ ~attempt[e].journaled => journal[e] = "none"
  /\ e \in Used /\ attempt[e].journaled /\ births[e] = 1 => journal[e] # "none"
Rows == \A e \in Events : Row(e)

\* A channel of chat c, live or in its backup, is of an attempt that made it.
OfAttempt(c, ch) ==
  ch # NoChannel =>
    /\ ch.gen \in Used /\ births[ch.gen] = 1
    /\ attempt[ch.gen].chat = c /\ ch.auth = attempt[ch.gen].client
Receipted(c) == {e \in Used : attempt[e].chat = c /\ attempt[e].journaled /\ births[e] = 1}
Channels ==
  /\ chat \in [Chats -> [live: Channel, record: BOOLEAN, backup: Channel]]
  /\ \A c \in Chats : OfAttempt(c, chat[c].live) /\ OfAttempt(c, chat[c].backup)
  /\ receipts = [c \in Chats |-> Receipted(c)]

\* What the gate's handler knows of the attempt it works for.
Working ==
  LET e == gate.ev
  IN  /\ e \in Used /\ gate.by = attempt[e].client /\ e \notin gate.todo
      /\ charges[e] = 0
      /\ attempt[e].journaled => journal[e] = "pending"
      /\ gate.job # "create" => attempt[e].journaled
Gate ==
  /\ gate \in Handler /\ gate.todo \subseteq Pending
  /\ gate.pc = "idle" => gate = Idle
  /\ gate.pc \in {"call", "answer"} => Working
  /\ gate.pc = "call" /\ ~attempt[gate.ev].journaled => births[gate.ev] = 0
  /\ gate.pc = "answer" =>
       /\ gate.code = "204" => births[gate.ev] = 1
       /\ gate.code \in {"409", "412"} /\ attempt[gate.ev].journaled => births[gate.ev] = 0
  /\ gate.job = "create" => gate.pc # "replay" /\ gate.todo = {} /\ gate.tokens > 0

\* A window is counted when none of its rows is pending, and none becomes so.
Reports ==
  /\ prep # NoPrep =>
       /\ prep = [win |-> window, rows |-> WindowRows] /\ window < hour
       /\ \A e \in Pending : attempt[e].at # window
  /\ \A e \in Pending : attempt[e].at >= window
  /\ \A e \in Used : journal[e] = "recorded" /\ attempt[e].at < window => e \in counted
  /\ \A e \in counted : e \in Events /\ births[e] = 1

Acked == \A ack \in acked :
  /\ ack = <<ack[1], ack[2]>> /\ ack[2] \in Used
  /\ births[ack[2]] = 1 /\ ack[1] = attempt[ack[2]].client

Inv == Typed /\ Rows /\ Channels /\ Gate /\ Reports /\ Acked

-----------------------------------------------------------------------------
(* Least elements, numbers and frames *)

LEMMA MinIn ==
  ASSUME NEW S \in SUBSET Nat, S # {}
  PROVE  Min(S) \in S
<1> DEFINE Smaller == OpToRel(<, Nat)
<1>1. \E x \in S : \A y \in S : ~(<<y, x>> \in Smaller)
  BY NatLessThanWellFounded, WFMin
<1>2. \A x, y \in Nat : <<y, x>> \in Smaller <=> y < x
  BY DEF OpToRel
<1> HIDE DEF Smaller
<1>3. \E x \in S : \A y \in S : ~(y < x)
  BY <1>1, <1>2
<1>4. \E x \in S : \A y \in S : x <= y
  BY <1>3
<1> QED BY <1>4 DEF Min

LEMMA Capped ==
  ASSUME NEW n \in Nat
  PROVE  Min({Capacity, n}) \in 0 .. Capacity
<1>1. {Capacity, n} \in SUBSET Nat /\ {Capacity, n} # {}
  BY JournalAssumption
<1>2. Min({Capacity, n}) \in {Capacity, n}
  BY <1>1, MinIn
<1>3. \E x \in {Capacity, n} : \A y \in {Capacity, n} : x <= y
  BY JournalAssumption
<1>4. \A y \in {Capacity, n} : Min({Capacity, n}) <= y
  BY <1>3 DEF Min
<1> QED BY <1>2, <1>4, JournalAssumption

\* An unused event is the next number.
LEMMA FreshIsNext ==
  ASSUME Numbered, Fresh \in Events
  PROVE  Fresh \notin Used /\ Used \cup {Fresh} = 1 .. Fresh /\ Fresh \in 0 .. MaxEvents
<1>1. PICK n \in 0 .. MaxEvents : Used = 1 .. n
  BY DEF Numbered
<1>2. Cardinality(1 .. n) = n
  BY <1>1, FS_Interval, JournalAssumption
<1>3. Fresh = n + 1
  BY <1>1, <1>2 DEF Fresh
<1> QED BY <1>1, <1>3, JournalAssumption DEF Events

LEMMA UsedEvents == ASSUME Numbered PROVE Used \subseteq Events
BY JournalAssumption DEF Numbered, Events

\* What only the traces of attempts decide stays while these do.
LEMMA SameTraces ==
  ASSUME Rows, Channels, Acked, UNCHANGED <<attempt, journal, births, charges, chat, receipts, acked>>
  PROVE  Rows' /\ Channels' /\ Acked'
BY DEF Rows, Row, Used, Channels, OfAttempt, Receipted, Acked

LEMMA SameReports ==
  ASSUME Reports, UNCHANGED <<attempt, journal, births, prep, window, counted>>,
         hour \in Nat, hour' \in Nat, hour <= hour', window \in Nat
  PROVE  Reports'
BY DEF Reports, WindowRows, Pending, Used

LEMMA SameGate ==
  ASSUME Gate, UNCHANGED <<attempt, journal, births, charges, gate>>
  PROVE  Gate'
BY DEF Gate, Working, Pending, Used, Handler

LEMMA IdleGate ==
  ASSUME gate' = Idle
  PROVE  Gate'
<1>1. Idle \in Handler
  BY JournalAssumption DEF Idle, Handler, None, Codes
<1> QED BY <1>1 DEF Gate, Idle, Pending, Handler

LEMMA InvInit == Init => Inv
<1> SUFFICES ASSUME Init PROVE Inv
  OBVIOUS
<1>1. Used = {} /\ Used = 1 .. 0
  BY DEF Init, Empty, Used
<1>2. Typed
  <2>1. Numbered
    BY <1>1, JournalAssumption DEF Numbered
  <2>2. \A e \in Used : attempt[e] \in Attempt
    BY <1>1
  <2>3. env \in Env /\ alarm \in BOOLEAN
    BY DEF Init, Empty, Boot, Env
  <2>4. /\ journal \in [Events -> {"none", "pending", "recorded"}]
        /\ births \in [Events -> {0, 1}] /\ charges \in [Events -> {0, 1}]
    BY DEF Init, Empty
  <2>5. tokens \in [Clients -> 0 .. Capacity] /\ hour \in 0 .. MaxHours /\ window \in 0 .. hour
    BY JournalAssumption DEF Init, Empty
  <2> QED BY <2>1, <2>2, <2>3, <2>4, <2>5 DEF Typed
<1>3. Rows
  BY <1>1 DEF Init, Empty, Rows, Row
<1>4. Channels
  <2>1. NoChannel \in Channel
    BY JournalAssumption DEF NoChannel, Channel, None
  <2>2. \A c \in Chats : Receipted(c) = {}
    BY <1>1 DEF Receipted
  <2> QED BY <2>1, <2>2 DEF Init, Empty, Channels, OfAttempt
<1>5. Gate
  <2>1. Idle \in Handler
    BY JournalAssumption DEF Idle, Handler, None, Codes
  <2> QED BY <2>1 DEF Init, Empty, Gate, Idle, Pending
<1>6. Reports
  BY <1>1 DEF Init, Empty, Reports, Pending
<1>7. Acked
  BY DEF Init, Empty, Acked
<1> QED BY <1>2, <1>3, <1>4, <1>5, <1>6, <1>7 DEF Inv

-----------------------------------------------------------------------------
(* The gate: a create request *)

\* A retry changes no trace: it takes over a pending row of the same client.
LEMMA RetryBegins ==
  ASSUME Inv, NEW a \in Clients, NEW c \in Chats, NEW mode \in Routed, BeginCreate(a, c, mode),
         env.reports, PendingFor(c) # {}
  PROVE  Inv'
<1> DEFINE e == CHOOSE p \in PendingFor(c) : TRUE
<1>1. e \in PendingFor(c) /\ e \in Pending /\ e \in Used /\ journal[e] = "pending"
  BY DEF PendingFor, Pending
<1>2. attempt[e].client = a
  BY <1>1 DEF BeginCreate
<1>3. e \in Events /\ attempt' = attempt
  BY DEF BeginCreate
<1>4. journal' = [journal EXCEPT ![e] = IF env.reports THEN "pending" ELSE @]
  BY DEF BeginCreate
<1>5. gate' = [Idle EXCEPT !.pc = "call", !.job = "create", !.ev = e, !.by = a,
                           !.mode = mode, !.tokens = tokens[a]]
  BY DEF BeginCreate
<1>6. mode \in {0, 1} /\ tokens[a] \in Nat /\ tokens[a] > 0
  BY JournalAssumption DEF Routed, Boot, Env, Inv, Typed, BeginCreate
<1> HIDE DEF e
<1>7. journal' = journal
  BY <1>1, <1>4 DEF Inv, Typed
<1>8. attempt[e].journaled /\ charges[e] = 0
  BY <1>1, <1>3 DEF Inv, Rows, Row, Typed
<1>9. gate' \in Handler /\ gate'.todo = {} /\ gate'.ev = e /\ gate'.by = a /\ gate'.pc = "call"
      /\ gate'.job = "create" /\ gate'.tokens > 0
  <2>1. e \in 0 .. MaxEvents
    BY <1>3, JournalAssumption DEF Events
  <2> QED BY <1>5, <1>6, <2>1, JournalAssumption DEF Idle, Handler, Codes, None
<1>10. UNCHANGED <<env, tokens, prep, window, chat, receipts, births, hour, charges, acked, counted>>
  BY DEF BeginCreate, chatVars, history
<1>11. alarm' \in BOOLEAN
  BY DEF BeginCreate, Inv, Typed, Env
<1>12. Gate'
  BY <1>1, <1>2, <1>3, <1>7, <1>8, <1>9, <1>10 DEF Gate, Working, Pending, Used
<1>13. Typed'
  BY <1>3, <1>7, <1>10, <1>11 DEF Inv, Typed, Numbered, Used
<1>14. Reports'
  BY <1>3, <1>7, <1>10, SameReports, JournalAssumption DEF Inv, Typed
<1> QED BY <1>3, <1>7, <1>10, <1>12, <1>13, <1>14, SameTraces DEF Inv

\* A new attempt has left no trace before.
LEMMA FreshBegins ==
  ASSUME Inv, NEW a \in Clients, NEW c \in Chats, NEW mode \in Routed, BeginCreate(a, c, mode),
         ~(env.reports /\ PendingFor(c) # {})
  PROVE  Inv'
<1> DEFINE r == [chat |-> c, client |-> a, mode |-> mode, at |-> hour, journaled |-> env.reports]
<1>1. /\ Fresh \in Events
      /\ attempt' = [x \in Used \cup {Fresh} |-> IF x = Fresh THEN r ELSE attempt[x]]
      /\ journal' = [journal EXCEPT ![Fresh] = IF env.reports THEN "pending" ELSE @]
      /\ gate' = [Idle EXCEPT !.pc = "call", !.job = "create", !.ev = Fresh, !.by = a,
                              !.mode = mode, !.tokens = tokens[a]]
  BY DEF BeginCreate
<1>2. mode \in {0, 1} /\ tokens[a] \in Nat /\ tokens[a] > 0 /\ hour \in 0 .. MaxHours
  BY JournalAssumption DEF Routed, Boot, Env, Inv, Typed, BeginCreate
<1>3. env.reports \in BOOLEAN /\ env.reports' = env.reports
  BY DEF Inv, Typed, Env, BeginCreate
<1>4. Fresh \notin Used /\ Used \cup {Fresh} = 1 .. Fresh /\ Fresh \in 0 .. MaxEvents
  BY <1>1, FreshIsNext DEF Inv, Typed
<1>5. PICK e \in Events : e = Fresh
  BY <1>1
<1>6. r \in Attempt /\ r.chat = c /\ r.client = a /\ r.at = hour /\ r.journaled = env.reports
  BY <1>2, <1>3 DEF Attempt
<1> HIDE DEF r
<1>7. Used' = Used \cup {e} /\ e \notin Used /\ attempt'[e] = r
  BY <1>1, <1>4, <1>5 DEF Used
<1>8. \A x \in Used : attempt'[x] = attempt[x]
  BY <1>1, <1>5, <1>7
<1>9. /\ births[e] = 0 /\ charges[e] = 0 /\ journal[e] = "none"
      /\ \A x \in Events \ {e} : journal'[x] = journal[x]
      /\ journal'[e] = IF env.reports THEN "pending" ELSE "none"
  BY <1>1, <1>5, <1>7 DEF Inv, Rows, Row, Typed
<1>10. UNCHANGED <<env, tokens, prep, window, chat, receipts, births, hour, charges, acked, counted>>
  BY DEF BeginCreate, chatVars, history
<1>11. Used \subseteq Events
  BY UsedEvents DEF Inv, Typed
<1>12. Typed'
  <2>1. Numbered'
    BY <1>4, <1>5, <1>7 DEF Numbered
  <2>2. (\A x \in Used : attempt[x] \in Attempt)'
    BY <1>6, <1>7, <1>8 DEF Inv, Typed
  <2>3. journal' \in [Events -> {"none", "pending", "recorded"}] /\ alarm' \in BOOLEAN
    BY <1>1, <1>3 DEF Inv, Typed, BeginCreate
  <2> QED BY <1>10, <2>1, <2>2, <2>3 DEF Inv, Typed
<1>13. Rows'
  BY <1>6, <1>7, <1>8, <1>9, <1>10, <1>11, <1>3 DEF Inv, Rows, Row
<1>14. Channels'
  <2>1. \A d \in Chats : Receipted(d)' = Receipted(d)
    BY <1>7, <1>8, <1>9, <1>10 DEF Receipted
  <2>2. \A d \in Chats : OfAttempt(d, chat[d].live)' /\ OfAttempt(d, chat[d].backup)'
    BY <1>7, <1>8, <1>10 DEF Inv, Channels, OfAttempt
  <2> QED BY <1>10, <2>1, <2>2 DEF Inv, Channels
<1>15. Gate'
  <2>1. gate' \in Handler /\ gate'.todo = {} /\ gate'.ev = e /\ gate'.by = a /\ gate'.pc = "call"
        /\ gate'.job = "create" /\ gate'.tokens > 0
    BY <1>1, <1>2, <1>4, <1>5, JournalAssumption DEF Idle, Handler, Codes, Events, None
  <2> QED BY <2>1, <1>6, <1>7, <1>9, <1>10 DEF Gate, Working
<1>16. Reports'
  <2>1. \A x \in Pending' : x \in Pending \/ x = e
    BY <1>7, <1>9, <1>11 DEF Pending
  <2>2. \A x \in Pending' : attempt'[x].at >= window
    BY <2>1, <1>2, <1>6, <1>7, <1>8, <1>11 DEF Inv, Reports, Pending, Typed
  <2>3. (\A x \in Used : journal[x] = "recorded" /\ attempt[x].at < window => x \in counted)'
    BY <1>7, <1>8, <1>9, <1>10, <1>11 DEF Inv, Reports
  <2>4. WindowRows' = WindowRows
    BY <1>7, <1>8, <1>9, <1>10, <1>11 DEF WindowRows
  <2>5. ASSUME prep' # NoPrep
        PROVE  \A x \in Pending' : attempt'[x].at # window
    BY <2>1, <2>5, <1>2, <1>6, <1>7, <1>8, <1>10, <1>11 DEF Inv, Reports, Pending, Typed
  <2> QED BY <2>2, <2>3, <2>4, <2>5, <1>10 DEF Inv, Reports
<1>17. Acked'
  BY <1>7, <1>8, <1>10 DEF Inv, Acked
<1> QED BY <1>12, <1>13, <1>14, <1>15, <1>16, <1>17 DEF Inv

\* The answer settles the attempt: only 204 charges and records it.
LEMMA EndCreateKeeps ==
  ASSUME Inv, EndCreate
  PROVE  Inv'
<1> DEFINE e == gate.ev
<1>1. /\ e \in Used /\ e \in Events /\ gate.by = attempt[e].client /\ charges[e] = 0
      /\ attempt[e].journaled => journal[e] = "pending"
      /\ attempt[e].journaled \in BOOLEAN /\ gate.by \in Clients
      /\ gate.tokens \in Nat /\ gate.tokens > 0
  BY UsedEvents DEF EndCreate, Inv, Gate, Working, Typed, Attempt, Handler
<1>2. UNCHANGED <<env, attempt, prep, window, chat, receipts, births, hour, counted>> /\ gate' = Idle
  BY DEF EndCreate, chatVars
<1>3. Used' = Used
  BY <1>2 DEF Used
<1>4. Gate'
  BY <1>2, IdleGate
<1>5. CASE gate.code = "204"
  <2>1. /\ tokens' = [tokens EXCEPT ![gate.by] = Min({Capacity, gate.tokens - 1})]
        /\ journal' = [journal EXCEPT ![e] = IF attempt[e].journaled THEN "recorded" ELSE @]
        /\ alarm' = env.reports /\ charges' = [charges EXCEPT ![e] = @ + 1]
        /\ acked' = acked \cup {<<gate.by, e>>}
    BY <1>5 DEF EndCreate
  <2>2. births[e] = 1
    BY <1>5 DEF EndCreate, Inv, Gate
  <2> HIDE DEF e
  <2>3. charges' = [charges EXCEPT ![e] = 1]
    BY <2>1, <1>1
  <2>4. Min({Capacity, gate.tokens - 1}) \in 0 .. Capacity
    BY <1>1, Capped
  <2>5. Typed'
    BY <1>1, <1>2, <1>3, <2>1, <2>3, <2>4 DEF Inv, Typed, Numbered, Env
  <2>6. Rows'
    BY <1>1, <1>2, <1>3, <2>1, <2>2, <2>3 DEF Inv, Rows, Row, Typed
  <2>7. Channels'
    BY <1>2, <1>3 DEF Inv, Channels, OfAttempt, Receipted
  <2>8. Reports'
    <3>1. \A x \in Used : journal'[x] = journal[x] \/ x = e
      BY <2>1, UsedEvents DEF Inv, Typed
    <3>2. Pending' \subseteq Pending
      BY <1>1, <1>3, <2>1, <3>1 DEF Pending, Inv, Typed
    <3>3. CASE attempt[e].journaled
      <4>1. e \in Pending /\ journal'[e] = "recorded"
        BY <1>1, <2>1, <3>3 DEF Pending, Inv, Typed
      <4>2. attempt[e].at >= window /\ attempt[e].at \in Nat /\ window \in Nat
        BY <1>1, <4>1, JournalAssumption DEF Inv, Reports, Typed, Attempt
      <4>3. prep # NoPrep => attempt[e].at # window
        BY <4>1 DEF Inv, Reports
      <4>4. prep # NoPrep => WindowRows' = WindowRows
        BY <4>1, <4>3, <3>1, <1>1, <1>2, <1>3 DEF WindowRows
      <4> QED BY <4>1, <4>2, <4>4, <3>1, <3>2, <1>2, <1>3 DEF Inv, Reports
    <3>4. CASE ~attempt[e].journaled
      <4>1. journal' = journal
        BY <2>1, <3>4, <1>1 DEF Inv, Typed
      <4> QED BY <4>1, <1>2, SameReports, JournalAssumption DEF Inv, Typed
    <3> QED BY <3>3, <3>4
  <2>9. Acked'
    BY <1>1, <1>2, <1>3, <2>1, <2>2 DEF Inv, Acked
  <2> QED BY <1>4, <2>5, <2>6, <2>7, <2>8, <2>9 DEF Inv
<1>6. CASE gate.code # "204"
  <2>1. /\ UNCHANGED <<tokens, alarm, charges, acked>>
        /\ journal' = [journal EXCEPT ![e] =
                         IF attempt[e].journaled /\ gate.code \in {"409", "412"} THEN "none" ELSE @]
    BY <1>6 DEF EndCreate
  <2>2. gate.code \in {"409", "412"} /\ attempt[e].journaled => births[e] = 0
    BY <1>6 DEF EndCreate, Inv, Gate
  <2> HIDE DEF e
  <2>3. Typed'
    BY <1>1, <1>2, <1>3, <2>1 DEF Inv, Typed, Numbered
  <2>4. Rows'
    BY <1>1, <1>2, <1>3, <2>1, <2>2 DEF Inv, Rows, Row, Typed
  <2>5. Channels' /\ Acked'
    BY <1>2, <1>3, <2>1 DEF Inv, Channels, OfAttempt, Receipted, Acked
  <2>6. Reports'
    <3>1. \A x \in Used : journal'[x] = journal[x] \/ (x = e /\ journal[x] = "pending" /\ journal'[x] = "none")
      BY <1>1, <2>1, UsedEvents DEF Inv, Typed
    <3>2. Pending' \subseteq Pending /\ WindowRows' = WindowRows
      BY <1>2, <1>3, <3>1 DEF Pending, WindowRows
    <3> QED BY <3>1, <3>2, <1>2, <1>3 DEF Inv, Reports
  <2> QED BY <1>4, <2>3, <2>4, <2>5, <2>6 DEF Inv
<1> QED BY <1>5, <1>6

-----------------------------------------------------------------------------
(* The Chat *)

\* _create makes a channel for an attempt that has made none, and leaves its
\* receipt with it.
LEMMA RunKeeps ==
  ASSUME Inv, gate.pc = "call", RunCreate,
         UNCHANGED <<attempt, journal, prep, window, hour, charges, acked, counted>>
  PROVE  /\ births' \in [Events -> {0, 1}] /\ Rows' /\ Channels' /\ Reports' /\ Acked'
         /\ CreateReply(gate.ev, attempt[gate.ev].chat) \in {"insert", "204"} => births'[gate.ev] = 1
         /\ CreateReply(gate.ev, attempt[gate.ev].chat) \in {"409", "412"} /\ attempt[gate.ev].journaled
              => births'[gate.ev] = 0
         /\ \A e \in Events : e # gate.ev => births'[e] = births[e]
<1>1. PICK e \in Events : e = gate.ev /\ e \in Used
  BY UsedEvents DEF Inv, Gate, Working, Typed
<1>2. PICK c \in Chats : c = attempt[e].chat
  BY <1>1 DEF Inv, Typed, Attempt
<1>3. Used' = Used /\ Used \subseteq Events
  BY UsedEvents DEF Used, Inv, Typed
<1>4. /\ gate.by = attempt[e].client /\ gate.by \in Clients /\ charges[e] = 0
      /\ attempt[e].journaled \in BOOLEAN
      /\ attempt[e].journaled => journal[e] = "pending"
      /\ ~attempt[e].journaled => births[e] = 0 /\ journal[e] = "none"
  BY <1>1 DEF Inv, Gate, Working, Typed, Attempt, Rows, Row
<1>5. receipts[c] = Receipted(c) /\ OfAttempt(c, chat[c].live)
  BY DEF Inv, Channels
<1>6. births[e] \in {0, 1} /\ births \in [Events -> {0, 1}] /\ e # None
  BY JournalAssumption DEF Inv, Typed, Events, None
<1>7. attempt[e].journaled => (e \in receipts[c] <=> births[e] = 1)
  BY <1>1, <1>2, <1>5 DEF Receipted
<1>8. CASE CreateReply(e, c) = "insert"
  <2>1. /\ chat' = [chat EXCEPT ![c].live = [gen |-> e, auth |-> gate.by], ![c].record = c \in Managed]
        /\ receipts' = [receipts EXCEPT ![c] = IF attempt[e].journaled THEN @ \cup {e} ELSE @]
        /\ births' = [births EXCEPT ![e] = @ + 1]
    BY <1>1, <1>2, <1>8 DEF RunCreate
  <2>2. births[e] = 0
    BY <1>4, <1>6, <1>7, <1>8 DEF CreateReply
  <2>3. births' = [births EXCEPT ![e] = 1]
    BY <1>6, <2>1, <2>2
  <2>4. births' \in [Events -> {0, 1}] /\ births'[e] = 1 /\ \A x \in Events \ {e} : births'[x] = births[x]
    BY <1>6, <2>3
  <2>5. Rows'
    <3>1. Row(e)'
      BY <1>1, <1>3, <1>4, <2>4 DEF Row
    <3>2. \A x \in Events \ {e} : Row(x)'
      BY <1>3, <2>4 DEF Inv, Rows, Row
    <3> QED BY <3>1, <3>2 DEF Rows
  <2>6. Acked'
    BY <1>3, <2>4 DEF Inv, Acked
  <2>7. Reports'
    BY <1>3, <2>4 DEF Inv, Reports, Pending, WindowRows
  <2>8. Channels'
    <3>1. [gen |-> e, auth |-> gate.by] \in Channel
      BY <1>4, JournalAssumption DEF Channel, Events
    <3>2. chat' \in [Chats -> [live: Channel, record: BOOLEAN, backup: Channel]]
      <4>1. PICK m \in BOOLEAN : m = (c \in Managed)
        <5>1. (c \in Managed) \in BOOLEAN
          BY SMT
        <5> QED BY <5>1, Zenon
      <4>2. chat' = [chat EXCEPT ![c].live = [gen |-> e, auth |-> gate.by], ![c].record = m]
        BY <2>1, <4>1, Zenon
      <4> QED BY <3>1, <4>2 DEF Inv, Channels
    <3>3. \A d \in Chats : /\ chat'[d].live = IF d = c THEN [gen |-> e, auth |-> gate.by] ELSE chat[d].live
                           /\ chat'[d].backup = chat[d].backup
      BY <2>1 DEF Inv, Channels
    <3>4. \A d \in Chats : OfAttempt(d, chat[d].live)' /\ OfAttempt(d, chat[d].backup)'
      BY <3>3, <1>1, <1>2, <1>3, <1>4, <2>4 DEF Inv, Channels, OfAttempt
    <3>5. \A d \in Chats : Receipted(d)' = IF d = c /\ attempt[e].journaled THEN Receipted(d) \cup {e}
                                           ELSE Receipted(d)
      BY <1>1, <1>2, <1>3, <2>2, <2>4 DEF Receipted
    <3>6. receipts' = [d \in Chats |-> Receipted(d)']
      BY <3>5, <2>1 DEF Inv, Channels
    <3> QED BY <3>2, <3>4, <3>6 DEF Channels
  <2> QED BY <1>1, <1>2, <1>8, <2>4, <2>5, <2>6, <2>7, <2>8
<1>9. CASE CreateReply(e, c) # "insert"
  <2>1. UNCHANGED <<chat, receipts, births>>
    BY <1>1, <1>2, <1>9 DEF RunCreate, chatVars
  <2>2. Rows' /\ Channels' /\ Acked'
    BY <2>1, SameTraces DEF Inv
  <2>3. Reports'
    BY <2>1, SameReports, JournalAssumption DEF Inv, Typed
  <2>4. CreateReply(e, c) = "204" => births[e] = 1
    BY <1>2, <1>5, <1>6, <1>7, <1>9 DEF CreateReply, OfAttempt, NoChannel
  <2>5. CreateReply(e, c) \in {"409", "412"} /\ attempt[e].journaled => births[e] = 0
    <3>1. ASSUME attempt[e].journaled, e \in receipts[c]
          PROVE  CreateReply(e, c) = "204"
      BY <3>1 DEF CreateReply
    <3> QED BY <3>1, <1>6, <1>7
  <2> QED BY <1>1, <1>2, <1>6, <1>9, <2>1, <2>2, <2>3, <2>4, <2>5
<1> QED BY <1>8, <1>9

LEMMA SameTyped ==
  ASSUME Typed, UNCHANGED <<env, alarm, attempt, journal, tokens, charges, hour, window>>,
         births' \in [Events -> {0, 1}]
  PROVE  Typed'
BY DEF Typed, Numbered, Used

\* The handler has the answer, and with it what became of its attempt.
LEMMA AnswerKeeps ==
  ASSUME Gate, gate.pc = "call", NEW code \in Codes, gate' = [gate EXCEPT !.pc = "answer", !.code = code],
         UNCHANGED <<attempt, journal, charges>>,
         code = "204" => births'[gate.ev] = 1,
         code \in {"409", "412"} /\ attempt[gate.ev].journaled => births'[gate.ev] = 0
  PROVE  Gate'
<1>1. /\ gate' \in Handler /\ gate'.pc = "answer" /\ gate'.code = code /\ gate'.ev = gate.ev
      /\ gate'.job = gate.job /\ gate'.by = gate.by /\ gate'.todo = gate.todo /\ gate'.tokens = gate.tokens
  BY DEF Gate, Handler
<1>2. Used' = Used /\ Pending' = Pending
  BY DEF Used, Pending
<1>3. Working'
  BY <1>1, <1>2 DEF Gate, Working
<1> QED BY <1>1, <1>2, <1>3 DEF Gate

LEMMA CallKeeps ==
  ASSUME Inv, (\E e \in Events : CallAnswered(e)) \/ CallLost
  PROVE  Inv'
<1>1. CASE \E e \in Events : CallAnswered(e)
  <2> DEFINE answer == CreateReply(gate.ev, attempt[gate.ev].chat)
             code == IF answer = "insert" THEN "204" ELSE answer
  <2>1. /\ gate.pc = "call" /\ RunCreate
        /\ gate' = [gate EXCEPT !.pc = "answer", !.code = code]
        /\ UNCHANGED <<env, attempt, journal, tokens, alarm, prep, window, hour, charges, acked, counted>>
    BY <1>1 DEF CallAnswered, history
  <2>2. answer \in {"204", "412", "409", "410", "insert"}
    BY DEF CreateReply
  <2>3. /\ births' \in [Events -> {0, 1}] /\ Rows' /\ Channels' /\ Reports' /\ Acked'
        /\ answer \in {"insert", "204"} => births'[gate.ev] = 1
        /\ answer \in {"409", "412"} /\ attempt[gate.ev].journaled => births'[gate.ev] = 0
    BY <2>1, RunKeeps
  <2> HIDE DEF answer
  <2>4. code \in Codes
    BY <2>2 DEF Codes
  <2>5. Gate'
    BY <2>1, <2>2, <2>3, <2>4, AnswerKeeps DEF Inv
  <2>6. Typed'
    BY <2>1, <2>3, SameTyped DEF Inv
  <2> QED BY <2>3, <2>5, <2>6 DEF Inv
<1>2. CASE CallLost
  <2>1. /\ gate.pc = "call" /\ gate' = [gate EXCEPT !.pc = "answer", !.code = "error"]
        /\ UNCHANGED <<env, attempt, journal, tokens, alarm, prep, window, hour, charges, acked, counted>>
    BY <1>2 DEF CallLost, history
  <2>2. "error" \in Codes
    BY DEF Codes
  <2>3. Gate'
    BY <2>1, <2>2, AnswerKeeps DEF Inv
  <2>4. births' \in [Events -> {0, 1}] /\ Rows' /\ Channels' /\ Reports' /\ Acked'
    <3>1. CASE RunCreate
      BY <2>1, <3>1, RunKeeps
    <3>2. CASE UNCHANGED chatVars
      <4>1. UNCHANGED <<chat, receipts, births>>
        BY <3>2 DEF chatVars
      <4>2. Reports'
        BY <2>1, <4>1, SameReports, JournalAssumption DEF Inv, Typed
      <4> QED BY <2>1, <4>1, <4>2, SameTraces DEF Inv, Typed
    <3> QED BY <1>2, <3>1, <3>2 DEF CallLost
  <2>5. Typed'
    BY <2>1, <2>4, SameTyped DEF Inv
  <2> QED BY <2>3, <2>4, <2>5 DEF Inv
<1> QED BY <1>1, <1>2

\* Deleting and restoring moves a channel between its place and its backup.
LEMMA ChatKeeps ==
  ASSUME Inv, NEW c \in Chats, DeleteChat(c) \/ RestoreChat(c)
  PROVE  Inv'
<1>1. UNCHANGED <<env, attempt, journal, tokens, alarm, gate, prep, window, receipts, births, hour,
                  charges, acked, counted>>
  BY DEF DeleteChat, RestoreChat, gateVars, history
<1>2. Used' = Used
  BY <1>1 DEF Used
<1>3. Channels'
  <2>1. NoChannel \in Channel
    BY JournalAssumption DEF NoChannel, Channel, None
  <2>2. chat' \in [Chats -> [live: Channel, record: BOOLEAN, backup: Channel]]
    BY <2>1 DEF DeleteChat, RestoreChat, Inv, Channels
  <2>3. \A d \in Chats : /\ chat'[d].live \in {chat[d].live, chat[d].backup, NoChannel}
                         /\ chat'[d].backup \in {chat[d].live, chat[d].backup}
    BY DEF DeleteChat, RestoreChat, Inv, Channels
  <2>4. \A d \in Chats : OfAttempt(d, chat[d].live)' /\ OfAttempt(d, chat[d].backup)'
    BY <1>1, <1>2, <2>3 DEF Inv, Channels, OfAttempt
  <2>5. \A d \in Chats : Receipted(d)' = Receipted(d)
    BY <1>1, <1>2 DEF Receipted
  <2> QED BY <1>1, <2>2, <2>4, <2>5 DEF Inv, Channels
<1>4. Typed'
  BY <1>1, SameTyped DEF Inv, Typed
<1>5. Gate' /\ Reports'
  BY <1>1, SameGate, SameReports, JournalAssumption DEF Inv, Typed
<1>6. Rows' /\ Acked'
  BY <1>1, <1>2 DEF Inv, Rows, Row, Acked
<1> QED BY <1>3, <1>4, <1>5, <1>6 DEF Inv

-----------------------------------------------------------------------------
(* The gate: replays, reports, time and crashes *)

\* A recovery starts with pending rows only.
LEMMA BeginRecoveryKeeps ==
  ASSUME Inv, NEW job \in {"alarm", "cron"}, BeginRecovery(job)
  PROVE  Inv'
<1>1. /\ gate' = [Idle EXCEPT !.pc = "replay", !.job = job, !.todo = Batch]
      /\ UNCHANGED <<env, attempt, journal, tokens, prep, window, chat, receipts, births, hour,
                     charges, acked, counted>>
      /\ alarm' \in BOOLEAN
  BY DEF BeginRecovery, chatVars, history, Inv, Typed
<1>2. Batch \subseteq Pending /\ Pending \subseteq Events /\ Pending' = Pending
  BY <1>1, UsedEvents DEF Batch, Pending, Used, Inv, Typed
<1>3. Gate'
  <2>1. gate'.pc = "replay" /\ gate'.job = job /\ gate'.todo = Batch
    BY <1>1 DEF Idle
  <2>2. gate' \in Handler
    <3>1. Idle \in Handler
      BY JournalAssumption DEF Idle, Handler, Codes, None
    <3> QED BY <1>1, <1>2, <3>1 DEF Handler
  <2> QED BY <1>2, <2>1, <2>2 DEF Gate
<1>4. Typed'
  BY <1>1 DEF Inv, Typed, Numbered, Used
<1>5. Reports'
  BY <1>1, SameReports, JournalAssumption DEF Inv, Typed
<1> QED BY <1>1, <1>3, <1>4, <1>5, SameTraces DEF Inv

\* Only the alarm changes.
LEMMA AlarmKeeps ==
  ASSUME Inv, AlarmWhileDisabled
  PROVE  Inv'
<1>1. /\ UNCHANGED <<env, attempt, journal, tokens, gate, prep, window, chat, receipts, births, hour,
                     charges, acked, counted>>
      /\ alarm' \in BOOLEAN
  BY DEF AlarmWhileDisabled, chatVars, history
<1>2. Typed'
  BY <1>1 DEF Inv, Typed, Numbered, Used
<1>3. Reports' /\ Gate'
  BY <1>1, SameReports, SameGate, JournalAssumption DEF Inv, Typed
<1> QED BY <1>1, <1>2, <1>3, SameTraces DEF Inv

\* The row sent is pending, so its attempt is journaled and uncharged.
LEMMA ReplayNextKeeps ==
  ASSUME Inv, ReplayNext
  PROVE  Inv'
<1> DEFINE e == Min(gate.todo)
<1>1. /\ gate.pc = "replay" /\ gate.todo # {}
      /\ gate' = [gate EXCEPT !.pc = "call", !.ev = e, !.by = attempt[e].client,
                              !.mode = attempt[e].mode, !.todo = @ \ {e}]
      /\ UNCHANGED <<env, attempt, journal, tokens, alarm, prep, window, chat, receipts, births, hour,
                     charges, acked, counted>>
  BY DEF ReplayNext, chatVars, history
<1>2. gate.todo \subseteq Pending /\ gate.todo \in SUBSET Nat
  BY UsedEvents DEF Inv, Typed, Gate, Pending, Events
<1>3. e \in gate.todo
  BY <1>1, <1>2, MinIn
<1> HIDE DEF e
<1>4. e \in Used /\ e \in Events /\ journal[e] = "pending" /\ attempt[e] \in Attempt
  BY <1>2, <1>3, UsedEvents DEF Inv, Typed, Pending
<1>5. attempt[e].journaled /\ charges[e] = 0
  BY <1>4 DEF Inv, Rows, Row, Typed, Attempt
<1>6. gate' \in Handler
  <2>1. e \in 0 .. MaxEvents /\ attempt[e].client \in Clients /\ attempt[e].mode \in {0, 1}
    BY <1>4, JournalAssumption DEF Events, Attempt
  <2> QED BY <1>1, <2>1 DEF Inv, Gate, Handler
<1>7. /\ gate'.pc = "call" /\ gate'.ev = e /\ gate'.by = attempt[e].client
      /\ gate'.todo = gate.todo \ {e} /\ gate'.job = gate.job
  BY <1>1 DEF Inv, Gate, Handler
<1>8. Gate'
  <2>1. gate.job # "create"
    BY <1>1 DEF Inv, Gate
  <2>2. Pending' = Pending /\ Used' = Used
    BY <1>1 DEF Pending, Used
  <2>3. Working'
    BY <1>1, <1>4, <1>5, <1>7, <2>2 DEF Working
  <2> QED BY <1>1, <1>2, <1>5, <1>6, <1>7, <2>1, <2>2, <2>3 DEF Gate
<1>9. Typed'
  BY <1>1 DEF Inv, Typed, Numbered, Used
<1>10. Reports'
  BY <1>1, SameReports, JournalAssumption DEF Inv, Typed
<1> QED BY <1>1, <1>8, <1>9, <1>10, SameTraces DEF Inv

\* A replay records the row of an attempt that ran and withdraws one's that
\* did not; the row was pending, so no window that is being counted has it.
LEMMA ReplayAnsweredKeeps ==
  ASSUME Inv, ReplayAnswered
  PROVE  Inv'
<1>1. PICK e \in Events : e = gate.ev /\ e \in Used
  BY UsedEvents DEF ReplayAnswered, Inv, Gate, Working, Typed
<1>2. /\ gate.pc = "answer" /\ gate.job \in {"alarm", "cron"}
      /\ attempt[e].journaled /\ journal[e] = "pending" /\ charges[e] = 0 /\ e \notin gate.todo
      /\ gate.code = "204" => births[e] = 1
      /\ gate.code \in {"409", "412"} => births[e] = 0
  BY <1>1 DEF ReplayAnswered, Inv, Gate, Working
<1>3. UNCHANGED <<env, attempt, tokens, alarm, prep, window, chat, receipts, births, hour,
                  charges, acked, counted>>
  BY DEF ReplayAnswered, chatVars, history
<1>4. Used' = Used /\ Used \subseteq Events
  BY <1>3, UsedEvents DEF Used, Inv, Typed
<1>5. CASE gate.code \in {"204", "409", "412"}
  <2>1. PICK row \in {"recorded", "none"} :
          /\ journal' = [journal EXCEPT ![e] = row]
          /\ row = "recorded" => births[e] = 1
          /\ row = "none" => births[e] = 0
    BY <1>1, <1>2, <1>5 DEF ReplayAnswered
  <2>2. gate' = [gate EXCEPT !.pc = "replay"]
    BY <1>5 DEF ReplayAnswered
  <2>3. journal'[e] = row /\ \A x \in Events \ {e} : journal'[x] = journal[x]
    BY <2>1 DEF Inv, Typed
  <2>4. Pending' = Pending \ {e} /\ e \in Pending
    BY <1>1, <1>2, <1>4, <2>1, <2>3 DEF Pending
  <2>5. Typed'
    <3>1. journal' \in [Events -> {"none", "pending", "recorded"}]
      BY <2>1 DEF Inv, Typed
    <3> QED BY <1>3, <1>4, <3>1 DEF Inv, Typed, Numbered
  <2>6. Rows'
    <3>1. Row(e)'
      BY <1>1, <1>2, <1>3, <1>4, <2>1, <2>3 DEF Row
    <3>2. \A x \in Events \ {e} : Row(x)'
      BY <1>3, <1>4, <2>3 DEF Inv, Rows, Row
    <3> QED BY <3>1, <3>2 DEF Rows
  <2>7. Channels' /\ Acked'
    BY <1>3, <1>4 DEF Inv, Channels, OfAttempt, Receipted, Acked
  <2>8. Gate'
    <3>1. gate' \in Handler /\ gate'.pc = "replay" /\ gate'.job = gate.job /\ gate'.todo = gate.todo
      BY <2>2 DEF Inv, Gate, Handler
    <3>2. gate.todo \subseteq Pending'
      BY <1>2, <2>4 DEF Inv, Gate
    <3> QED BY <1>2, <3>1, <3>2 DEF Gate
  <2>9. Reports'
    <3>1. attempt[e].at >= window /\ attempt[e].at \in Nat /\ window \in Nat
          /\ (prep # NoPrep => attempt[e].at # window)
      BY <1>1, <2>4, JournalAssumption DEF Inv, Reports, Typed, Attempt
    <3>2. prep # NoPrep => WindowRows' = WindowRows
      BY <1>1, <1>2, <1>3, <1>4, <2>3, <3>1 DEF WindowRows
    <3>3. (\A x \in Used : journal[x] = "recorded" /\ attempt[x].at < window => x \in counted)'
      BY <1>3, <1>4, <2>3, <3>1 DEF Inv, Reports
    <3>4. (\A x \in Pending : attempt[x].at >= window)'
      BY <1>3, <2>4 DEF Inv, Reports
    <3> QED BY <1>3, <2>4, <3>2, <3>3, <3>4 DEF Inv, Reports
  <2> QED BY <2>5, <2>6, <2>7, <2>8, <2>9 DEF Inv
<1>6. CASE gate.code \notin {"204", "409", "412"}
  <2>1. gate' = Idle /\ journal' = journal
    BY <1>6 DEF ReplayAnswered
  <2>2. Typed'
    BY <1>3, <2>1, SameTyped DEF Inv, Typed
  <2>3. Reports'
    BY <1>3, <2>1, SameReports, JournalAssumption DEF Inv, Typed
  <2> QED BY <1>3, <2>1, <2>2, <2>3, IdleGate, SameTraces DEF Inv
<1> QED BY <1>5, <1>6

\* The alarm counts a due window only when no row is pending.
LEMMA EndRecoveryKeeps ==
  ASSUME Inv, EndRecovery
  PROVE  Inv'
<1>1. /\ gate' = Idle
      /\ prep' = IF gate.job = "alarm" /\ Pending = {} /\ WindowDue
                 THEN [win |-> window, rows |-> WindowRows] ELSE prep
      /\ alarm' \in BOOLEAN
      /\ UNCHANGED <<env, attempt, journal, tokens, window, chat, receipts, births, hour,
                     charges, acked, counted>>
  BY DEF EndRecovery, chatVars, history, Inv, Typed
<1>2. Typed'
  BY <1>1 DEF Inv, Typed, Numbered, Used
<1>3. Reports'
  BY <1>1 DEF Inv, Reports, WindowDue, WindowRows, Pending, Used
<1> QED BY <1>1, <1>2, <1>3, IdleGate, SameTraces DEF Inv

\* The rows counted are those of the window that closes, and none is pending.
LEMMA CompleteHourlyKeeps ==
  ASSUME Inv, CompleteHourly
  PROVE  Inv'
<1>1. /\ prep # NoPrep /\ counted' = counted \cup prep.rows
      /\ window' = window + 1 /\ prep' = NoPrep
      /\ UNCHANGED <<env, attempt, journal, tokens, alarm, gate, chat, receipts, births, hour, charges, acked>>
  BY DEF CompleteHourly, chatVars
<1>2. /\ prep.rows = WindowRows /\ window < hour
      /\ \A x \in Pending : attempt[x].at # window
  BY <1>1 DEF Inv, Reports
<1>3. window \in Nat /\ hour \in 0 .. MaxHours /\ window' \in 0 .. hour
      /\ \A x \in Used : attempt[x].at \in Nat
  BY <1>1, <1>2, JournalAssumption DEF Inv, Typed, Attempt
<1>4. Used' = Used /\ Pending' = Pending /\ Used \subseteq Events /\ Pending \subseteq Used
  BY <1>1, UsedEvents DEF Used, Pending, Inv, Typed
<1>5. Typed'
  BY <1>1, <1>3, <1>4 DEF Inv, Typed, Numbered
<1>6. Reports'
  <2>1. (\A x \in Pending : attempt[x].at >= window)'
    BY <1>1, <1>2, <1>3, <1>4 DEF Inv, Reports
  <2>2. ASSUME NEW x \in Used, journal[x] = "recorded", attempt[x].at < window + 1
        PROVE  x \in counted'
    BY <1>1, <1>2, <1>3, <2>2 DEF Inv, Reports, WindowRows
  <2>3. \A x \in counted' : x \in Events /\ births[x] = 1
    BY <1>1, <1>2, <1>4 DEF Inv, Reports, WindowRows, Rows, Row
  <2> QED BY <1>1, <1>4, <2>1, <2>2, <2>3 DEF Reports
<1>7. Gate'
  BY <1>1, SameGate DEF Inv
<1> QED BY <1>1, <1>5, <1>6, <1>7, SameTraces DEF Inv

\* A report that fails leaves its window open.
LEMMA FailHourlyKeeps ==
  ASSUME Inv, FailHourly
  PROVE  Inv'
<1>1. /\ prep' = NoPrep
      /\ UNCHANGED <<env, attempt, journal, tokens, alarm, gate, window, chat, receipts, births, hour,
                     charges, acked, counted>>
  BY DEF FailHourly, chatVars, history
<1>2. Typed'
  BY <1>1 DEF Inv, Typed, Numbered, Used
<1>3. Reports'
  BY <1>1 DEF Inv, Reports, Pending, Used
<1> QED BY <1>1, <1>2, <1>3, SameGate, SameTraces DEF Inv

LEMMA TickKeeps ==
  ASSUME Inv, Tick
  PROVE  Inv'
<1>1. /\ hour < MaxHours /\ hour' = hour + 1
      /\ tokens' = [a \in Clients |-> Min({Capacity, tokens[a] + 1})]
      /\ gate' = IF gate.job = "create" THEN [gate EXCEPT !.tokens = @ + 1] ELSE gate
      /\ UNCHANGED <<env, attempt, journal, alarm, prep, window, chat, receipts, births,
                     charges, acked, counted>>
  BY DEF Tick, chatVars, history
<1>2. hour \in Nat /\ hour' \in 0 .. MaxHours /\ window \in 0 .. hour'
  BY <1>1, JournalAssumption DEF Inv, Typed
<1>3. tokens' \in [Clients -> 0 .. Capacity]
  <2>1. \A a \in Clients : tokens[a] + 1 \in Nat
    BY JournalAssumption DEF Inv, Typed
  <2> QED BY <1>1, <2>1, Capped
<1>4. Typed'
  BY <1>1, <1>2, <1>3 DEF Inv, Typed, Numbered, Used
<1>5. Gate'
  <2>1. /\ gate' \in Handler /\ gate'.pc = gate.pc /\ gate'.job = gate.job /\ gate'.ev = gate.ev
        /\ gate'.by = gate.by /\ gate'.code = gate.code /\ gate'.todo = gate.todo
        /\ gate.job = "create" => gate'.tokens > 0
    BY <1>1 DEF Inv, Gate, Handler
  <2>2. gate.pc = "idle" => gate' = Idle
    BY <1>1 DEF Inv, Gate, Idle
  <2>3. Pending' = Pending /\ Used' = Used
    BY <1>1 DEF Pending, Used
  <2> QED BY <1>1, <2>1, <2>2, <2>3 DEF Inv, Gate, Working
<1>6. Reports'
  BY <1>1, <1>2, SameReports, JournalAssumption DEF Inv, Typed
<1> QED BY <1>1, <1>4, <1>5, <1>6, SameTraces DEF Inv

\* A process loss forgets the handler and the report that is being prepared.
LEMMA RestartKeeps ==
  ASSUME Inv, NEW e \in Envs, Restart(e)
  PROVE  Inv'
<1>1. /\ gate' = Idle /\ prep' = NoPrep /\ env' = e
      /\ UNCHANGED <<attempt, journal, tokens, alarm, window, chat, receipts, births, hour,
                     charges, acked, counted>>
  BY DEF Restart, chatVars, history
<1>2. Typed'
  BY <1>1, JournalAssumption DEF Inv, Typed, Numbered, Used
<1>3. Reports'
  BY <1>1 DEF Inv, Reports, Pending, Used
<1> QED BY <1>1, <1>2, <1>3, IdleGate, SameTraces DEF Inv

LEMMA InvNext == Inv /\ [Next]_vars => Inv'
<1> SUFFICES ASSUME Inv, [Next]_vars PROVE Inv'
  OBVIOUS
<1>1. ASSUME NEW a \in Clients, NEW c \in Chats, NEW mode \in Routed, BeginCreate(a, c, mode)
      PROVE  Inv'
  BY <1>1, RetryBegins, FreshBegins
<1>2. CASE EndCreate
  BY <1>2, EndCreateKeeps
<1>3. CASE (\E e \in Events : CallAnswered(e)) \/ CallLost
  BY <1>3, CallKeeps
<1>4. CASE \E c \in Chats : DeleteChat(c) \/ RestoreChat(c)
  BY <1>4, ChatKeeps
<1>5. CASE \E job \in {"alarm", "cron"} : BeginRecovery(job)
  BY <1>5, BeginRecoveryKeeps
<1>6. CASE AlarmWhileDisabled
  BY <1>6, AlarmKeeps
<1>7. CASE ReplayNext
  BY <1>7, ReplayNextKeeps
<1>8. CASE ReplayAnswered
  BY <1>8, ReplayAnsweredKeeps
<1>9. CASE EndRecovery
  BY <1>9, EndRecoveryKeeps
<1>10. CASE CompleteHourly
  BY <1>10, CompleteHourlyKeeps
<1>11. CASE FailHourly
  BY <1>11, FailHourlyKeeps
<1>12. CASE Tick
  BY <1>12, TickKeeps
<1>13. CASE \E e \in Envs : Restart(e)
  BY <1>13, RestartKeeps
<1>14. CASE UNCHANGED vars
  <2>1. UNCHANGED <<env, attempt, journal, tokens, alarm, gate, prep, window, chat, receipts, births, hour,
                    charges, acked, counted>>
    BY <1>14 DEF vars, gateVars, chatVars, history
  <2>2. Typed'
    BY <2>1 DEF Inv, Typed, Numbered, Used
  <2>3. Reports'
    BY <2>1, SameReports, JournalAssumption DEF Inv, Typed
  <2> QED BY <2>1, <2>2, <2>3, SameGate, SameTraces DEF Inv
<1> QED
  BY <1>1, <1>2, <1>3, <1>4, <1>5, <1>6, <1>7, <1>8, <1>9, <1>10, <1>11, <1>12, <1>13, <1>14 DEF Next

LEMMA JournalInv == Spec => []Inv
<1>1. Inv /\ [Next]_vars => Inv'
  BY InvNext
<1> QED BY <1>1, InvInit, PTL DEF Spec

-----------------------------------------------------------------------------
(* The theorems *)

LEMMA InvTypeOK ==
  ASSUME Inv
  PROVE  TypeOK
<1>1. Used \subseteq Events
  BY UsedEvents DEF Inv, Typed
<1>2. /\ gate.pc \in {"idle", "call", "answer", "replay"} /\ gate.code \in Codes
      /\ gate.pc \in {"call", "answer"} => gate.ev \in Used /\ gate.by \in Clients
      /\ gate.todo \subseteq Pending
  BY DEF Inv, Gate, Working, Handler, Typed, Attempt
<1>3. prep # NoPrep => prep.win = window /\ prep.rows \subseteq Used
  BY DEF Inv, Reports, WindowRows
<1>4. ASSUME NEW c \in Chats
      PROVE  /\ chat[c].live.gen \in Used \cup {None}
             /\ (chat[c].live = NoChannel) <=> (chat[c].live.gen = None)
             /\ receipts[c] \subseteq Used
  BY <1>1 DEF Inv, Channels, OfAttempt, NoChannel, Receipted, None, Events
<1> QED BY <1>1, <1>2, <1>3, <1>4 DEF Inv, Typed, TypeOK, Attempt

\* Every variable holds what the code can store in it: a handler that awaits a
\* Chat works for an attempt that exists, its list of rows to replay holds
\* pending rows only, and the report prepared is of the open window.
THEOREM JournalTypeOK == Spec => []TypeOK
<1>1. Inv => TypeOK
  BY InvTypeOK
<1> QED BY <1>1, JournalInv, PTL

\* For any number of chats, clients, attempts and process losses: no creation
\* attempt inserts a channel twice, or is charged twice or without one.  A retry
\* or a replay of an attempt that ran finds its receipt (_create), and create
\* charges in the transaction that takes the row from pending to recorded.
THEOREM JournalOncePerAttempt == Spec => []OncePerAttempt
<1>1. ASSUME Inv PROVE OncePerAttempt
  BY <1>1 DEF Inv, Typed, Rows, Row, OncePerAttempt
<1> QED BY <1>1, JournalInv, PTL

\* A client answered 303 owns the channel its attempt made, for as long as the
\* chat has that generation: deleted and restored, it is still the client's.
THEOREM JournalAckedOwnsChat == Spec => []AckedOwnsChat
<1>1. ASSUME Inv PROVE AckedOwnsChat
  <2> SUFFICES ASSUME NEW ack \in acked
               PROVE  /\ births[ack[2]] > 0
                      /\ chat[attempt[ack[2]].chat].live.gen = ack[2]
                           => chat[attempt[ack[2]].chat].live.auth = ack[1]
    BY DEF AckedOwnsChat
  <2>1. ack[2] \in Used /\ births[ack[2]] = 1 /\ ack[1] = attempt[ack[2]].client
    BY <1>1 DEF Inv, Acked
  <2>2. ack[2] # None /\ attempt[ack[2]].chat \in Chats
    BY <1>1, <2>1, UsedEvents DEF Inv, Typed, Attempt, Events, None
  <2> QED BY <1>1, <2>1, <2>2 DEF Inv, Channels, OfAttempt, NoChannel
<1> QED BY <1>1, JournalInv, PTL

\* A closed hourly window counted exactly the journaled attempts of its hour
\* that made a chat, whatever was lost, replayed, deleted or redeployed in
\* between: recovery settles every row of the hour before the window is counted,
\* and no attempt that starts later belongs to it.
THEOREM JournalHourlyCountExact == Spec => []HourlyCountExact
<1>1. ASSUME Inv PROVE HourlyCountExact
  <2>1. Used \subseteq Events
    BY <1>1, UsedEvents DEF Inv, Typed
  <2>2. ASSUME NEW e \in Used, attempt[e].journaled, births[e] > 0, attempt[e].at < window
        PROVE  e \in counted
    <3>1. births[e] = 1 /\ journal[e] # "none" /\ attempt[e].at \in Nat /\ window \in Nat
      BY <1>1, <2>1, <2>2, JournalAssumption DEF Inv, Typed, Rows, Row, Attempt
    <3>2. journal[e] # "pending"
      BY <1>1, <2>2, <3>1 DEF Inv, Reports, Pending
    <3> QED BY <1>1, <2>1, <2>2, <3>1, <3>2 DEF Inv, Typed, Reports
  <2>3. \A e \in counted : births[e] > 0
    BY <1>1 DEF Inv, Reports
  <2> QED BY <2>2, <2>3, <1>1, InvTypeOK DEF HourlyCountExact
<1> QED BY <1>1, JournalInv, PTL
=============================================================================
