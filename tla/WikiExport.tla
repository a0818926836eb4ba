------------------------------ MODULE WikiExport ------------------------------
(***************************************************************************)
(* The exports of one wiki (celld/native/wiki-export.ts, wiki-zip.ts): one  *)
(* slot in memory, prepared page by page with pauses, then downloaded once  *)
(* with a ticket, the archive being read again from the wiki as the client  *)
(* takes it.  Edits, cancellation, deadlines and other requests come        *)
(* between; a coroutine goes on with the slot it began with.                *)
(*                                                                         *)
(* An item is a page with its metadata, a discussion or an uploaded file;   *)
(* its content is the version that last changed it.  Names, sizes and the   *)
(* ZIP layout are left out; a wiki that is deleted or archived fails the    *)
(* same check as one that changed.  Bearers and tickets are the clients'.   *)
(***************************************************************************)
EXTENDS Integers, FiniteSets

CONSTANTS
  Reader,     \* each with one download
  Item,       \* what an archive holds
  MaxExports, \* bound: exports since the object was loaded
  MaxChanges  \* bound: edits

ASSUME ExportAssumption == MaxExports \in Nat /\ MaxChanges \in Nat

VARIABLES
  wikiVersion, \* of the wiki
  items,       \* per item, the version that last changed it
  slots,       \* per export: state, version, expired, ticket and entries; snap is
               \* what the wiki held when it was prepared
  inSlot,      \* the export in this.slot, 0 for none
  dl           \* per client, its download: the slot it found, what it was sent

wiki == <<wikiVersion, items>>
exportVars == <<wiki, slots, inSlot, dl>>

Active == {"preparing", "ready", "downloading"}
Unread == -1
NoSlot == [state |-> "none", version |-> 0, expired |-> FALSE, ticket |-> FALSE,
           entries |-> {}, snap |-> [i \in Item |-> 0]]
NoDownload == [pc |-> "none", slot |-> 0, sent |-> [i \in Item |-> Unread]]

ExportInit ==
  /\ wikiVersion = 0 /\ items = [i \in Item |-> 0]
  /\ slots = [n \in 1 .. MaxExports |-> NoSlot] /\ inSlot = 0
  /\ dl = [c \in Reader |-> NoDownload]

Used == {n \in 1 .. MaxExports : slots[n].state # "none"}

-----------------------------------------------------------------------------
(* check, failed and get *)

\* Names with a suffix are plausible mistakes, used to test the properties.
\* The version is that of the preparation alone.
Check_AnyVersion(n) == inSlot = n /\ slots[n].state # "canceled" /\ ~slots[n].expired
\* check: this slot still, not canceled, in time, and the wiki as it was.
Check(n) ==
  /\ inSlot = n /\ slots[n].state # "canceled"
  /\ ~slots[n].expired
  /\ wikiVersion = slots[n].version

\* The ticket of a failed export is kept.
Failed_KeepsTicket(slot) ==
  IF slot.state \in {"canceled", "failed"} THEN slot
  ELSE [slot EXCEPT !.state = "failed", !.entries = {}]
\* failed: no ticket, no entries; also of an export that was complete.
Failed(slot) ==
  IF slot.state \in {"canceled", "failed"} THEN slot
  ELSE [slot EXCEPT !.state = "failed", !.ticket = FALSE, !.entries = {}]

\* get: an active export that fails its check has failed.
Got(n) == IF slots[n].state \in Active /\ ~Check(n) THEN Failed(slots[n]) ELSE slots[n]

-----------------------------------------------------------------------------
(* prepare *)

\* The body arrived.  An active export keeps the slot (429); else a new one
\* replaces it, and is prepared in the background of the other requests.
Prepare ==
  /\ inSlot # 0 => Got(inSlot).state \notin Active
  /\ \E n \in 1 .. MaxExports \ Used :
       /\ inSlot' = n
       /\ slots' = [m \in 1 .. MaxExports |->
            IF m = n THEN [state |-> "preparing", version |-> wikiVersion, expired |-> FALSE,
                           ticket |-> FALSE, entries |-> {}, snap |-> items]
            ELSE IF m = inSlot THEN Got(m) ELSE slots[m]]
  /\ UNCHANGED <<wiki, dl>>

\* The next item is measured after a check, between pauses.
PrepareItem(n, i) ==
  /\ slots[n].state = "preparing" /\ i \notin slots[n].entries
  /\ slots' = [slots EXCEPT ![n] =
       IF Check(n) THEN [slots[n] EXCEPT !.entries = @ \cup {i}] ELSE Failed(@)]
  /\ UNCHANGED <<wiki, inSlot, dl>>

\* All are measured: the export is ready for five minutes, with its ticket.
Ready(n) ==
  /\ slots[n].state = "preparing" /\ slots[n].entries = Item
  /\ slots' = [slots EXCEPT ![n] =
       IF Check(n) THEN [@ EXCEPT !.state = "ready", !.expired = FALSE, !.ticket = TRUE]
       ELSE Failed(@)]
  /\ UNCHANGED <<wiki, inSlot, dl>>

\* A budget, a missing file or an aborted request ends the preparation.
PrepareFails(n) ==
  /\ slots[n].state = "preparing"
  /\ slots' = [slots EXCEPT ![n] = Failed(@)]
  /\ UNCHANGED <<wiki, inSlot, dl>>

-----------------------------------------------------------------------------
(* status, cancel and download: requests that name the current export *)

Status ==
  /\ inSlot # 0
  /\ slots' = [slots EXCEPT ![inSlot] = Got(inSlot)]
  /\ UNCHANGED <<wiki, inSlot, dl>>

Cancel ==
  /\ inSlot # 0
  /\ slots' = [slots EXCEPT ![inSlot] =
       IF Got(inSlot).state = "complete" THEN @
       ELSE [@ EXCEPT !.state = "canceled", !.ticket = FALSE, !.entries = {}]]
  /\ UNCHANGED <<wiki, inSlot, dl>>

\* The slot is found, the form is awaited.
Download(c) ==
  /\ inSlot # 0 /\ dl[c].pc = "none"
  /\ slots' = [slots EXCEPT ![inSlot] = Got(inSlot)]
  /\ dl' = [dl EXCEPT ![c] = [NoDownload EXCEPT !.pc = "form", !.slot = inSlot]]
  /\ UNCHANGED <<wiki, inSlot>>

Start(c) ==
  /\ slots' = [slots EXCEPT ![dl[c].slot] =
       [@ EXCEPT !.state = "downloading", !.expired = FALSE, !.ticket = FALSE]]
  /\ dl' = [dl EXCEPT ![c].pc = "stream"]
\* The ticket was compared before the form was awaited.
Form_Early(c) ==
  /\ dl[c].pc = "form"
  /\ IF slots[dl[c].slot].state \in {"ready", "downloading"} /\ Check(dl[c].slot)
     THEN Start(c)
     ELSE dl' = [dl EXCEPT ![c] = NoDownload] /\ UNCHANGED slots
  /\ UNCHANGED <<wiki, inSlot>>
\* The form arrived: another state, no ticket or a failed check refuses it.
Form(c) ==
  LET n == dl[c].slot
  IN  /\ dl[c].pc = "form"
      /\ IF slots[n].state = "ready" /\ slots[n].ticket /\ Check(n)
         THEN Start(c)
         ELSE dl' = [dl EXCEPT ![c] = NoDownload] /\ UNCHANGED slots
      /\ UNCHANGED <<wiki, inSlot>>

\* The stream ends with an error, which fails the export.
Abort(c) ==
  /\ slots' = [slots EXCEPT ![dl[c].slot] = Failed(@)]
  /\ dl' = [dl EXCEPT ![c] = NoDownload]

\* The client takes more: after a check the next item is read again and sent.
StreamItem(c, i) ==
  /\ dl[c].pc = "stream" /\ dl[c].sent[i] = Unread
  /\ IF Check(dl[c].slot)
     THEN dl' = [dl EXCEPT ![c].sent[i] = items[i]] /\ UNCHANGED slots
     ELSE Abort(c)
  /\ UNCHANGED <<wiki, inSlot>>

\* The central directory and the end record, after a last check: all is sent.
StreamEnd(c) ==
  /\ dl[c].pc = "stream" /\ \A i \in Item : dl[c].sent[i] # Unread
  /\ IF Check(dl[c].slot) THEN dl' = [dl EXCEPT ![c].pc = "sent"] /\ UNCHANGED slots
     ELSE Abort(c)
  /\ UNCHANGED <<wiki, inSlot>>

\* The generator is done: complete, whatever happened since the last check.
Complete(c) ==
  /\ dl[c].pc = "sent"
  /\ slots' = [slots EXCEPT ![dl[c].slot] = [@ EXCEPT !.state = "complete", !.entries = {}]]
  /\ dl' = [dl EXCEPT ![c].pc = "closing"]
  /\ UNCHANGED <<wiki, inSlot>>

\* The client goes away, or a file is missing in the bucket.
Disconnect(c) ==
  /\ dl[c].pc \in {"stream", "sent", "closing"} /\ Abort(c)
  /\ UNCHANGED <<wiki, inSlot>>
\* The client took the last bytes.
Closed(c) ==
  /\ dl[c].pc = "closing" /\ dl' = [dl EXCEPT ![c] = NoDownload]
  /\ UNCHANGED <<wiki, slots, inSlot>>

-----------------------------------------------------------------------------
(* The surroundings *)

\* change: an edit, a comment or an upload.
WikiEdit(i) ==
  /\ wikiVersion < MaxChanges
  /\ wikiVersion' = wikiVersion + 1 /\ items' = [items EXCEPT ![i] = wikiVersion + 1]
  /\ UNCHANGED <<slots, inSlot, dl>>

\* A deadline passes.
Expire(n) ==
  /\ slots[n].state \in Active /\ ~slots[n].expired
  /\ slots' = [slots EXCEPT ![n].expired = TRUE]
  /\ UNCHANGED <<wiki, inSlot, dl>>

\* The object is evicted: exports and downloads are lost.
ExportRestart ==
  /\ slots' = [n \in 1 .. MaxExports |-> NoSlot] /\ inSlot' = 0
  /\ dl' = [c \in Reader |-> NoDownload]
  /\ UNCHANGED wiki

ExportNext ==
  \/ Prepare \/ Status \/ Cancel \/ ExportRestart
  \/ \E n \in 1 .. MaxExports :
       (\E i \in Item : PrepareItem(n, i)) \/ Ready(n) \/ PrepareFails(n) \/ Expire(n)
  \/ \E i \in Item : WikiEdit(i)
  \/ \E c \in Reader :
       \/ Download(c) \/ Form(c) \/ StreamEnd(c) \/ Complete(c) \/ Disconnect(c) \/ Closed(c)
       \/ \E i \in Item : StreamItem(c, i)

ExportSpec == ExportInit /\ [][ExportNext]_exportVars

-----------------------------------------------------------------------------
(* Properties *)

\* Every variable holds what the code stores, a ticket belongs to a ready
\* export, and an export that ended keeps no entries.
ExportTypeOK ==
  /\ wikiVersion \in 0 .. MaxChanges /\ inSlot \in 0 .. MaxExports
  /\ \A i \in Item : items[i] \in 0 .. wikiVersion
  /\ \A n \in 1 .. MaxExports :
       /\ slots[n].state \in Active \cup {"none", "complete", "failed", "canceled"}
       /\ slots[n].ticket = (slots[n].state = "ready")
       /\ slots[n].state \notin Active => slots[n].entries = {}
       /\ slots[n].state \in {"ready", "downloading"} => slots[n].entries = Item
  /\ \A c \in Reader : dl[c].pc \in {"form", "stream", "sent", "closing"} => dl[c].slot \in Used

\* One export of one version: only the export in the slot is active, so that
\* coroutines of replaced exports stop; its archive goes to one download; and a
\* download that sent all its bytes sent every item as it was at the version the
\* export announced, although each was read at its own time (check before every
\* part; "combining different versions", wiki.md).
OneExport ==
  /\ ExportTypeOK
  /\ \A n \in 1 .. MaxExports : slots[n].state \in Active => n = inSlot
  /\ \A c, d \in Reader :
       c # d /\ {dl[c].pc, dl[d].pc} \subseteq {"stream", "sent", "closing"}
         => dl[c].slot # dl[d].slot
  /\ \A c \in Reader : dl[c].pc \in {"sent", "closing"} => dl[c].sent = slots[dl[c].slot].snap

=============================================================================
