----------------------------- MODULE SummaryStream -----------------------------
(***************************************************************************)
(* A summary of a chat or wiki: the limiter and the stream of               *)
(* celld/native/summaries.ts, asked for by the chat (worker.ts) or the wiki *)
(* (wiki.ts) after its own authorization, and the dialog that shows it      *)
(* (celld/browser/summary.js).  The provider is outside this repository: it *)
(* may stop, fail or finish at any frame, or never again be heard of until  *)
(* the timer ends the request.                                              *)
(*                                                                         *)
(* A request is a number.  What the text says is left out: of a stream only *)
(* whether it has text, how it finished and what was sent to the page.      *)
(***************************************************************************)
EXTENDS Integers, FiniteSets, Sequences

CONSTANTS
  Page,       \* pages with a dialog
  Nobody,     \* no page
  Concurrent, \* streams at a time
  PerMinute,  \* streams begun in a minute
  MaxCalls    \* bound: summaries asked for

ASSUME SummaryAssumption ==
  Concurrent \in Nat \ {0} /\ PerMinute \in Nat \ {0} /\ MaxCalls \in Nat

VARIABLES
  slots,  \* SummaryLimiter.active
  recent, \* SummaryLimiter.starts of the last minute
  asker,  \* per request, the page that asked
  served, \* per request: where the server is, its slot, its provider's answer
  wire,   \* per request, the events on the way to its page
  valid,  \* the reader may still read the resource, unchanged in generation
  turn,   \* per page, its last request (epoch), 0 for none
  pane    \* per page: what the dialog says, the requests whose text it shows, and
          \* whether the answer of its last request is still open

summaryVars == <<slots, recent, asker, served, wire, valid, turn, pane>>

Streams == 1 .. MaxCalls
NoStream == [pc |-> "none", held |-> FALSE, text |-> FALSE, finish |-> "none"]
NoPane == [says |-> "nothing", shows |-> {}, open |-> FALSE]

SummaryInit ==
  /\ slots = 0 /\ recent = 0 /\ served = [n \in Streams |-> NoStream]
  /\ wire = [n \in Streams |-> <<>>] /\ valid = TRUE /\ asker = [n \in Streams |-> Nobody]
  /\ turn = [p \in Page |-> 0] /\ pane = [p \in Page |-> NoPane]

\* The page goes on with another request, or aborted this one: nothing more is
\* sent to it.
HungUp(n) == turn[asker[n]] # n \/ pane[asker[n]].says \in {"stopped", "failed"}
Tell(n, event) == wire' = IF HungUp(n) THEN wire ELSE [wire EXCEPT ![n] = Append(@, event)]

-----------------------------------------------------------------------------
(* The server *)

\* Names with a suffix are plausible mistakes, used to test the properties.

\* The slot is returned at every call of release.
Release_Twice(n) == slots' = slots - 1
\* release: the slot is returned at the first call only.
Release(n) == slots' = IF served[n].held THEN slots - 1 ELSE slots
Ends(n, pc) ==
  /\ Release(n) /\ served' = [served EXCEPT ![n].pc = pc, ![n].held = FALSE]

\* streamSummary: the limiter and the request to the provider.  Its first check
\* is made in the same turn as its caller's, so it never fails after the limiter
\* counted a start.
Acquire(n) ==
  /\ served[n].pc = "asked"
  /\ IF valid /\ slots < Concurrent /\ recent < PerMinute
     THEN /\ slots' = slots + 1 /\ recent' = recent + 1
          /\ served' = [served EXCEPT ![n].pc = "fetch", ![n].held = TRUE] /\ UNCHANGED wire
     ELSE /\ served' = [served EXCEPT ![n].pc = "over"] /\ Tell(n, "refused")
          /\ UNCHANGED <<slots, recent>>
  /\ UNCHANGED <<valid, turn, pane, asker>>

\* The provider answers with a stream, and the check still passes; else (refused,
\* aborted, timed out, or the check failed) the slot is returned.
Provider(n) ==
  /\ served[n].pc = "fetch"
  /\ \/ valid /\ served' = [served EXCEPT ![n].pc = "open"] /\ Tell(n, "meta") /\ UNCHANGED slots
     \/ Ends(n, "over") /\ Tell(n, "refused")
  /\ UNCHANGED <<recent, valid, turn, pane, asker>>

\* A frame with text, or with the reason the text ended: the last one counts.
Delta(n) ==
  /\ served[n].pc = "open" /\ valid /\ ~served[n].text
  /\ served' = [served EXCEPT ![n].text = TRUE] /\ Tell(n, "delta")
  /\ UNCHANGED <<slots, recent, valid, turn, pane, asker>>
Finish(n) ==
  /\ served[n].pc = "open" /\ valid
  /\ \E f \in {"stop", "length", "filter"} : served' = [served EXCEPT ![n].finish = f]
  /\ UNCHANGED <<slots, recent, wire, valid, turn, pane, asker>>

\* The end of the stream will do.
Complete_AtEnd(n) == TRUE
\* Text, a proper reason and a check that passes make a summary complete.
Complete(n) == served[n].text /\ served[n].finish \in {"stop", "length"} /\ valid
Event(n) == IF served[n].finish = "length" THEN "truncated" ELSE "done"

\* [DONE], then the stream is closed and the slot returned.
Done(n) ==
  /\ served[n].pc = "open" /\ Ends(n, "over")
  /\ Tell(n, IF Complete(n) THEN Event(n) ELSE "error")
  /\ UNCHANGED <<recent, valid, turn, pane, asker>>

\* Nothing ends a stream whose provider says no more.
Broken_NoTimer(n) ==
  /\ served[n].pc = "open" /\ served[n].text /\ Ends(n, "over") /\ Tell(n, "error")
  /\ UNCHANGED <<recent, valid, turn, pane, asker>>
\* The timer, a limit, an invalid or missing frame, a check that fails.
Broken(n) ==
  /\ served[n].pc = "open" /\ Ends(n, "over") /\ Tell(n, "error")
  /\ UNCHANGED <<recent, valid, turn, pane, asker>>

\* The page went away: cancel() returns the slot at once, and the reader that
\* waits for the provider ends later, with a second call of release.
Cancel(n) ==
  /\ served[n].pc = "open" /\ Ends(n, "canceled")
  /\ HungUp(n)
  /\ UNCHANGED <<recent, wire, valid, turn, pane, asker>>
ReaderEnds(n) ==
  /\ served[n].pc = "canceled" /\ Ends(n, "over")
  /\ UNCHANGED <<recent, wire, valid, turn, pane, asker>>

\* A start is a minute old.
MinuteOld ==
  /\ recent > 0 /\ recent' = recent - 1
  /\ UNCHANGED <<slots, served, wire, valid, turn, pane, asker>>
\* The resource is deleted, expires, or a chat begins a new generation.
Revoke ==
  /\ valid /\ valid' = FALSE
  /\ UNCHANGED <<slots, recent, served, wire, turn, pane, asker>>

-----------------------------------------------------------------------------
(* The dialog *)

Gives(p, what) == pane' = [pane EXCEPT ![p].says = what, ![p].open = FALSE]

\* start: a new turn; the request before it is aborted and its text forgotten.
Press(p) ==
  /\ \E n \in Streams :
       /\ served[n].pc = "none" /\ \A m \in 1 .. n - 1 : served[m].pc # "none"
       /\ served' = [served EXCEPT ![n].pc = "asked"] /\ turn' = [turn EXCEPT ![p] = n]
       /\ asker' = [asker EXCEPT ![n] = p]
  /\ pane' = [pane EXCEPT ![p] = [says |-> "preparing", shows |-> {}, open |-> TRUE]]
  /\ UNCHANGED <<slots, recent, wire, valid>>

\* Stop, Close or leaving the page aborts the request, also when its last event
\* was read but the answer is not closed: then a summary shown as complete is
\* called stopped.
Stop(p) ==
  /\ pane[p].open /\ Gives(p, "stopped")
  /\ UNCHANGED <<slots, recent, served, wire, valid, turn, asker>>

\* Events are applied whichever request they belong to.
Applies_Any(p, n) == TRUE
\* An answer of an earlier turn, or of a turn that was stopped, is dropped.
Applies(p, n) == turn[p] = n /\ pane[p].says \in {"preparing", "writing"}

Shown(p, n, event) ==
  CASE event = "meta"      -> pane
    [] event = "delta"     -> [pane EXCEPT ![p].says = "writing", ![p].shows = @ \cup {n}]
    [] event = "done"      -> [pane EXCEPT ![p].says = "complete"]
    [] event = "truncated" -> [pane EXCEPT ![p].says = "truncated"]
    [] OTHER               -> [pane EXCEPT ![p].says = "failed", ![p].open = FALSE]
\* The next event of a request is read by the page that asked for it.
Read(p, n) ==
  /\ wire[n] # <<>> /\ asker[n] = p
  /\ wire' = [wire EXCEPT ![n] = Tail(@)]
  /\ pane' = IF Applies(p, n) THEN Shown(p, n, Head(wire[n])) ELSE pane
  /\ UNCHANGED <<slots, recent, served, valid, turn, asker>>
\* The connection breaks, or ends before an event that ends the summary.
Lost(p) ==
  /\ pane[p].open /\ Gives(p, "failed")
  /\ UNCHANGED <<slots, recent, served, wire, valid, turn, asker>>
\* The answer is closed after such an event.
AnswerEnds(p) ==
  /\ pane[p].open /\ pane[p].says \in {"complete", "truncated"}
  /\ Gives(p, pane[p].says)
  /\ UNCHANGED <<slots, recent, served, wire, valid, turn, asker>>

SummaryNext ==
  \/ \E n \in Streams :
       \/ Acquire(n) \/ Provider(n) \/ Delta(n) \/ Finish(n) \/ Done(n) \/ Broken(n)
       \/ Cancel(n) \/ ReaderEnds(n)
       \/ \E p \in Page : Read(p, n)
  \/ \E p \in Page : Press(p) \/ Stop(p) \/ Lost(p) \/ AnswerEnds(p)
  \/ MinuteOld \/ Revoke

SummarySpec == SummaryInit /\ [][SummaryNext]_summaryVars

-----------------------------------------------------------------------------
(* Properties *)

\* Honest summary: the dialog shows the text of its last request only, and says
\* complete only of a summary that has text, ended for a proper reason and was
\* delivered whole; the limiter counts exactly the streams that hold a slot,
\* however a stream ends and whoever ends it.
SummaryHonest ==
  /\ slots = Cardinality({n \in Streams : served[n].held}) /\ slots <= Concurrent
  /\ recent \in 0 .. PerMinute
  /\ \A n \in Streams : served[n].held => served[n].pc \in {"fetch", "open"}
  /\ \A p \in Page :
       /\ pane[p].shows \subseteq {turn[p]}
       /\ pane[p].says \in {"complete", "truncated"} =>
            /\ pane[p].shows = {turn[p]} /\ served[turn[p]].pc = "over" /\ served[turn[p]].text
            /\ served[turn[p]].finish = IF pane[p].says = "complete" THEN "stop" ELSE "length"

\* Every slot is returned: the timer ends a stream that nothing else ends.
SlotsReturn == []<>(slots = 0)
\* The timer runs for the request to the provider and for its answer.
SummaryFairness == \A n \in Streams : WF_summaryVars(Provider(n) \/ Broken(n))

=============================================================================
