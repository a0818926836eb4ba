------------------------------- MODULE CasLog -------------------------------
(***************************************************************************)
(* What a chat channel promises (srv/docs/protocol.md, "Responses and      *)
(* coordination"): an append-only log that a participant may extend only   *)
(* after it received every event already in it.                            *)
(***************************************************************************)
EXTENDS Naturals, Sequences

CONSTANTS Client, MaxEvents

VARIABLES
  alive,  \* the channel exists
  log,    \* its events, in order: the client that posted each
  got     \* per client: the sequence numbers it received

vars == <<alive, log, got>>

Nothing == [c \in Client |-> {}]

Init == alive = FALSE /\ log = <<>> /\ got = Nothing

Open ==
  /\ ~alive /\ alive' = TRUE
  /\ UNCHANGED <<log, got>>

\* Only a client that received the whole log may add to it; that it knows its
\* own event counts now or with a reply.
Post(c) ==
  /\ alive /\ Len(log) < MaxEvents
  /\ 0 .. (Len(log) - 1) \subseteq got[c]
  /\ log' = Append(log, c)
  /\ got' = got \/ got' = [got EXCEPT ![c] = @ \cup {Len(log)}]
  /\ UNCHANGED alive

\* A client receives events that exist.
Learn(c) ==
  /\ alive
  /\ \E s \in SUBSET (0 .. (Len(log) - 1)) : got' = [got EXCEPT ![c] = @ \cup s]
  /\ UNCHANGED <<alive, log>>

\* The channel is deleted or expires, with all its events.
Close ==
  /\ alive /\ alive' = FALSE
  /\ log' = <<>> /\ got' = Nothing

Next == Open \/ Close \/ \E c \in Client : Post(c) \/ Learn(c)

Spec == Init /\ [][Next]_vars
=============================================================================
