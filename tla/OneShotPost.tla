------------------------------ MODULE OneShotPost ------------------------------
(***************************************************************************)
(* One run of the command line client (celld/static/client.mjs; the client  *)
(* of srv/static is the same without the settings request) against a chat   *)
(* that screens what is posted (celld/native/worker.ts with settings.ts,    *)
(* message.ts, moderation.ts and tagging.ts).  The client keeps no state    *)
(* and never retries: what it prints is all its caller has to decide        *)
(* whether to post again.                                                   *)
(*                                                                         *)
(* A message is its sender and whether it is sealed.  The provider, outside *)
(* this repository, answers anything; answers to the client may be lost or  *)
(* replaced by those of a proxy.  Long polls, paging and cryptography are   *)
(* left out; a chat is deleted at most, and ChannelStore and CelldChat      *)
(* model what happens between its requests.                                 *)
(***************************************************************************)
EXTENDS Integers, FiniteSets

CONSTANTS
  Sender, \* client processes, each for one message
  Env     \* settings the operator may deploy: encryption, moderation and tagging,
          \* "0", "1" or anything else, and whether the provider's key is usable

ASSUME PostAssumption ==
  /\ Env \subseteq [enc: STRING, jev: STRING, tag: STRING, key: BOOLEAN]
  /\ IsFiniteSet(Sender)

VARIABLES
  env,     \* the server's settings
  mode,    \* the chat's mode, as it was created
  live,    \* the chat exists
  log,     \* the senders of its events, in no order: the head is their number
  cmd,     \* per client: where it is, its mode, its --last, attempted
  handler, \* per client: where the server's handler is, the answer on its way
  print,   \* per client, what it printed of its post: posted, refused (not posted),
           \* unsent (not attempted) or unknown (may have succeeded)
  asked    \* history: messages the provider was asked about and did not block

postVars == <<env, mode, live, log, cmd, handler, print, asked>>

IsOn(flag) == flag = "1"
Valid(flag) == flag \in {"0", "1"}

NoReply == [status |-> 0, posted |-> "unsaid", events |-> FALSE]
Reply(status, posted) == [status |-> status, posted |-> posted, events |-> status \in {200, 409}]
\* HTTPError with a code says posted: false, one without says nothing.
Coded(status) == Reply(status, "no")
Plain(status) == Reply(status, "unsaid")

Mode == {"sealed", "readable"}

PostInit ==
  /\ env \in Env /\ mode \in Mode /\ live = TRUE /\ log = {}
  /\ cmd = [c \in Sender |-> [pc |-> "start", mode |-> "sealed", last |-> 0, attempted |-> FALSE]]
  /\ handler = [c \in Sender |-> [pc |-> "none", reply |-> NoReply]]
  /\ print = [c \in Sender |-> "nothing"] /\ asked = {}

-----------------------------------------------------------------------------
(* settings *)

\* Encryption takes precedence over the settings of the provider.
SettingsValid ==
  /\ Valid(env.enc)
  /\ IsOn(env.enc) \/ (Valid(env.jev) /\ Valid(env.tag))
Moderation == mode = "readable" /\ ~IsOn(env.enc) /\ IsOn(env.jev)
Tagging == mode = "readable" /\ ~IsOn(env.enc) /\ IsOn(env.tag)
PostingAllowed == (mode = "sealed") <=> IsOn(env.enc)

-----------------------------------------------------------------------------
(* The client *)

Exit(c, what) ==
  /\ cmd' = [cmd EXCEPT ![c].pc = "exited"] /\ print' = [print EXCEPT ![c] = what]
\* The error path: an attempted post may have succeeded.
ExitFailed(c, attempted) == Exit(c, IF attempted THEN "unknown" ELSE "unsent")

\* The client of srv/static asks for no settings and always seals.
Launch(c) ==
  /\ cmd[c].pc = "start"
  /\ \E pc \in {"config", "send"}, l \in 0 .. Cardinality(Sender) :
       cmd' = [cmd EXCEPT ![c].pc = pc, ![c].last = l]
  /\ UNCHANGED <<env, mode, live, log, handler, print, asked>>

\* The settings: 404 falls back to the sealed protocol, a server that does not
\* admit posts to this chat, any other answer or none ends the run.
Config(c) ==
  /\ cmd[c].pc = "config"
  /\ \/ ~live /\ cmd' = [cmd EXCEPT ![c].pc = "send"] /\ UNCHANGED print
     \/ /\ live /\ SettingsValid /\ PostingAllowed
        /\ cmd' = [cmd EXCEPT ![c].pc = "send", ![c].mode = mode] /\ UNCHANGED print
     \/ ExitFailed(c, FALSE)
  /\ UNCHANGED <<env, mode, live, log, handler, asked>>

\* The message is read and the request leaves, or the input is no message.
Send(c) ==
  /\ cmd[c].pc = "send"
  /\ \/ /\ cmd' = [cmd EXCEPT ![c].pc = "sent", ![c].attempted = TRUE]
        /\ handler' = [handler EXCEPT ![c].pc = "arrived"] /\ UNCHANGED print
     \/ ExitFailed(c, FALSE) /\ UNCHANGED handler
  /\ UNCHANGED <<env, mode, live, log, asked>>

\* Names with a suffix are plausible mistakes, used to test the properties.

\* Any refusal is taken for a post that was not attempted.
Denied_Any(reply) == reply.status # 200
\* The refusals that come before the event is stored, by their codes.
Denied(reply) == reply.posted = "no"

\* An answer: 200 and 409 with events are final, any other is an error.
Answered(c, reply) ==
  CASE reply.status = 200 /\ reply.events -> Exit(c, "posted")
    [] reply.status = 409 /\ reply.events -> Exit(c, "refused")
    [] reply.status \notin {200, 409} /\ Denied(reply) -> Exit(c, "refused")
    [] OTHER -> ExitFailed(c, cmd[c].attempted)
Receive(c) ==
  /\ cmd[c].pc = "sent" /\ handler[c].pc = "replied"
  /\ Answered(c, handler[c].reply)
  /\ UNCHANGED <<env, mode, live, log, handler, asked>>
\* The connection breaks, the time-out passes, or a proxy answers for the server.
NoAnswer(c) ==
  /\ cmd[c].pc = "sent"
  /\ \/ ExitFailed(c, cmd[c].attempted)
     \/ \E status \in {200, 409, 502} : Answered(c, [Plain(status) EXCEPT !.events = FALSE])
  /\ UNCHANGED <<env, mode, live, log, handler, asked>>

-----------------------------------------------------------------------------
(* The server *)

Respond(c, reply) == handler' = [handler EXCEPT ![c] = [pc |-> "replied", reply |-> reply]]
Continue(c, pc) == handler' = [handler EXCEPT ![c].pc = pc]

\* A sealed message is taken in any chat.
BodyFits_Any(c) == TRUE
\* incomingMessage: a chat takes the messages of its mode only.
BodyFits(c) == cmd[c].mode = mode

\* check: the chat, then its head.
Checked(c, ok) ==
  CASE ~live -> Respond(c, Plain(404))
    [] live /\ cmd[c].last # Cardinality(log) -> Respond(c, Coded(409))
    [] OTHER -> ok

\* handle, up to the first await after the body: settings, body and check.
Arrived(c) ==
  /\ handler[c].pc = "arrived"
  /\ CASE ~live -> Respond(c, Plain(404))
       [] live /\ ~SettingsValid -> Respond(c, Coded(503))
       [] live /\ SettingsValid /\ ~PostingAllowed -> Respond(c, Coded(412))
       [] live /\ SettingsValid /\ PostingAllowed /\ ~BodyFits(c) ->
            Respond(c, IF mode = "sealed" THEN Plain(400) ELSE Coded(400))
       [] OTHER -> Checked(c, Continue(c, IF Moderation \/ Tagging THEN "screen" ELSE "commit"))
  /\ UNCHANGED <<env, mode, live, log, cmd, print, asked>>

Verdict == [ok: BOOLEAN, blocked: BOOLEAN]
\* A provider that cannot be asked lets a message pass.
Evaluated_Open(a) ==
  IF ~env.key \/ ~a.ok THEN "accepted"
  ELSE IF Moderation /\ a.blocked THEN "rejected" ELSE "accepted"
\* evaluateMessage: without a valid answer in time a moderated message is not
\* accepted, an unmoderated one passes untagged; tags decide nothing.
Evaluated(a) ==
  IF ~env.key \/ ~a.ok THEN (IF Moderation THEN "unavailable" ELSE "accepted")
  ELSE IF Moderation /\ a.blocked THEN "rejected" ELSE "accepted"

Screen(c) ==
  /\ handler[c].pc = "screen"
  /\ \E a \in Verdict :
       /\ CASE Evaluated(a) = "accepted" -> Continue(c, "commit")
            [] Evaluated(a) = "rejected" -> Respond(c, Coded(422))
            [] OTHER -> Respond(c, Coded(503))
       /\ asked' = IF env.key /\ a.ok /\ ~a.blocked THEN asked \cup {c} ELSE asked
  /\ UNCHANGED <<env, mode, live, log, cmd, print>>

\* The transaction: the check again, and the event.
Commit(c) ==
  /\ handler[c].pc = "commit"
  /\ IF live /\ cmd[c].last = Cardinality(log)
     THEN log' = log \cup {c} /\ Continue(c, "poll")
     ELSE Checked(c, FALSE) /\ UNCHANGED log
  /\ UNCHANGED <<env, mode, live, cmd, print, asked>>

\* A chat that is gone after the commit was not posted to.
PollReply_Coded == IF live THEN Reply(200, "yes") ELSE Coded(404)
\* The post polls before it answers; the chat may be gone by then.
PollReply == IF live THEN Reply(200, "yes") ELSE Plain(404)
AfterCommit(c) ==
  /\ handler[c].pc = "poll" /\ Respond(c, PollReply)
  /\ UNCHANGED <<env, mode, live, log, cmd, print, asked>>

\* An internal error, or the process is lost: 500 or no answer.
ServerFails(c) ==
  /\ handler[c].pc \in {"arrived", "screen", "commit", "poll"} /\ Respond(c, Plain(500))
  /\ UNCHANGED <<env, mode, live, log, cmd, print, asked>>

ChatGone ==
  /\ live /\ live' = FALSE
  /\ UNCHANGED <<env, mode, log, cmd, handler, print, asked>>
\* The operator deploys other settings.
Redeploy ==
  /\ \E e \in Env : e # env /\ env' = e
  /\ \A c \in Sender : handler[c].pc \in {"none", "replied"}
  /\ UNCHANGED <<mode, live, log, cmd, handler, print, asked>>

PostNext ==
  \/ \E c \in Sender :
       \/ Launch(c) \/ Config(c) \/ Send(c) \/ Receive(c) \/ NoAnswer(c)
       \/ Arrived(c) \/ Screen(c) \/ Commit(c) \/ AfterCommit(c) \/ ServerFails(c)
  \/ ChatGone \/ Redeploy

PostSpec == PostInit /\ [][PostNext]_postVars

-----------------------------------------------------------------------------
(* Properties *)

\* A message the client calls posted is in the log, one it calls not posted or
\* not attempted never is.
Truthful(c) ==
  /\ print[c] = "posted" => c \in log
  /\ print[c] \in {"refused", "unsent"} =>
       c \notin log /\ handler[c].pc \in {"none", "replied"}

\* Honest verdict: what the client printed stays true, although the server may
\* still work on its request ("Post may have succeeded" is said whenever neither
\* is known).
HonestVerdict == \A c \in Sender : Truthful(c)

Screened(c) ==
  /\ c \in log => cmd[c].mode = mode
  /\ handler[c].pc = "poll" /\ Moderation => c \in asked
  /\ c \in asked => mode = "readable"

\* Screened first: under moderation no readable message is stored that the
\* provider did not answer for, and none of another mode than the chat's ("a
\* ciphertext envelope cannot bypass screening", celld/native/message.ts; "a
\* tagging failure never turns an unavailable or rejecting moderation decision
\* into an accepted post").
ScreenedFirst == \A c \in Sender : Screened(c)

=============================================================================
