------------------------------- MODULE ChatView -------------------------------
(***************************************************************************)
(* The widgets of a chat page (srv/browser/view.js, conversation.js): the    *)
(* title one edits in place, the name one posts under, the reactions of a   *)
(* message and the composer.  Each shows what the channel said last, keeps   *)
(* what the user has not yet got across, and posts through the same         *)
(* session, whose answers and deliveries come in between.                    *)
(*                                                                         *)
(* BrowserSession models that session; here an append is a post that is     *)
(* accepted or not, answered or not, and whose event is delivered in the     *)
(* order of the log, all under the name of the first (its OneName).  One    *)
(* message carries the reactions, by one token.  Rows, markdown, colours,    *)
(* scrolling, expiry and the picker's suggestions are presentation.          *)
(***************************************************************************)
EXTENDS Integers, Sequences, FiniteSets

CONSTANTS
  Titles, Texts, \* what the user may type; neither holds the empty one
  Nick,          \* valid names
  MaxPosts,      \* bound: posts of this page
  MaxActs        \* bound: what the user types, opens, clicks and sends, and
                 \* events of other participants

NoText == ""

ASSUME ChatViewAssumption ==
  /\ "human" \in Nick /\ NoText \notin Titles \cup Texts \cup Nick
  /\ {MaxPosts, MaxActs} \subseteq Nat

VARIABLES
  title,    \* the title the channel has, as far as delivered
  head,     \* the heading: its text, in focus, draft, start, count of visits
  me,       \* the identity: name and locked; the open editor's text, the label
  reacted,  \* who reacted, as far as delivered
  chips,    \* what is drawn of it: the names, whether one's own is among them
  compose,  \* the composer: the text, whether a send is on its way
  posts,    \* appends of the page, in order
  feed,     \* events of the log that are not yet presented
  dirty,    \* the delivery being folded has reactions to draw
  gone,     \* the channel was deleted or found missing
  picker,   \* the reaction picker of the message is open
  acts,     \* what this user and the others may still do
  wrote     \* history: the text the user last wrote

chatViewVars == <<title, head, me, reacted, chips, compose, posts, feed, dirty, gone, picker, acts, wrote>>
widgets == <<title, head, reacted, feed, dirty, gone, picker, wrote>>

NoEditor == "closed"
BadName == "bad-name"
Pending == {i \in DOMAIN posts : posts[i].pc = "pending"}
OwnName == {posts[i].from : i \in {j \in DOMAIN posts : posts[j].at = "log"}}

ViewInit ==
  /\ title = NoText /\ wrote = NoText
  /\ head = [text |-> NoText, focus |-> FALSE, draft |-> FALSE, start |-> NoText, visit |-> 0]
  /\ me = [name |-> "human", locked |-> FALSE, editor |-> NoEditor, label |-> "human"]
  /\ reacted = {} /\ chips = [who |-> {}, mine |-> FALSE]
  /\ compose = [text |-> NoText, sending |-> FALSE]
  /\ posts = <<>> /\ feed = <<>> /\ dirty = FALSE /\ gone = FALSE /\ picker = FALSE
  /\ acts = MaxActs

\* A page that is gone reloads: what is typed there concerns nobody.
Act == ~gone /\ acts > 0 /\ acts' = acts - 1

\* renderReacts
Drawn(name) == [who |-> reacted, mine |-> name \in reacted]

-----------------------------------------------------------------------------
(* The name *)

EditName ==
  /\ Act /\ ~me.locked /\ Pending = {} /\ me.editor = NoEditor
  /\ me' = [me EXCEPT !.editor = me.name]
  /\ UNCHANGED <<widgets, chips, compose, posts>>
TypeName ==
  /\ Act /\ me.editor # NoEditor /\ Pending = {}
  /\ \E n \in Nick \cup {NoText, BadName} : me' = [me EXCEPT !.editor = n]
  /\ UNCHANGED <<widgets, chips, compose, posts>>

\* commitName adopts a new valid name unless posts are pending, and closes the
\* editor; otherwise the draft stays open.
NewName == me.editor \notin {NoText, me.name}
Commits == me.locked \/ ~NewName \/ (me.editor # BadName /\ Pending = {})
Committed ==
  IF me.locked \/ ~NewName THEN [me EXCEPT !.editor = NoEditor]
  ELSE [me EXCEPT !.name = me.editor, !.label = me.editor, !.editor = NoEditor]

\* Names with a suffix are plausible mistakes, used to test the properties.
\* A new name does not concern the reactions.
CommitName_Undrawn ==
  /\ me.editor # NoEditor /\ ~gone
  /\ Commits /\ me' = Committed
  /\ UNCHANGED <<widgets, chips, compose, posts>>
CommitName ==
  /\ me.editor # NoEditor /\ ~gone
  /\ Commits /\ me' = Committed /\ chips' = IF NewName /\ ~me.locked THEN Drawn(me.editor) ELSE chips
  /\ UNCHANGED <<widgets, compose, posts>>

-----------------------------------------------------------------------------
(* Posting *)

\* me(), then append: an open editor is committed first; without a valid name
\* or on a page that is gone the post fails at once.
CanPost == ~gone /\ (me.locked \/ me.editor = NoEditor \/ Commits)
Speaker == IF me.locked \/ me.editor = NoEditor THEN me ELSE Committed
Append1(kind, text) ==
  /\ Len(posts) < MaxPosts
  /\ posts' = Append(posts, [kind |-> kind, text |-> text, from |-> Speaker.name, visit |-> head.visit,
                             pc |-> IF CanPost THEN "pending" ELSE "failed",
                             at |-> IF CanPost THEN "net" ELSE "refused"])
  /\ IF CanPost
     THEN /\ me' = Speaker
          /\ chips' = IF Speaker.name # me.name THEN Drawn(Speaker.name) ELSE chips
     ELSE UNCHANGED <<me, chips>>

\* The server takes or refuses a post, whether the page waits for it or not.
Accepted(i) ==
  /\ posts[i].at = "net" /\ ~gone
  /\ \/ LET from == IF OwnName = {} THEN posts[i].from ELSE CHOOSE n \in OwnName : TRUE
        IN  /\ posts' = [posts EXCEPT ![i].at = "log", ![i].from = from]
            /\ feed' = Append(feed, [kind |-> posts[i].kind, text |-> posts[i].text, from |-> from, own |-> TRUE])
     \/ posts' = [posts EXCEPT ![i].at = "refused"] /\ UNCHANGED feed
  /\ UNCHANGED <<title, head, me, reacted, chips, compose, dirty, gone, picker, wrote>>

\* lockName and showLockedName
Lock(from) ==
  IF me.locked THEN UNCHANGED <<me, chips>>
  ELSE /\ me' = [name |-> from, locked |-> TRUE, editor |-> NoEditor, label |-> from]
       /\ chips' = Drawn(from)

\* An older save is done: the heading shows the channel's title again.
TitleSaved_Any(p) == [head EXCEPT !.draft = FALSE, !.text = title]
\* Only the save of the last visit ends the draft (showTitle).
TitleSaved(p) ==
  IF p.visit # head.visit THEN head
  ELSE [head EXCEPT !.draft = FALSE, !.text = IF head.focus THEN @ ELSE title]

\* The composer is emptied when a send is done.
Sent_Clears(p) == [text |-> NoText, sending |-> FALSE]
\* A text that was changed meanwhile stays.
Sent(p) == [text |-> IF compose.text = p.text THEN NoText ELSE compose.text, sending |-> FALSE]

Succeeded(i) ==
  /\ posts[i].pc = "pending" /\ posts[i].at = "log"
  /\ posts' = [posts EXCEPT ![i].pc = "ok"]
  /\ Lock(posts[i].from)
  /\ head' = IF posts[i].kind = "title" THEN TitleSaved(posts[i]) ELSE head
  /\ compose' = IF posts[i].kind = "text" THEN Sent(posts[i]) ELSE compose
  /\ UNCHANGED <<title, reacted, feed, dirty, gone, picker, wrote>>

\* A refusal, an error or no answer: every draft stays.
PostFails(i) ==
  /\ posts[i].pc = "pending"
  /\ posts' = [posts EXCEPT ![i].pc = "failed"]
  /\ compose' = IF posts[i].kind = "text" THEN [compose EXCEPT !.sending = FALSE] ELSE compose
  /\ UNCHANGED <<widgets, me, chips>>

-----------------------------------------------------------------------------
(* The title *)

Focus ==
  /\ Act /\ ~head.focus
  /\ head' = [head EXCEPT !.focus = TRUE, !.visit = @ + 1, !.start = head.text]
  /\ UNCHANGED <<title, me, reacted, chips, compose, posts, feed, dirty, gone, picker, wrote>>
TypeTitle ==
  /\ Act /\ head.focus
  /\ \E t \in Titles \cup {NoText} : head' = [head EXCEPT !.text = t]
  /\ UNCHANGED <<title, me, reacted, chips, compose, posts, feed, dirty, gone, picker, wrote>>
Escape ==
  /\ head.focus
  /\ head' = [head EXCEPT !.focus = FALSE, !.draft = FALSE, !.start = title, !.text = title]
  /\ UNCHANGED <<title, me, reacted, chips, compose, posts, feed, dirty, gone, picker, wrote>>
\* Leaving the heading unchanged shows the channel's title; a changed heading
\* is a draft that is posted.
Blur ==
  /\ head.focus
  /\ \/ /\ head.text \in {head.start, title}
        /\ head' = [head EXCEPT !.focus = FALSE, !.draft = FALSE, !.text = title]
        /\ UNCHANGED <<me, chips, posts>>
     \/ /\ head.text \notin {head.start, title}
        /\ head' = [head EXCEPT !.focus = FALSE, !.draft = TRUE]
        /\ Append1("title", head.text)
  /\ UNCHANGED <<title, reacted, compose, feed, dirty, gone, picker, wrote>>

-----------------------------------------------------------------------------
(* Reactions and the composer *)

\* A chip takes one's own reaction back, by the name one has.
ClickChip ==
  /\ Act /\ Append1(IF me.name \in reacted THEN "unreact" ELSE "react", NoText)
  /\ UNCHANGED <<widgets, compose>>

\* The picker offers reactions to the message until one is picked, or it is left.
OpenPicker ==
  /\ Act /\ ~picker /\ picker' = TRUE
  /\ UNCHANGED <<title, head, me, reacted, chips, compose, posts, feed, dirty, gone, wrote>>
ClosePicker ==
  /\ picker /\ picker' = FALSE
  /\ UNCHANGED <<title, head, me, reacted, chips, compose, posts, feed, dirty, gone, wrote>>
\* pick closes it first, and reacts although one may have reacted already.
Pick ==
  /\ picker /\ picker' = FALSE /\ Append1("react", NoText)
  /\ UNCHANGED <<title, head, reacted, compose, feed, dirty, gone, wrote>>

\* A text is typed, or turned into a reply to a message (insertReply).
WriteText ==
  /\ Act /\ \E t \in Texts : t # compose.text /\ compose' = [compose EXCEPT !.text = t] /\ wrote' = t
  /\ UNCHANGED <<title, head, me, reacted, chips, posts, feed, dirty, gone, picker>>
SendText ==
  /\ Act /\ ~compose.sending /\ compose.text # NoText /\ Append1("text", compose.text)
  /\ compose' = [compose EXCEPT !.sending = CanPost]
  /\ UNCHANGED widgets

-----------------------------------------------------------------------------
(* Delivery *)

PeerSays ==
  /\ Act
  /\ \E e \in [kind: {"title"}, text: Titles, from: {"human"}, own: {FALSE}]
              \cup [kind: {"react", "unreact"}, text: {NoText}, from: Nick, own: {FALSE}] :
       feed' = Append(feed, e)
  /\ UNCHANGED <<title, head, me, reacted, chips, compose, posts, dirty, gone, picker, wrote>>

\* A delivered title replaces whatever the heading shows.
SetTitle_Always(t) == title' = t /\ head' = [head EXCEPT !.text = t]
\* setTitle: a heading in use or with a draft keeps its text.
SetTitle(t) ==
  title' = t /\ head' = IF head.focus \/ head.draft THEN head ELSE [head EXCEPT !.text = t]

\* conversation.apply for the next event of a batch; what it says of reactions
\* is drawn at the end.  One's own event locks the name before it is applied.
Apply ==
  /\ feed # <<>> /\ ~gone
  /\ LET e == Head(feed)
     IN  /\ IF e.kind = "title" THEN SetTitle(e.text) ELSE UNCHANGED <<title, head>>
         /\ reacted' = CASE e.kind = "react" -> reacted \cup {e.from}
                         [] e.kind = "unreact" -> reacted \ {e.from}
                         [] OTHER -> reacted
         /\ dirty' = (dirty \/ e.kind \in {"react", "unreact"})
         /\ IF e.own THEN Lock(e.from) ELSE UNCHANGED <<me, chips>>
         /\ feed' = Tail(feed)
  /\ UNCHANGED <<compose, posts, gone, picker, wrote>>
Finish ==
  /\ dirty /\ dirty' = FALSE /\ chips' = Drawn(me.name)
  /\ UNCHANGED <<title, head, me, reacted, compose, posts, feed, gone, picker, wrote>>

-----------------------------------------------------------------------------
(* The end of the channel *)

\* channelGone: deleteChannel succeeded, or a read found nothing; a title in focus is not
\* posted, the picker is closed.
Gone ==
  /\ ~gone /\ gone' = TRUE /\ head' = [head EXCEPT !.focus = FALSE] /\ picker' = FALSE
  /\ UNCHANGED <<title, me, reacted, chips, compose, posts, feed, dirty, wrote>>

ViewNext ==
  \/ EditName \/ TypeName \/ Focus \/ TypeTitle \/ ClickChip \/ OpenPicker \/ WriteText \/ SendText
  \/ PeerSays
  \/ /\ CommitName \/ Escape \/ Blur \/ ClosePicker \/ Pick \/ Apply \/ Finish \/ Gone
        \/ \E i \in DOMAIN posts : Accepted(i) \/ Succeeded(i) \/ PostFails(i)
     /\ UNCHANGED acts

ViewSpec == ViewInit /\ [][ViewNext]_chatViewVars

-----------------------------------------------------------------------------
(* Properties *)

\* A heading without a draft is the channel's title, and the draft of the last
\* visit stays until it is accepted, whatever is delivered or answered
\* ("Remote title updates preserve a local draft, and an older save completion
\* cannot overwrite a newer draft", srv/docs/browser.md).
TitleKept ==
  ~gone /\ ~head.focus =>
    /\ ~head.draft => head.text = title
    /\ \A i \in DOMAIN posts :
         posts[i].kind = "title" /\ posts[i].visit = head.visit /\ posts[i].pc # "ok"
           => head.text = posts[i].text

\* The name on the page is the name posts go out under, a locked name is that
\* of the page's events, and the reactions drawn are those delivered, with
\* one's own marked by that name, between deliveries.
NameShown ==
  /\ me.label = me.name
  /\ me.locked => OwnName \subseteq {me.name} /\ me.editor = NoEditor
  /\ ~dirty => chips = Drawn(me.name)

\* An empty composer means the text last written was accepted.
TextKept ==
  compose.text = NoText /\ wrote # NoText =>
    \E i \in DOMAIN posts : posts[i].kind = "text" /\ posts[i].text = wrote /\ posts[i].pc = "ok"

\* What the page shows is what the channel said or what its user asked and did
\* not get across, under every order of typing, answers and deliveries.
ShownAsAsked == TitleKept /\ NameShown /\ TextKept

=============================================================================
