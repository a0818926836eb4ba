------------------------------ MODULE WikiEditor ------------------------------
(***************************************************************************)
(* One tab on a wiki (celld/browser/wiki.js, wiki-book.js): its one reader  *)
(* opens pages, edits, restores, deletes, comments and searches.  Each of   *)
(* these awaits a request, and while it does everything else can be         *)
(* clicked; what comes back late is dropped by an epoch, by comparing the   *)
(* page, or not at all.                                                     *)
(*                                                                         *)
(* The server takes a save of a page at the revision it names (WikiPages,   *)
(* NoLostEdit) and answers or the request fails.  A text is the page and    *)
(* the revision it was read at.  The layout is the book's; the classic one  *)
(* awaits no navigation.  Attachments, markdown and the tree of pages, which *)
(* follow-up requests only redraw, are left out; after a save the last of   *)
(* these requests counts, because it ends the save.                         *)
(***************************************************************************)
EXTENDS Integers, FiniteSets

CONSTANTS
  Leaf,      \* pages
  NoLeaf,    \* no page: nothing shown yet, a new page in the editor (editingID null)
  MaxRev,    \* bound: revisions of a page
  MaxClicks  \* bound: what the reader does, except answering, saving and leaving a draft

ASSUME WikiEditorAssumption == NoLeaf \notin Leaf /\ MaxRev \in Nat \ {0} /\ MaxClicks \in Nat

VARIABLES
  revision, \* the server's revision of each page, 0 before it is created
  calls,    \* requests of the tab on their way
  current,  \* the page shown, its revision, whether an old one, its turn
  epoch,    \* pageEpoch, and the last turn that failed
  crumbs,   \* the page whose breadcrumbs and neighbours are shown
  thread,   \* the pages whose comments are listed
  editor,   \* the editor: open, editingID, expected; history: the revisions its
            \* writer agreed to save over
  conflict, \* the conflict panel: shown, conflictPage and its revision
  saving,   \* a save is under way
  hits,     \* search: searchEpoch, the turn whose results are shown, the
            \* last that failed; history: the last query, 0 when the panel was closed
  clicks    \* what the reader may still do

editorVars == <<revision, calls, current, epoch, crumbs, thread, editor, conflict, saving, hits,
                clicks>>

\* A request, and what it is a part of: a click by itself, "More comments"
\* ("append"), a save or a deletion with all that follows it.
Ask(kind, page) == [kind |-> kind, page |-> page, turn |-> 0, rev |-> 0, of |-> "click"]
NoConflict == [shown |-> FALSE, page |-> NoLeaf, rev |-> 0]
AskOf(kind, page, of) == [Ask(kind, page) EXCEPT !.of = of]

EditorInit ==
  /\ revision \in [Leaf -> {0, 1}] /\ calls = {} /\ saving = FALSE
  /\ current = [page |-> NoLeaf, rev |-> 0, old |-> FALSE, turn |-> 0]
  /\ epoch = [turn |-> 0, failed |-> 0] /\ crumbs = NoLeaf /\ thread = {}
  /\ editor = [open |-> FALSE, id |-> NoLeaf, expected |-> 0, agreed |-> {}]
  /\ conflict = NoConflict
  /\ hits = [turn |-> 0, shown |-> 0, failed |-> 0, query |-> 0] /\ clicks = MaxClicks

Click == clicks > 0 /\ clicks' = clicks - 1
Issue(c) == c \notin calls /\ calls' = calls \cup {c}
Take(c) == calls' = calls \ {c}

-----------------------------------------------------------------------------
(* Reading *)

\* openPage up to its await: a new epoch; with rev > 0 an old revision.
OpenCall(page, rev, of) ==
  [kind |-> "open", page |-> page, turn |-> epoch.turn + 1, rev |-> rev, of |-> of]
NextEpoch == epoch' = [epoch EXCEPT !.turn = @ + 1]

\* A link, the tree, a search hit, the history or the browser's Back; an open
\* draft may be left, which is asked before and done when the page arrives.
Open(page, rev) ==
  /\ Click /\ rev < revision[page] /\ NextEpoch /\ Issue(OpenCall(page, rev, "click"))
  /\ UNCHANGED <<revision, current, crumbs, thread, editor, conflict, saving, hits>>

\* showRead: the draft goes out of sight, and the conflict with it (the panel is
\* in the editor's form); editingID and expected stay.
ShowRead ==
  /\ editor' = [editor EXCEPT !.open = FALSE, !.agreed = {}]
  /\ conflict' = NoConflict

\* What a save still does once openPage returned: refresh, the last request.
ThenRefresh(c) == IF c.of = "save" THEN {AskOf("refresh", c.page, "save")} ELSE {}
\* What openPage does once the navigation is there or failed: the comments, if
\* no other page was asked for meanwhile.
ThenComments(c) ==
  IF c.turn = epoch.turn /\ c.rev = 0 THEN {AskOf("comments", c.page, c.of)} ELSE ThenRefresh(c)

\* Names with a suffix are plausible mistakes, used to test the properties.
\* Any answer is shown.
Newest_Any(c) == TRUE
Newest(c) == c.turn = epoch.turn

\* A deleted page has no navigation.
OpenAnswered(c) ==
  /\ c.kind = "open"
  /\ IF Newest(c)
     THEN /\ current' = [page |-> c.page, rev |-> IF c.rev > 0 THEN c.rev ELSE revision[c.page],
                         old |-> c.rev > 0, turn |-> c.turn]
          /\ ShowRead /\ crumbs' = NoLeaf
          /\ thread' = IF c.rev > 0 THEN thread ELSE {}
          /\ calls' = (calls \ {c}) \cup
               (IF c.of = "delete" THEN {} ELSE {[c EXCEPT !.kind = "navigation"]})
     ELSE /\ calls' = (calls \ {c}) \cup ThenRefresh(c)
          /\ UNCHANGED <<current, editor, conflict, crumbs, thread>>
  /\ UNCHANGED <<revision, epoch, saving, hits, clicks>>

\* book.show: the breadcrumbs of the page shown, or an error, which it catches.
NavigationAnswered(c) ==
  /\ c.kind = "navigation"
  /\ \/ crumbs' = IF c.turn = current.turn THEN c.page ELSE crumbs
     \/ UNCHANGED crumbs
  /\ calls' = (calls \ {c}) \cup ThenComments(c)
  /\ UNCHANGED <<revision, current, epoch, thread, editor, conflict, saving, hits, clicks>>

\* "Refresh discussion", "More comments", and after every change of a thread.
Comments(append) ==
  /\ Click /\ current.page # NoLeaf /\ ~current.old
  /\ Issue(AskOf("comments", current.page, IF append THEN "append" ELSE "click"))
  /\ UNCHANGED <<revision, current, epoch, crumbs, thread, editor, conflict, saving, hits>>

\* Comments of whatever page are listed.
SamePage_Any(c) == TRUE
SamePage(c) == current.page = c.page
CommentsAnswered(c) ==
  /\ c.kind = "comments" /\ calls' = (calls \ {c}) \cup ThenRefresh(c)
  /\ thread' = IF SamePage(c) THEN (IF c.of = "append" THEN thread ELSE {}) \cup {c.page} ELSE thread
  /\ UNCHANGED <<revision, current, epoch, crumbs, editor, conflict, saving, hits, clicks>>

-----------------------------------------------------------------------------
(* Search *)

Search ==
  /\ Click /\ Issue([Ask("search", NoLeaf) EXCEPT !.turn = hits.turn + 1])
  /\ hits' = [hits EXCEPT !.turn = @ + 1, !.query = hits.turn + 1]
  /\ UNCHANGED <<revision, current, epoch, crumbs, thread, editor, conflict, saving>>
\* Closing the panel does not concern a search that is under way.
CloseSearch_Only ==
  /\ Click /\ hits' = [hits EXCEPT !.shown = 0, !.query = 0]
  /\ UNCHANGED <<revision, calls, current, epoch, crumbs, thread, editor, conflict, saving>>
\* Closed, or an empty query.
CloseSearch ==
  /\ Click /\ hits' = [hits EXCEPT !.turn = @ + 1, !.shown = 0, !.query = 0]
  /\ UNCHANGED <<revision, calls, current, epoch, crumbs, thread, editor, conflict, saving>>
SearchAnswered(c) ==
  /\ c.kind = "search" /\ Take(c)
  /\ hits' = IF c.turn = hits.turn THEN [hits EXCEPT !.shown = c.turn] ELSE hits
  /\ UNCHANGED <<revision, current, epoch, crumbs, thread, editor, conflict, saving, clicks>>

-----------------------------------------------------------------------------
(* Editing *)

\* edit: the editor on a text of a page, to be saved over a revision.
Draft(id, rev, agreed) ==
  /\ editor' = [open |-> TRUE, id |-> id, expected |-> rev, agreed |-> agreed]
  /\ conflict' = NoConflict

NewPage ==
  /\ Click /\ Draft(NoLeaf, 0, {})
  /\ UNCHANGED <<revision, calls, current, epoch, crumbs, thread, saving, hits>>

\* "Edit" reads the page again, "Restore this version" its newest revision's
\* number; both may be asked for while a draft is left.
StartEdit(kind) ==
  /\ Click /\ current.page # NoLeaf /\ (kind = "restore" => current.old)
  /\ Issue(Ask(kind, current.page))
  /\ UNCHANGED <<revision, current, epoch, crumbs, thread, editor, conflict, saving, hits>>
EditAnswered(c) ==
  /\ c.kind = "edit" /\ Take(c)
  /\ Draft(c.page, revision[c.page], {<<c.page, revision[c.page]>>})
  /\ UNCHANGED <<revision, current, epoch, crumbs, thread, saving, hits, clicks>>
\* The draft is made of the text shown now.  Its writer agreed to replace the
\* page the restore was asked for, whatever its newest revision, and has seen
\* the text in the editor.
RestoreAnswered(c) ==
  /\ c.kind = "restore" /\ Take(c)
  /\ Draft(current.page, revision[c.page],
           {<<c.page, revision[c.page]>>, <<current.page, current.rev>>})
  /\ UNCHANGED <<revision, current, epoch, crumbs, thread, saving, hits, clicks>>
CancelEdit ==
  /\ editor.open /\ ShowRead
  /\ UNCHANGED <<revision, calls, current, epoch, crumbs, thread, saving, hits, clicks>>

\* A save does not wait for the one before.
SaveDraft_Again ==
  /\ editor.open /\ saving' = TRUE
  /\ Issue([AskOf("save", editor.id, "save") EXCEPT !.rev = editor.expected])
  /\ UNCHANGED <<revision, current, epoch, crumbs, thread, editor, conflict, hits, clicks>>
SaveDraft ==
  /\ editor.open /\ ~saving /\ saving' = TRUE
  /\ Issue([AskOf("save", editor.id, "save") EXCEPT !.rev = editor.expected])
  /\ UNCHANGED <<revision, current, epoch, crumbs, thread, editor, conflict, hits, clicks>>
DeleteShown ==
  /\ Click /\ current.page # NoLeaf /\ ~current.old
  /\ Issue([AskOf("delete", current.page, "delete") EXCEPT !.rev = current.rev])
  /\ UNCHANGED <<revision, current, epoch, crumbs, thread, editor, conflict, saving, hits>>

\* The answer to a save or deletion arrives and the tab opens the page, or it
\* does not arrive; then a save is over and its draft stays.
Applied(c, page, rev) ==
  \/ NextEpoch /\ calls' = (calls \ {c}) \cup {OpenCall(page, rev, c.of)} /\ UNCHANGED saving
  \/ Take(c) /\ saving' = (saving /\ c.of # "save") /\ UNCHANGED epoch

\* The server takes a save or a deletion at the revision it names.
Taken(c) ==
  /\ c.kind \in {"save", "delete"} /\ c.page # NoLeaf
  /\ c.rev = revision[c.page] /\ revision[c.page] < MaxRev
  /\ revision' = [revision EXCEPT ![c.page] = @ + 1]
  /\ Applied(c, c.page, IF c.kind = "delete" THEN c.rev + 1 ELSE 0)
  /\ UNCHANGED <<current, crumbs, thread, editor, conflict, hits, clicks>>
\* The server creates the page of a draft without one.
Created(c) ==
  /\ c.kind = "save" /\ c.page = NoLeaf
  /\ \E page \in Leaf :
       /\ revision[page] = 0 /\ revision' = [revision EXCEPT ![page] = 1]
       /\ Applied(c, page, 0)
  /\ UNCHANGED <<current, crumbs, thread, editor, conflict, hits, clicks>>

\* Another writer was faster.  The tab reads the page that is in the editor
\* now, unless that has none; a deletion only reports it.
SaveRefused(c) ==
  /\ c.kind \in {"save", "delete"} /\ c.page # NoLeaf /\ c.rev # revision[c.page]
  /\ IF c.kind = "save" /\ editor.id # NoLeaf
     THEN /\ calls' = (calls \ {c}) \cup {AskOf("conflict", editor.id, "save")}
          /\ UNCHANGED saving
     ELSE Take(c) /\ saving' = (saving /\ c.kind # "save")
  /\ UNCHANGED <<revision, current, epoch, crumbs, thread, editor, conflict, hits, clicks>>
ConflictAnswered(c) ==
  /\ c.kind = "conflict" /\ Take(c) /\ saving' = FALSE
  /\ conflict' = [shown |-> TRUE, page |-> c.page, rev |-> revision[c.page]]
  /\ UNCHANGED <<revision, current, epoch, crumbs, thread, editor, hits, clicks>>

\* "I have merged the changes; use the current revision", in the editor.
Merge ==
  /\ editor.open /\ conflict.shown /\ conflict' = NoConflict
  /\ editor' = [editor EXCEPT !.expected = conflict.rev,
                              !.agreed = @ \cup {<<conflict.page, conflict.rev>>}]
  /\ UNCHANGED <<revision, calls, current, epoch, crumbs, thread, saving, hits, clicks>>

-----------------------------------------------------------------------------

\* The tree was drawn again, or not: the save is over.
RefreshAnswered(c) ==
  /\ c.kind = "refresh" /\ Take(c) /\ saving' = FALSE
  /\ UNCHANGED <<revision, current, epoch, crumbs, thread, editor, conflict, hits, clicks>>

\* A request fails: an error is shown, a save it is part of is over, a draft stays.
Fails(c) ==
  /\ c.kind \notin {"navigation", "refresh"} /\ Take(c)
  /\ epoch' = IF c.kind = "open" /\ c.turn = epoch.turn THEN [epoch EXCEPT !.failed = c.turn] ELSE epoch
  /\ hits' = IF c.kind = "search" /\ c.turn = hits.turn THEN [hits EXCEPT !.failed = c.turn] ELSE hits
  /\ saving' = (saving /\ c.of # "save")
  /\ UNCHANGED <<revision, current, crumbs, thread, editor, conflict, clicks>>
OtherWriter(page) ==
  /\ revision[page] < MaxRev /\ revision' = [revision EXCEPT ![page] = @ + 1]
  /\ UNCHANGED <<calls, current, epoch, crumbs, thread, editor, conflict, saving, hits, clicks>>

Clicks ==
  \/ \E p \in Leaf, r \in {0, 1} : Open(p, r)
  \/ \E append \in BOOLEAN : Comments(append)
  \/ \E kind \in {"edit", "restore"} : StartEdit(kind)
  \/ Search \/ CloseSearch \/ NewPage \/ CancelEdit \/ SaveDraft \/ DeleteShown \/ Merge
Answers(c) ==
  \/ OpenAnswered(c) \/ NavigationAnswered(c) \/ CommentsAnswered(c) \/ SearchAnswered(c)
  \/ EditAnswered(c) \/ RestoreAnswered(c) \/ ConflictAnswered(c)
  \/ Taken(c) \/ Created(c) \/ SaveRefused(c) \/ RefreshAnswered(c) \/ Fails(c)
EditorNext == Clicks \/ (\E c \in calls : Answers(c)) \/ \E p \in Leaf : OtherWriter(p)

EditorSpec == EditorInit /\ [][EditorNext]_editorVars

-----------------------------------------------------------------------------
(* Properties *)

\* The page shown is the one asked for last, unless that is still on its way
\* or failed; the breadcrumbs and the comments beside it are its own; and the
\* results are those of the last query, under the same exceptions, and none
\* appear once the panel is closed (pageEpoch, the epoch of wikiBook, the
\* comparison in comments, searchEpoch).
PageCoherent ==
  /\ current.turn # epoch.turn =>
       epoch.failed = epoch.turn \/ \E c \in calls : c.kind = "open" /\ c.turn = epoch.turn
  /\ crumbs \in {NoLeaf, current.page}
  /\ ~current.old => thread \subseteq {current.page}
  /\ hits.query = 0 => hits.shown = 0
  /\ hits.shown \notin {0, hits.query} =>
       hits.failed = hits.turn \/ \E c \in calls : c.kind = "search" /\ c.turn = hits.turn

\* A save is under way exactly while one of its requests is, and never two: the
\* save, then the conflict, or the page, its navigation, its comments and the
\* tree.  Wherever this ends, by a refusal, an error or another page that was
\* asked for, the next save is possible, and none is possible before, whichever
\* draft is in the editor (the handler of "submit" and its finally).
OneSave ==
  LET parts == {c \in calls : c.of = "save"}
  IN  /\ saving = (parts # {})
      /\ \A c, d \in parts : c = d

\* A draft that the server would take replaces no revision but one its writer
\* agreed to: the one whose text is in the editor, the one a restore was asked for
\* over, or one merged by hand ("A concurrent edit preserves your draft and shows
\* the latest Markdown for a manual merge", celld/docs/wiki.md).
NoBlindOverwrite ==
  LET page == editor.id
  IN  editor.open /\ page # NoLeaf /\ editor.expected = revision[page]
        => <<page, editor.expected>> \in editor.agreed

=============================================================================
