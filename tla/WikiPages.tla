------------------------------ MODULE WikiPages ------------------------------
(***************************************************************************)
(* The pages, comments, change feed and search of one wiki                 *)
(* (celld/native/wiki.ts): pages in a tree with their history, edits that  *)
(* name the revision they change, and searches ranked by a provider.       *)
(*                                                                         *)
(* The object is single-threaded.  A write awaits its body between a first *)
(* look at the page and its transaction, a relevance search awaits the     *)
(* provider; h holds what such a handler remembers.  A revision is kept as *)
(* the revision its author had read.  One query is modelled, which matches *)
(* every live page.  Texts, paths and budgets are refusals that may happen *)
(* to any write; replies to comments are comments.                         *)
(***************************************************************************)
EXTENDS Integers, Sequences, FiniteSets

CONSTANTS
  Client,       \* each with one request at a time
  Page,         \* page identifiers
  None,         \* the parent of a root page
  MaxDepth,     \* parents of a page (32)
  MaxSearches,  \* concurrent rankings (wikiLimits.searchConcurrent)
  MaxComments,  \* bound: comments
  MaxVersion    \* bound: changes

ASSUME PagesAssumption ==
  /\ None \notin Page
  /\ MaxDepth \in Nat /\ MaxSearches \in Nat /\ MaxComments \in Nat /\ MaxVersion \in Nat

VARIABLES
  gone,     \* the wiki was deleted
  row,      \* per page: revision (0 when absent), parent and deleted
  history,  \* per page, its revisions: what their authors had read, deleted
  comments, \* page and edits of each comment, an edit being what its author read
  changes,  \* the feed: page and revision; its length is the wiki's version
  cache,    \* ranked hits by version
  h,        \* per client, the handler that awaits
  answer    \* the search answer of the last step, none after another step

content == <<gone, row, history, comments, changes>>
vars == <<content, cache, h, answer>>

version == Len(changes)
Absent == [rev |-> 0, parent |-> None, deleted |-> FALSE]
Idle == [op |-> "none", page |-> None, parent |-> None, base |-> 0, hits |-> {}]
NoAnswer == [version |-> -1, hits |-> {}]

\* initialize: the wiki is created once; an id that exists or was deleted is
\* answered without a change.
Init ==
  /\ gone = FALSE
  /\ row = [p \in Page |-> Absent] /\ history = [p \in Page |-> <<>>]
  /\ comments = <<>> /\ changes = <<>> /\ cache = {}
  /\ h = [c \in Client |-> Idle] /\ answer = NoAnswer

Exists(p) == p \in Page /\ row[p].rev > 0
Live(p) == Exists(p) /\ ~row[p].deleted

-----------------------------------------------------------------------------
(* The tree: parent *)

\* Chain(p)[n] is the n-th of p and its ancestors, None beyond the root.
Chain(p) ==
  LET chain[n \in 0 .. MaxDepth + 1] ==
        IF n = 0 THEN p
        ELSE IF chain[n - 1] = None THEN None ELSE row[chain[n - 1]].parent
  IN  chain

\* Levels of live pages below p (descendants), as far as they matter.
Below(p) ==
  LET levels == {n \in 0 .. MaxDepth + 1 :
                   \E q \in Page : Chain(q)[n] = p /\ \A i \in 0 .. n - 1 : Live(Chain(q)[i])}
  IN  CHOOSE n \in levels : \A m \in levels : m <= n

\* Names with a suffix are plausible mistakes, used to test the properties.
\* Only the way up is looked at, not the subtree that moves along.
MayHang_Alone(p, parent) ==
  \E depth \in 0 .. MaxDepth :
    /\ Chain(parent)[depth] = None
    /\ \A i \in 0 .. depth - 1 : Live(Chain(parent)[i]) /\ Chain(parent)[i] # p
\* parent: live ancestors, p not among them, and the subtree fits.
MayHang(p, parent) ==
  \E depth \in 0 .. MaxDepth :
    /\ Chain(parent)[depth] = None
    /\ \A i \in 0 .. depth - 1 : Live(Chain(parent)[i]) /\ Chain(parent)[i] # p
    /\ depth + Below(p) <= MaxDepth

-----------------------------------------------------------------------------
(* save, change and the writes *)

\* change: the next version, and no cached ranking.
Change(p, rev) ==
  /\ version < MaxVersion
  /\ changes' = Append(changes, [page |-> p, rev |-> rev])
  /\ cache' = {}

\* The snapshot of a deleted page is not kept.
Save_NoSnapshot(p, parent, base, deleted) ==
  /\ MayHang(p, parent)
  /\ row' = [row EXCEPT ![p] = [rev |-> @.rev + 1, parent |-> parent, deleted |-> deleted]]
  /\ history' = IF deleted THEN history
                ELSE [history EXCEPT ![p] = Append(@, [base |-> base, deleted |-> deleted])]
  /\ Change(p, row[p].rev + 1)
  /\ UNCHANGED <<gone, comments>>
\* The transaction of a page write: its row, its snapshot, its index, a change.
Save(p, parent, base, deleted) ==
  /\ MayHang(p, parent)
  /\ row' = [row EXCEPT ![p] = [rev |-> @.rev + 1, parent |-> parent, deleted |-> deleted]]
  /\ history' = [history EXCEPT ![p] = Append(@, [base |-> base, deleted |-> deleted])]
  /\ Change(p, row[p].rev + 1)
  /\ UNCHANGED <<gone, comments>>

Done(c) == h' = [h EXCEPT ![c] = Idle]
Await(c, op, p, parent, base) ==
  /\ ~gone /\ h[c].op = "none"
  /\ h' = [h EXCEPT ![c] = [op |-> op, page |-> p, parent |-> parent, base |-> base, hits |-> {}]]
  /\ answer' = NoAnswer
  /\ UNCHANGED <<content, cache>>

\* A write that awaited its body is refused: a malformed body, a budget, a
\* path that is taken, a wiki or a page that is gone, another revision.
Refused(c) ==
  /\ h[c].op \in {"create", "put", "comment", "patch"}
  /\ Done(c) /\ answer' = NoAnswer /\ UNCHANGED <<content, cache>>

\* POST /pages: an identifier that exists is answered without a change.
Create(c, p, parent) == Await(c, "create", p, parent, 0)
CreateBody(c) ==
  /\ ~gone /\ h[c].op = "create" /\ ~Exists(h[c].page)
  /\ Save(h[c].page, h[c].parent, 0, FALSE)
  /\ Done(c) /\ answer' = NoAnswer

\* PUT with If-Match, also of a deleted page.  Raw Markdown keeps the parent
\* the page had before the body; JSON names one.
Put(c, p, parent) == Exists(p) /\ Await(c, "put", p, parent, row[p].rev)
\* The revision is compared before the body only.
PutBody_Unchecked(c) ==
  /\ ~gone /\ h[c].op = "put" /\ Exists(h[c].page)
  /\ Save(h[c].page, h[c].parent, h[c].base, FALSE)
  /\ Done(c) /\ answer' = NoAnswer
PutBody(c) ==
  /\ ~gone /\ h[c].op = "put" /\ Exists(h[c].page)
  /\ row[h[c].page].rev = h[c].base
  /\ Save(h[c].page, h[c].parent, h[c].base, FALSE)
  /\ Done(c) /\ answer' = NoAnswer

\* DELETE awaits nothing; live children keep their parent.
DeletePage(p) ==
  /\ ~gone /\ Exists(p)
  /\ ~\E q \in Page : Live(q) /\ row[q].parent = p
  /\ Save(p, row[p].parent, row[p].rev, TRUE)
  /\ answer' = NoAnswer /\ UNCHANGED h

\* A comment on a live page, before and after its body.
Comment(c, p) == Live(p) /\ Await(c, "comment", p, None, row[p].rev)
CommentBody(c) ==
  LET p == h[c].page
  IN  /\ ~gone /\ h[c].op = "comment" /\ Live(p)
      /\ Len(comments) < MaxComments
      /\ comments' = Append(comments, [page |-> p, edits |-> <<0>>])
      /\ Change(p, row[p].rev)
      /\ Done(c) /\ answer' = NoAnswer /\ UNCHANGED <<gone, row, history>>

\* PATCH /comments with If-Match: base is the comment's revision it was read at,
\* page its number here.
Patch(c, k) == Await(c, "patch", k, None, Len(comments[k].edits))
PatchBody(c) ==
  LET k == h[c].page
  IN  /\ ~gone /\ h[c].op = "patch" /\ k \in DOMAIN comments
      /\ Live(comments[k].page)
      /\ Len(comments[k].edits) = h[c].base
      /\ comments' = [comments EXCEPT ![k].edits = Append(@, h[c].base)]
      /\ Change(comments[k].page, row[comments[k].page].rev)
      /\ Done(c) /\ answer' = NoAnswer /\ UNCHANGED <<gone, row, history>>

\* DELETE of an unmanaged wiki: for good.
DeleteWiki ==
  /\ ~gone /\ gone' = TRUE
  /\ row' = [p \in Page |-> Absent] /\ history' = [p \in Page |-> <<>>]
  /\ comments' = <<>> /\ changes' = <<>> /\ cache' = {}
  /\ answer' = NoAnswer /\ UNCHANGED h

-----------------------------------------------------------------------------
(* search *)

\* candidates: the passages of the live pages, with their revisions.
Candidates == {<<p, row[p].rev>> : p \in {q \in Page : Live(q)}}
Reply(hits) == answer' = [version |-> version, hits |-> hits]
Ranking == {h[c].base : c \in {d \in Client : h[d].op = "search"}}

\* Answered at once: by keyword (asked for, no hits, or the provider busy), or
\* from the cache.
SearchAtOnce ==
  /\ ~gone
  /\ \/ Reply(Candidates)
     \/ \E entry \in cache : entry.version = version /\ Reply(entry.hits)
  /\ UNCHANGED <<content, cache, h>>

\* The provider is asked, or a search of the same key that asked is joined.
SearchAsk(c) ==
  /\ ~gone /\ h[c].op = "none" /\ Candidates # {}
  /\ \A entry \in cache : entry.version # version
  /\ version \in Ranking \/ Cardinality(Ranking) < MaxSearches
  /\ h' = [h EXCEPT ![c] = [Idle EXCEPT !.op = "search", !.base = version,
             !.hits = IF version \in Ranking
                      THEN h[CHOOSE d \in Client : h[d].op = "search" /\ h[d].base = version].hits
                      ELSE Candidates]]
  /\ answer' = NoAnswer /\ UNCHANGED <<content, cache>>

\* The ranking is answered whatever was written meanwhile.
SearchRanked_Late(c) ==
  /\ h[c].op = "search" /\ Done(c)
  /\ IF gone
     THEN answer' = NoAnswer /\ UNCHANGED cache
     ELSE /\ Reply(h[c].hits)
          /\ cache' \in {cache, cache \cup {[version |-> version, hits |-> h[c].hits]}}
  /\ UNCHANGED content
\* The provider answered or failed: a changed wiki is searched again by keyword.
SearchRanked(c) ==
  /\ h[c].op = "search" /\ Done(c)
  /\ CASE gone -> answer' = NoAnswer /\ UNCHANGED cache
       [] ~gone /\ version # h[c].base -> Reply(Candidates) /\ UNCHANGED cache
       [] OTHER -> /\ Reply(h[c].hits)
                   /\ cache' \in {cache, cache \cup {[version |-> version, hits |-> h[c].hits]}}
  /\ UNCHANGED content

\* The object is evicted: its handlers and its cache are lost.
Restart ==
  /\ h' = [c \in Client |-> Idle] /\ cache' = {} /\ answer' = NoAnswer
  /\ UNCHANGED content

Next ==
  \/ \E c \in Client :
       \/ \E p \in Page, parent \in Page \cup {None} : Create(c, p, parent) \/ Put(c, p, parent)
       \/ \E p \in Page : Comment(c, p)
       \/ \E k \in DOMAIN comments : Patch(c, k)
       \/ CreateBody(c) \/ PutBody(c) \/ CommentBody(c) \/ PatchBody(c) \/ Refused(c)
       \/ SearchAsk(c) \/ SearchRanked(c)
  \/ \E p \in Page : DeletePage(p)
  \/ DeleteWiki \/ SearchAtOnce \/ Restart

Spec == Init /\ [][Next]_vars

-----------------------------------------------------------------------------
(* Properties *)

\* Every variable holds what the code stores; each revision of a page has its
\* snapshot, the feed tells each page revision once and in order (a comment
\* repeats the last), and a deleted wiki keeps nothing.
TypeOK ==
  /\ gone \in BOOLEAN
  /\ \A p \in Page :
       /\ row[p].parent \in Page \cup {None} /\ row[p].deleted \in BOOLEAN
       /\ row[p].rev = Len(history[p])
       /\ Exists(p) => history[p][row[p].rev].deleted = row[p].deleted
       /\ \A r \in 1 .. row[p].rev : \E i \in DOMAIN changes : changes[i] = [page |-> p, rev |-> r]
  /\ \A i, j \in DOMAIN changes :
       i < j /\ changes[i].page = changes[j].page => changes[i].rev <= changes[j].rev
  /\ \A k \in DOMAIN comments : Exists(comments[k].page)
  /\ gone => row = [p \in Page |-> Absent] /\ comments = <<>> /\ cache = {}

\* The live pages are a forest: whatever moves, deletions and restorations of
\* pages overlapped, each hangs under live pages only, without a cycle and at
\* most MaxDepth levels deep (parent).
TreeSound ==
  /\ TypeOK
  /\ \A p \in Page : Live(p) =>
       \E depth \in 1 .. MaxDepth + 1 :
         Chain(p)[depth] = None /\ \A i \in 1 .. depth - 1 : Live(Chain(p)[i])

\* No edit is lost: the author of each revision of a page or a comment had read
\* the one before it, although the body was awaited meanwhile (If-Match).
NoLostEdit ==
  /\ \A p \in Page : \A r \in DOMAIN history[p] : history[p][r].base = r - 1
  /\ \A k \in DOMAIN comments : \A r \in DOMAIN comments[k].edits : comments[k].edits[r] = r - 1

\* A search answers for the wiki as it is and says which version that is: the
\* ranking of another version never reaches a client, not from the cache either.
AnswerCurrent ==
  answer # NoAnswer => answer = [version |-> version, hits |-> Candidates]

=============================================================================
