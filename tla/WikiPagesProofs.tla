--------------------------- MODULE WikiPagesProofs ---------------------------
(***************************************************************************)
(* Theorems of WikiPages, for any clients, pages, depth and limits.        *)
(***************************************************************************)
EXTENDS WikiPages, WellFoundedInduction, TLAPS

(***************************************************************************)
(* Types.                                                                  *)
(***************************************************************************)

Ops == {"none", "create", "put", "comment", "patch", "search"}
Rows == [rev: Nat, parent: Page \cup {None}, deleted: BOOLEAN]
Snapshots == [base: Nat, deleted: BOOLEAN]
Threads == [page: Page, edits: Seq(Nat)]
Entries == [page: Page, rev: Nat]
Hits == SUBSET (Page \X Nat)
Handlers == [op: Ops, page: Page \cup {None} \cup Nat, parent: Page \cup {None},
             base: Nat, hits: Hits]

\* A page that is to be created is a page.
Named(k) == k.op = "create" => k.page \in Page

Typed ==
  /\ gone \in BOOLEAN
  /\ row \in [Page -> Rows] /\ history \in [Page -> Seq(Snapshots)]
  /\ comments \in Seq(Threads) /\ changes \in Seq(Entries)
  /\ cache \in SUBSET [version: Nat, hits: Hits]
  /\ h \in [Client -> Handlers] /\ \A c \in Client : Named(h[c])

LEMMA IdleType == Idle \in Handlers /\ Absent \in Rows /\ Named(Idle)
BY DEF Idle, Handlers, Ops, Absent, Rows, Named, Hits

LEMMA CandidatesType == ASSUME Typed PROVE Candidates \in Hits /\ version \in Nat
BY DEF Typed, Rows, Candidates, Hits, version

LEMMA TypedInit == Init => Typed
<1> SUFFICES ASSUME Init PROVE Typed
  OBVIOUS
<1>1. /\ <<>> \in Seq(Snapshots) /\ <<>> \in Seq(Threads) /\ <<>> \in Seq(Entries)
  OBVIOUS
<1> QED BY <1>1, IdleType DEF Init, Typed

LEMMA SaveTyped ==
  ASSUME Typed, NEW p \in Page, NEW parent \in Page \cup {None}, NEW base \in Nat,
         NEW deleted \in BOOLEAN, Save(p, parent, base, deleted)
  PROVE  /\ gone' \in BOOLEAN /\ row' \in [Page -> Rows] /\ history' \in [Page -> Seq(Snapshots)]
         /\ comments' \in Seq(Threads) /\ changes' \in Seq(Entries) /\ cache' = {}
<1>1. row[p].rev \in Nat
  BY DEF Typed, Rows
<1>2. [rev |-> row[p].rev + 1, parent |-> parent, deleted |-> deleted] \in Rows
  BY <1>1 DEF Rows
<1>3. row' \in [Page -> Rows]
  BY <1>2 DEF Save, Typed
<1>4. Append(history[p], [base |-> base, deleted |-> deleted]) \in Seq(Snapshots)
  <2>1. [base |-> base, deleted |-> deleted] \in Snapshots /\ history[p] \in Seq(Snapshots)
    BY DEF Snapshots, Typed
  <2> QED BY <2>1
<1>5. history' \in [Page -> Seq(Snapshots)]
  BY <1>4 DEF Save, Typed
<1>6. changes' \in Seq(Entries) /\ cache' = {}
  <2>1. [page |-> p, rev |-> row[p].rev + 1] \in Entries
    BY <1>1 DEF Entries
  <2> QED BY <2>1 DEF Save, Change, Typed
<1> QED BY <1>3, <1>5, <1>6 DEF Save, Typed

\* A handler that ends, or none that moves.
LEMMA DoneTyped ==
  ASSUME Typed, NEW c \in Client, Done(c) \/ UNCHANGED h
  PROVE  h' \in [Client -> Handlers] /\ \A d \in Client : Named(h'[d])
BY IdleType DEF Done, Typed

LEMMA AwaitTyped ==
  ASSUME Typed, NEW c \in Client, NEW op \in Ops, NEW p \in Page \cup {None} \cup Nat,
         NEW parent \in Page \cup {None}, NEW base \in Nat, Await(c, op, p, parent, base),
         op = "create" => p \in Page
  PROVE  Typed'
<1> DEFINE k == [op |-> op, page |-> p, parent |-> parent, base |-> base, hits |-> {}]
<1>1. k \in Handlers /\ Named(k)
  BY DEF Handlers, Named, Hits
<1>2. h' \in [Client -> Handlers] /\ \A d \in Client : Named(h'[d])
  BY <1>1 DEF Await, Typed
<1> QED BY <1>2 DEF Await, Typed, content

LEMMA TypedNext == Typed /\ [Next]_vars => Typed'
<1> SUFFICES ASSUME Typed, [Next]_vars PROVE Typed'
  OBVIOUS
<1>0. /\ \A p \in Page : row[p].rev \in Nat /\ row[p].parent \in Page \cup {None}
      /\ \A c \in Client : h[c] \in Handlers
  BY DEF Typed, Rows
<1>1. ASSUME NEW c \in Client, NEW p \in Page, NEW parent \in Page \cup {None},
             Create(c, p, parent) \/ Put(c, p, parent)
      PROVE  Typed'
  BY <1>0, <1>1, AwaitTyped DEF Create, Put, Ops
<1>2. ASSUME NEW c \in Client, NEW p \in Page, Comment(c, p) PROVE Typed'
  BY <1>0, <1>2, AwaitTyped DEF Comment, Ops
<1>3. ASSUME NEW c \in Client, NEW k \in DOMAIN comments, Patch(c, k) PROVE Typed'
  <2>1. k \in Nat /\ Len(comments[k].edits) \in Nat
    BY DEF Typed, Threads
  <2> QED BY <1>3, <2>1, AwaitTyped DEF Patch, Ops
<1>4. ASSUME NEW c \in Client, CreateBody(c) \/ PutBody(c) PROVE Typed'
  <2>1. h[c].page \in Page
    BY <1>4 DEF CreateBody, PutBody, Exists, Typed, Named
  <2>2. h[c].parent \in Page \cup {None} /\ h[c].base \in Nat
    BY <1>0 DEF Handlers
  <2>3. Save(h[c].page, h[c].parent, 0, FALSE) \/ Save(h[c].page, h[c].parent, h[c].base, FALSE)
    BY <1>4 DEF CreateBody, PutBody
  <2>4. Done(c)
    BY <1>4 DEF CreateBody, PutBody
  <2> QED BY <2>1, <2>2, <2>3, <2>4, SaveTyped, DoneTyped DEF Typed
<1>5. ASSUME NEW c \in Client, CommentBody(c) PROVE Typed'
  <2> DEFINE p == h[c].page
  <2>1. p \in Page /\ row[p].rev \in Nat
    BY <1>0, <1>5 DEF CommentBody, Live, Exists
  <2>2. [page |-> p, edits |-> <<0>>] \in Threads /\ [page |-> p, rev |-> row[p].rev] \in Entries
    BY <2>1 DEF Threads, Entries
  <2>3. comments' \in Seq(Threads) /\ changes' \in Seq(Entries) /\ cache' = {}
    BY <1>5, <2>2 DEF CommentBody, Change, Typed
  <2> QED BY <1>5, <2>3, DoneTyped DEF CommentBody, Typed
<1>6. ASSUME NEW c \in Client, PatchBody(c) PROVE Typed'
  <2> DEFINE k == h[c].page
  <2>1. k \in DOMAIN comments /\ comments[k] \in Threads /\ h[c].base \in Nat
    BY <1>0, <1>6 DEF PatchBody, Typed, Handlers
  <2>2. comments[k].page \in Page /\ row[comments[k].page].rev \in Nat
    BY <1>0, <2>1 DEF Threads
  <2>3. [comments[k] EXCEPT !.edits = Append(@, h[c].base)] \in Threads
    <3>1. comments[k].edits \in Seq(Nat)
      BY <2>1 DEF Threads
    <3>2. Append(comments[k].edits, h[c].base) \in Seq(Nat)
      BY <2>1, <3>1
    <3> QED BY <2>1, <3>2 DEF Threads
  <2>4. comments' \in Seq(Threads)
    BY <1>6, <2>1, <2>3 DEF PatchBody, Typed
  <2>5. [page |-> comments[k].page, rev |-> row[comments[k].page].rev] \in Entries
    BY <2>2 DEF Entries
  <2>6. changes' \in Seq(Entries) /\ cache' = {}
    BY <1>6, <2>5 DEF PatchBody, Change, Typed
  <2> QED BY <1>6, <2>4, <2>6, DoneTyped DEF PatchBody, Typed
<1>7. ASSUME NEW c \in Client, Refused(c) PROVE Typed'
  BY <1>7, DoneTyped DEF Refused, content, Typed
<1>8. ASSUME NEW c \in Client, SearchAsk(c) PROVE Typed'
  <2> DEFINE d == CHOOSE d \in Client : h[d].op = "search" /\ h[d].base = version
             hits == IF version \in Ranking THEN h[d].hits ELSE Candidates
  <2>1. version \in Ranking => d \in Client
    <3>1. version \in Ranking => \E e \in Client : h[e].op = "search" /\ h[e].base = version
      BY DEF Ranking
    <3> QED BY <3>1
  <2>2. hits \in Hits
    BY <1>0, <2>1, CandidatesType DEF Handlers
  <2>3. h' = [h EXCEPT ![c] = [Idle EXCEPT !.op = "search", !.base = version, !.hits = hits]]
    BY <1>8 DEF SearchAsk
  <2> HIDE DEF d, hits
  <2>4. /\ [Idle EXCEPT !.op = "search", !.base = version, !.hits = hits] \in Handlers
        /\ Named([Idle EXCEPT !.op = "search", !.base = version, !.hits = hits])
    BY <2>2, CandidatesType DEF Idle, Handlers, Ops, Named
  <2> QED BY <1>8, <2>3, <2>4 DEF SearchAsk, Typed, content
<1>9. ASSUME NEW c \in Client, SearchRanked(c) PROVE Typed'
  <2>1. h[c].hits \in Hits
    BY <1>0 DEF Handlers
  <2>2. cache' \in {cache, cache \cup {[version |-> version, hits |-> h[c].hits]}}
    BY <1>9 DEF SearchRanked
  <2>3. cache' \in SUBSET [version: Nat, hits: Hits]
    BY <2>1, <2>2, CandidatesType DEF Typed
  <2> QED BY <1>9, <2>3, DoneTyped DEF SearchRanked, Typed, content
<1>10. ASSUME NEW p \in Page, DeletePage(p) PROVE Typed'
  BY <1>0, <1>10, SaveTyped DEF DeletePage, Typed
<1>11. CASE DeleteWiki
  <2>1. /\ <<>> \in Seq(Snapshots) /\ <<>> \in Seq(Threads) /\ <<>> \in Seq(Entries)
    OBVIOUS
  <2> QED BY <1>11, <2>1, IdleType DEF DeleteWiki, Typed
<1>12. CASE SearchAtOnce
  BY <1>12 DEF SearchAtOnce, Typed, content
<1>13. CASE Restart
  BY <1>13, IdleType DEF Restart, Typed, content
<1>14. CASE UNCHANGED vars
  BY <1>14 DEF vars, content, Typed
<1> QED
  BY <1>1, <1>2, <1>3, <1>4, <1>5, <1>6, <1>7, <1>8, <1>9, <1>10, <1>11, <1>12, <1>13,
     <1>14 DEF Next

-----------------------------------------------------------------------------
(***************************************************************************)
(* What the tables keep of each other.                                     *)
(***************************************************************************)

HistoryKept ==
  \A p \in Page : /\ row[p].rev = Len(history[p])
                  /\ Exists(p) => history[p][row[p].rev].deleted = row[p].deleted
FeedTells ==
  \A p \in Page : \A r \in 1 .. row[p].rev :
    \E i \in DOMAIN changes : changes[i] = [page |-> p, rev |-> r]
FeedOrdered ==
  \A i, j \in DOMAIN changes :
    i < j /\ changes[i].page = changes[j].page => changes[i].rev <= changes[j].rev
\* The feed is not ahead of the pages.
FeedPast == \A i \in DOMAIN changes : changes[i].rev <= row[changes[i].page].rev
CommentsPlaced == \A k \in DOMAIN comments : Exists(comments[k].page)
GoneEmpty == gone => row = [p \in Page |-> Absent] /\ comments = <<>> /\ cache = {}

Kept == /\ HistoryKept /\ FeedTells /\ FeedOrdered /\ FeedPast
        /\ CommentsPlaced /\ GoneEmpty

LEMMA TypesAndKept == Typed /\ Kept => TypeOK
BY DEF Typed, Rows, Kept, TypeOK, HistoryKept, FeedTells, FeedOrdered, CommentsPlaced, GoneEmpty

LEMMA KeptInit == Init => Kept
BY DEF Init, Kept, HistoryKept, FeedTells, FeedOrdered, FeedPast, CommentsPlaced, GoneEmpty,
   Absent, Exists

\* A change is told behind all that was told before it.
LEMMA ChangeTells ==
  ASSUME Typed, FeedOrdered, FeedPast, NEW p \in Page, NEW rev \in Nat, Change(p, rev),
         row' \in [Page -> Rows], row'[p].rev = rev,
         \A q \in Page : row[q].rev <= row'[q].rev
  PROVE  /\ FeedOrdered' /\ FeedPast' /\ cache' = {}
         /\ \A i \in DOMAIN changes : i \in DOMAIN changes' /\ changes'[i] = changes[i]
         /\ \E i \in DOMAIN changes' : changes'[i] = [page |-> p, rev |-> rev]
<1> DEFINE n == Len(changes) + 1
           e == [page |-> p, rev |-> rev]
<1>1. changes \in Seq(Entries) /\ e \in Entries /\ n \in Nat
  BY DEF Typed, Entries
<1>2. changes' = Append(changes, e) /\ cache' = {}
  BY DEF Change
<1>3. /\ Len(changes') = n /\ DOMAIN changes' = 1 .. n /\ DOMAIN changes = 1 .. (n - 1)
      /\ \A i \in 1 .. (n - 1) : changes'[i] = changes[i]
      /\ changes'[n] = e
  BY <1>1, <1>2
<1>4. \A i \in 1 .. (n - 1) : /\ changes[i].page \in Page /\ changes[i].rev \in Nat
                              /\ changes[i].rev <= row'[changes[i].page].rev
  <2> SUFFICES ASSUME NEW i \in 1 .. (n - 1)
               PROVE  /\ changes[i].page \in Page /\ changes[i].rev \in Nat
                      /\ changes[i].rev <= row'[changes[i].page].rev
    OBVIOUS
  <2>1. changes[i] \in Entries
    BY <1>1, <1>3
  <2>2. changes[i].rev <= row[changes[i].page].rev
    BY <1>3 DEF FeedPast
  <2>3. row[changes[i].page].rev \in Nat /\ row'[changes[i].page].rev \in Nat
    BY <2>1 DEF Typed, Rows, Entries
  <2> QED BY <2>1, <2>2, <2>3 DEF Entries
<1>5. FeedPast'
  BY <1>1, <1>3, <1>4 DEF FeedPast
<1>6. FeedOrdered'
  <2> SUFFICES ASSUME NEW i \in 1 .. n, NEW j \in 1 .. n, i < j,
                      changes'[i].page = changes'[j].page
               PROVE  changes'[i].rev <= changes'[j].rev
    BY <1>3 DEF FeedOrdered
  <2>1. CASE j < n
    BY <1>1, <1>3, <2>1 DEF FeedOrdered
  <2>2. CASE j = n
    <3>1. i \in 1 .. (n - 1) /\ changes'[j].rev = rev /\ changes'[j].page = p
      BY <1>1, <1>3, <2>2
    <3> QED BY <1>3, <1>4, <3>1
  <2>3. j < n \/ j = n
    BY <1>1
  <2> QED BY <2>1, <2>2, <2>3
<1> QED BY <1>1, <1>2, <1>3, <1>5, <1>6

LEMMA SaveKept ==
  ASSUME Typed, Kept, ~gone, NEW p \in Page, NEW parent \in Page \cup {None}, NEW base \in Nat,
         NEW deleted \in BOOLEAN, Save(p, parent, base, deleted)
  PROVE  Kept'
<1> DEFINE rev == row[p].rev + 1
           snap == [base |-> base, deleted |-> deleted]
<1>1. /\ rev \in Nat /\ row[p].rev \in Nat /\ snap \in Snapshots
      /\ row' \in [Page -> Rows] /\ history' \in [Page -> Seq(Snapshots)]
      /\ history[p] \in Seq(Snapshots)
  <2>1. row' \in [Page -> Rows] /\ history' \in [Page -> Seq(Snapshots)]
    BY SaveTyped
  <2>2. row[p].rev \in Nat /\ history[p] \in Seq(Snapshots)
    BY DEF Typed, Rows
  <2>3. snap \in Snapshots
    BY DEF Snapshots
  <2> QED BY <2>1, <2>2, <2>3
<1>2. /\ row'[p] = [rev |-> rev, parent |-> parent, deleted |-> deleted]
      /\ \A q \in Page \ {p} : row'[q] = row[q]
      /\ history'[p] = Append(history[p], snap)
      /\ \A q \in Page \ {p} : history'[q] = history[q]
      /\ Change(p, rev) /\ UNCHANGED <<gone, comments>>
  BY DEF Save, Typed
<1>3. \A q \in Page : row[q].rev \in Nat /\ row'[q].rev \in Nat /\ row[q].rev <= row'[q].rev
  <2> SUFFICES ASSUME NEW q \in Page
               PROVE  row[q].rev \in Nat /\ row'[q].rev \in Nat /\ row[q].rev <= row'[q].rev
    OBVIOUS
  <2>1. row[q].rev \in Nat
    BY DEF Typed, Rows
  <2>2. CASE q = p
    BY <1>1, <1>2, <2>2
  <2>3. CASE q # p
    BY <1>2, <2>1, <2>3
  <2> QED BY <2>1, <2>2, <2>3
<1>4. /\ FeedOrdered' /\ FeedPast' /\ cache' = {}
      /\ \A i \in DOMAIN changes : i \in DOMAIN changes' /\ changes'[i] = changes[i]
      /\ \E i \in DOMAIN changes' : changes'[i] = [page |-> p, rev |-> rev]
  <2>1. rev \in Nat /\ row'[p].rev = rev /\ row' \in [Page -> Rows]
    BY <1>1, <1>2
  <2>2. Change(p, rev)
    BY <1>2
  <2>3. FeedOrdered /\ FeedPast
    BY DEF Kept
  <2>4. \A q \in Page : row[q].rev <= row'[q].rev
    BY <1>3
  <2> HIDE DEF rev
  <2> QED BY <2>1, <2>2, <2>3, <2>4, ChangeTells
<1>5. HistoryKept'
  <2> SUFFICES ASSUME NEW q \in Page
               PROVE  /\ row'[q].rev = Len(history'[q])
                      /\ Exists(q)' => history'[q][row'[q].rev].deleted = row'[q].deleted
    BY DEF HistoryKept
  <2>1. CASE q = p
    <3>1. row[p].rev = Len(history[p])
      BY DEF Kept, HistoryKept
    <3>2. Len(history'[p]) = rev /\ history'[p][rev] = snap
      BY <1>1, <1>2, <3>1
    <3> QED BY <1>2, <2>1, <3>2
  <2>2. CASE q # p
    BY <1>2, <2>2 DEF Kept, HistoryKept, Exists
  <2> QED BY <2>1, <2>2
<1>6. FeedTells'
  <2> SUFFICES ASSUME NEW q \in Page, NEW r \in 1 .. row'[q].rev
               PROVE  \E i \in DOMAIN changes' : changes'[i] = [page |-> q, rev |-> r]
    BY DEF FeedTells
  <2>1. CASE r \in 1 .. row[q].rev
    BY <1>4, <2>1 DEF Kept, FeedTells
  <2>2. CASE r \notin 1 .. row[q].rev
    <3>1. q = p /\ r = rev
      BY <1>1, <1>2, <1>3, <2>2
    <3> QED BY <1>4, <3>1
  <2> QED BY <2>1, <2>2
<1>7. CommentsPlaced'
  <2>1. \A k \in DOMAIN comments : Exists(comments[k].page)
    BY DEF Kept, CommentsPlaced
  <2> QED BY <1>2, <1>3, <2>1 DEF CommentsPlaced, Exists
<1>8. GoneEmpty'
  BY <1>2 DEF GoneEmpty
<1> QED BY <1>4, <1>5, <1>6, <1>7, <1>8 DEF Kept

\* Steps that write nothing, and steps that write a comment.
LEMMA ContentKept ==
  ASSUME Kept, UNCHANGED content, gone => cache' \subseteq cache
  PROVE  Kept'
BY DEF Kept, HistoryKept, FeedTells, FeedOrdered, FeedPast, CommentsPlaced, GoneEmpty, Exists, content

LEMMA CommentKept ==
  ASSUME Typed, Kept, ~gone, NEW p \in Page, Change(p, row[p].rev), UNCHANGED <<gone, row, history>>,
         CommentsPlaced'
  PROVE  Kept'
<1>1. /\ row' \in [Page -> Rows] /\ row'[p].rev = row[p].rev /\ row[p].rev \in Nat
      /\ \A q \in Page : row[q].rev <= row'[q].rev
  BY DEF Typed, Rows
<1>2. /\ FeedOrdered' /\ FeedPast' /\ cache' = {}
      /\ \A i \in DOMAIN changes : i \in DOMAIN changes' /\ changes'[i] = changes[i]
  BY <1>1, ChangeTells DEF Kept
<1>3. FeedTells'
  BY <1>2 DEF Kept, FeedTells
<1> QED BY <1>2, <1>3 DEF Kept, HistoryKept, GoneEmpty, Exists

LEMMA KeptNext == Typed /\ Kept /\ [Next]_vars => Kept'
<1> SUFFICES ASSUME Typed, Kept, [Next]_vars PROVE Kept'
  OBVIOUS
<1>0. /\ \A p \in Page : row[p].rev \in Nat /\ row[p].parent \in Page \cup {None}
      /\ \A c \in Client : h[c] \in Handlers
  BY DEF Typed, Rows
<1>1. ASSUME NEW c, NEW op, NEW p, NEW parent, NEW base, Await(c, op, p, parent, base)
      PROVE  Kept'
  BY <1>1, ContentKept DEF Await
<1>2. ASSUME NEW c \in Client,
             \/ \E p \in Page, parent \in Page \cup {None} : Create(c, p, parent) \/ Put(c, p, parent)
             \/ \E p \in Page : Comment(c, p)
             \/ \E k \in DOMAIN comments : Patch(c, k)
      PROVE  Kept'
  BY <1>1, <1>2 DEF Create, Put, Comment, Patch
<1>3. ASSUME NEW c \in Client, CreateBody(c) \/ PutBody(c) PROVE Kept'
  <2>1. h[c].page \in Page /\ ~gone
    BY <1>3 DEF CreateBody, PutBody, Exists, Typed, Named
  <2>2. h[c].parent \in Page \cup {None} /\ h[c].base \in Nat
    BY <1>0 DEF Handlers
  <2> QED BY <1>3, <2>1, <2>2, SaveKept DEF CreateBody, PutBody
<1>4. ASSUME NEW c \in Client, CommentBody(c) PROVE Kept'
  <2> DEFINE p == h[c].page
  <2>1. p \in Page /\ Exists(p)
    BY <1>4 DEF CommentBody, Live, Exists
  <2>2. comments' = Append(comments, [page |-> p, edits |-> <<0>>]) /\ row' = row
    BY <1>4 DEF CommentBody
  <2>3. CommentsPlaced'
    <3>1. [page |-> p, edits |-> <<0>>] \in Threads
      BY <2>1 DEF Threads
    <3>2. \A k \in DOMAIN comments' : comments'[k].page = p \/ \E i \in DOMAIN comments : comments'[k] = comments[i]
      BY <2>2, <3>1 DEF Typed
    <3> QED BY <2>1, <2>2, <3>2 DEF Kept, CommentsPlaced, Exists
  <2> QED BY <1>4, <2>1, <2>3, CommentKept DEF CommentBody
<1>5. ASSUME NEW c \in Client, PatchBody(c) PROVE Kept'
  <2> DEFINE k == h[c].page
  <2>1. k \in DOMAIN comments /\ comments[k].page \in Page
    BY <1>5 DEF PatchBody, Live, Exists
  <2>2. comments' = [comments EXCEPT ![k].edits = Append(@, h[c].base)] /\ row' = row
    BY <1>5 DEF PatchBody
  <2>3. \A i \in DOMAIN comments : comments[i] \in Threads
    BY DEF Typed
  <2>4. CommentsPlaced'
    <3>1. DOMAIN comments' = DOMAIN comments
      BY <2>2
    <3>2. \A i \in DOMAIN comments : comments'[i].page = comments[i].page
      BY <2>1, <2>2, <2>3 DEF Threads
    <3> QED BY <2>2, <3>1, <3>2 DEF Kept, CommentsPlaced, Exists
  <2> QED BY <1>5, <2>1, <2>4, CommentKept DEF PatchBody
<1>6. ASSUME NEW c \in Client, Refused(c) \/ SearchAsk(c) \/ SearchRanked(c) PROVE Kept'
  BY <1>6, ContentKept DEF Refused, SearchAsk, SearchRanked
<1>7. ASSUME NEW p \in Page, DeletePage(p) PROVE Kept'
  BY <1>0, <1>7, SaveKept DEF DeletePage
<1>8. CASE DeleteWiki
  BY <1>8 DEF DeleteWiki, Kept, HistoryKept, FeedTells, FeedOrdered, FeedPast, CommentsPlaced,
     GoneEmpty, Absent, Exists
<1>9. CASE SearchAtOnce \/ Restart \/ UNCHANGED vars
  BY <1>9, ContentKept DEF SearchAtOnce, Restart, vars, content
<1> QED BY <1>2, <1>3, <1>4, <1>5, <1>6, <1>7, <1>8, <1>9 DEF Next

\* Every reachable state is well typed and keeps its tables.
LEMMA PagesKept == Spec => [](Typed /\ Kept)
<1>1. Init => Typed /\ Kept
  BY TypedInit, KeptInit
<1>2. Typed /\ Kept /\ [Next]_vars => (Typed /\ Kept)'
  BY TypedNext, KeptNext
<1> QED BY <1>1, <1>2, PTL DEF Spec

\* The tables agree in every reachable state, for any pages and clients: each
\* revision has its snapshot, the feed tells each once and in order, comments
\* stand on pages that exist, and a deleted wiki keeps nothing.
THEOREM PagesTypeOK == Spec => []TypeOK
BY PagesKept, TypesAndKept, PTL

-----------------------------------------------------------------------------
(***************************************************************************)
(* Edits.  A write commits only if the revision its author read is still   *)
(* the last one, and the history is as long as the revision says.          *)
(***************************************************************************)

LEMMA EditsKept ==
  ASSUME NEW S, NEW s \in Seq(S), NEW e \in S
  PROVE  /\ DOMAIN Append(s, e) = 1 .. (Len(s) + 1) /\ DOMAIN s = 1 .. Len(s) /\ Len(s) \in Nat
         /\ Append(s, e)[Len(s) + 1] = e
         /\ \A i \in 1 .. Len(s) : Append(s, e)[i] = s[i]
OBVIOUS

LEMMA SaveEdit ==
  ASSUME Typed, Kept, NoLostEdit, NEW p \in Page, NEW parent \in Page \cup {None},
         NEW deleted \in BOOLEAN, Save(p, parent, row[p].rev, deleted)
  PROVE  NoLostEdit'
<1> DEFINE snap == [base |-> row[p].rev, deleted |-> deleted]
<1>1. row[p].rev = Len(history[p]) /\ row[p].rev \in Nat
  BY DEF Typed, Rows, Kept, HistoryKept
<1>2. snap \in Snapshots /\ history[p] \in Seq(Snapshots)
  BY <1>1 DEF Typed, Snapshots
<1>3. /\ history'[p] = Append(history[p], snap) /\ comments' = comments
      /\ \A q \in Page \ {p} : history'[q] = history[q]
  BY DEF Save, Typed
<1>4. \A r \in DOMAIN history'[p] : history'[p][r].base = r - 1
  <2> SUFFICES ASSUME NEW r \in DOMAIN history'[p] PROVE history'[p][r].base = r - 1
    OBVIOUS
  <2>1. CASE r \in 1 .. Len(history[p])
    BY <1>2, <1>3, <2>1, EditsKept DEF NoLostEdit
  <2>2. CASE r = Len(history[p]) + 1
    BY <1>1, <1>2, <1>3, <2>2
  <2>3. r \in 1 .. (Len(history[p]) + 1) /\ Len(history[p]) \in Nat
    BY <1>2, <1>3, EditsKept
  <2>4. r \in 1 .. Len(history[p]) \/ r = Len(history[p]) + 1
    BY <2>3
  <2> QED BY <2>1, <2>2, <2>4
<1>5. ASSUME NEW q \in Page, NEW r \in DOMAIN history'[q]
      PROVE  history'[q][r].base = r - 1
  <2>1. CASE q = p
    BY <1>4, <1>5, <2>1
  <2>2. CASE q # p
    BY <1>3, <1>5, <2>2 DEF NoLostEdit
  <2> QED BY <2>1, <2>2
<1> QED BY <1>3, <1>5 DEF NoLostEdit

LEMMA NoLostEditNext == Typed /\ Kept /\ NoLostEdit /\ [Next]_vars => NoLostEdit'
<1> SUFFICES ASSUME Typed, Kept, NoLostEdit, [Next]_vars PROVE NoLostEdit'
  OBVIOUS
<1>0. /\ \A p \in Page : row[p].rev \in Nat /\ row[p].parent \in Page \cup {None}
      /\ \A c \in Client : h[c] \in Handlers
  BY DEF Typed, Rows
<1>1. CASE UNCHANGED <<history, comments>>
  BY <1>1 DEF NoLostEdit
<1>2. ASSUME NEW c, NEW op, NEW p, NEW parent, NEW base, Await(c, op, p, parent, base)
      PROVE  NoLostEdit'
  BY <1>1, <1>2 DEF Await, content
<1>3. ASSUME NEW c \in Client,
             \/ \E p \in Page, parent \in Page \cup {None} : Create(c, p, parent) \/ Put(c, p, parent)
             \/ \E p \in Page : Comment(c, p)
             \/ \E k \in DOMAIN comments : Patch(c, k)
      PROVE  NoLostEdit'
  BY <1>2, <1>3 DEF Create, Put, Comment, Patch
<1>4. ASSUME NEW c \in Client, CreateBody(c) \/ PutBody(c) PROVE NoLostEdit'
  <2>1. h[c].page \in Page /\ h[c].parent \in Page \cup {None}
    BY <1>0, <1>4 DEF CreateBody, PutBody, Exists, Typed, Named, Handlers
  <2>2. CreateBody(c) => row[h[c].page].rev = 0
    BY <1>0, <2>1 DEF CreateBody, Exists
  <2>3. Save(h[c].page, h[c].parent, row[h[c].page].rev, FALSE)
    BY <1>4, <2>2 DEF CreateBody, PutBody
  <2> QED BY <2>1, <2>3, SaveEdit
<1>5. ASSUME NEW c \in Client, CommentBody(c) PROVE NoLostEdit'
  <2> DEFINE t == [page |-> h[c].page, edits |-> <<0>>]
  <2>1. comments' = Append(comments, t) /\ history' = history
    BY <1>5 DEF CommentBody
  <2>2. t \in Threads /\ comments \in Seq(Threads)
    BY <1>5 DEF CommentBody, Live, Exists, Threads, Typed
  <2>3. \A r \in DOMAIN t.edits : t.edits[r] = r - 1
    OBVIOUS
  <2> HIDE DEF t
  <2>4. \A k \in DOMAIN comments' : comments'[k] = t \/ \E i \in DOMAIN comments : comments'[k] = comments[i]
    BY <2>1, <2>2
  <2>5. \A k \in DOMAIN comments' : \A r \in DOMAIN comments'[k].edits : comments'[k].edits[r] = r - 1
    BY <2>3, <2>4 DEF NoLostEdit
  <2> QED BY <2>1, <2>5 DEF NoLostEdit
<1>6. ASSUME NEW c \in Client, PatchBody(c) PROVE NoLostEdit'
  <2> DEFINE k == h[c].page
             old == comments[k].edits
  <2>1. /\ k \in DOMAIN comments /\ h[c].base = Len(old) /\ history' = history
        /\ comments' = [comments EXCEPT ![k].edits = Append(@, h[c].base)]
    BY <1>6 DEF PatchBody
  <2>2. \A i \in DOMAIN comments : comments[i] \in Threads
    BY DEF Typed
  <2>3. /\ DOMAIN comments' = DOMAIN comments /\ comments'[k].edits = Append(old, Len(old))
        /\ \A i \in DOMAIN comments : i # k => comments'[i] = comments[i]
    BY <2>1, <2>2 DEF Threads
  <2>4. old \in Seq(Nat) /\ Len(old) \in Nat /\ \A r \in DOMAIN old : old[r] = r - 1
    BY <2>1, <2>2 DEF Threads, NoLostEdit
  <2>5. \A r \in DOMAIN Append(old, Len(old)) : Append(old, Len(old))[r] = r - 1
    <3> HIDE DEF old
    <3> SUFFICES ASSUME NEW r \in DOMAIN Append(old, Len(old))
                 PROVE  Append(old, Len(old))[r] = r - 1
      OBVIOUS
    <3>1. r \in 1 .. Len(old) \/ r = Len(old) + 1
      BY <2>4
    <3> QED BY <2>4, <3>1
  <2>6. \A i \in DOMAIN comments' : \A r \in DOMAIN comments'[i].edits : comments'[i].edits[r] = r - 1
    <3> HIDE DEF old
    <3>1. ASSUME NEW i \in DOMAIN comments, i # k
          PROVE  \A r \in DOMAIN comments'[i].edits : comments'[i].edits[r] = r - 1
      BY <2>3, <3>1 DEF NoLostEdit
    <3> QED BY <2>3, <2>5, <3>1
  <2> QED BY <2>1, <2>6 DEF NoLostEdit
<1>7. ASSUME NEW c \in Client, Refused(c) \/ SearchAsk(c) \/ SearchRanked(c) PROVE NoLostEdit'
  BY <1>1, <1>7 DEF Refused, SearchAsk, SearchRanked, content
<1>8. ASSUME NEW p \in Page, DeletePage(p) PROVE NoLostEdit'
  BY <1>0, <1>8, SaveEdit DEF DeletePage
<1>9. CASE DeleteWiki
  BY <1>9 DEF DeleteWiki, NoLostEdit
<1>10. CASE SearchAtOnce \/ Restart \/ UNCHANGED vars
  BY <1>1, <1>10 DEF SearchAtOnce, Restart, vars, content
<1> QED BY <1>3, <1>4, <1>5, <1>6, <1>7, <1>8, <1>9, <1>10 DEF Next

\* No edit is lost, for any pages, clients and revisions: who writes a revision
\* of a page or of a comment had read the one before it.
THEOREM PagesNoLostEdit == Spec => []NoLostEdit
<1>1. Init => NoLostEdit
  BY DEF Init, NoLostEdit
<1>2. Typed /\ Kept /\ NoLostEdit /\ [Next]_vars => NoLostEdit'
  BY NoLostEditNext
<1> QED BY <1>1, <1>2, PagesKept, PTL DEF Spec

-----------------------------------------------------------------------------
(***************************************************************************)
(* Searches.  Until the wiki is deleted its version only grows, so what a  *)
(* search or the cache holds for the present version was read from it.     *)
(***************************************************************************)

Current(v, hits) == v <= version /\ (v = version => hits = Candidates)
Rankings ==
  ~gone => /\ \A entry \in cache : Current(entry.version, entry.hits)
           /\ \A c \in Client : h[c].op = "search" => Current(h[c].base, h[c].hits)

LEMMA WriteRankings ==
  ASSUME Typed, Rankings, ~gone, NEW p, NEW rev, Change(p, rev), NEW c \in Client,
         Done(c) \/ UNCHANGED h
  PROVE  Rankings'
<1>1. version \in Nat /\ version' = version + 1 /\ cache' = {}
  BY DEF Typed, Change, version
<1>2. \A d \in Client : h'[d].op = "search" => h'[d] = h[d]
  BY DEF Done, Typed, Idle
<1>3. \A d \in Client : h[d].base \in Nat
  BY DEF Typed, Handlers
<1>4. \A d \in Client : h'[d].op = "search" => h'[d].base <= version
  BY <1>2 DEF Rankings, Current
<1>5. \A d \in Client : h'[d].op = "search" => h'[d].base < version'
  BY <1>1, <1>2, <1>3, <1>4
<1>6. \A d \in Client : h'[d].op = "search" => Current(h[d].base, h[d].hits)'
  BY <1>1, <1>2, <1>3, <1>5 DEF Current
<1> QED BY <1>1, <1>6 DEF Rankings

\* Steps that leave the content alone and rank nothing.
LEMMA QuietRankings ==
  ASSUME Rankings, UNCHANGED content, ~gone => cache' \subseteq cache,
         \A c \in Client : h'[c].op = "search" => h'[c] = h[c]
  PROVE  Rankings'
<1>1. version' = version /\ Candidates' = Candidates /\ gone' = gone
  BY DEF content, version, Candidates, Live, Exists
<1> QED BY <1>1 DEF Rankings, Current

LEMMA RankingsNext == Typed /\ Rankings /\ [Next]_vars => Rankings'
<1> SUFFICES ASSUME Typed, Rankings, [Next]_vars PROVE Rankings'
  OBVIOUS
<1>1. ASSUME NEW c \in Client, NEW op \in Ops \ {"search"}, NEW p, NEW parent, NEW base,
             Await(c, op, p, parent, base)
      PROVE  Rankings'
  <2>1. \A d \in Client : h'[d].op = "search" => h'[d] = h[d]
    BY <1>1 DEF Await, Typed
  <2> QED BY <1>1, <2>1, QuietRankings DEF Await
<1>2. ASSUME NEW c \in Client,
             \/ \E p \in Page, parent \in Page \cup {None} : Create(c, p, parent) \/ Put(c, p, parent)
             \/ \E p \in Page : Comment(c, p)
             \/ \E k \in DOMAIN comments : Patch(c, k)
      PROVE  Rankings'
  BY <1>1, <1>2 DEF Create, Put, Comment, Patch, Ops
<1>3. ASSUME NEW c \in Client, CreateBody(c) \/ PutBody(c) \/ CommentBody(c) \/ PatchBody(c)
      PROVE  Rankings'
  <2>1. Done(c) /\ ~gone
    BY <1>3 DEF CreateBody, PutBody, CommentBody, PatchBody
  <2>2. \E p, rev : Change(p, rev)
    BY <1>3 DEF CreateBody, PutBody, CommentBody, PatchBody, Save
  <2> QED BY <2>1, <2>2, WriteRankings
<1>4. ASSUME NEW c \in Client, Refused(c) PROVE Rankings'
  BY <1>4, QuietRankings DEF Refused, Done, Typed, Idle
<1>5. ASSUME NEW c \in Client, SearchAsk(c) PROVE Rankings'
  <2> DEFINE d == CHOOSE d \in Client : h[d].op = "search" /\ h[d].base = version
             hits == IF version \in Ranking THEN h[d].hits ELSE Candidates
  <2>1. version \in Ranking => hits = h[d].hits /\ d \in Client /\ h[d].op = "search" /\ h[d].base = version
    <3>1. version \in Ranking => \E e \in Client : h[e].op = "search" /\ h[e].base = version
      BY DEF Ranking
    <3> QED BY <3>1
  <2>2. ~gone /\ UNCHANGED content /\ cache' = cache
        /\ h' = [h EXCEPT ![c] = [Idle EXCEPT !.op = "search", !.base = version, !.hits = hits]]
    BY <1>5 DEF SearchAsk
  <2>3. hits = Candidates
    BY <2>1, <2>2 DEF Rankings, Current
  <2> HIDE DEF d, hits
  <2>4. version' = version /\ Candidates' = Candidates /\ gone' = gone /\ version \in Nat
    BY <2>2, CandidatesType DEF content, version, Candidates, Live, Exists
  <2>5. \A e \in Client : h'[e].op = "search" =>
          h'[e] = h[e] \/ (h'[e].base = version /\ h'[e].hits = Candidates)
    BY <2>2, <2>3 DEF Typed, Idle
  <2>6. \A e \in Client : h'[e].op = "search" => Current(h'[e].base, h'[e].hits)
    <3> SUFFICES ASSUME NEW e \in Client, h'[e].op = "search"
                 PROVE  Current(h'[e].base, h'[e].hits)
      OBVIOUS
    <3>1. CASE h'[e] = h[e]
      BY <2>2, <3>1 DEF Rankings
    <3>2. CASE h'[e].base = version /\ h'[e].hits = Candidates
      BY <2>4, <3>2 DEF Current
    <3> QED BY <2>5, <3>1, <3>2
  <2> QED BY <2>2, <2>4, <2>6 DEF Rankings, Current
<1>6. ASSUME NEW c \in Client, SearchRanked(c) PROVE Rankings'
  <2>1. \A d \in Client : h'[d].op = "search" => h'[d] = h[d]
    BY <1>6 DEF SearchRanked, Done, Typed, Idle
  <2>2. CASE cache' \subseteq cache
    BY <1>6, <2>1, <2>2, QuietRankings DEF SearchRanked
  <2>3. CASE ~gone /\ version = h[c].base
             /\ cache' = cache \cup {[version |-> version, hits |-> h[c].hits]}
    <3>1. version' = version /\ Candidates' = Candidates /\ gone' = gone
      BY <1>6 DEF SearchRanked, content, version, Candidates, Live, Exists
    <3>2. Current(version, h[c].hits)
      BY <1>6, <2>3 DEF SearchRanked, Rankings
    <3>3. \A entry \in cache' : Current(entry.version, entry.hits)
      BY <2>3, <3>2 DEF Rankings
    <3> QED BY <2>1, <2>3, <3>1, <3>3 DEF Rankings, Current
  <2> QED BY <1>6, <2>2, <2>3 DEF SearchRanked
<1>7. ASSUME NEW p \in Page, DeletePage(p) PROVE Rankings'
  <2>1. ~gone /\ UNCHANGED h /\ \E q, rev : Change(q, rev)
    BY <1>7 DEF DeletePage, Save
  <2>2. CASE Client = {}
    BY <2>1, <2>2 DEF Rankings, Change
  <2> QED BY <2>1, <2>2, WriteRankings
<1>8. CASE DeleteWiki
  BY <1>8 DEF DeleteWiki, Rankings
<1>9. CASE SearchAtOnce \/ Restart \/ UNCHANGED vars
  BY <1>9, QuietRankings DEF SearchAtOnce, Restart, Idle, vars
<1> QED BY <1>2, <1>3, <1>4, <1>5, <1>6, <1>7, <1>8, <1>9 DEF Next

LEMMA AnswerNext == Rankings /\ AnswerCurrent /\ [Next]_vars => AnswerCurrent'
<1> SUFFICES ASSUME Rankings, AnswerCurrent, [Next]_vars PROVE AnswerCurrent'
  OBVIOUS
<1>1. CASE answer' = NoAnswer
  BY <1>1 DEF AnswerCurrent
<1>2. ASSUME NEW hits, Reply(hits), hits = Candidates, UNCHANGED content PROVE AnswerCurrent'
  <2>1. version' = version /\ Candidates' = Candidates
    BY <1>2 DEF content, version, Candidates, Live, Exists
  <2> QED BY <1>2, <2>1 DEF Reply, AnswerCurrent
<1>3. CASE SearchAtOnce
  <2>1. \A entry \in cache : entry.version = version => entry.hits = Candidates
    BY <1>3 DEF SearchAtOnce, Rankings, Current
  <2> QED BY <1>2, <1>3, <2>1 DEF SearchAtOnce
<1>4. ASSUME NEW c \in Client, SearchRanked(c) PROVE AnswerCurrent'
  <2>1. ~gone /\ version = h[c].base => h[c].hits = Candidates
    BY <1>4 DEF SearchRanked, Rankings, Current
  <2> QED BY <1>1, <1>2, <1>4, <2>1 DEF SearchRanked
<1>5. CASE UNCHANGED vars
  BY <1>5 DEF vars, content, AnswerCurrent, version, Candidates, Live, Exists
<1> QED
  BY <1>1, <1>3, <1>4, <1>5 DEF Next, Create, Put, Comment, Patch, Await, CreateBody, PutBody,
     CommentBody, PatchBody, Refused, SearchAsk, DeletePage, DeleteWiki, Restart

\* A search answers for the wiki as it is, for any number of searches, writes
\* and providers' delays, also from the cache.
THEOREM PagesAnswerCurrent == Spec => []AnswerCurrent
<1>1. Init => Rankings /\ AnswerCurrent
  BY DEF Init, Rankings, AnswerCurrent, Idle
<1>2. Typed /\ Rankings /\ [Next]_vars => Rankings'
  BY RankingsNext
<1>3. Rankings /\ AnswerCurrent /\ [Next]_vars => AnswerCurrent'
  BY AnswerNext
<1> QED BY <1>1, <1>2, <1>3, PagesKept, PTL DEF Spec

-----------------------------------------------------------------------------
(***************************************************************************)
(* Induction over the naturals, for sets given by what their members have  *)
(* in common.                                                              *)
(***************************************************************************)

LEMMA Least ==
  ASSUME NEW S \in SUBSET Nat, S # {}
  PROVE  \E m \in S : \A k \in S : m <= k
<1> DEFINE Smaller == OpToRel(<, Nat)
<1>1. \E x \in S : \A y \in S : ~(<<y, x>> \in Smaller)
  BY NatLessThanWellFounded, WFMin
<1>2. \A x, y \in Nat : <<y, x>> \in Smaller <=> y < x
  BY DEF OpToRel
<1> HIDE DEF Smaller
<1>3. \E x \in S : \A y \in S : ~(y < x)
  BY <1>1, <1>2
<1> QED BY <1>3

LEMMA Greatest ==
  ASSUME NEW N \in Nat, NEW S \in SUBSET (0 .. N), S # {}
  PROVE  \E m \in S : \A k \in S : k <= m
<1> DEFINE T == {N - k : k \in S}
<1>1. T \in SUBSET Nat /\ T # {}
  <2>1. \A k \in S : N - k \in Nat
    OBVIOUS
  <2> QED BY <2>1
<1>2. PICK t \in T : \A u \in T : t <= u
  BY <1>1, Least
<1>3. PICK m \in S : t = N - m
  OBVIOUS
<1>4. \A k \in S : N - m <= N - k
  BY <1>2, <1>3
<1> QED BY <1>3, <1>4

LEMMA Induct ==
  ASSUME NEW S, 0 \in S, \A n \in Nat : n \in S => n + 1 \in S
  PROVE  \A n \in Nat : n \in S
<1> DEFINE T == {n \in Nat : n \notin S}
<1> SUFFICES ASSUME T # {} PROVE FALSE
  OBVIOUS
<1>1. PICK m \in T : \A k \in T : m <= k
  BY Least
<1>2. m # 0 /\ m - 1 \in Nat
  BY <1>1
<1>3. m - 1 \in S
  BY <1>1, <1>2
<1> QED BY <1>1, <1>2, <1>3

-----------------------------------------------------------------------------
(***************************************************************************)
(* The tree.  Chain(q) climbs from q; a way is a climb over live pages     *)
(* written down as a function, which a changed parent leaves alone up to   *)
(* the first page that moved.                                              *)
(***************************************************************************)

Places == Page \cup {None}
Up(x) == IF x = None THEN None ELSE row[x].parent

IsClimb(f, q, n) ==
  /\ f \in [0 .. n -> Places] /\ f[0] = q
  /\ \A i \in 1 .. n : f[i] = Up(f[i - 1])

LEMMA ClimbExists ==
  ASSUME Typed, NEW q \in Places, NEW n \in Nat
  PROVE  \E f : IsClimb(f, q, n)
<1> DEFINE S == {k \in Nat : \E f : IsClimb(f, q, k)}
<1>1. 0 \in S
  <2>1. IsClimb([i \in 0 .. 0 |-> q], q, 0)
    BY DEF IsClimb
  <2> QED BY <2>1
<1>2. ASSUME NEW k \in Nat, k \in S PROVE k + 1 \in S
  <2>1. PICK f : IsClimb(f, q, k)
    BY <1>2
  <2> DEFINE g == [i \in 0 .. (k + 1) |-> IF i <= k THEN f[i] ELSE Up(f[k])]
  <2>2. f[k] \in Places /\ Up(f[k]) \in Places
    BY <2>1 DEF IsClimb, Up, Typed, Rows, Places
  <2>3. g \in [0 .. (k + 1) -> Places] /\ g[0] = q
    BY <2>1, <2>2 DEF IsClimb
  <2>4. ASSUME NEW i \in 1 .. (k + 1) PROVE g[i] = Up(g[i - 1])
    <3>1. CASE i <= k
      BY <2>1, <3>1 DEF IsClimb
    <3>2. CASE i = k + 1
      BY <3>2
    <3> QED BY <3>1, <3>2
  <2>5. IsClimb(g, q, k + 1)
    BY <2>3, <2>4 DEF IsClimb
  <2> QED BY <2>5
<1> HIDE DEF S
<1>3. n \in S
  BY <1>1, <1>2, Induct
<1> QED BY <1>3 DEF S

\* What the recursive definition of Chain says, for any depth.
LEMMA ChainClimbs ==
  ASSUME Typed, NEW q \in Places
  PROVE  IsClimb(Chain(q), q, MaxDepth + 1)
<1> DEFINE D == 0 .. (MaxDepth + 1)
           Q(f) == f = [n \in D |-> IF n = 0 THEN q
                                    ELSE IF f[n - 1] = None THEN None ELSE row[f[n - 1]].parent]
<1>1. PICK g : IsClimb(g, q, MaxDepth + 1)
  BY ClimbExists, PagesAssumption
<1>2. Q(g)
  <2>1. \A n \in D : g[n] = IF n = 0 THEN q
                            ELSE IF g[n - 1] = None THEN None ELSE row[g[n - 1]].parent
    BY <1>1, PagesAssumption DEF IsClimb, Up
  <2>2. g = [n \in D |-> g[n]]
    BY <1>1 DEF IsClimb
  <2> QED BY <2>1, <2>2
<1>3. Q(CHOOSE f : Q(f))
  <2> HIDE DEF Q
  <2> QED BY <1>2
<1>4. Chain(q) = (CHOOSE f : Q(f))
  BY DEF Chain
<1>5. Q(Chain(q))
  BY <1>3, <1>4
<1> DEFINE f == Chain(q)
<1> HIDE DEF f
<1>6. \A i \in D : f[i] = IF i = 0 THEN q
                       ELSE IF f[i - 1] = None THEN None ELSE row[f[i - 1]].parent
  BY <1>5 DEF f
<1>7. DOMAIN f = D /\ f = [n \in D |-> f[n]]
  BY <1>5 DEF f
<1> DEFINE S == {i \in Nat : i \in D => f[i] = g[i]}
<1>8. 0 \in S
  BY <1>1, <1>6 DEF IsClimb
<1>9. ASSUME NEW i \in Nat, i \in S PROVE i + 1 \in S
  <2> SUFFICES ASSUME i + 1 \in D PROVE f[i + 1] = g[i + 1]
    OBVIOUS
  <2>1. i \in D /\ MaxDepth \in Nat /\ (i + 1) - 1 = i /\ i + 1 # 0
    BY PagesAssumption
  <2>2. f[i] = g[i] /\ g[i + 1] = Up(g[i])
    BY <1>1, <1>9, <2>1 DEF IsClimb
  <2> QED BY <1>6, <2>1, <2>2 DEF Up
<1> HIDE DEF S
<1>10. \A i \in Nat : i \in S
  BY <1>8, <1>9, Induct
<1>11. \A i \in D : f[i] = g[i]
  BY <1>10, PagesAssumption DEF S
<1>12. f = g
  BY <1>1, <1>7, <1>11 DEF IsClimb
<1> QED BY <1>1, <1>12 DEF f

\* A way of n steps up over live pages.
IsWay(w, n) ==
  /\ w \in [0 .. n -> Places]
  /\ \A i \in 0 .. (n - 1) : Live(w[i]) /\ w[i + 1] = row[w[i]].parent

\* A way is what Chain climbs, and a climb over live pages is a way.
LEMMA WayIsChain ==
  ASSUME Typed, NEW n \in 0 .. (MaxDepth + 1), NEW w, IsWay(w, n)
  PROVE  \A i \in 0 .. n : Chain(w[0])[i] = w[i]
<1> DEFINE f == Chain(w[0])
           S == {i \in Nat : i \in 0 .. n => f[i] = w[i]}
<1>0. n \in Nat /\ n <= MaxDepth + 1 /\ MaxDepth \in Nat
  BY PagesAssumption
<1>1. IsClimb(f, w[0], MaxDepth + 1)
  BY <1>0, ChainClimbs DEF IsWay
<1> HIDE DEF f
<1>2. 0 \in S
  BY <1>1 DEF IsClimb
<1>3. ASSUME NEW i \in Nat, i \in S PROVE i + 1 \in S
  <2> SUFFICES ASSUME i + 1 \in 0 .. n PROVE f[i + 1] = w[i + 1]
    OBVIOUS
  <2>1. i \in 0 .. (n - 1) /\ i \in 0 .. n /\ i + 1 \in 1 .. (MaxDepth + 1) /\ (i + 1) - 1 = i
    BY <1>0
  <2>2. f[i] = w[i] /\ Live(w[i]) /\ w[i + 1] = row[w[i]].parent
    BY <1>3, <2>1 DEF IsWay
  <2>3. w[i] # None
    BY <2>2, PagesAssumption DEF Live, Exists
  <2> QED BY <1>1, <2>1, <2>2, <2>3 DEF IsClimb, Up
<1> HIDE DEF S
<1>4. \A i \in Nat : i \in S
  BY <1>2, <1>3, Induct
<1> QED BY <1>0, <1>4 DEF S, f

LEMMA ChainIsWay ==
  ASSUME Typed, NEW q \in Places, NEW n \in 0 .. (MaxDepth + 1),
         \A i \in 0 .. (n - 1) : Live(Chain(q)[i])
  PROVE  \E w : IsWay(w, n) /\ \A i \in 0 .. n : w[i] = Chain(q)[i]
<1> DEFINE f == Chain(q)
           w == [i \in 0 .. n |-> f[i]]
<1>0. n \in Nat /\ n <= MaxDepth + 1 /\ MaxDepth \in Nat
  BY PagesAssumption
<1>1. IsClimb(f, q, MaxDepth + 1)
  BY ChainClimbs
<1>2. \A i \in 0 .. (n - 1) : Live(f[i])
  OBVIOUS
<1> HIDE DEF f
<1>3. w \in [0 .. n -> Places]
  BY <1>0, <1>1 DEF IsClimb
<1>4. ASSUME NEW i \in 0 .. (n - 1) PROVE Live(w[i]) /\ w[i + 1] = row[w[i]].parent
  <2>1. i \in 0 .. n /\ i + 1 \in 0 .. n /\ i + 1 \in 1 .. (MaxDepth + 1) /\ (i + 1) - 1 = i
    BY <1>0
  <2>2. f[i + 1] = Up(f[i]) /\ Live(f[i])
    BY <1>1, <1>2, <2>1 DEF IsClimb
  <2>3. f[i] # None
    BY <2>2, PagesAssumption DEF Live, Exists
  <2> QED BY <2>1, <2>2, <2>3 DEF Up
<1>5. IsWay(w, n)
  BY <1>3, <1>4 DEF IsWay
<1> QED BY <1>5 DEF f

\* Below(p) is the number of levels below p, whatever they are.
LEMMA BelowBounds ==
  ASSUME Typed, NEW p \in Page, NEW n \in 0 .. (MaxDepth + 1), NEW q \in Page,
         Chain(q)[n] = p, \A i \in 0 .. (n - 1) : Live(Chain(q)[i])
  PROVE  n <= Below(p) /\ Below(p) \in Nat
<1> DEFINE levels == {k \in 0 .. (MaxDepth + 1) :
                        \E r \in Page : Chain(r)[k] = p /\ \A i \in 0 .. (k - 1) : Live(Chain(r)[i])}
<1>1. n \in levels
  OBVIOUS
<1>2. levels \in SUBSET (0 .. (MaxDepth + 1)) /\ MaxDepth + 1 \in Nat
  BY PagesAssumption
<1>3. Below(p) = CHOOSE k \in levels : \A m \in levels : m <= k
  BY DEF Below
<1> HIDE DEF levels
<1>4. \E k \in levels : \A m \in levels : m <= k
  BY <1>1, <1>2, Greatest
<1>5. Below(p) \in levels /\ \A m \in levels : m <= Below(p)
  BY <1>3, <1>4
<1>6. Below(p) \in Nat
  <2>1. Below(p) \in 0 .. (MaxDepth + 1)
    BY <1>2, <1>5, Zenon
  <2> QED BY <1>2, <2>1
<1>7. n <= Below(p)
  BY <1>1, <1>5, Zenon
<1> QED BY <1>6, <1>7

Rooted(q, d) == \E w : IsWay(w, d) /\ w[0] = q /\ w[d] = None
Forest == \A q \in Page : Live(q) => \E d \in 1 .. (MaxDepth + 1) : Rooted(q, d)

LEMMA ForestIsTreeSound == Typed /\ Kept /\ Forest => TreeSound
<1> SUFFICES ASSUME Typed, Forest, NEW p \in Page, Live(p)
             PROVE  \E depth \in 1 .. (MaxDepth + 1) :
                      Chain(p)[depth] = None /\ \A i \in 1 .. (depth - 1) : Live(Chain(p)[i])
  BY TypesAndKept DEF TreeSound
<1>1. PICK d, w : d \in 1 .. (MaxDepth + 1) /\ IsWay(w, d) /\ w[0] = p /\ w[d] = None
  BY DEF Forest, Rooted
<1>2. d \in 0 .. (MaxDepth + 1) /\ MaxDepth \in Nat
  BY <1>1, PagesAssumption
<1>3. \A i \in 0 .. d : Chain(p)[i] = w[i]
  BY <1>1, <1>2, WayIsChain
<1>4. Chain(p)[d] = None
  BY <1>1, <1>3
<1>5. \A i \in 1 .. (d - 1) : Live(Chain(p)[i])
  BY <1>1, <1>3 DEF IsWay
<1> QED BY <1>1, <1>4, <1>5

\* A page gets a new parent, is created, edited or deleted: every live page still
\* has a way to the root that is no longer than allowed.
LEMMA SaveForest ==
  ASSUME Typed, Forest, NEW p \in Page, NEW parent \in Places, NEW base, NEW deleted \in BOOLEAN,
         Save(p, parent, base, deleted),
         deleted => ~\E q \in Page : Live(q) /\ row[q].parent = p
  PROVE  Forest'
<1>0. MaxDepth \in Nat /\ None \notin Page
  BY PagesAssumption
<1>1. /\ row'[p].rev > 0 /\ row'[p].parent = parent /\ row'[p].deleted = deleted
      /\ \A q \in Page \ {p} : row'[q] = row[q]
  BY DEF Save, Typed, Rows
<1>2. \A x : x # p => (Live(x)' <=> Live(x))
  BY <1>1 DEF Live, Exists
<1>3. Live(p)' <=> ~deleted
  BY <1>1 DEF Live, Exists
<1>4. \A x : Live(x) => x \in Page /\ x # None
  BY <1>0 DEF Live, Exists
\* The way from the new parent up to the root, which avoids the page.
<1>5. PICK depth, up :
        /\ depth \in 0 .. MaxDepth /\ IsWay(up, depth) /\ up[0] = parent /\ up[depth] = None
        /\ \A i \in 0 .. (depth - 1) : up[i] # p
        /\ depth + Below(p) <= MaxDepth
  <2>1. PICK depth \in 0 .. MaxDepth :
          /\ Chain(parent)[depth] = None
          /\ \A i \in 0 .. (depth - 1) : Live(Chain(parent)[i]) /\ Chain(parent)[i] # p
          /\ depth + Below(p) <= MaxDepth
    BY DEF Save, MayHang
  <2>2. depth \in 0 .. (MaxDepth + 1)
    BY <1>0
  <2>3. PICK up : IsWay(up, depth) /\ \A i \in 0 .. depth : up[i] = Chain(parent)[i]
    BY <2>1, <2>2, ChainIsWay
  <2>4. Chain(parent)[0] = parent
    BY ChainClimbs DEF IsClimb
  <2>5. up[0] = parent /\ up[depth] = None
    BY <2>1, <2>3, <2>4
  <2>6. \A i \in 0 .. (depth - 1) : up[i] # p
    BY <2>1, <2>3
  <2> QED BY <2>1, <2>3, <2>5, <2>6
\* A way that ends where up begins continues along it.
<1>6. ASSUME NEW w, NEW k \in 0 .. (MaxDepth + 1), ~deleted, IsWay(w, k), w[k] = p,
             \A i \in 0 .. (k - 1) : w[i] # p, k + depth <= MaxDepth
      PROVE  \E d \in 1 .. (MaxDepth + 1) : Rooted(w[0], d)'
  <2> DEFINE d == k + 1 + depth
             v == [i \in 0 .. d |-> IF i <= k THEN w[i] ELSE up[i - (k + 1)]]
  <2>1. k \in Nat /\ depth \in Nat /\ d \in 1 .. (MaxDepth + 1) /\ d \in Nat
    BY <1>0, <1>5, <1>6
  <2>2. v \in [0 .. d -> Places]
    <3> SUFFICES ASSUME NEW i \in 0 .. d PROVE v[i] \in Places
      OBVIOUS
    <3>1. CASE i <= k
      BY <1>6, <2>1, <3>1 DEF IsWay
    <3>2. CASE ~(i <= k)
      <4>1. i - (k + 1) \in 0 .. depth
        BY <2>1, <3>2
      <4> QED BY <1>5, <3>2, <4>1 DEF IsWay
    <3> QED BY <3>1, <3>2
  <2>3. ASSUME NEW i \in 0 .. (d - 1) PROVE Live(v[i])' /\ v[i + 1] = row'[v[i]].parent
    <3>1. CASE i < k
      <4>1. v[i] = w[i] /\ v[i + 1] = w[i + 1] /\ i \in 0 .. (k - 1)
        BY <2>1, <3>1
      <4>2. Live(w[i]) /\ w[i + 1] = row[w[i]].parent /\ w[i] # p
        BY <1>6, <4>1 DEF IsWay
      <4> QED BY <1>1, <1>2, <1>4, <4>1, <4>2
    <3>2. CASE i = k
      <4>1. v[i] = p /\ v[i + 1] = up[0]
        BY <1>6, <2>1, <3>2
      <4> QED BY <1>1, <1>3, <1>5, <1>6, <4>1
    <3>3. CASE i > k
      <4> DEFINE j == i - (k + 1)
      <4>1. j \in 0 .. (depth - 1) /\ v[i] = up[j] /\ v[i + 1] = up[j + 1]
        BY <2>1, <3>3
      <4>2. Live(up[j]) /\ up[j + 1] = row[up[j]].parent /\ up[j] # p
        BY <1>5, <4>1 DEF IsWay
      <4> QED BY <1>1, <1>2, <1>4, <4>1, <4>2
    <3>4. i < k \/ i = k \/ i > k
      BY <2>1
    <3> QED BY <3>1, <3>2, <3>3, <3>4
  <2>4. v[0] = w[0] /\ v[d] = None
    BY <1>5, <2>1
  <2> HIDE DEF v
  <2>5. IsWay(v, d)'
    BY <2>2, <2>3 DEF IsWay
  <2>6. Rooted(w[0], d)'
    BY <2>4, <2>5 DEF Rooted
  <2> QED BY <2>1, <2>6
<1> SUFFICES ASSUME NEW q \in Page, Live(q)'
             PROVE  \E d \in 1 .. (MaxDepth + 1) : Rooted(q, d)'
  BY DEF Forest
<1>7. CASE q = p
  <2> DEFINE w == [i \in 0 .. 0 |-> p]
  <2>1. IsWay(w, 0) /\ w[0] = p
    BY DEF IsWay, Places
  <2>2. 0 <= Below(p) /\ Below(p) \in Nat
    <3>1. Chain(p)[0] = p
      BY ChainClimbs DEF IsClimb, Places
    <3> QED BY <1>0, <3>1, BelowBounds
  <2>3. 0 \in 0 .. (MaxDepth + 1) /\ 0 + depth <= MaxDepth
    BY <1>0, <1>5, <2>2
  <2> QED BY <1>3, <1>6, <1>7, <2>1, <2>3
<1>8. CASE q # p
  <2>1. PICK d, w : d \in 1 .. (MaxDepth + 1) /\ IsWay(w, d) /\ w[0] = q /\ w[d] = None
    BY <1>2, <1>8 DEF Forest, Rooted
  <2>2. d \in Nat /\ d <= MaxDepth + 1
    BY <1>0, <2>1
  <2>3. CASE \A i \in 0 .. (d - 1) : w[i] # p
    <3>1. ASSUME NEW i \in 0 .. (d - 1) PROVE Live(w[i])' /\ w[i + 1] = row'[w[i]].parent
      BY <1>1, <1>2, <1>4, <2>1, <2>3 DEF IsWay
    <3>2. IsWay(w, d)'
      BY <2>1, <3>1 DEF IsWay
    <3> QED BY <2>1, <3>2 DEF Rooted
  <2>4. CASE \E i \in 0 .. (d - 1) : w[i] = p
    <3> DEFINE S == {i \in 0 .. (d - 1) : w[i] = p}
    <3>1. PICK k \in S : \A i \in S : k <= i
      <4>1. S \in SUBSET Nat /\ S # {}
        BY <2>2, <2>4
      <4> HIDE DEF S
      <4> QED BY <4>1, Least
    <3>2. /\ k \in Nat /\ k <= d - 1 /\ w[k] = p /\ k # 0
          /\ \A i \in 0 .. (k - 1) : w[i] # p
      BY <1>8, <2>1, <2>2, <3>1
    <3>3. IsWay(w, d) /\ IsWay([i \in 0 .. k |-> w[i]], k)
      BY <2>1, <2>2, <3>2 DEF IsWay
    <3>4. CASE deleted
      <4>1. Live(w[k - 1]) /\ row[w[k - 1]].parent = p /\ w[k - 1] \in Page
        <5>1. k - 1 \in 0 .. (d - 1) /\ (k - 1) + 1 = k
          BY <2>2, <3>2
        <5> QED BY <1>4, <2>1, <3>2, <5>1 DEF IsWay
      <4> QED BY <3>4, <4>1
    <3>5. CASE ~deleted
      <4> DEFINE u == [i \in 0 .. k |-> w[i]]
      <4>1. k \in 0 .. (MaxDepth + 1) /\ 0 \in 0 .. k
        BY <1>0, <2>2, <3>2
      <4>2. IsWay(u, k) /\ u[0] = q /\ u[k] = p /\ \A i \in 0 .. (k - 1) : u[i] # p
        BY <2>1, <3>2, <3>3, <4>1
      <4> HIDE DEF u
      <4>3. \A i \in 0 .. k : Chain(q)[i] = u[i]
        BY <4>1, <4>2, WayIsChain
      <4>4. Chain(q)[k] = p /\ \A i \in 0 .. (k - 1) : Live(Chain(q)[i])
        BY <3>2, <4>2, <4>3 DEF IsWay
      <4>5. k <= Below(p) /\ Below(p) \in Nat
        BY <4>1, <4>4, BelowBounds
      <4>6. k + depth <= MaxDepth
        BY <1>0, <1>5, <3>2, <4>5
      <4> QED BY <1>6, <3>5, <4>1, <4>2, <4>6
    <3> QED BY <3>4, <3>5
  <2> QED BY <2>3, <2>4
<1> QED BY <1>7, <1>8

LEMMA SameRowsForest == ASSUME Forest, UNCHANGED row PROVE Forest'
<1>1. row' = row
  OBVIOUS
<1>2. \A q : Live(q)' <=> Live(q)
  BY <1>1 DEF Live, Exists
<1>3. \A w, n : IsWay(w, n)' <=> IsWay(w, n)
  BY <1>1, <1>2 DEF IsWay
<1>4. \A q, d : Rooted(q, d)' <=> Rooted(q, d)
  BY <1>3 DEF Rooted
<1> QED BY <1>2, <1>4 DEF Forest

LEMMA ForestNext == Typed /\ Forest /\ [Next]_vars => Forest'
<1> SUFFICES ASSUME Typed, Forest, [Next]_vars PROVE Forest'
  OBVIOUS
<1>0. \A c \in Client : h[c].parent \in Places /\ (h[c].op = "create" => h[c].page \in Page)
  BY DEF Typed, Handlers, Named, Places
<1>1. ASSUME NEW c \in Client, CreateBody(c) \/ PutBody(c) PROVE Forest'
  <2>1. h[c].page \in Page /\ h[c].parent \in Places
    BY <1>0, <1>1 DEF CreateBody, PutBody, Exists
  <2>2. \E base : Save(h[c].page, h[c].parent, base, FALSE)
    BY <1>1 DEF CreateBody, PutBody
  <2> QED BY <2>1, <2>2, SaveForest
<1>2. ASSUME NEW p \in Page, DeletePage(p) PROVE Forest'
  <2>1. row[p].parent \in Places
    BY DEF Typed, Rows, Places
  <2> QED BY <1>2, <2>1, SaveForest DEF DeletePage
<1>3. CASE DeleteWiki
  BY <1>3 DEF DeleteWiki, Forest, Live, Exists, Absent
<1>4. CASE UNCHANGED row
  BY <1>4, SameRowsForest
<1> QED
  BY <1>1, <1>2, <1>3, <1>4 DEF Next, Create, Put, Comment, Patch, Await, CommentBody,
     PatchBody, Refused, SearchAsk, SearchRanked, SearchAtOnce, Restart, vars, content

\* The live pages are a forest, for any number of pages and any depth: whatever
\* is created, moved, deleted and restored, by writes that overlap, each live
\* page hangs under live pages only, without a cycle and within MaxDepth.
THEOREM PagesTreeSound == Spec => []TreeSound
<1>1. Init => Forest
  BY DEF Init, Forest, Live, Exists, Absent
<1>2. Typed /\ Forest /\ [Next]_vars => Forest'
  BY ForestNext
<1> QED BY <1>1, <1>2, PagesKept, ForestIsTreeSound, PTL DEF Spec
=============================================================================
