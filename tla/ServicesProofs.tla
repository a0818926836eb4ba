---------------------------- MODULE ServicesProofs ----------------------------
(***************************************************************************)
(* Theorems about the services of the management process and of the chat    *)
(* process, for every value of their constants: the replica of a record in  *)
(* the catalog, the links of chats and wikis, the stream of a summary, and  *)
(* the windows and mails of the reports.                                    *)
(***************************************************************************)
EXTENDS CatalogReplica, SpaceLinks, SummaryStream, ReportOutbox, FiniteSetTheorems, TLAPS

(***************************************************************************)
(* The catalog.  CatalogHonest is inductive: a late request cannot take the *)
(* row back, for a row keeps the higher version and no request is ahead of  *)
(* the record; and the mark is cleared only for a version the catalog was   *)
(* heard to have.                                                           *)
(***************************************************************************)

\* One more request of a push, or its first, carries the record of now.
LEMMA SendKeeps ==
  ASSUME CatTypeOK, NEW n \in 1 .. MaxTries, Send(n), ver' = ver
  PROVE  /\ push' \in [n: 0 .. MaxTries, sent: 0 .. ver, ok: BOOLEAN]
         /\ net' \subseteq 1 .. ver /\ AnswerMeansStored'
BY ReplicaAssumption DEF CatTypeOK, Versions, Send, AnswerMeansStored

\* What flush() starts, or the push that is under way.
LEMMA StartPushKeeps ==
  ASSUME CatTypeOK, AnswerMeansStored, StartPush, ver' = ver, stored' = stored
  PROVE  /\ push' \in [n: 0 .. MaxTries, sent: 0 .. ver, ok: BOOLEAN]
         /\ net' \subseteq 1 .. ver /\ AnswerMeansStored'
<1>1. CASE push = NoPush
  <2>1. 1 \in 1 .. MaxTries BY ReplicaAssumption
  <2>2. Send(1) BY <1>1 DEF StartPush
  <2> QED BY <2>1, <2>2, SendKeeps
<1>2. CASE push # NoPush
  BY <1>2 DEF StartPush, CatTypeOK, AnswerMeansStored
<1> QED BY <1>1, <1>2

LEMMA CatInitHonest == CatInit => CatalogHonest
BY ReplicaAssumption
DEF CatInit, CatalogHonest, CatTypeOK, AnswerMeansStored, Versions, NoPush

LEMMA CatStepHonest == CatalogHonest /\ [CatNext]_catVars => CatalogHonest'
<1> SUFFICES ASSUME CatalogHonest, [CatNext]_catVars PROVE CatalogHonest'
  OBVIOUS
<1>a. CatTypeOK /\ AnswerMeansStored BY DEF CatalogHonest
<1>b. ver \in Nat /\ ver >= 1 /\ stored \in Nat /\ dirty \in 0 .. 2
  BY <1>a, ReplicaAssumption DEF CatTypeOK, Versions
<1>1. ASSUME NEW d \in {1, 2}, SaveRecord(d) PROVE CatalogHonest'
  <2>1. /\ ver' = ver + 1 /\ ver' \in Versions /\ dirty' \in 1 .. 2 /\ owed' = TRUE
        /\ UNCHANGED <<due, push, net, stored>>
    BY <1>1, <1>b, ReplicaAssumption DEF SaveRecord, Versions
  <2>2. CatTypeOK'
    BY <1>a, <1>b, <2>1 DEF CatTypeOK, Versions
  <2>3. AnswerMeansStored' BY <1>a, <2>1 DEF AnswerMeansStored
  <2> QED BY <2>1, <2>2, <2>3 DEF CatalogHonest
<1>2. CASE Flush
  <2>1. ver' = ver /\ dirty' = dirty /\ stored' = stored /\ owed' = FALSE /\ NextDue
    BY <1>2 DEF Flush
  <2>2. /\ push' \in [n: 0 .. MaxTries, sent: 0 .. ver, ok: BOOLEAN]
        /\ net' \subseteq 1 .. ver /\ AnswerMeansStored'
    <3>1. CASE StartPush BY <3>1, <2>1, <1>a, StartPushKeeps
    <3>2. CASE UNCHANGED <<push, net>>
      BY <3>2, <2>1, <1>a DEF CatTypeOK, AnswerMeansStored
    <3> QED BY <3>1, <3>2, <1>2 DEF Flush
  <2>3. due' \in {"none", "late", "soon"} /\ (dirty > 0 => due' = "soon")
    BY <2>1, <1>a DEF NextDue, CatTypeOK
  <2>4. CatTypeOK' BY <1>a, <2>1, <2>2, <2>3 DEF CatTypeOK
  <2> QED BY <2>1, <2>2, <2>3, <2>4 DEF CatalogHonest
<1>3. CASE CatAlarm
  <2>1. ver' = ver /\ dirty' = dirty /\ stored' = stored /\ owed' = owed
    BY <1>3 DEF CatAlarm
  <2>2. /\ push' \in [n: 0 .. MaxTries, sent: 0 .. ver, ok: BOOLEAN]
        /\ net' \subseteq 1 .. ver /\ AnswerMeansStored'
    <3>1. CASE StartPush BY <3>1, <2>1, <1>a, StartPushKeeps
    <3>2. CASE UNCHANGED <<push, net>>
      BY <3>2, <2>1, <1>a DEF CatTypeOK, AnswerMeansStored
    <3> QED BY <3>1, <3>2, <1>3 DEF CatAlarm
  <2>3. due' \in {"none", "late", "soon"} /\ (dirty > 0 => due' = "soon")
    BY <1>3 DEF CatAlarm
  <2>4. CatTypeOK' BY <1>a, <2>1, <2>2, <2>3 DEF CatTypeOK
  <2> QED BY <2>1, <2>2, <2>3, <2>4 DEF CatalogHonest
<1>4. ASSUME NEW v \in net, Register(v) PROVE CatalogHonest'
  <2>1. v \in Nat /\ v >= 1 /\ v <= ver BY <1>a, <1>b DEF CatTypeOK
  <2>2. /\ UNCHANGED <<ver, dirty, due, owed>> /\ net' \subseteq net
        /\ stored' \in Nat /\ stored' >= stored /\ stored' >= v /\ stored' <= ver
    BY <1>4, <1>a, <1>b, <2>1 DEF Register, CatTypeOK
  <2>3. /\ push'.n = push.n /\ push'.sent = push.sent
        /\ push'.ok => push.ok \/ push.sent = v
        /\ push' \in [n: 0 .. MaxTries, sent: 0 .. ver, ok: BOOLEAN]
        /\ push.sent # v => push' = push
    BY <1>4, <1>a DEF Register, CatTypeOK
  <2>4. AnswerMeansStored'
    <3>1. push.n \in Nat /\ push.sent \in Nat BY <1>a, <1>b, ReplicaAssumption DEF CatTypeOK
    <3>2. push.n = 0 => push' = push
      BY <1>a, <2>1, <2>3 DEF AnswerMeansStored, NoPush
    <3>3. push'.ok => stored' >= push'.sent
      BY <1>a, <1>b, <2>1, <2>2, <2>3, <3>1 DEF AnswerMeansStored
    <3> QED BY <1>a, <2>3, <3>2, <3>3 DEF AnswerMeansStored
  <2>5. CatTypeOK' BY <1>a, <2>2, <2>3 DEF CatTypeOK
  <2> QED BY <2>2, <2>4, <2>5, <1>b DEF CatalogHonest, CatTypeOK
<1>5. CASE PushReplied
  <2>1. /\ UNCHANGED <<ver, due, owed, stored>> /\ push.ok
        /\ dirty' = (IF ver = push.sent THEN 0 ELSE dirty)
    BY <1>5 DEF PushReplied
  <2>2. dirty' \in 0 .. 2 /\ (dirty' = 0 => stored = ver) /\ (dirty' > 0 => dirty' = dirty)
    BY <2>1, <1>a, <1>b DEF AnswerMeansStored, CatTypeOK, CatalogHonest
  <2>3. /\ push' \in [n: 0 .. MaxTries, sent: 0 .. ver, ok: BOOLEAN]
        /\ net' \subseteq 1 .. ver /\ AnswerMeansStored'
    <3>1. CASE push.n < MaxTries /\ dirty' > 0
      <4>1. push.n + 1 \in 1 .. MaxTries
        BY <3>1, <1>a, ReplicaAssumption DEF CatTypeOK
      <4>2. Send(push.n + 1) BY <1>5, <3>1 DEF PushReplied, More
      <4> QED BY <1>a, <2>1, <4>1, <4>2, SendKeeps
    <3>2. CASE ~(push.n < MaxTries /\ dirty' > 0)
      <4>1. push' = NoPush /\ net' = net BY <1>5, <3>2 DEF PushReplied, More
      <4> QED BY <1>a, <1>b, <4>1, ReplicaAssumption DEF NoPush, CatTypeOK, AnswerMeansStored
    <3> QED BY <3>1, <3>2
  <2>4. CatTypeOK' BY <1>a, <2>1, <2>2, <2>3 DEF CatTypeOK
  <2> QED BY <2>1, <2>2, <2>3, <2>4 DEF CatalogHonest
<1>6. CASE PushFailed
  <2>1. push' \in [n: 0 .. MaxTries, sent: 0 .. ver, ok: BOOLEAN] /\ push' = NoPush /\ ~push'.ok
    BY <1>6, <1>b, ReplicaAssumption DEF PushFailed, NoPush
  <2>2. net' \subseteq net BY <1>6 DEF PushFailed
  <2>3. UNCHANGED <<ver, dirty, due, owed, stored>> BY <1>6 DEF PushFailed
  <2> QED BY <1>a, <2>1, <2>2, <2>3 DEF CatalogHonest, CatTypeOK, AnswerMeansStored
<1>7. CASE LoseProcess
  <2>1. push' \in [n: 0 .. MaxTries, sent: 0 .. ver, ok: BOOLEAN] /\ push' = NoPush /\ ~push'.ok
    BY <1>7, <1>b, ReplicaAssumption DEF LoseProcess, NoPush
  <2> QED BY <1>7, <1>a, <2>1 DEF LoseProcess, CatalogHonest, CatTypeOK, AnswerMeansStored
<1>8. CASE CatRest \/ UNCHANGED catVars
  BY <1>8, <1>a DEF CatRest, catVars, CatalogHonest, CatTypeOK, AnswerMeansStored
<1> QED BY <1>1, <1>2, <1>3, <1>4, <1>5, <1>6, <1>7, <1>8 DEF CatNext

\* Whatever is lost or late, a record without a mark is in the catalog as it
\* is, and a marked one has an alarm or a request that is about to set it.
THEOREM CatalogIsHonest == CatSpec => []CatalogHonest
BY CatInitHonest, CatStepHonest, PTL DEF CatSpec

-----------------------------------------------------------------------------
(***************************************************************************)
(* Links.  Every record was put by a plan, a plan keeps its two resources    *)
(* for good, and the second side is asked only when the first was written;  *)
(* so a one-sided record has a plan to answer for it.                       *)
(***************************************************************************)

PlanStates == [step: {"none", "look", "new", "check", "put", "failed", "done", "gone"}, side: Sides]
PlanRecords == [chat: ChatIds \cup {"none"}, wiki: WikiIds \cup {"none"},
                create: SUBSET Resource, created: SUBSET Resource]

LinkTypes ==
  /\ here \subseteq Resource /\ cut \subseteq Plans /\ cuts \in 0 .. MaxCuts
  /\ links \in [Resource -> SUBSET Resource]
  /\ \A r \in Resource : IsFiniteSet(links[r]) /\ Cardinality(links[r]) <= MaxLinks
  /\ at \in [Plans -> PlanStates] /\ plan \in [Plans -> PlanRecords]
  /\ made \in [Plans -> SUBSET Resource]

Begins(p) == at[p].step # "none"
IsPair(p, c, w) == Begins(p) /\ plan[p].chat = c /\ plan[p].wiki = w
\* A plan that answers for a record on one side.
Answers(p) == p \in cut \/ at[p].step # "done"

PlanFits(p) ==
  /\ plan[p].created \subseteq plan[p].create
  /\ Begins(p) => plan[p].chat \in ChatIds /\ plan[p].wiki \in WikiIds
  /\ made[p] \subseteq {plan[p].chat, plan[p].wiki} /\ (~Begins(p) => made[p] = {})
  /\ at[p].step = "done" /\ p \notin cut =>
       plan[p].wiki \in links[plan[p].chat] /\ plan[p].chat \in links[plan[p].wiki]
  /\ at[p].step = "put" /\ at[p].side = "wiki" /\ p \notin cut =>
       plan[p].wiki \in links[plan[p].chat]

PairFits(c, w) ==
  /\ w \in links[c] \/ c \in links[w] => \E p \in Plans : IsPair(p, c, w)
  /\ (w \in links[c]) # (c \in links[w]) => \E p \in Plans : IsPair(p, c, w) /\ Answers(p)

LinksInv ==
  /\ LinkTypes
  /\ \A p \in Plans : PlanFits(p)
  /\ \A c \in ChatIds, w \in WikiIds : PairFits(c, w)

LEMMA LinksInitInv == LinksInit => LinksInv
<1> SUFFICES ASSUME LinksInit PROVE LinksInv
  OBVIOUS
<1>1. /\ Rest("none") \in PlanStates /\ Rest("none").step = "none"
      /\ NoPlan \in PlanRecords /\ NoPlan.created = {} /\ NoPlan.create = {}
  BY DEF Rest, At, PlanStates, Sides, NoPlan, PlanRecords
<1>2. LinkTypes
  BY <1>1, LinksAssumption, FS_EmptySet DEF LinkTypes, LinksInit, Resource
<1>3. \A p \in Plans : PlanFits(p)
  BY <1>1 DEF PlanFits, LinksInit, Begins
<1>4. \A c \in ChatIds, w \in WikiIds : PairFits(c, w)
  BY DEF PairFits, LinksInit, Resource
<1> QED BY <1>2, <1>3, <1>4 DEF LinksInv

\* The sides of a plan's next request.
LEMMA SidesOfPlan ==
  ASSUME LinksInv, NEW p \in Plans, Begins(p)
  PROVE  /\ at[p] \in PlanStates /\ plan[p] \in PlanRecords /\ PlanFits(p)
         /\ plan[p].chat \in ChatIds /\ plan[p].wiki \in WikiIds
         /\ \/ at[p].side = "chat" /\ Own(p) = plan[p].chat /\ Other(p) = plan[p].wiki
            \/ at[p].side = "wiki" /\ Own(p) = plan[p].wiki /\ Other(p) = plan[p].chat
<1>1. at[p] \in PlanStates /\ plan[p] \in PlanRecords /\ PlanFits(p)
  BY DEF LinksInv, LinkTypes
<1>2. at[p].side = "chat" \/ at[p].side = "wiki"
  BY <1>1 DEF PlanStates, Sides
<1>3. CASE at[p].side = "chat"
  BY <1>1, <1>3 DEF Own, Other, Across, PlanFits
<1>4. CASE at[p].side = "wiki"
  BY <1>1, <1>4 DEF Own, Other, Across, PlanFits
<1> QED BY <1>2, <1>3, <1>4

\* A step of p that writes no record.
LEMMA CourseKeeps ==
  ASSUME LinksInv, NEW p \in Plans, UNCHANGED <<links, cuts>>, here' \subseteq Resource,
         cut \ {p} \subseteq cut', cut' \subseteq cut,
         NEW to \in PlanStates, at' = [at EXCEPT ![p] = to],
         NEW k \in PlanRecords, plan' = [plan EXCEPT ![p] = k],
         NEW m, made' = [made EXCEPT ![p] = m],
         to.step \notin {"none", "done"}, to.step = "put" => to.side = "chat",
         k.chat \in ChatIds, k.wiki \in WikiIds, k.created \subseteq k.create,
         Begins(p) => k.chat = plan[p].chat /\ k.wiki = plan[p].wiki,
         m \subseteq {k.chat, k.wiki}
  PROVE  LinksInv'
<1>1. /\ at'[p] = to /\ plan'[p] = k /\ made'[p] = m
      /\ \A q \in Plans : q # p => at'[q] = at[q] /\ plan'[q] = plan[q] /\ made'[q] = made[q]
  BY DEF LinksInv, LinkTypes
<1>2. LinkTypes'
  <2>1. m \subseteq Resource
    BY DEF Resource
  <2> QED BY <2>1 DEF LinksInv, LinkTypes
<1>3. \A q \in Plans : PlanFits(q)'
  <2>1. PlanFits(p)'
    BY <1>1 DEF PlanFits, Begins
  <2>2. ASSUME NEW q \in Plans, q # p PROVE PlanFits(q)'
    BY <1>1, <2>2 DEF LinksInv, PlanFits, Begins
  <2> QED BY <2>1, <2>2
<1>4. ASSUME NEW c \in ChatIds, NEW w \in WikiIds PROVE PairFits(c, w)'
  <2>1. PairFits(c, w)
    BY DEF LinksInv
  <2>2. ASSUME NEW q \in Plans, IsPair(q, c, w) PROVE IsPair(q, c, w)'
    BY <1>1, <2>2 DEF IsPair, Begins
  <2>3. ASSUME NEW q \in Plans, Answers(q) PROVE Answers(q)'
    BY <1>1, <2>3 DEF Answers
  <2> QED BY <2>1, <2>2, <2>3 DEF PairFits
<1> QED BY <1>2, <1>3, <1>4 DEF LinksInv

\* A plan begins, is retried or given up, and asks for its two resources.
LEMMA AskKeeps ==
  ASSUME LinksInv, NEW p \in Plans, BeginPlan(p) \/ Retry(p) \/ Abandon(p) \/ Look(p) \/ Check(p)
  PROVE  LinksInv'
<1>1. /\ at[p] \in PlanStates /\ plan[p] \in PlanRecords /\ PlanFits(p) /\ here \subseteq Resource
      /\ plan = [plan EXCEPT ![p] = plan[p]] /\ made = [made EXCEPT ![p] = made[p]]
  BY DEF LinksInv, LinkTypes
<1>2. CASE BeginPlan(p)
  <2>1. PICK c \in ChatIds, w \in WikiIds : NewPlan(p, c, w)
    BY <1>2 DEF BeginPlan
  <2>2. PICK to, k : /\ to = At("look", "chat")
                    /\ k = [chat |-> c, wiki |-> w, create |-> {c, w} \ here, created |-> {}]
    OBVIOUS
  <2>3. to \in PlanStates /\ to.step = "look"
    BY <2>2 DEF At, PlanStates, Sides
  <2>4. k \in PlanRecords /\ k.chat = c /\ k.wiki = w /\ k.created = {}
    BY <2>2 DEF PlanRecords, Resource
  <2>5. at' = [at EXCEPT ![p] = to] /\ plan' = [plan EXCEPT ![p] = k] /\ cut' = cut \ {p}
    BY <2>1, <2>2 DEF NewPlan
  <2>6. made[p] = {} /\ ~Begins(p)
    BY <1>1, <1>2 DEF BeginPlan, Begins, PlanFits
  <2> QED BY <1>1, <1>2, <2>3, <2>4, <2>5, <2>6, CourseKeeps DEF BeginPlan
<1>3. ASSUME NEW to \in PlanStates, at' = [at EXCEPT ![p] = to], Begins(p),
             to.step \notin {"none", "done"}, to.step = "put" => to.side = "chat",
             UNCHANGED <<here, links, made, cuts>>, cut \ {p} \subseteq cut', cut' \subseteq cut,
             plan' = plan \/ plan' = Noted(p)
      PROVE  LinksInv'
  <2>1. PICK k : k = IF plan' = plan THEN plan[p]
                     ELSE [plan[p] EXCEPT !.created = plan[p].created \cup {Own(p)}]
    OBVIOUS
  <2>2. \/ plan' = plan
        \/ ToCreate(p) /\ plan' = [plan EXCEPT ![p].created = @ \cup {Own(p)}]
    BY <1>3 DEF Noted
  <2>3. plan' = [plan EXCEPT ![p] = k]
    BY <1>1, <2>1, <2>2
  <2>4. /\ k \in PlanRecords /\ k.created \subseteq k.create
        /\ k.chat = plan[p].chat /\ k.wiki = plan[p].wiki
    <3>1. CASE plan' = plan
      BY <1>1, <2>1, <3>1 DEF PlanFits
    <3>2. CASE plan' # plan
      BY <1>1, <2>1, <2>2, <3>2 DEF PlanFits, PlanRecords, ToCreate
    <3> QED BY <3>1, <3>2
  <2>5. k.chat \in ChatIds /\ k.wiki \in WikiIds /\ made[p] \subseteq {k.chat, k.wiki}
    BY <1>1, <1>3, <2>4 DEF PlanFits
  <2>6. here' \subseteq Resource /\ made' = [made EXCEPT ![p] = made[p]] /\ UNCHANGED <<links, cuts>>
    BY <1>1, <1>3
  <2> QED BY <1>3, <2>3, <2>4, <2>5, <2>6, CourseKeeps
<1>4. CASE Retry(p)
  <2>1. At("look", "chat") \in PlanStates /\ At("look", "chat").step = "look"
    BY DEF At, PlanStates, Sides
  <2> QED BY <1>3, <1>4, <2>1 DEF Retry, Begins
<1>5. CASE Abandon(p)
  <2>1. Rest("gone") \in PlanStates /\ Rest("gone").step = "gone"
    BY DEF Rest, At, PlanStates, Sides
  <2> QED BY <1>3, <1>5, <2>1 DEF Abandon, Begins, Running
<1>6. ASSUME NEW side \in Sides
      PROVE  /\ At("new", side) \in PlanStates /\ At("new", side).step = "new"
             /\ Rest("failed") \in PlanStates /\ Rest("failed").step = "failed"
             /\ AfterEnsure(p) \in PlanStates /\ AfterEnsure(p).step \in {"look", "put"}
             /\ AfterEnsure(p).step = "put" => AfterEnsure(p).side = "chat"
  BY DEF AfterEnsure, Rest, At, PlanStates, Sides
<1>7. CASE Look(p) \/ Check(p)
  <2>1. PICK to : to = IF Own(p) \in here THEN AfterEnsure(p)
                     ELSE IF Look(p) /\ ToCreate(p) THEN At("new", at[p].side) ELSE Rest("failed")
    OBVIOUS
  <2>2. at[p].side \in Sides
    BY <1>1 DEF PlanStates
  <2>3. /\ to \in PlanStates /\ to.step \notin {"none", "done"}
        /\ to.step = "put" => to.side = "chat"
    BY <1>6, <2>1, <2>2
  <2>4. at' = [at EXCEPT ![p] = to] /\ (plan' = plan \/ plan' = Noted(p))
    BY <1>7, <2>1 DEF Look, Check
  <2> QED BY <1>3, <1>7, <2>3, <2>4 DEF Look, Check, Begins
<1> QED BY <1>2, <1>4, <1>5, <1>7

\* A resource is created: by a request of p, for p.
LEMMA CreatedKeeps ==
  ASSUME LinksInv, NEW p \in Plans, at[p].step = "new", Created(p),
         NEW to \in PlanStates, at' = [at EXCEPT ![p] = to], to.step \in {"check", "failed"},
         UNCHANGED <<links, plan, cut, cuts>>
  PROVE  LinksInv'
<1>1. /\ at[p] \in PlanStates /\ plan[p] \in PlanRecords /\ PlanFits(p) /\ Begins(p)
      /\ Own(p) \in {plan[p].chat, plan[p].wiki} /\ Own(p) \in Resource
      /\ plan[p].chat \in ChatIds /\ plan[p].wiki \in WikiIds
  BY SidesOfPlan DEF Begins, Resource
<1>2. here' \subseteq Resource /\ plan' = [plan EXCEPT ![p] = plan[p]]
  BY <1>1 DEF Created, LinksInv, LinkTypes
<1>3. PICK m : m = made[p] \cup ({Own(p)} \ here)
  OBVIOUS
<1>4. made' = [made EXCEPT ![p] = m] /\ m \subseteq {plan[p].chat, plan[p].wiki}
  BY <1>1, <1>3 DEF Created, PlanFits
<1> QED BY <1>1, <1>2, <1>4, CourseKeeps DEF PlanFits

\* A record is written, and its plan goes on, is done, or takes it for failed.
LEMMA PutKeeps ==
  ASSUME LinksInv, NEW p \in Plans, at[p].step = "put", Writable(p), PutLink(p),
         NEW to \in {AfterPut(p), Rest("failed")}, at' = [at EXCEPT ![p] = to],
         UNCHANGED <<here, plan, cut, made, cuts>>
  PROVE  LinksInv'
<1>1. /\ at[p] \in PlanStates /\ plan[p] \in PlanRecords /\ PlanFits(p) /\ Begins(p)
      /\ plan[p].chat \in ChatIds /\ plan[p].wiki \in WikiIds
      /\ \/ at[p].side = "chat" /\ Own(p) = plan[p].chat /\ Other(p) = plan[p].wiki
         \/ at[p].side = "wiki" /\ Own(p) = plan[p].wiki /\ Other(p) = plan[p].chat
  BY SidesOfPlan DEF Begins
<1>2. PICK o, t : o = Own(p) /\ t = Other(p)
  OBVIOUS
<1>3. o \in Resource /\ t \in Resource
  BY <1>1, <1>2 DEF Resource
<1>4. /\ links \in [Resource -> SUBSET Resource] /\ links' = [links EXCEPT ![o] = @ \cup {t}]
      /\ IsFiniteSet(links[o]) /\ Cardinality(links[o]) <= MaxLinks
      /\ t \in links[o] \/ Cardinality(links[o]) < MaxLinks
  BY <1>2, <1>3 DEF LinksInv, LinkTypes, PutLink, Writable, Accepts
<1>5. /\ links'[o] = links[o] \cup {t} /\ \A r \in Resource : r # o => links'[r] = links[r]
      /\ links' \in [Resource -> SUBSET Resource]
  BY <1>3, <1>4
<1>6. IsFiniteSet(links'[o]) /\ Cardinality(links'[o]) <= MaxLinks
  <2>1. Cardinality(links[o]) \in Nat
    BY <1>4, FS_CardinalityType
  <2>2. /\ IsFiniteSet(links[o] \cup {t})
        /\ Cardinality(links[o] \cup {t})
             = IF t \in links[o] THEN Cardinality(links[o]) ELSE Cardinality(links[o]) + 1
    BY <1>4, FS_AddElement
  <2> QED BY <1>4, <1>5, <2>1, <2>2, LinksAssumption
<1>7. /\ to \in PlanStates /\ to.step \notin {"none", "new"}
      /\ to.step = "put" => to.side = "wiki" /\ at[p].side = "chat"
      /\ to.step = "done" => at[p].side = "wiki"
  <2>1. /\ Rest("failed") \in PlanStates /\ Rest("failed").step = "failed"
        /\ Rest("done") \in PlanStates /\ Rest("done").step = "done"
        /\ At("put", "wiki") \in PlanStates /\ At("put", "wiki").step = "put"
        /\ At("put", "wiki").side = "wiki"
    BY DEF Rest, At, PlanStates, Sides
  <2>2. at[p].side \in {"chat", "wiki"}
    BY <1>1 DEF PlanStates, Sides
  <2> QED BY <2>1, <2>2 DEF AfterPut
<1>8. at'[p] = to /\ at' \in [Plans -> PlanStates] /\ \A q \in Plans : q # p => at'[q] = at[q]
  BY <1>7 DEF LinksInv, LinkTypes
<1>9. LinkTypes'
  BY <1>5, <1>6, <1>8 DEF LinksInv, LinkTypes
<1>10. \A r \in Resource : links[r] \subseteq links'[r]
  BY <1>5
<1>11. ChatIds \subseteq Resource /\ WikiIds \subseteq Resource
  BY DEF Resource
<1>12. \A q \in Plans : PlanFits(q)'
  <2>1. PlanFits(p)'
    BY <1>1, <1>2, <1>5, <1>7, <1>8, <1>10, <1>11 DEF PlanFits, Begins
  <2>2. ASSUME NEW q \in Plans, q # p PROVE PlanFits(q)'
    BY <1>8, <1>10, <1>11, <2>2 DEF LinksInv, PlanFits, Begins
  <2> QED BY <2>1, <2>2
<1>13. ASSUME NEW c \in ChatIds, NEW w \in WikiIds PROVE PairFits(c, w)'
  <2>1. PairFits(c, w) /\ c # w
    BY LinksAssumption DEF LinksInv
  <2>2. \A q \in Plans : IsPair(q, c, w) => IsPair(q, c, w)'
    BY <1>7, <1>8 DEF IsPair, Begins
  <2>3. CASE plan[p].chat = c /\ plan[p].wiki = w
    <3>1. IsPair(p, c, w)'
      BY <1>1, <2>2, <2>3 DEF IsPair
    <3>2. CASE to.step = "done" /\ p \notin cut
      <4>1. w \in links'[c] /\ c \in links'[w]
        BY <1>8, <1>12, <2>3, <3>2 DEF PlanFits
      <4> QED BY <3>1, <4>1 DEF PairFits
    <3>3. CASE to.step # "done" \/ p \in cut
      <4>1. Answers(p)'
        BY <1>8, <3>3 DEF Answers
      <4> QED BY <3>1, <4>1 DEF PairFits
    <3> QED BY <3>2, <3>3
  <2>4. CASE ~(plan[p].chat = c /\ plan[p].wiki = w)
    <3>1. \A q \in Plans : IsPair(q, c, w) => q # p
      BY <2>4 DEF IsPair
    <3>2. (w \in links'[c] <=> w \in links[c]) /\ (c \in links'[w] <=> c \in links[w])
      BY <1>1, <1>2, <1>5, <1>11, <2>1, <2>4, LinksAssumption
    <3>3. \A q \in Plans : IsPair(q, c, w) /\ Answers(q) => Answers(q)'
      BY <1>8, <3>1 DEF Answers
    <3> QED BY <2>1, <2>2, <3>2, <3>3 DEF PairFits
  <2> QED BY <2>3, <2>4
<1> QED BY <1>9, <1>12, <1>13 DEF LinksInv

LEMMA RequestKeeps ==
  ASSUME LinksInv, NEW p \in Plans, New(p) \/ Put(p) \/ RequestFails(p)
  PROVE  LinksInv'
<1>1. /\ at[p] \in PlanStates /\ plan[p] \in PlanRecords /\ PlanFits(p) /\ here \subseteq Resource
      /\ plan = [plan EXCEPT ![p] = plan[p]] /\ made = [made EXCEPT ![p] = made[p]] /\ Begins(p)
  BY DEF LinksInv, LinkTypes, New, Put, RequestFails, Running, Begins
<1>2. /\ Rest("failed") \in PlanStates /\ Rest("failed").step = "failed"
      /\ at[p].side \in Sides /\ At("check", at[p].side) \in PlanStates
      /\ At("check", at[p].side).step = "check"
  BY <1>1 DEF Rest, At, PlanStates, Sides
<1>3. CASE at' = [at EXCEPT ![p] = Rest("failed")] /\ UNCHANGED <<here, links, plan, cut, made, cuts>>
  BY <1>1, <1>2, <1>3, CourseKeeps DEF PlanFits
<1>4. CASE New(p)
  BY <1>2, <1>4, CreatedKeeps DEF New
<1>5. CASE Put(p)
  BY <1>3, <1>5, PutKeeps DEF Put
<1>6. CASE RequestFails(p)
  BY <1>2, <1>3, <1>6, CreatedKeeps, PutKeeps DEF RequestFails
<1> QED BY <1>4, <1>5, <1>6

\* Records are removed: what a plan loses is noted with it.
LEMMA LossKeeps ==
  ASSUME LinksInv, NEW r \in Resource, Vanish(r) \/ \E t \in Resource : Remove(r, t)
  PROVE  LinksInv'
<1>1. /\ UNCHANGED <<plan, at, made>> /\ here' \subseteq Resource /\ cuts' \in 0 .. MaxCuts
      /\ cut \subseteq cut' /\ cut' \subseteq Plans /\ links \in [Resource -> SUBSET Resource]
  BY LinksAssumption DEF Vanish, Remove, LinksInv, LinkTypes
<1>2. PICK gone \in SUBSET Resource :
        /\ links' = [links EXCEPT ![r] = links[r] \ gone] /\ gone \subseteq links[r]
        /\ \A p \in Plans, t \in gone : Concerns(p, r) /\ Concerns(p, t) => p \in cut'
        /\ \A p \in Plans : Vanish(r) /\ Concerns(p, r) => p \in cut'
  <2>1. CASE Vanish(r)
    <3>1. links[r] \in SUBSET Resource /\ links' = [links EXCEPT ![r] = links[r] \ links[r]]
      BY <1>1, <2>1 DEF Vanish
    <3>2. \A p \in Plans : Concerns(p, r) => p \in cut'
      BY <2>1 DEF Vanish
    <3> QED BY <3>1, <3>2
  <2>2. ASSUME NEW t \in Resource, Remove(r, t), ~Vanish(r)
        PROVE  \E gone \in SUBSET Resource :
          /\ links' = [links EXCEPT ![r] = links[r] \ gone] /\ gone \subseteq links[r]
          /\ \A p \in Plans, u \in gone : Concerns(p, r) /\ Concerns(p, u) => p \in cut'
    <3>1. {t} \in SUBSET Resource /\ {t} \subseteq links[r]
          /\ links' = [links EXCEPT ![r] = links[r] \ {t}]
      BY <1>1, <2>2 DEF Remove
    <3>2. \A p \in Plans, u \in {t} : Concerns(p, r) /\ Concerns(p, u) => p \in cut'
      BY <2>2 DEF Remove
    <3> QED BY <3>1, <3>2
  <2> QED BY <2>1, <2>2
<1>3. /\ links'[r] = links[r] \ gone /\ \A s \in Resource : s # r => links'[s] = links[s]
      /\ links' \in [Resource -> SUBSET Resource]
  BY <1>1, <1>2
<1>4. IsFiniteSet(links'[r]) /\ Cardinality(links'[r]) <= MaxLinks
  <2>1. IsFiniteSet(links[r]) /\ Cardinality(links[r]) <= MaxLinks /\ MaxLinks \in Nat
    BY LinksAssumption DEF LinksInv, LinkTypes
  <2>2. /\ IsFiniteSet(links[r] \ gone) /\ Cardinality(links[r] \ gone) <= Cardinality(links[r])
    BY <2>1, FS_Subset
  <2>3. Cardinality(links[r]) \in Nat /\ Cardinality(links[r] \ gone) \in Nat
    BY <2>1, <2>2, FS_CardinalityType
  <2> QED BY <1>3, <2>1, <2>2, <2>3
<1>5. LinkTypes'
  BY <1>1, <1>3, <1>4 DEF LinksInv, LinkTypes
<1>6. ChatIds \subseteq Resource /\ WikiIds \subseteq Resource
  BY DEF Resource
\* A plan whose pair lost a record is cut.
<1>7. ASSUME NEW p \in Plans, Begins(p), NEW c, NEW w, IsPair(p, c, w), p \notin cut'
      PROVE  /\ c \in ChatIds /\ w \in WikiIds
             /\ w \in links[c] => w \in links'[c]
             /\ c \in links[w] => c \in links'[w]
  <2>1. c \in ChatIds /\ w \in WikiIds
    BY <1>7 DEF LinksInv, PlanFits, IsPair
  <2>2. Concerns(p, c) /\ Concerns(p, w)
    BY <1>7 DEF IsPair, Concerns
  <2> QED BY <1>2, <1>3, <1>6, <1>7, <2>1, <2>2
<1>8. ASSUME NEW p \in Plans PROVE PlanFits(p)'
  <2>1. PlanFits(p)
    BY DEF LinksInv
  <2>2. CASE Begins(p) /\ p \notin cut'
    <3>1. IsPair(p, plan[p].chat, plan[p].wiki)
      BY <2>2 DEF IsPair
    <3> QED BY <1>1, <1>7, <2>1, <2>2, <3>1 DEF PlanFits, Begins
  <2>3. CASE ~Begins(p) \/ p \in cut'
    BY <1>1, <2>1, <2>3 DEF PlanFits, Begins
  <2> QED BY <2>2, <2>3
<1>9. ASSUME NEW c \in ChatIds, NEW w \in WikiIds PROVE PairFits(c, w)'
  <2>1. PairFits(c, w)
    BY DEF LinksInv
  <2>2. \A q \in Plans : IsPair(q, c, w) => IsPair(q, c, w)'
    BY <1>1 DEF IsPair, Begins
  <2>3. \A q \in Plans : Answers(q) => Answers(q)'
    BY <1>1 DEF Answers
  <2>4. (w \in links'[c] => w \in links[c]) /\ (c \in links'[w] => c \in links[w])
    BY <1>3, <1>6
  <2>5. CASE (w \in links[c]) # (c \in links[w])
    BY <2>1, <2>2, <2>3, <2>5 DEF PairFits
  <2>6. CASE w \in links[c] /\ c \in links[w] /\ (w \in links'[c]) # (c \in links'[w])
    <3>1. PICK q \in Plans : IsPair(q, c, w)
      BY <2>1, <2>6 DEF PairFits
    <3>2. q \in cut'
      BY <1>7, <2>6, <3>1 DEF IsPair
    <3> QED BY <2>2, <3>1, <3>2 DEF PairFits, Answers
  <2>7. CASE w \notin links[c] /\ c \notin links[w]
    BY <2>4, <2>7 DEF PairFits
  <2>8. CASE w \in links[c] /\ c \in links[w] /\ ~((w \in links'[c]) # (c \in links'[w]))
    BY <2>1, <2>2, <2>8 DEF PairFits
  <2> QED BY <2>5, <2>6, <2>7, <2>8
<1> QED BY <1>5, <1>8, <1>9 DEF LinksInv

LEMMA LinksStepInv == LinksInv /\ [LinksNext]_linkVars => LinksInv'
<1> SUFFICES ASSUME LinksInv, [LinksNext]_linkVars PROVE LinksInv'
  OBVIOUS
<1>1. CASE UNCHANGED linkVars
  BY <1>1 DEF linkVars, LinksInv, LinkTypes, PlanFits, PairFits, IsPair, Answers, Begins
<1> QED BY <1>1, AskKeeps, RequestKeeps, LossKeeps DEF LinksNext

LEMMA AtMostOne == ASSUME NEW x, NEW S, S \subseteq {x} PROVE Cardinality(S) <= 1
<1>1. IsFiniteSet({x}) /\ Cardinality({x}) = 1
  BY FS_Singleton
<1>2. IsFiniteSet(S) /\ Cardinality(S) <= Cardinality({x})
  BY <1>1, FS_Subset
<1> QED BY <1>1, <1>2

\* For any plans, resources and limits, whatever fails: a plan that reports
\* success has linked both ways, a record on one side only belongs to a plan that is
\* not finished or lost something since, and a plan creates no second resource
\* of a kind, however often it is retried (spaces.js ensure and link).
THEOREM LinksGoBothWays == LinksSpec => []LinkedBothWays
<1>1. LinksInv => LinkedBothWays
  <2> SUFFICES ASSUME LinksInv PROVE LinkedBothWays
    OBVIOUS
  <2>1. LinksTypeOK
    BY DEF LinksInv, LinkTypes, PlanFits, LinksTypeOK
  <2>2. ASSUME NEW c \in ChatIds, NEW w \in WikiIds, (w \in links[c]) # (c \in links[w])
        PROVE  \E p \in Plans : /\ plan[p].chat = c /\ plan[p].wiki = w
                                /\ p \in cut \/ at[p].step # "done"
    BY <2>2 DEF LinksInv, PairFits, IsPair, Answers
  <2>3. ASSUME NEW p \in Plans
        PROVE  /\ Cardinality(made[p] \cap ChatIds) <= 1
               /\ Cardinality(made[p] \cap WikiIds) <= 1
    <3>1. PlanFits(p) /\ made[p] \subseteq Resource /\ plan[p] \in PlanRecords
      BY DEF LinksInv, LinkTypes
    <3>2. made[p] \cap ChatIds \subseteq {plan[p].chat} /\ made[p] \cap WikiIds \subseteq {plan[p].wiki}
      <4>1. CASE Begins(p)
        BY <3>1, <4>1, LinksAssumption DEF PlanFits
      <4>2. CASE ~Begins(p)
        BY <3>1, <4>2 DEF PlanFits
      <4> QED BY <4>1, <4>2
    <3> QED BY <3>2, AtMostOne
  <2> QED BY <2>1, <2>2, <2>3 DEF LinkedBothWays, LinksInv, PlanFits
<1> QED BY <1>1, LinksInitInv, LinksStepInv, PTL DEF LinksSpec

-----------------------------------------------------------------------------
(***************************************************************************)
(* Summaries.  While a page listens to a request, the text of its stream is *)
(* on its screen or on the wire, before any event that ends the summary.    *)
(***************************************************************************)

Finals == {"done", "truncated"}
Events == {"meta", "delta", "error", "refused"} \cup Finals
StreamStates == [pc: {"none", "asked", "fetch", "open", "canceled", "over"}, held: BOOLEAN,
                 text: BOOLEAN, finish: {"none", "stop", "length", "filter"}]
Panes == [says: {"nothing", "preparing", "writing", "complete", "truncated", "stopped", "failed"},
          shows: SUBSET Streams, open: BOOLEAN]
Holding == {n \in Streams : served[n].held}

Carries(w) == \E j \in 1 .. Len(w) : w[j] = "delta"
TextFirst(w) == \A i \in 1 .. Len(w) : w[i] \in Finals => \E j \in 1 .. i - 1 : w[j] = "delta"
\* A stream s ended as the event says.
EndedAs(s, event) ==
  s.pc = "over" /\ s.text /\ s.finish = IF event = "done" THEN "stop" ELSE "length"

SummaryTypes ==
  /\ served \in [Streams -> StreamStates] /\ wire \in [Streams -> Seq(Events)]
  /\ turn \in [Page -> 0 .. MaxCalls] /\ pane \in [Page -> Panes]
  /\ recent \in 0 .. PerMinute /\ DOMAIN asker = Streams /\ asker = [n \in Streams |-> asker[n]]

SlotsCounted == slots = Cardinality(Holding) /\ slots <= Concurrent

StreamFits(n) ==
  /\ served[n].held => served[n].pc \in {"fetch", "open"}
  /\ served[n].pc = "none" => ~served[n].text /\ wire[n] = <<>>
  /\ served[n].pc # "none" => asker[n] \in Page
  /\ \A i \in 1 .. Len(wire[n]) : wire[n][i] \in Finals => EndedAs(served[n], wire[n][i])

\* What the page that asked for n will have when it has read its wire.
TextFits(n) ==
  Applies(asker[n], n) /\ asker[n] \in Page =>
    /\ served[n].text => n \in pane[asker[n]].shows \/ Carries(wire[n])
    /\ n \notin pane[asker[n]].shows => TextFirst(wire[n])

PaneFits(p) ==
  /\ pane[p].shows \subseteq {turn[p]}
  /\ turn[p] # 0 => asker[turn[p]] = p /\ served[turn[p]].pc # "none"
  /\ pane[p].says = "complete" => turn[p] \in pane[p].shows /\ EndedAs(served[turn[p]], "done")
  /\ pane[p].says = "truncated" =>
       turn[p] \in pane[p].shows /\ EndedAs(served[turn[p]], "truncated")

SummaryInv ==
  /\ SummaryTypes /\ SlotsCounted
  /\ \A n \in Streams : StreamFits(n) /\ TextFits(n)
  /\ \A p \in Page : PaneFits(p)

LEMMA SummaryInitInv == SummaryInit => SummaryInv
<1> SUFFICES ASSUME SummaryInit PROVE SummaryInv
  OBVIOUS
<1>1. /\ NoStream \in StreamStates /\ NoStream.pc = "none" /\ NoStream.held = FALSE
      /\ NoStream.text = FALSE
  BY DEF NoStream, StreamStates
<1>2. NoPane \in Panes /\ NoPane.says = "nothing" /\ NoPane.shows = {}
  BY DEF NoPane, Panes
<1>3. Holding = {}
  BY <1>1 DEF Holding, SummaryInit
<1>4. SummaryTypes
  BY <1>1, <1>2, SummaryAssumption DEF SummaryTypes, SummaryInit
<1>5. SlotsCounted
  BY <1>3, FS_EmptySet, SummaryAssumption DEF SlotsCounted, SummaryInit
<1>6. \A n \in Streams : StreamFits(n) /\ TextFits(n)
  BY <1>1, <1>2, SummaryAssumption DEF StreamFits, TextFits, Applies, Streams, SummaryInit
<1>7. \A p \in Page : PaneFits(p)
  BY <1>2 DEF PaneFits, SummaryInit
<1> QED BY <1>4, <1>5, <1>6, <1>7 DEF SummaryInv

\* One more event on the wire.
LEMMA EventTold ==
  ASSUME NEW w \in Seq(Events), NEW e \in Events, NEW v, v = Append(w, e)
  PROVE  /\ v \in Seq(Events)
         /\ Carries(w) \/ e = "delta" => Carries(v)
         /\ TextFirst(w) /\ (e \in Finals => Carries(w)) => TextFirst(v)
         /\ \A i \in 1 .. Len(v) : v[i] # e => i \in 1 .. Len(w) /\ v[i] = w[i]
<1>1. /\ v \in Seq(Events) /\ Len(v) = Len(w) + 1 /\ Len(w) \in Nat /\ v[Len(w) + 1] = e
      /\ \A i \in 1 .. Len(w) : v[i] = w[i]
  OBVIOUS
<1>2. \A i \in 1 .. Len(v) : i \in 1 .. Len(w) \/ i = Len(w) + 1
  BY <1>1
<1>3. Carries(w) \/ e = "delta" => Carries(v)
  BY <1>1 DEF Carries
<1>4. ASSUME TextFirst(w), e \in Finals => Carries(w) PROVE TextFirst(v)
  BY <1>1, <1>2, <1>4 DEF TextFirst, Carries
<1> QED BY <1>1, <1>2, <1>3, <1>4

\* One event fewer.
LEMMA Taken ==
  ASSUME NEW w \in Seq(Events), w # <<>>, NEW v, v = Tail(w)
  PROVE  /\ v \in Seq(Events) /\ Head(w) = w[1] /\ 1 \in 1 .. Len(w)
         /\ Carries(w) /\ Head(w) # "delta" => Carries(v)
         /\ TextFirst(w) /\ Head(w) # "delta" => TextFirst(v)
         /\ \A i \in 1 .. Len(v) : i + 1 \in 1 .. Len(w) /\ v[i] = w[i + 1]
<1>1. /\ v \in Seq(Events) /\ Len(v) = Len(w) - 1 /\ Len(w) \in Nat \ {0} /\ Head(w) = w[1]
      /\ \A i \in 1 .. Len(v) : v[i] = w[i + 1]
  OBVIOUS
<1>2. ASSUME Carries(w), Head(w) # "delta" PROVE Carries(v)
  <2>1. PICK j \in 1 .. Len(w) : w[j] = "delta"
    BY <1>2 DEF Carries
  <2>2. j - 1 \in 1 .. Len(v) /\ v[j - 1] = "delta"
    BY <1>1, <1>2, <2>1
  <2> QED BY <2>2 DEF Carries
<1>3. ASSUME TextFirst(w), Head(w) # "delta" PROVE TextFirst(v)
  <2> SUFFICES ASSUME NEW i \in 1 .. Len(v), v[i] \in Finals
               PROVE  \E j \in 1 .. i - 1 : v[j] = "delta"
    BY DEF TextFirst
  <2>1. i + 1 \in 1 .. Len(w) /\ w[i + 1] \in Finals
    BY <1>1
  <2>2. PICK j \in 1 .. i : w[j] = "delta"
    BY <1>3, <2>1 DEF TextFirst
  <2>3. j - 1 \in 1 .. i - 1 /\ v[j - 1] = "delta"
    BY <1>1, <1>3, <2>2
  <2> QED BY <2>3
<1> QED BY <1>1, <1>2, <1>3

LEMMA HoldingFinite == IsFiniteSet(Holding) /\ Cardinality(Holding) \in Nat
<1>1. IsFiniteSet(Streams)
  BY FS_Interval, SummaryAssumption DEF Streams
<1>2. Holding \subseteq Streams
  BY DEF Holding
<1> QED BY <1>1, <1>2, FS_Subset, FS_CardinalityType

\* A step of the server's side of n, whose state becomes s, and what it sends.
LEMMA ServerKeeps ==
  ASSUME SummaryInv, UNCHANGED <<turn, pane, asker>>, recent' \in 0 .. PerMinute, SlotsCounted',
         NEW n \in Streams, served[n].pc \notin {"none", "over"},
         NEW s \in StreamStates, served' = [served EXCEPT ![n] = s], s.pc # "none",
         s.held => s.pc \in {"fetch", "open"},
         NEW e \in Events, e \in Finals => EndedAs(s, e) /\ served[n].text,
         Tell(n, e) \/ (wire' = wire /\ s.text = served[n].text),
         s.text = served[n].text \/ e = "delta"
  PROVE  SummaryInv'
<1>1. SummaryTypes /\ StreamFits(n) /\ TextFits(n)
  BY DEF SummaryInv
<1>2. PICK w \in Seq(Events) : w = wire[n]
  BY <1>1 DEF SummaryTypes
<1>3. PICK v : v = IF wire' = wire THEN w ELSE Append(w, e)
  OBVIOUS
<1>4. wire' = [wire EXCEPT ![n] = v]
  BY <1>1, <1>2, <1>3 DEF Tell, SummaryTypes
<1>5. /\ v \in Seq(Events)
      /\ \A i \in 1 .. Len(v) : (v[i] = e /\ wire' # wire) \/ (i \in 1 .. Len(w) /\ v[i] = w[i])
  <2>1. CASE wire' = wire
    BY <1>3, <2>1
  <2>2. CASE wire' # wire
    <3>1. v = Append(w, e)
      BY <1>3, <2>2
    <3> QED BY <2>2, <3>1, EventTold
  <2> QED BY <2>1, <2>2
<1>6. \A i \in 1 .. Len(w) : w[i] \notin Finals
  BY <1>1, <1>2 DEF StreamFits, EndedAs
<1>7. \A i \in 1 .. Len(v) : v[i] \in Finals => EndedAs(s, v[i])
  BY <1>5, <1>6
<1>8. wire'[n] = v /\ served'[n] = s /\ asker[n] \in Page
      /\ \A m \in Streams : m # n => wire'[m] = wire[m] /\ served'[m] = served[m]
  BY <1>1, <1>4 DEF SummaryTypes, StreamFits
<1>9. StreamFits(n)'
  BY <1>7, <1>8 DEF StreamFits
<1>10. TextFits(n)'
  <2> SUFFICES ASSUME Applies(asker[n], n)
               PROVE  /\ s.text => n \in pane[asker[n]].shows \/ Carries(v)
                      /\ n \notin pane[asker[n]].shows => TextFirst(v)
    BY <1>8 DEF TextFits, Applies
  <2>1. /\ served[n].text => n \in pane[asker[n]].shows \/ Carries(w)
        /\ n \notin pane[asker[n]].shows => TextFirst(w)
    BY <1>2, <1>1, <1>8 DEF TextFits
  <2>2. CASE wire' = wire /\ s.text = served[n].text
    BY <1>3, <2>1, <2>2
  <2>3. CASE wire' # wire \/ Tell(n, e)
    <3>1. v = Append(w, e)
      <4>1. ~HungUp(n)
        BY DEF HungUp, Applies
      <4>2. wire' = [wire EXCEPT ![n] = Append(w, e)]
        BY <1>2, <2>3, <4>1 DEF Tell
      <4> QED BY <1>1, <1>4, <4>2 DEF SummaryTypes
    <3> QED BY <2>1, <3>1, EventTold
  <2> QED BY <2>2, <2>3
<1>11. \A m \in Streams : StreamFits(m)' /\ TextFits(m)'
  BY <1>8, <1>9, <1>10 DEF SummaryInv, StreamFits, TextFits, Applies
<1>12. \A p \in Page : PaneFits(p)'
  <2> SUFFICES ASSUME NEW p \in Page PROVE PaneFits(p)'
    OBVIOUS
  <2>1. PaneFits(p) /\ turn[p] \in 0 .. MaxCalls
    BY DEF SummaryInv, SummaryTypes
  <2>2. CASE turn[p] = n
    BY <1>8, <2>1, <2>2 DEF PaneFits, EndedAs
  <2>3. CASE turn[p] # n /\ turn[p] \in Streams
    BY <1>8, <2>1, <2>3 DEF PaneFits
  <2>4. CASE turn[p] = 0
    <3>1. 0 \notin Streams
      BY SummaryAssumption DEF Streams
    <3>2. pane[p].shows \subseteq Streams
      BY DEF SummaryInv, SummaryTypes, Panes
    <3> QED BY <2>1, <2>4, <3>1, <3>2 DEF PaneFits
  <2> QED BY <2>1, <2>2, <2>3, <2>4 DEF Streams
<1>13. SummaryTypes'
  BY <1>1, <1>4, <1>5 DEF SummaryTypes
<1> QED BY <1>11, <1>12, <1>13 DEF SummaryInv

\* Ends: the slot is returned if it is held.
LEMMA SlotReturned ==
  ASSUME SummaryInv, NEW n \in Streams, NEW pc, Ends(n, pc), pc \in {"canceled", "over"}
  PROVE  /\ SlotsCounted'
         /\ \E s \in StreamStates :
              /\ served' = [served EXCEPT ![n] = s] /\ s.pc = pc /\ s.held = FALSE
              /\ s.text = served[n].text /\ s.finish = served[n].finish
<1>1. served \in [Streams -> StreamStates] /\ served[n] \in StreamStates
  BY DEF SummaryInv, SummaryTypes
<1>2. PICK s : s = [served[n] EXCEPT !.pc = pc, !.held = FALSE]
  OBVIOUS
<1>3. s \in StreamStates /\ s.pc = pc /\ s.held = FALSE /\ s.text = served[n].text
      /\ s.finish = served[n].finish
  BY <1>1, <1>2 DEF StreamStates
<1>4. served' = [served EXCEPT ![n] = s]
  BY <1>1, <1>2 DEF Ends
<1>5. Holding' = Holding \ {n}
  BY <1>1, <1>3, <1>4 DEF Holding
<1>6. n \in Holding <=> served[n].held
  BY DEF Holding
<1>7. slots' = IF n \in Holding THEN slots - 1 ELSE slots
  BY <1>6 DEF Ends, Release
<1>8. Cardinality(Holding \ {n}) = IF n \in Holding THEN Cardinality(Holding) - 1 ELSE Cardinality(Holding)
  BY HoldingFinite, FS_RemoveElement
<1>9. slots \in Nat /\ slots = Cardinality(Holding) /\ slots <= Concurrent
  BY HoldingFinite DEF SummaryInv, SlotsCounted
<1>10. SlotsCounted'
  BY <1>5, <1>7, <1>8, <1>9, SummaryAssumption DEF SlotsCounted
<1> QED BY <1>3, <1>4, <1>10

\* A stream that ends, with an event on the wire or without.
LEMMA EndKeeps ==
  ASSUME SummaryInv, UNCHANGED <<turn, pane, asker, recent>>,
         NEW n \in Streams, served[n].pc \notin {"none", "over"},
         NEW pc \in {"canceled", "over"}, Ends(n, pc),
         NEW e \in Events, Tell(n, e) \/ wire' = wire,
         e \in Finals => pc = "over" /\ EndedAs([served[n] EXCEPT !.pc = "over"], e),
         e # "delta"
  PROVE  SummaryInv'
<1>1. PICK s \in StreamStates :
        /\ served' = [served EXCEPT ![n] = s] /\ s.pc = pc /\ s.held = FALSE
        /\ s.text = served[n].text /\ s.finish = served[n].finish
  BY SlotReturned
<1>2. SlotsCounted'
  BY SlotReturned
<1>3. e \in Finals => EndedAs(s, e) /\ served[n].text
  <2>1. served[n] \in StreamStates
    BY DEF SummaryInv, SummaryTypes
  <2>2. /\ [served[n] EXCEPT !.pc = "over"].text = served[n].text
        /\ [served[n] EXCEPT !.pc = "over"].finish = served[n].finish
    BY <2>1 DEF StreamStates
  <2> QED BY <1>1, <2>2 DEF EndedAs
<1>4. recent' \in 0 .. PerMinute
  BY DEF SummaryInv, SummaryTypes
<1> QED BY <1>1, <1>2, <1>3, <1>4, ServerKeeps

\* The limiter lets a request begin, or refuses it.
LEMMA AcquireKeeps ==
  ASSUME SummaryInv, NEW n \in Streams, Acquire(n)
  PROVE  SummaryInv'
<1>1. /\ served[n].pc = "asked" /\ UNCHANGED <<turn, pane, asker>> /\ SummaryTypes
      /\ served[n] \in StreamStates /\ StreamFits(n) /\ recent \in 0 .. PerMinute
  BY DEF Acquire, SummaryInv, SummaryTypes
<1>2. n \notin Holding
  BY <1>1 DEF StreamFits, Holding
<1>3. slots \in Nat /\ slots = Cardinality(Holding) /\ slots <= Concurrent
  BY HoldingFinite DEF SummaryInv, SlotsCounted
<1>4. CASE valid /\ slots < Concurrent /\ recent < PerMinute
  <2>1. PICK s : s = [served[n] EXCEPT !.pc = "fetch", !.held = TRUE]
    OBVIOUS
  <2>2. s \in StreamStates /\ s.pc = "fetch" /\ s.held = TRUE /\ s.text = served[n].text
    BY <1>1, <2>1 DEF StreamStates
  <2>3. served' = [served EXCEPT ![n] = s] /\ slots' = slots + 1 /\ recent' = recent + 1
        /\ wire' = wire
    BY <1>1, <1>4, <2>1 DEF Acquire, SummaryTypes
  <2>4. Holding' = Holding \cup {n}
    BY <1>1, <2>2, <2>3 DEF Holding, SummaryTypes
  <2>5. Cardinality(Holding \cup {n}) = Cardinality(Holding) + 1
    BY <1>2, HoldingFinite, FS_AddElement
  <2>6. SlotsCounted'
    BY <1>3, <1>4, <2>3, <2>4, <2>5, SummaryAssumption DEF SlotsCounted
  <2>7. recent' \in 0 .. PerMinute
    BY <1>1, <1>4, <2>3, SummaryAssumption
  <2>8. "error" \in Events /\ "error" \notin Finals
    BY DEF Events, Finals
  <2> QED BY <1>1, <2>2, <2>3, <2>6, <2>7, <2>8, ServerKeeps
<1>5. CASE ~(valid /\ slots < Concurrent /\ recent < PerMinute)
  <2>1. PICK s : s = [served[n] EXCEPT !.pc = "over"]
    OBVIOUS
  <2>2. s \in StreamStates /\ s.pc = "over" /\ s.held = served[n].held /\ s.text = served[n].text
    BY <1>1, <2>1 DEF StreamStates
  <2>3. /\ served' = [served EXCEPT ![n] = s] /\ slots' = slots /\ recent' = recent
        /\ Tell(n, "refused")
    BY <1>1, <1>5, <2>1 DEF Acquire, SummaryTypes
  <2>4. Holding' = Holding
    BY <1>1, <2>2, <2>3 DEF Holding, SummaryTypes
  <2>5. SlotsCounted'
    BY <1>3, <2>3, <2>4 DEF SlotsCounted
  <2>6. "refused" \in Events /\ "refused" \notin Finals /\ ~s.held
    BY <1>1, <2>2 DEF Events, Finals, StreamFits
  <2> QED BY <1>1, <2>2, <2>3, <2>5, <2>6, ServerKeeps
<1> QED BY <1>4, <1>5

\* What a stream that holds its slot does next.
LEMMA StreamingKeeps ==
  ASSUME SummaryInv, NEW n \in Streams,
         \/ Provider(n) \/ Delta(n) \/ Finish(n) \/ Done(n) \/ Broken(n) \/ Cancel(n)
         \/ ReaderEnds(n)
  PROVE  SummaryInv'
<1>1. /\ UNCHANGED <<turn, pane, asker, recent>> /\ served[n].pc \notin {"none", "over"}
      /\ SummaryTypes /\ served[n] \in StreamStates /\ StreamFits(n) /\ recent \in 0 .. PerMinute
  BY DEF SummaryInv, SummaryTypes, Provider, Delta, Finish, Done, Broken, Cancel, ReaderEnds
<1>2. /\ {"meta", "delta", "error", "refused", "done", "truncated"} \subseteq Events
      /\ {"meta", "delta", "error", "refused"} \cap Finals = {}
  BY DEF Events, Finals
<1>3. ASSUME NEW s \in StreamStates, served' = [served EXCEPT ![n] = s], s.held = served[n].held,
             slots' = slots
      PROVE  SlotsCounted'
  <2>1. Holding' = Holding
    BY <1>1, <1>3 DEF Holding, SummaryTypes
  <2> QED BY <1>3, <2>1 DEF SummaryInv, SlotsCounted
<1>4. CASE Provider(n) /\ ~Ends(n, "over")
  <2>1. PICK s : s = [served[n] EXCEPT !.pc = "open"]
    OBVIOUS
  <2>2. s \in StreamStates /\ s.pc = "open" /\ s.held = served[n].held /\ s.text = served[n].text
    BY <1>1, <2>1 DEF StreamStates
  <2>3. served' = [served EXCEPT ![n] = s] /\ slots' = slots /\ Tell(n, "meta")
    BY <1>1, <1>4, <2>1 DEF Provider, SummaryTypes
  <2> QED BY <1>1, <1>2, <1>3, <2>2, <2>3, ServerKeeps
<1>5. CASE Provider(n) /\ Ends(n, "over")
  <2>1. Tell(n, "refused") \/ Tell(n, "meta")
    BY <1>5 DEF Provider
  <2> QED BY <1>1, <1>2, <1>5, <2>1, EndKeeps
<1>6. CASE Delta(n)
  <2>1. PICK s : s = [served[n] EXCEPT !.text = TRUE]
    OBVIOUS
  <2>2. s \in StreamStates /\ s.pc = served[n].pc /\ s.held = served[n].held
    BY <1>1, <2>1 DEF StreamStates
  <2>3. served' = [served EXCEPT ![n] = s] /\ slots' = slots /\ Tell(n, "delta")
    BY <1>1, <1>6, <2>1 DEF Delta, SummaryTypes
  <2>4. s.held => s.pc \in {"fetch", "open"}
    BY <1>1, <2>2 DEF StreamFits
  <2>5. SlotsCounted' /\ "delta" \in Events /\ "delta" \notin Finals /\ s.pc # "none"
    BY <1>1, <1>2, <1>3, <2>2, <2>3
  <2> QED BY <1>1, <2>2, <2>3, <2>4, <2>5, ServerKeeps
<1>7. CASE Finish(n)
  <2>1. PICK f \in {"stop", "length", "filter"} : served' = [served EXCEPT ![n].finish = f]
    BY <1>7 DEF Finish
  <2>2. PICK s : s = [served[n] EXCEPT !.finish = f]
    OBVIOUS
  <2>3. s \in StreamStates /\ s.pc = served[n].pc /\ s.held = served[n].held
        /\ s.text = served[n].text
    BY <1>1, <2>2 DEF StreamStates
  <2>4. served' = [served EXCEPT ![n] = s] /\ slots' = slots /\ wire' = wire
    BY <1>1, <1>7, <2>1, <2>2 DEF Finish, SummaryTypes
  <2>5. s.held => s.pc \in {"fetch", "open"}
    BY <1>1, <2>3 DEF StreamFits
  <2> QED BY <1>1, <1>2, <1>3, <2>3, <2>4, <2>5, ServerKeeps
<1>8. CASE Done(n)
  <2>1. PICK e : e = IF Complete(n) THEN Event(n) ELSE "error"
    OBVIOUS
  <2>2. Ends(n, "over") /\ Tell(n, e)
    BY <1>8, <2>1 DEF Done
  <2>3. e \in Events /\ e # "delta"
    BY <1>2, <2>1 DEF Event
  <2>4. e \in Finals => served[n].text /\ served[n].finish = IF e = "done" THEN "stop" ELSE "length"
    BY <1>2, <2>1 DEF Complete, Event, Finals
  <2>5. e \in Finals => EndedAs([served[n] EXCEPT !.pc = "over"], e)
    <3>1. /\ [served[n] EXCEPT !.pc = "over"].pc = "over"
          /\ [served[n] EXCEPT !.pc = "over"].text = served[n].text
          /\ [served[n] EXCEPT !.pc = "over"].finish = served[n].finish
      BY <1>1 DEF StreamStates
    <3> QED BY <2>4, <3>1 DEF EndedAs
  <2> QED BY <1>1, <2>2, <2>3, <2>5, EndKeeps
<1>9. CASE Broken(n)
  BY <1>1, <1>2, <1>9, EndKeeps DEF Broken
<1>10. CASE Cancel(n) \/ ReaderEnds(n)
  <2>1. wire' = wire /\ \E pc \in {"canceled", "over"} : Ends(n, pc)
    BY <1>10 DEF Cancel, ReaderEnds
  <2> QED BY <1>1, <1>2, <2>1, EndKeeps
<1> QED BY <1>4, <1>5, <1>6, <1>7, <1>8, <1>9, <1>10

\* A page reads the next event of its request, old or new.
LEMMA ReadKeeps ==
  ASSUME SummaryInv, NEW n \in Streams, NEW p \in Page, Read(p, n)
  PROVE  SummaryInv'
<1>1. /\ wire[n] # <<>> /\ asker[n] = p /\ UNCHANGED <<slots, recent, served, turn, asker>>
      /\ wire' = [wire EXCEPT ![n] = Tail(wire[n])] /\ SummaryTypes
      /\ StreamFits(n) /\ TextFits(n) /\ PaneFits(p)
  BY DEF Read, SummaryInv, SummaryTypes
<1>2. PICK w \in Seq(Events) : w = wire[n]
  BY <1>1 DEF SummaryTypes
<1>3. PICK v, e : v = Tail(w) /\ e = Head(w)
  OBVIOUS
<1>4. /\ v \in Seq(Events) /\ e = w[1] /\ e \in Events /\ 1 \in 1 .. Len(w)
      /\ \A i \in 1 .. Len(v) : i + 1 \in 1 .. Len(w) /\ v[i] = w[i + 1]
  BY <1>1, <1>2, <1>3, Taken
<1>5. wire'[n] = v /\ wire' \in [Streams -> Seq(Events)]
      /\ \A m \in Streams : m # n => wire'[m] = wire[m]
  BY <1>1, <1>2, <1>3, <1>4 DEF SummaryTypes
<1>6. \A m \in Streams : StreamFits(m)'
  <2>1. StreamFits(n)'
    BY <1>1, <1>2, <1>4, <1>5 DEF StreamFits
  <2>2. \A m \in Streams : m # n => StreamFits(m)'
    BY <1>1, <1>5 DEF SummaryInv, StreamFits
  <2> QED BY <2>1, <2>2
<1>7. SlotsCounted'
  BY <1>1 DEF SummaryInv, SlotsCounted, Holding
<1>8. /\ turn[p] \in 0 .. MaxCalls /\ pane[p] \in Panes /\ n # 0
      /\ pane' = IF Applies(p, n) THEN Shown(p, n, e) ELSE pane
  BY <1>1, <1>2, <1>3, SummaryAssumption DEF Read, SummaryTypes, Streams
\* What the page shows becomes q; no page listens to two requests.
<1>9. ASSUME NEW q \in Panes, pane' = [pane EXCEPT ![p] = q], Applies(p, n),
             q.shows \in {pane[p].shows, pane[p].shows \cup {n}},
             q.says \in {"preparing", "writing"} /\ n \notin q.shows =>
               e # "delta" /\ q.shows = pane[p].shows,
             q.says \in {"complete", "truncated"} =>
               n \in q.shows
                 /\ EndedAs(served[n], IF q.says = "complete" THEN "done" ELSE "truncated")
      PROVE  SummaryInv'
  <2>1. turn[p] = n /\ turn' = turn /\ asker' = asker /\ served' = served
    BY <1>1, <1>9 DEF Applies
  <2>2. pane'[p] = q /\ pane' \in [Page -> Panes] /\ \A r \in Page : r # p => pane'[r] = pane[r]
    BY <1>1, <1>9 DEF SummaryTypes
  <2>3. \A r \in Page : PaneFits(r)'
    <3>1. PaneFits(p)'
      BY <1>1, <1>9, <2>1, <2>2 DEF PaneFits
    <3>2. \A r \in Page : r # p => PaneFits(r)'
      BY <2>1, <2>2 DEF SummaryInv, PaneFits
    <3> QED BY <3>1, <3>2
  <2>4. TextFits(n)'
    <3> SUFFICES ASSUME q.says \in {"preparing", "writing"}, n \notin q.shows
                 PROVE  (served[n].text => Carries(v)) /\ TextFirst(v)
      BY <1>1, <1>5, <2>1, <2>2 DEF TextFits, Applies
    <3>1. n \notin pane[p].shows /\ e # "delta"
      BY <1>9
    <3>2. (served[n].text => Carries(w)) /\ TextFirst(w)
      BY <1>1, <1>2, <1>9, <3>1 DEF TextFits
    <3> QED BY <1>1, <1>2, <1>3, <3>1, <3>2, Taken
  <2>5. ASSUME NEW m \in Streams, m # n PROVE TextFits(m)'
    <3>1. CASE asker[m] = p
      BY <2>1, <2>5, <3>1 DEF TextFits, Applies
    <3>2. CASE asker[m] # p
      BY <1>5, <2>1, <2>2, <2>5, <3>2 DEF SummaryInv, TextFits, Applies
    <3> QED BY <3>1, <3>2
  <2>6. SummaryTypes'
    BY <1>1, <1>5, <2>2 DEF SummaryTypes
  <2> QED BY <1>6, <1>7, <2>3, <2>4, <2>5, <2>6 DEF SummaryInv
<1>10. CASE ~Applies(p, n)
  <2>1. pane' = pane
    BY <1>8, <1>10
  <2>2. \A m \in Streams : TextFits(m)'
    BY <1>1, <1>5, <1>10, <2>1 DEF SummaryInv, TextFits, Applies
  <2>3. \A r \in Page : PaneFits(r)'
    BY <1>1, <2>1 DEF SummaryInv, PaneFits
  <2>4. SummaryTypes'
    BY <1>1, <1>5, <2>1 DEF SummaryTypes
  <2> QED BY <1>6, <1>7, <2>2, <2>3, <2>4 DEF SummaryInv
<1>11. CASE Applies(p, n) /\ e = "delta"
  <2>1. PICK q : q = [pane[p] EXCEPT !.says = "writing", !.shows = @ \cup {n}]
    OBVIOUS
  <2>2. q \in Panes /\ q.says = "writing" /\ q.shows = pane[p].shows \cup {n}
    BY <1>8, <2>1 DEF Panes
  <2>3. pane' = [pane EXCEPT ![p] = q]
    BY <1>1, <1>8, <1>11, <2>1 DEF Shown, SummaryTypes
  <2> QED BY <1>9, <1>11, <2>2, <2>3
<1>12. CASE Applies(p, n) /\ e # "delta"
  <2>1. PICK q : q = CASE e = "meta"      -> pane[p]
                       [] e = "done"      -> [pane[p] EXCEPT !.says = "complete"]
                       [] e = "truncated" -> [pane[p] EXCEPT !.says = "truncated"]
                       [] OTHER           -> [pane[p] EXCEPT !.says = "failed", !.open = FALSE]
    OBVIOUS
  <2>2. /\ q \in Panes /\ q.shows = pane[p].shows
        /\ e = "meta" => q.says = pane[p].says
        /\ e = "done" => q.says = "complete"
        /\ e = "truncated" => q.says = "truncated"
        /\ e \notin {"meta", "done", "truncated"} => q.says = "failed"
    BY <1>8, <2>1 DEF Panes
  <2>3. pane' = [pane EXCEPT ![p] = q]
    BY <1>1, <1>8, <1>12, <2>1 DEF Shown, SummaryTypes
  <2>4. e \in Finals => EndedAs(served[n], e)
    BY <1>1, <1>2, <1>4 DEF StreamFits
  <2>5. e \in Finals => n \in pane[p].shows
    BY <1>1, <1>2, <1>4, <1>12 DEF TextFits, TextFirst
  <2>6. pane[p].says \in {"preparing", "writing"}
    BY <1>12 DEF Applies
  <2>7. q.says \in {"complete", "truncated"} =>
          n \in q.shows
            /\ EndedAs(served[n], IF q.says = "complete" THEN "done" ELSE "truncated")
    BY <2>2, <2>4, <2>5, <2>6 DEF Finals
  <2> QED BY <1>9, <1>12, <2>2, <2>3, <2>7
<1> QED BY <1>10, <1>11, <1>12

\* A new request of p, or p gives up the one it has.
LEMMA PressKeeps ==
  ASSUME SummaryInv, NEW p \in Page, Press(p)
  PROVE  SummaryInv'
<1>1. PICK n \in Streams :
        /\ served[n].pc = "none"
        /\ served' = [served EXCEPT ![n].pc = "asked"] /\ turn' = [turn EXCEPT ![p] = n]
        /\ asker' = [asker EXCEPT ![n] = p]
  BY DEF Press
<1>2. /\ pane' = [pane EXCEPT ![p] = [says |-> "preparing", shows |-> {}, open |-> TRUE]]
      /\ UNCHANGED <<slots, recent, wire>> /\ SummaryTypes
      /\ served[n] \in StreamStates /\ StreamFits(n)
  BY DEF Press, SummaryInv, SummaryTypes
<1>3. PICK s, q : /\ s = [served[n] EXCEPT !.pc = "asked"]
                  /\ q = [says |-> "preparing", shows |-> {}, open |-> TRUE]
  OBVIOUS
<1>4. /\ s \in StreamStates /\ s.pc = "asked" /\ s.held = served[n].held /\ s.text = served[n].text
      /\ q \in Panes /\ q.says = "preparing" /\ q.shows = {}
  BY <1>2, <1>3 DEF StreamStates, Panes
<1>5. /\ served' = [served EXCEPT ![n] = s] /\ pane' = [pane EXCEPT ![p] = q]
      /\ ~s.held /\ ~s.text /\ wire[n] = <<>>
  BY <1>1, <1>2, <1>3, <1>4 DEF StreamFits
<1>6. /\ served'[n] = s /\ pane'[p] = q /\ turn'[p] = n /\ asker'[n] = p
      /\ \A m \in Streams : m # n => served'[m] = served[m] /\ asker'[m] = asker[m]
      /\ \A r \in Page : r # p => pane'[r] = pane[r] /\ turn'[r] = turn[r]
  BY <1>1, <1>2, <1>5 DEF SummaryTypes
<1>7. Holding' = Holding
  BY <1>4, <1>6 DEF Holding
<1>8. SlotsCounted'
  BY <1>2, <1>7 DEF SummaryInv, SlotsCounted
<1>9. SummaryTypes'
  <2>1. served' \in [Streams -> StreamStates] /\ pane' \in [Page -> Panes]
    BY <1>2, <1>4, <1>5 DEF SummaryTypes
  <2>2. turn' \in [Page -> 0 .. MaxCalls]
    BY <1>1, <1>2, SummaryAssumption DEF SummaryTypes, Streams
  <2>3. asker' = [m \in Streams |-> asker'[m]]
    BY <1>1, <1>2 DEF SummaryTypes
  <2> QED BY <1>2, <2>1, <2>2, <2>3 DEF SummaryTypes
<1>10. StreamFits(n)' /\ TextFits(n)'
  BY <1>2, <1>4, <1>5, <1>6 DEF StreamFits, TextFits, TextFirst
<1>11. ASSUME NEW m \in Streams, m # n PROVE StreamFits(m)' /\ TextFits(m)'
  <2>1. StreamFits(m)'
    BY <1>2, <1>6, <1>11 DEF SummaryInv, StreamFits
  <2>2. TextFits(m)'
    BY <1>2, <1>6, <1>11 DEF SummaryInv, TextFits, Applies
  <2> QED BY <2>1, <2>2
<1>12. \A r \in Page : PaneFits(r)'
  <2>1. PaneFits(p)'
    BY <1>4, <1>6 DEF PaneFits
  <2>2. ASSUME NEW r \in Page, r # p PROVE PaneFits(r)'
    <3>1. PaneFits(r) /\ turn[r] \in 0 .. MaxCalls
      BY <1>2 DEF SummaryInv, SummaryTypes
    <3>2. pane[r].shows \subseteq Streams /\ 0 \notin Streams /\ turn[r] \in {0} \cup Streams
      BY <1>2, <3>1, SummaryAssumption DEF SummaryTypes, Panes, Streams
    <3>3. turn[r] # n
      BY <1>1, <3>1, <3>2 DEF PaneFits
    <3> QED BY <1>6, <2>2, <3>1, <3>2, <3>3 DEF PaneFits
  <2> QED BY <2>1, <2>2
<1> QED BY <1>8, <1>9, <1>10, <1>11, <1>12 DEF SummaryInv

LEMMA SilenceKeeps ==
  ASSUME SummaryInv, NEW p \in Page, Stop(p) \/ Lost(p) \/ AnswerEnds(p)
  PROVE  SummaryInv'
<1>1. PICK what \in {"stopped", "failed", "complete", "truncated"} :
        Gives(p, what) /\ (what \in {"complete", "truncated"} => what = pane[p].says)
  BY DEF Stop, Lost, AnswerEnds
<1>2. UNCHANGED <<slots, recent, served, wire, turn, asker>> /\ SummaryTypes /\ pane[p] \in Panes
  BY DEF Stop, Lost, AnswerEnds, SummaryInv, SummaryTypes
<1>3. PICK q : q = [pane[p] EXCEPT !.says = what, !.open = FALSE]
  OBVIOUS
<1>4. q \in Panes /\ q.says = what /\ q.shows = pane[p].shows
  BY <1>1, <1>2, <1>3 DEF Panes
<1>5. /\ pane' \in [Page -> Panes] /\ pane'[p] = q
      /\ \A r \in Page : r # p => pane'[r] = pane[r]
  BY <1>1, <1>2, <1>3, <1>4 DEF Gives, SummaryTypes
<1>6. \A n \in Streams : StreamFits(n)' /\ TextFits(n)'
  <2>1. \A n \in Streams : StreamFits(n)'
    BY <1>2 DEF SummaryInv, StreamFits
  <2>2. \A n \in Streams : TextFits(n)'
    BY <1>2, <1>4, <1>5 DEF SummaryInv, TextFits, Applies
  <2> QED BY <2>1, <2>2
<1>7. \A r \in Page : PaneFits(r)'
  BY <1>1, <1>2, <1>4, <1>5 DEF SummaryInv, PaneFits
<1>8. SlotsCounted' /\ SummaryTypes'
  BY <1>2, <1>5 DEF SummaryInv, SlotsCounted, Holding, SummaryTypes
<1> QED BY <1>6, <1>7, <1>8 DEF SummaryInv

LEMMA SummaryStepInv == SummaryInv /\ [SummaryNext]_summaryVars => SummaryInv'
<1> SUFFICES ASSUME SummaryInv, [SummaryNext]_summaryVars PROVE SummaryInv'
  OBVIOUS
<1>1. ASSUME UNCHANGED <<slots, served, wire, turn, pane, asker>>, recent' \in 0 .. PerMinute
      PROVE  SummaryInv'
  BY <1>1 DEF SummaryInv, SummaryTypes, SlotsCounted, Holding, StreamFits, TextFits, Applies,
              PaneFits
<1>2. CASE MinuteOld \/ Revoke \/ UNCHANGED summaryVars
  BY <1>1, <1>2, SummaryAssumption
  DEF MinuteOld, Revoke, summaryVars, SummaryInv, SummaryTypes
<1> QED BY <1>2, AcquireKeeps, StreamingKeeps, ReadKeeps, PressKeeps, SilenceKeeps DEF SummaryNext

\* For any pages, limits and number of requests: a dialog shows its last request
\* only, says complete only of a whole summary, and the limiter counts what holds
\* a slot (summaries.ts SummaryLimiter and streamSummary, summary.js).
THEOREM SummariesAreHonest == SummarySpec => []SummaryHonest
<1>1. SummaryInv => SummaryHonest
  <2> SUFFICES ASSUME SummaryInv PROVE SummaryHonest
    OBVIOUS
  <2>1. \A p \in Page : PaneFits(p)
    BY DEF SummaryInv
  <2>2. \A p \in Page : pane[p].says \in {"complete", "truncated"} =>
          /\ pane[p].shows = {turn[p]} /\ served[turn[p]].pc = "over" /\ served[turn[p]].text
          /\ served[turn[p]].finish = IF pane[p].says = "complete" THEN "stop" ELSE "length"
    BY <2>1 DEF PaneFits, EndedAs
  <2>3. slots = Cardinality({n \in Streams : served[n].held}) /\ slots <= Concurrent
    BY DEF SummaryInv, SlotsCounted, Holding
  <2> QED BY <2>1, <2>2, <2>3 DEF SummaryInv, SummaryTypes, SummaryHonest, StreamFits, PaneFits
<1> QED BY <1>1, SummaryInitInv, SummaryStepInv, PTL DEF SummarySpec

-----------------------------------------------------------------------------
(***************************************************************************)
(* Reports (ReportOutbox, whose specification is Spec). A creation that no  *)
(* table has, for reports were off, lies within a gap (Accounted): one gap  *)
(* is open exactly while they were last seen off (Watched), and cleanup     *)
(* takes only gaps that no window reaches. So a window's count differs from *)
(* what was created within it only if a gap overlaps it, which is what its  *)
(* mail then says (MailFits). Chain is the order of a name's windows, each  *)
(* with one mail, HandlerFits what the alarm handler holds across its       *)
(* awaits.                                                                  *)
(***************************************************************************)

WindowRecords == [start: Nat, end: Nat, retry: BOOLEAN]
GapRecords == [start: Nat, end: {Null} \cup Nat]
MailStates == {"none", "silent", "pending", "sent", "cancelled"}
Mails == [state: MailStates, start: Int, count: Nat, note: BOOLEAN, sensitive: BOOLEAN,
          to: Owner \cup {NoOwner}, wait: BOOLEAN, sentTo: SUBSET Owner]
AlarmStates == {"idle", "recover", "prepare", "deliver", "lookup", "check", "sending"}
Handlers == [pc: AlarmStates, id: Names \X Nat, to: Owner \cup {NoOwner}, count: Nat, note: BOOLEAN]

\* What of some creations is between two times, and an honest report of it.
Between(creations, s, e) == {t \in creations : s <= t /\ t < e}
Honest(creations, s, e, count, note) ==
  /\ count <= Cardinality(Between(creations, s, e))
  /\ ~note => count = Cardinality(Between(creations, s, e))

OutboxTypes ==
  /\ env \in Settings /\ now \in 0 .. MaxNow
  /\ tracking \in [on: BOOLEAN, at: Int] /\ tracking.at \in -1 .. now
  /\ gaps \subseteq GapRecords
  /\ created \subseteq 0 .. tracking.at /\ rows \subseteq created
  /\ window \in [Names -> {NoWindow} \cup WindowRecords]
  /\ mail \in [MailIds -> Mails] /\ a \in Handlers /\ barred \subseteq MailIds

\* One gap is open as long as reports were last seen off, and none else.
OpenGap(set, off, time) ==
  /\ ~off => \A g \in set : g.end # Null
  /\ off => \E o \in set : /\ o.end = Null /\ o.start <= time
                           /\ \A g \in set : g.end = Null => g = o

\* Settings do not change without time passing.
Watched ==
  /\ tracking.at = Null => ~tracking.on
  /\ tracking.at = now => tracking.on = env.on
  /\ OpenGap(gaps, ~tracking.on /\ tracking.at # Null, tracking.at)

\* A creation that no table has is within a gap, while a window wants it.
Covered(set, t) == \E g \in set : g.start <= t /\ (g.end = Null \/ t < g.end)
Accounted ==
  \A n \in Names : \A t \in created : window[n].start <= t => t \in rows \/ Covered(gaps, t)

\* The windows of a name follow each other, each with its one mail.
Chain(n) ==
  /\ window[n] = NoWindow => \A e \in 1 .. MaxNow : mail[<<n, e>>] = NoMail
  /\ window[n] # NoWindow =>
       /\ window[n].start <= now /\ window[n].start < window[n].end
       /\ window[n].end % Interval[n] = 0
       /\ \A e \in 1 .. MaxNow : mail[<<n, e>>] # NoMail => e <= window[n].start
       /\ \/ \A e \in 1 .. MaxNow : mail[<<n, e>>] = NoMail
          \/ mail[<<n, window[n].start>>] # NoMail

MailFits(id) ==
  /\ mail[id].state = "none" => mail[id] = NoMail
  /\ mail[id] # NoMail =>
       id[2] <= now /\ Honest(created, mail[id].start, id[2], mail[id].count, mail[id].note)
  /\ mail[id].sentTo \subseteq {mail[id].to}
  /\ id \in barred => mail[id].state = "cancelled"

Serving == {"lookup", "check", "sending"}

\* What the alarm handler holds.
HandlerFits ==
  /\ a.pc = "prepare" =>
       /\ window[Hourly] # NoWindow /\ window[Hourly].end <= now
       /\ Honest(created, window[Hourly].start, window[Hourly].end, a.count, a.note)
  /\ a.pc \in Serving =>
       a.id \in MailIds /\ mail[a.id].state # "none" /\ a.id \notin barred
  /\ a.pc = "lookup" => mail[a.id].to = NoOwner
  /\ a.pc \in {"check", "sending"} => a.to \in Owner /\ mail[a.id].to = a.to

ReportInv ==
  /\ OutboxTypes /\ Watched /\ Accounted
  /\ \A n \in Names : Chain(n)
  /\ \A id \in MailIds : MailFits(id)
  /\ HandlerFits

-----------------------------------------------------------------------------

LEMMA IntervalType == \A n \in Names : Interval[n] \in Nat \ {0}
BY ReportAssumption DEF Names, Interval, Hourly, Count

\* A multiple of an interval has no remainder.
LEMMA NoRemainder ==
  ASSUME NEW k \in Int, NEW i \in Nat \ {0}
  PROVE  (k * i) % i = 0
<1> DEFINE q == (k * i) \div i
           r == (k * i) % i
<1>1. q \in Int /\ r \in Int /\ 0 <= r /\ r < i /\ k * i = i * q + r
  OBVIOUS
<1> HIDE DEF q, r
<1>2. r = (k - q) * i
  BY <1>1
<1>3. CASE k - q >= 1
  <2>1. (k - q) * i >= i
    BY <1>1, <1>3
  <2> QED BY <1>1, <1>2, <2>1
<1>4. CASE k - q <= -1
  <2>1. (k - q) * i <= -i
    BY <1>1, <1>4
  <2> QED BY <1>1, <1>2, <2>1
<1>5. CASE k - q = 0
  BY <1>1, <1>2, <1>5 DEF r
<1> QED BY <1>1, <1>3, <1>4, <1>5

LEMMA NextMultiple ==
  ASSUME NEW e \in Nat, NEW i \in Nat \ {0}, e % i = 0
  PROVE  (e + i) % i = 0
<1> DEFINE q == e \div i
<1>1. q \in Int /\ e = i * q
  OBVIOUS
<1> HIDE DEF q
<1>2. e + i = (q + 1) * i
  BY <1>1
<1> QED BY <1>1, <1>2, NoRemainder

\* A window begins within an interval and ends with it.
LEMMA FirstEnd ==
  ASSUME NEW t \in Nat, NEW i \in Nat \ {0}, NEW e, e = (t \div i + 1) * i
  PROVE  e \in Nat /\ t < e /\ e % i = 0
<1> DEFINE q == t \div i
<1>1. q \in Int /\ 0 <= t - i * q /\ t - i * q < i
  OBVIOUS
<1>2. e = (q + 1) * i
  OBVIOUS
<1> HIDE DEF q
<1>3. e = i * q + i
  BY <1>1, <1>2
<1>4. e \in Int /\ t < e
  BY <1>1, <1>3
<1> QED BY <1>1, <1>2, <1>4, NoRemainder

-----------------------------------------------------------------------------

\* What one more creation does not change.
LEMMA HonestStays ==
  ASSUME NEW C, NEW t \in Int, NEW s, NEW e \in Int, NEW count, NEW note,
         e <= t, Honest(C, s, e, count, note)
  PROVE  Honest(C \cup {t}, s, e, count, note)
<1>1. Between(C \cup {t}, s, e) = Between(C, s, e)
  BY DEF Between
<1> QED BY <1>1 DEF Honest

\* Whoever counts the rows of a window without a gap counts the creations.
LEMMA CountHonest ==
  ASSUME OutboxTypes, Accounted, NEW n \in Names, window[n] # NoWindow
  PROVE  /\ CountRows(window[n]) \in Nat
         /\ Honest(created, window[n].start, window[n].end, CountRows(window[n]), Incomplete(window[n]))
<1> DEFINE s == window[n].start
           e == window[n].end
           counted == {t \in rows : s <= t /\ t < e}
<1>1. /\ s \in Nat /\ e \in Nat /\ created \subseteq 0 .. tracking.at /\ rows \subseteq created
      /\ tracking.at \in Int
  BY DEF OutboxTypes, WindowRecords
<1>2. IsFiniteSet(created)
  <2>1. \A t \in Int : IsFiniteSet(0 .. t)
    BY FS_Interval
  <2> QED BY <1>1, <2>1, FS_Subset
<1>3. IsFiniteSet(Between(created, s, e))
  BY <1>2, FS_Subset DEF Between
<1>4. counted \subseteq Between(created, s, e)
  BY <1>1 DEF Between
<1>5. /\ Cardinality(counted) \in Nat /\ Cardinality(Between(created, s, e)) \in Nat
      /\ Cardinality(counted) <= Cardinality(Between(created, s, e))
  BY <1>3, <1>4, FS_Subset, FS_CardinalityType
<1>6. ASSUME ~Incomplete(window[n]) PROVE counted = Between(created, s, e)
  <2>1. ASSUME NEW t \in Between(created, s, e) PROVE t \in counted
    <3>1. t \in created /\ s <= t /\ t < e /\ t \in Int
      BY <1>1 DEF Between
    <3>2. t \in rows \/ Covered(gaps, t)
      BY <3>1 DEF Accounted
    <3>3. ASSUME NEW g \in gaps, g.start <= t, g.end = Null \/ t < g.end PROVE FALSE
      <4>1. g.start \in Int /\ (g.end = Null \/ g.end \in Int)
        BY DEF OutboxTypes, GapRecords
      <4>2. g.start < e /\ (g.end = Null \/ (g.end > s /\ g.end > g.start))
        BY <1>1, <3>1, <3>3, <4>1
      <4> QED BY <1>6, <4>2 DEF Incomplete
    <3> QED BY <3>1, <3>2, <3>3 DEF Covered
  <2> QED BY <1>4, <2>1
<1>7. CountRows(window[n]) = Cardinality(counted)
  BY DEF CountRows
<1> HIDE DEF counted
<1> QED BY <1>5, <1>6, <1>7 DEF Honest

\* The gaps after an observation cover what they covered.
LEMMA GapsObserved ==
  ASSUME OutboxTypes, Watched, NEW G, G = Gaps
  PROVE  /\ G \subseteq GapRecords /\ OpenGap(G, ~env.on, now)
         /\ \A t \in created : Covered(gaps, t) => Covered(G, t)
<1>1. /\ now \in Nat /\ tracking.at \in Int /\ tracking.at <= now /\ tracking.on \in BOOLEAN
      /\ env.on \in BOOLEAN /\ gaps \subseteq GapRecords
      /\ \A t \in created : t \in Int /\ 0 <= t /\ t <= tracking.at
  BY ReportAssumption DEF OutboxTypes, Setting
<1>2. /\ tracking.at = Null => ~tracking.on
      /\ tracking.at = now => tracking.on = env.on
      /\ OpenGap(gaps, ~tracking.on /\ tracking.at # Null, tracking.at)
  BY DEF Watched
<1>3. CASE tracking.at = Null /\ ~env.on
  <2>1. G = gaps \cup {[start |-> now, end |-> Null]}
    BY <1>2, <1>3 DEF Gaps
  <2>2. [start |-> now, end |-> Null] \in GapRecords
    BY <1>1 DEF GapRecords
  <2>3. OpenGap(G, TRUE, now)
    <3>1. \A g \in gaps : g.end # Null
      BY <1>2, <1>3 DEF OpenGap
    <3>2. now <= now
      BY <1>1
    <3> QED BY <2>1, <3>1, <3>2 DEF OpenGap
  <2>4. \A t \in created : Covered(gaps, t) => Covered(G, t)
    BY <2>1 DEF Covered
  <2> QED BY <1>1, <1>3, <2>1, <2>2, <2>3, <2>4
<1>4. CASE tracking.on /\ ~env.on
  <2>1. G = gaps \cup {[start |-> tracking.at, end |-> Null]}
    BY <1>2, <1>4 DEF Gaps
  <2>2. [start |-> tracking.at, end |-> Null] \in GapRecords
    BY <1>1, <1>2, <1>4 DEF GapRecords, OutboxTypes, Null
  <2>3. OpenGap(G, TRUE, now)
    BY <1>1, <1>2, <1>4, <2>1 DEF OpenGap
  <2>4. \A t \in created : Covered(gaps, t) => Covered(G, t)
    BY <2>1 DEF Covered
  <2> QED BY <1>1, <1>4, <2>1, <2>2, <2>3, <2>4
<1>5. CASE ~tracking.on /\ env.on
  <2> DEFINE Closed(g) == IF g.end = Null THEN [g EXCEPT !.end = now] ELSE g
  <2>1. G = {Closed(g) : g \in gaps}
    BY <1>2, <1>5 DEF Gaps
  <2>2. \A g \in gaps : /\ Closed(g) \in GapRecords /\ Closed(g).end # Null /\ Closed(g).start = g.start
                        /\ Closed(g).end = IF g.end = Null THEN now ELSE g.end
    BY <1>1 DEF GapRecords, Null
  <2> HIDE DEF Closed
  <2>3. ASSUME NEW t \in created, Covered(gaps, t) PROVE Covered(G, t)
    <3>1. PICK g \in gaps : g.start <= t /\ (g.end = Null \/ t < g.end)
      BY <2>3 DEF Covered
    <3>2. t < now
      <4>1. tracking.at # now
        BY <1>2, <1>5
      <4> QED BY <1>1, <4>1
    <3>3. Closed(g).start <= t /\ (Closed(g).end = Null \/ t < Closed(g).end) /\ Closed(g) \in G
      BY <2>1, <2>2, <3>1, <3>2
    <3> QED BY <3>3 DEF Covered
  <2>4. OpenGap(G, FALSE, now)
    BY <2>1, <2>2 DEF OpenGap
  <2>5. G \subseteq GapRecords
    BY <2>1, <2>2
  <2> QED BY <1>5, <2>3, <2>4, <2>5
<1>6. CASE ~(tracking.at = Null /\ ~env.on) /\ ~(tracking.on /\ ~env.on) /\ ~(~tracking.on /\ env.on)
  <2>1. G = gaps
    BY <1>6 DEF Gaps
  <2>2. OpenGap(G, ~env.on, now)
    BY <1>1, <1>2, <1>6, <2>1 DEF OpenGap, OutboxTypes, GapRecords
  <2> QED BY <1>1, <2>1, <2>2
<1> QED BY <1>1, <1>3, <1>4, <1>5, <1>6

-----------------------------------------------------------------------------

\* The gate observes; the windows move on at most, and a creation may be recorded.
LEMMA ObserveKeeps ==
  ASSUME OutboxTypes, Watched, Accounted, Observe, env' = env, now' = now,
         \/ created' = created /\ rows' = rows
         \/ created' = created \cup {now} /\ rows' = IF env.on THEN rows \cup {now} ELSE rows,
         \A n \in Names : window[n].start <= window'[n].start,
         window' \in [Names -> {NoWindow} \cup WindowRecords]
  PROVE  /\ tracking' \in [on: BOOLEAN, at: Int] /\ tracking'.at = now
         /\ gaps' \subseteq GapRecords /\ created' \subseteq 0 .. now /\ rows' \subseteq created'
         /\ Watched' /\ Accounted'
<1>1. /\ now \in Nat /\ tracking.at \in Int /\ tracking.at <= now /\ env.on \in BOOLEAN
      /\ created \subseteq 0 .. tracking.at /\ rows \subseteq created
  BY ReportAssumption DEF OutboxTypes, Setting
<1>2. PICK G : G = Gaps
  OBVIOUS
<1>3. /\ G \subseteq GapRecords /\ OpenGap(G, ~env.on, now)
      /\ \A t \in created : Covered(gaps, t) => Covered(G, t)
  BY <1>2, GapsObserved
<1>4. gaps' = G /\ tracking' = [on |-> env.on, at |-> now]
  BY <1>2 DEF Observe
<1>5. /\ tracking' \in [on: BOOLEAN, at: Int] /\ tracking'.at = now /\ tracking'.on = env.on
      /\ created' \subseteq 0 .. now /\ rows' \subseteq created'
  <2>1. tracking' \in [on: BOOLEAN, at: Int] /\ tracking'.at = now /\ tracking'.on = env.on
    BY <1>1, <1>4
  <2>2. created \subseteq 0 .. now /\ now \in 0 .. now
    BY <1>1
  <2>3. created' \subseteq 0 .. now
    BY <2>2
  <2>4. rows' \subseteq created'
    BY <1>1
  <2> QED BY <2>1, <2>3, <2>4
<1>6. Watched'
  <2>1. now # Null /\ env'.on = env.on
    BY <1>1 DEF Null
  <2>2. OpenGap(gaps', ~tracking'.on /\ tracking'.at # Null, tracking'.at)
    <3>1. CASE env.on
      BY <1>3, <1>4, <1>5, <3>1 DEF OpenGap
    <3>2. CASE ~env.on
      BY <1>3, <1>4, <1>5, <2>1, <3>2 DEF OpenGap
    <3> QED BY <3>1, <3>2
  <2> QED BY <1>5, <2>1, <2>2 DEF Watched
<1>7. ASSUME NEW n \in Names, NEW t \in created', window'[n].start <= t
      PROVE  t \in rows' \/ Covered(gaps', t)
  <2>1. CASE t \in created
    <3>1. t \in Int /\ window[n].start \in Int /\ window'[n].start \in Int
      BY <1>1, <2>1 DEF OutboxTypes, WindowRecords, NoWindow, Null
    <3>2. window[n].start <= t
      BY <1>7, <3>1
    <3>3. t \in rows \/ Covered(gaps, t)
      BY <2>1, <3>2 DEF Accounted
    <3> QED BY <1>3, <1>4, <2>1, <3>3
  <2>2. CASE t = now /\ created' = created \cup {now} /\ rows' = IF env.on THEN rows \cup {now} ELSE rows
    <3>1. CASE env.on
      BY <2>2, <3>1
    <3>2. CASE ~env.on
      BY <1>3, <1>4, <2>2, <3>2 DEF OpenGap, Covered
    <3> QED BY <1>1, <3>1, <3>2
  <2> QED BY <2>1, <2>2
<1>8. Accounted'
  BY <1>7 DEF Accounted
<1> QED BY <1>3, <1>4, <1>5, <1>6, <1>8

\* What a step that sends, delays or cancels leaves of a mail.
MailKept(id) ==
  /\ mail'[id] = NoMail <=> mail[id] = NoMail
  /\ mail'[id].state = "none" => mail'[id] = NoMail
  /\ mail'[id].start = mail[id].start /\ mail'[id].count = mail[id].count
  /\ mail'[id].note = mail[id].note
  /\ mail'[id].sentTo \subseteq {mail'[id].to}
  /\ id \in barred' => mail'[id].state = "cancelled"
MailsKept == mail' \in [MailIds -> Mails] /\ \A id \in MailIds : MailKept(id)

LEMMA UntouchedKept ==
  OutboxTypes /\ (\A id \in MailIds : MailFits(id)) /\ mail' = mail /\ barred' = barred => MailsKept
BY DEF OutboxTypes, MailFits, MailsKept, MailKept

LEMMA MailFitsKept ==
  ASSUME OutboxTypes, now' \in Nat, now <= now', created' = created \/ created' = created \cup {now},
         NEW id \in MailIds, MailFits(id), MailKept(id)
  PROVE  MailFits(id)'
<1>1. now \in Nat /\ id[2] \in Int
  BY ReportAssumption DEF OutboxTypes, MailIds
<1>2. ASSUME mail'[id] # NoMail
      PROVE  id[2] <= now' /\ Honest(created', mail'[id].start, id[2], mail'[id].count, mail'[id].note)
  <2>1. id[2] <= now /\ Honest(created, mail[id].start, id[2], mail[id].count, mail[id].note)
    BY <1>2 DEF MailFits, MailKept
  <2>2. id[2] <= now'
    BY <1>1, <2>1
  <2>3. Honest(created \cup {now}, mail[id].start, id[2], mail[id].count, mail[id].note)
    BY <1>1, <2>1, HonestStays
  <2>4. Honest(created', mail[id].start, id[2], mail[id].count, mail[id].note)
    BY <2>1, <2>3
  <2> QED BY <2>2, <2>4 DEF MailKept
<1> QED BY <1>2 DEF MailFits, MailKept

LEMMA ChainKept ==
  ASSUME OutboxTypes, now' \in Nat, now <= now', NEW n \in Names, Chain(n), MailsKept,
         window'[n] = NoWindow <=> window[n] = NoWindow,
         window'[n].start = window[n].start, window'[n].end = window[n].end
  PROVE  Chain(n)'
<1>1. \A e \in 1 .. MaxNow : mail'[<<n, e>>] = NoMail <=> mail[<<n, e>>] = NoMail
  BY DEF MailsKept, MailKept, MailIds
<1>2. CASE window[n] = NoWindow
  BY <1>1, <1>2 DEF Chain
<1>3. CASE window[n] # NoWindow
  <2> DEFINE s == window[n].start
  <2>1. s \in Nat /\ now \in Nat
    BY <1>3, ReportAssumption DEF OutboxTypes, WindowRecords
  <2>2. /\ s <= now /\ s < window[n].end /\ window[n].end % Interval[n] = 0
        /\ \A e \in 1 .. MaxNow : mail[<<n, e>>] # NoMail => e <= s
        /\ \/ \A e \in 1 .. MaxNow : mail[<<n, e>>] = NoMail
           \/ mail[<<n, s>>] # NoMail
    BY <1>3 DEF Chain
  <2>3. s <= now'
    BY <2>1, <2>2
  <2>4. \/ \A e \in 1 .. MaxNow : mail'[<<n, e>>] = NoMail
        \/ mail'[<<n, s>>] # NoMail
    <3>1. CASE s \in 1 .. MaxNow
      BY <1>1, <2>2, <3>1
    <3>2. CASE s \notin 1 .. MaxNow
      <4>1. s = 0
        BY <2>1, <2>2, <3>2, ReportAssumption DEF OutboxTypes
      <4>2. \A e \in 1 .. MaxNow : ~(e <= s)
        BY <4>1
      <4> QED BY <1>1, <2>2, <4>2
    <3> QED BY <3>1, <3>2
  <2> HIDE DEF s
  <2> QED BY <1>1, <1>3, <2>2, <2>3, <2>4 DEF Chain, s
<1> QED BY <1>2, <1>3

\* ensure opens what is not open yet.
LEMMA OpenedKeeps ==
  ASSUME OutboxTypes, now' = now, NEW n \in Names, Chain(n), MailsKept, window'[n] = Opened(n)
  PROVE  /\ window'[n] \in {NoWindow} \cup WindowRecords
         /\ window[n].start <= window'[n].start
         /\ window[n] # NoWindow => window'[n] = window[n]
         /\ Chain(n)'
<1>1. now \in Nat /\ now' \in Nat /\ now <= now' /\ window[n] \in {NoWindow} \cup WindowRecords
  BY ReportAssumption DEF OutboxTypes
<1>2. CASE window'[n] = window[n]
  <2>1. window[n].start <= window[n].start
    BY <1>1 DEF WindowRecords, NoWindow, Null
  <2>2. Chain(n)'
    BY <1>1, <1>2, ChainKept
  <2> QED BY <1>1, <1>2, <2>1, <2>2
<1>3. CASE window[n] = NoWindow /\
           window'[n] = [start |-> now, end |-> (now \div Interval[n] + 1) * Interval[n], retry |-> FALSE]
  <2>1. PICK i, e : i = Interval[n] /\ e = (now \div i + 1) * i
    OBVIOUS
  <2>2. e \in Nat /\ now < e /\ e % i = 0
    BY <1>1, <2>1, IntervalType, FirstEnd
  <2>3. window'[n] = [start |-> now, end |-> e, retry |-> FALSE]
    BY <1>3, <2>1
  <2>4. window'[n] \in WindowRecords /\ window'[n] # NoWindow /\ window'[n].start = now /\ window'[n].end = e
    BY <1>1, <2>2, <2>3 DEF WindowRecords, NoWindow, Null
  <2>5. window[n].start <= window'[n].start
    BY <1>1, <1>3, <2>4 DEF NoWindow, Null
  <2>6. \A d \in 1 .. MaxNow : mail'[<<n, d>>] = NoMail
    BY <1>3 DEF Chain, MailsKept, MailKept, MailIds
  <2>7. window'[n].start <= now'
    BY <1>1, <2>4
  <2> QED BY <1>3, <2>1, <2>2, <2>4, <2>5, <2>6, <2>7 DEF Chain
<1> QED BY <1>2, <1>3 DEF Opened

\* The report of a window that is over, and the next window.
LEMMA CompleteKeeps ==
  ASSUME OutboxTypes, \A m \in Names : Chain(m), \A id \in MailIds : MailFits(id),
         now' = now, created' = created, barred' = barred,
         NEW n \in Names, window[n] # NoWindow, window[n].end <= now,
         NEW count \in Nat, NEW note \in BOOLEAN, NEW sensitive \in BOOLEAN,
         Honest(created, window[n].start, window[n].end, count, note),
         CompleteWindow(n, count, note, sensitive)
  PROVE  /\ mail' \in [MailIds -> Mails] /\ \A id \in MailIds : MailFits(id)'
         /\ \A id \in MailIds : mail[id] # NoMail => mail'[id] = mail[id]
         /\ window' \in [Names -> {NoWindow} \cup WindowRecords]
         /\ \A m \in Names : window[m].start <= window'[m].start /\ (m # n => window'[m] = window[m])
         /\ \A m \in Names : Chain(m)'
<1> DEFINE w == window[n]
           key == <<n, w.end>>
<1>1. /\ w \in WindowRecords /\ w.start \in Nat /\ w.end \in Nat /\ w.start < w.end
      /\ now \in 0 .. MaxNow /\ MaxNow \in Nat /\ w.end % Interval[n] = 0 /\ Interval[n] \in Nat \ {0}
  BY ReportAssumption, IntervalType DEF OutboxTypes, WindowRecords, Chain
<1>2. key \in MailIds /\ key[2] = w.end
  BY <1>1 DEF MailIds
<1>3. PICK v : v = [start |-> w.end, end |-> w.end + Interval[n], retry |-> FALSE]
  OBVIOUS
<1>4. /\ v \in WindowRecords /\ v # NoWindow /\ v.start = w.end /\ v.end = w.end + Interval[n]
      /\ v.start < v.end /\ v.end % Interval[n] = 0
  <2>1. (w.end + Interval[n]) % Interval[n] = 0
    BY <1>1, NextMultiple
  <2> QED BY <1>1, <1>3, <2>1 DEF WindowRecords, NoWindow, Null
<1>5. window' = [window EXCEPT ![n] = v]
  BY <1>3 DEF CompleteWindow, Following
<1>6. /\ window' \in [Names -> {NoWindow} \cup WindowRecords]
      /\ window'[n] = v /\ \A m \in Names : m # n => window'[m] = window[m]
  BY <1>4, <1>5 DEF OutboxTypes
<1>7. \A m \in Names : window[m].start <= window'[m].start
  <2>1. \A m \in Names : window[m].start \in Int
    BY DEF OutboxTypes, WindowRecords, NoWindow, Null
  <2> QED BY <1>1, <1>4, <1>6, <2>1
<1>9. PICK state, to :
        /\ state = IF n = Hourly /\ count = 0 /\ ~note THEN "silent" ELSE "pending"
        /\ to = IF n = Hourly /\ count = 0 /\ ~note THEN NoOwner ELSE env.owner
  OBVIOUS
<1>10. PICK r : r = [state |-> state, start |-> w.start, count |-> count, note |-> note,
                     sensitive |-> sensitive, to |-> to, wait |-> FALSE, sentTo |-> {}]
  OBVIOUS
<1>11. /\ r \in Mails /\ r # NoMail /\ r.state # "none" /\ r.start = w.start /\ r.count = count
       /\ r.note = note /\ r.sentTo = {}
  <2>1. state \in {"silent", "pending"} /\ to \in Owner \cup {NoOwner}
    BY <1>9, ReportAssumption DEF OutboxTypes, Setting
  <2> QED BY <1>1, <1>10, <2>1 DEF Mails, MailStates, NoMail
<1>12. mail' = IF mail[key] # NoMail THEN mail ELSE [mail EXCEPT ![key] = r]
  BY <1>9, <1>10 DEF CompleteWindow
<1>13. /\ mail' \in [MailIds -> Mails]
       /\ \A id \in MailIds : mail[id] # NoMail => mail'[id] = mail[id]
       /\ \A id \in MailIds : mail[id] = NoMail => mail'[id] = IF id = key THEN r ELSE NoMail
       /\ mail'[key] # NoMail
  BY <1>2, <1>11, <1>12 DEF OutboxTypes
<1>14. ASSUME NEW id \in MailIds PROVE MailFits(id)'
  <2>1. CASE mail'[id] = mail[id]
    BY <2>1 DEF MailFits
  <2>2. CASE mail[id] = NoMail /\ id = key /\ mail'[id] = r
    <3>1. id \notin barred
      BY <2>2 DEF MailFits, NoMail
    <3> QED BY <1>1, <1>2, <1>11, <2>2, <3>1 DEF MailFits
  <2> QED BY <1>13, <2>1, <2>2
<1>15. Chain(n)'
  <2>1. \A e \in 1 .. MaxNow : mail'[<<n, e>>] # NoMail => e <= w.end
    <3>1. ASSUME NEW e \in 1 .. MaxNow, mail'[<<n, e>>] # NoMail PROVE e <= w.end
      <4>1. <<n, e>> \in MailIds
        BY DEF MailIds
      <4>2. mail[<<n, e>>] # NoMail \/ e = w.end
        BY <1>13, <3>1, <4>1
      <4>3. mail[<<n, e>>] # NoMail => e <= w.start
        BY DEF Chain
      <4> QED BY <1>1, <4>2, <4>3
    <3> QED BY <3>1
  <2>2. w.end <= now'
    OBVIOUS
  <2> HIDE DEF w
  <2> QED BY <1>4, <1>6, <1>13, <2>1, <2>2 DEF Chain
<1>16. ASSUME NEW m \in Names, m # n PROVE Chain(m)'
  <2>1. \A e \in 1 .. MaxNow : mail'[<<m, e>>] = mail[<<m, e>>]
    <3>1. ASSUME NEW e \in 1 .. MaxNow PROVE mail'[<<m, e>>] = mail[<<m, e>>]
      <4>1. <<m, e>> \in MailIds /\ <<m, e>> # key
        BY <1>16 DEF MailIds
      <4> QED BY <1>13, <4>1
    <3> QED BY <3>1
  <2>2. window'[m] = window[m] /\ now' = now
    BY <1>6, <1>16
  <2>3. window[m] # NoWindow => window[m].start \in Nat /\ window[m].start <= now
    BY <1>16 DEF Chain, OutboxTypes, WindowRecords
  <2>4. mail[<<m, window[m].start>>] # NoMail /\ window[m] # NoWindow /\ ~(\A e \in 1 .. MaxNow : mail[<<m, e>>] = NoMail)
          => mail'[<<m, window[m].start>>] # NoMail
    <3>1. \A e \in 1 .. MaxNow : mail[<<m, e>>] # NoMail => e <= window[m].start \/ window[m] = NoWindow
      BY DEF Chain
    <3> QED BY <1>1, <2>1, <2>3, <3>1
  <2> QED BY <2>1, <2>2, <2>4 DEF Chain
<1> QED BY <1>6, <1>7, <1>13, <1>14, <1>15, <1>16

-----------------------------------------------------------------------------

\* What applyPolicy leaves of the mails.
LEMMA PolicyKeeps ==
  ASSUME OutboxTypes, \A id \in MailIds : MailFits(id), NEW e, NEW P, P = Policy(e)
  PROVE  /\ P \in [MailIds -> Mails]
         /\ \A id \in MailIds :
              /\ P[id] = NoMail <=> mail[id] = NoMail
              /\ P[id].state = "none" => P[id] = NoMail
              /\ P[id].start = mail[id].start /\ P[id].count = mail[id].count
              /\ P[id].note = mail[id].note /\ P[id].to = mail[id].to /\ P[id].sentTo = mail[id].sentTo
              /\ mail[id].state = "cancelled" => P[id].state = "cancelled"
              /\ mail[id].state = "pending" /\ Forbidden(mail[id], e) => P[id].state = "cancelled"
<1> DEFINE Barred(m) == [m EXCEPT !.state = "cancelled"]
<1>1. \A m \in Mails : /\ Barred(m) \in Mails /\ Barred(m).state = "cancelled"
                       /\ Barred(m).start = m.start /\ Barred(m).count = m.count
                       /\ Barred(m).note = m.note /\ Barred(m).to = m.to /\ Barred(m).sentTo = m.sentTo
  BY DEF Mails, MailStates
<1>2. P = [id \in MailIds |-> IF id \in Pending /\ Forbidden(mail[id], e) THEN Barred(mail[id]) ELSE mail[id]]
  BY DEF Policy
<1> HIDE DEF Barred
<1>3. \A id \in MailIds : mail[id] \in Mails /\ (mail[id].state = "none" <=> mail[id] = NoMail)
  BY DEF OutboxTypes, MailFits, NoMail
<1>4. P \in [MailIds -> Mails]
  BY <1>1, <1>2, <1>3
<1>5. NoMail.state = "none"
  BY DEF NoMail
<1>6. ASSUME NEW id \in MailIds
      PROVE  /\ P[id] = NoMail <=> mail[id] = NoMail
             /\ P[id].state = "none" => P[id] = NoMail
             /\ P[id].start = mail[id].start /\ P[id].count = mail[id].count
             /\ P[id].note = mail[id].note /\ P[id].to = mail[id].to /\ P[id].sentTo = mail[id].sentTo
             /\ mail[id].state = "cancelled" => P[id].state = "cancelled"
             /\ mail[id].state = "pending" /\ Forbidden(mail[id], e) => P[id].state = "cancelled"
  <2>1. CASE id \in Pending /\ Forbidden(mail[id], e)
    <3>1. P[id] = Barred(mail[id]) /\ mail[id].state = "pending"
      BY <1>2, <2>1 DEF Pending
    <3> QED BY <1>1, <1>3, <1>5, <3>1
  <2>2. CASE ~(id \in Pending /\ Forbidden(mail[id], e))
    <3>1. P[id] = mail[id] /\ ~(mail[id].state = "pending" /\ Forbidden(mail[id], e))
      BY <1>2, <2>2 DEF Pending
    <3> QED BY <1>3, <3>1
  <2> QED BY <2>1, <2>2
<1> QED BY <1>4, <1>6

LEMMA PolicyMailsKept ==
  ASSUME OutboxTypes, \A id \in MailIds : MailFits(id), NEW e, mail' = Policy(e), barred' = barred
  PROVE  MailsKept /\ \A id \in MailIds : mail'[id].to = mail[id].to
<1>1. PICK P : P = Policy(e)
  OBVIOUS
<1>2. /\ P \in [MailIds -> Mails]
      /\ \A id \in MailIds :
           /\ P[id] = NoMail <=> mail[id] = NoMail
           /\ P[id].state = "none" => P[id] = NoMail
           /\ P[id].start = mail[id].start /\ P[id].count = mail[id].count
           /\ P[id].note = mail[id].note /\ P[id].to = mail[id].to /\ P[id].sentTo = mail[id].sentTo
           /\ mail[id].state = "cancelled" => P[id].state = "cancelled"
  BY <1>1, PolicyKeeps
<1>3. mail' = P
  BY <1>1
<1>4. \A id \in MailIds : mail[id].sentTo \subseteq {mail[id].to} /\ (id \in barred => mail[id].state = "cancelled")
  BY DEF MailFits
<1> QED BY <1>2, <1>3, <1>4 DEF MailsKept, MailKept

\* One mail changes, in what a step may change of it.
LEMMA OneMailKept ==
  ASSUME OutboxTypes, \A id \in MailIds : MailFits(id), barred' = barred, NEW id \in MailIds, NEW r \in Mails,
         mail[id].state # "none", r.state # "none", r.start = mail[id].start, r.count = mail[id].count,
         r.note = mail[id].note, r.sentTo \subseteq {r.to}, id \in barred => r.state = "cancelled",
         NEW P \in [MailIds -> Mails],
         \A k \in MailIds :
              /\ P[k] = NoMail <=> mail[k] = NoMail
              /\ P[k].state = "none" => P[k] = NoMail
              /\ P[k].start = mail[k].start /\ P[k].count = mail[k].count
              /\ P[k].note = mail[k].note /\ P[k].to = mail[k].to /\ P[k].sentTo = mail[k].sentTo
              /\ mail[k].state = "cancelled" => P[k].state = "cancelled",
         mail' = [P EXCEPT ![id] = r]
  PROVE  MailsKept /\ mail'[id] = r /\ \A k \in MailIds : k # id => mail'[k].to = mail[k].to
<1>1. mail' \in [MailIds -> Mails] /\ mail'[id] = r /\ \A k \in MailIds : k # id => mail'[k] = P[k]
  OBVIOUS
<1>2. \A k \in MailIds : mail[k].sentTo \subseteq {mail[k].to} /\ (k \in barred => mail[k].state = "cancelled")
  BY DEF MailFits
<1>3. MailKept(id)
  <2>1. r # NoMail /\ mail[id] # NoMail
    BY DEF NoMail
  <2> QED BY <1>1, <2>1 DEF MailKept
<1>4. \A k \in MailIds : k # id => MailKept(k)
  BY <1>1, <1>2 DEF MailKept
<1> QED BY <1>1, <1>3, <1>4 DEF MailsKept

-----------------------------------------------------------------------------

LEMMA ReportInitInv == Init => ReportInv
<1> SUFFICES ASSUME Init PROVE ReportInv
  OBVIOUS
<1> USE ReportAssumption
<1>1. /\ env = FirstSettings /\ now = 0 /\ tracking = [on |-> FALSE, at |-> Null] /\ gaps = {}
      /\ window = [n \in Names |-> NoWindow] /\ rows = {} /\ mail = [id \in MailIds |-> NoMail]
      /\ a = Idle /\ created = {} /\ barred = {}
  BY DEF Init, Empty
<1>2. NoMail \in Mails /\ NoMail.sentTo = {} /\ NoMail.state = "none"
  BY DEF NoMail, Mails, MailStates, Null
<1>3. Idle \in Handlers /\ Idle.pc = "idle"
  BY DEF Idle, Handlers, AlarmStates, Names
<1>4. OutboxTypes
  BY <1>1, <1>2, <1>3 DEF OutboxTypes, Null
<1>5. Watched
  BY <1>1 DEF Watched, OpenGap, Null
<1>6. Accounted
  BY <1>1 DEF Accounted
<1>7. \A n \in Names : Chain(n)
  BY <1>1 DEF Chain, MailIds
<1>8. \A id \in MailIds : MailFits(id)
  BY <1>1, <1>2 DEF MailFits
<1>9. HandlerFits
  BY <1>1, <1>3 DEF HandlerFits, Serving
<1> QED BY <1>4, <1>5, <1>6, <1>7, <1>8, <1>9 DEF ReportInv

\* Nothing but mails, the handler and what waits for a retry.
LEMMA MailStep ==
  ASSUME ReportInv, MailsKept, UNCHANGED <<env, now, tracking, gaps, rows, created, barred>>,
         window' \in [Names -> {NoWindow} \cup WindowRecords],
         \A n \in Names : /\ window'[n] = NoWindow <=> window[n] = NoWindow
                          /\ window'[n].start = window[n].start /\ window'[n].end = window[n].end,
         a' \in Handlers, HandlerFits'
  PROVE  ReportInv'
<1>1. OutboxTypes /\ Watched /\ Accounted /\ (\A n \in Names : Chain(n)) /\ (\A id \in MailIds : MailFits(id))
  BY DEF ReportInv
<1>2. now \in Nat /\ now' \in Nat /\ now <= now'
  BY <1>1, ReportAssumption DEF OutboxTypes
<1>3. OutboxTypes'
  BY <1>1 DEF OutboxTypes, MailsKept
<1>4. Watched' /\ Accounted'
  BY <1>1 DEF Watched, Accounted
<1>5. \A n \in Names : Chain(n)'
  BY <1>1, <1>2, ChainKept
<1>6. \A id \in MailIds : MailFits(id)'
  BY <1>1, <1>2, MailFitsKept DEF MailsKept
<1> QED BY <1>3, <1>4, <1>5, <1>6 DEF ReportInv

\* The handler waits while others take their steps.
LEMMA HandlerKept ==
  ASSUME OutboxTypes, HandlerFits, a' = a, barred' = barred, now' \in Nat, now <= now',
         created' = created \/ created' = created \cup {now},
         \A id \in MailIds : mail[id].state # "none" =>
              mail'[id].state # "none" /\ mail'[id].to = mail[id].to,
         window[Hourly] # NoWindow =>
              /\ window'[Hourly] # NoWindow
              /\ window'[Hourly].start = window[Hourly].start /\ window'[Hourly].end = window[Hourly].end
  PROVE  HandlerFits'
<1>1. ASSUME a.pc = "prepare"
      PROVE  /\ window'[Hourly] # NoWindow /\ window'[Hourly].end <= now'
             /\ Honest(created', window'[Hourly].start, window'[Hourly].end, a.count, a.note)
  <2>1. /\ window[Hourly] # NoWindow /\ window[Hourly].end <= now
        /\ Honest(created, window[Hourly].start, window[Hourly].end, a.count, a.note)
    BY <1>1 DEF HandlerFits
  <2>2. now \in Nat /\ window[Hourly].end \in Nat
    BY <2>1, ReportAssumption DEF OutboxTypes, WindowRecords, Names
  <2>3. window[Hourly].end <= now'
    BY <2>1, <2>2
  <2>4. Honest(created \cup {now}, window[Hourly].start, window[Hourly].end, a.count, a.note)
    BY <2>1, <2>2, HonestStays
  <2> QED BY <2>1, <2>3, <2>4
<1>2. a.pc \in Serving => a.id \in MailIds /\ mail[a.id].state # "none" /\ a.id \notin barred
  BY DEF HandlerFits
<1>3. a.pc = "lookup" \/ a.pc \in {"check", "sending"} => a.pc \in Serving
  BY DEF Serving
<1>4. (a.pc = "lookup" => mail[a.id].to = NoOwner)
      /\ (a.pc \in {"check", "sending"} => a.to \in Owner /\ mail[a.id].to = a.to)
  BY DEF HandlerFits
<1> QED BY <1>1, <1>2, <1>3, <1>4 DEF HandlerFits

\* The alarm handler after a step of its own that leaves no mail in its hands.
LEMMA HandlerFree ==
  ASSUME a'.pc \in {"idle", "recover", "deliver"}
  PROVE  HandlerFits'
BY DEF HandlerFits, Serving

LEMMA IdleFits ==
  /\ Idle \in Handlers
  /\ \A pc \in AlarmStates : [Idle EXCEPT !.pc = pc] \in Handlers /\ [Idle EXCEPT !.pc = pc].pc = pc
BY DEF Idle, Handlers, AlarmStates, Names

LEMMA RecoveryFailsInv == ReportInv /\ AlarmFails => ReportInv'
<1> SUFFICES ASSUME ReportInv, AlarmFails PROVE ReportInv'
  OBVIOUS
<1>1. /\ UNCHANGED <<env, now, tracking, gaps, rows, created, barred, mail, window>> /\ a' = Idle
  BY DEF AlarmFails, tables
<1>2. OutboxTypes /\ (\A id \in MailIds : MailFits(id))
  BY DEF ReportInv
<1>3. a' \in Handlers /\ HandlerFits'
  BY <1>1, IdleFits, HandlerFree DEF Idle
<1>4. MailsKept
  BY <1>1, <1>2, UntouchedKept
<1> QED BY <1>1, <1>2, <1>3, <1>4, MailStep DEF OutboxTypes

\* A window may wait for a retry, or no longer.
LEMMA RetryInv ==
  ASSUME ReportInv, UNCHANGED <<env, now, tracking, gaps, rows, created, barred, mail>>,
         window[Hourly] # NoWindow, NEW b \in BOOLEAN,
         window' = [window EXCEPT ![Hourly].retry = b], a' \in Handlers, HandlerFits'
  PROVE  ReportInv'
<1>1. OutboxTypes /\ (\A id \in MailIds : MailFits(id)) /\ Hourly \in Names
  BY DEF ReportInv, Names
<1>2. MailsKept
  BY <1>1, UntouchedKept
<1>3. PICK w : w = [window[Hourly] EXCEPT !.retry = b]
  OBVIOUS
<1>4. window[Hourly] \in WindowRecords
  BY <1>1 DEF OutboxTypes
<1>5. /\ w \in WindowRecords /\ w # NoWindow
      /\ w.start = window[Hourly].start /\ w.end = window[Hourly].end
  BY <1>3, <1>4 DEF WindowRecords, NoWindow, Null
<1>6. window' = [window EXCEPT ![Hourly] = w]
  BY <1>3
<1>7. /\ window' \in [Names -> {NoWindow} \cup WindowRecords] /\ window'[Hourly] = w
      /\ \A n \in Names : n # Hourly => window'[n] = window[n]
  BY <1>1, <1>5, <1>6 DEF OutboxTypes
<1>8. \A n \in Names : /\ window'[n] = NoWindow <=> window[n] = NoWindow
                       /\ window'[n].start = window[n].start /\ window'[n].end = window[n].end
  BY <1>5, <1>7
<1> QED BY <1>1, <1>2, <1>7, <1>8, MailStep DEF OutboxTypes

LEMMA WindowRetryInv == ReportInv /\ (PrepareFails \/ WindowDue) => ReportInv'
<1> SUFFICES ASSUME ReportInv, PrepareFails \/ WindowDue PROVE ReportInv'
  OBVIOUS
<1>1. OutboxTypes /\ HandlerFits /\ Hourly \in Names /\ window[Hourly] \in {NoWindow} \cup WindowRecords
      /\ a \in Handlers /\ now \in Nat
  BY ReportAssumption DEF ReportInv, OutboxTypes, Names
<1>2. CASE PrepareFails
  <2>1. window[Hourly] # NoWindow
    BY <1>1, <1>2 DEF PrepareFails, HandlerFits
  <2>2. a' \in Handlers /\ a'.pc = "deliver"
    BY <1>2, IdleFits DEF PrepareFails, AlarmStates
  <2>3. HandlerFits'
    BY <2>2, HandlerFree
  <2>4. /\ UNCHANGED <<env, now, tracking, gaps, rows, created, barred, mail>>
        /\ window' = [window EXCEPT ![Hourly].retry = TRUE]
    BY <1>2 DEF PrepareFails
  <2> QED BY <2>1, <2>2, <2>3, <2>4, RetryInv
<1>3. CASE WindowDue
  <2>1. window[Hourly] # NoWindow
    BY <1>3 DEF WindowDue, NoWindow
  <2>2. /\ UNCHANGED <<env, now, tracking, gaps, rows, created, barred, mail>> /\ a' = a
        /\ window' = [window EXCEPT ![Hourly].retry = FALSE]
    BY <1>3 DEF WindowDue
  <2>3. window[Hourly] \in WindowRecords /\ window \in [Names -> {NoWindow} \cup WindowRecords]
    BY <1>1, <2>1 DEF OutboxTypes
  <2>4. /\ window'[Hourly] # NoWindow
        /\ window'[Hourly].start = window[Hourly].start /\ window'[Hourly].end = window[Hourly].end
    <3>1. PICK w : w = [window[Hourly] EXCEPT !.retry = FALSE]
      OBVIOUS
    <3>2. window'[Hourly] = w
      BY <1>1, <2>2, <2>3, <3>1
    <3> QED BY <2>3, <3>1, <3>2 DEF WindowRecords, NoWindow, Null
  <2>5. HandlerFits'
    BY <1>1, <2>2, <2>4, HandlerKept
  <2> QED BY <1>1, <2>1, <2>2, <2>5, RetryInv
<1> QED BY <1>2, <1>3

\* A mail that some step picks is there, and the handler's are no barred ones.
LEMMA MailAt ==
  ASSUME OutboxTypes, \A id \in MailIds : MailFits(id), NEW id \in MailIds, mail[id].state # "none"
  PROVE  mail[id] \in Mails /\ mail[id] # NoMail /\ mail[id].sentTo \subseteq {mail[id].to}
BY DEF OutboxTypes, MailFits, NoMail

LEMMA MailDueInv == ASSUME ReportInv, NEW id \in MailIds, MailDue(id) PROVE ReportInv'
<1>1. /\ OutboxTypes /\ HandlerFits /\ (\A k \in MailIds : MailFits(k)) /\ now \in Nat /\ a \in Handlers
      /\ mail \in [MailIds -> Mails] /\ window \in [Names -> {NoWindow} \cup WindowRecords]
  BY ReportAssumption DEF ReportInv, OutboxTypes
<1>2. mail[id].state = "pending" /\ UNCHANGED <<env, now, tracking, gaps, window, rows, a, created, barred>>
  BY DEF MailDue, Pending
<1>3. PICK r : r = [mail[id] EXCEPT !.wait = FALSE]
  OBVIOUS
<1>4. mail[id] \in Mails /\ mail[id].sentTo \subseteq {mail[id].to}
  BY <1>1, <1>2, MailAt
<1>5. /\ r \in Mails /\ r.state = "pending" /\ r.start = mail[id].start /\ r.count = mail[id].count
      /\ r.note = mail[id].note /\ r.to = mail[id].to /\ r.sentTo = mail[id].sentTo
  BY <1>2, <1>3, <1>4 DEF Mails
<1>6. mail' = [mail EXCEPT ![id] = r]
  BY <1>3 DEF MailDue
<1>7. \A k \in MailIds : mail[k].state = "none" => mail[k] = NoMail
  BY <1>1 DEF MailFits
<1>8. id \notin barred
  BY <1>1, <1>2 DEF MailFits
<1>9. MailsKept /\ mail'[id] = r /\ \A k \in MailIds : k # id => mail'[k].to = mail[k].to
  BY <1>1, <1>2, <1>4, <1>5, <1>6, <1>7, <1>8, OneMailKept
<1>10. \A k \in MailIds : mail[k].state # "none" => mail'[k].state # "none" /\ mail'[k].to = mail[k].to
  BY <1>5, <1>7, <1>9 DEF MailsKept, MailKept, NoMail
<1>11. HandlerFits'
  BY <1>1, <1>2, <1>10, HandlerKept
<1> QED BY <1>1, <1>2, <1>9, <1>11, MailStep

-----------------------------------------------------------------------------

\* A mail goes through the hands of the handler: the settings are applied to
\* all and the one is changed, in what may change of it.
LEMMA DeliverStep ==
  ASSUME ReportInv, UNCHANGED <<env, now, tracking, gaps, window, rows, created, barred>>,
         NEW id \in MailIds, mail[id].state # "none", id \notin barred,
         NEW P, P = mail \/ P = Policy(env), NEW r \in Mails, r.state # "none", r.start = mail[id].start,
         r.count = mail[id].count, r.note = mail[id].note, r.sentTo \subseteq {r.to},
         mail' = [P EXCEPT ![id] = r], a' \in Handlers, HandlerFits'
  PROVE  ReportInv'
<1>1. OutboxTypes /\ (\A k \in MailIds : MailFits(k))
  BY DEF ReportInv
<1>2. /\ P \in [MailIds -> Mails]
      /\ \A k \in MailIds :
           /\ P[k] = NoMail <=> mail[k] = NoMail
           /\ P[k].state = "none" => P[k] = NoMail
           /\ P[k].start = mail[k].start /\ P[k].count = mail[k].count
           /\ P[k].note = mail[k].note /\ P[k].to = mail[k].to /\ P[k].sentTo = mail[k].sentTo
           /\ mail[k].state = "cancelled" => P[k].state = "cancelled"
  <2>1. CASE P = mail
    BY <1>1, <2>1 DEF OutboxTypes, MailFits
  <2>2. CASE P = Policy(env)
    BY <1>1, <2>2, PolicyKeeps
  <2> QED BY <2>1, <2>2
<1>3. MailsKept
  BY <1>1, <1>2, OneMailKept
<1> QED BY <1>1, <1>3, MailStep DEF OutboxTypes

\* What the handler says of the mail it has.
LEMMA HandlerHas ==
  ASSUME NEW id \in MailIds, id \notin barred', NEW r, mail'[id] = r, r.state # "none",
         a'.id = id, a'.pc \in Serving, a'.pc = "lookup" => r.to = NoOwner,
         a'.pc \in {"check", "sending"} => a'.to \in Owner /\ r.to = a'.to
  PROVE  HandlerFits'
BY DEF HandlerFits, Serving

LEMMA PickInv == ASSUME ReportInv, NEW id \in MailIds, Pick(id) PROVE ReportInv'
<1>1. /\ OutboxTypes /\ (\A k \in MailIds : MailFits(k))
  BY DEF ReportInv
<1>2. PICK P : P = Policy(env)
  OBVIOUS
<1>3. /\ mail[id].state = "pending" /\ id \notin barred
      /\ UNCHANGED <<env, now, tracking, gaps, window, rows, created, barred>>
  BY <1>1 DEF Pick, Ready, Pending, MailFits
<1>4. /\ P \in [MailIds -> Mails] /\ P[id].state = "pending"
      /\ P[id].start = mail[id].start /\ P[id].count = mail[id].count
      /\ P[id].note = mail[id].note /\ P[id].to = mail[id].to /\ P[id].sentTo = mail[id].sentTo
  BY <1>1, <1>2, PolicyKeeps DEF Pick
<1>5. PICK r : r = [P[id] EXCEPT !.wait = TRUE]
  OBVIOUS
<1>6. mail[id] \in Mails /\ mail[id].sentTo \subseteq {mail[id].to} /\ P[id] \in Mails
  BY <1>1, <1>3, <1>4, MailAt
<1>7. /\ r \in Mails /\ r.state = "pending" /\ r.start = mail[id].start /\ r.count = mail[id].count
      /\ r.note = mail[id].note /\ r.to = mail[id].to /\ r.sentTo = mail[id].sentTo
  BY <1>4, <1>5, <1>6 DEF Mails
<1>8. mail' = [P EXCEPT ![id] = r] /\ mail'[id] = r
  BY <1>2, <1>4, <1>5 DEF Pick
<1>9. PICK pc : pc = IF mail[id].to = NoOwner THEN "lookup" ELSE "check"
  OBVIOUS
<1>10. a' = [Idle EXCEPT !.pc = pc, !.id = id, !.to = mail[id].to]
  BY <1>9 DEF Pick
<1>11. pc \in AlarmStates /\ mail[id].to \in Owner \cup {NoOwner} /\ id \in Names \X Nat
  BY <1>6, <1>9, ReportAssumption DEF AlarmStates, Mails, MailIds
<1>12. a' \in Handlers /\ a'.pc = pc /\ a'.id = id /\ a'.to = mail[id].to
  BY <1>10, <1>11 DEF Idle, Handlers
<1>13. HandlerFits'
  <2>1. pc \in Serving /\ (pc = "lookup" => mail[id].to = NoOwner)
        /\ (pc \in {"check", "sending"} => mail[id].to \in Owner)
    BY <1>9, <1>11 DEF Serving
  <2> QED BY <1>3, <1>7, <1>8, <1>12, <2>1, HandlerHas
<1> QED BY <1>2, <1>3, <1>6, <1>7, <1>8, <1>12, <1>13, DeliverStep

\* The mail of a handler that serves one.
LEMMA Served ==
  ASSUME ReportInv, a.pc \in Serving
  PROVE  /\ a \in Handlers /\ a.id \in MailIds /\ mail[a.id].state # "none" /\ a.id \notin barred
         /\ mail[a.id] \in Mails /\ mail[a.id].sentTo \subseteq {mail[a.id].to}
         /\ a.pc = "lookup" => mail[a.id].to = NoOwner
         /\ a.pc \in {"check", "sending"} => a.to \in Owner /\ mail[a.id].to = a.to
<1>1. OutboxTypes /\ (\A k \in MailIds : MailFits(k)) /\ HandlerFits
  BY DEF ReportInv
<1>2. a.id \in MailIds /\ mail[a.id].state # "none" /\ a.id \notin barred
  BY <1>1 DEF HandlerFits
<1> QED BY <1>1, <1>2, MailAt DEF HandlerFits, OutboxTypes

LEMMA LookupInv == ASSUME ReportInv, NEW to \in Owner, Lookup(to) PROVE ReportInv'
<1> DEFINE id == a.id
<1>1. a.pc = "lookup" /\ UNCHANGED <<env, now, tracking, gaps, window, rows, created, barred>>
  BY DEF Lookup
<1>2. /\ a \in Handlers /\ id \in MailIds /\ mail[id].state # "none" /\ id \notin barred
      /\ mail[id] \in Mails /\ mail[id].sentTo \subseteq {mail[id].to} /\ mail[id].to = NoOwner
  BY <1>1, Served DEF Serving
<1>3. mail[id].sentTo = {}
  BY <1>2, ReportAssumption DEF Mails
<1>4. PICK r : r = [mail[id] EXCEPT !.to = to]
  OBVIOUS
<1>5. /\ r \in Mails /\ r.state = mail[id].state /\ r.start = mail[id].start /\ r.count = mail[id].count
      /\ r.note = mail[id].note /\ r.to = to /\ r.sentTo = {}
  BY <1>2, <1>3, <1>4 DEF Mails
<1>6. mail \in [MailIds -> Mails]
  BY DEF ReportInv, OutboxTypes
<1>7. mail' = [mail EXCEPT ![id] = r] /\ mail'[id] = r
  BY <1>2, <1>4, <1>6 DEF Lookup
<1>8. a' = [a EXCEPT !.pc = "check", !.to = to]
  BY DEF Lookup
<1>9. a' \in Handlers /\ a'.pc = "check" /\ a'.to = to /\ a'.id = id
  BY <1>2, <1>8 DEF Handlers, AlarmStates
<1>10. HandlerFits'
  BY <1>1, <1>2, <1>5, <1>7, <1>9, HandlerHas DEF Serving
<1> QED BY <1>1, <1>2, <1>5, <1>7, <1>9, <1>10, DeliverStep

LEMMA LastCheckInv == ReportInv /\ LastCheck => ReportInv'
<1> SUFFICES ASSUME ReportInv, LastCheck PROVE ReportInv'
  OBVIOUS
<1> DEFINE id == a.id
<1>1. a.pc = "check" /\ UNCHANGED <<env, now, tracking, gaps, window, rows, created, barred>>
  BY DEF LastCheck
<1>2. /\ a \in Handlers /\ id \in MailIds /\ mail[id].state # "none" /\ id \notin barred
      /\ mail[id] \in Mails /\ mail[id].sentTo \subseteq {mail[id].to}
      /\ a.to \in Owner /\ mail[id].to = a.to
  BY <1>1, Served DEF Serving
<1>3. OutboxTypes /\ (\A k \in MailIds : MailFits(k)) /\ NoMail.state = "none"
  BY DEF ReportInv, NoMail
<1>4. PICK P : P = Policy(env)
  OBVIOUS
<1>5. /\ P \in [MailIds -> Mails] /\ P[id] # NoMail /\ P[id].state # "none"
      /\ P[id].start = mail[id].start /\ P[id].count = mail[id].count
      /\ P[id].note = mail[id].note /\ P[id].to = mail[id].to /\ P[id].sentTo = mail[id].sentTo
  BY <1>2, <1>3, <1>4, PolicyKeeps
<1>6. CASE P[id].state = "cancelled"
  <2>1. mail' = P /\ a' = [Idle EXCEPT !.pc = "deliver"]
    BY <1>4, <1>6 DEF LastCheck
  <2>2. a' \in Handlers /\ HandlerFits'
    BY <2>1, IdleFits, HandlerFree DEF AlarmStates
  <2>3. MailsKept
    BY <1>1, <1>3, <1>4, <2>1, PolicyMailsKept
  <2> QED BY <1>1, <1>3, <2>2, <2>3, MailStep DEF OutboxTypes
<1>7. CASE P[id].state # "cancelled"
  <2>1. PICK r : r = [P[id] EXCEPT !.sentTo = P[id].sentTo \cup {a.to}]
    OBVIOUS
  <2>2. /\ r \in Mails /\ r.state = P[id].state /\ r.start = mail[id].start /\ r.count = mail[id].count
        /\ r.note = mail[id].note /\ r.to = a.to /\ r.sentTo \subseteq {r.to}
    <3>1. P[id] \in Mails /\ P[id].sentTo \cup {a.to} \in SUBSET Owner
      BY <1>2, <1>5 DEF Mails
    <3>2. /\ r \in Mails /\ r.state = P[id].state /\ r.start = P[id].start /\ r.count = P[id].count
          /\ r.note = P[id].note /\ r.to = P[id].to /\ r.sentTo = P[id].sentTo \cup {a.to}
      BY <2>1, <3>1 DEF Mails
    <3> QED BY <1>2, <1>5, <3>2
  <2>3. mail' = [P EXCEPT ![id] = r] /\ a' = [a EXCEPT !.pc = "sending"]
    BY <1>4, <1>7, <2>1 DEF LastCheck, SendReport
  <2>4. mail'[id] = r
    BY <1>2, <1>5, <2>3
  <2>5. a' \in Handlers /\ a'.pc = "sending" /\ a'.to = a.to /\ a'.id = id
    BY <1>2, <2>3 DEF Handlers, AlarmStates
  <2>6. HandlerFits'
    BY <1>1, <1>2, <1>5, <2>2, <2>4, <2>5, HandlerHas DEF Serving
  <2> QED BY <1>1, <1>2, <1>4, <1>5, <2>2, <2>3, <2>5, <2>6, DeliverStep
<1> QED BY <1>6, <1>7

LEMMA AnswerInv == ReportInv /\ (Sent \/ Failed) => ReportInv'
<1> SUFFICES ASSUME ReportInv, Sent \/ Failed PROVE ReportInv'
  OBVIOUS
<1>1. /\ a.pc \in Serving /\ UNCHANGED <<env, now, tracking, gaps, window, rows, created, barred>>
      /\ a' = [Idle EXCEPT !.pc = "deliver"]
  BY DEF Sent, Failed, Serving
<1>2. a' \in Handlers /\ HandlerFits'
  BY <1>1, IdleFits, HandlerFree DEF AlarmStates
<1> DEFINE id == a.id
<1>3. /\ id \in MailIds /\ mail[id].state # "none" /\ id \notin barred
      /\ mail[id] \in Mails /\ mail[id].sentTo \subseteq {mail[id].to}
  BY <1>1, Served
<1>4. CASE Sent
  <2>1. PICK r : r = [mail[id] EXCEPT !.state = "sent"]
    OBVIOUS
  <2>2. /\ r \in Mails /\ r.state = "sent" /\ r.start = mail[id].start /\ r.count = mail[id].count
        /\ r.note = mail[id].note /\ r.to = mail[id].to /\ r.sentTo = mail[id].sentTo
    BY <1>3, <2>1 DEF Mails, MailStates
  <2>3. mail' = [mail EXCEPT ![id] = r]
    BY <1>4, <2>1 DEF Sent
  <2> QED BY <1>1, <1>2, <1>3, <2>2, <2>3, DeliverStep
<1>5. CASE Failed
  <2>1. PICK r : r = [mail[id] EXCEPT !.wait = TRUE]
    OBVIOUS
  <2>2. /\ r \in Mails /\ r.state = mail[id].state /\ r.start = mail[id].start /\ r.count = mail[id].count
        /\ r.note = mail[id].note /\ r.to = mail[id].to /\ r.sentTo = mail[id].sentTo
    BY <1>3, <2>1 DEF Mails
  <2>3. mail' = [mail EXCEPT ![id] = r]
    BY <1>5, <2>1 DEF Failed
  <2> QED BY <1>1, <1>2, <1>3, <2>2, <2>3, DeliverStep
<1> QED BY <1>4, <1>5

-----------------------------------------------------------------------------

LEMMA TickInv == ReportInv /\ Tick => ReportInv'
<1> SUFFICES ASSUME ReportInv, Tick PROVE ReportInv'
  OBVIOUS
<1>1. OutboxTypes /\ Watched /\ Accounted /\ (\A n \in Names : Chain(n)) /\ (\A id \in MailIds : MailFits(id))
      /\ HandlerFits
  BY DEF ReportInv
<1>2. /\ now' = now + 1 /\ now < MaxNow
      /\ UNCHANGED <<env, tracking, gaps, window, rows, mail, a, created, barred>>
  BY DEF Tick, tables
<1>3. now \in Nat /\ now' \in Nat /\ now <= now' /\ now' \in 0 .. MaxNow /\ tracking.at \in -1 .. now
      /\ tracking.at \in -1 .. now' /\ tracking.at # now'
  BY <1>1, <1>2, ReportAssumption DEF OutboxTypes
<1>4. OutboxTypes'
  BY <1>1, <1>2, <1>3 DEF OutboxTypes
<1>5. Watched' /\ Accounted'
  BY <1>1, <1>2, <1>3 DEF Watched, Accounted
<1>6. MailsKept
  BY <1>1, <1>2, UntouchedKept
<1>7. \A n \in Names : Chain(n)'
  BY <1>1, <1>2, <1>3, <1>6, ChainKept
<1>8. \A id \in MailIds : MailFits(id)'
  BY <1>1, <1>2, <1>3, <1>6, MailFitsKept DEF MailsKept
<1>9. HandlerFits'
  BY <1>1, <1>2, <1>3, HandlerKept
<1> QED BY <1>4, <1>5, <1>7, <1>8, <1>9 DEF ReportInv

LEMMA RestartInv == ASSUME ReportInv, NEW e \in Settings, Restart(e) PROVE ReportInv'
<1>1. OutboxTypes /\ Watched /\ Accounted /\ (\A n \in Names : Chain(n)) /\ (\A id \in MailIds : MailFits(id))
  BY DEF ReportInv
<1>2. /\ tracking.at < now /\ env' = e /\ a' = Idle
      /\ barred' = barred \cup {id \in Pending : Forbidden(mail[id], e)}
      /\ UNCHANGED <<now, tracking, gaps, window, rows, created>>
  BY DEF Restart
<1>3. PICK P : P = Policy(e)
  OBVIOUS
<1>4. /\ P \in [MailIds -> Mails]
      /\ \A id \in MailIds :
           /\ P[id] = NoMail <=> mail[id] = NoMail
           /\ P[id].state = "none" => P[id] = NoMail
           /\ P[id].start = mail[id].start /\ P[id].count = mail[id].count
           /\ P[id].note = mail[id].note /\ P[id].to = mail[id].to /\ P[id].sentTo = mail[id].sentTo
           /\ mail[id].state = "cancelled" => P[id].state = "cancelled"
           /\ mail[id].state = "pending" /\ Forbidden(mail[id], e) => P[id].state = "cancelled"
  BY <1>1, <1>3, PolicyKeeps
<1>5. mail' = P
  BY <1>3 DEF Restart
<1>6. \A id \in MailIds : id \in barred' => P[id].state = "cancelled"
  BY <1>1, <1>2, <1>4 DEF MailFits, Pending
<1>7. \A id \in MailIds : mail[id].sentTo \subseteq {mail[id].to}
  BY <1>1 DEF MailFits
<1>8. MailsKept
  BY <1>4, <1>5, <1>6, <1>7 DEF MailsKept, MailKept
<1>9. barred' \subseteq MailIds
  BY <1>1, <1>2 DEF OutboxTypes, Pending
<1>10. OutboxTypes'
  BY <1>1, <1>2, <1>8, <1>9, IdleFits DEF OutboxTypes, MailsKept
<1>11. tracking.at # now /\ now \in Nat /\ now <= now
  BY <1>1, <1>2, ReportAssumption DEF OutboxTypes
<1>12. Watched' /\ Accounted'
  BY <1>1, <1>2, <1>11 DEF Watched, Accounted
<1>13. \A n \in Names : Chain(n)'
  BY <1>1, <1>2, <1>8, <1>11, ChainKept
<1>14. \A id \in MailIds : MailFits(id)'
  BY <1>1, <1>2, <1>8, <1>11, MailFitsKept DEF MailsKept
<1>15. HandlerFits'
  BY <1>2, HandlerFree DEF Idle
<1> QED BY <1>10, <1>12, <1>13, <1>14, <1>15 DEF ReportInv

\* cleanup drops what no window begins after.
LEMMA CleanupKeeps ==
  ASSUME OutboxTypes, Accounted, Cleanup, UNCHANGED <<created, window>>
  PROVE  /\ rows' \subseteq rows /\ gaps' \subseteq gaps
         /\ \A g \in gaps : g.end = Null => g \in gaps'
         /\ Accounted'
<1> DEFINE starts == {window[n].start : n \in Names}
<1>1. PICK s : s = Min(starts)
  OBVIOUS
<1>2. \A n \in Names : window[n].start \in Int
  BY DEF OutboxTypes, WindowRecords, NoWindow, Null
<1>3. \E x \in starts : \A y \in starts : x <= y
  <2>1. Hourly \in Names /\ Count \in Names /\ starts = {window[Hourly].start, window[Count].start}
    BY DEF Names
  <2>2. window[Hourly].start <= window[Count].start \/ window[Count].start <= window[Hourly].start
    BY <1>2, <2>1
  <2>3. window[Hourly].start <= window[Hourly].start /\ window[Count].start <= window[Count].start
    BY <1>2, <2>1
  <2> HIDE DEF starts
  <2> QED BY <2>1, <2>2, <2>3
<1>4. s \in starts /\ \A y \in starts : s <= y
  BY <1>1, <1>3 DEF Min
<1>5. s \in Int /\ \A n \in Names : s <= window[n].start
  BY <1>2, <1>4
<1>6. rows' = {t \in rows : t >= s} /\ gaps' = {g \in gaps : g.end = Null \/ g.end > s}
  BY <1>1 DEF Cleanup
<1>7. ASSUME NEW n \in Names, NEW t \in created, window[n].start <= t
      PROVE  t \in rows' \/ Covered(gaps', t)
  <2>1. t \in Int
    BY DEF OutboxTypes
  <2>2. s <= t
    BY <1>2, <1>5, <1>7, <2>1
  <2>3. CASE t \in rows
    BY <1>5, <1>6, <2>1, <2>2, <2>3
  <2>4. CASE Covered(gaps, t)
    <3>1. PICK g \in gaps : g.start <= t /\ (g.end = Null \/ t < g.end)
      BY <2>4 DEF Covered
    <3>2. g.end = Null \/ g.end \in Int
      BY DEF OutboxTypes, GapRecords
    <3>3. g \in gaps'
      BY <1>5, <1>6, <2>1, <2>2, <3>1, <3>2
    <3> QED BY <3>1, <3>3 DEF Covered
  <2> QED BY <1>7, <2>3, <2>4 DEF Accounted
<1>8. Accounted'
  BY <1>7 DEF Accounted
<1> QED BY <1>6, <1>8

LEMMA AlarmEndsInv == ReportInv /\ AlarmEnds => ReportInv'
<1> SUFFICES ASSUME ReportInv, AlarmEnds PROVE ReportInv'
  OBVIOUS
<1>1. OutboxTypes /\ Watched /\ Accounted /\ (\A n \in Names : Chain(n)) /\ (\A id \in MailIds : MailFits(id))
  BY DEF ReportInv
<1>2. Cleanup /\ a' = Idle /\ UNCHANGED <<env, now, tracking, window, mail, created, barred>>
  BY DEF AlarmEnds
<1>3. rows' \subseteq rows /\ gaps' \subseteq gaps /\ (\A g \in gaps : g.end = Null => g \in gaps') /\ Accounted'
  BY <1>1, <1>2, CleanupKeeps
<1>4. OutboxTypes'
  BY <1>1, <1>2, <1>3, IdleFits DEF OutboxTypes
<1>5. Watched'
  BY <1>1, <1>2, <1>3 DEF Watched, OpenGap
<1>6. (\A n \in Names : Chain(n)') /\ (\A id \in MailIds : MailFits(id)')
  BY <1>1, <1>2 DEF Chain, MailFits
<1>7. HandlerFits'
  BY <1>2, HandlerFree DEF Idle
<1> QED BY <1>3, <1>4, <1>5, <1>6, <1>7 DEF ReportInv

-----------------------------------------------------------------------------

\* What every event of the gate begins with.
LEMMA EnsureStep ==
  ASSUME ReportInv, Observe, window' = [n \in Names |-> Opened(n)], MailsKept,
         env' = env, now' = now, barred' = barred,
         \/ created' = created /\ rows' = rows
         \/ created' = created \cup {now} /\ rows' = IF env.on THEN rows \cup {now} ELSE rows
  PROVE  /\ \A n \in Names : window[n] # NoWindow => window'[n] = window[n]
         /\ a' \in Handlers /\ HandlerFits' => ReportInv'
<1>1. OutboxTypes /\ Watched /\ Accounted /\ (\A n \in Names : Chain(n)) /\ (\A id \in MailIds : MailFits(id))
  BY DEF ReportInv
<1>2. \A n \in Names : /\ window'[n] \in {NoWindow} \cup WindowRecords
                       /\ window[n].start <= window'[n].start
                       /\ window[n] # NoWindow => window'[n] = window[n]
                       /\ Chain(n)'
  BY <1>1, OpenedKeeps
<1>3. window' \in [Names -> {NoWindow} \cup WindowRecords]
  BY <1>2
<1>4. /\ tracking' \in [on: BOOLEAN, at: Int] /\ tracking'.at = now
      /\ gaps' \subseteq GapRecords /\ created' \subseteq 0 .. now /\ rows' \subseteq created'
      /\ Watched' /\ Accounted'
  BY <1>1, <1>2, <1>3, ObserveKeeps
<1>5. now \in Nat /\ now' \in Nat /\ now <= now' /\ now \in -1 .. now
  BY <1>1, ReportAssumption DEF OutboxTypes
<1>6. ASSUME a' \in Handlers PROVE OutboxTypes'
  BY <1>1, <1>3, <1>4, <1>5, <1>6 DEF OutboxTypes, MailsKept
<1>7. \A id \in MailIds : MailFits(id)'
  BY <1>1, <1>5, MailFitsKept DEF MailsKept
<1> QED BY <1>2, <1>4, <1>6, <1>7 DEF ReportInv

LEMMA CreateInv == ReportInv /\ Create => ReportInv'
<1> SUFFICES ASSUME ReportInv, Create PROVE ReportInv'
  OBVIOUS
<1>1. OutboxTypes /\ HandlerFits /\ (\A id \in MailIds : MailFits(id)) /\ Hourly \in Names
      /\ now \in Nat /\ a \in Handlers
  BY ReportAssumption DEF ReportInv, OutboxTypes, Names
<1>2. /\ Observe /\ window' = [n \in Names |-> Opened(n)] /\ UNCHANGED <<env, now, a, barred>>
      /\ created' = created \cup {now} /\ rows' = IF env.on THEN rows \cup {now} ELSE rows
      /\ mail' = mail \/ mail' = Policy(env)
  BY DEF Create, Ensure
<1>3. MailsKept /\ \A id \in MailIds : mail'[id].to = mail[id].to
  BY <1>1, <1>2, UntouchedKept, PolicyMailsKept
<1>4. /\ \A n \in Names : window[n] # NoWindow => window'[n] = window[n]
      /\ a' \in Handlers /\ HandlerFits' => ReportInv'
  BY <1>2, <1>3, EnsureStep
<1>5. \A id \in MailIds : mail[id].state # "none" => mail'[id].state # "none"
  BY <1>3 DEF MailsKept, MailKept, NoMail
<1>6. now <= now'
  BY <1>1, <1>2
<1>7. HandlerFits'
  BY <1>1, <1>2, <1>3, <1>4, <1>5, <1>6, HandlerKept
<1> QED BY <1>1, <1>2, <1>4, <1>7

LEMMA AlarmFiresInv == ReportInv /\ AlarmFires => ReportInv'
<1> SUFFICES ASSUME ReportInv, AlarmFires PROVE ReportInv'
  OBVIOUS
<1>1. OutboxTypes /\ (\A id \in MailIds : MailFits(id)) /\ a \in Handlers
  BY DEF ReportInv, OutboxTypes
<1>2. /\ Observe /\ window' = [n \in Names |-> Opened(n)] /\ UNCHANGED <<env, now, rows, created, barred>>
      /\ mail' = Policy(env)
      /\ a.pc = "idle" /\ (a' = a \/ a' = [Idle EXCEPT !.pc = "recover"])
  BY DEF AlarmFires, Ensure
<1>3. a' \in Handlers /\ HandlerFits'
  <2>1. a' \in Handlers /\ a'.pc \in {"idle", "recover"}
    BY <1>1, <1>2, IdleFits DEF AlarmStates
  <2> QED BY <2>1, HandlerFree
<1>4. MailsKept
  BY <1>1, <1>2, PolicyMailsKept
<1> QED BY <1>2, <1>3, <1>4, EnsureStep

LEMMA RecoveredInv == ReportInv /\ Recovered => ReportInv'
<1> SUFFICES ASSUME ReportInv, Recovered PROVE ReportInv'
  OBVIOUS
<1>1. OutboxTypes /\ Accounted /\ (\A id \in MailIds : MailFits(id)) /\ Hourly \in Names
  BY DEF ReportInv, Names
<1>2. /\ Observe /\ window' = [n \in Names |-> Opened(n)]
      /\ UNCHANGED <<env, now, rows, mail, created, barred>>
  BY DEF Recovered, Ensure
<1>3. MailsKept
  BY <1>1, <1>2, UntouchedKept
<1>4. /\ \A n \in Names : window[n] # NoWindow => window'[n] = window[n]
      /\ a' \in Handlers /\ HandlerFits' => ReportInv'
  BY <1>2, <1>3, EnsureStep
<1>5. CASE ~Due(Hourly)
  <2>1. a' = [Idle EXCEPT !.pc = "deliver"]
    BY <1>5 DEF Recovered
  <2> QED BY <1>4, <2>1, IdleFits, HandlerFree DEF AlarmStates
<1>6. CASE Due(Hourly)
  <2>1. window[Hourly] # NoWindow /\ window[Hourly].end <= now
    BY <1>6 DEF Due
  <2>2. PICK count, note : count = CountRows(window[Hourly]) /\ note = Incomplete(window[Hourly])
    OBVIOUS
  <2>3. /\ count \in Nat /\ note \in BOOLEAN
        /\ Honest(created, window[Hourly].start, window[Hourly].end, count, note)
    <3>1. /\ CountRows(window[Hourly]) \in Nat
          /\ Honest(created, window[Hourly].start, window[Hourly].end, CountRows(window[Hourly]),
                    Incomplete(window[Hourly]))
      BY <1>1, <2>1, CountHonest
    <3>2. Incomplete(window[Hourly]) \in BOOLEAN
      BY DEF Incomplete
    <3> QED BY <2>2, <3>1, <3>2
  <2>4. a' = [Idle EXCEPT !.pc = "prepare", !.id = <<Hourly, window[Hourly].end>>, !.count = count, !.note = note]
    BY <1>6, <2>2 DEF Recovered
  <2>5. <<Hourly, window[Hourly].end>> \in Names \X Nat
    BY <1>1, <2>1 DEF OutboxTypes, WindowRecords
  <2>6. a' \in Handlers /\ a'.pc = "prepare" /\ a'.count = count /\ a'.note = note
    <3>1. PICK i : i = <<Hourly, window[Hourly].end>>
      OBVIOUS
    <3>2. a' = [Idle EXCEPT !.pc = "prepare", !.id = i, !.count = count, !.note = note]
      BY <2>4, <3>1
    <3> QED BY <2>3, <2>5, <3>1, <3>2 DEF Idle, Handlers, AlarmStates
  <2>7. HandlerFits'
    <3>1. window'[Hourly] = window[Hourly] /\ now' = now /\ created' = created
      BY <1>1, <1>2, <1>4, <2>1
    <3> QED BY <2>1, <2>3, <2>6, <3>1 DEF HandlerFits, Serving
  <2> QED BY <1>4, <2>6, <2>7
<1> QED BY <1>5, <1>6

LEMMA PreparedInv == ReportInv /\ Prepared => ReportInv'
<1> SUFFICES ASSUME ReportInv, Prepared PROVE ReportInv'
  OBVIOUS
<1>1. OutboxTypes /\ Watched /\ Accounted /\ (\A n \in Names : Chain(n)) /\ (\A id \in MailIds : MailFits(id))
      /\ HandlerFits /\ Hourly \in Names /\ a \in Handlers
  BY DEF ReportInv, Names, OutboxTypes
<1>2. /\ a.pc = "prepare" /\ a' = [Idle EXCEPT !.pc = "deliver"]
      /\ UNCHANGED <<env, now, tracking, gaps, rows, created, barred>>
  BY DEF Prepared
<1>3. PICK sensitive \in BOOLEAN : CompleteWindow(Hourly, a.count, a.note, sensitive)
  <2>1. Contents \subseteq BOOLEAN
    BY <1>1, ReportAssumption DEF Contents, OutboxTypes, Setting
  <2> QED BY <2>1 DEF Prepared
<1>4. PICK count, note : count = a.count /\ note = a.note
  OBVIOUS
<1>5. /\ count \in Nat /\ note \in BOOLEAN /\ window[Hourly] # NoWindow /\ window[Hourly].end <= now
      /\ Honest(created, window[Hourly].start, window[Hourly].end, count, note)
  BY <1>1, <1>2, <1>4 DEF HandlerFits, Handlers
<1>6. CompleteWindow(Hourly, count, note, sensitive)
  BY <1>3, <1>4
<1>7. /\ mail' \in [MailIds -> Mails] /\ \A id \in MailIds : MailFits(id)'
      /\ window' \in [Names -> {NoWindow} \cup WindowRecords]
      /\ \A m \in Names : window[m].start <= window'[m].start
      /\ \A m \in Names : Chain(m)'
  BY <1>1, <1>2, <1>5, <1>6, CompleteKeeps
<1>8. a' \in Handlers /\ HandlerFits'
  BY <1>2, IdleFits, HandlerFree DEF AlarmStates
<1>9. OutboxTypes'
  BY <1>1, <1>2, <1>7, <1>8 DEF OutboxTypes
<1>10. Watched'
  BY <1>1, <1>2 DEF Watched
<1>11. Accounted'
  <2>1. ASSUME NEW n \in Names, NEW t \in created, window'[n].start <= t
        PROVE  t \in rows \/ Covered(gaps, t)
    <3>1. t \in Int /\ window[n].start \in Int /\ window'[n].start \in Int
      BY <1>1, <1>7 DEF OutboxTypes, WindowRecords, NoWindow, Null
    <3>2. window[n].start <= t
      BY <1>7, <2>1, <3>1
    <3> QED BY <1>1, <3>2 DEF Accounted
  <2> QED BY <1>2, <2>1 DEF Accounted
<1> QED BY <1>7, <1>8, <1>9, <1>10, <1>11 DEF ReportInv

LEMMA CronInv == ReportInv /\ Cron => ReportInv'
<1> SUFFICES ASSUME ReportInv, Cron PROVE ReportInv'
  OBVIOUS
<1>1. OutboxTypes /\ Watched /\ Accounted /\ (\A n \in Names : Chain(n)) /\ (\A id \in MailIds : MailFits(id))
      /\ HandlerFits /\ Hourly \in Names /\ Count \in Names /\ Hourly # Count /\ a \in Handlers /\ now \in Nat
  BY ReportAssumption DEF ReportInv, Names, Hourly, Count, OutboxTypes
<1>2. Observe /\ UNCHANGED <<env, now, rows, a, created, barred>>
  BY DEF Cron, CountReport
<1>3. CASE ~Due(Count)
  <2>1. window' = [n \in Names |-> Opened(n)] /\ mail' = mail
    BY <1>3 DEF Cron, CountReport
  <2>2. MailsKept
    BY <1>1, <1>2, <2>1, UntouchedKept
  <2>3. /\ \A n \in Names : window[n] # NoWindow => window'[n] = window[n]
        /\ a' \in Handlers /\ HandlerFits' => ReportInv'
    BY <1>2, <2>1, <2>2, EnsureStep
  <2>4. now <= now' /\ now' \in Nat
    BY <1>1, <1>2
  <2>5. HandlerFits'
    BY <1>1, <1>2, <2>1, <2>3, <2>4, HandlerKept
  <2> QED BY <1>1, <1>2, <2>3, <2>5
<1>4. CASE Due(Count)
  <2>1. window[Count] # NoWindow /\ window[Count].end <= now
    BY <1>4 DEF Due
  <2>2. PICK count, note : count = CountRows(window[Count]) /\ note = Incomplete(window[Count])
    OBVIOUS
  <2>3. /\ count \in Nat /\ note \in BOOLEAN
        /\ Honest(created, window[Count].start, window[Count].end, count, note)
    <3>1. /\ CountRows(window[Count]) \in Nat
          /\ Honest(created, window[Count].start, window[Count].end, CountRows(window[Count]),
                    Incomplete(window[Count]))
      BY <1>1, <2>1, CountHonest
    <3>2. Incomplete(window[Count]) \in BOOLEAN
      BY DEF Incomplete
    <3> QED BY <2>2, <3>1, <3>2
  <2>4. CompleteWindow(Count, count, note, FALSE)
    BY <1>4, <2>2 DEF Cron, CountReport
  <2>5. /\ mail' \in [MailIds -> Mails] /\ \A id \in MailIds : MailFits(id)'
        /\ \A id \in MailIds : mail[id] # NoMail => mail'[id] = mail[id]
        /\ window' \in [Names -> {NoWindow} \cup WindowRecords]
        /\ \A m \in Names : window[m].start <= window'[m].start /\ (m # Count => window'[m] = window[m])
        /\ \A m \in Names : Chain(m)'
    BY <1>1, <1>2, <2>1, <2>3, <2>4, CompleteKeeps
  <2>6. /\ tracking' \in [on: BOOLEAN, at: Int] /\ tracking'.at = now
        /\ gaps' \subseteq GapRecords /\ created' \subseteq 0 .. now /\ rows' \subseteq created'
        /\ Watched' /\ Accounted'
    BY <1>1, <1>2, <2>5, ObserveKeeps
  <2>7. now <= now' /\ now' \in Nat /\ now \in -1 .. now
    BY <1>1, <1>2
  <2>8. OutboxTypes'
    BY <1>1, <1>2, <2>5, <2>6, <2>7 DEF OutboxTypes
  <2>9. \A id \in MailIds : mail[id].state # "none" => mail'[id].state # "none" /\ mail'[id].to = mail[id].to
    BY <2>5 DEF NoMail
  <2>10. window'[Hourly] = window[Hourly]
    BY <1>1, <2>5
  <2>11. HandlerFits'
    BY <1>1, <1>2, <2>7, <2>9, <2>10, HandlerKept
  <2> QED BY <2>5, <2>6, <2>8, <2>11 DEF ReportInv
<1> QED BY <1>3, <1>4

LEMMA ReportStepInv == ReportInv /\ [Next]_vars => ReportInv'
<1> SUFFICES ASSUME ReportInv, [Next]_vars PROVE ReportInv'
  OBVIOUS
<1>1. CASE UNCHANGED vars
  BY <1>1 DEF vars, tables, ReportInv, OutboxTypes, Watched, Accounted, Chain, MailFits, HandlerFits
<1>2. CASE Next
  BY <1>2, CreateInv, CronInv, AlarmFiresInv, RecoveryFailsInv, RecoveredInv, PreparedInv,
     WindowRetryInv, PickInv, MailDueInv, LookupInv, LastCheckInv, AnswerInv, AlarmEndsInv, TickInv,
     RestartInv DEF Next
<1> QED BY <1>1, <1>2

LEMMA ReportAlways == Spec => []ReportInv
<1> QED BY ReportInitInv, ReportStepInv, PTL DEF Spec

-----------------------------------------------------------------------------

LEMMA ReportTypeOK == ReportInv => TypeOK
<1> SUFFICES ASSUME ReportInv PROVE TypeOK
  OBVIOUS
<1>1. OutboxTypes /\ Watched /\ (\A n \in Names : Chain(n)) /\ (\A id \in MailIds : MailFits(id))
  BY DEF ReportInv
<1>2. Cardinality({g \in gaps : g.end = Null}) <= 1
  <2>1. \E o : {g \in gaps : g.end = Null} \subseteq {o}
    BY <1>1 DEF Watched, OpenGap
  <2> QED BY <2>1, AtMostOne
<1>3. \A id \in MailIds : mail[id].state \in {"none", "silent", "pending", "sent", "cancelled"}
  BY <1>1 DEF OutboxTypes, Mails, MailStates
<1>4. a.pc \in {"idle", "recover", "prepare", "deliver", "lookup", "check", "sending"}
  BY <1>1 DEF OutboxTypes, Handlers, AlarmStates
<1>5. \A n \in Names : window[n] # NoWindow =>
       /\ window[n].start <= now /\ window[n].end % Interval[n] = 0
       /\ \A e \in 1 .. MaxNow : mail[<<n, e>>] # NoMail => e <= window[n].start
       /\ \/ \A e \in 1 .. MaxNow : mail[<<n, e>>] = NoMail
          \/ mail[<<n, window[n].start>>] # NoMail
  BY <1>1 DEF Chain
<1> QED BY <1>1, <1>2, <1>3, <1>4, <1>5 DEF TypeOK, OutboxTypes

\* A report counts no creation that was not made within its window, and all of them unless it
\* says that its count may be incomplete, for any settings, restarts, failed alarms and lost
\* answers (observe, incomplete, cleanup).
THEOREM CoverageIsHonest == Spec => []CoverageHonest
<1>1. ReportInv => CoverageHonest
  BY DEF ReportInv, MailFits, Honest, Between, CoverageHonest
<1> QED BY <1>1, ReportAlways, PTL

\* A report reaches one reader at most, and one that the settings forbade at a restart is never
\* taken up again, for any owners, settings, answers and timers (deliver, applyPolicy).
THEOREM ReadersAreRight == Spec => []RightReader
<1>1. ReportInv => RightReader
  <2> SUFFICES ASSUME ReportInv PROVE RightReader
    OBVIOUS
  <2>1. TypeOK
    BY ReportTypeOK
  <2>2. \A id \in MailIds : Cardinality(mail[id].sentTo) <= 1
    BY AtMostOne DEF ReportInv, MailFits
  <2>3. \A id \in barred : a.id = id => a.pc \notin {"lookup", "check", "sending"}
    BY DEF ReportInv, HandlerFits, Serving
  <2> QED BY <2>1, <2>2, <2>3 DEF RightReader
<1> QED BY <1>1, ReportAlways, PTL

=============================================================================
