------------------------------ MODULE SpaceLinks ------------------------------
(***************************************************************************)
(* Creating and linking a chat and a wiki from a client                     *)
(* (celld/browser/spaces.js, shared with the command line of                *)
(* celld/static/spaces.mjs; the page's form in celld/browser/spaces-ui.js;  *)
(* the records in celld/native/space-links.ts).  A plan is a sequence of    *)
(* requests to two objects that know nothing of each other; each may fail   *)
(* before or after it took effect, and a retry goes through the same plan   *)
(* again.                                                                   *)
(*                                                                         *)
(* Keys, seals and titles are left out; a record that cannot be opened is   *)
(* removed by its reader first.  A server that refuses wikis, and a chat    *)
(* that is encrypted, refuse a plan before its first write.                 *)
(***************************************************************************)
EXTENDS Integers, FiniteSets

CONSTANTS
  ChatIds, WikiIds,
  Plans,    \* runs of the form or of the command line
  First,    \* resources that exist at first
  MaxLinks, \* records one resource keeps (100)
  MaxCuts,  \* bound: shortcuts removed and resources lost
  MaxFails  \* bound: requests that fail

ASSUME LinksAssumption ==
  /\ ChatIds \cap WikiIds = {} /\ First \subseteq ChatIds \cup WikiIds
  /\ MaxLinks \in Nat \ {0} /\ MaxCuts \in Nat /\ MaxFails \in Nat

VARIABLES
  here,   \* resources that exist
  links,  \* linked_spaces: per resource, the companions it names
  plan,   \* per plan, its two resources, those to create and those it knows created
  at,     \* per plan, its next request and the side it goes to
  cut,    \* plans whose pair lost something since they last began
  made,   \* history: per plan, the resources its requests created
  cuts,   \* how many shortcuts were removed and resources lost
  fails   \* how many requests failed

linkVars == <<here, links, plan, at, cut, made, cuts, fails>>

Resource == ChatIds \cup WikiIds
Sides == {"chat", "wiki"}
Across(side) == IF side = "chat" THEN "wiki" ELSE "chat"
At(step, side) == [step |-> step, side |-> side]
Rest(step) == At(step, "chat")

NoPlan == [chat |-> "none", wiki |-> "none", create |-> {}, created |-> {}]
Running(p) == at[p].step \in {"look", "new", "check", "put"}
Own(p) == plan[p][at[p].side]
Other(p) == plan[p][Across(at[p].side)]

LinksInit ==
  /\ here = First /\ links = [r \in Resource |-> {}]
  /\ plan = [p \in Plans |-> NoPlan] /\ at = [p \in Plans |-> Rest("none")]
  /\ cut = {} /\ made = [p \in Plans |-> {}] /\ cuts = 0 /\ fails = 0

Known == UNION {{plan[p].chat, plan[p].wiki} : p \in Plans} \cup First

-----------------------------------------------------------------------------
(* plan and complete: a plan and its retries *)

\* A resource of the plan that is to be created has a new key, hence a new ID.
NewPlan(p, c, w) ==
  /\ ({c, w} \ here) \cap Known = {}
  /\ plan' = [plan EXCEPT ![p] = [chat |-> c, wiki |-> w, create |-> {c, w} \ here,
                                  created |-> {}]]
  /\ at' = [at EXCEPT ![p] = At("look", "chat")] /\ cut' = cut \ {p}

\* plan, link and their commands: a chat and a wiki, existing or to be created.
BeginPlan(p) ==
  /\ at[p].step = "none"
  /\ \E c \in ChatIds, w \in WikiIds : NewPlan(p, c, w)
  /\ UNCHANGED <<here, links, made, cuts, fails>>

\* Names with a suffix are plausible mistakes, used to test the properties.

\* Every submit of the form makes a new plan.
Retry_Anew(p) ==
  /\ at[p].step = "failed"
  /\ \E c \in ChatIds, w \in WikiIds : NewPlan(p, c, w)
  /\ UNCHANGED <<here, links, made, cuts, fails>>
\* The form is submitted again, or the recovery file resumed: the same resources.
Retry(p) ==
  /\ at[p].step = "failed" /\ at' = [at EXCEPT ![p] = At("look", "chat")]
  /\ cut' = cut \ {p}
  /\ UNCHANGED <<here, links, plan, made, cuts, fails>>

\* The page or the recovery file is gone.
Abandon(p) ==
  /\ Running(p) \/ at[p].step = "failed"
  /\ at' = [at EXCEPT ![p] = Rest("gone")]
  /\ UNCHANGED <<here, links, plan, cut, made, cuts, fails>>

\* The requests that follow one that succeeded.
AfterEnsure(p) ==
  IF at[p].side = "chat" THEN At("look", "wiki") ELSE At("put", "chat")
\* The link is done when one side is written.
AfterPut_OneSide(p) == Rest("done")
AfterPut(p) == IF at[p].side = "chat" THEN At("put", "wiki") ELSE Rest("done")

ToCreate(p) == Own(p) \in plan[p].create \ plan[p].created
\* ensure notes what it created, a read of an existing resource notes nothing.
Noted(p) == IF ToCreate(p) THEN [plan EXCEPT ![p].created = @ \cup {Own(p)}] ELSE plan

\* metadata: a resource that answers is ready, a missing one is created if the
\* plan says so and has not done it before.
Look(p) ==
  /\ at[p].step = "look"
  /\ IF Own(p) \in here THEN at' = [at EXCEPT ![p] = AfterEnsure(p)] /\ plan' = Noted(p)
     ELSE /\ at' = [at EXCEPT ![p] = IF ToCreate(p) THEN At("new", at[p].side) ELSE Rest("failed")]
          /\ UNCHANGED plan
  /\ UNCHANGED <<here, links, cut, made, cuts, fails>>

\* The request creates the resource; 409 says that it exists.
Created(p) ==
  /\ here' = here \cup {Own(p)}
  /\ made' = [made EXCEPT ![p] = @ \cup ({Own(p)} \ here)]
New(p) ==
  /\ at[p].step = "new" /\ Created(p)
  /\ at' = [at EXCEPT ![p] = At("check", at[p].side)]
  /\ UNCHANGED <<links, plan, cut, cuts, fails>>

\* ensure reads the resource again before it believes the answer.
Check(p) ==
  /\ at[p].step = "check"
  /\ IF Own(p) \in here THEN at' = [at EXCEPT ![p] = AfterEnsure(p)] /\ plan' = Noted(p)
     ELSE at' = [at EXCEPT ![p] = Rest("failed")] /\ UNCHANGED plan
  /\ UNCHANGED <<here, links, cut, made, cuts, fails>>

\* spaceLinks refuses a record it has.
Accepts_Once(p) == Other(p) \notin links[Own(p)] /\ Cardinality(links[Own(p)]) < MaxLinks
\* spaceLinks: a record it has is answered again, a new one is kept up to the limit.
Accepts(p) ==
  Other(p) \in links[Own(p)] \/ Cardinality(links[Own(p)]) < MaxLinks

\* link: both resources answer before the first write.
Writable(p) ==
  /\ Own(p) \in here /\ Accepts(p)
  /\ at[p].side = "chat" => Other(p) \in here
PutLink(p) == links' = [links EXCEPT ![Own(p)] = @ \cup {Other(p)}]
Put(p) ==
  /\ at[p].step = "put"
  /\ IF Writable(p) THEN PutLink(p) /\ at' = [at EXCEPT ![p] = AfterPut(p)]
     ELSE at' = [at EXCEPT ![p] = Rest("failed")] /\ UNCHANGED links
  /\ UNCHANGED <<here, plan, cut, made, cuts, fails>>

\* A request fails or times out, without an effect or after it.
RequestFails(p) ==
  /\ fails < MaxFails /\ fails' = fails + 1
  /\ Running(p) /\ at' = [at EXCEPT ![p] = Rest("failed")]
  /\ \/ UNCHANGED <<here, links, made>>
     \/ at[p].step = "new" /\ Created(p) /\ UNCHANGED links
     \/ at[p].step = "put" /\ Writable(p) /\ PutLink(p) /\ UNCHANGED <<here, made>>
  /\ UNCHANGED <<plan, cut, cuts>>

-----------------------------------------------------------------------------
(* The surroundings *)

Concerns(p, r) == r \in {plan[p].chat, plan[p].wiki}

\* remove: a reader of r removes its shortcut to t; the other side keeps its own.
Remove(r, t) ==
  /\ cuts < MaxCuts /\ t \in links[r] /\ cuts' = cuts + 1
  /\ links' = [links EXCEPT ![r] = @ \ {t}]
  /\ cut' = cut \cup {p \in Plans : Concerns(p, r) /\ Concerns(p, t)}
  /\ UNCHANGED <<here, plan, at, made, fails>>

\* A resource expires or is deleted, and its records with it (clearSpaceLinks).
Vanish(r) ==
  /\ cuts < MaxCuts /\ r \in here /\ cuts' = cuts + 1
  /\ here' = here \ {r} /\ links' = [links EXCEPT ![r] = {}]
  /\ cut' = cut \cup {p \in Plans : Concerns(p, r)}
  /\ UNCHANGED <<plan, at, made, fails>>

LinksNext ==
  \/ \E p \in Plans : BeginPlan(p) \/ Retry(p) \/ Abandon(p) \/ Look(p) \/ New(p) \/ Check(p)
                      \/ Put(p) \/ RequestFails(p)
  \/ \E r \in Resource : Vanish(r) \/ \E t \in Resource : Remove(r, t)

LinksSpec == LinksInit /\ [][LinksNext]_linkVars

-----------------------------------------------------------------------------
(* Properties *)

LinksTypeOK ==
  /\ here \subseteq Resource /\ cut \subseteq Plans /\ cuts \in 0 .. MaxCuts
  /\ \A r \in Resource : links[r] \subseteq Resource /\ Cardinality(links[r]) <= MaxLinks
  /\ \A p \in Plans : plan[p].created \subseteq plan[p].create

\* Linked both ways: a plan that reports success has both records, and a record
\* on one side only belongs to a plan that is not finished, was given up, or
\* lost something to a removal or an expiry since it last began.  However often
\* it is retried, a plan creates no second resource of a kind ("Retry to finish
\* the same resources", celld/browser/spaces-ui.js).
LinkedBothWays ==
  /\ LinksTypeOK
  /\ \A c \in ChatIds, w \in WikiIds : (w \in links[c]) # (c \in links[w]) =>
       \E p \in Plans : /\ plan[p].chat = c /\ plan[p].wiki = w
                        /\ p \in cut \/ at[p].step # "done"
  /\ \A p \in Plans : at[p].step = "done" /\ p \notin cut =>
       plan[p].wiki \in links[plan[p].chat] /\ plan[p].chat \in links[plan[p].wiki]
  /\ \A p \in Plans : Cardinality(made[p] \cap ChatIds) <= 1 /\ Cardinality(made[p] \cap WikiIds) <= 1

\* A plan that no retry can finish: given up, a side that is missing and not to
\* be created (any more), or a side without room.
Stuck(p, r, t) ==
  \/ r \notin here /\ r \notin plan[p].create \ plan[p].created
  \/ t \notin links[r] /\ Cardinality(links[r]) >= MaxLinks
Hopeless(p) ==
  \/ at[p].step = "gone"
  \/ Stuck(p, plan[p].chat, plan[p].wiki) \/ Stuck(p, plan[p].wiki, plan[p].chat)

\* A plan that is retried is finished, whatever its requests left behind
\* ("retries repair one-sided links").
LinkRepaired == []<>(\A p \in Plans : at[p].step \in {"none", "done"} \/ Hopeless(p))

\* The form is submitted again, and a request that does not fail is answered;
\* a plan has one of these to wait for at a time.
LinksFairness ==
  \A p \in Plans : WF_linkVars(Retry(p) \/ Look(p) \/ New(p) \/ Check(p) \/ Put(p))

=============================================================================
