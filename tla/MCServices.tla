------------------------------ MODULE MCServices ------------------------------
(* Small instances for TLC of what celld does besides answering requests: the *)
(* jobs of a managed resource, the replica of its record in the catalog, the  *)
(* links of chats and wikis that are retried, and the stream of a summary.    *)
(* They share no variable, so one run checks them side by side: a behaviour   *)
(* is one of the part it was started for, the others stay at rest.            *)
EXTENDS ResourceLifecycle, CatalogReplica, SpaceLinks, SummaryStream

VARIABLE part
serviceVars == <<part, vars, catVars, linkVars, summaryVars>>

\* Process loss between requests, at any storage call, after any step and before
\* the last alarm is set.  One between the first awaits of a handler ("armed",
\* "step") leaves what one at "off" leaves, but needs an assumption that it does not
\* strike each time; one at "disarmed" strands the job (ResourceLifecycleLost.cfg).
WhileArmed == {"off", "await", "more", "rearm"}

\* The step A of a part, which leaves the others alone.
On(p, A) ==
  /\ part = p /\ UNCHANGED part /\ A
  /\ IF p = "jobs" THEN TRUE ELSE UNCHANGED vars
  /\ IF p = "catalog" THEN TRUE ELSE UNCHANGED catVars
  /\ IF p = "links" THEN TRUE ELSE UNCHANGED linkVars
  /\ IF p = "summary" THEN TRUE ELSE UNCHANGED summaryVars

\* At rest: a resource without a job or an alarm, a record the catalog has, no
\* plan and no request; nothing is enabled that fairness would ask for.
JobsAtRest == Untouched /\ alarm = FALSE
CatalogAtRest ==
  /\ ver = 1 /\ dirty = 0 /\ due = "none" /\ owed = FALSE
  /\ push = NoPush /\ net = {} /\ stored = 1
ServicesInit ==
  /\ part \in {"jobs", "catalog", "links", "summary"}
  /\ LinksInit /\ SummaryInit
  /\ IF part = "jobs" THEN Init ELSE JobsAtRest
  /\ IF part = "catalog" THEN CatInit ELSE CatalogAtRest

JobSteps ==
  \/ On("jobs", TimePasses) \/ On("jobs", WriteStart("edit")) \/ On("jobs", WriteStart("upload"))
  \/ On("jobs", WriteCommit) \/ On("jobs", Visit) \/ On("jobs", CapabilityDelete)
  \/ On("jobs", AdminArchive) \/ On("jobs", AdminRestore) \/ On("jobs", AdminCancel)
  \/ On("jobs", AdminRetry) \/ On("jobs", AdminPolicy) \/ On("jobs", Fire) \/ On("jobs", Arm)
  \/ On("jobs", StepCall) \/ On("jobs", StepDone) \/ On("jobs", StepPut) \/ On("jobs", StepFail)
  \/ On("jobs", EndLoop) \/ On("jobs", Rearm) \/ On("jobs", Crash)

CatalogSteps ==
  \/ \E d \in {1, 2} : On("catalog", SaveRecord(d))
  \/ On("catalog", CatRest) \/ On("catalog", Flush) \/ On("catalog", CatAlarm)
  \/ \E v \in net : On("catalog", Register(v))
  \/ On("catalog", PushReplied) \/ On("catalog", PushFailed) \/ On("catalog", LoseProcess)

LinkSteps ==
  \/ \E p \in Plans :
       \/ On("links", BeginPlan(p)) \/ On("links", Retry(p)) \/ On("links", Abandon(p))
       \/ On("links", Look(p)) \/ On("links", New(p)) \/ On("links", Check(p))
       \/ On("links", Put(p)) \/ On("links", RequestFails(p))
  \/ \E r \in Resource : On("links", Vanish(r)) \/ \E t \in Resource : On("links", Remove(r, t))

SummarySteps ==
  \/ \E n \in Streams :
       \/ On("summary", Acquire(n)) \/ On("summary", Provider(n)) \/ On("summary", Delta(n))
       \/ On("summary", Finish(n)) \/ On("summary", Done(n)) \/ On("summary", Broken(n))
       \/ On("summary", Cancel(n)) \/ On("summary", ReaderEnds(n))
       \/ \E p \in Page : On("summary", Read(p, n))
  \/ \E p \in Page :
       \/ On("summary", Press(p)) \/ On("summary", Stop(p)) \/ On("summary", Lost(p))
       \/ On("summary", AnswerEnds(p))
  \/ On("summary", MinuteOld) \/ On("summary", Revoke)

\* Clients and readers may stop; jobs and the catalog go on.
MayStop == part \in {"links", "summary"} /\ UNCHANGED serviceVars

ServicesNext == JobSteps \/ CatalogSteps \/ LinkSteps \/ SummarySteps \/ MayStop
ServicesSpec ==
  /\ ServicesInit /\ [][ServicesNext]_serviceVars
  /\ Fairness /\ CatFairness /\ LinksFairness /\ SummaryFairness

=============================================================================
