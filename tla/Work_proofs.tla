------------------------------- MODULE Work_proofs -------------------------------
(***************************************************************************)
(* The work on an issue: its dispatch, the agent calls, and the checks of a  *)
(* change.                                                                   *)
(*                                                                           *)
(* Backlog: the service makes one run of an issue, for any number of issues,  *)
(* workers, processes by hand, edits and crashes.                            *)
(*                                                                           *)
(* AgentCall: a cancelled child is signalled, a stop holds at the next step of the   *)
(* run, and the newest note is not lost, for any number of drives, steps,     *)
(* notes, stop requests, stalls and crashes.                                 *)
(*                                                                           *)
(* ScopeRules and AttemptChecks: a published change was cleared, for every    *)
(* set of modules, every limit on the files of a change, and any number of    *)
(* attempts and replans; and a tree is reviewed as it was verified, for any   *)
(* number of attempts, crashes and restarts.                                 *)
(***************************************************************************)
EXTENDS Backlog, AgentCall, AttemptChecks, ScopeRules, FiniteSetTheorems, TLAPS

-----------------------------------------------------------------------------
(* The dispatch: Backlog *)

\* A process of `factory run` is not the service.
ServiceIsNoHand == "service" \notin Hands

Ids == Items \cup {AdHoc}

Issue == [open : BOOLEAN, ready : BOOLEAN, labels : SUBSET Labels, there : BOOLEAN]
Job == [by : {"none", "service"} \cup Hands, item : Ids, id : Ids,
        step : {"none", "starting", "locked", "saved", "working", "ended"}]
Run == [state : {"none", "created"} \cup Finished, lease : {"none", "service"} \cup Hands]
Service == [step : {"down", "recovering", "idle", "selected", "revalidated"},
            active : SUBSET Items, escalated : SUBSET Ids, abandoned : SUBSET Jobs]
Tick == [left : SUBSET Items, batch : SUBSET Items, fresh : SUBSET Items,
         known : SUBSET Ids, labels : [Items -> SUBSET Labels]]

TypeOK ==
  /\ issues \in [Items -> Issue]
  /\ jobs \in [Jobs -> Job]
  /\ runs \in [Jobs -> Run]
  /\ scheduler \in Service
  /\ tick \in Tick

-----------------------------------------------------------------------------
(* The inductive invariant                                                 *)

Live(j) == Running(j) \/ runs[j].state # "none"
Serves(j) == jobs[j].by = "service"

\* The work item of a run of the service is the issue's: that is what a stored run hides.
KnowsItsIssue == \A j \in Jobs : Serves(j) => jobs[j].id = jobs[j].item

\* Runs belong to started jobs, and recovery is of stored runs.
RunsHaveJobs ==
  /\ \A j \in Jobs : jobs[j].step = "none" => runs[j].state = "none"
  /\ \A j \in scheduler.abandoned : runs[j].state # "none"

\* The slot of an issue is taken while a worker has the issue.
WorkersAreActive == \A j \in Jobs : Serves(j) /\ Running(j) => jobs[j].item \in scheduler.active

\* Nothing is taken over from one cycle, or one life, of the scheduler to the next.
CyclesAreApart ==
  /\ scheduler.step \in {"down", "recovering", "idle"} => tick.left = {} /\ tick.batch = {}
  /\ scheduler.step = "down" => scheduler.active = {}

\* What a cycle may still claim has no run of the service.
CandidatesAreNew ==
  \A i \in (tick.left \cup tick.batch) \ scheduler.active :
    \A j \in Jobs : Serves(j) /\ jobs[j].item = i => runs[j].state = "none"

\* An issue has one job that runs or left a run.
OneLiveJob ==
  \A j, k \in Jobs :
    Serves(j) /\ Serves(k) /\ jobs[j].item = jobs[k].item /\ Live(j) /\ Live(k) => j = k

BacklogInv ==
  /\ TypeOK /\ KnowsItsIssue /\ RunsHaveJobs /\ WorkersAreActive /\ CyclesAreApart
  /\ CandidatesAreNew /\ OneLiveJob

-----------------------------------------------------------------------------
(* Types *)

LEMMA NoTickIsTick == NoTick \in Tick
BY DEF NoTick, Tick

LEMMA TypeInitially == BacklogInit => TypeOK
<1>1. NoJob \in Job /\ NoRun \in Run
  BY DEF NoJob, NoRun, Job, Run, Ids
<1>2. QED
  BY <1>1, NoTickIsTick DEF BacklogInit, TypeOK, Issue, Service

LEMMA StoredIds == TypeOK => Stored \in SUBSET Ids
BY DEF TypeOK, Stored, Job

LEMMA FirstAreOf == ASSUME NEW S, NEW n PROVE FirstOf(S, n) \subseteq S
BY DEF FirstOf

\* The issues that a worker still has, when a cycle begins.
Selected == {i \in scheduler.active : Working(i)}

\* A cycle with no slot left only drops what ended; another one selects among the candidates.
LEMMA SelectCases ==
  SelectCandidates =>
    \/ scheduler' = [scheduler EXCEPT !.active = Selected] /\ UNCHANGED tick
    \/ /\ scheduler' = [scheduler EXCEPT !.active = Selected, !.step = "selected"]
       /\ tick' = [NoTick EXCEPT !.left = {i \in Candidates : Eligible(i, Stored)},
                                 !.labels = [i \in Items |-> issues[i].labels]]
BY DEF SelectCandidates, Selected

\* What a worker or a process does to its run and its step.
LEMMA StoringKeepsTypes ==
  ASSUME TypeOK, NEW j \in Jobs, AcquireLock(j) \/ StoreRun(j) \/ PrepareRun(j) \/ Work(j)
  PROVE  TypeOK'
<1>1. jobs[j].by \in {"none", "service"} \cup Hands
  BY DEF TypeOK, Job
<1>2. \A next \in {"locked", "saved", "working", "ended"} :
        StepTo(j, next) => jobs' \in [Jobs -> Job]
  <2>1. \A next \in {"locked", "saved", "working", "ended"} : [jobs[j] EXCEPT !.step = next] \in Job
    BY DEF TypeOK, Job
  <2>2. QED  BY <2>1 DEF TypeOK, StepTo
<1>3. \A state \in {"created"} \cup Finished, lease \in {"none", "service"} \cup Hands :
        Store(j, state, lease) => runs' \in [Jobs -> Run]
  BY DEF TypeOK, Store, Run
<1>4. UNCHANGED <<issues, scheduler, tick>>
  BY DEF AcquireLock, StoreRun, PrepareRun, Work
<1>5. {"failed", "needs_human"} \subseteq Finished
  BY DEF Finished
<1>6. jobs' \in [Jobs -> Job] /\ runs' \in [Jobs -> Run]
  <2>1. CASE AcquireLock(j)
    BY <1>2, <1>3, <1>5, <2>1 DEF AcquireLock, TypeOK
  <2>2. CASE StoreRun(j)
    BY <1>2, <1>3, <2>2 DEF StoreRun, TypeOK
  <2>3. CASE PrepareRun(j)
    BY <1>1, <1>2, <1>3, <1>5, <2>3 DEF PrepareRun, TypeOK
  <2>4. CASE Work(j)
    BY <1>1, <1>2, <1>3, <2>4 DEF Work, TypeOK
  <2>5. QED  BY <2>1, <2>2, <2>3, <2>4
<1>7. QED  BY <1>4, <1>6 DEF TypeOK

LEMMA TypeInductive ==
  ASSUME TypeOK, [BacklogNext]_backlogVars
  PROVE  TypeOK'
<1>1. CASE StartService
  <2>1. Abandoned \in SUBSET Jobs
    BY DEF Abandoned
  <2>2. {jobs[r].id : r \in Abandoned} \ {AdHoc} \in SUBSET Ids
    BY <2>1 DEF TypeOK, Job
  <2>3. scheduler' \in Service
    BY <1>1, <2>1, <2>2 DEF StartService, Service
  <2>4. QED  BY <1>1, <2>3 DEF StartService, TypeOK
<1>2. CASE RecoverAbandoned
  <2>1. PICK r \in scheduler.abandoned :
          /\ runs' = IF runs[r].state \in Finished THEN runs
                     ELSE [runs EXCEPT ![r] = [state |-> "needs_human", lease |-> "none"]]
          /\ scheduler' = [scheduler EXCEPT !.abandoned = @ \ {r}]
    BY <1>2 DEF RecoverAbandoned
  <2>2. [state |-> "needs_human", lease |-> "none"] \in Run
    BY DEF Run, Finished
  <2>3. runs' \in [Jobs -> Run]
    BY <2>1, <2>2 DEF TypeOK
  <2>4. scheduler' \in Service
    BY <2>1 DEF TypeOK, Service
  <2>5. QED  BY <1>2, <2>3, <2>4 DEF RecoverAbandoned, TypeOK
<1>3. CASE BeginPolling
  BY <1>3 DEF BeginPolling, TypeOK, Service
<1>4. CASE SelectCandidates
  <2>1. Selected \in SUBSET Items
    BY DEF TypeOK, Service, Selected
  <2>2. ASSUME NEW active \in SUBSET Items
        PROVE  /\ [scheduler EXCEPT !.active = active] \in Service
               /\ [scheduler EXCEPT !.active = active, !.step = "selected"] \in Service
    BY DEF TypeOK, Service
  <2>3. scheduler' \in Service
    BY ONLY <1>4, <2>1, <2>2, SelectCases
  <2>4. [i \in Items |-> issues[i].labels] \in [Items -> SUBSET Labels]
    BY DEF TypeOK, Issue
  <2>5. {i \in Candidates : Eligible(i, Stored)} \in SUBSET Items
    BY DEF Candidates
  <2>6. \/ tick' = tick
        \/ \E left \in SUBSET Items, labels \in [Items -> SUBSET Labels] :
             tick' = [NoTick EXCEPT !.left = left, !.labels = labels]
    BY ONLY <1>4, <2>4, <2>5, SelectCases
  <2>7. tick' \in Tick
    BY <2>6 DEF TypeOK, Tick, NoTick
  <2>8. QED  BY <1>4, <2>3, <2>7 DEF SelectCandidates, TypeOK
<1>5. CASE Revalidate
  <2>1. scheduler' \in Service
    BY <1>5 DEF Revalidate, TypeOK, Service
  <2>2. PICK batch \in SUBSET tick.left :
          tick' = [tick EXCEPT !.left = @ \ batch, !.batch = batch, !.fresh = Fetched(batch),
                               !.known = Stored]
    BY <1>5, FirstAreOf DEF Revalidate
  <2>3. tick' \in Tick
    BY <2>2, StoredIds DEF TypeOK, Tick, Fetched, Candidates
  <2>4. QED  BY <1>5, <2>1, <2>3 DEF Revalidate, TypeOK
<1>6. CASE TrackerFails
  BY <1>6, NoTickIsTick DEF TrackerFails, TypeOK, Service
<1>7. CASE Claim
  <2>1. PICK i \in tick.batch :
          /\ tick' = [tick EXCEPT !.batch = @ \ {i}]
          /\ \/ \E j \in Jobs :
                  /\ jobs' = [jobs EXCEPT ![j] = [by |-> "service", item |-> i,
                                                  id |-> i, step |-> "starting"]]
                  /\ scheduler' = [scheduler EXCEPT !.active = @ \cup {i}]
             \/ UNCHANGED <<jobs, scheduler>>
    BY <1>7, FirstAreOf DEF Claim, BuildWorkItem, WorkItemId
  <2>2. tick' \in Tick /\ i \in Items
    BY <2>1 DEF TypeOK, Tick
  <2>3. scheduler' \in Service
    BY <2>1, <2>2 DEF TypeOK, Service
  <2>4. [by |-> "service", item |-> i, id |-> i, step |-> "starting"] \in Job
    BY <2>2 DEF Job, Ids
  <2>5. jobs' \in [Jobs -> Job]
    BY <2>1, <2>4 DEF TypeOK
  <2>6. QED  BY <1>7, <2>2, <2>3, <2>5 DEF Claim, TypeOK
<1>8. CASE EndBatch
  <2>1. scheduler' \in Service
    BY <1>8 DEF EndBatch, TypeOK, Service
  <2>2. tick' \in Tick
    BY <1>8, NoTickIsTick DEF EndBatch, TypeOK, Tick
  <2>3. QED  BY <1>8, <2>1, <2>2 DEF EndBatch, TypeOK
<1>9. CASE StartByHand
  <2>1. PICK hand \in Hands, i \in Items, j \in Jobs :
          jobs' = [jobs EXCEPT ![j] = [by |-> hand, item |-> i, id |-> i, step |-> "starting"]]
    BY <1>9 DEF StartByHand
  <2>2. [by |-> hand, item |-> i, id |-> i, step |-> "starting"] \in Job
    BY DEF Job, Ids
  <2>3. QED  BY <1>9, <2>1, <2>2 DEF StartByHand, TypeOK
<1>10. ASSUME NEW j \in Jobs, AcquireLock(j) \/ StoreRun(j) \/ PrepareRun(j) \/ Work(j)
       PROVE  TypeOK'
  BY <1>10, StoringKeepsTypes
<1>11. CASE CrashProcess
  <2>1. scheduler' \in Service /\ tick' \in Tick
    BY <1>11, NoTickIsTick DEF CrashProcess, TypeOK, Service
  <2>2. \A j \in Jobs : [jobs[j] EXCEPT !.step = "ended"] \in Job
    BY DEF TypeOK, Job
  <2>3. jobs' \in [Jobs -> Job]
    BY <1>11, <2>2 DEF CrashProcess, TypeOK
  <2>4. QED  BY <1>11, <2>1, <2>3 DEF CrashProcess, TypeOK
<1>12. CASE EditIssue
  <2>1. PICK i \in Items :
          \/ issues' = [issues EXCEPT ![i].open = ~@]
          \/ issues' = [issues EXCEPT ![i].ready = ~@]
          \/ issues' = [issues EXCEPT ![i].there = FALSE]
          \/ \E labels \in SUBSET Labels : issues' = [issues EXCEPT ![i].labels = labels]
    BY <1>12 DEF EditIssue
  <2>2. ASSUME NEW labels \in SUBSET Labels
        PROVE  /\ [issues[i] EXCEPT !.open = ~@] \in Issue
               /\ [issues[i] EXCEPT !.ready = ~@] \in Issue
               /\ [issues[i] EXCEPT !.there = FALSE] \in Issue
               /\ [issues[i] EXCEPT !.labels = labels] \in Issue
    BY DEF TypeOK, Issue
  <2>3. issues' \in [Items -> Issue]
    BY <2>1, <2>2 DEF TypeOK
  <2>4. QED  BY <1>12, <2>3 DEF EditIssue, TypeOK
<1>13. CASE UNCHANGED backlogVars
  BY <1>13 DEF backlogVars, TypeOK
<1>14. QED
  BY <1>1, <1>2, <1>3, <1>4, <1>5, <1>6, <1>7, <1>8, <1>9, <1>10, <1>11, <1>12, <1>13
     DEF BacklogNext

-----------------------------------------------------------------------------
(* One run of an issue *)

\* All of the invariant but the types and the candidates of the cycle.
RunsInv == KnowsItsIssue /\ RunsHaveJobs /\ WorkersAreActive /\ OneLiveJob

LEMMA BacklogInvInitially == BacklogInit => BacklogInv
<1> SUFFICES ASSUME BacklogInit PROVE BacklogInv
  OBVIOUS
<1>1. /\ \A j \in Jobs : jobs[j].by = "none" /\ jobs[j].step = "none" /\ runs[j].state = "none"
      /\ scheduler.active = {} /\ scheduler.abandoned = {} /\ tick.left = {} /\ tick.batch = {}
  BY DEF BacklogInit, NoJob, NoRun, NoTick
<1>2. QED
  BY <1>1, TypeInitially
     DEF BacklogInv, KnowsItsIssue, RunsHaveJobs, WorkersAreActive, CyclesAreApart,
         CandidatesAreNew, OneLiveJob, Live, Running, Serves, Held

\* Steps of the service that touch neither a job nor a run.
LEMMA SchedulerKeepsRuns ==
  ASSUME BacklogInv, UNCHANGED <<jobs, runs>>,
         scheduler'.abandoned \subseteq scheduler.abandoned \cup Abandoned,
         \A j \in Jobs : Serves(j) /\ Running(j) => jobs[j].item \in scheduler'.active
  PROVE  RunsInv'
<1> USE DEF RunsInv, BacklogInv, KnowsItsIssue, RunsHaveJobs, WorkersAreActive, OneLiveJob,
            Live, Running, Serves
<1>1. \A j \in scheduler'.abandoned : runs[j].state # "none"
  BY DEF Abandoned
<1>2. QED  BY <1>1

\* A job that runs goes on to another step, or ends, and may store its run.
LEMMA WorkersKeepRuns ==
  ASSUME BacklogInv, TypeOK', NEW j \in Jobs,
         AcquireLock(j) \/ StoreRun(j) \/ PrepareRun(j) \/ Work(j)
  PROVE  BacklogInv'
<1>1. Running(j) /\ UNCHANGED <<issues, scheduler, tick>>
  BY DEF AcquireLock, StoreRun, PrepareRun, Work, Running, Held
<1>2. \/ jobs' = jobs
      \/ \E next \in {"locked", "saved", "working", "ended"} : StepTo(j, next)
  BY DEF AcquireLock, StoreRun, PrepareRun, Work
<1>3. \/ runs' = runs
      \/ \E state \in {"created"} \cup Finished, lease \in {jobs[j].by, "none"} :
            Store(j, state, lease)
  BY DEF AcquireLock, StoreRun, PrepareRun, Work, Finished
<1>4. /\ \A k \in Jobs : k # j => jobs'[k] = jobs[k] /\ runs'[k] = runs[k]
      /\ jobs'[j].by = jobs[j].by /\ jobs'[j].item = jobs[j].item /\ jobs'[j].id = jobs[j].id
      /\ jobs'[j].step # "none"
      /\ runs[j].state # "none" => runs'[j].state # "none"
  BY <1>1, <1>2, <1>3 DEF BacklogInv, TypeOK, Job, Run, StepTo, Store, Running, Held, Finished
<1>5. \A k \in Jobs : /\ Serves(k)' <=> Serves(k)
                      /\ Running(k)' => Running(k)
                      /\ Live(k)' => Live(k)
  BY <1>1, <1>4 DEF Serves, Running, Live
<1>6. KnowsItsIssue' /\ RunsHaveJobs'
  BY <1>1, <1>4, <1>5 DEF BacklogInv, KnowsItsIssue, RunsHaveJobs, TypeOK, Service
<1>7. WorkersAreActive'
  BY <1>1, <1>4, <1>5 DEF BacklogInv, WorkersAreActive
<1>8. CyclesAreApart'
  BY <1>1 DEF BacklogInv, CyclesAreApart
<1>9. CandidatesAreNew'
  BY <1>1, <1>4, <1>5 DEF BacklogInv, CandidatesAreNew, WorkersAreActive, TypeOK, Tick, Service
<1>10. OneLiveJob'
  BY <1>4, <1>5 DEF BacklogInv, OneLiveJob
<1>11. QED  BY <1>6, <1>7, <1>8, <1>9, <1>10 DEF BacklogInv

\* The claim: the issue has no job that runs, since its slot was free, and no run, since it
\* was a candidate; so the new job is its only one.
LEMMA ClaimKeepsRuns ==
  ASSUME BacklogInv, TypeOK', Claim
  PROVE  BacklogInv'
<1>1. PICK i \in tick.batch :
        /\ tick' = [tick EXCEPT !.batch = @ \ {i}]
        /\ \/ /\ i \notin scheduler.active
              /\ \E j \in Jobs :
                   /\ jobs[j].step = "none"
                   /\ jobs' = [jobs EXCEPT ![j] = [by |-> "service", item |-> i,
                                                   id |-> i, step |-> "starting"]]
              /\ scheduler' = [scheduler EXCEPT !.active = @ \cup {i}]
           \/ UNCHANGED <<jobs, scheduler>>
  BY FirstAreOf DEF Claim, BuildWorkItem, WorkItemId, NextJob
<1>2. /\ runs' = runs /\ tick'.left = tick.left /\ tick'.batch \subseteq tick.batch
      /\ scheduler.step = "revalidated"
  BY <1>1 DEF Claim, BacklogInv, TypeOK, Tick
<1>3. CASE UNCHANGED <<jobs, scheduler>>
  BY <1>2, <1>3 DEF BacklogInv, KnowsItsIssue, RunsHaveJobs, WorkersAreActive, CyclesAreApart,
     CandidatesAreNew, OneLiveJob, Live, Running, Serves
<1>4. ASSUME NEW j \in Jobs, i \notin scheduler.active, jobs[j].step = "none",
             jobs' = [jobs EXCEPT ![j] = [by |-> "service", item |-> i, id |-> i,
                                          step |-> "starting"]],
             scheduler' = [scheduler EXCEPT !.active = @ \cup {i}]
      PROVE  BacklogInv'
  <2>1. /\ jobs'[j] = [by |-> "service", item |-> i, id |-> i, step |-> "starting"]
        /\ \A k \in Jobs : k # j => jobs'[k] = jobs[k]
        /\ scheduler'.active = scheduler.active \cup {i}
        /\ scheduler'.step = scheduler.step /\ scheduler'.abandoned = scheduler.abandoned
    BY <1>4 DEF BacklogInv, TypeOK, Service
  <2>2. runs[j].state = "none"
    BY <1>4 DEF BacklogInv, RunsHaveJobs
  <2>3. \A k \in Jobs : Serves(k) /\ jobs[k].item = i => ~Live(k)
    BY <1>4 DEF BacklogInv, WorkersAreActive, CandidatesAreNew, Live
  <2>4. \A k \in Jobs : k # j => (Serves(k)' <=> Serves(k)) /\ (Live(k)' <=> Live(k))
                               /\ (Running(k)' <=> Running(k))
    BY <1>2, <2>1 DEF Serves, Live, Running
  <2>5. KnowsItsIssue' /\ RunsHaveJobs'
    BY <1>2, <2>1, <2>2, <2>4 DEF BacklogInv, KnowsItsIssue, RunsHaveJobs, Serves
  <2>6. WorkersAreActive'
    BY <2>1, <2>4 DEF BacklogInv, WorkersAreActive
  <2>7. CyclesAreApart'
    BY <1>2, <2>1 DEF CyclesAreApart
  <2>8. CandidatesAreNew'
    BY <1>2, <2>1, <2>4 DEF BacklogInv, CandidatesAreNew
  <2>9. OneLiveJob'
    BY <2>1, <2>3, <2>4 DEF BacklogInv, OneLiveJob
  <2>10. QED  BY <2>5, <2>6, <2>7, <2>8, <2>9 DEF BacklogInv
<1>5. QED  BY <1>1, <1>3, <1>4

\* A candidate of the new cycle has no stored run, of the service or by hand.
LEMMA SelectKeepsRuns ==
  ASSUME BacklogInv, TypeOK', SelectCandidates
  PROVE  BacklogInv'
<1>1. UNCHANGED <<jobs, runs>> /\ scheduler.step = "idle"
  BY DEF SelectCandidates
<1>2. scheduler'.active = Selected /\ scheduler'.abandoned = scheduler.abandoned
  BY SelectCases DEF BacklogInv, TypeOK, Service
<1>3. \A j \in Jobs : Serves(j) /\ Running(j) => jobs[j].item \in scheduler'.active
  BY <1>2 DEF BacklogInv, WorkersAreActive, Selected, Working, Serves
<1>4. RunsInv'
  BY <1>1, <1>2, <1>3, SchedulerKeepsRuns
<1>5. CASE tick' = tick /\ scheduler'.step = scheduler.step
  BY <1>1, <1>4, <1>5 DEF BacklogInv, CyclesAreApart, CandidatesAreNew, RunsInv, Serves
<1>6. CASE /\ scheduler'.step = "selected"
           /\ tick' = [NoTick EXCEPT !.left = {i \in Candidates : Eligible(i, Stored)},
                                     !.labels = [i \in Items |-> issues[i].labels]]
  <2>1. tick'.left = {i \in Candidates : Eligible(i, Stored)} /\ tick'.batch = {}
    BY <1>6 DEF NoTick
  <2>2. \A i \in tick'.left : i \notin Stored
    BY <2>1 DEF Eligible, WorkItemId
  <2>3. CandidatesAreNew'
    BY <1>1, <2>1, <2>2 DEF BacklogInv, KnowsItsIssue, CandidatesAreNew, Stored, Serves
  <2>4. QED  BY <1>4, <1>6, <2>3 DEF BacklogInv, CyclesAreApart, RunsInv
<1>7. QED  BY <1>5, <1>6, SelectCases DEF BacklogInv, TypeOK, Service

LEMMA BacklogInvInductive ==
  ASSUME ServiceIsNoHand, BacklogInv, [BacklogNext]_backlogVars
  PROVE  BacklogInv'
<1>0. TypeOK'
  BY TypeInductive DEF BacklogInv
<1>1. CASE StartService
  <2>1. /\ UNCHANGED <<jobs, runs, tick>>
        /\ scheduler'.active = {} /\ scheduler'.abandoned = Abandoned
        /\ scheduler.step = "down" /\ scheduler'.step = "recovering"
    BY <1>1 DEF StartService
  <2>2. \A j \in Jobs : ~(Serves(j) /\ Running(j))
    BY <2>1 DEF BacklogInv, CyclesAreApart, WorkersAreActive
  <2>3. RunsInv'
    BY <2>1, <2>2, SchedulerKeepsRuns
  <2>4. QED
    BY <1>0, <2>1, <2>3 DEF BacklogInv, RunsInv, CyclesAreApart, CandidatesAreNew
<1>2. CASE RecoverAbandoned
  <2>1. PICK r \in scheduler.abandoned :
          /\ runs' = IF runs[r].state \in Finished THEN runs
                     ELSE [runs EXCEPT ![r] = [state |-> "needs_human", lease |-> "none"]]
          /\ scheduler' = [scheduler EXCEPT !.abandoned = @ \ {r}]
    BY <1>2 DEF RecoverAbandoned
  <2>2. r \in Jobs /\ runs[r].state # "none"
    BY DEF BacklogInv, TypeOK, Service, RunsHaveJobs
  <2>3. /\ \A j \in Jobs : runs'[j].state = "none" <=> runs[j].state = "none"
        /\ UNCHANGED <<jobs, tick>> /\ scheduler.step = "recovering"
        /\ scheduler'.step = scheduler.step /\ scheduler'.active = scheduler.active
        /\ scheduler'.abandoned \subseteq scheduler.abandoned
    BY <1>2, <2>1, <2>2 DEF RecoverAbandoned, BacklogInv, TypeOK, Service
  <2>4. KnowsItsIssue' /\ RunsHaveJobs' /\ WorkersAreActive'
    BY <2>3 DEF BacklogInv, KnowsItsIssue, RunsHaveJobs, WorkersAreActive, Serves, Running,
       TypeOK, Service
  <2>5. CyclesAreApart' /\ CandidatesAreNew'
    BY <2>3 DEF BacklogInv, CyclesAreApart, CandidatesAreNew
  <2>6. OneLiveJob'
    BY <2>3 DEF BacklogInv, OneLiveJob, Live, Running, Serves
  <2>7. QED  BY <1>0, <2>4, <2>5, <2>6 DEF BacklogInv
\* The other steps of the scheduler: nothing is added to what may be claimed.
<1>3. ASSUME UNCHANGED <<jobs, runs>>, scheduler'.active = scheduler.active,
             scheduler'.abandoned = scheduler.abandoned,
             tick'.left \cup tick'.batch \subseteq tick.left \cup tick.batch,
             scheduler'.step \in {"down", "recovering", "idle"} =>
               tick'.left = {} /\ tick'.batch = {},
             scheduler'.step # "down"
      PROVE  BacklogInv'
  <2>1. RunsInv'
    BY <1>3, SchedulerKeepsRuns DEF BacklogInv, WorkersAreActive
  <2>2. CandidatesAreNew'
    BY <1>3 DEF BacklogInv, CandidatesAreNew, Serves
  <2>3. QED  BY <1>0, <1>3, <2>1, <2>2 DEF BacklogInv, RunsInv, CyclesAreApart
<1>4. CASE BeginPolling
  <2>1. scheduler' = [scheduler EXCEPT !.step = "idle"] /\ UNCHANGED <<jobs, runs, tick>>
    BY <1>4 DEF BeginPolling
  <2>2. tick.left = {} /\ tick.batch = {}
    BY <1>4 DEF BeginPolling, BacklogInv, CyclesAreApart
  <2>3. QED  BY <1>3, <2>1, <2>2 DEF BacklogInv, TypeOK, Service
<1>5. CASE SelectCandidates
  BY <1>0, <1>5, SelectKeepsRuns
<1>6. CASE Revalidate
  <2>1. PICK batch \in SUBSET tick.left :
          tick' = [tick EXCEPT !.left = @ \ batch, !.batch = batch, !.fresh = Fetched(batch),
                               !.known = Stored]
    BY <1>6, FirstAreOf DEF Revalidate
  <2>2. tick'.left \cup tick'.batch \subseteq tick.left \cup tick.batch
    BY <2>1 DEF BacklogInv, TypeOK, Tick
  <2>3. scheduler' = [scheduler EXCEPT !.step = "revalidated"] /\ UNCHANGED <<jobs, runs>>
    BY <1>6 DEF Revalidate
  <2>4. QED  BY <1>3, <2>2, <2>3 DEF BacklogInv, TypeOK, Service
<1>7. CASE TrackerFails
  BY <1>3, <1>7 DEF TrackerFails, NoTick, BacklogInv, TypeOK, Service
<1>8. CASE Claim
  BY <1>0, <1>8, ClaimKeepsRuns
<1>9. CASE EndBatch
  <2>1. CASE scheduler' = [scheduler EXCEPT !.step = "selected"]
             /\ tick' = [tick EXCEPT !.fresh = {}, !.known = {}] /\ UNCHANGED <<jobs, runs>>
    BY <1>3, <2>1 DEF BacklogInv, TypeOK, Service, Tick
  <2>2. CASE scheduler' = [scheduler EXCEPT !.step = "idle"] /\ tick' = NoTick
             /\ UNCHANGED <<jobs, runs>>
    BY <1>3, <2>2 DEF NoTick, BacklogInv, TypeOK, Service
  <2>3. QED  BY <1>9, <2>1, <2>2 DEF EndBatch
<1>10. CASE StartByHand
  <2>1. PICK hand \in Hands, i \in Items, j \in Jobs :
          /\ jobs[j].step = "none"
          /\ jobs' = [jobs EXCEPT ![j] = [by |-> hand, item |-> i, id |-> i, step |-> "starting"]]
    BY <1>10 DEF StartByHand, NextJob
  <2>2. UNCHANGED <<runs, scheduler, tick>>
    BY <1>10 DEF StartByHand
  <2>3. /\ jobs'[j].by = hand /\ jobs'[j].step = "starting"
        /\ \A k \in Jobs : k # j => jobs'[k] = jobs[k]
    BY <2>1 DEF BacklogInv, TypeOK
  <2>4. ~Serves(j)' /\ \A k \in Jobs : Serves(k)' => k # j /\ Serves(k)
    BY <2>3 DEF Serves, ServiceIsNoHand
  <2>5. KnowsItsIssue' /\ RunsHaveJobs' /\ WorkersAreActive'
    BY <2>2, <2>3, <2>4 DEF BacklogInv, KnowsItsIssue, RunsHaveJobs, WorkersAreActive, Running
  <2>6. CyclesAreApart' /\ CandidatesAreNew'
    BY <2>2, <2>3, <2>4 DEF BacklogInv, CyclesAreApart, CandidatesAreNew
  <2>7. OneLiveJob'
    BY <2>2, <2>3, <2>4 DEF BacklogInv, OneLiveJob, Live, Running
  <2>8. QED  BY <1>0, <2>5, <2>6, <2>7 DEF BacklogInv
<1>11. ASSUME NEW j \in Jobs, AcquireLock(j) \/ StoreRun(j) \/ PrepareRun(j) \/ Work(j)
       PROVE  BacklogInv'
  BY <1>0, <1>11, WorkersKeepRuns
<1>12. CASE CrashProcess
  <2>1. PICK who \in Hands \cup {"service"} :
          /\ jobs' = [j \in Jobs |-> IF jobs[j].by = who /\ Running(j)
                                     THEN [jobs[j] EXCEPT !.step = "ended"] ELSE jobs[j]]
          /\ IF who = "service"
             THEN /\ scheduler' = [step |-> "down", active |-> {}, escalated |-> {},
                                 abandoned |-> {}]
                  /\ tick' = NoTick
             ELSE UNCHANGED <<scheduler, tick>>
    BY <1>12 DEF CrashProcess
  <2>2. runs' = runs
    BY <1>12 DEF CrashProcess
  <2>3. \A j \in Jobs : /\ jobs'[j].by = jobs[j].by /\ jobs'[j].item = jobs[j].item
                        /\ jobs'[j].id = jobs[j].id
                        /\ jobs'[j].step = "none" => jobs[j].step = "none"
                        /\ Running(j)' => Running(j)
                        /\ jobs[j].by = who => ~Running(j)'
    BY <2>1 DEF BacklogInv, TypeOK, Job, Running, Held
  <2>4. \A j \in Jobs : (Serves(j)' <=> Serves(j)) /\ (Live(j)' => Live(j))
    BY <2>2, <2>3 DEF Serves, Live
  <2>5. CASE who = "service"
    <3>1. scheduler'.step = "down" /\ scheduler'.active = {} /\ scheduler'.abandoned = {}
          /\ tick'.left = {} /\ tick'.batch = {}
      BY <2>1, <2>5 DEF NoTick
    <3>2. QED
      BY <1>0, <2>2, <2>3, <2>4, <2>5, <3>1 DEF BacklogInv, KnowsItsIssue, RunsHaveJobs,
         WorkersAreActive, CyclesAreApart, CandidatesAreNew, OneLiveJob, Serves
  <2>6. CASE who # "service"
    <3>1. UNCHANGED <<scheduler, tick>>
      BY <2>1, <2>6
    <3>2. QED
      BY <1>0, <2>2, <2>3, <2>4, <3>1 DEF BacklogInv, KnowsItsIssue, RunsHaveJobs,
         WorkersAreActive, CyclesAreApart, CandidatesAreNew, OneLiveJob
  <2>7. QED  BY <2>5, <2>6
<1>13. CASE EditIssue
  <2>1. UNCHANGED <<jobs, runs, scheduler, tick>>
    BY <1>13 DEF EditIssue
  <2>2. QED
    BY <1>0, <2>1 DEF BacklogInv, KnowsItsIssue, RunsHaveJobs, WorkersAreActive,
       CyclesAreApart, CandidatesAreNew, OneLiveJob, Serves, Live, Running
<1>14. CASE UNCHANGED backlogVars
  BY <1>0, <1>14 DEF backlogVars, BacklogInv, KnowsItsIssue, RunsHaveJobs, WorkersAreActive,
     CyclesAreApart, CandidatesAreNew, OneLiveJob, Serves, Live, Running
<1>15. QED
  BY <1>1, <1>2, <1>4, <1>5, <1>6, <1>7, <1>8, <1>9, <1>10, <1>11, <1>12, <1>13, <1>14
     DEF BacklogNext

\* The state of the backlog stays within its types: the runs, the cycle of the scheduler
\* and what recovery still has to halt (github_tracker.py, scheduler.py, service.py).
THEOREM BacklogTypeCorrect == BacklogSpec => []TypeOK
<1>1. TypeOK /\ [BacklogNext]_backlogVars => TypeOK'
  BY TypeInductive
<1>2. QED  BY <1>1, TypeInitially, PTL DEF BacklogSpec

\* The service makes one run of an issue for as long as its data directory lives, whatever
\* ends between the claim and the stored run, who works on the issue by hand, what people do
\* to the issue, and however often the service restarts (Scheduler.tick, AlreadyRunFilter).
THEOREM OneRunOfAnIssue ==
  ASSUME ServiceIsNoHand
  PROVE  BacklogSpec => []ServiceRunsAnIssueOnce
<1>1. BacklogInv /\ [BacklogNext]_backlogVars => BacklogInv'
  BY BacklogInvInductive
<1>2. BacklogInv => ServiceRunsAnIssueOnce
  <2> SUFFICES ASSUME BacklogInv, NEW i \in Items
               PROVE  Cardinality({j \in Jobs : /\ jobs[j].by = "service" /\ jobs[j].item = i
                                                /\ runs[j].state # "none"}) <= 1
    BY DEF ServiceRunsAnIssueOnce
  <2> DEFINE S == {j \in Jobs : /\ jobs[j].by = "service" /\ jobs[j].item = i
                                /\ runs[j].state # "none"}
  <2>1. \A j, k \in S : j = k
    BY DEF BacklogInv, OneLiveJob, Serves, Live
  <2>2. CASE S = {}
    BY <2>2, FS_EmptySet
  <2>3. ASSUME NEW j \in S
        PROVE  Cardinality(S) <= 1
    <3>1. S = {j}
      BY <2>1
    <3>2. Cardinality({j}) = 1
      BY FS_Singleton, Zenon
    <3>3. QED  BY ONLY <3>1, <3>2
  <2>4. QED  BY <2>2, <2>3
<1>3. QED  BY <1>1, <1>2, BacklogInvInitially, PTL DEF BacklogSpec

-----------------------------------------------------------------------------
(* An agent call: AgentCall *)

\* The places of the worker thread: in a watched step, with a note, anywhere.
Watched == {"enter", "before", "spawn", "track", "wait", "leave", "join", "pop"}
WithNote == Watched \cup {"publish", "release", "after"}
Places == WithNote \cup {"free", "work", "take", "record", "end", "reopen", "reopened",
                         "delete", "save"}

DiskType == [state : {"working", "halted", "done"}, stop : BOOLEAN, note : Nat,
             unattended : BOOLEAN]
DriverType == [pc : Places, work : {"none", "call", "check"}, note : Nat,
               outcome : {"none", "halt", "cancel", "returned", "raised"},
               back : {"none", "end", "pop", "leave"}, target : {"none", "halted", "done"},
               fallback : BOOLEAN, steps : Nat]
ProcessType == {"none", "running", "signalled", "ended"}
WatchType == [pc : {"off", "poll", "beat"}, killed : BOOLEAN, stopping : BOOLEAN]
ServiceType == [pc : {"idle", "look", "kill"}, cancels : BOOLEAN, thread : BOOLEAN,
                killedThread : BOOLEAN]
PeopleType == [stops : BOOLEAN, steers : BOOLEAN]
SeenType == [newest : Nat, used : SUBSET Nat, gone : SUBSET Nat, begun : Nat]

CallTypes ==
  /\ disk \in DiskType /\ driver \in DriverType /\ process \in ProcessType
  /\ watch \in WatchType /\ service \in ServiceType /\ people \in PeopleType
  /\ seen \in SeenType

-----------------------------------------------------------------------------
(* The inductive invariant                                                 *)

\* Where the thread is, a halt in the middle of a watched step included.
At(places) == driver.pc \in places \/ (driver.pc \in {"delete", "save"} /\ driver.back \in places)

\* A halt goes back into the watched step it was found in, or to the end of the drive; the
\* controller knows the thread as long as it is in a watched step; a child is waited for.
ThreadInv ==
  /\ driver.pc \in {"delete", "save"} =>
       driver.target \in {"halted", "done"} /\ driver.back \in {"end", "pop", "leave"}
  /\ service.thread <=> At(Watched)
  /\ process = "running" => driver.pc \in {"track", "wait"}

\* After the cancel, only a thread that was killed is at a child or about to start one.
CancelInv ==
  service.cancels /\ service.pc = "idle" /\ driver.pc \in {"spawn", "track", "wait"} =>
    service.killedThread /\ (driver.pc = "wait" => process # "running")

\* The child that was started since the request leaves nothing but its own fallback to start.
StopInv ==
  /\ seen.begun = 0 \/ (seen.begun = 1 /\ disk.stop)
  /\ seen.begun = 1 /\ driver.pc = "spawn" => driver.fallback

\* Of two notes the one with the call is the older one, and notes are not seen again.
NoteInv ==
  /\ driver.note # 0 => At(WithNote)
  /\ driver.note # 0 /\ disk.note # 0 => driver.note < disk.note
  /\ \A note \in {disk.note, driver.note} \union seen.used : note <= seen.newest
  /\ 0 \notin seen.used
  /\ NewestNoteIsKept

AcInv == CallTypes /\ ThreadInv /\ CancelInv /\ StopInv /\ NoteInv

-----------------------------------------------------------------------------
(* Types *)

LEMMA PlaceNames ==
  /\ "free" \in Places /\ "work" \in Places /\ "take" \in Places /\ "record" \in Places
  /\ "end" \in Places /\ "reopen" \in Places /\ "reopened" \in Places /\ "delete" \in Places
  /\ "save" \in Places /\ "publish" \in Places /\ "release" \in Places /\ "after" \in Places
  /\ "enter" \in Places /\ "before" \in Places /\ "spawn" \in Places /\ "track" \in Places
  /\ "wait" \in Places
  /\ "leave" \in Places /\ "join" \in Places /\ "pop" \in Places
BY DEF Places, WithNote, Watched

LEMMA TypesInitially == AcInit => CallTypes
BY PlaceNames
   DEF AcInit, Idle, Asleep, CallTypes, DiskType, DriverType, ProcessType, WatchType,
       ServiceType, PeopleType, SeenType

\* A stop check leaves the thread where it goes on, at a halt, or where a cancel unwinds it.
LEMMA CheckKeepsType ==
  ASSUME driver \in DriverType, NEW pc \in Places, NEW back \in {"end", "pop", "leave"},
         Check(pc, back)
  PROVE  driver' \in DriverType
BY PlaceNames DEF DriverType, Check

LEMMA TypesInductive ==
  ASSUME CallTypes, ThreadInv, [AcNext]_acVars
  PROVE  CallTypes'
<1> USE PlaceNames DEF CallTypes
<1>0. /\ driver.steps + 1 \in Nat /\ seen.newest + 1 \in Nat /\ seen.begun + 1 \in Nat
      /\ disk.note \in Nat /\ driver.note \in Nat
  BY DEF CallTypes, DriverType, DiskType, SeenType
<1>1. CASE StartJob
  BY <1>1 DEF StartJob, Spend, Idle, DriverType, ServiceType
<1>2. CASE ReopenDelete
  BY <1>2 DEF ReopenDelete, GoTo, DriverType, DiskType, SeenType
<1>3. CASE ReopenSave
  BY <1>3 DEF ReopenSave, GoTo, DriverType, DiskType
<1>4. CASE OpenCall
  BY <1>4, CheckKeepsType DEF OpenCall
<1>5. CASE OpenCheck
  BY <1>5, <1>0 DEF OpenCheck, DriverType
<1>6. CASE TakeNote
  BY <1>6, <1>0 DEF TakeNote, DriverType, DiskType
<1>7. CASE Finish
  BY <1>7 DEF Finish, DriverType
<1>8. CASE EndJob
  <2>1. CASE driver' = Idle
    BY <1>8, <2>1 DEF EndJob, Idle, DriverType, ServiceType
  <2>2. CASE driver' = [driver EXCEPT !.pc = "delete", !.target = "halted", !.outcome = "halt",
                                      !.back = "end"]
    BY <1>8, <2>2 DEF EndJob, DriverType, ServiceType
  <2>3. QED  BY <1>8, <2>1, <2>2 DEF EndJob
<1>9. CASE Publish
  BY <1>9 DEF Publish, GoTo, DriverType, ServiceType
<1>10. CASE Enter
  BY <1>10, CheckKeepsType DEF Enter, Asleep, WatchType
<1>11. CASE BeforeCommand
  BY <1>11, CheckKeepsType DEF BeforeCommand
<1>12. CASE Spawn
  BY <1>12, <1>0 DEF Spawn, GoTo, DriverType, SeenType, ProcessType
<1>12t. CASE Track
  BY <1>12t DEF Track, Tracked, Signalled, GoTo, DriverType, ProcessType
<1>13. CASE Return
  BY <1>13, <1>0 DEF Return, DriverType, ProcessType
<1>14. CASE Leave
  BY <1>14 DEF Leave, GoTo, DriverType, WatchType
<1>15. CASE Exit
  BY <1>15, CheckKeepsType DEF Exit, GoTo, DriverType
<1>16. CASE Pop
  BY <1>16 DEF Pop, GoTo, DriverType, ServiceType
<1>17. CASE Release
  BY <1>17 DEF Release, GoTo, DriverType, ServiceType
<1>18. CASE After
  BY <1>18, <1>0 DEF After, PutBack, DriverType, DiskType, SeenType
<1>19. CASE Record
  BY <1>19, CheckKeepsType DEF Record
<1>20. CASE DeleteRequests
  BY <1>20, <1>0 DEF DeleteRequests, GoTo, DriverType, DiskType, SeenType
<1>21. CASE SaveFinal
  <2>1. driver.target \in {"halted", "done"} /\ driver.back \in {"end", "pop", "leave"}
    BY <1>21 DEF SaveFinal, ThreadInv
  <2>2. QED  BY <1>21, <2>1 DEF SaveFinal, GoTo, DriverType, DiskType
<1>22. CASE HeartbeatEnds
  BY <1>22 DEF HeartbeatEnds, WatchType
<1>23. CASE Poll
  BY <1>23 DEF Poll, KillChildren, Signalled, WatchType, ServiceType, ProcessType
<1>24. CASE Beat
  BY <1>24 DEF Beat, DiskType, WatchType
<1>25. CASE StallFound
  BY <1>25 DEF StallFound, Spend, ServiceType
<1>26. CASE LookForThread
  BY <1>26 DEF LookForThread, ServiceType
<1>27. CASE KillThread
  BY <1>27 DEF KillThread, KillChildren, Signalled, ServiceType, ProcessType
<1>28. CASE AskToStop
  BY <1>28 DEF AskToStop, Spend, PeopleType
<1>29. CASE FileStop
  BY <1>29 DEF FileStop, PeopleType, DiskType
<1>30. CASE AskToSteer
  BY <1>30 DEF AskToSteer, Spend, PeopleType
<1>31. CASE FileNote
  BY <1>31, <1>0 DEF FileNote, PeopleType, DiskType, SeenType
<1>32. CASE Crash
  BY <1>32, <1>0
     DEF Crash, Spend, Idle, Asleep, DriverType, WatchType, ServiceType, SeenType, ProcessType
<1>33. CASE ProcessEnds
  BY <1>33 DEF ProcessEnds, ProcessType
<1>34. CASE UNCHANGED acVars
  BY <1>34 DEF acVars
<1>35. QED
  BY <1>1, <1>2, <1>3, <1>4, <1>5, <1>6, <1>7, <1>8, <1>9, <1>10, <1>11, <1>12, <1>12t, <1>13,
     <1>14, <1>15, <1>16, <1>17, <1>18, <1>19, <1>20, <1>21, <1>22, <1>23, <1>24, <1>25, <1>26,
     <1>27, <1>28, <1>29, <1>30, <1>31, <1>32, <1>33, <1>34
     DEF AcNext, Drive, Heartbeat, Others

-----------------------------------------------------------------------------
(* The invariant *)

LEMMA CallInvInitially == AcInit => AcInv
<1> SUFFICES ASSUME AcInit PROVE AcInv
  OBVIOUS
<1>1. /\ driver.pc = "free" /\ driver.note = 0 /\ ~service.thread /\ ~service.cancels
      /\ process = "none" /\ disk.note = 0
      /\ seen.newest = 0 /\ seen.used = {} /\ seen.begun = 0
  BY DEF AcInit, Idle
<1>2. QED
  BY <1>1, TypesInitially
     DEF AcInv, ThreadInv, CancelInv, StopInv, NoteInv, NewestNoteIsKept, At, Watched, WithNote

\* What a stop check does to the driver, by where it leaves the thread.
LEMMA CheckCases ==
  ASSUME driver \in DriverType, NEW pc, NEW back, Check(pc, back)
  PROVE  /\ driver'.note = driver.note /\ driver'.fallback = driver.fallback
         /\ \/ driver'.pc = "delete" /\ driver'.target = "halted" /\ driver'.back = back
            \/ driver'.pc = back
            \/ driver'.pc = pc /\ ~disk.stop /\ ~service.cancels
BY DEF DriverType, Check, StopRequested

\* One step per action: first what it does to the fields that the invariant is about.
LEMMA CallInvInductive ==
  ASSUME AcInv, [AcNext]_acVars
  PROVE  AcInv'
<1> USE DEF AcInv, CallTypes
<1>0. CallTypes'
  BY TypesInductive
<1>1. /\ disk.stop \in BOOLEAN /\ disk.note \in Nat /\ driver.note \in Nat
      /\ driver.fallback \in BOOLEAN /\ service.cancels \in BOOLEAN /\ service.thread \in BOOLEAN
      /\ service.killedThread \in BOOLEAN /\ seen.newest \in Nat /\ seen.begun \in Nat
      /\ seen.used \in SUBSET Nat
  BY DEF DiskType, DriverType, ServiceType, SeenType
<1> DEFINE Parts == ThreadInv /\ CancelInv /\ StopInv /\ NoteInv
<1> SUFFICES Parts'
  BY <1>0
<1>2. ASSUME UNCHANGED <<disk, driver, process, service, seen>>
      PROVE  Parts'
  BY <1>2 DEF ThreadInv, CancelInv, StopInv, NoteInv, NewestNoteIsKept, At, Watched, WithNote
<1>3. CASE StartJob
  <2>1. /\ driver'.pc \in {"reopen", "work"} /\ driver'.note = 0 /\ ~driver'.fallback
        /\ driver.pc = "free" /\ service'.pc = service.pc /\ service'.cancels = FALSE
        /\ service'.thread = service.thread
        /\ service'.killedThread = service.killedThread
        /\ UNCHANGED <<disk, process, seen>>
    BY <1>3 DEF StartJob, Idle, DriverType, ServiceType
  <2>2. QED
    BY <1>1, <2>1
    DEF ThreadInv, CancelInv, StopInv, NoteInv, NewestNoteIsKept, At, Watched, WithNote
<1>4. CASE ReopenDelete
  <2>1. /\ driver.pc = "reopen" /\ driver'.pc = "reopened" /\ driver'.note = driver.note
        /\ driver'.fallback = driver.fallback /\ disk'.stop = FALSE
        /\ disk'.note = disk.note /\ seen'.newest = seen.newest
        /\ seen'.used = seen.used /\ seen'.gone = seen.gone /\ seen'.begun = 0
        /\ UNCHANGED <<process, service>>
    BY <1>4 DEF ReopenDelete, GoTo, DriverType, DiskType, SeenType
  <2>2. QED
    BY <1>1, <2>1
    DEF ThreadInv, CancelInv, StopInv, NoteInv, NewestNoteIsKept, At, Watched, WithNote
<1>5. CASE ReopenSave
  <2>1. /\ driver.pc = "reopened" /\ driver'.pc = "work" /\ driver'.note = driver.note
        /\ driver'.fallback = driver.fallback /\ disk'.stop = disk.stop
        /\ disk'.note = disk.note /\ UNCHANGED <<process, service, seen>>
    BY <1>5 DEF ReopenSave, GoTo, DriverType, DiskType
  <2>2. QED
    BY <1>1, <2>1
    DEF ThreadInv, CancelInv, StopInv, NoteInv, NewestNoteIsKept, At, Watched, WithNote
<1>6. CASE OpenCall
  <2>1. /\ driver.pc = "work" /\ driver'.note = driver.note
        /\ driver'.fallback = driver.fallback
        /\ \/ driver'.pc = "delete" /\ driver'.target = "halted" /\ driver'.back = "end"
           \/ driver'.pc = "end"
           \/ driver'.pc = "take" /\ ~disk.stop /\ ~service.cancels
        /\ UNCHANGED <<disk, process, service, seen>>
    BY <1>6, CheckCases DEF OpenCall
  <2>2. QED
    BY <1>1, <2>1
    DEF ThreadInv, CancelInv, StopInv, NoteInv, NewestNoteIsKept, At, Watched, WithNote
<1>7. CASE OpenCheck
  <2>1. /\ driver.pc = "work" /\ driver'.pc = "publish" /\ driver'.note = driver.note
        /\ driver'.fallback = driver.fallback
        /\ UNCHANGED <<disk, process, service, seen>>
    BY <1>7 DEF OpenCheck, DriverType
  <2>2. QED
    BY <1>1, <2>1
    DEF ThreadInv, CancelInv, StopInv, NoteInv, NewestNoteIsKept, At, Watched, WithNote
<1>8. CASE TakeNote
  <2>1. /\ driver.pc = "take" /\ driver'.pc = "publish" /\ driver'.note = disk.note
        /\ driver'.fallback = driver.fallback /\ disk'.stop = disk.stop
        /\ disk'.note = 0 /\ UNCHANGED <<process, service, seen>>
    BY <1>8 DEF TakeNote, DriverType, DiskType
  <2>2. QED
    BY <1>1, <2>1
    DEF ThreadInv, CancelInv, StopInv, NoteInv, NewestNoteIsKept, At, Watched, WithNote
<1>9. CASE Finish
  <2>1. /\ driver.pc = "work" /\ driver'.pc = "delete"
        /\ driver'.target \in {"done", "halted"} /\ driver'.back = "end"
        /\ driver'.note = driver.note /\ driver'.fallback = driver.fallback
        /\ UNCHANGED <<disk, process, service, seen>>
    BY <1>9 DEF Finish, DriverType
  <2>2. QED
    BY <1>1, <2>1
    DEF ThreadInv, CancelInv, StopInv, NoteInv, NewestNoteIsKept, At, Watched, WithNote
<1>10. CASE EndJob
  <2>1. /\ driver.pc = "end"
        /\ \/ driver'.pc = "free" /\ driver'.note = 0 /\ ~driver'.fallback
           \/ /\ driver'.pc = "delete" /\ driver'.target = "halted" /\ driver'.back = "end"
              /\ driver'.note = driver.note /\ driver'.fallback = driver.fallback
    <3>1. CASE driver' = Idle
      BY <1>10, <3>1 DEF EndJob, Idle
    <3>2. CASE driver' = [driver EXCEPT !.pc = "delete", !.target = "halted",
                                        !.outcome = "halt", !.back = "end"]
      BY <1>10, <3>2 DEF EndJob, DriverType
    <3>3. QED  BY <1>10, <3>1, <3>2 DEF EndJob
  <2>2. /\ service'.cancels => service.cancels
        /\ service'.pc = service.pc /\ service'.thread = service.thread
        /\ service'.killedThread = service.killedThread
        /\ UNCHANGED <<disk, process, seen>>
    BY <1>10 DEF EndJob, ServiceType
  <2>3. QED
    BY <1>1, <2>1, <2>2
    DEF ThreadInv, CancelInv, StopInv, NoteInv, NewestNoteIsKept, At, Watched, WithNote
<1>11. CASE Publish
  <2>1. /\ driver.pc = "publish" /\ driver'.pc = "enter" /\ driver'.note = driver.note
        /\ driver'.fallback = driver.fallback /\ service'.pc = service.pc
        /\ service'.cancels = service.cancels /\ service'.thread = TRUE
        /\ service'.killedThread = service.killedThread
        /\ UNCHANGED <<disk, process, seen>>
    BY <1>11 DEF Publish, GoTo, DriverType, ServiceType
  <2>2. QED
    BY <1>1, <2>1
    DEF ThreadInv, CancelInv, StopInv, NoteInv, NewestNoteIsKept, At, Watched, WithNote
<1>12. CASE Enter
  <2>1. /\ driver.pc = "enter" /\ driver'.note = driver.note
        /\ driver'.fallback = driver.fallback
        /\ \/ driver'.pc = "delete" /\ driver'.target = "halted" /\ driver'.back = "pop"
           \/ driver'.pc = "pop"
           \/ driver'.pc \in {"before", "spawn"} /\ ~disk.stop /\ ~service.cancels
        /\ UNCHANGED <<disk, process, service, seen>>
    BY <1>12, CheckCases DEF Enter
  <2>2. QED
    BY <1>1, <2>1
    DEF ThreadInv, CancelInv, StopInv, NoteInv, NewestNoteIsKept, At, Watched, WithNote
<1>13. CASE BeforeCommand
  <2>1. /\ driver.pc = "before" /\ driver'.note = driver.note
        /\ driver'.fallback = driver.fallback
        /\ \/ driver'.pc = "delete" /\ driver'.target = "halted" /\ driver'.back = "leave"
           \/ driver'.pc = "leave"
           \/ driver'.pc = "spawn" /\ ~disk.stop /\ ~service.cancels
        /\ UNCHANGED <<disk, process, service, seen>>
    BY <1>13, CheckCases DEF BeforeCommand
  <2>2. QED
    BY <1>1, <2>1
    DEF ThreadInv, CancelInv, StopInv, NoteInv, NewestNoteIsKept, At, Watched, WithNote
<1>14. CASE Spawn
  <2>1. /\ driver.pc = "spawn" /\ driver'.pc = "track" /\ driver'.note = driver.note
        /\ driver'.fallback = driver.fallback /\ process' = "running"
        /\ seen'.begun = IF disk.stop /\ ~driver.fallback THEN seen.begun + 1 ELSE seen.begun
        /\ seen'.newest = seen.newest /\ seen'.used = seen.used
        /\ seen'.gone = seen.gone /\ UNCHANGED <<disk, service>>
    BY <1>14 DEF Spawn, GoTo, DriverType, SeenType
  <2>2. QED
    BY <1>1, <2>1
    DEF ThreadInv, CancelInv, StopInv, NoteInv, NewestNoteIsKept, At, Watched, WithNote
<1>14t. CASE Track
  <2>1. /\ driver.pc = "track" /\ driver'.pc = "wait" /\ driver'.note = driver.note
        /\ driver'.fallback = driver.fallback
        /\ service.killedThread => process' # "running"
        /\ UNCHANGED <<disk, service, seen>>
    BY <1>14t DEF Track, Tracked, Signalled, GoTo, DriverType
  <2>2. QED
    BY <1>1, <2>1
    DEF ThreadInv, CancelInv, StopInv, NoteInv, NewestNoteIsKept, At, Watched, WithNote
<1>15. CASE Return
  <2>1. /\ driver.pc = "wait" /\ process' = "none" /\ driver'.note = driver.note
        /\ \/ driver'.pc \in {"leave", "before"} /\ driver'.fallback = driver.fallback
           \/ driver'.pc = "spawn" /\ driver'.fallback
        /\ UNCHANGED <<disk, service, seen>>
    BY <1>15 DEF Return, DriverType
  <2>2. QED
    BY <1>1, <2>1
    DEF ThreadInv, CancelInv, StopInv, NoteInv, NewestNoteIsKept, At, Watched, WithNote
<1>16. CASE Leave
  <2>1. /\ driver.pc = "leave" /\ driver'.pc = "join" /\ driver'.note = driver.note
        /\ driver'.fallback = driver.fallback
        /\ UNCHANGED <<disk, process, service, seen>>
    BY <1>16 DEF Leave, GoTo, DriverType
  <2>2. QED
    BY <1>1, <2>1
    DEF ThreadInv, CancelInv, StopInv, NoteInv, NewestNoteIsKept, At, Watched, WithNote
<1>17. CASE Exit
  <2>1. /\ driver.pc = "join" /\ driver'.note = driver.note
        /\ driver'.fallback = driver.fallback
        /\ \/ driver'.pc = "delete" /\ driver'.target = "halted" /\ driver'.back = "pop"
           \/ driver'.pc = "pop"
        /\ UNCHANGED <<disk, process, service, seen>>
    <3>1. CASE Check("pop", "pop")
      BY <1>17, <3>1, CheckCases DEF Exit
    <3>2. CASE GoTo("pop")
      BY <1>17, <3>2 DEF Exit, GoTo, DriverType
    <3>3. QED  BY <1>17, <3>1, <3>2 DEF Exit
  <2>2. QED
    BY <1>1, <2>1
    DEF ThreadInv, CancelInv, StopInv, NoteInv, NewestNoteIsKept, At, Watched, WithNote
<1>18. CASE Pop
  <2>1. /\ driver.pc = "pop" /\ driver'.pc = "release" /\ driver'.note = driver.note
        /\ driver'.fallback = driver.fallback /\ service'.pc = service.pc
        /\ service'.cancels = service.cancels /\ service'.thread = FALSE
        /\ service'.killedThread = service.killedThread
        /\ UNCHANGED <<disk, process, seen>>
    BY <1>18 DEF Pop, GoTo, DriverType, ServiceType
  <2>2. QED
    BY <1>1, <2>1
    DEF ThreadInv, CancelInv, StopInv, NoteInv, NewestNoteIsKept, At, Watched, WithNote
<1>19. CASE Release
  <2>1. /\ driver.pc = "release" /\ driver'.pc = "after" /\ driver'.note = driver.note
        /\ driver'.fallback = driver.fallback /\ service'.pc = service.pc
        /\ service'.cancels = service.cancels /\ service'.thread = service.thread
        /\ service'.killedThread = FALSE /\ UNCHANGED <<disk, process, seen>>
    BY <1>19 DEF Release, GoTo, DriverType, ServiceType
  <2>2. QED
    BY <1>1, <2>1
    DEF ThreadInv, CancelInv, StopInv, NoteInv, NewestNoteIsKept, At, Watched, WithNote
<1>20. CASE After
  <2>1. /\ driver.pc = "after" /\ driver'.pc \in {"end", "record", "work"}
        /\ driver'.note = 0 /\ ~driver'.fallback /\ disk'.stop = disk.stop
        /\ \/ /\ disk'.note = IF disk.note = 0 THEN driver.note ELSE disk.note
              /\ seen'.used = seen.used
           \/ /\ disk'.note = disk.note
              /\ seen'.used = IF driver.note = 0 THEN seen.used ELSE seen.used \union {driver.note}
        /\ seen'.newest = seen.newest /\ seen'.gone = seen.gone
        /\ seen'.begun = seen.begun /\ UNCHANGED <<process, service>>
    BY <1>20 DEF After, PutBack, DriverType, DiskType, SeenType
  <2>2. QED
    BY <1>1, <2>1
    DEF ThreadInv, CancelInv, StopInv, NoteInv, NewestNoteIsKept, At, Watched, WithNote
<1>21. CASE Record
  <2>1. /\ driver.pc = "record" /\ driver'.note = driver.note
        /\ driver'.fallback = driver.fallback
        /\ \/ driver'.pc = "delete" /\ driver'.target = "halted" /\ driver'.back = "end"
           \/ driver'.pc = "end"
           \/ driver'.pc = "work" /\ ~disk.stop /\ ~service.cancels
        /\ UNCHANGED <<disk, process, service, seen>>
    BY <1>21, CheckCases DEF Record
  <2>2. QED
    BY <1>1, <2>1
    DEF ThreadInv, CancelInv, StopInv, NoteInv, NewestNoteIsKept, At, Watched, WithNote
<1>22. CASE DeleteRequests
  <2>1. /\ driver.pc = "delete" /\ driver'.pc = "save" /\ driver'.note = driver.note
        /\ driver'.fallback = driver.fallback /\ driver'.target = driver.target
        /\ driver'.back = driver.back /\ disk'.stop = FALSE /\ seen'.begun = 0
        /\ seen'.newest = seen.newest /\ seen'.used = seen.used
        /\ \/ disk'.note = disk.note /\ seen'.gone = seen.gone
           \/ disk'.note = 0 /\ seen'.gone = seen.gone \union {disk.note}
        /\ UNCHANGED <<process, service>>
    BY <1>22 DEF DeleteRequests, GoTo, DriverType, DiskType, SeenType
  <2>2. QED
    BY <1>1, <2>1
    DEF ThreadInv, CancelInv, StopInv, NoteInv, NewestNoteIsKept, At, Watched, WithNote
<1>23. CASE SaveFinal
  <2>1. /\ driver.pc = "save" /\ driver'.pc = driver.back /\ driver'.note = driver.note
        /\ driver'.fallback = driver.fallback /\ disk'.stop = disk.stop
        /\ disk'.note = disk.note /\ UNCHANGED <<process, service, seen>>
    BY <1>23 DEF SaveFinal, GoTo, DriverType, DiskType
  <2>2. QED
    BY <1>1, <2>1
    DEF ThreadInv, CancelInv, StopInv, NoteInv, NewestNoteIsKept, At, Watched, WithNote
<1>24. CASE HeartbeatEnds
  BY <1>2, <1>24 DEF HeartbeatEnds
<1>25. CASE Poll
  <2>1. /\ service'.pc = service.pc /\ service'.cancels = service.cancels
        /\ service'.thread = service.thread
        /\ \/ UNCHANGED <<process, service>>
           \/ /\ service'.killedThread
              /\ process' # "running" \/ (driver.pc = "track" /\ process' = process)
        /\ UNCHANGED <<disk, driver, seen>>
    BY <1>25 DEF Poll, KillChildren, Signalled, ServiceType
  <2>2. QED
    BY <1>1, <2>1
    DEF ThreadInv, CancelInv, StopInv, NoteInv, NewestNoteIsKept, At, Watched, WithNote
<1>26. CASE Beat
  <2>1. /\ disk'.stop = disk.stop /\ disk'.note = disk.note
        /\ UNCHANGED <<driver, process, service, seen>>
    BY <1>26 DEF Beat, DiskType
  <2>2. QED
    BY <1>1, <2>1
    DEF ThreadInv, CancelInv, StopInv, NoteInv, NewestNoteIsKept, At, Watched, WithNote
<1>27. CASE StallFound
  <2>1. /\ service'.pc = "look" /\ service'.cancels = TRUE
        /\ service'.thread = service.thread
        /\ service'.killedThread = service.killedThread
        /\ UNCHANGED <<disk, driver, process, seen>>
    BY <1>27 DEF StallFound, ServiceType
  <2>2. QED
    BY <1>1, <2>1
    DEF ThreadInv, CancelInv, StopInv, NoteInv, NewestNoteIsKept, At, Watched, WithNote
<1>28. CASE LookForThread
  <2>1. /\ service.pc = "look"
        /\ service'.pc = IF service.thread THEN "kill" ELSE "idle"
        /\ service'.cancels = service.cancels /\ service'.thread = service.thread
        /\ service'.killedThread = service.killedThread
        /\ UNCHANGED <<disk, driver, process, seen>>
    BY <1>28 DEF LookForThread, ServiceType
  <2>2. QED
    BY <1>1, <2>1
    DEF ThreadInv, CancelInv, StopInv, NoteInv, NewestNoteIsKept, At, Watched, WithNote
<1>29. CASE KillThread
  <2>1. /\ process' # "running" \/ (driver.pc = "track" /\ process' = process)
        /\ service'.pc = "idle" /\ service'.cancels = service.cancels
        /\ service'.thread = service.thread /\ service'.killedThread = TRUE
        /\ UNCHANGED <<disk, driver, seen>>
    BY <1>29 DEF KillThread, KillChildren, Signalled, ServiceType
  <2>2. QED
    BY <1>1, <2>1
    DEF ThreadInv, CancelInv, StopInv, NoteInv, NewestNoteIsKept, At, Watched, WithNote
<1>30. CASE AskToStop
  BY <1>2, <1>30 DEF AskToStop
<1>31. CASE FileStop
  <2>1. /\ disk'.stop = TRUE /\ disk'.note = disk.note
        /\ UNCHANGED <<driver, process, service, seen>>
    BY <1>31 DEF FileStop, DiskType
  <2>2. QED
    BY <1>1, <2>1
    DEF ThreadInv, CancelInv, StopInv, NoteInv, NewestNoteIsKept, At, Watched, WithNote
<1>32. CASE AskToSteer
  BY <1>2, <1>32 DEF AskToSteer
<1>33. CASE FileNote
  <2>1. /\ disk'.stop = disk.stop /\ disk'.note = seen.newest + 1
        /\ seen'.newest = seen.newest + 1 /\ seen'.used = seen.used
        /\ seen'.gone = seen.gone /\ seen'.begun = seen.begun
        /\ UNCHANGED <<driver, process, service>>
    BY <1>33 DEF FileNote, DiskType, SeenType
  <2>2. ThreadInv' /\ CancelInv' /\ StopInv'
    BY <1>1, <2>1 DEF ThreadInv, CancelInv, StopInv, At, Watched
  <2>3. /\ \A note \in {driver.note} \union seen.used : note <= seen.newest
        /\ driver.note # 0 => driver.note < seen.newest + 1
        /\ seen.newest + 1 \notin seen.used /\ 0 \notin seen.used
    <3>1. driver.note <= seen.newest /\ \A note \in seen.used : note <= seen.newest
      BY DEF NoteInv
    <3>2. ~(seen.newest + 1 <= seen.newest) /\ driver.note < seen.newest + 1
      BY <1>1, <3>1
    <3>3. 0 \notin seen.used
      BY DEF NoteInv
    <3>4. QED  BY <3>1, <3>2, <3>3
  <2>4. NoteInv'
    BY <1>1, <2>1, <2>3 DEF NoteInv, NewestNoteIsKept, At, Watched, WithNote
  <2>5. QED  BY <2>2, <2>4
<1>34. CASE Crash
  <2>1. /\ driver'.pc = "free" /\ driver'.note = 0 /\ ~driver'.fallback
        /\ process' = "none" /\ ~service'.thread /\ ~service'.cancels
        /\ seen'.newest = seen.newest /\ seen'.used = seen.used
        /\ seen'.gone = seen.gone \union {driver.note} /\ seen'.begun = seen.begun
        /\ UNCHANGED <<disk>>
    BY <1>34 DEF Crash, Idle, SeenType
  <2>2. QED
    BY <1>1, <2>1
    DEF ThreadInv, CancelInv, StopInv, NoteInv, NewestNoteIsKept, At, Watched, WithNote
<1>35. CASE ProcessEnds
  <2>1. /\ process' = "ended" /\ UNCHANGED <<disk, driver, service, seen>>
    BY <1>35 DEF ProcessEnds
  <2>2. QED
    BY <1>1, <2>1
    DEF ThreadInv, CancelInv, StopInv, NoteInv, NewestNoteIsKept, At, Watched, WithNote
<1>36. CASE UNCHANGED acVars
  BY <1>2, <1>36 DEF acVars
<1>37. QED
  BY <1>3, <1>4, <1>5, <1>6, <1>7, <1>8, <1>9, <1>10, <1>11, <1>12, <1>13, <1>14, <1>14t, <1>15,
     <1>16, <1>17, <1>18, <1>19, <1>20, <1>21, <1>22, <1>23, <1>24, <1>25, <1>26, <1>27, <1>28,
     <1>29, <1>30, <1>31, <1>32, <1>33, <1>34, <1>35, <1>36
     DEF AcNext, Drive, Heartbeat, Others

-----------------------------------------------------------------------------
(* The theorems *)

LEMMA CallInvCorrect == AcSpec => []AcInv
<1>1. AcInv /\ [AcNext]_acVars => AcInv'
  BY CallInvInductive
<1>2. QED  BY <1>1, CallInvInitially, PTL DEF AcSpec

\* Once cancel_run has returned, every registered child of the stalled run was sent the signal,
\* however the steps of the worker, the heartbeat and the main thread interleave (_on_stall,
\* watched, kill_thread_children, track_child).
THEOREM CancelReachesChild == AcSpec => []CancelledAgentIsSignalled
<1>1. AcInv => CancelledAgentIsSignalled
  BY DEF AcInv, ThreadInv, CancelInv, CancelledAgentIsSignalled
<1>2. QED  BY <1>1, CallInvCorrect, PTL

\* After a stop request is filed, one more child may start, whose check came before it, and
\* its fallback; crashes and new drives included (_raise_if_cancelled, watched).
THEOREM StopIsHeard == AcSpec => []StopHoldsAtNextStep
<1>1. AcInv => StopHoldsAtNextStep
  BY DEF AcInv, StopInv, StopHoldsAtNextStep
<1>2. QED  BY <1>1, CallInvCorrect, PTL

\* The newest note waits, is with its call, was seen by a call that returned, or went with a
\* finished run or a crash (take_steer_note, create_steer_note in run_requests.py).
THEOREM NewestNoteIsNotLost == AcSpec => []NewestNoteIsKept
<1>1. AcInv => NewestNoteIsKept
  BY DEF AcInv, NoteInv
<1>2. QED  BY <1>1, CallInvCorrect, PTL

-----------------------------------------------------------------------------
(* The files of the change: ScopeRules *)

\* A file is plain, protected, or of one of the sensitive kinds (governance.py).
KindsAreKnown == Kinds \subseteq {"plain", "protected"} \cup Allowable \cup Never

\* The changed files are files: what Implement collects.
ChangedIsFiles == changed \subseteq Files

ClearedInv == ChangedIsFiles /\ PublishesClearedFiles

\* Empty findings, whichever replan or approval emptied them: no sensitive file is left
\* that nobody cleared, and some changed file is in the plan.
LEMMA NoFindingIsCleared ==
  ASSUME KindsAreKnown, ChangedIsFiles, GateAllows, ScopeDecision = "continue"
  PROVE  /\ \A f \in changed \ approved :
              \/ f[2] = "plain"
              \/ f[2] \in Allowable /\ f \in allowed /\ f \in plan.files
         /\ \/ plan.modules = {}
            \/ changed \subseteq approved
            \/ \E f \in changed \ approved : f[1] \in plan.modules
<1>1. Unexpected = {} /\ Sensitive = {}
  BY DEF ScopeDecision, Findings
<1>2. ASSUME NEW f \in changed \ approved
      PROVE  f[2] = "plain" \/ (f[2] \in Allowable /\ f \in allowed /\ f \in plan.files)
  <2>1. f[2] \in Kinds /\ f[2] # "protected"
    BY DEF ChangedIsFiles, Files, GateAllows
  <2>2. f[2] \notin Never /\ (f[2] \in Allowable => f \in Exempt)
    BY <1>1 DEF Sensitive, Looked
  <2>3. QED  BY <2>1, <2>2 DEF KindsAreKnown, Exempt
<1>3. ASSUME plan.modules # {}, ~(changed \subseteq approved)
      PROVE  \E f \in changed \ approved : f[1] \in plan.modules
  <2>1. Looked # {}  BY <1>3 DEF Looked
  <2>2. Outside # Looked  BY <1>1, <2>1 DEF Unexpected
  <2>3. QED  BY <1>3, <2>2 DEF Outside, Looked
<1>4. QED  BY <1>2, <1>3

LEMMA ClearedInductive ==
  ASSUME KindsAreKnown, ClearedInv, [ScopeNext]_scopeVars
  PROVE  ClearedInv'
<1> USE DEF ClearedInv, ChangedIsFiles
<1>1. CASE Implement
  BY <1>1 DEF Implement, PublishesClearedFiles, Change, Files
<1>2. CASE CheckScope
  BY <1>2 DEF CheckScope, Halt, PublishesClearedFiles, Files
<1>3. CASE Replan
  BY <1>3 DEF Replan, Halt, PublishesClearedFiles, Files
<1>4. CASE ReopenScopeApproval
  BY <1>4 DEF ReopenScopeApproval, PublishesClearedFiles, Files
<1>5. CASE Review
  BY <1>5 DEF Review, PublishesClearedFiles, Files
<1>6. CASE PublishChange
  <2>1. changed' = changed /\ approved' = approved /\ allowed' = allowed /\ plan' = plan
    BY <1>6 DEF PublishChange
  <2>2. step' = "published" => GateAllows /\ ScopeDecision = "continue"
    BY <1>6 DEF PublishChange
  <2>3. QED
    BY <2>1, <2>2, NoFindingIsCleared DEF PublishesClearedFiles, Files, Allowable
<1>7. CASE UNCHANGED scopeVars
  BY <1>7 DEF scopeVars, PublishesClearedFiles, Files, Allowable
<1>8. QED
  BY <1>1, <1>2, <1>3, <1>4, <1>5, <1>6, <1>7 DEF ScopeNext

\* A pull request holds no sensitive file that nobody cleared, and is not all beyond the
\* plan, after any order of attempts, replans, halts and approvals (governance.py,
\* scope_replan.py, reopen_scope_approval in run_reopen.py).
THEOREM PublishedFilesAreCleared ==
  ASSUME KindsAreKnown
  PROVE  ScopeSpec => []PublishesClearedFiles
<1>1. ScopeInit => ClearedInv
  BY DEF ScopeInit, ClearedInv, ChangedIsFiles, PublishesClearedFiles
<1>2. ClearedInv /\ [ScopeNext]_scopeVars => ClearedInv'
  BY ClearedInductive
<1>3. ClearedInv => PublishesClearedFiles
  BY DEF ClearedInv
<1>4. QED  BY <1>1, <1>2, <1>3, PTL DEF ScopeSpec

-----------------------------------------------------------------------------
(* The tree of the attempt: AttemptChecks *)

\* The steps of one verification, from its first command to what is done with its result.
Verifying == {"install", "verify", "build", "failed", "gate", "mutating", "revert", "reverted",
              "restore", "compare", "review", "ready"}

\* A verification is of the tree that was collected; between the implementer's end and the
\* first command nobody writes; after the comparison nobody writes.
VerifiedInv ==
  /\ phase = "implemented" => tree = evidence
  /\ phase \in Verifying => verified = evidence
  /\ phase \in {"review", "ready"} => tree = evidence

\* What a verify command does to the tree leaves what is compared with it.
LEMMA CommandsKeepEvidence ==
  ASSUME NEW ok, Runs(ok)
  PROVE  evidence' = evidence /\ verified' = verified
BY DEF Runs

LEMMA VerifiedInductive ==
  ASSUME VerifiedInv, [CheckNext]_checkVars
  PROVE  VerifiedInv'
<1> USE DEF VerifiedInv, Verifying, Go
\* The attempt.
<1>1. CASE InvokeImplementer
  BY <1>1 DEF InvokeImplementer
<1>2. CASE Retained
  BY <1>2 DEF Retained
<1>3. CASE Accepted
  BY <1>3 DEF Accepted
\* The commands.
<1>4. CASE Install
  BY <1>4, CommandsKeepEvidence DEF Install
<1>5. CASE Verify
  BY <1>5, CommandsKeepEvidence DEF Verify
<1>6. CASE VerifyDone
  BY <1>6 DEF VerifyDone
<1>7. CASE Build
  BY <1>7, CommandsKeepEvidence DEF Build
<1>8. CASE Failed
  BY <1>8 DEF Failed
\* The advisory checks: they change the tree, and neither of the trees it is compared with.
<1>9. CASE SkipGate
  BY <1>9 DEF SkipGate
<1>10. CASE Mutate
  BY <1>10 DEF Mutate
<1>11. CASE RemoveMutants
  BY <1>11 DEF RemoveMutants
<1>12. CASE SkipRevert
  BY <1>12 DEF SkipRevert
<1>13. CASE Revert
  BY <1>13 DEF Revert
<1>14. CASE VerifyReverted
  BY <1>14, CommandsKeepEvidence DEF VerifyReverted
<1>15. CASE Restore
  BY <1>15 DEF Restore
<1>16. CASE Compare
  BY <1>16 DEF Compare, Same
\* The review, and the ends of the run.
<1>17. CASE Rejected
  BY <1>17 DEF Rejected
<1>18. CASE Ready
  BY <1>18 DEF Ready
<1>19. CASE Exhausted
  BY <1>19 DEF Exhausted, PublishesTree
<1>20. CASE CrashRun
  BY <1>20 DEF CrashRun
<1>21. CASE Restart
  BY <1>21 DEF Restart
<1>22. CASE RestartedTooOften
  BY <1>22 DEF RestartedTooOften, PublishesTree
<1>23. CASE UNCHANGED checkVars
  BY <1>23 DEF checkVars
<1>24. QED
  BY <1>1, <1>2, <1>3, <1>4, <1>5, <1>6, <1>7, <1>8, <1>9, <1>10, <1>11, <1>12, <1>13, <1>14,
     <1>15, <1>16, <1>17, <1>18, <1>19, <1>20, <1>21, <1>22, <1>23 DEF CheckNext

\* A tree goes to the tester and the reviewer only as it was when its own verification began,
\* whatever the commands, the mutation gate and the revert check did in it, and whatever an
\* earlier attempt, crash or restart left behind (_drive_to_pr_ready in workflow.py).
THEOREM ReviewedTreeWasVerified == CheckSpec => []ReviewsWhatWasVerified
<1>1. CheckInit => VerifiedInv
  BY DEF CheckInit, VerifiedInv, Verifying
<1>2. VerifiedInv /\ [CheckNext]_checkVars => VerifiedInv'
  BY VerifiedInductive
<1>3. VerifiedInv => ReviewsWhatWasVerified
  BY DEF VerifiedInv, Verifying, ReviewsWhatWasVerified
<1>4. QED  BY <1>1, <1>2, <1>3, PTL DEF CheckSpec

=============================================================================
