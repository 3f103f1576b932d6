------------------------------- MODULE Backlog -------------------------------
(***************************************************************************)
(* From the issues of a repository to the runs of one data directory:       *)
(* github_tracker.py, scheduler.py, service.py, cli.py and the entry of       *)
(* workflow.py.  `factory start` polls the issues and gives each its run;     *)
(* `factory run --work-item-id` works on an issue by hand; both share the      *)
(* stored runs and the workspace lock of the work item, and nothing else.       *)
(*                                                                          *)
(* What a worker does between its lease and its end is RunController; the     *)
(* slots, the daily quota, stalls and resumes of the service are               *)
(* FactoryService; how the lock file excludes is WorkspaceLock.                 *)
(***************************************************************************)
EXTENDS Integers, FiniteSets, FiniteSetsExt

CONSTANTS Items,            \* issues, as numbers in the order of their creation
          Labels,           \* the priority labels P0, P1, ... as 0, 1, ...
          Hands,            \* processes of `factory run --work-item-id`
          Capacity,         \* scheduler.max_concurrent_tasks
          MaxWorkers,       \* bound: workers and processes of `factory run` ever started
          MaxEdits,         \* bound: what people do to the issues
          MaxProcessCrashes \* bound: crashes and stops of a process

VARIABLES issues,    \* [open, ready, labels, there]: an issue on GitHub
          jobs,      \* [by, item, id, step]: a worker of the service or a process by hand
          runs,      \* [state, lease]: the run.json of a job, "none" before it is stored
          scheduler, \* [step, active, escalated, abandoned]
          tick,      \* [left, batch, fresh, known, labels]: the cycle of the scheduler
          spent

backlogVars == <<issues, jobs, runs, scheduler, tick, spent>>

Jobs == 1 .. MaxWorkers
AdHoc == 0                                    \* a work item id that no issue has
Held == {"locked", "saved", "working"}        \* steps with the workspace lock
Finished == {"done", "failed", "needs_human"}

NoJob == [by |-> "none", item |-> AdHoc, id |-> AdHoc, step |-> "none"]
NoRun == [state |-> "none", lease |-> "none"]
NoTick == [left |-> {}, batch |-> {}, fresh |-> {}, known |-> {}, labels |-> [i \in Items |-> {}]]

BacklogInit ==
  /\ \E labels \in [Items -> SUBSET Labels] :
       issues = [i \in Items |-> [open |-> TRUE, ready |-> TRUE, labels |-> labels[i], there |-> TRUE]]
  /\ jobs = [j \in Jobs |-> NoJob]
  /\ runs = [j \in Jobs |-> NoRun]
  /\ scheduler = [step |-> "down", active |-> {}, escalated |-> {}, abandoned |-> {}]
  /\ tick = NoTick
  /\ spent = [edits |-> 0, crashes |-> 0]

-----------------------------------------------------------------------------
(* The tracker *)

\* deterministic_work_item_id, and the work item that build_work_item makes of an issue.
WorkItemId(i) == i

\* Mutant of BuildWorkItem: an id of its own, as `factory run` without --work-item-id.
BuildAdHoc(i) == AdHoc

BuildWorkItem(i) == WorkItemId(i)

\* Whether the tracker calls an issue dispatchable: open, and with the required label.
Dispatchable(i) == issues[i].there /\ issues[i].open /\ issues[i].ready

\* The place of an issue in the order of priorities, which has four; the strongest of its
\* labels counts, and an issue without one comes last.
Rank(labels) == IF labels = {} THEN 4 ELSE Min(labels)

\* Work item ids of the stored runs.
Stored == {jobs[j].id : j \in {k \in Jobs : runs[k].state # "none"}}

\* AlreadyRunFilter hides an issue that has a run, from what the tracker lists and from what
\* it answers about single issues.
AlreadyRun(i) == WorkItemId(i) \in Stored

Candidates == {i \in Items : Dispatchable(i) /\ ~AlreadyRun(i)}
Fetched(asked) == asked \cap Candidates

-----------------------------------------------------------------------------
(* The service: recovery, then one cycle after the other *)

Running(j) == jobs[j].step \in Held \cup {"starting"}

\* A process of `factory run` whose pid is alive.
Alive(hand) == \E j \in Jobs : jobs[j].by = hand /\ Running(j)

\* _held_by_other_live_process: by the lease of run.json.
HeldByOther(r) == runs[r].lease \in Hands /\ Alive(runs[r].lease)

\* default_recovery_decision, of an attended run.
Decision(r) == IF runs[r].state \in Finished \/ HeldByOther(r) THEN "leave" ELSE "needs_human"

\* Scheduler.recover: the runs whose decision is to halt them.
Abandoned == {r \in Jobs : runs[r].state # "none" /\ Decision(r) = "needs_human"}

\* factory start, with or without --once: recovery comes before any cycle.
StartService ==
  /\ scheduler.step = "down"
  /\ scheduler' = [step |-> "recovering", active |-> {}, abandoned |-> Abandoned,
                 escalated |-> {jobs[r].id : r \in Abandoned} \ {AdHoc}]
  /\ UNCHANGED <<issues, jobs, runs, tick, spent>>

\* recover_abandoned_run, of the run as it is stored now.
RecoverAbandoned ==
  /\ scheduler.step = "recovering"
  /\ \E r \in scheduler.abandoned :
       /\ runs' = IF runs[r].state \in Finished THEN runs
                  ELSE [runs EXCEPT ![r] = [state |-> "needs_human", lease |-> "none"]]
       /\ scheduler' = [scheduler EXCEPT !.abandoned = @ \ {r}]
  /\ UNCHANGED <<issues, jobs, tick, spent>>

BeginPolling ==
  /\ scheduler.step = "recovering" /\ scheduler.abandoned = {}
  /\ scheduler' = [scheduler EXCEPT !.step = "idle"]
  /\ UNCHANGED <<issues, jobs, runs, tick, spent>>

\* _is_eligible, against the stored runs that were read last.
Eligible(i, known) ==
  /\ i \notin scheduler'.active /\ i \notin scheduler.escalated
  /\ WorkItemId(i) \notin known

Working(i) == \E j \in Jobs : jobs[j].by = "service" /\ jobs[j].item = i /\ Running(j)

\* The beginning of tick: reconcile what is active, then list and sort the candidates.
SelectCandidates ==
  /\ scheduler.step = "idle"
  /\ LET active == {i \in scheduler.active : Working(i)} IN
     \/ /\ Cardinality(active) >= Capacity /\ active # scheduler.active
        /\ scheduler' = [scheduler EXCEPT !.active = active] /\ UNCHANGED tick
     \/ /\ Cardinality(active) < Capacity
        /\ scheduler' = [scheduler EXCEPT !.active = active, !.step = "selected"]
        /\ tick' = [NoTick EXCEPT !.left = {i \in Candidates : Eligible(i, Stored)},
                                  !.labels = [i \in Items |-> issues[i].labels]]
  /\ UNCHANGED <<issues, jobs, runs, spent>>

Before(i, j) ==
  \/ Rank(tick.labels[i]) < Rank(tick.labels[j])
  \/ Rank(tick.labels[i]) = Rank(tick.labels[j]) /\ i < j

\* The first n of a set in the order of the scheduler.
FirstOf(S, n) == {i \in S : Cardinality({j \in S : Before(j, i)}) < n}

\* _revalidate_batch asks the tracker again about as many as there are slots, and the
\* stored runs are read again.
Revalidate ==
  /\ scheduler.step = "selected" /\ tick.left # {} /\ Cardinality(scheduler.active) < Capacity
  /\ LET batch == FirstOf(tick.left, Capacity - Cardinality(scheduler.active))
     IN  tick' = [tick EXCEPT !.left = @ \ batch, !.batch = batch, !.fresh = Fetched(batch),
                              !.known = Stored]
  /\ scheduler' = [scheduler EXCEPT !.step = "revalidated"]
  /\ UNCHANGED <<issues, jobs, runs, spent>>

\* gh fails, or answers what cannot be read: the cycle ends and the next one begins anew.
TrackerFails ==
  /\ scheduler.step = "selected"
  /\ scheduler' = [scheduler EXCEPT !.step = "idle"] /\ tick' = NoTick
  /\ UNCHANGED <<issues, jobs, runs, spent>>

NextJob(j) == jobs[j].step = "none" /\ \A k \in Jobs : k < j => jobs[k].step # "none"

\* Reserve an issue and hand it to a worker, or skip it as stale.
Claim ==
  /\ scheduler.step = "revalidated" /\ tick.batch # {}
  /\ \E i \in FirstOf(tick.batch, 1) :
       /\ tick' = [tick EXCEPT !.batch = @ \ {i}]
       /\ IF i \in tick.fresh /\ i \notin scheduler.active /\ WorkItemId(i) \notin tick.known
          THEN \E j \in Jobs :
                 /\ NextJob(j)
                 /\ jobs' = [jobs EXCEPT ![j] = [by |-> "service", item |-> i,
                                                 id |-> BuildWorkItem(i), step |-> "starting"]]
                 /\ scheduler' = [scheduler EXCEPT !.active = @ \cup {i}]
          ELSE UNCHANGED <<jobs, scheduler>>
  /\ UNCHANGED <<issues, runs, spent>>

\* The next batch of the cycle, or the wait for the next cycle.
EndBatch ==
  \/ /\ scheduler.step = "revalidated" /\ tick.batch = {}
     /\ scheduler' = [scheduler EXCEPT !.step = "selected"] /\ tick' = [tick EXCEPT !.fresh = {}, !.known = {}]
     /\ UNCHANGED <<issues, jobs, runs, spent>>
  \/ /\ scheduler.step = "selected" /\ (tick.left = {} \/ Cardinality(scheduler.active) >= Capacity)
     /\ scheduler' = [scheduler EXCEPT !.step = "idle"] /\ tick' = NoTick
     /\ UNCHANGED <<issues, jobs, runs, spent>>

-----------------------------------------------------------------------------
(* A worker, and `factory run`: WorkflowController.run *)

StartByHand ==
  /\ \E hand \in Hands, i \in Items, j \in Jobs :
       /\ ~Alive(hand) /\ NextJob(j)
       /\ jobs' = [jobs EXCEPT ![j] = [by |-> hand, item |-> i, id |-> i, step |-> "starting"]]
  /\ UNCHANGED <<issues, runs, scheduler, tick, spent>>

LockHeld(id) == \E k \in Jobs : jobs[k].id = id /\ jobs[k].step \in Held

StepTo(j, step) == jobs' = [jobs EXCEPT ![j].step = step]
Store(j, state, lease) == runs' = [runs EXCEPT ![j] = [state |-> state, lease |-> lease]]

\* A lock that is held leaves no run behind; a workspace that cannot be, a failed one.
AcquireLock(j) ==
  /\ jobs[j].step = "starting"
  /\ \/ LockHeld(jobs[j].id) /\ StepTo(j, "ended") /\ UNCHANGED runs
     \/ ~LockHeld(jobs[j].id) /\ StepTo(j, "locked") /\ UNCHANGED runs
     \/ StepTo(j, "ended") /\ Store(j, "failed", "none")
  /\ UNCHANGED <<issues, scheduler, tick, spent>>

StoreRun(j) ==
  /\ jobs[j].step = "locked" /\ StepTo(j, "saved") /\ Store(j, "created", "none")
  /\ UNCHANGED <<issues, scheduler, tick, spent>>

\* The delivery repository and the worktree; the lease is stored when both are ready.
PrepareRun(j) ==
  /\ jobs[j].step = "saved"
  /\ \/ StepTo(j, "working") /\ Store(j, "created", jobs[j].by)
     \/ StepTo(j, "ended") /\ \E state \in {"failed", "needs_human"} : Store(j, state, "none")
  /\ UNCHANGED <<issues, scheduler, tick, spent>>

\* A worker stores its own copy of the run, whatever run.json holds meanwhile.
Work(j) ==
  /\ jobs[j].step = "working"
  /\ \/ Store(j, "created", jobs[j].by) /\ UNCHANGED jobs
     \/ StepTo(j, "ended") /\ \E state \in Finished : Store(j, state, "none")
  /\ UNCHANGED <<issues, scheduler, tick, spent>>

-----------------------------------------------------------------------------
(* Around it *)

CrashProcess ==
  /\ spent.crashes < MaxProcessCrashes
  /\ \E who \in Hands \cup {"service"} :
       /\ IF who = "service" THEN scheduler.step # "down" ELSE Alive(who)
       /\ jobs' = [j \in Jobs |-> IF jobs[j].by = who /\ Running(j)
                                  THEN [jobs[j] EXCEPT !.step = "ended"] ELSE jobs[j]]
       /\ IF who = "service"
          THEN /\ scheduler' = [step |-> "down", active |-> {}, escalated |-> {}, abandoned |-> {}]
               /\ tick' = NoTick
          ELSE UNCHANGED <<scheduler, tick>>
  /\ spent' = [spent EXCEPT !.crashes = @ + 1]
  /\ UNCHANGED <<issues, runs>>

\* People close, reopen, label and delete issues.
EditIssue ==
  /\ spent.edits < MaxEdits
  /\ \E i \in Items :
       /\ issues[i].there
       /\ \/ issues' = [issues EXCEPT ![i].open = ~@]
          \/ issues' = [issues EXCEPT ![i].ready = ~@]
          \/ issues' = [issues EXCEPT ![i].there = FALSE]
          \/ \E labels \in SUBSET Labels :
               labels # issues[i].labels /\ issues' = [issues EXCEPT ![i].labels = labels]
  /\ spent' = [spent EXCEPT !.edits = @ + 1]
  /\ UNCHANGED <<jobs, runs, scheduler, tick>>

BacklogNext ==
  \/ StartService \/ RecoverAbandoned \/ BeginPolling
  \/ SelectCandidates \/ Revalidate \/ TrackerFails \/ Claim \/ EndBatch
  \/ StartByHand \/ (\E j \in Jobs : AcquireLock(j) \/ StoreRun(j) \/ PrepareRun(j) \/ Work(j))
  \/ CrashProcess \/ EditIssue

BacklogSpec == BacklogInit /\ [][BacklogNext]_backlogVars

-----------------------------------------------------------------------------
(* Properties *)

\* The service makes one run of an issue for as long as its data directory lives, though an
\* issue stays open and labelled after its run: whatever ends between the claim and the
\* stored run, who else works on the issue by hand, and however often the service restarts.
ServiceRunsAnIssueOnce ==
  \A i \in Items :
    Cardinality({j \in Jobs : /\ jobs[j].by = "service" /\ jobs[j].item = i
                              /\ runs[j].state # "none"}) <= 1

(* Promises of the documentation that the code does not keep: each can be refuted. *)

\* "A run still held by another live process on this host (a manual factory run) is not
\* abandoned, so it is left alone" (service.py, default_recovery_decision): while a process
\* holds the workspace of a run, nobody else halts the run.
LiveRunsAreLeft ==
  [][\A r \in Jobs : jobs[r].step \in Held /\ runs[r].state # "needs_human" /\ jobs'[r] = jobs[r]
                       => runs'[r].state # "needs_human"]_backlogVars

\* "an item is dispatchable at most once per data directory: any persisted FactoryRun for its
\* deterministic work item id (finished or not) makes it ineligible" (service.py,
\* AlreadyRunFilter): the service stores no run of an issue that has one.
StoredRunsAreRespected ==
  [][\A j \in Jobs : jobs[j].by = "service" /\ runs[j].state = "none" /\ runs'[j].state # "none"
                       => jobs[j].id \notin Stored]_backlogVars

=============================================================================
