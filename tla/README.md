# A TLA+ development of the software agent factory

The factory takes work items from a backlog, drives each through a bounded
plan / implement / verify / review loop of agent calls in its own Git worktree,
publishes the accepted work as a pull request, watches CI, repairs it, and
merges or hands the run to a person. It must do so through crashes, stalled
agent calls, lost answers of GitHub, replies of people at any moment, and
several runs at once.

This directory models that control logic in TLA+, checks it with TLC on small
instances and proves some of it for every instance with TLAPS. The modules are
translated from the Python code under `src/src/software_agent_factory/`;
`PROJECT.json` names the source lines behind every definition.

## 1. The system

### Components

| Component | Source | State it keeps | Operations |
|---|---|---|---|
| Run lifecycle | `lifecycle.py` | state and completion stamp of a run | the transition table, the finished predicate |
| Workflow controller | `workflow.py`, `run_context.py`, `scope_replan.py` | run.json (`FactoryRun`), artifacts, the in-memory `RunContext` | prepare, triage, route, plan, implement, verify, scope, review, accept, end |
| Delivery | `pr_delivery.py`, `publishing.py`, `git_publish.py`, `delivery.py`, `merging.py` | publication receipt, branch, pull request | gates, record the commit, move the branch, push, open, watch CI, repair, merge |
| Restart recovery | `run_recovery.py` | `restart_recoveries`, attempt records | resume, restart, count the interrupted call, end the run |
| Reopening, operator escalation | `run_reopen.py`, `ci_repair_retry.py`, `resume*.py`, `operator_escalation.py` | escalation record, grants, routes | reopen (seven classes), fail the reopen, escalate |
| Escalation protocol | `escalation*.py`, `halt_contexts.py`, `resume_writes.py` | notices, reply cursors, receipts, dashboard requests | notify, poll, accept, settle |
| Factory service | `service.py`, `run_handle.py` | handles, interrupted runs, registration of work for the stall check, executor | recover, resume, reopen, accept, submit, stall, settle |
| Scheduler | `scheduler.py` | active reservations, excluded items | tick: reconcile, stall, claim, dispatch; daily quota |
| Run store | `store.py`, `atomic_write.py` | files of the data directory | atomic save and load |
| Workspace | `workspace.py` | worktree, branch, file lock | prepare, lock, collect evidence |
| Review ledger | `review_ledger.py`, `report_models.py` | findings and their state | fold, accept, converge |
| Request files | `run_requests.py` | create-only stop and steer files | file, take, put back |
| Projects | `projects.py`, `project_models.py` | plan, execution record, integration branch | plan, run a wave, integrate, skip, resume |
| Repository setup | `setup_run.py` | setup worktrees, the last proposal | check, apply, publish |
| Routing and models | `routing.py`, `config.py` | none | decide a route, choose the model of an attempt |
| Checks and scope | `verification.py`, `mutation_gate.py`, `revert_check.py`, `governance.py` | the worktree they run in, approved paths | verify, mutate, revert, assess |
| Agent runtimes | `*_runtime.py`, `pi_*.py` | subprocesses and sessions | call, stream, cancel |
| Dashboard, CLI, observability | `dashboard/`, `cli.py`, `observability.py`, ... | none of their own | read run.json, write request files |

### How they interact

The command line or the service calls the controller. The controller drives one
run on one thread, holding the file lock of its workspace, and saves run.json
after each step. Artifacts, the worktree, GitHub and run.json survive a crash;
the `RunContext`, the handles, the reservations and the stop flags do not. The
service runs one main thread (recover, then cycle after cycle) and one or two
worker threads; both write service memory, and completion callbacks of the
executor run on whichever thread ends a job. People act through request files
and GitHub replies that the main thread polls, and through `factory escalate`.

### What is hard

- A crash between any two saves: what recovery finds must be something it can go
  on with, without pushing what nobody reviewed and without giving away budget.
- Budgets, grants, replans, polish attempts, restarts, reopens and escalations
  all count on the same attempt records.
- Approval belongs to a tree. The tree changes by repairs, edits, reopens and
  resets, and the acceptance must not follow it to other work.
- The publication is several remote steps, each of which may happen and lose its
  answer.
- The service acts on a listing of runs while the workers change them; a stall
  check, a completion callback and a new dispatch of the same run meet in any
  order.

`PROJECT.json` lists these as hazards, each at its line with the properties that
would catch it.

### What makes each component correct

- Lifecycle: every change of a run is one of the declared moves.
- Controller: bounded calls of the implementer; the route never moves down.
- Delivery: what is pushed was accepted, or is flagged for a person; what is
  merged was recorded, accepted and unflagged.
- Recovery: every interrupted run comes to an end; restarts end.
- Service, scheduler and backlog: the service runs an issue once; no unfinished
  run is forgotten; a stall stops only the work it was found in; requests are
  acted on; the daily limit holds up to a known excess; completed work wakes the
  loop.
- Publication and merge: the recorded commit, and only it, reaches its repository,
  whatever answer is lost; a reported merge is proven.
- Escalation: each episode is decided once, by a receipt that stays; no reply, no
  notice and no reopen is forgotten; a decision is applied only to the facts it
  was made on.
- Workspace: one owner; git knows every worktree; the change is measured from
  where its branch left the repository.
- Agent calls: a cancelled child dies, a stop holds, the newest note is kept, a
  continued session holds the request and nothing else.
- Review, scope and checks: what is reviewed is what was verified; what is
  published was cleared; findings of a blocked category reach a person.
- Projects: a change on the branch is never a rejected task, and no task is left
  out silently.

## 2. The modules

`RunController` is one run at the granularity of its saves. The modules beside it
open what it takes as one choice or one step; `FactoryService` is the level above,
where a whole drive of a run is one phase.

| Module | Lines of the code it opens | Seen from `RunController` or the service as |
|---|---|---|
| `RunLifecycle` | the transition table and the moves outside it | the abstract specification of a run |
| `RunController` | `workflow.py`, `pr_delivery.py`, `run_recovery.py`, `run_reopen.py` | itself |
| `FactoryService` | `service.py`, `scheduler.py` | the loop, the executor and its threads over several runs |
| `Backlog` | `github_tracker.py`, the claim and dispatch, `factory run` | the choice of the next item |
| `ResumeEpisodes` | | the abstract specification of the decisions on one run |
| `Escalation` | `escalation.py`, `resume_writes.py` | an accepted reply |
| `HaltDecisions` | `halt_contexts.py`, `resume*.py`, the reopeners, the dashboard's page | the class of a halt and a reopen |
| `PublicationSteps` | | the abstract specification of a publication |
| `Publication` | `publishing.py`, `git_publish.py`, `git_safety.py` | RecordCommit, MoveBranch, Push, OpenPullRequest |
| `Merging` | `merging.py`, the CI observer of `delivery.py` | Finish and the poll of CI |
| `AgentCall` | the runtimes, `run_requests.py`, stall and heartbeat | an agent call that returns, fails or is interrupted |
| `PiSessions` | `pi_sessions.py`, `pi_runtime.py`, `pi_rpc.py` | the prompt of an agent call |
| `AttemptChecks` | `_verify`, `mutation_gate.py`, `revert_check.py` | a verification that passes or fails |
| `ReviewRounds` | `review_ledger.py` and the review loop | a review and what it leaves open |
| `ScopeRules` | `governance.py`, `scope_replan.py` | a scope assessment |
| `RouteRules` | `routing.py` | DecideRoute and the model of an attempt |
| `Exclusion` | | the abstract specification of a lock |
| `WorkspaceLock` | `acquire_lock`, `release_lock` of `workspace.py` | one driver per run |
| `Worktrees` | the rest of `workspace.py` | Prepare and the reset of a worktree |
| `SetupRun` | `setup_run.py` | nothing: it shares the repository |
| `Projects` | `projects.py` | nothing: it starts runs and takes their commits |
| `MCRunController`, `MCRunFinishes`, `MCFactoryService`, `MCEscalation`, `MCRepository`, `MCWork` | | instances for TLC |
| `RunController_proofs`, `AcceptedWork_proofs`, `FactoryService_proofs`, `Escalation_proofs`, `Repository_proofs`, `MCRepository_proofs`, `Work_proofs`, `MCWork_proofs` | | theorems |

### RunController

The variables are grouped as the code keeps them: run.json (`life`, `routing`,
`attempts`, `counts`, `needsLook`, `ledger`, `receipt`), artifacts (`stored`),
worktree and GitHub (`repo`), and the thread (`pc`, `ctx`). `pc` names the next
step of the thread and `ctx` is the part of `RunContext` that decides anything.
A step ends where the code saves run.json, so an `Interrupt` falls between any
two saves: it drops `pc` and `ctx` and keeps the rest. An interruption stands
for a crash of the process and for a stall that stops the agent.

- `Work`: `Prepare`, `Triage`, `DecideRoute`, `Gate`, `Synthesize`, `Plan`, the
  attempt loop (`BudgetEnds`, `StartAttempt`, `ImplementerReturns`,
  `VerifyFails`, `VerifyPasses`, `ScopeReplan`, `ScopeHalts`, `Replan`,
  `ScopePasses`), the review (`SkipReview`, `RepairDiffFails`, `Review`,
  `AcceptFindings`, `KeepImpasse`, `HaltOnImpasse`, `RepairFindings`, `Approve`).
- `Deliver`: the two gates before publication, `RecordCommit`, `MoveBranch`,
  `Push`, `OpenPullRequest`, `SavePublished`, `PullRequestCreated`, the CI loop,
  `LeaveOpen`, `Finish` and `SaveMerge`. `Push`, `OpenPullRequest` and `Finish`
  may act and lose the answer.
- `Recover`: `RecoverAbandoned`, `CountRestart`, `CountInterruptedAttempt`,
  `EndRestarted`, `RestartFromScratch`, `RestartAtPlanning`, `RestartFails`,
  `ResumeDelivery`. `RecoverAbandoned` is also the refusal of a resume
  (`_abandon_resume`): a changed delivery policy, another repository or an unusable
  worktree stops any run for a person, an unattended one with an open pull request
  too (ADR-043). So does `StopInterrupted` when the stored context cannot be read,
  and `RepairDiffFails` in the review of a repair.
- `Person`: one action per resume class out of NEEDS_HUMAN, `FailReopen`,
  `Escalate`, `StopRequested`. `EditWorktree` is anything outside the factory
  that changes or loses the worktree.

A Git tree stands for the contents of the worktree, and a commit for its tree.
Findings are the tree they were found in and a policy verdict. What an agent, a
verification, a reviewer or GitHub answers is a choice. `cleared` (trees a
review or a person accepted), `calls` (implementer calls) and `escalated` (trees that
a run held without an acceptance when a person escalated it, flagged as it was) are
history: no action reads them. `pc = "raised"` is a `TransitionError` that leaves the thread.

### FactoryService

The disk holds the run of each item (none, working, waiting for a person,
reopened, finished), its accepted receipts and one pending request. The main
thread's program counter `pc` goes through the parts of a cycle: begin, list,
resume, reopen, ingest (`reconcile_escalation`), tick, stall, claim, dispatch
(`Scheduler.tick`), wait. Each part handles its items (`todo`) one at a time, so
workers move in between, while `listed` keeps the stale listing of the cycle.

A job is one call of `_submit`. Its phases are the points the other thread can
see: queued, started, driving, hung, halted (outcome saved, lock held),
returned, done (the future is done, its callback has not run). `handle` is
`_handles`, `runIds` is `_run_ids`, `cancels` is the controller's stop flags,
`interrupted` is `_interrupted`, `active` and `escalated` are the scheduler's.
A job that drives its run is one abstract phase here and `RunController` in
detail: `Halt` stands for every end of a drive, `ResumeRun` for a resume that
goes on, is put back or raises, and `Crash` for the loss of everything not on
disk.

`stopped` (jobs a stall stopped) and `lost` (runs this process will not drive
again: a resume that raised an exception nobody handles, or a stall that found
nobody to stop) are history.

### Backlog

`scheduler` polls: `SelectCandidates` lists and orders the issues by their labels,
`Revalidate` reads one again, `Claim` excludes it (`AlreadyRunFilter`, the
reservations). A job of the service or of a person takes the workspace lock,
stores its run, prepares and works; the lease of the lock is taken before the run
is stored, and that order is kept. `CrashProcess` ends the service or a process anywhere;
`EditIssue` is what people do to issues between the calls.

### Escalation and ResumeEpisodes

Two actors work on run.json without a lock of it. Each keeps the copy it read
first (`actor`), because `deliver_escalation_notification` saves that copy whole.
A step ends at a save or a call of GitHub. The thread is a sequence of comments
that grows, and from which comments may be deleted; the reply cursor is a time and
the set of comments seen at it, as in the code. `ResumeEpisodes` says what it comes
to: an episode is decided once, by a receipt that is never taken back, and only a
decided episode sets the run working again. It holds where no operator escalates.

### HaltDecisions

A halt is classified from the state, the reason, the counters and the stored
impasse; its context keeps the versions of what the person sees. The page, the
request and the reopen carry that context, and each compares what the code
compares. A tree is the number of the write that made it, so every later edit is
another tree.

### Publication, PublicationSteps and Merging

A commit is the sequence of commits it was made on, so "continues the published
history" is a prefix. Every call may fail before or after it took effect, a push
may arrive late, a process may crash, and other people move the branch, the remote
and the pull requests. `Publication` implements `PublicationSteps`. `Merging` reads
CI, the pull request and the policy of the branch in separate calls, with changes
between any two; GitHub's rule for a merge is external.

### AgentCall and PiSessions

`AgentCall` has four actors: the worker, the heartbeat, the main thread and people.
A step ends where another actor can see it: the file of a request, the sets of the
controller, the child process. `PiSessions` keeps what a session file holds and
what its record says it was sent; a call that dies leaves the two different.

### AttemptChecks, ReviewRounds, ScopeRules, RouteRules

`AttemptChecks` keeps the tree of four kinds of path through the commands, the
mutants and the reverted change. `ReviewRounds` keeps a ledger list as a function
on the ids of findings; a report is the drafts of a review, by category, place and
origin. `ScopeRules` compares four things that different actors change: the files,
the plan, the approvals and the configuration. `RouteRules` states the rules of a
route and of the model of an attempt, over option lists and worker maps that the
configuration accepts.

### WorkspaceLock, Exclusion, Worktrees

In `WorkspaceLock` every system call is a step. The path names a file or none, a
process may hold the flock of a file that the path no longer names, and death
closes the descriptor. It implements `Exclusion`, a lock in four lines. `Worktrees`
runs prepare and discard of several items beside one another, one Git command at a
step, under the lock of the repository where the code takes it.

### SetupRun and Projects

`SetupRun` has the check of a service, a second checker and the command line; the
worktree of a HEAD with its lock; and the file that remembers the last proposal.
`Projects` ends a step at each save of execution.json and each change of a branch.
A branch is the sequence of its commits, and a pick either keeps the patch or
adapts it, which decides whether a resume can find it.

## 3. What the runs check

### Passing runs

| Run | Instance | Shows |
|---|---|---|
| `AttendedRun` | two attempts, a CI repair, a replan, two review rounds, one interruption, one edit, one reopen, merging on; no escalation | types; pushes and merges only of accepted work |
| `UnattendedRun` | one attempt, one CI repair, two interruptions, one edit; and, with an operator's escalation, one interruption and one edit | budgets through restarts; the refinement of `RunLifecycle`; the branch holds accepted or flagged work; a run that is done and not flagged delivered |
| `RunFinishes` | unattended with a pull request; and a local run with a polish attempt | a run ends, except where a transition raises (liveness) |
| `ServiceRun` | two items, one thread, one attended and one unattended run, a hang, a GitHub error, a crash, replies | no unfinished run forgotten; bounded quota excess; a stall ends only what stalled |
| `ServiceSettles` | one item, two threads, the same faults | every run and request settles (liveness); finished work wakes the loop |
| `EscalationRun` | paged replies, one fault, one crash, one more halt, a lowered limit; and a second instance where an escalation and a deleted thread race requests | the refinement of `ResumeEpisodes`; answers and requests agree with the run; replies are taken, episodes settle (liveness) |
| `RepositoryRun` | publication, merge, setup, project, lock and worktrees | what several processes and people do to one repository |
| `WorkRun` | dispatch, agent call, sessions, checks, review, scope, decisions and route | what happens around the work on one issue |

`MCRepository` and `MCWork` put several modules into one run of TLC. They do not
interact there: `which` names the module a behaviour belongs to. `MCRepository`
extends `WorkspaceLock` and `Publication`, `MCWork` extends `Backlog`, `AgentCall`,
`AttemptChecks` and `ScopeRules`: the constants and properties of these are the ones
the theorems are about. The others are instances over the variables `a`, `b`, ...,
in the order each declares its own. What a behaviour does not use stays 0. Each
property is its module's property for the behaviours of that module. A property of actions is stated on the part without the
subscript (`SavesDescribed`, `EnforcesChecks`, `ResumesAsShown`), and the subscript
is all the variables.

CHECK_DEADLOCK is FALSE where the system may stop: a run that ended, a publication
that is done, an environment that is used up. The service never stops, so its runs
check deadlock.

### What the properties of the two composed runs say

- `PublishesInOrder`: nothing is shown that is not recorded, and nothing counts
  that is not shown, through lost answers, late pushes, crashes and other writers.
- `ReachesOnlyItsRepository`: an authorized run shows its work in one repository
  only, and is refused for the branch, the commit or the remote only when somebody
  changed them.
- `PublishesWhatWasReviewed`: reviewed, pushed, described and saved are one tree.
- `ReportedMergeIsProven`, `MergesOnlyEnforced`: a run that reports a merge had
  every required check on the reviewed head; the factory's own merge is one GitHub
  enforces them on, unless a person changed something after the policy was read.
- `PublishesOwnSetup`: the process that publishes a setup worktree applied the plan
  in it, although the lock goes back in between.
- `RejectedIsNotIntegrated`, `NoTaskIsMissing`: after any crash, a rejected task is
  not on the branch, every task that is not there is named, and a child starts from
  all it depends on.
- `IsALock`, `DirectoriesAreRegistered`, `ChangeIsWhole`: the workspace.
- `ServiceRunsAnIssueOnce`: one run by the service of an issue, which stays open and
  labelled, beside runs by hand, edits and crashes.
- `CancelledAgentIsSignalled`, `StopHoldsAtNextStep`, `NewestNoteIsKept`: when the
  cancel of a stall has returned, every registered child was sent SIGTERM (once; a
  child may ignore it, and then runs on); after a stop request one more child may
  start, whose check came first; the newest note is where a call can take it.
- `HoldsTheRequest`: a continued session holds the request and no section of a
  round that ended.
- `ReviewsWhatWasVerified`: reviewer and publication get the tree whose verification
  began and ended with it.
- `SafetyFindingsNeedPerson`: an attended run delivers no finding of a blocked
  category, unless a person looked or the reviewer called it resolved. A ledger at
  its limit drops the findings it cannot hold; those are exempted.
- `PublishesClearedFiles`: what is published was planned or cleared by a person.
- `OneAttemptPerGrant`, `ActsOnWhatWasShown`: decisions of a person.
- `RoutingIsMonotone`: a triage that is neither simpler nor less risky, and needs an
  approval where the other does, never gets a lighter route, for any table of
  approvals; a later attempt never gets an earlier model.

### Bounds

The constants `Max...` bound what the environment does; the others are settings of
the factory. `MaxTroubles`, `MaxChances` and the like are one supply for several
kinds of event (crashes, failed fetches, deletions by hand): one such event at a
time reaches every pair of steps, and the runs with two (`UnattendedRun`,
`Publication`, `AttemptChecks`) reach an event during the recovery from another.

- Controller: the second interruption of `UnattendedRun` exceeds
  `MaxRestartRecoveries = 1`. With an operator's escalation the whole product is too
  large, so `EscalatedRunBounds` bounds what a run does once it has been escalated:
  one interruption, one tree besides the base, a triage and a plan that ask nothing,
  and a CI that does not fail (nothing is repaired). An escalation, an interruption
  and an edited or lost worktree still come together, in every order, the 38 steps of
  section 4 among them. What the bounds leave out is proved
  (`PullRequestCorrect`, `DeliveryCorrect`). Three trees are the base, the
  accepted work and something else; a property compares at most two with one another.
- Service: two items compete for one thread, and one item on two threads meets its
  own predecessor; three jobs are a stuck one, its successor and one in the queue.
- Escalation: a page of one comment and two comments make a page end between them;
  five episodes are more than its halts, reopens and escalations open.
- Publication: two faults are a lost answer and a failure of what looks for it; two
  revisions are a publication on top of another.
- Lock: three processes are an owner, one with the file of an earlier owner and one
  with a new file; three files are one for each; two retries run out.
- Projects: three tasks in waves of two give a dependent, an independent and a
  second wave. Worktrees: two items, of which one prunes while the other adds.
- Backlog: two issues, two jobs, one person. Agent calls: two notes, a stop, a
  stall. Sessions: three calls, so that a continued session is continued again.
- Review: two rounds and two attempts give a repair of a repair; two open findings
  and one accepted exceed the ledger. Scope: four kinds of file in two modules.
- Decisions: one reserved attempt, two episodes and one chance for each kind of
  trouble let a run halt again after a granted attempt.
- Routes: three levels, so that there is one between the least and the highest.

The instances of `MCWork` take these bounds, the option lists and the worker maps as
constants, to which `WorkRun.cfg` gives values, so that its theorems are for all of them.

Trees other than the base and jobs are symmetric in the safety runs of their
modules and never in the liveness runs.

### Fairness

`RunController`: weak fairness of `Work \/ Deliver \/ Recover`. A thread goes on
until its run ends or is interrupted, and a restarted factory recovers what it
finds. Nothing obliges a person, a crash or an edit.

`FactoryService`: weak fairness of the main thread (it polls for ever and every
wait has a timeout), of each worker (its phases end by themselves; a hung call
ends only when the stall check stops it, `ComeBack` is not fair) and of the
calendar (`NewDay`), because the daily quota may have to refill.

`Escalation`: weak fairness of `Service` (the main thread's cycle), `Reopen` (a
dispatched reopen is started) and `Drive` (its driver goes on). Comments, faults,
crashes and time are not obliged to happen.

### Runs that refute a promise

Each checks one promise of a document or comment that the code does not keep.

| Run | The promise | What happens |
|---|---|---|
| `SingleRouteDelivers` | verification can accept a SINGLE run | the skipped review records no reviewed tree, so the publication is refused |
| `InterruptedRunsFinish` | resume handles CI_DIAGNOSIS (ADR-043) | `ci_loop` asks for a transition the table refuses; the same exception leaves a run whose restart fails in VERIFYING, REVIEWING or PLANNING with its pull request open. The run stays unfinished at every restart |
| `StallStopsAgent` | a stall stops the stalled run's agent | the late callback of the run's previous job unregistered the new one |
| `ApprovedWorkPassesScope` | approved work passes the scope check (ADR-060) | approved paths leave the set that is compared with the plan; what is left of the same work may be "all outside" it, which it was not before |

### Promises that are stated without a run

Under "Promises of the documentation that the code does not keep", the modules
state more of this kind. A reader who puts one into a configuration of its module
gets the behaviour from TLC.

| Property | What breaks it |
|---|---|
| `Escalation!OneNoticePerEpisode` | the driver and the main thread both list the comments before either posts (`workflow.py:1181`, `escalation.py:825`) |
| `AgentCall!HaltedRunStaysHalted` | a heartbeat that last looked for a stop request before the halt saves its copy of the run after it (`run_watch.py:190`) |
| `SetupRun!OneProposalPerPlan` | the state file remembers one proposal, and forgets it with the next plan |
| `Projects!ReasonsAreCopied` | a crash between the record of a task and its reasons |
| `Worktrees!RecordedBaseFits` | a base recorded for an earlier branch still exists as a commit, which is all that is checked; the change is then measured from too early, not too late |
| `PiSessions!ContinuesOnlyAnswered`, `CountsItsOwnRound` | a call whose end was not recorded is followed by one that continues the file |
| `AttemptChecks!NothingGeneratedIsReviewed` | a file of a command, or mutants/ of a crashed gate, is part of the next attempt's evidence |
| `AttemptChecks!PublishesTheChange` | a crash while the change is reverted; a run restarted too often is published as it is |
| `ReviewRounds!PersonsAcceptancePasses` | a CI repair carries a person's acceptance forward under a reason the delivery check does not exempt |
| `ReviewRounds!RegressionsNeedPerson` | a regression with the id of a finding that was accepted before is taken for that one |
| `HaltDecisions!FailedRetryMayBeRetried` | a repair that uses up its attempts halts while it is implementing, and a retry is only offered to a run that halts on CI (`halt_contexts.py:464`) |
| `Backlog!LiveRunsAreLeft` | a run by hand that is stored but has no lease yet when the service starts (`workflow.py:655`) |
| `Backlog!StoredRunsAreRespected` | a run by hand of a claimed issue ends before the service's worker takes the lock |
| `FactoryService!CancelsNoResume`, `UnfinishedRunsAreHeld`, with two tasks and two reopens of a run | "It never queues a run behind the stall check" (`docs/decisions.md:1435`): a reopen from the stale listing of a cycle, see the other facts |

### Other facts that came out of the models

Controller and delivery: an escalation keeps the receipt of an unfinished
publication, which then refuses the new work (`run_reopen.py:726`). A crash between
the saved publication and PR_CREATED makes the resume publish a tree onto its own
commit, which is refused (`pr_delivery.py:246`). An interrupted implementer call can
be counted twice (`workflow.py:2464`). A base retargeted between the second read and
the request of the merge lands the merge in the other base.

An escalation drops `needs_look` and keeps the reviewed tree. If such an unattended
run is then interrupted before it stores a triage, loses its worktree, starts from
scratch, is routed to SINGLE (whose review is skipped) and builds the same tree
again, that tree is pushed and merged although neither a review nor a person accepted
it and nothing is flagged any more (a trace of 38 steps, which `UnattendedRun`
reaches; `run_reopen.py:726`, `workflow.py:2657`). The properties about accepted work
therefore name this case: `FlaggedWork` includes the trees a person escalated a
flagged run with, and nothing else unflagged is ever published.

Service: a day's quota can be overrun by `2 * max_concurrent_tasks - 1` runs: those
with a reservation, and those whose reservation the stall check ended and whose
thread has not stored the run yet. With two tasks, `_dispatch_reopened_runs` uses
the listing of the start of the cycle (`service.py:568`). A run that was reopened in
the cycle before may be listed as reopened and have halted again since; it is
dispatched once more without a reply. If the reply to its new halt is dispatched too,
two jobs of one run exist, the handle is of the one that only meets the lock, and
when that one returns no handle names the job that drives the run. The free slots are
then counted too high, a resume waits in the queue behind two busy threads, the stall
check cancels it there, and its run is forgotten until the next start. With one task
this cannot happen, which is proved (`StallCheckCorrect`, `RunsAreHeld`).

Escalation: a notifier that saves its old copy erases a reply that was accepted
meanwhile; therefore `DrainedDecisions` claims nothing for the instance with
`races`. A comment deleted between two polls of a page shifts the rest, and a reply
can be stepped over; the liveness instance deletes none. The leftover
review-impasse.json makes later halts ACCEPT_FINDINGS, without open findings not
resumable. The reason that `recover_abandoned_run` writes contains "budget", which
classifies it as an exhausted budget. A reply class of GitHub whose context is
missing waits with no way to resume. The reopen compares the worktree once, and
grants, risk approvals and plan answers not at all.

Agent calls: a kill that looked up the thread before it was removed may kill the
thread's next call and leave its mark behind. A crash between the deletion of the
stop request and the save of the halt loses the stop. A request that was checked
before the halt and filed after the reopen stops the reopened run, which ADR-049
excludes. The fallback runtime starts without a look at stop requests. A crash
loses the note of the open call.

Projects: an attended resume whose fetch fails marks a task FAILED although its
child merged. A pick that was adapted is not found again by its patch. A crash in
the middle of a pick makes the next tasks conflict.

Review: the impasse of a repeated finding is not reachable. Streaks survive an
escalation. A ledger at its limit drops the oldest accepted finding, and findings
without a place absorb later ones.

Workspace and setup: an acquirer may be refused though nobody owns the workspace.
A setup by hand without `--publish` leaves a changed worktree, and the service then
refuses that HEAD.

Backlog: a process by hand that dies while the service runs is reconciled only at
the next start; `factory run` does not look at stored runs; a restart without a
stored triage discards a worktree that both share; a run that was halted while its
process lives is overwritten by that process's next save.

## 4. What is proved

`RunController_proofs` proves properties of `RunController` for every value of its
constants under `BooleanAssumption`, `BoundAssumption`, `TreeAssumption` and
`NoneAssumption` (settings are booleans, bounds are naturals, the base is a tree,
None is no tree, budget or route):

- `TypeCorrect`: `Spec => []TypeOK`. It is inductive with one addition of its
  own: only an ended or a completed local run has a completion stamp.
- `StepStateCorrect`: the implementer is called in IMPLEMENTING and on the budget
  of its context. A lemma for the next one.
- `BudgetCorrect`: `Spec => []CallsWithinBudget`. The property is not inductive.
  `BudgetInv` adds `Counted` (calls and recorded attempts agree, but for the one
  call that is running or was interrupted and not yet counted) and that no
  unattended run stores a review impasse, with which a halt after an interrupted
  call could be reopened before the call is counted.
- `RouteCorrect`: `Spec => RouteNeverDowngraded`. Only five steps touch the route,
  and each ratchets, or decides it for a run that starts from scratch.
- `DeliveryCorrect`: `Spec => []DoneMeansDelivered`. `DeliveredInv` says what each
  step from the publication on knows while nothing is flagged: the pull request is
  the run's, the branch holds the recorded commit, CI passed on it, and after the
  merge it is merged. Every other way to DONE goes through `_stop` or the end of an
  interrupted delivery, and both leave a flag.

`AcceptedWork_proofs` extends it:

- `LifecycleImplemented`: `Spec => ImplementsLifecycle`, the refinement of
  `RunLifecycle`, one case per action: the step is a move of the table, one of the
  moves outside it, or leaves the state alone. It rests on `StepState` (which states
  each step of the thread may be in) and has no hypothesis.
- `PullRequestCorrect`, `PushCorrect`, `MergeCorrect`: the work that is pushed,
  stays on the branch and is merged is accepted or flagged. None of them is inductive.
  `WorkInv` follows the tree from the review to the merge: `AcceptedInv` (each tree
  the run may publish, is publishing, has recorded or has on its branch is accepted,
  flagged or escalated), `ReceiptInv` (from the receipt on, the recorded commit is the
  reviewed tree) and `OperatorInv` (an acceptance of findings is gone or recorded
  where the merge looks for it, and only an unattended run restarts). `OkayKept` is
  why it lasts: no step takes back an acceptance, and only an escalation a flag.
  They have no hypothesis beyond those of the constants.

`FactoryService_proofs` proves, under `ServiceAssumption`, for every set of items and
jobs, every quota and any number of crashes, hangs and errors:

- `ServiceCorrect`: `Spec => []ServiceInv`. A handle belongs to a job of its item, a
  run that is not persisted yet has one job (the one its handle names, with a
  reservation while it is queued), and the loop remembers nothing of an item without
  a run. The steps are first reduced to what they do to fields (`StepKind`).
- `QuotaCorrect`: `Spec => []QuotaOverrunIsBounded`. The invariant is that the runs
  claimed, the jobs that will still claim and the room that is left stay within the
  quota and its excess.
- `CompletionCorrect`: `Spec => []CompletionIsNotLost`.
- `OneTaskCorrect`, `RunsAreHeld`, `StallCheckCorrect`: `OneTaskInv`,
  `UnfinishedRunsAreHeld` and `StopsOnlyStalledJobs`. They assume
  `OneTask == MaxConcurrent = 1`, which is the default of `max_concurrent_tasks`
  (`config.py:465`; 2 is the other value it may have, and there they are false). The
  invariant says that a free slot means that no job is live; a resume or reopen is
  submitted only into a free slot, so it never waits where the stall check cancels.

`Work_proofs` has the proofs about `Backlog`, `AgentCall`, `AttemptChecks` and
`ScopeRules`:

- For processes by hand that are not the service (`ServiceIsNoHand`),
  `BacklogTypeCorrect` and `OneRunOfAnIssue`:
  `BacklogSpec => []ServiceRunsAnIssueOnce`. The invariant: a worker of the service
  has the slot of its issue, what the current cycle may still claim has no run of the
  service, and no cycle inherits candidates from the one before.
- For any number of drives, steps, notes, stops, stalls and crashes, `CancelReachesChild`,
  `StopIsHeard` and `NewestNoteIsNotLost`. The invariant says where the thread is
  registered (exactly in a watched step), that after the cancel only a thread that is
  marked killed is at a child, which it signals when it registers it, that the one
  child begun after a stop leaves only its own fallback, and that of two notes the one
  with the call is the older.
- `ReviewedTreeWasVerified` (`CheckSpec => []ReviewsWhatWasVerified`): nobody writes
  between the collected evidence and the first command, nor after the comparison.
- `PublishedFilesAreCleared` (`ScopeSpec => []PublishesClearedFiles`) for all modules,
  limits and sets of kinds that are kinds of `governance.py` (`KindsAreKnown`).
  `PublishesClearedFiles` is inductive together with the type of the changed files;
  the work is in `NoFindingIsCleared`, which reads it off an empty list of findings.

`Repository_proofs` proves of `WorkspaceLock`, for every set of processes and of files and every
number of retries, under `LockAssumption` (None is no process and no file):

- `LockInvariant`: `LockSpec => []LockInv`, the inductive invariant: whoever passed
  flock holds it, and an owner has the very file that the path names. The second
  half is what the comparison of the inode and the order of unlink and unlock are
  for; without it two processes may hold the flocks of two files.
- `LockIsExclusive`: `LockSpec => []OneOwner`.
- `LockImplementsExclusion`: `LockSpec => IsALock`, the refinement of `Exclusion`:
  each step takes the lock, leaves it or stutters.

`Repository_proofs` also proves the three properties of `Publication`, for every set of
trees and any number of faults, retries and steps of other writers
(`PublicationAssumption`):

- `WorkReachesItsRepository`: `PubSpec => []ReachesOnlyItsRepository`. Of the two
  parts, `RepositoryInv` carries the first: a thread of an authorized run and every
  push that is still on its way have the authorized repository as their target.
  `CalmInv` carries the second: while nobody meddles, the branch and the remote hold
  the saved commit or the recorded one, so that none of the refusals that blame
  somebody else is reached, whatever was lost or arrives late.
- `PublicationKeepsItsOrder`: `PubSpec => PublishesInOrder`, the refinement of
  `PublicationSteps`, one case per action. `RecordInv` is what it needs: the recorded
  commit continues the saved one, the thread works on it, and what is saved, attached
  to a pull request or still on its way is shown or recorded.
- `ReviewedWorkIsPublished`: `PubSpec => PublishesWhatWasReviewed`. `PullInv` follows
  the pull request from where it is found or created to where it is saved: it is the
  run's own, and after the refresh it describes the tree of the receipt.

The steps are first reduced to what each does to fields (`BuildFields`,
`PushFields`, ...), and the invariants are proved from those lemmas.

`MCRepository_proofs` proves what `RepositoryRun` checks of the merge, the worktrees, the
setup and a project, as properties of `MCSpec`, for every value of the sets and bounds.
Its assumption is `SharedAssumption`: some of the bounds are naturals, a factory that
merges has required checks, which `config.py:747` enforces, and a wave is of one task or
more (`config.py:465`).

- `MergeIsProven` and `MergesAreEnforced`. `GreenInv` says that a thread past its first
  read has seen the required checks pass on the reviewed head; they did so then, and
  later changes do not undo it. `EnforceInv` says that until somebody changes
  something after it was read, the policy a thread has read is still there and gives
  nobody a way around the required checks, and that after the second read the base is
  the configured one; so the step that asks GitHub for the merge finds them enforced.
- `WorktreesAreKnown` and `ChangesAreWhole`. `TreeInv` of `Worktrees` has three parts:
  who is between two commands of Git has the lock alone (`LockHeld`); what there is of
  an item at each step (`Standing`); and where a recorded base comes from. The last
  has two cases, since neither argument covers both: without delivery every base was
  behind HEAD (`LocalBase`), with delivery a run that asks for a commit gets that one
  or is refused (`DeliveredBase`). `ItemStep` reduces a step of an item to that item.
- `SetupIsOwn`. `SetupInv` of `SetupRun` says that who applies a plan has its worktree
  locked and clean. The lock goes back before the publication, so it cannot be what
  protects a publisher; what does is that a changed worktree is not usable again
  (`OwnChange`).
- `RejectedStaysOut` (`MCSpec => []RejectedIsNotIntegrated`) and `NoTaskIsLost`
  (`MCSpec => []NoTaskIsMissing`), for any number of tasks, size of a wave, crashes,
  resumes and troubles. A record, the reason for it and the commit on the branch are
  saved one after the other, and a crash may come between any two. `ProjectInv` of
  `Projects` says what holds anyway: a record that says done is on the branch or in
  the list of what is missing (`RecordInv`); what a remote target holds was merged,
  and a local pick is of a child that finished (`BranchInv`); the tasks of a wave are
  running until each is settled, so none of them is rejected while it is on its way
  (`WaveInv`). Two lemmas are about what the runner computes: `SkipsDependents`, that
  skipping goes on until nothing that is left depends on a skipped task, and
  `WaveGoesOn`, that the first task left is then ready, so that a project never goes
  on without a wave. `Skipped` is written as a least set for it, not as a recursion.

`MCWork_proofs` proves what `WorkRun` checks of the sessions, the review, the
decisions and the routes, as properties of `MCSpec`, for every value of the sets and
bounds. It assumes `WorkAssumption` (the limits are naturals, and a ledger holds one
finding or more: `MAX_OPEN_REVIEW_FINDINGS` is 24) and, of the routes, `RouteAssumption`: the
levels are finitely many numbers, an option list is any that names known routes and levels,
every complexity has a worker, and the limits of the retries are positive
(`RoutingOptionConfig`, `ModelsConfig` and `RetryConfig` of `config.py`).

- `SessionsHoldTheRequest` (`MCSpec => []HoldsTheRequest`). The prompt of a continuation is
  computed from the sidecar and applied to the file, two records that a crash leaves apart.
  `CallInv` says that a call starts another, empty file with the whole request or
  continues the sidecar's with the difference; `SidecarInv` that what the sidecar was
  sent is what its file holds, unless a call on that file was not recorded or is at it.
  `HoldsOfAppend` is the lemma on the conversation, and `ContinuationHolds` what it gives: a
  round of the sections that changed and the ends of those that are gone turns what the
  file holds into the request. They rest on the last round that says something of a
  title, hence on `GreatestNumber`; `NextNumberIsFree` says that a new file is never an
  old one.
- `BlockedFindingsAreSeen` (`MCSpec => []SafetyFindingsNeedPerson`). `OwedInv`: whatever
  was reported in a blocked category and nobody looked at is open or accepted in the
  ledger. The difficult step is a repair review: `RepairReviewKeeps` says what is open
  after it (what it does not call resolved, what it reports again, the regressions and the
  late findings it adopts), that a ledger never holds more than its limit, and that nothing
  is left out unless the review overflows, which is an impasse of its own
  (`TOO_MANY_FINDINGS`).
  `DeliveryInv` relates the ledger to the way of the run to its delivery: nothing
  is open, and what was accepted is asked of the policy again (`AuthorizesDelivery`).
- `AttemptsAreGranted` and `DecisionsAreOfWhatWasShown` (`OneAttemptPerGrant`,
  `ActsOnWhatWasShown`). `HaltInv` follows the facts from the snapshot of the halt
  through the ingest to the reopen: a reopened halt was shown its own snapshot, a
  reopen past its check has the facts that were shown, and for a scope halt the patch of
  the run is that of the snapshot; the grants in the run are those that were given.
- `RoutesOnlyMoveUp` (`MCSpec => []RoutingIsMonotone`). `LegalShrinks`: an option that is
  legal for a triage is legal for one that is easier (`NoEasier`) and needs no approval
  that the other does not; so the lightest legal option is no lighter. For the attempts,
  `RankIsTaken` gives every tier one complexity, `ModelsDiffer` that no two tiers have the same
  model, and `TiersGoUp`, over `Shares` on integer division, that the tiers of the attempts only
  go up and none before its share is over. The tiers are stated by the rank of a
  complexity for it, not as a filtered sequence.

`Escalation_proofs` proves of the decisions on one run, for every halt class, page
size, window, number of comments, faults, crashes and deletions (the constants of
`Escalation` need no assumption):

- `AnswersAreThere`: `Spec => []ReopenedHasItsAnswers`, and `TakenRequestsStay`:
  `Spec => []AcceptedRequestsStayPending`. Neither is inductive, because three
  records of a run exist at once: the stored one and the copies of the main thread
  and of the driver, each saved whole over whatever is stored by then. `Placed`
  says where an actor may be with which record (who notifies holds a record whose
  notice is owed, who works a working one, who saves a decision one that waited for
  it). `ProtocolInv` adds: a waiting record has no receipt of its episode
  (`UndecidedInv`); the driver's copy has no receipt that the stored record lacks, and
  the stored record none that the main thread's copy lacks (`LineInv`), so that no
  save brings a taken request back into doubt (`PendingInv`); the answers belong to
  the decision that the stored record took or is about to take, and a thread that
  may still save over a decided record holds that same record (`AnswerInv`).
- `EpisodesAreDecidedOnce`: the refinement of `ResumeEpisodes`, one case per action,
  and `DrainedRunsDecideOnce`: the same as the run states it
  (`MCSpec => DrainedDecisions`). They assume
  `Drained == Drains /\ MaxEscalations = 0`: a cycle waits for the work it
  dispatched, as `run_once` does, and no operator escalates. `DrainInv` says that then
  only one of the two actors has something to save, and its copy is the stored
  record. Outside of it the refinement is false (section 3, other facts).

Each invariant was checked by TLC first. The proofs have one step per action.

Only model-checked is liveness (`RunsFinish`, `WorkSettles`, `RepliesAreTaken`,
`EpisodesSettle`), which is out of this prover's reach, as ENABLED is. Every other
property of a passing run is stated by a theorem; some theorems have the hypotheses named
above (`OneTask`, `Drained`), and TLC checks the properties on
instances that satisfy them.

The type invariants of `FactoryService` and `Escalation` document their variables; no
run lists them.

## 5. What is not modelled

In `RunController`: errors of the operating system or of Git in the middle of a
drive, other than those the delivery steps and the review name, have no action of
their own. One that is not caught ends the thread with run.json as it was saved last,
which is `Interrupt`; what follows is a resume, or `RecoverAbandoned`. The halts for
evidence without a tree (`workflow.py:2232`, `2506`, `2559`) cannot be reached:
`collect_evidence` names the tree of every evidence (`workspace.py:713`). Left out are
also who writes run.json beside the thread (`Escalation` has that) and fields without
influence on control (texts, times, usage). What the other modules open is a choice there.

In `FactoryService`: `run_once`, and a reopen limit lowered between cycles (which
`Escalation` has). A graceful shutdown is a crash here: it leaves no more on disk.
In `Backlog`: blockers of issues.

In `Projects`: the publication and the closing of issues, which a crash may cut
short after the project's own state is saved, and the list of warnings. In the
runtimes: command lines, the parsing of output, providers. In the checks: the scan
for suppressions. In the run store: the quarantine of files that cannot be read.

Not modelled at all: repository profiling and toolchains, which inspect files and
keep no state; observability and health, which only read; the rendering of the
dashboard; the installation of the service; texts of prompts.

The modules are composed by their interfaces and not in one state space: where
`RunController` has a choice, the finer module shows which answers the code gives
and what holds of them, but no refinement between the two is stated.

## 6. Plan

Modelled and checked: everything of section 2. What would add most next:

1. The refinement from `Publication` to the delivery steps of `RunController`.
2. `Projects`: the publication of issues.

## 7. Running

    tlc -config AttendedRun.cfg MCRunController.tla
    tlc -config RepositoryRun.cfg MCRepository.tla
    tlc -config WorkRun.cfg MCWork.tla
    tlapm RunController_proofs.tla
    tlapm AcceptedWork_proofs.tla
    tlapm FactoryService_proofs.tla
    tlapm Escalation_proofs.tla
    tlapm Repository_proofs.tla
    tlapm MCRepository_proofs.tla
    tlapm Work_proofs.tla
    tlapm MCWork_proofs.tla

A run's module and configuration are in `PROJECT.json` under "runs". Each run ends
within some four minutes on two cores.
