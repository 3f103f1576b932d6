------------------------------ MODULE Projects ------------------------------
(***************************************************************************)
(* A project: a plan of tasks with dependencies, each run as a child run,   *)
(* whose changes are put on one branch.  A local project picks the commit   *)
(* of each child onto its integration branch; a remote one lets each child  *)
(* merge its own pull request and then moves the integration branch to the  *)
(* fetched target.  A step ends at each save of execution.json and each     *)
(* change of a branch, so that a crash may come between them; a resume      *)
(* settles again what it finds.                                             *)
(*                                                                         *)
(* A child run is one choice here: RunController is its inside.  A branch   *)
(* is the sequence of its commits: the task, or 0 for a person's, and       *)
(* whether the pick left the child's patch as it was.                       *)
(***************************************************************************)
EXTENDS Naturals, Sequences, SequencesExt, FiniteSetsExt

CONSTANTS
  MaxTasks,      \* bound: tasks of the plan
  WaveSize,      \* scheduler.max_concurrent_tasks
  MaxResumes,    \* bound: resumes by a person
  MaxTroubles    \* bound: calls that raise in a child or its integration, fetches of the
                 \* target that fail, and what others do to the target, together

VARIABLES
  plan,       \* project-plan.json and the pinned policy: dependencies, remote, unattended
  project,    \* execution.json
  branches,   \* integration branch, target branch, a pick that a crash cut short
  child,      \* the run of each task
  runner,     \* the process that runs the project
  supply      \* what the environment did: resumes, raises, fetches, moves

projectVars == <<plan, project, branches, child, runner, supply>>

Tasks == 1..MaxTasks
Take(what) ==
  /\ IF what = "resumes" THEN supply.resumes < MaxResumes
     ELSE supply.raises + supply.fetches + supply.moves < MaxTroubles
  /\ supply' = [supply EXCEPT ![what] = @ + 1]

Off == [pc |-> "off", resuming |-> FALSE, wave |-> {}, live |-> {}, raised |-> {},
        completed |-> {}, unmerged |-> {}, stopped |-> FALSE]
At(pc) == runner' = [runner EXCEPT !.pc = pc]

Commit(t, same) == [task |-> t, same |-> same]
Holds(branch) == {branch[i].task : i \in DOMAIN branch}

\* The first task of the wave that is not settled.
Current == Min(runner.wave)

-----------------------------------------------------------------------------
(* Failures *)

\* A target error says nothing about the running tasks of an unattended project.
KeepsRunning(target) == plan.unattended /\ target

\* _record_project_failure.
FailFrom(saved, target) ==
  /\ project' = [saved EXCEPT
       !.state = "FAILED",
       !.record = [t \in Tasks |-> IF @[t] = "RUNNING" /\ ~KeepsRunning(target)
                                     THEN "FAILED" ELSE @[t]]]
  /\ runner' = Off
Fail(target) == FailFrom(project, target)

\* _refresh_target: fetch, and fast-forward the integration branch or raise.
Fetched == branches' = [branches EXCEPT !.head = branches.target]
FastForward == IsPrefix(branches.head, branches.target)
FetchFails == (~FastForward /\ UNCHANGED supply) \/ Take("fetches")

-----------------------------------------------------------------------------
(* Start and resume *)

\* run: the execution is saved before the plan is made.
Start ==
  /\ runner.pc = "off" /\ project.state = "none"
  /\ project' = [project EXCEPT !.state = "PLANNING"]
  /\ At("plan")
  /\ UNCHANGED <<plan, branches, child, supply>>

\* _plan and save_plan_once; a planner that fails twice ends the project.
MakePlan ==
  /\ runner.pc = "plan"
  /\ \/ project' = [project EXCEPT !.planned = TRUE] /\ At("planned")
     \/ Fail(FALSE)
  /\ UNCHANGED <<plan, branches, child, supply>>

SaveTasks ==
  /\ runner.pc = "planned"
  /\ project' = [project EXCEPT !.state = "RUNNING", !.tasks = TRUE]
  /\ At("next")
  /\ UNCHANGED <<plan, branches, child, supply>>

\* A second run of the same id marks a project that a process left behind.
MarkAbandoned ==
  /\ runner.pc = "off" /\ project.state \in {"PLANNING", "RUNNING"}
  /\ project' = [project EXCEPT !.state = "NEEDS_HUMAN"]
  /\ UNCHANGED <<plan, branches, child, runner, supply>>

Rejected(t) == project.record[t] \in {"FAILED", "NEEDS_HUMAN"}

Resume ==
  /\ runner.pc = "off" /\ project.state \notin {"none", "DONE"}
  /\ project.planned /\ project.tasks
  /\ plan.unattended \/ \A t \in Tasks : ~Rejected(t)
  /\ Take("resumes")
  /\ project' = [project EXCEPT !.state = "RUNNING"]
  /\ runner' = [Off EXCEPT !.pc = "reconcile", !.resuming = TRUE]
  /\ UNCHANGED <<plan, branches, child>>

\* _did_not_merge: the task finished and is not on the target.
DidNotMerge(t) ==
  \/ Rejected(t)
  \/ project.record[t] = "DONE" /\ plan.remote /\ t \notin project.merged

\* A bug: the reasons of an earlier process are taken as saved.
TrustsReasons(tasks) == {}

\* A crash may have come between the record of a task and its reason.
LostReasons(tasks) == {t \in tasks : Rejected(t)}

\* _reconcile_completed_tasks.
Reconcile ==
  /\ runner.pc = "reconcile"
  /\ LET unmerged == {t \in Tasks : plan.unattended /\ DidNotMerge(t)}
         completed == {t \in Tasks \ unmerged : project.record[t] = "DONE"}
         proven == plan.remote =>
                     completed \subseteq (project.merged \intersect Holds(branches.target))
     IN \/ plan.remote /\ FetchFails /\ Fail(TRUE) /\ UNCHANGED branches
        \/ /\ plan.remote => FastForward
           /\ IF plan.remote THEN Fetched ELSE UNCHANGED branches
           /\ IF proven
                THEN /\ project' = [project EXCEPT !.looks = @ \union LostReasons(unmerged)]
                     /\ runner' = [runner EXCEPT !.pc = "next", !.completed = completed,
                                                 !.unmerged = unmerged]
                ELSE Fail(FALSE)
           /\ UNCHANGED supply
  /\ UNCHANGED <<plan, child>>

-----------------------------------------------------------------------------
(* Waves *)

Pending == Tasks \ (runner.completed \union runner.unmerged)

\* _skip_dependents_of_unmerged goes through the tasks in order, and a dependency is earlier:
\* it skips the least set of pending tasks that holds what depends on it or on an unmerged one.
Skipped ==
  LET Follow(S) == {t \in Pending : plan.deps[t] \intersect (runner.unmerged \union S) # {}}
  IN {t \in Pending : \A S \in SUBSET Pending : Follow(S) \subseteq S => t \in S}

Ready(tasks) == {t \in tasks : plan.deps[t] \subseteq runner.completed}

\* The ready tasks with the lowest numbers; a remote project runs one at a time.
Wave(ready) ==
  LET size == IF plan.remote THEN 1 ELSE WaveSize
  IN {t \in ready : Cardinality({r \in ready : r < t}) < size}

\* Skip, choose the wave, refresh the target.  Nothing is left: the final check.
NextWave ==
  /\ runner.pc = "next"
  /\ LET skipped == Skipped
         left == Pending \ skipped
         chosen == [runner EXCEPT !.unmerged = @ \union skipped,
                                  !.pc = IF left = {} THEN "final" ELSE "mark",
                                  !.wave = IF left = {} THEN {} ELSE Wave(Ready(left))]
         noted == [project EXCEPT !.looks = @ \union skipped,
                                  !.record = [t \in Tasks |-> IF t \in skipped THEN "PENDING"
                                                                             ELSE @[t]]]
     IN \/ /\ plan.remote => FastForward
           /\ IF plan.remote THEN Fetched ELSE UNCHANGED branches
           /\ project' = noted
           /\ runner' = chosen
           /\ UNCHANGED supply
        \/ plan.remote /\ FetchFails /\ FailFrom(noted, TRUE) /\ UNCHANGED branches
  /\ UNCHANGED <<plan, child>>

\* The records and the run ids are saved before anything is dispatched.
MarkRunning ==
  /\ runner.pc = "mark"
  /\ project' = [project EXCEPT !.record = [t \in Tasks |-> IF t \in runner.wave THEN "RUNNING"
                                                                               ELSE @[t]]]
  /\ At("dispatch")
  /\ UNCHANGED <<plan, branches, child, supply>>

Finished(t) == child[t].state \notin {"none", "going"}

\* _run_wave: a finished child is taken as it is, an interrupted one goes on, a new one
\* starts from the branch as it is now.
Dispatch ==
  /\ runner.pc = "dispatch"
  /\ LET base == Holds(IF plan.remote THEN branches.target ELSE branches.head) IN
       child' = [t \in Tasks |-> IF t \in runner.wave /\ child[t].state = "none"
                                   THEN [child[t] EXCEPT !.state = "going", !.base = base]
                                   ELSE child[t]]
  /\ runner' = [runner EXCEPT !.pc = "wave", !.raised = {},
                              !.live = {t \in runner.wave : ~Finished(t)}]
  /\ UNCHANGED <<plan, project, branches, supply>>

\* The child's pull request is merged; the child has not seen it.
ChildMerges(t) ==
  /\ plan.remote /\ t \in runner.live /\ t \notin Holds(branches.target)
  /\ branches' = [branches EXCEPT !.target = Append(@, Commit(t, TRUE))]
  /\ UNCHANGED <<plan, project, child, runner, supply>>

ChildEnds(t) ==
  /\ t \in runner.live
  /\ LET landed == t \in Holds(branches.target)
         End(state, sha, look) ==
           child' = [child EXCEPT ![t].state = state, ![t].sha = sha, ![t].look = look]
     IN \/ plan.remote /\ landed /\ End("DONE", TRUE, FALSE) /\ UNCHANGED supply
        \/ /\ ~plan.remote
           /\ \E look \in {FALSE, plan.unattended} : End("PR_READY", FALSE, look)
           /\ UNCHANGED supply
        \/ /\ ~landed
           /\ \E state \in {"NEEDS_HUMAN", "FAILED"} : End(state, FALSE, FALSE)
           /\ UNCHANGED supply
        \* The pull request is left open; a merge whose answer was lost counts as none.
        \/ /\ plan.remote /\ plan.unattended
           /\ End("DONE", FALSE, TRUE)
           /\ IF landed THEN Take("raises") ELSE UNCHANGED supply
  /\ runner' = [runner EXCEPT !.live = @ \ {t}]
  /\ UNCHANGED <<plan, project, branches>>

\* The child's thread raises; its run stays as it was saved last.
ChildRaises(t) ==
  /\ t \in runner.live
  /\ Take("raises")
  /\ runner' = [runner EXCEPT !.live = @ \ {t}, !.raised = @ \union {t}]
  /\ UNCHANGED <<plan, project, branches, child>>

WaveEnds ==
  /\ runner.pc = "wave" /\ runner.live = {}
  /\ At("settle")
  /\ UNCHANGED <<plan, project, branches, child, supply>>

-----------------------------------------------------------------------------
(* Settling a wave, task by task *)

\* The current task is settled; the wave goes on, and then the project stops or goes on.
Settle(sets) ==
  LET rest == runner.wave \ {Current}
      stopped == runner.stopped \/ sets.stopped
  IN runner' = IF rest = {} /\ stopped
       THEN Off
       ELSE [runner EXCEPT !.wave = rest, !.stopped = stopped,
                           !.completed = @ \union sets.completed,
                           !.unmerged = @ \union sets.unmerged,
                           !.pc = IF rest = {} THEN "next" ELSE "settle"]

Stopped == [stopped |-> TRUE, completed |-> {}, unmerged |-> {}]
Integrated == [stopped |-> FALSE, completed |-> {Current}, unmerged |-> {}]
Unmerged == [stopped |-> FALSE, completed |-> {}, unmerged |-> {Current}]

\* _task_not_integrated: an attended project stops; an unattended one saves the record, then
\* the reason.
NotIntegrated(state) ==
  IF plan.unattended
    THEN /\ project' = [project EXCEPT !.record[Current] = state]
         /\ At("reason")
    ELSE /\ project' = [project EXCEPT !.record[Current] = state,
                                       !.state = IF "FAILED" \in {@, state} THEN "FAILED"
                                                                            ELSE "NEEDS_HUMAN"]
         /\ Settle(Stopped)

AddReason ==
  /\ runner.pc = "reason"
  /\ project' = [project EXCEPT !.looks = @ \union {Current}]
  /\ Settle(Unmerged)
  /\ UNCHANGED <<plan, branches, child, supply>>

Succeeded(t) == t \notin runner.raised /\ child[t].state \in {"PR_READY", "DONE"}

\* The child raised, or ended without a result.
SettleFailed ==
  /\ runner.pc = "settle" /\ ~Succeeded(Current)
  /\ NotIntegrated(IF Current \notin runner.raised /\ child[Current].state = "NEEDS_HUMAN"
                     THEN "NEEDS_HUMAN" ELSE "FAILED")
  /\ UNCHANGED <<plan, branches, child, supply>>

\* An unattended child left its pull request open: record and reason in one save.
SettleOpen ==
  /\ runner.pc = "settle" /\ Succeeded(Current) /\ plan.remote /\ ~child[Current].sha
  /\ project' = [project EXCEPT !.record[Current] = "DONE", !.looks = @ \union {Current}]
  /\ Settle(Unmerged)
  /\ UNCHANGED <<plan, branches, child, supply>>

\* _integrate_remote_task: the merge commit must be in the fetched target.
SettleRemote ==
  /\ runner.pc = "settle" /\ Succeeded(Current) /\ plan.remote /\ child[Current].sha
  /\ \/ /\ FetchFails
        /\ IF plan.unattended THEN Fail(TRUE) ELSE NotIntegrated("NEEDS_HUMAN")
        /\ UNCHANGED branches
     \/ /\ FastForward /\ Fetched
        /\ IF Current \in Holds(branches.target)
             THEN /\ project' = [project EXCEPT !.record[Current] = "DONE",
                                                !.merged = @ \union {Current}]
                  /\ Settle(Integrated)
             ELSE NotIntegrated("NEEDS_HUMAN")
        /\ UNCHANGED supply
  /\ UNCHANGED <<plan, child>>

\* A bug: a resume does not look for its own pick.
NotLookedFor(t) == FALSE

\* _patch_already_integrated: finds the child's patch, unless the pick adapted it.
PatchAlreadyIntegrated(t) == \E i \in DOMAIN branches.head : branches.head[i] = Commit(t, TRUE)

\* _integrate_local_task: commit the child, pick it.  A pick beside other changes may adapt
\* the patch, or conflict; a pick of what is there is empty, or conflicts with later changes;
\* after a pick that was cut short nothing can be picked before an abort.
SettleLocal ==
  /\ runner.pc = "settle" /\ Succeeded(Current) /\ ~plan.remote
  /\ LET t == Current
         beside == \E i \in DOMAIN branches.head : branches.head[i].task \notin child[t].base
         covered == t \in Holds(branches.head) /\ Last(branches.head).task # t
     IN \/ /\ PatchAlreadyIntegrated(t)
           /\ At("picked")
           /\ UNCHANGED <<project, branches, supply>>
        \/ /\ ~PatchAlreadyIntegrated(t) /\ branches.half = 0
           /\ \/ /\ t \notin Holds(branches.head)
                 /\ \E same \in {TRUE, ~beside} :
                      branches' = [branches EXCEPT !.head = Append(@, Commit(t, same))]
                 /\ At("picked")
                 /\ UNCHANGED project
              \/ /\ t \in Holds(branches.head)
                 /\ At("picked")
                 /\ UNCHANGED <<project, branches>>
              \/ /\ covered \/ (beside /\ t \notin Holds(branches.head))
                 /\ NotIntegrated("NEEDS_HUMAN")
                 /\ UNCHANGED branches
           /\ UNCHANGED supply
        \/ /\ ~PatchAlreadyIntegrated(t) /\ branches.half # 0
           /\ \E half \in {0, branches.half} : branches' = [branches EXCEPT !.half = half]
           /\ NotIntegrated("NEEDS_HUMAN")
           /\ UNCHANGED supply
        \/ NotIntegrated("NEEDS_HUMAN") /\ Take("raises") /\ UNCHANGED branches
  /\ UNCHANGED <<plan, child>>

\* _finish_task of a local task, then _add_needs_look copies the reasons of the child.
SavePick ==
  /\ runner.pc = "picked"
  /\ project' = [project EXCEPT !.record[Current] = "DONE"]
  /\ IF plan.unattended THEN At("copy") ELSE Settle(Integrated)
  /\ UNCHANGED <<plan, branches, child, supply>>

CopyReasons ==
  /\ runner.pc = "copy"
  /\ project' = IF child[Current].look
                  THEN [project EXCEPT !.copied = @ \union {Current}] ELSE project
  /\ Settle(Integrated)
  /\ UNCHANGED <<plan, branches, child, supply>>

-----------------------------------------------------------------------------
(* The end *)

\* The final verification: its report is saved; an attended project stops when it fails.
Verify ==
  /\ runner.pc = "final"
  /\ \/ At("passed") /\ UNCHANGED project
     \/ /\ plan.unattended
        /\ At("warn")
        /\ UNCHANGED project
     \/ /\ ~plan.unattended
        /\ project' = [project EXCEPT !.state = "NEEDS_HUMAN"]
        /\ runner' = Off
  /\ UNCHANGED <<plan, branches, child, supply>>

WarnOfVerification ==
  /\ runner.pc = "warn"
  /\ project' = [project EXCEPT !.warned = TRUE]
  /\ At("done")
  /\ UNCHANGED <<plan, branches, child, supply>>

\* A remote project is done only if its worktree is still at the target that was verified.
FinishDone ==
  /\ runner.pc \in {"passed", "done"}
  /\ \/ /\ project' = [project EXCEPT !.state = "DONE"]
        /\ runner' = Off
        /\ UNCHANGED supply
     \/ plan.remote /\ runner.pc = "passed" /\ Take("fetches") /\ Fail(TRUE)
  /\ UNCHANGED <<plan, branches, child>>

Run ==
  \/ Start \/ MakePlan \/ SaveTasks \/ Resume \/ Reconcile \/ NextWave \/ MarkRunning
  \/ Dispatch \/ WaveEnds \/ SettleFailed \/ AddReason \/ SettleOpen \/ SettleRemote
  \/ SettleLocal \/ SavePick \/ CopyReasons \/ Verify \/ WarnOfVerification \/ FinishDone

-----------------------------------------------------------------------------
(* Others *)

Children == \E t \in Tasks : ChildMerges(t) \/ ChildEnds(t) \/ ChildRaises(t)

\* The process dies; it may cut a pick short.  Children go on when the project resumes.
Crash ==
  /\ runner.pc # "off"
  /\ runner' = Off
  /\ \/ UNCHANGED branches
     \/ /\ runner.pc = "settle" /\ Succeeded(Current) /\ ~plan.remote
        /\ Current \notin Holds(branches.head)
        /\ branches' = [branches EXCEPT !.half = Current]
  /\ UNCHANGED <<plan, project, child, supply>>

\* People push to the target, or take its last commit back.
TargetMoves ==
  /\ plan.remote /\ Take("moves")
  /\ \/ branches' = [branches EXCEPT !.target = Append(@, Commit(0, TRUE))]
     \/ branches.target # <<>> /\ branches' = [branches EXCEPT !.target = Front(@)]
  /\ UNCHANGED <<plan, project, child, runner>>

-----------------------------------------------------------------------------

ProjectInit ==
  /\ \E deps \in [Tasks -> SUBSET Tasks], remote, unattended \in BOOLEAN :
       /\ \A t \in Tasks : \A d \in deps[t] : d < t
       /\ plan = [deps |-> deps, remote |-> remote, unattended |-> unattended]
  /\ project = [state |-> "none", planned |-> FALSE, tasks |-> FALSE, merged |-> {},
                record |-> [t \in Tasks |-> "PENDING"], looks |-> {}, copied |-> {},
                warned |-> FALSE]
  /\ branches = [head |-> <<>>, target |-> <<>>, half |-> 0]
  /\ child = [t \in Tasks |-> [state |-> "none", base |-> {}, sha |-> FALSE, look |-> FALSE]]
  /\ runner = Off
  /\ supply = [resumes |-> 0, raises |-> 0, fetches |-> 0, moves |-> 0]

ProjectNext == Run \/ MarkAbandoned \/ Children \/ Crash \/ TargetMoves

ProjectSpec == ProjectInit /\ [][ProjectNext]_projectVars

-----------------------------------------------------------------------------
(* Properties *)

Unmoved == supply.moves = 0

\* No crash and no failed fetch turns a change that is on the branch into a rejected task,
\* whose dependents would never run: a resume finds its own pick, and a merged child waits
\* for the target to be fetched again.  An attended project may stop on a failed fetch.
RejectedIsNotIntegrated ==
  supply.raises = 0 /\ Unmoved /\ (plan.remote => plan.unattended) =>
    \A t \in Tasks : Rejected(t) =>
      Commit(t, TRUE) \notin ToSet(IF plan.remote THEN branches.target ELSE branches.head)

\* A project that is done has every task on its branch, or names the task; an attended one
\* names none.
DoneNamesWhatIsMissing ==
  project.state = "DONE" =>
    /\ Tasks \subseteq Holds(branches.head) \union project.looks
    /\ ~plan.unattended => project.looks = {}

\* A child starts from a branch with all that its task depends on.
StartsFromDependencies ==
  \A t \in Tasks : child[t].state # "none" /\ Unmoved => plan.deps[t] \subseteq child[t].base

\* No task is left out: neither from the branch its dependents start from, nor from a project
\* that is done, whatever crashes fall between a record, its reason and its commit.
NoTaskIsMissing == DoneNamesWhatIsMissing /\ StartsFromDependencies

-----------------------------------------------------------------------------
(* The inductive invariant of the two *)

Commits == {Commit(t, same) : t \in 0..MaxTasks, same \in BOOLEAN}

\* The records have their fields; the rest of a type is of no use to the proof.
PlanFields ==
  /\ {"deps", "remote", "unattended"} \subseteq DOMAIN plan
  /\ {plan.remote, plan.unattended} \subseteq BOOLEAN
  /\ Tasks \subseteq DOMAIN plan.deps /\ \A t \in Tasks : plan.deps[t] \subseteq 1..(t - 1)
RecordFields ==
  /\ {"state", "merged", "record", "looks"} \subseteq DOMAIN project
  /\ Tasks \subseteq DOMAIN project.record
BranchFields ==
  /\ {"head", "target", "half"} \subseteq DOMAIN branches
  /\ branches.head \in Seq(Commits) /\ branches.target \in Seq(Commits)
ChildFields ==
  /\ Tasks \subseteq DOMAIN child
  /\ \A t \in Tasks :
       /\ {"state", "base", "sha", "look"} \subseteq DOMAIN child[t]
       /\ child[t].state \in {"none", "going", "PR_READY", "DONE", "NEEDS_HUMAN", "FAILED"}
RunnerFields ==
  /\ {"pc", "wave", "live", "raised", "completed", "unmerged"} \subseteq DOMAIN runner
  /\ {runner.wave, runner.live, runner.raised} \subseteq SUBSET Tasks
  /\ {runner.completed, runner.unmerged} \subseteq SUBSET Tasks
SupplyFields ==
  /\ {"resumes", "raises", "fetches", "moves"} \subseteq DOMAIN supply
  /\ {supply.raises, supply.moves} \subseteq Nat
ProjectFields ==
  PlanFields /\ RecordFields /\ BranchFields /\ ChildFields /\ RunnerFields /\ SupplyFields

\* The steps that settle a task of the wave.
Settling == {"settle", "reason", "picked", "copy"}

\* The wave: its tasks are running, their dependencies are settled when it starts, and each has
\* a child that finished or raised when it is settled; a task is on the branch once it is picked.
WaveInv ==
  /\ runner.wave # {} <=> runner.pc \in {"mark", "dispatch", "wave"} \union Settling
  /\ runner.pc # "wave" => runner.live = {}
  /\ runner.live \subseteq runner.wave
  /\ \A t \in runner.live : child[t].state = "going"
  /\ runner.pc \in {"wave"} \union Settling =>
       \A t \in runner.wave : t \in runner.live \/ t \in runner.raised \/ Finished(t)
  /\ runner.pc \in {"dispatch", "wave", "settle", "picked"} =>
       \A t \in runner.wave : project.record[t] = "RUNNING"
  /\ runner.pc \in {"reason", "copy"} =>
       \A t \in runner.wave \ {Current} : project.record[t] = "RUNNING"
  /\ runner.pc \in {"mark", "dispatch"} =>
       \A t \in runner.wave : plan.deps[t] \subseteq runner.completed
  /\ runner.pc \in {"picked", "copy"} => ~plan.remote /\ Current \in Holds(branches.head)
  /\ supply.raises = 0 => runner.raised = {}

\* What the records say is on the branch, or is in the list of what is missing.
RecordInv ==
  /\ project.state \in {"none", "PLANNING"} => runner.pc \in {"off", "plan", "planned"}
  /\ project.state = "none" \/ runner.pc \in {"plan", "planned"} =>
       \A t \in Tasks : project.record[t] = "PENDING"
  /\ project.state = "DONE" =>
       runner.pc = "off" /\ Tasks \subseteq Holds(branches.head) \union project.looks
  /\ \A t \in Tasks : project.record[t] = "DONE" =>
       IF plan.remote THEN t \in project.merged \/ (t \in project.looks /\ plan.unattended)
                      ELSE t \in Holds(branches.head)
  /\ \A t \in Tasks : plan.remote /\ child[t].state = "DONE" => child[t].sha \/ plan.unattended
  /\ \A t \in Tasks : child[t].state = "PR_READY" => ~plan.remote
  /\ runner.completed \subseteq Holds(branches.head)
  /\ runner.unmerged \subseteq project.looks
  /\ runner.pc \in {"final", "passed", "warn", "done"} =>
       Tasks \subseteq runner.completed \union runner.unmerged
  /\ ~plan.unattended => project.looks = {} /\ runner.unmerged = {} /\ runner.pc # "reason"

\* What the branches hold: all that merged, no child that failed; and a local branch holds the
\* picks of finished children.
BranchInv ==
  /\ Unmoved /\ plan.remote => /\ Holds(branches.head) \subseteq Holds(branches.target)
                              /\ project.merged \subseteq Holds(branches.target)
  /\ ~plan.remote =>
       \A t \in Tasks \intersect Holds(branches.head) : child[t].state \in {"PR_READY", "DONE"}
  /\ Unmoved /\ plan.remote => \A t \in Tasks :
       /\ child[t].state \in {"NEEDS_HUMAN", "FAILED"} => t \notin Holds(branches.target)
       /\ child[t].state = "DONE" /\ child[t].sha => t \in Holds(branches.target)

ProjectInv ==
  /\ ProjectFields /\ WaveInv /\ RecordInv /\ BranchInv
  /\ RejectedIsNotIntegrated /\ StartsFromDependencies

(* Promises of the documentation that the code does not keep: each can be refuted. *)

\* The project list holds the reasons of each child whose change it took.
ReasonsAreCopied ==
  project.state = "DONE" =>
    \A t \in Tasks : child[t].look /\ ~plan.remote /\ project.record[t] = "DONE"
                  => t \in project.copied

=============================================================================
