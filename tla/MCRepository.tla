----------------------------- MODULE MCRepository -----------------------------
(***************************************************************************)
(* What runs share, in one run of TLC: the publication of a branch, the      *)
(* merge of its pull request, the proposal of a repository setup, a project,   *)
(* the lock of a workspace and the worktrees.  Each behaviour is of one of     *)
(* them, chosen at the start; the others stay in an initial state.  The        *)
(* publication and the lock keep their variables; a .. h are those of the      *)
(* other components, in the order they list them.                             *)
(***************************************************************************)
EXTENDS WorkspaceLock, Publication

CONSTANTS
  RequiredChecks, OtherChecks,          \* of Merging
  Heads, Checkers, Hand,                \* of SetupRun
  Items,                                \* of Worktrees
  Polls, Faults, Reopens, Changes,      \* bounds of Merging
  Moves, Crashes, LastHead, Troubles,   \* bounds of SetupRun and of Worktrees
  LastTask, AtOnce, Resumes, Failures   \* of Projects: the tasks, a wave, bounds

\* A service that merges has required checks, and runs a task at a time or more (config.py:
\* merge.enabled requires them, max_concurrent_tasks is positive).
ASSUME SharedAssumption ==
  RequiredChecks # {} /\ AtOnce > 0 /\ {Changes, LastHead, LastTask, AtOnce} \subseteq Nat

VARIABLES which, a, b, c, d, e, f, g, h

M == INSTANCE Merging WITH
       pull <- a, branches <- b, checks <- c, policy <- d, merger <- e, outcome <- f,
       green <- g, left <- h, MaxPolls <- Polls, MaxFaults <- Faults, MaxRetries <- Reopens,
       MaxChanges <- Changes
S == INSTANCE SetupRun WITH
       repo <- a, record <- b, tree <- c, checker <- d, owner <- e, pulls <- f, job <- g,
       spent <- h, MaxMoves <- Moves, MaxCrashes <- Crashes
J == INSTANCE Projects WITH
       plan <- a, project <- b, branches <- c, child <- d, runner <- e, supply <- f,
       MaxTasks <- LastTask, WaveSize <- AtOnce, MaxResumes <- Resumes, MaxTroubles <- Failures
W == INSTANCE Worktrees WITH
       repo <- a, tree <- b, branch <- c, meta <- d, job <- e, last <- f, times <- g,
       MaxHead <- LastHead, MaxTroubles <- Troubles

shared == <<a, b, c, d, e, f, g, h>>
own == <<lockVars, pubVars>>
mcvars == <<which, shared, own>>

Publishing == which = "publication" /\ PubNext /\ UNCHANGED <<which, shared, lockVars>>
Locking == which = "lock" /\ LockNext /\ UNCHANGED <<which, shared, pubVars>>
Merging == which = "merge" /\ M!MergeNext /\ UNCHANGED <<which, own>>
SettingUp == which = "setup" /\ S!SetupNext /\ UNCHANGED <<which, own>>
Planning == which = "project" /\ J!ProjectNext /\ UNCHANGED <<which, g, h, own>>
Preparing == which = "worktrees" /\ W!TreeNext /\ UNCHANGED <<which, h, own>>

\* The publication starts in any of its initial states, and in one of them when the
\* behaviour is of another component.
Start ==
  /\ LockInit /\ PubInit
  /\ which # "publication" =>
       receipt.authorized /\ receipt.tree = (CHOOSE tree \in Trees : TRUE)

MCInit ==
  /\ \/ /\ which \in {"lock", "publication"}
        /\ a = 0 /\ b = 0 /\ c = 0 /\ d = 0 /\ e = 0 /\ f = 0 /\ g = 0 /\ h = 0
     \/ which = "merge" /\ M!MergeInit
     \/ which = "setup" /\ S!SetupInit
     \/ which = "project" /\ J!ProjectInit /\ g = 0 /\ h = 0
     \/ which = "worktrees" /\ W!TreeInit /\ h = 0
  /\ Start

MCNext == Publishing \/ Locking \/ Merging \/ SettingUp \/ Planning \/ Preparing

MCSpec == MCInit /\ [][MCNext]_mcvars

\* The properties of the publication and of the lock are those of their modules:
\* PublishesInOrder, ReachesOnlyItsRepository and PublishesWhatWasReviewed; IsALock.

\* Of the merge: a reported merge is proven, and the factory's own merge is enforced.
ReportedMergeIsProven == which = "merge" => M!ReportedMergeIsProven
MergesOnlyEnforced == [][which = "merge" => M!EnforcesChecks]_mcvars

\* Of the setup: who publishes a worktree applied the plan in it.
PublishesOwnSetup == which = "setup" => S!PublishesOwnSetup

\* Of a project: a rejected task is not on the branch, and no other one is missing there.
RejectedIsNotIntegrated == which = "project" => J!RejectedIsNotIntegrated
NoTaskIsMissing == which = "project" => J!NoTaskIsMissing

\* Of the worktrees: git knows the directories, and a change is measured from its fork.
DirectoriesAreRegistered == which = "worktrees" => W!DirectoriesAreRegistered
ChangeIsWhole == which = "worktrees" => W!ChangeIsWhole

=============================================================================
