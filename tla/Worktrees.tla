------------------------------- MODULE Worktrees -------------------------------
(***************************************************************************)
(* The Git worktrees of the work items of one repository (workspace.py):    *)
(* prepare creates or restores the worktree of an item, discard removes it, *)
(* and runs of different items do so at the same time.  What `git worktree' *)
(* keeps of every worktree is shared by all of them, so both work under one *)
(* lock of the repository.  A process may die between any two commands.     *)
(*                                                                          *)
(* One process at a time works on an item (WorkspaceLock), so an item       *)
(* stands for the process that owns it.  The commits of the repository are  *)
(* numbered along its branch, and a branch of an item is the commit it was  *)
(* made from, with or without commits of its own.                           *)
(***************************************************************************)
EXTENDS Naturals, FiniteSets

CONSTANTS Items,
          MaxHead,      \* how far the repository moves
          MaxTroubles   \* bound: deaths of a process, and worktrees that a person deletes

VARIABLES repo,    \* [head, registered, lock]: HEAD, the worktrees Git knows, the worktree lock
          tree,    \* per item, its directory: [there, dirty]
          branch,  \* per item, its branch: [there, fork, own]
          meta,    \* per item, the recorded base, NoCommit without metadata
          job,     \* per item, the process: [step, asked, base]
          last,    \* per item, its latest run: "none", "started", "ready" once it recorded
                   \* the worktree, and "left" when it ended or waits
          times    \* [troubles] so far, and delivers: whether merging is enabled

treeVars == <<repo, tree, branch, meta, job, last, times>>

NoCommit == MaxHead + 1   \* no commit

NoTree == [there |-> FALSE, dirty |-> FALSE]
NoBranch == [there |-> FALSE, fork |-> 0, own |-> FALSE]
NoJob == [step |-> "idle", asked |-> NoCommit, base |-> NoCommit]

TreeInit ==
  /\ repo = [head |-> 0, registered |-> {}, lock |-> {}]
  /\ tree = [w \in Items |-> NoTree]
  /\ branch = [w \in Items |-> NoBranch]
  /\ meta = [w \in Items |-> NoCommit]
  /\ job = [w \in Items |-> NoJob]
  /\ last = [w \in Items |-> "none"]
  /\ \E delivers \in BOOLEAN :
       times = [troubles |-> 0, delivers |-> delivers]

At(w, s) == job[w].step = s
To(w, s) == job' = [job EXCEPT ![w].step = s]

\* A bug: nobody waits.
NeverWaits == TRUE

\* The lock of the repository: who waits for it blocks.
CanLock == repo.lock = {}

Locks(w) == repo' = [repo EXCEPT !.lock = {w}]
Unlocks == repo' = [repo EXCEPT !.lock = {}]

\* WorkspaceError: the lock goes back, and the run fails.
Fails(w) ==
  /\ Unlocks /\ job' = [job EXCEPT ![w] = NoJob]
  /\ last' = [last EXCEPT ![w] = "none"]

\* git worktree prune: Git forgets the worktrees that have no directory.
Pruned == {w \in repo.registered : tree[w].there}

-----------------------------------------------------------------------------
(* A process takes up an item: a new run, or one that continues *)

\* A new run whose work is merged starts on the commit fetched for it.
StartRun(w) ==
  /\ At(w, "idle")
  /\ \E asked \in (IF times.delivers THEN repo.head..MaxHead ELSE {NoCommit}) :
       job' = [job EXCEPT ![w] = [step |-> "prepare", asked |-> asked, base |-> NoCommit]]
  /\ last' = [last EXCEPT ![w] = "started"]
  /\ UNCHANGED <<repo, tree, branch, meta, times>>

\* A resume or a reopen of the latest run, whose worktree is where it recorded
\* it (workspace_matches).
ContinueRun(w) ==
  /\ At(w, "idle") /\ tree[w].there /\ last[w] \in {"ready", "left"}
  /\ job' = [job EXCEPT ![w] = [step |-> "prepare", asked |-> NoCommit, base |-> NoCommit]]
  /\ UNCHANGED <<repo, tree, branch, meta, last, times>>

\* A restart of an unattended run that has nothing to continue with.
RestartRun(w) ==
  /\ At(w, "idle") /\ last[w] \in {"started", "ready"} /\ To(w, "discard")
  /\ UNCHANGED <<repo, tree, branch, meta, last, times>>

-----------------------------------------------------------------------------
(* prepare *)

LockToPrepare(w) ==
  /\ At(w, "prepare") /\ CanLock
  /\ Locks(w) /\ To(w, "inspect")
  /\ UNCHANGED <<tree, branch, meta, last, times>>

\* _prepare_locked: restore, prune and create, refuse, or create.
Inspect(w) ==
  /\ At(w, "inspect") /\ UNCHANGED <<tree, branch, meta, times>>
  /\ \/ /\ w \in repo.registered /\ tree[w].there
        /\ To(w, "base") /\ UNCHANGED <<repo, last>>
     \/ /\ w \in repo.registered /\ ~tree[w].there
        /\ repo' = [repo EXCEPT !.registered = Pruned]
        /\ To(w, "create") /\ UNCHANGED last
     \/ /\ w \notin repo.registered /\ tree[w].there
        /\ Fails(w)
     \/ /\ w \notin repo.registered /\ ~tree[w].there
        /\ To(w, "create") /\ UNCHANGED <<repo, last>>

\* git worktree add notes the worktree before it makes the directory.
Register(w) ==
  /\ At(w, "create")
  /\ repo' = [repo EXCEPT !.registered = @ \cup {w}]
  /\ branch' = [branch EXCEPT ![w] =
       IF @.there THEN @
       ELSE [there |-> TRUE, own |-> FALSE,
             fork |-> IF job[w].asked = NoCommit THEN repo.head ELSE job[w].asked]]
  /\ To(w, "checkout") /\ UNCHANGED <<tree, meta, last, times>>

CheckOut(w) ==
  /\ At(w, "checkout")
  /\ tree' = [tree EXCEPT ![w] = [there |-> TRUE, dirty |-> FALSE]]
  /\ To(w, "base") /\ UNCHANGED <<repo, branch, meta, last, times>>

AddFails(w) ==
  /\ At(w, "create") /\ Fails(w)
  /\ UNCHANGED <<tree, branch, meta, times>>

\* A bug: without metadata, the base is where the source is now.
HeadNow(w) == repo.head

\* git merge-base HEAD <branch>: HEAD may not have reached the fork.
MergeBase(w) == IF branch[w].fork < repo.head THEN branch[w].fork ELSE repo.head

\* _load_or_compute_base_commit: the recorded base, unless another is asked for.
FindBase(w) ==
  /\ At(w, "base") /\ UNCHANGED <<tree, branch, times>>
  /\ LET base == IF meta[w] # NoCommit THEN meta[w]
                 ELSE IF job[w].asked # NoCommit THEN job[w].asked ELSE MergeBase(w)
     IN  IF job[w].asked \in {NoCommit, base}
           THEN /\ meta' = [meta EXCEPT ![w] = base]
                /\ job' = [job EXCEPT ![w].step = "verify", ![w].base = base]
                /\ UNCHANGED <<repo, last>>
           ELSE Fails(w) /\ UNCHANGED meta

\* Work that is merged starts clean at the fetched commit.
Verify(w) ==
  /\ At(w, "verify") /\ UNCHANGED <<tree, branch, meta, times>>
  /\ IF \/ job[w].asked = NoCommit
        \/ branch[w].fork = job[w].asked /\ ~branch[w].own /\ ~tree[w].dirty
       THEN Unlocks /\ To(w, "working") /\ last' = [last EXCEPT ![w] = "ready"]
       ELSE Fails(w)

-----------------------------------------------------------------------------
(* discard *)

LockToDiscard(w) ==
  /\ At(w, "discard") /\ CanLock
  /\ Locks(w) /\ To(w, "remove")
  /\ UNCHANGED <<tree, branch, meta, last, times>>

\* git worktree remove --force, which deletes the directory first.
RemoveDirectory(w) ==
  /\ At(w, "remove")
  /\ tree' = [tree EXCEPT ![w] = NoTree]
  /\ To(w, "prune") /\ UNCHANGED <<repo, branch, meta, last, times>>

\* Git refuses, for example for a locked worktree.
RemoveFails(w) ==
  /\ At(w, "remove") /\ tree[w].there /\ Fails(w)
  /\ UNCHANGED <<tree, branch, meta, times>>

Prune(w) ==
  /\ At(w, "prune")
  /\ repo' = [repo EXCEPT !.registered = Pruned]
  /\ To(w, "branch") /\ UNCHANGED <<tree, branch, meta, last, times>>

DeleteBranch(w) ==
  /\ At(w, "branch")
  /\ branch' = [branch EXCEPT ![w] = NoBranch]
  /\ Unlocks /\ To(w, "forget")
  /\ UNCHANGED <<tree, meta, last, times>>

\* The metadata goes last, outside the lock; the run then prepares anew.
DeleteMeta(w) ==
  /\ At(w, "forget")
  /\ meta' = [meta EXCEPT ![w] = NoCommit]
  /\ \E asked \in (IF times.delivers THEN repo.head..MaxHead ELSE {NoCommit}) :
       job' = [job EXCEPT ![w] = [step |-> "prepare", asked |-> asked, base |-> NoCommit]]
  /\ UNCHANGED <<repo, tree, branch, last, times>>

-----------------------------------------------------------------------------
(* Work, and what happens around it *)

Edit(w) ==
  /\ At(w, "working") /\ tree' = [tree EXCEPT ![w].dirty = TRUE]
  /\ UNCHANGED <<repo, branch, meta, job, last, times>>

CommitWork(w) ==
  /\ At(w, "working") /\ tree[w].dirty
  /\ tree' = [tree EXCEPT ![w].dirty = FALSE]
  /\ branch' = [branch EXCEPT ![w].own = TRUE]
  /\ UNCHANGED <<repo, meta, job, last, times>>

\* The run ends and its worktree stays.
Leave(w) ==
  /\ At(w, "working") /\ job' = [job EXCEPT ![w] = NoJob]
  /\ last' = [last EXCEPT ![w] = "left"]
  /\ UNCHANGED <<repo, tree, branch, meta, times>>

\* The kernel drops the lock of a process that dies.
Crash(w) ==
  /\ ~At(w, "idle") /\ times.troubles < MaxTroubles
  /\ times' = [times EXCEPT !.troubles = @ + 1]
  /\ job' = [job EXCEPT ![w] = NoJob]
  /\ repo' = [repo EXCEPT !.lock = @ \ {w}]
  /\ UNCHANGED <<tree, branch, meta, last>>

MoveHead ==
  /\ repo.head < MaxHead /\ repo' = [repo EXCEPT !.head = @ + 1]
  /\ UNCHANGED <<tree, branch, meta, job, last, times>>

\* The operations guide has people delete the worktrees they no longer need,
\* with or without their branch and metadata.
DeleteByHand(w) ==
  /\ At(w, "idle") /\ times.troubles < MaxTroubles
  /\ times' = [times EXCEPT !.troubles = @ + 1]
  /\ tree' = [tree EXCEPT ![w] = NoTree]
  /\ branch' \in {branch, [branch EXCEPT ![w] = NoBranch]}
  /\ meta' \in {meta, [meta EXCEPT ![w] = NoCommit]}
  /\ UNCHANGED <<repo, job, last>>

TreeNext ==
  \/ MoveHead
  \/ \E w \in Items :
       \/ StartRun(w) \/ ContinueRun(w) \/ RestartRun(w)
       \/ LockToPrepare(w) \/ Inspect(w) \/ Register(w) \/ CheckOut(w) \/ AddFails(w)
       \/ FindBase(w) \/ Verify(w)
       \/ LockToDiscard(w) \/ RemoveDirectory(w) \/ RemoveFails(w) \/ Prune(w)
       \/ DeleteBranch(w) \/ DeleteMeta(w)
       \/ Edit(w) \/ CommitWork(w) \/ Leave(w) \/ Crash(w) \/ DeleteByHand(w)

TreeSpec == TreeInit /\ [][TreeNext]_treeVars

-----------------------------------------------------------------------------
(* Properties *)

\* Git knows every worktree that is there, whatever other items prune meanwhile
\* and wherever a process died.  An unregistered directory would make every
\* later prepare of the item refuse it (_prune_lock in workspace.py).
DirectoriesAreRegistered == \A w \in Items : tree[w].there => w \in repo.registered

\* The base that a run's change is measured against is never ahead of where its
\* branch left the repository, whatever crashed or was deleted before, so the
\* review misses nothing of the change (_load_or_compute_base_commit and
\* collect_evidence in workspace.py).
ChangeIsWhole == \A w \in Items : At(w, "working") => job[w].base <= branch[w].fork

(* The inductive invariant of the two *)

TreeFields ==
  /\ {"head", "registered", "lock"} \subseteq DOMAIN repo /\ repo.head \in 0..MaxHead
  /\ {"troubles", "delivers"} \subseteq DOMAIN times /\ times.delivers \in BOOLEAN
  /\ Items \subseteq DOMAIN tree /\ Items \subseteq DOMAIN branch /\ Items \subseteq DOMAIN meta
  /\ Items \subseteq DOMAIN job /\ Items \subseteq DOMAIN last
  /\ \A w \in Items :
       /\ {"there", "dirty"} \subseteq DOMAIN tree[w]
       /\ {"there", "fork", "own"} \subseteq DOMAIN branch[w] /\ branch[w].fork \in 0..MaxHead
       /\ {"step", "asked", "base"} \subseteq DOMAIN job[w]
       /\ {meta[w], job[w].asked, job[w].base} \subseteq 0..NoCommit

\* Between these the lock of the repository is held.
Locked == {"inspect", "create", "checkout", "base", "verify", "remove", "prune", "branch"}

\* Who is between the commands of Git has the lock alone.
LockHeld == \A w \in Items : job[w].step \in Locked => repo.lock = {w}

\* What is there of an item at each step.
Standing(w) ==
  /\ tree[w].there => branch[w].there
  /\ At(w, "checkout") => w \in repo.registered /\ branch[w].there
  /\ job[w].step \in {"base", "verify", "working"} => tree[w].there
  /\ job[w].step \in {"create", "checkout", "prune", "branch", "forget"} => ~tree[w].there
  /\ At(w, "forget") => ~branch[w].there

\* The recorded base is not ahead of the fork.
Fits(w) == meta[w] # NoCommit => meta[w] <= branch[w].fork

Preparing == {"prepare", "inspect", "create", "checkout", "base", "verify"}

\* Without delivery nobody asks for a commit, and every base was behind HEAD.
LocalBase(w) ==
  ~times.delivers =>
    /\ job[w].asked = NoCommit
    /\ meta[w] # NoCommit => meta[w] <= repo.head
    /\ branch[w].there => Fits(w)

\* With delivery a run that is continued has the worktree it recorded, and one that asks for a
\* commit gets no other.  A run that starts over has discarded what it had.
DeliveredBase(w) ==
  times.delivers =>
    /\ last[w] \in {"ready", "left"} /\ tree[w].there => Fits(w)
    /\ job[w].step \in Preparing /\ job[w].asked = NoCommit => tree[w].there /\ Fits(w)
    /\ job[w].step \in Preparing /\ job[w].asked # NoCommit /\ last[w] \in {"ready", "left"} =>
         /\ job[w].step \in {"prepare", "inspect", "create"} => ~branch[w].there
         /\ job[w].step \in {"checkout", "base", "verify"} => branch[w].fork = job[w].asked
         /\ ~At(w, "verify") => meta[w] = NoCommit

\* The base of a job is the recorded one, and the one it asked for.
OwnBase(w) ==
  /\ At(w, "verify") => /\ job[w].base = meta[w] /\ meta[w] # NoCommit
                        /\ job[w].asked \in {NoCommit, meta[w]}
  /\ At(w, "working") => Fits(w) /\ job[w].base <= branch[w].fork

TreeInv ==
  /\ TreeFields /\ LockHeld /\ DirectoriesAreRegistered
  /\ \A w \in Items : Standing(w) /\ LocalBase(w) /\ DeliveredBase(w) /\ OwnBase(w)

(* Promises of the documentation that the code does not keep: each can be refuted. *)

\* It is exactly that commit: a recorded base that no longer fits is found and
\* recomputed (the docstring of _load_or_compute_base_commit in workspace.py).
\* The code only looks whether the recorded commit exists.
RecordedBaseFits == \A w \in Items : At(w, "working") => job[w].base = branch[w].fork

=============================================================================
