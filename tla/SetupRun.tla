-------------------------------- MODULE SetupRun --------------------------------
(***************************************************************************)
(* Repository setup (setup_run.py, and `factory setup' in cli.py): at each  *)
(* tick of a service, SetupTrigger looks whether the repository misses      *)
(* development tools, applies a plan in a worktree of the source HEAD and   *)
(* proposes it as a pull request, once.  A person may run the same setup by *)
(* hand.  The record of the last HEAD and the last proposal is a file.      *)
(*                                                                          *)
(* A plan is "none", "A" or "B"; the files of "B" are only known after its  *)
(* commands ran, so a checkout shows another plan.  One step stands for the *)
(* work between two writes; a process may die after any of them.            *)
(***************************************************************************)
EXTENDS Naturals, FiniteSets

CONSTANTS Heads,       \* the commits the source checkout may be at
          Checkers,    \* the services that check the repository
          Hand,        \* `factory setup --publish'
          MaxMoves,    \* how often the checkout changes
          MaxCrashes

VARIABLES repo,     \* [head, dirty, needs]: the checkout, and what every commit misses
          record,   \* the state file: [head, plan, url], the last HEAD and proposal
          tree,     \* per commit, its setup worktree: [state, base, by]
          checker,  \* who holds the check of the repository
          owner,    \* per commit, who holds the lock of its worktree
          pulls,    \* the setup pull requests: [head, plan, by]
          job,      \* per process: [step, head, prev, ok]
          spent     \* [moves, crashes]

setupVars == <<repo, record, tree, checker, owner, pulls, job, spent>>

Processes == Checkers \cup {Hand}
NoRecord == [head |-> "", plan |-> "none", url |-> FALSE]
NoTree == [state |-> "none", base |-> "", by |-> Hand]
NoJob == [step |-> "idle", head |-> "", prev |-> NoRecord, ok |-> TRUE]

SetupInit ==
  /\ \E needs \in [Heads -> {"none", "A", "B"}], h \in Heads :
       repo = [head |-> h, dirty |-> FALSE, needs |-> needs]
  /\ record = NoRecord
  /\ tree = [h \in Heads |-> NoTree]
  /\ checker = {} /\ owner = [h \in Heads |-> {}]
  /\ pulls = {}
  /\ job = [p \in Processes |-> NoJob]
  /\ spent = [moves |-> 0, crashes |-> 0]

At(p, s) == job[p].step = s
To(p, s) == job' = [job EXCEPT ![p].step = s]

\* What planning finds in the checkout and in the worktree.
Early(plan) == IF plan = "B" THEN "B before its commands" ELSE plan

AlreadyProposed(prev, plan) == prev.url /\ prev.plan = plan

-----------------------------------------------------------------------------
(* One check: SetupTrigger.tick *)

\* Who does not get the check skips the tick; a HEAD that was seen is not planned.
Tick(p) ==
  /\ p \in Checkers /\ At(p, "idle") /\ checker = {}
  /\ record.head # repo.head
  /\ checker' = {p}
  /\ job' = [job EXCEPT ![p] = [step |-> IF repo.dirty THEN "worktree" ELSE "plan",
                                head |-> repo.head, prev |-> record, ok |-> TRUE]]
  /\ UNCHANGED <<repo, record, tree, owner, pulls, spent>>

\* The check ends: what it decided goes to the state file.
Save(p, state) ==
  /\ record' = IF p \in Checkers THEN state ELSE record
  /\ checker' = checker \ {p}
  /\ job' = [job EXCEPT ![p] = NoJob]

NothingToAdd(p) == Save(p, [NoRecord EXCEPT !.head = job[p].head])
KeepProposal(p) == Save(p, [job[p].prev EXCEPT !.head = job[p].head])

\* A clean checkout is planned where it stands, which may be another HEAD by now.
PlanCheckout(p) ==
  /\ At(p, "plan") /\ UNCHANGED <<repo, tree, owner, pulls, spent>>
  /\ LET plan == Early(repo.needs[repo.head])
     IN  \/ plan = "none" /\ NothingToAdd(p)
         \/ plan # "none" /\ AlreadyProposed(job[p].prev, plan) /\ KeepProposal(p)
         \/ /\ plan # "none" /\ ~AlreadyProposed(job[p].prev, plan)
            /\ To(p, "worktree") /\ UNCHANGED <<record, checker>>

StartByHand ==
  /\ At(Hand, "idle")
  /\ job' = [job EXCEPT ![Hand] = [NoJob EXCEPT !.step = "worktree", !.head = repo.head]]
  /\ UNCHANGED <<repo, record, tree, checker, owner, pulls, spent>>

-----------------------------------------------------------------------------
(* run_toolchain_setup *)

\* A bug: the worktree is used as it is.
AtHead(p, t) == t.base = job[p].head

\* The worktree must be at the HEAD that was asked for, and clean.
Usable(p, t) == t.base = job[p].head /\ t.state = "clean"

\* prepare creates a worktree at what HEAD is now, or finds the kept one.
Prepared(p) ==
  LET t == tree[job[p].head]
  IN  IF t.state = "none" THEN [t EXCEPT !.state = "clean", !.base = repo.head] ELSE t

OpenTree(p) ==
  /\ At(p, "worktree") /\ owner[job[p].head] = {} /\ Usable(p, Prepared(p))
  /\ tree' = [tree EXCEPT ![job[p].head] = Prepared(p)]
  /\ owner' = [owner EXCEPT ![job[p].head] = {p}]
  /\ To(p, "apply") /\ UNCHANGED <<repo, record, checker, pulls, spent>>

\* SetupError: the lock is taken, HEAD moved, or the worktree was used before.
TreeRefused(p) ==
  /\ At(p, "worktree")
  /\ \/ owner[job[p].head] # {} /\ UNCHANGED tree
     \/ /\ owner[job[p].head] = {} /\ ~Usable(p, Prepared(p))
        /\ tree' = [tree EXCEPT ![job[p].head] = Prepared(p)]
  /\ KeepProposal(p) /\ UNCHANGED <<repo, owner, pulls, spent>>

Changed(p) ==
  tree' = [tree EXCEPT ![job[p].head].state = "changed", ![job[p].head].by = p]

\* apply_toolchain_setup: nothing to do, all done, or a command that failed;
\* the worktree lock goes back with the result.
Apply(p) ==
  /\ At(p, "apply")
  /\ owner' = [owner EXCEPT ![job[p].head] = {}]
  /\ \/ repo.needs[job[p].head] = "none" /\ To(p, "result") /\ UNCHANGED tree
     \/ repo.needs[job[p].head] # "none" /\ To(p, "result") /\ Changed(p)
     \/ /\ repo.needs[job[p].head] # "none"
        /\ job' = [job EXCEPT ![p].step = "result", ![p].ok = FALSE]
        /\ Changed(p) \/ UNCHANGED tree
  /\ UNCHANGED <<repo, record, checker, pulls, spent>>

\* SetupError: a command changed a path it may not change.
UnexpectedChange(p) ==
  /\ At(p, "apply") /\ repo.needs[job[p].head] # "none"
  /\ owner' = [owner EXCEPT ![job[p].head] = {}]
  /\ Changed(p) /\ KeepProposal(p)
  /\ UNCHANGED <<repo, pulls, spent>>

-----------------------------------------------------------------------------
(* Publishing, after the worktree lock went back *)

Result(p) ==
  /\ At(p, "result") /\ UNCHANGED <<repo, tree, owner, pulls, spent>>
  /\ LET plan == repo.needs[job[p].head]
     IN  \/ plan = "none" /\ NothingToAdd(p)
         \/ plan # "none" /\ AlreadyProposed(job[p].prev, plan) /\ KeepProposal(p)
         \/ /\ plan # "none" /\ ~job[p].ok /\ ~AlreadyProposed(job[p].prev, plan)
            /\ KeepProposal(p)
         \/ /\ plan # "none" /\ job[p].ok /\ ~AlreadyProposed(job[p].prev, plan)
            /\ To(p, "publish") /\ UNCHANGED <<record, checker>>

\* publish_setup checks the worktree once more and commits it.
CommitSetup(p) ==
  /\ At(p, "publish") /\ UNCHANGED <<repo, owner, pulls, spent>>
  /\ \/ /\ tree[job[p].head].state = "changed"
        /\ tree' = [tree EXCEPT ![job[p].head].state = "committed"]
        /\ To(p, "create") /\ UNCHANGED <<record, checker>>
     \/ KeepProposal(p) /\ UNCHANGED tree

\* The branch of a HEAD has at most one pull request: a second is discovered.
Opened(p) ==
  LET plan == repo.needs[job[p].head]
  IN  pulls' = pulls \cup {[head |-> job[p].head, plan |-> plan, by |-> p]}

CreatePull(p) ==
  /\ At(p, "create") /\ Opened(p) /\ To(p, "save")
  /\ UNCHANGED <<repo, record, tree, checker, owner, spent>>

\* The publication raises, and GitHub may have made the pull request all the same.
CreateFails(p) ==
  /\ At(p, "create")
  /\ Opened(p) \/ UNCHANGED pulls
  /\ KeepProposal(p) /\ UNCHANGED <<repo, tree, owner, spent>>

SaveProposal(p) ==
  /\ At(p, "save")
  /\ Save(p, [head |-> job[p].head, plan |-> repo.needs[job[p].head], url |-> TRUE])
  /\ UNCHANGED <<repo, tree, owner, pulls, spent>>

-----------------------------------------------------------------------------
(* Around it *)

\* Both locks are flocks, so they go with the process.
Crash(p) ==
  /\ ~At(p, "idle") /\ spent.crashes < MaxCrashes
  /\ spent' = [spent EXCEPT !.crashes = @ + 1]
  /\ job' = [job EXCEPT ![p] = NoJob]
  /\ checker' = checker \ {p} /\ owner' = [h \in Heads |-> owner[h] \ {p}]
  /\ UNCHANGED <<repo, record, tree, pulls>>

\* A person commits, pulls, switches the branch or edits.
MoveHead ==
  /\ spent.moves < MaxMoves /\ spent' = [spent EXCEPT !.moves = @ + 1]
  /\ \E h \in Heads, dirty \in BOOLEAN :
       repo' = [repo EXCEPT !.head = h, !.dirty = dirty]
  /\ UNCHANGED <<record, tree, checker, owner, pulls, job>>

SetupNext ==
  \/ StartByHand \/ MoveHead
  \/ \E p \in Processes :
       \/ Tick(p) \/ PlanCheckout(p) \/ OpenTree(p) \/ TreeRefused(p) \/ Apply(p)
       \/ UnexpectedChange(p) \/ Result(p) \/ CommitSetup(p) \/ CreatePull(p)
       \/ CreateFails(p) \/ SaveProposal(p) \/ Crash(p)

SetupSpec == SetupInit /\ [][SetupNext]_setupVars

-----------------------------------------------------------------------------
(* Properties *)

\* Who publishes a setup worktree is who applied the plan in it, although the
\* lock goes back before the publication and a failed or killed setup leaves its
\* worktree behind (run_toolchain_setup and publish_setup in setup_run.py).
PublishesOwnSetup ==
  \A p \in Processes :
    job[p].step \in {"publish", "create"} => tree[job[p].head].by = p

(* The inductive invariant of it *)

SetupFields ==
  /\ {"head", "dirty", "needs"} \subseteq DOMAIN repo /\ repo.head \in Heads
  /\ Heads \subseteq DOMAIN tree /\ Heads \subseteq DOMAIN owner
  /\ \A n \in Heads : {"state", "base", "by"} \subseteq DOMAIN tree[n]
  /\ Processes \subseteq DOMAIN job
  /\ \A p \in Processes :
       /\ {"step", "head", "prev", "ok"} \subseteq DOMAIN job[p]
       /\ ~At(p, "idle") => job[p].head \in Heads

\* Who applies a plan has the lock of a worktree that nobody has used before.
AppliesAlone ==
  \A p \in Processes :
    At(p, "apply") => owner[job[p].head] = {p} /\ tree[job[p].head].state = "clean"

\* The plan of a process that got through is the last that was applied to its worktree, which
\* is no longer one that another may use.
HasApplied(p) ==
  \/ At(p, "result") /\ job[p].ok /\ repo.needs[job[p].head] # "none"
  \/ job[p].step \in {"publish", "create"}
OwnChange ==
  \A p \in Processes :
    HasApplied(p) => /\ tree[job[p].head].by = p
                     /\ tree[job[p].head].state \in {"changed", "committed"}

SetupInv == SetupFields /\ AppliesAlone /\ OwnChange

(* Promises of the documentation that the code does not keep: each can be refuted. *)

\* The check never opens a second pull request for what it already proposed (the
\* docstring of SetupTrigger in setup_run.py).  It remembers one proposal, and
\* forgets it with the next plan, with an empty plan, or when a publication
\* raises after GitHub made the pull request.
OneProposalPerPlan ==
  \A a, b \in pulls : {a.by, b.by} \subseteq Checkers /\ a.plan = b.plan => a = b

=============================================================================
