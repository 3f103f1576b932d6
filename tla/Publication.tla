----------------------------- MODULE Publication -----------------------------
(***************************************************************************)
(* The publication of one run's accepted tree: the commit is built and      *)
(* recorded, the branch moves to it, it is pushed, and a pull request is    *)
(* found, created or refreshed.  RunController sees this as four steps;     *)
(* here every call of git and GitHub is a step that may fail, and may       *)
(* happen and lose its answer, and anyone else may move the branch, the     *)
(* remote, its branch and the pull requests in between.                     *)
(*                                                                         *)
(* A commit is the sequence of commits it was made on, itself last, without *)
(* the base commit of the run: <<>> is the base, and a branch that does not *)
(* exist.  All branches and pull requests here have the run's branch name.  *)
(* The description of a pull request is the tree it names.                  *)
(***************************************************************************)
EXTENDS Naturals, Sequences, SequencesExt

CONSTANTS
  Trees,          \* trees the run may publish, other than the base
  MaxRevisions,   \* bound: published commits (a CI repair publishes another one)
  MaxFaults,      \* bound: failed calls
  MaxRetries,     \* bound: crashes, and retries after a halt
  MaxMeddles      \* bound: what others do to the branch, the remotes and the pull requests

ASSUME PublicationAssumption == MaxFaults \in Nat /\ MaxRetries \in Nat /\ MaxMeddles \in Nat

VARIABLES
  receipt,   \* run.json: authorized, tree, pending and saved commit, pull request
  branch,    \* the run's branch in the worktree: checked out or not, tip
  alias,     \* the repository the configured remote points at
  remote,    \* tip of the branch in each repository
  pulls,     \* pull requests for the branch, in order of creation
  late,      \* pushes whose connection broke and that may still arrive
  step,      \* the thread that publishes
  bounds     \* what the environment may still do

pubVars == <<receipt, branch, alias, remote, pulls, late, step, bounds>>

github == <<remote, pulls>>
others == <<alias, late>>

Repositories == {"authorized", "other"}
Commit(by, tree) == [by |-> by, tree |-> tree]

Spend(what) == bounds[what] > 0 /\ bounds' = [bounds EXCEPT ![what] = @ - 1]
Meddled == bounds.meddles < MaxMeddles

Fresh == [pc |-> "idle", why |-> "none", api |-> "none", to |-> "none", head |-> <<>>, commit |-> <<>>,
          tries |-> 0, pull |-> 0]
GoTo(pc) == step' = [step EXCEPT !.pc = pc]
\* The controller stops the run with the reason of the failure.
Refuse(why) == step' = [Fresh EXCEPT !.pc = "halted", !.why = why]

-----------------------------------------------------------------------------
(* Commit and branch (publish_bound_commit) *)

\* resolve_remote_target: what the configured remote names now.
RemoteTarget == alias

\* verify_identity: an authorized run requires that it is the authorized repository; any
\* other run takes the one it finds.
IdentityHolds == receipt.authorized => RemoteTarget = "authorized"

\* _validate_pull_request_url: the stored pull request is of that repository.
StoredPullFits == receipt.url # 0 => pulls[receipt.url].repo = RemoteTarget

Identify ==
  /\ step.pc = "idle"
  /\ IF IdentityHolds /\ StoredPullFits
       THEN step' = [Fresh EXCEPT !.pc = "commit", !.api = RemoteTarget]
       ELSE Refuse("repository")
  /\ UNCHANGED <<receipt, branch, alias, github, late, bounds>>

\* A bug: the push goes to the remote's name.
ToAlias == "alias"

\* Where the push goes: an authorized run pins the repository it verified.
Destination == IF receipt.authorized THEN RemoteTarget ELSE "alias"

\* Where the branch may be when a recorded commit is published again: a crash may have
\* come before or after it moved.
ResumeHeads(commit, parent) == {parent, commit}

\* A bug: the recorded commit is published whatever was reviewed since.
AnyRecorded(commit, parent) == TRUE

\* _verify_commit_shape: the reviewed tree on the approved parent.
HasShape(commit, parent) == commit = Append(parent, Commit("factory", receipt.tree))

\* Check the remote again, the branch and the commit; a new commit is recorded before
\* anything shows it.
BuildCommit ==
  /\ step.pc = "commit"
  /\ LET parent == receipt.saved
         commit == IF receipt.pending = <<>>
                     THEN Append(parent, Commit("factory", receipt.tree)) ELSE receipt.pending
         heads == IF receipt.pending = <<>> THEN {parent} ELSE ResumeHeads(commit, parent)
         empty == /\ receipt.pending = <<>>
                  /\ parent # <<>> /\ Last(parent).tree = receipt.tree
         why == CASE ~IdentityHolds -> "repository"
                  [] ~branch.on -> "history"
                  [] ~HasShape(commit, parent) -> "content"
                  [] branch.tip \notin heads -> "history"
                  [] empty -> "empty"
                  [] OTHER -> "none"
     IN IF why # "none"
          THEN Refuse(why) /\ UNCHANGED receipt
          ELSE /\ receipt' = [receipt EXCEPT !.pending = commit]
               /\ step' = [step EXCEPT !.pc = "move", !.to = Destination, !.head = branch.tip,
                                       !.commit = commit]
  /\ UNCHANGED <<branch, alias, github, late, bounds>>

\* update-ref, compare and swap from the approved parent.
MoveBranch ==
  /\ step.pc = "move"
  /\ \/ /\ step.head = step.commit
        /\ GoTo("look")
        /\ UNCHANGED branch
     \/ /\ step.head # step.commit /\ branch.tip = receipt.saved
        /\ branch' = [branch EXCEPT !.tip = step.commit]
        /\ GoTo("look")
     \/ /\ step.head # step.commit /\ branch.tip # receipt.saved
        /\ Refuse("history")
        /\ UNCHANGED branch
  /\ UNCHANGED <<receipt, others, github, bounds>>

-----------------------------------------------------------------------------
(* Push *)

\* The repository a push or a listing reaches now.
Reached == IF step.to = "alias" THEN alias ELSE step.to

\* A remote takes a push that continues its branch.
Takes(repo, commit) == IsPrefix(remote[repo], commit)
Land(repo, commit) == remote' = [remote EXCEPT ![repo] = commit]

\* ls-remote before the push.
LookAtRemote ==
  /\ step.pc = "look"
  /\ \/ /\ step' = IF remote[Reached] = step.commit
                     THEN [step EXCEPT !.pc = "find"]
                     ELSE [step EXCEPT !.pc = "push", !.tries = 1]
        /\ UNCHANGED bounds
     \/ Refuse("github") /\ Spend("faults")
  /\ UNCHANGED <<receipt, branch, others, github>>

\* push without force.  A transient failure may have landed, may still land, or is lost.
Push ==
  /\ step.pc = "push"
  /\ \/ /\ Takes(Reached, step.commit)
        /\ Land(Reached, step.commit)
        /\ GoTo("find")
        /\ UNCHANGED <<late, bounds>>
     \/ /\ ~Takes(Reached, step.commit)
        /\ Refuse("diverged")
        /\ UNCHANGED <<remote, late, bounds>>
     \/ /\ Spend("faults")
        /\ GoTo("reconcile")
        /\ \/ Takes(Reached, step.commit) /\ Land(Reached, step.commit) /\ UNCHANGED late
           \/ late' = late \union {[repo |-> Reached, commit |-> step.commit]} /\ UNCHANGED remote
           \/ UNCHANGED <<remote, late>>
  /\ UNCHANGED <<receipt, branch, alias, pulls>>

\* A bug: any tip that is there counts as this push.
AnyTip == remote[Reached] # <<>>

\* _push_landed_after_failure: only the exact commit counts.
Landed == remote[Reached] = step.commit

\* A listing that fails counts as not landed.  One retry, then the run halts.
Reconcile ==
  /\ step.pc = "reconcile"
  /\ \/ /\ Landed
        /\ GoTo("find")
        /\ UNCHANGED bounds
     \/ /\ IF Landed THEN Spend("faults") ELSE UNCHANGED bounds
        /\ IF step.tries = 1
             THEN step' = [step EXCEPT !.pc = "push", !.tries = 2] ELSE Refuse("github")
  /\ UNCHANGED <<receipt, branch, others, github>>

-----------------------------------------------------------------------------
(* The pull request (_attach_pull_request) *)

\* find_pull_requests: the open ones of the branch.
OpenPulls == {i \in DOMAIN pulls : pulls[i].open /\ pulls[i].repo = step.api}

\* _is_same_pull_request: of this repository, and marked by this run.
Matches == {i \in OpenPulls : ~pulls[i].fork /\ pulls[i].ours}

\* _discover_pull_request adopts the one match there is.
Adopt == \E i \in Matches : Matches = {i} /\ step' = [step EXCEPT !.pc = "refresh", !.pull = i]
NoneFound == \A i \in Matches : Matches # {i}

FindPull ==
  /\ step.pc = "find"
  /\ \/ /\ receipt.url # 0
        /\ step' = [step EXCEPT !.pc = "refresh", !.pull = receipt.url]
        /\ UNCHANGED bounds
     \/ /\ receipt.url = 0
        /\ Adopt
        /\ UNCHANGED bounds
     \/ /\ receipt.url = 0 /\ NoneFound
        /\ step' = [step EXCEPT !.pc = "create", !.tries = 1]
        /\ UNCHANGED bounds
     \/ /\ receipt.url = 0
        /\ Refuse("github") /\ Spend("faults")
  /\ UNCHANGED <<receipt, branch, others, github>>

\* build_pr_body: from the run's artifacts, which are those of its accepted tree.
Description == receipt.tree

\* GitHub takes one open pull request of a branch, and none of a branch it does not have.
OpenFor(repo) == {i \in DOMAIN pulls : pulls[i].open /\ pulls[i].repo = repo /\ ~pulls[i].fork}
Creatable == remote[step.api] # <<>> /\ OpenFor(step.api) = {}
Created == Append(pulls, [repo |-> step.api, open |-> TRUE, fork |-> FALSE, ours |-> TRUE,
                          describes |-> Description])

\* create_pr.  The first failure that is not transient stops the run; any other is looked
\* into, as the pull request may be there.
CreatePull ==
  /\ step.pc = "create"
  /\ \/ /\ Creatable
        /\ pulls' = Created
        /\ step' = [step EXCEPT !.pc = "save", !.pull = Len(pulls')]
        /\ UNCHANGED bounds
     \/ /\ ~Creatable
        /\ IF step.tries = 1 THEN Refuse("github") ELSE GoTo("rediscover")
        /\ UNCHANGED <<pulls, bounds>>
     \/ /\ Spend("faults")
        /\ \/ Creatable /\ pulls' = Created
           \/ UNCHANGED pulls
        /\ \/ GoTo("rediscover")
           \/ step.tries = 1 /\ Refuse("github")
  /\ UNCHANGED <<receipt, branch, others, remote>>

Rediscover ==
  /\ step.pc = "rediscover"
  /\ \/ Adopt /\ UNCHANGED bounds
     \/ /\ IF NoneFound THEN UNCHANGED bounds ELSE Spend("faults")
        /\ IF step.tries = 1
             THEN step' = [step EXCEPT !.pc = "create", !.tries = 2] ELSE Refuse("github")
  /\ UNCHANGED <<receipt, branch, others, github>>

\* update_pr
Refreshed == [pulls EXCEPT ![step.pull].describes = Description]

\* _refresh_pull_request: the description names the tree that was pushed, or the run stops.
RefreshPull ==
  /\ step.pc = "refresh"
  /\ \/ pulls' = Refreshed /\ GoTo("save") /\ UNCHANGED bounds
     \/ pulls' \in {pulls, Refreshed} /\ Refuse("github") /\ Spend("faults")
  /\ UNCHANGED <<receipt, branch, others, remote>>

\* The receipt is resolved; then the run moves to PR_CREATED.
SavePublication ==
  /\ step.pc = "save"
  /\ receipt' = [receipt EXCEPT !.saved = step.commit, !.pending = <<>>, !.url = step.pull]
  /\ GoTo("saved")
  /\ UNCHANGED <<branch, others, github, bounds>>

PullRequestCreated ==
  /\ step.pc = "saved"
  /\ step' = [Fresh EXCEPT !.pc = "created"]
  /\ UNCHANGED <<receipt, branch, others, github, bounds>>

Publish ==
  \/ Identify \/ BuildCommit \/ MoveBranch \/ LookAtRemote \/ Push \/ Reconcile
  \/ FindPull \/ CreatePull \/ Rediscover \/ RefreshPull \/ SavePublication
  \/ PullRequestCreated

-----------------------------------------------------------------------------
(* The run before and after *)

\* A CI repair has another tree approved, and publishes it on the published commit.
Repair ==
  /\ step.pc = "created" /\ Len(receipt.saved) < MaxRevisions
  /\ \E tree \in Trees : /\ tree # receipt.tree
                         /\ receipt' = [receipt EXCEPT !.tree = tree]
  /\ step' = Fresh
  /\ UNCHANGED <<branch, others, github, bounds>>

\* A crash, or a person who reopens the halted run for another try.
Retry ==
  /\ step.pc \notin {"idle", "created"}
  /\ Spend("retries")
  /\ step' = Fresh
  /\ UNCHANGED <<receipt, branch, others, github>>

\* An operator escalation starts new work on a halted run, and keeps its receipt.
NewWork ==
  /\ step.pc = "halted"
  /\ Spend("meddles")
  /\ \E tree \in Trees : /\ tree # receipt.tree
                         /\ receipt' = [receipt EXCEPT !.tree = tree]
  /\ step' = Fresh
  /\ UNCHANGED <<branch, others, github>>

-----------------------------------------------------------------------------
(* Others *)

PushArrives ==
  /\ \E p \in late : /\ late' = late \ {p}
                     /\ IF Takes(p.repo, p.commit) THEN Land(p.repo, p.commit)
                                                   ELSE UNCHANGED remote
  /\ UNCHANGED <<receipt, branch, alias, pulls, step, bounds>>

Meddle ==
  /\ Spend("meddles")
  /\ \/ /\ \/ \E tree \in Trees :
                branch' = [branch EXCEPT !.tip = Append(@, Commit("person", tree))]
           \/ branch.tip # <<>> /\ branch' = [branch EXCEPT !.tip = Front(@)]
           \/ branch' = [branch EXCEPT !.on = ~@]
        /\ UNCHANGED <<alias, github>>
     \/ /\ \E repo \in Repositories, tree \in Trees :
             Land(repo, Append(remote[repo], Commit("person", tree)))
        /\ UNCHANGED <<branch, alias, pulls>>
     \/ /\ alias' \in Repositories \ {alias}
        /\ UNCHANGED <<branch, github>>
     \/ /\ \/ \E i \in DOMAIN pulls :
                /\ pulls[i].open \/ pulls[i].fork \/ OpenFor(pulls[i].repo) = {}
                /\ pulls' = [pulls EXCEPT ![i].open = ~@]
           \/ \E repo \in Repositories, fork \in BOOLEAN :
                /\ fork \/ (remote[repo] # <<>> /\ OpenFor(repo) = {})
                /\ pulls' = Append(pulls, [repo |-> repo, open |-> TRUE, fork |-> fork,
                                           ours |-> FALSE, describes |-> "none"])
        /\ UNCHANGED <<branch, alias, remote>>
  /\ UNCHANGED <<receipt, late, step>>

-----------------------------------------------------------------------------

PubInit ==
  /\ \E authorized \in BOOLEAN, tree \in Trees :
       receipt = [authorized |-> authorized, tree |-> tree, pending |-> <<>>, saved |-> <<>>,
                  url |-> 0]
  /\ branch = [on |-> TRUE, tip |-> <<>>]
  /\ alias = "authorized"
  /\ remote = [r \in Repositories |-> <<>>]
  /\ pulls = <<>>
  /\ late = {}
  /\ step = Fresh
  /\ bounds = [faults |-> MaxFaults, retries |-> MaxRetries, meddles |-> MaxMeddles]

PubNext == Publish \/ Repair \/ Retry \/ NewWork \/ PushArrives \/ Meddle

PubSpec == PubInit /\ [][PubNext]_pubVars

-----------------------------------------------------------------------------
(* Properties *)

\* The factory's commits that a repository holds.
ShownIn(repo) == {SubSeq(remote[repo], 1, n) : n \in {k \in DOMAIN remote[repo] :
                                                        remote[repo][k].by = "factory"}}

Shown == UNION {ShownIn(r) : r \in Repositories}

Steps == INSTANCE PublicationSteps
           WITH pending <- receipt.pending, saved <- receipt.saved, shown <- Shown

\* The publication keeps its promise through lost answers, late pushes, crashes and other
\* writers: nothing is shown that is not recorded, and nothing counts that is not shown.
PublishesInOrder == Steps!PsSpec

\* The work of an authorized run reaches the authorized repository only, whenever the remote
\* of the worktree is repointed (_push_destination).
StaysInRepository == receipt.authorized => ShownIn("other") = {}

\* A publication is refused because of the branch, the commit or the remote only if someone
\* changed them: faults, late pushes, crashes and retries of the publication itself do not.
RefusesOnlyMeddling ==
  step.why \in {"history", "content", "repository", "diverged"} => Meddled

\* The work comes to its repository and to no other one, and does come there unless somebody
\* changed what the publication found (publish in publishing.py and git_publish.py).
ReachesOnlyItsRepository == StaysInRepository /\ RefusesOnlyMeddling

\* A publication that counts is complete: the branch of the authorized repository holds the
\* commit, and the pull request is the run's own and describes the tree of that commit.
SavesDescribed ==
  receipt'.saved # receipt.saved /\ receipt.authorized =>
    LET pull == pulls[receipt'.url] IN
      /\ receipt'.saved \in ShownIn("authorized")
      /\ pull.repo = "authorized" /\ pull.ours /\ ~pull.fork
      /\ pull.describes = Last(receipt'.saved).tree

\* What is pushed is the tree that is reviewed now: a receipt that outlives its review, kept
\* by an operator escalation, publishes nothing.
PushesReviewed ==
  \A r \in Repositories :
    step.pc = "push" /\ receipt.pending \notin ShownIn(r) /\ receipt.pending \in ShownIn(r)'
      => Last(receipt.pending).tree = receipt.tree

\* Reviewed, pushed, described and saved are one tree, whatever is lost or changes in between.
PublishesWhatWasReviewed == [][SavesDescribed /\ PushesReviewed]_pubVars

=============================================================================
