------------------------------- MODULE Merging -------------------------------
(***************************************************************************)
(* From an open pull request to a merge, or to a person: CI is polled, the  *)
(* pull request is read twice with the branch policy in between, one merge  *)
(* is requested, and the outcome is read back (CIObserver, merge_and_finish,*)
(* PullRequestMerger.merge).  GitHub's own rules for a merge are external:  *)
(* the checks, the reviews, the policy, the head and the base may change    *)
(* between any two calls.                                                   *)
(*                                                                         *)
(* Each call is one step.  Identities that cannot change (the number and    *)
(* the repository of the pull request) and the shape of answers are left    *)
(* out.                                                                     *)
(***************************************************************************)
EXTENDS Naturals

CONSTANTS
  RequiredChecks,   \* merge.required_checks
  OtherChecks,      \* bound: further checks of the repository
  MaxPolls,         \* CIObserver.max_polls
  MaxFaults,        \* bound: calls that fail or lose their answer
  MaxRetries,       \* bound: crashes and reopens
  MaxChanges        \* bound: what people change on the pull request and the base branch

VARIABLES
  pull,      \* the pull request: state, draft, head, base, review decision, merged by and at
  branches,  \* against its base: conflict, behind; the local remote is still the repository
  checks,    \* the checks of the current head
  policy,    \* what GitHub enforces on the configured base branch
  merger,    \* the thread: next step, polls left; history: changes left as it read the policy
  outcome,   \* run.json: none, merged, stopped
  green,     \* history: the reviewed head had every required check passed at some moment
  left       \* what the environment may still do

mvars == <<pull, branches, checks, policy, merger, outcome, green, left>>

server == <<pull, branches, checks, policy>>

Checks == RequiredChecks \union OtherChecks
CheckStatus == {"absent", "PENDING", "PASS", "FAIL", "CANCELLED", "SKIPPED"}

Spend(what) == left[what] > 0 /\ left' = [left EXCEPT ![what] = @ - 1]

Awake == [pc |-> "observe", polls |-> MaxPolls, seen |-> 0]
GoTo(pc) == merger' = [merger EXCEPT !.pc = pc] /\ UNCHANGED outcome
Stop == merger' = [merger EXCEPT !.pc = "idle"] /\ outcome' = "stopped"
Finish(how) == merger' = [merger EXCEPT !.pc = "idle"] /\ outcome' = how

\* statusCheckRollup of the head: a check that runs again is pending, whatever it concluded.
Rollup == [c \in {d \in Checks : checks[d] # "absent"} |-> checks[c]]

\* _validate_required_checks: each is there and passed.
RequiredPass == \A c \in RequiredChecks : c \in DOMAIN Rollup /\ Rollup[c] = "PASS"

-----------------------------------------------------------------------------
(* GitHub *)

\* A required check that was skipped satisfies GitHub.
Satisfied == \A c \in policy.contexts : checks[c] \in {"PASS", "SKIPPED"}
Blocked ==
  \/ ~Satisfied
  \/ policy.reviewed /\ pull.decision \in {"CHANGES_REQUESTED", "REVIEW_REQUIRED"}
Behind == policy.strict /\ branches.behind

\* mergeStateStatus.
Clean ==
  /\ ~pull.draft /\ ~branches.conflict
  /\ pull.base = "main" => ~Blocked /\ ~Behind
  /\ \A c \in Checks : checks[c] \notin {"FAIL", "PENDING", "CANCELLED"}

\* The merge endpoint takes the head it was given, at the base the pull request has now.  A
\* caller who may bypass the protection is not held to it.
Accepts ==
  /\ pull.state = "OPEN" /\ pull.head = "reviewed" /\ ~pull.draft /\ ~branches.conflict
  /\ pull.base = "main" => (policy.bypass \/ (~Blocked /\ ~Behind)) /\ ~policy.queue

MergedBy(who) == pull' = [pull EXCEPT !.state = "MERGED", !.by = who]

-----------------------------------------------------------------------------
(* CI (poll_checks, normalize_ci_status) *)

\* get_pr_checks: the checks there are.
Reported == {checks[c] : c \in {d \in Checks : checks[d] # "absent"}}

\* _aggregate_status: no check at all is one that is awaited.
Aggregate ==
  LET seen == Reported IN
  CASE seen = {} -> "PENDING"
    [] "FAIL" \in seen -> "FAIL"
    [] "PENDING" \in seen /\ "FAIL" \notin seen -> "PENDING"
    [] "CANCELLED" \in seen /\ seen \intersect {"FAIL", "PENDING"} = {} -> "CANCELLED"
    [] seen # {} /\ seen \subseteq {"PASS", "SKIPPED"} -> "PASS"

\* One poll.  A red result is diagnosed, and is not repaired here.
Observe ==
  /\ merger.pc = "observe"
  /\ \/ /\ Aggregate = "PENDING" /\ merger.polls > 1
        /\ merger' = [merger EXCEPT !.polls = @ - 1]
        /\ UNCHANGED <<outcome, left>>
     \/ /\ Aggregate = "PENDING" /\ merger.polls <= 1
        /\ Stop
        /\ UNCHANGED left
     \/ /\ Aggregate = "PASS"
        /\ GoTo("first")
        /\ UNCHANGED left
     \/ /\ Aggregate \in {"FAIL", "CANCELLED"}
        /\ Stop
        /\ UNCHANGED left
     \/ Stop /\ Spend("faults")
  /\ UNCHANGED <<server, green>>

-----------------------------------------------------------------------------
(* The merge (PullRequestMerger.merge) *)

\* _resolve_identity: the local remote and the pull request are one allowed repository.
IdentityResolved == branches.home

\* _validate_mergeable, with every required check there and passed, and no other check
\* failing, pending or cancelled.
Mergeable ==
  /\ pull.state = "OPEN" /\ ~pull.draft
  /\ pull.head = "reviewed" /\ pull.base = "main"
  /\ pull.decision \notin {"CHANGES_REQUESTED", "REVIEW_REQUIRED"}
  /\ ~branches.conflict /\ Clean
  /\ RequiredPass

\* _confirm_merged: at the reviewed head, into the configured base.
AsPlanned == pull.head = "reviewed" /\ pull.base = "main"

\* A bug: a merge that is found needs no evidence.
NoEvidence == TRUE

\* A merge that this process did not ask for must carry the required checks.
Evidence == RequiredPass

Confirm(evidence) == IF AsPlanned /\ evidence THEN Finish("merged") ELSE Stop

\* A read of the pull request before the merge is asked for.
Read(pc, next) ==
  /\ merger.pc = pc
  /\ pc = "first" => IdentityResolved
  /\ \/ /\ IF pull.state = "MERGED" THEN Confirm(Evidence)
           ELSE IF Mergeable THEN GoTo(next) ELSE Stop
        /\ UNCHANGED left
     \/ Stop /\ Spend("faults")
  /\ UNCHANGED <<server, green>>

FirstRead ==
  \/ Read("first", "policy")
  \/ merger.pc = "first" /\ ~IdentityResolved /\ Stop /\ UNCHANGED <<server, green, left>>
SecondRead == Read("second", "put")

\* A bug: only the required checks of the policy are looked at.
RequiresChecks == RequiredChecks \intersect policy.contexts # {}

\* _classic_protection_authorizes: nobody is known to be exempt from the protection.
Authorizes == ~policy.bypass

\* The policy as it is read: a protection that some may bypass requires nothing.
ReadContexts == IF Authorizes THEN policy.contexts ELSE {}

\* _validate_server_enforcement: GitHub requires every configured check, a pull request, and
\* an up to date branch.
Enforced == RequiredChecks \subseteq ReadContexts /\ policy.reviewed /\ policy.strict

ReadPolicy ==
  /\ merger.pc = "policy"
  /\ \/ /\ Enforced
        /\ merger' = [merger EXCEPT !.pc = "second", !.seen = left.changes]
        /\ UNCHANGED <<outcome, left>>
     \/ ~Enforced /\ Stop /\ UNCHANGED left
     \/ Stop /\ Spend("faults")
  /\ UNCHANGED <<server, green>>

\* merge_pull_request: now or never.  A call that times out stops the run without a look at
\* the outcome; an answer that cannot be read is looked into like a refusal.
RequestMerge ==
  /\ merger.pc = "put"
  /\ \/ /\ Accepts
        /\ MergedBy("factory")
        /\ GoTo("final")
        /\ UNCHANGED left
     \/ /\ ~Accepts
        /\ IF policy.queue /\ pull.state = "OPEN" THEN Stop ELSE GoTo("final")
        /\ UNCHANGED <<pull, left>>
     \/ /\ Spend("faults")
        /\ (Accepts /\ MergedBy("factory")) \/ UNCHANGED pull
        /\ Stop \/ GoTo("final")
  /\ UNCHANGED <<branches, checks, policy, green>>

FinalRead ==
  /\ merger.pc = "final"
  /\ \/ /\ IF pull.state = "MERGED" THEN Confirm(TRUE) ELSE Stop
        /\ UNCHANGED left
     \/ Stop /\ Spend("faults")
  /\ UNCHANGED <<server, green>>

Merge == FirstRead \/ ReadPolicy \/ SecondRead \/ RequestMerge \/ FinalRead

\* A crash, or a person who reopens the stopped run: CI is observed again.
Retry ==
  /\ outcome \in {"none", "stopped"}
  /\ Spend("retries")
  /\ merger' = Awake /\ outcome' = "none"
  /\ UNCHANGED <<server, green>>

-----------------------------------------------------------------------------
(* CI runs, people and policies *)

Sees == green' = (green \/ (pull'.head = "reviewed"
                             /\ \A c \in RequiredChecks : checks'[c] = "PASS"))

\* A check is registered, runs to an end, or is run again.
CheckMoves ==
  /\ \E c \in Checks, s \in CheckStatus :
       /\ s = "PENDING" \/ (checks[c] = "PENDING" /\ s # "absent")
       /\ s # checks[c]
       /\ checks' = [checks EXCEPT ![c] = s]
  /\ UNCHANGED <<pull, branches, policy, merger, outcome, left>>
  /\ Sees

\* People push, retarget, review, draft, close, and merge with or without the checks.
PeopleChange ==
  /\ pull.state # "MERGED"
  /\ Spend("changes")
  /\ \/ /\ pull' = [pull EXCEPT !.head = "other"]
        /\ checks' = [c \in Checks |-> "absent"]
        /\ UNCHANGED <<branches, policy>>
     \/ /\ \/ \E b \in {"main", "release"} : pull' = [pull EXCEPT !.base = b]
           \/ \E d \in {"", "APPROVED", "CHANGES_REQUESTED", "REVIEW_REQUIRED"} :
                pull' = [pull EXCEPT !.decision = d]
           \/ pull' = [pull EXCEPT !.draft = ~@]
           \/ pull' = [pull EXCEPT !.state = IF @ = "OPEN" THEN "CLOSED" ELSE "OPEN"]
           \/ pull.state = "OPEN" /\ ~branches.conflict /\ MergedBy("person")
        /\ UNCHANGED <<branches, checks, policy>>
     \/ /\ branches' \in [conflict : BOOLEAN, behind : BOOLEAN, home : BOOLEAN]
        /\ UNCHANGED <<pull, checks, policy>>
  /\ Sees
  /\ UNCHANGED <<merger, outcome>>

PolicyChanges ==
  /\ Spend("changes")
  /\ \/ policy' = [policy EXCEPT !.contexts = IF @ = {} THEN RequiredChecks ELSE {}]
     \/ policy' = [policy EXCEPT !.strict = ~@]
     \/ policy' = [policy EXCEPT !.reviewed = ~@]
     \/ policy' = [policy EXCEPT !.queue = ~@]
     \/ policy' = [policy EXCEPT !.bypass = ~@]
  /\ UNCHANGED <<pull, branches, checks, merger, outcome, green>>

-----------------------------------------------------------------------------

MergeInit ==
  /\ \E decision \in {"", "APPROVED"} :
       pull = [state |-> "OPEN", draft |-> FALSE, head |-> "reviewed", base |-> "main",
               decision |-> decision, by |-> "nobody"]
  /\ branches = [conflict |-> FALSE, behind |-> FALSE, home |-> TRUE]
  /\ checks = [c \in Checks |-> "absent"]
  /\ \E contexts \in SUBSET RequiredChecks, bypass \in BOOLEAN :
       policy = [contexts |-> contexts, strict |-> TRUE, reviewed |-> TRUE, queue |-> FALSE,
                 bypass |-> bypass]
  /\ merger = Awake
  /\ outcome = "none"
  /\ green = FALSE
  /\ left = [faults |-> MaxFaults, retries |-> MaxRetries, changes |-> MaxChanges]

MergeNext == Observe \/ Merge \/ Retry \/ CheckMoves \/ PeopleChange \/ PolicyChanges

MergeSpec == MergeInit /\ [][MergeNext]_mvars

-----------------------------------------------------------------------------
(* Properties *)

\* A run that reports its merge says the truth, whoever merged and whatever call lost its
\* answer: the reviewed head is merged into the configured base, and every required check
\* had passed on that head.
ReportedMergeIsProven ==
  outcome = "merged" =>
    pull.state = "MERGED" /\ pull.head = "reviewed" /\ pull.base = "main" /\ green

\* The factory never merges past a check that fails, runs again or was skipped by a new
\* head: at the moment of its merge GitHub enforces the required checks on the factory too,
\* unless a person moved the pull request or relaxed the policy after the policy was read.
\* What people changed before that is seen.
EnforcesChecks ==
  pull.by = "nobody" /\ pull'.by = "factory" =>
    \/ pull.head = "reviewed" /\ Satisfied /\ RequiredChecks \subseteq policy.contexts
    \/ left.changes < merger.seen
MergesOnlyEnforced == [][EnforcesChecks]_mvars

=============================================================================
