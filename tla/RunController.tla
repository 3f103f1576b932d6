--------------------------- MODULE RunController ---------------------------
(***************************************************************************)
(* One factory run, driven by WorkflowController: triage, planning, the    *)
(* bounded implement / verify / review loop, publication, CI repair and    *)
(* merge, with the ways a run is interrupted, resumed, restarted, reopened *)
(* and escalated.                                                          *)
(*                                                                         *)
(* A step ends where the code saves run.json, so an interruption (a crash  *)
(* of the process, or a stalled agent call) can fall between any two       *)
(* saves.  Everything but pc and ctx survives it: the persisted run, its   *)
(* artifacts, the worktree and GitHub.                                     *)
(*                                                                         *)
(* Git trees stand for the contents of the worktree.  The base tree is the *)
(* one the branch starts from.                                             *)
(***************************************************************************)
EXTENDS Naturals

CONSTANTS
    Unattended,             \* FactoryRun.unattended, fixed when the run starts
    PullRequests,           \* pull_request.enabled
    CIObserved,             \* ci.enabled
    MergeEnabled,           \* merge.enabled
    PolishEnabled,          \* polish.enabled
    MaxTotalAttempts,       \* retries.max_total_attempts
    CIRepairAttempts,       \* ci.repair_attempts
    MaxReplans,             \* scope_drift.max_replans
    MaxRounds,              \* review.max_rounds
    MaxReopens,             \* escalation.max_reopens
    MaxRestartRecoveries,   \* MAX_RESTART_RECOVERIES
    Trees, Base,            \* Git trees, and the tree of the base commit
    None,                   \* Python's None
    MaxInterrupts,          \* bound: interruptions of the factory process
    MaxEscalations,         \* bound: operator escalations
    MaxEdits                \* bound: edits or losses of the worktree from outside

ASSUME BooleanAssumption ==
    {Unattended, PullRequests, CIObserved, MergeEnabled, PolishEnabled} \subseteq BOOLEAN

ASSUME BoundAssumption ==
    {MaxTotalAttempts, CIRepairAttempts, MaxReplans, MaxRounds, MaxReopens,
     MaxRestartRecoveries, MaxInterrupts, MaxEscalations, MaxEdits} \subseteq Nat

ASSUME TreeAssumption == Base \in Trees /\ None \notin Trees

VARIABLES
    \* run.json: the lifecycle
    state, completed, halt,
    \* run.json: the route the run started on and the one in force
    initialRoute, route,
    \* run.json: attempts since budget_start, per budget, and what is known of the last call
    used, rounds, grants, lastTree, unrecorded, callIsLast, polishRecorded,
    \* run.json: replans, restarts, reopens, and the gates a person must look at
    replans, restarts, reopens, needsLook,
    \* run.json: the review ledger and what it authorizes
    reviewedTree, acceptance, openFindings, acceptedFindings,
    \* run.json: the publication receipt
    pending, commit, prUrl, merged,
    \* artifacts of the run directory
    triage, plan, reviewReport, verified, patch, impasse, ciReport,
    \* the worktree and GitHub
    workTree, headMoved, remote, pullRequest, mergedTree,
    \* the thread that drives the run: its next step and its RunContext
    pc, ctx,
    \* history: trees a review or a person accepted; implementer calls since budget_start
    cleared, calls,
    \* history: escalations, and the trees a person escalated a flagged run with; bounds
    interrupts, escalations, edits, escalated

life     == <<state, completed, halt>>
routing  == <<initialRoute, route>>
attempts == <<used, rounds, grants, lastTree, unrecorded, callIsLast, polishRecorded, calls>>
counts   == <<replans, restarts, reopens>>
ledger   == <<reviewedTree, acceptance, openFindings, acceptedFindings, cleared>>
receipt  == <<pending, commit, prUrl, merged>>
stored   == <<triage, plan, reviewReport, verified, patch, impasse, ciReport>>
repo     == <<workTree, headMoved, remote, pullRequest, mergedTree>>
limits   == <<interrupts, escalations, edits, escalated>>

vars == <<life, routing, attempts, counts, needsLook, ledger, receipt, stored, repo,
          pc, ctx, limits>>

-----------------------------------------------------------------------------
(* Values *)

Budgets == {"IMPLEMENTATION", "CI_REPAIR"}
Routes == {"MANUAL_TRIAGE", "SINGLE", "CRITIQUE", "FULL_REVIEW", "FULL"}
SYNTHESIZED_ROUTES == {"SINGLE", "CRITIQUE"}

ASSUME NoneAssumption ==
    None \notin Budgets \cup Routes \cup {"clear", "undecided", "ineligible", "risky"}

DeliveryStates == {"PR_READY", "PR_CREATED", "CI_RUNNING", "CI_DIAGNOSIS"}
Terminal == {"DONE", "NEEDS_HUMAN", "FAILED"}
States == {"CREATED", "TRIAGING", "PLANNING", "IMPLEMENTING", "VERIFYING", "REVIEWING"}
              \cup DeliveryStates \cup Terminal

ResumeClasses == {"RISK_APPROVAL", "PLAN_DECISION", "DELIVERY_RETRY", "ATTEMPT_GRANT",
                  "ACCEPT_FINDINGS", "SCOPE_APPROVAL", "CI_REPAIR_RETRY"}
CIReasons == {"ci_status", "ci_timeout", "ci_budget"}
Reasons == CIReasons \cup {"risk", "decisions", "scope", "budget", "publish", "other"}

NoHalt == [reason |-> "none", class |-> "none", from |-> "none"]
NoAcceptance == [kind |-> "none", tree |-> None]

\* A RunContext with nothing collected yet.
NoContext ==
    [budget    |-> "IMPLEMENTATION",  \* the budget _drive_to_pr_ready consumes
     evidence  |-> None,              \* latest_evidence.tree_sha
     review    |-> "none",            \* latest_review
     impasse   |-> "none",            \* what apply_review reported
     polish    |-> FALSE,             \* the next attempt is the polish attempt
     polished  |-> FALSE,             \* polish_attempted
     generated |-> FALSE]             \* verification_generated_paths is not empty

\* Where _ratchet_route may go from r: the order of route_precedence.
RoutePrecedence ==
    [r \in Routes |-> CASE r = "MANUAL_TRIAGE" -> 0 [] r = "SINGLE" -> 1
                        [] r = "CRITIQUE" -> 2 [] r = "FULL_REVIEW" -> 3 [] OTHER -> 4]

\* context.effective_route: FULL until a route decision is stored.
EffectiveRoute == IF route = None THEN "FULL" ELSE route

is_run_finished == state \in Terminal \/ (state = "PR_READY" /\ completed)

\* The attempts a budget allows: the configured ones plus any a person granted.
AttemptLimit(b) ==
    (IF b = "CI_REPAIR" THEN CIRepairAttempts ELSE MaxTotalAttempts) + grants[b]

Exhausted(b) == used[b] >= AttemptLimit(b)

\* The tree of the commit the next publication is built on.
ParentTree == IF commit = None THEN Base ELSE commit

\* classify_halt_reason and build_resume_context: how a halt out of the current state resumes.
Classify(why) ==
    LET waited == state = "CI_RUNNING" /\ ciReport = "TIMED_OUT"
        red    == state = "CI_DIAGNOSIS" /\ ciReport = "FAIL"
    IN  CASE impasse -> IF openFindings # None THEN "ACCEPT_FINDINGS" ELSE "NOT_RESUMABLE"
          [] ~impasse /\ why = "risk" -> "RISK_APPROVAL"
          [] ~impasse /\ why = "decisions" -> "PLAN_DECISION"
          [] ~impasse /\ why = "scope" /\ state = "VERIFYING" /\ ~prUrl -> "SCOPE_APPROVAL"
          [] ~impasse /\ why = "publish" /\ state = "PR_READY" /\ ~prUrl /\ reviewedTree # None
                -> "DELIVERY_RETRY"
          [] ~impasse /\ why = "budget" /\ used["IMPLEMENTATION"] >= 1 -> "ATTEMPT_GRANT"
          [] ~impasse /\ why \in CIReasons /\ prUrl /\ ~merged /\ (waited \/ red)
                -> "CI_REPAIR_RETRY"
          [] OTHER -> "NOT_RESUMABLE"

\* _review_authorizes_delivery for the review report r.
Authorizes(r) ==
    IF r = "skipped" THEN route = "SINGLE" /\ verified /\ reviewedTree # None
    ELSE IF acceptance.kind = "none" THEN r = "approved"
    ELSE /\ reviewedTree # None
         /\ acceptance.tree = reviewedTree
         /\ Unattended \/ acceptance.kind = "OPERATOR" \/ acceptedFindings = "within"

-----------------------------------------------------------------------------
(* Ways a step ends *)

Goto(step) == pc' = step /\ UNCHANGED ctx

\* Mutant of Continue: completed_at survives the way back from a terminal state.
ContinueCompleted(s, step, c) ==
    /\ state' = s
    /\ completed' = completed
    /\ halt' = NoHalt
    /\ pc' = step
    /\ ctx' = c

\* transition to an active state, with the run context c.
Continue(s, step, c) ==
    /\ state' = s
    /\ completed' = FALSE
    /\ halt' = NoHalt
    /\ pc' = step
    /\ ctx' = c

Move(s, step) == Continue(s, step, ctx)

\* transition to a terminal state; the thread is done with the run.
End(s, why) ==
    /\ state' = s
    /\ completed' = TRUE
    /\ halt' = IF s = "NEEDS_HUMAN"
               THEN [reason |-> why, class |-> Classify(why), from |-> state]
               ELSE NoHalt
    /\ pc' = "idle"
    /\ ctx' = NoContext

\* _halt for a person.
NeedsHuman(why) == End("NEEDS_HUMAN", why) /\ UNCHANGED needsLook

\* An agent or an operation that fails for good fails the run.
Fails == End("FAILED", "other") /\ UNCHANGED needsLook

\* Mutant of Stop: the pull request is left open without a reason to look at it.
StopSilently(why) ==
    IF Unattended /\ prUrl
    THEN Goto("leave") /\ UNCHANGED <<life, needsLook>>
    ELSE NeedsHuman(why)

\* _stop: an unattended run with a pull request leaves it open instead of waiting.
Stop(why) ==
    IF Unattended /\ prUrl
    THEN needsLook' = TRUE /\ Goto("leave") /\ UNCHANGED life
    ELSE NeedsHuman(why)

\* _ratchet_route never moves the effective route down.
Ratchet(to) ==
    route' = IF RoutePrecedence[to] > RoutePrecedence[EffectiveRoute] THEN to ELSE route

\* An agent call of another role than the implementer is now the last one of the run.
OtherAgentCalled ==
    /\ callIsLast' = FALSE
    /\ UNCHANGED <<used, rounds, grants, lastTree, unrecorded, polishRecorded, calls>>

-----------------------------------------------------------------------------
(* From a new run to a plan *)

Init ==
    /\ state = "CREATED" /\ completed = FALSE /\ halt = NoHalt
    /\ initialRoute = None /\ route = None
    /\ used = [b \in Budgets |-> 0] /\ rounds = used /\ grants = used
    /\ lastTree = None /\ unrecorded = None /\ callIsLast = FALSE /\ polishRecorded = FALSE
    /\ replans = 0 /\ restarts = 0 /\ reopens = 0 /\ needsLook = FALSE
    /\ reviewedTree = None /\ acceptance = NoAcceptance
    /\ openFindings = None /\ acceptedFindings = "none"
    /\ pending = None /\ commit = None /\ prUrl = FALSE /\ merged = FALSE
    /\ triage = None /\ plan = None /\ reviewReport = "none" /\ verified = FALSE
    /\ patch = None /\ impasse = FALSE /\ ciReport = "none"
    /\ workTree = Base /\ headMoved = FALSE /\ remote = None
    /\ pullRequest = "none" /\ mergedTree = None
    /\ pc = "prepare" /\ ctx = NoContext
    /\ cleared = {} /\ calls = used
    /\ interrupts = 0 /\ escalations = 0 /\ edits = 0 /\ escalated = {}

\* _prepare_and_execute: the delivery repository, the worktree, then TRIAGING.
Prepare ==
    /\ pc = "prepare"
    /\ \/ Move("TRIAGING", "triage") /\ UNCHANGED needsLook
       \/ Fails
       \/ MergeEnabled /\ NeedsHuman("other")
    /\ UNCHANGED <<routing, attempts, counts, ledger, receipt, stored, repo, limits>>

\* What triage leaves for the gate: an item that may go on, one that is no work for the
\* factory, and one whose risk or sensitive scope takes a person (_sensitive_scope_reason).
Verdicts == {"clear", "ineligible", "risky"}

\* _run_triage: a verdict is stored, or the run fails.
Triage ==
    /\ pc = "triage"
    /\ OtherAgentCalled
    /\ \/ /\ triage' \in Verdicts
          /\ Goto("route") /\ UNCHANGED <<life, needsLook>>
       \/ Fails /\ UNCHANGED triage
    /\ UNCHANGED <<routing, counts, ledger, receipt, repo, limits,
                   plan, reviewReport, verified, patch, impasse, ciReport>>

\* _decide_route: the options and the safety floors of the item allow any route.
RoutesPicked == Routes

\* _record_route stores the route triage picked.
DecideRoute ==
    /\ pc = "route"
    /\ route' \in RoutesPicked
    /\ initialRoute' = route'
    /\ Goto("gate")
    /\ UNCHANGED <<life, attempts, counts, needsLook, ledger, receipt, stored, repo, limits>>

\* What stops an attended run after triage, in the order of _execute.
TriageGate ==
    IF Unattended THEN "none"
    ELSE IF route = "MANUAL_TRIAGE" \/ triage = "ineligible" THEN "other"
    ELSE IF triage = "risky" THEN "risk"
    ELSE "none"

Gate ==
    /\ pc = "gate"
    /\ IF TriageGate # "none"
       THEN NeedsHuman(TriageGate)
       ELSE /\ Move("PLANNING", IF route \in SYNTHESIZED_ROUTES THEN "synthesize" ELSE "plan")
            /\ UNCHANGED needsLook
    /\ UNCHANGED <<routing, attempts, counts, ledger, receipt, stored, repo, limits>>

\* _synthesize_specification, _synthesize_execution_plan: the controller's own plan, from the
\* paths the item names, leaves no decision open.
SynthesizedPlan == "clear"

\* _drive_synthesized: no planner call.
Synthesize ==
    /\ pc = "synthesize"
    /\ plan' = SynthesizedPlan
    /\ Continue("IMPLEMENTING", "select", NoContext)
    /\ UNCHANGED <<routing, attempts, counts, needsLook, ledger, receipt, repo, limits,
                   triage, reviewReport, verified, patch, impasse, ciReport>>

\* _run_planner: a valid specification and plan, with decisions left open or without.
PlansMade == {"clear", "undecided"}

\* _drive_from_planning: an attended run stops on decisions the plan leaves open.
Plan ==
    /\ pc = "plan"
    /\ OtherAgentCalled
    /\ \/ Fails /\ UNCHANGED plan
       \/ /\ plan' \in PlansMade
          /\ IF plan' = "undecided" /\ ~Unattended
             THEN NeedsHuman("decisions")
             ELSE Continue("IMPLEMENTING", "select", NoContext) /\ UNCHANGED needsLook
    /\ UNCHANGED <<routing, counts, ledger, receipt, repo, limits,
                   triage, reviewReport, verified, patch, impasse, ciReport>>

-----------------------------------------------------------------------------
(* _drive_to_pr_ready: implement, verify, check the scope, review *)

\* The attempt budget is used up: publish as it is, or halt with the repair it wanted.
BudgetEnds ==
    /\ pc = "select"
    /\ Exhausted(ctx.budget)
    /\ IF Unattended
       THEN Goto("as_is") /\ UNCHANGED <<life, needsLook>>
       ELSE NeedsHuman(IF ctx.budget = "CI_REPAIR" THEN "ci_budget" ELSE "budget")
    /\ UNCHANGED <<routing, attempts, counts, ledger, receipt, stored, repo, limits>>

\* A new attempt drops the acceptance of older findings and opens an implementer call.
StartAttempt ==
    /\ pc = "select"
    /\ \/ Fails /\ UNCHANGED <<acceptance, unrecorded, callIsLast, calls>>
       \/ /\ ~Exhausted(ctx.budget)
          /\ acceptance' = NoAcceptance
          /\ unrecorded' = ctx.budget
          /\ callIsLast' = TRUE
          /\ calls' = [calls EXCEPT ![ctx.budget] = @ + 1]
          /\ Goto("agent")
          /\ UNCHANGED <<life, needsLook>>
    /\ UNCHANGED <<routing, counts, receipt, stored, repo, limits,
                   used, rounds, grants, lastTree, polishRecorded,
                   reviewedTree, openFindings, acceptedFindings, cleared>>

\* _record_attempt: one more attempt of budget b, whose work nobody reviewed yet.
RecordAttempt(b, polish) ==
    /\ used' = [used EXCEPT ![b] = @ + 1]
    /\ lastTree' = None
    /\ polishRecorded' = (polishRecorded \/ polish)
    /\ UNCHANGED <<rounds, grants, callIsLast, calls>>

\* _invoke_implementer returns: the attempt is recorded whether it worked or not.  After it
\* worked, files that an earlier verification generated send it back without a verification.
ImplementerReturns ==
    /\ pc = "agent"
    /\ workTree' \in Trees
    /\ patch' = workTree'
    /\ RecordAttempt(ctx.budget, ctx.polish)
    /\ unrecorded' = None
    /\ LET c == [ctx EXCEPT !.evidence = workTree', !.polish = FALSE]
       IN  \/ /\ pc' = "select" /\ ctx' = c /\ UNCHANGED life    \* failed
           \/ /\ ctx.generated                                  \* generated files stayed
              /\ pc' = "select" /\ ctx' = c /\ UNCHANGED life
           \/ Continue("VERIFYING", "verify", [c EXCEPT !.generated = FALSE])
    /\ UNCHANGED <<routing, counts, needsLook, ledger, receipt, limits,
                   triage, plan, reviewReport, verified, impasse, ciReport,
                   headMoved, remote, pullRequest, mergedTree>>

\* Verification fails: a SINGLE route is no longer enough, and another attempt follows.
VerifyFails ==
    /\ pc = "verify"
    /\ verified' = FALSE
    /\ IF route = "SINGLE" THEN Ratchet("CRITIQUE") ELSE UNCHANGED route
    /\ Move("IMPLEMENTING", "select")
    /\ UNCHANGED <<initialRoute, attempts, counts, needsLook, ledger, receipt, repo, limits,
                   triage, plan, reviewReport, patch, impasse, ciReport>>

\* Verification passes.  Commands that changed the worktree send the run back; otherwise
\* the scope is next.  Without a verify command the run needs a look.
VerifyPasses ==
    /\ pc = "verify"
    /\ verified' = TRUE
    /\ needsLook' \in {needsLook, TRUE}
    /\ \/ Move("VERIFYING", "scope") /\ UNCHANGED <<workTree, patch>>
       \/ /\ workTree' \in Trees \ {ctx.evidence}
          /\ patch' = workTree'
          /\ Continue("IMPLEMENTING", "select",
                      [ctx EXCEPT !.evidence = workTree', !.generated = TRUE])
    /\ UNCHANGED <<routing, attempts, counts, ledger, receipt, limits,
                   triage, plan, reviewReport, impasse, ciReport,
                   headMoved, remote, pullRequest, mergedTree>>

\* Changes outside a synthesized scope, too many files, sensitive files or changed
\* dependencies may move a synthesized route up to FULL_REVIEW.
MayRatchet ==
    \/ UNCHANGED route
    \/ EffectiveRoute \in SYNTHESIZED_ROUTES /\ Ratchet("FULL_REVIEW")

\* The scope assessment asks for a replan: bounded for every run.
ScopeReplan ==
    /\ pc = "scope"
    /\ MayRatchet
    /\ \/ replans < MaxReplans /\ Move("PLANNING", "replan") /\ UNCHANGED needsLook
       \/ replans >= MaxReplans /\ ~Unattended /\ NeedsHuman("scope")
    /\ UNCHANGED <<initialRoute, attempts, counts, ledger, receipt, stored, repo, limits>>

\* An attended run stops on a scope that needs a person, or on a replan without progress.
ScopeHalts ==
    /\ pc = "scope"
    /\ ~Unattended
    /\ MayRatchet
    /\ NeedsHuman("scope")
    /\ UNCHANGED <<initialRoute, attempts, counts, ledger, receipt, stored, repo, limits>>

\* replan: only plan metadata changes, then the same diff is assessed again.
Replan ==
    /\ pc = "replan"
    /\ OtherAgentCalled
    /\ \/ Fails /\ UNCHANGED replans
       \/ /\ replans' = replans + 1
          /\ Move("VERIFYING", "scope") /\ UNCHANGED needsLook
    /\ UNCHANGED <<routing, restarts, reopens, ledger, receipt, stored, repo, limits>>

\* _should_polish: one polish attempt, never the last attempt of the budget.
ShouldPolish ==
    /\ PolishEnabled
    /\ ctx.budget = "IMPLEMENTATION"
    /\ ~ctx.polished /\ ~polishRecorded
    /\ used["IMPLEMENTATION"] + 1 < MaxTotalAttempts

\* The scope lets the run go on: CONTINUE, or drift that an unattended run only records.
\* Drift of a synthesized route ratchets it.  Then a polish attempt, or review.
ScopePasses ==
    /\ pc = "scope"
    /\ \/ MayRatchet                                              \* CONTINUE
       \/ /\ Unattended                                           \* drift
          /\ IF EffectiveRoute \in SYNTHESIZED_ROUTES
             THEN Ratchet("FULL_REVIEW") ELSE UNCHANGED route
    /\ IF ShouldPolish /\ (IF route' = None THEN "FULL" ELSE route') \notin SYNTHESIZED_ROUTES
       THEN Continue("IMPLEMENTING", "select",
                     [ctx EXCEPT !.polish = TRUE, !.polished = TRUE])
       ELSE Move("REVIEWING", "review")
    /\ UNCHANGED <<initialRoute, attempts, counts, needsLook, ledger, receipt, stored, repo,
                   limits>>

-----------------------------------------------------------------------------
(* Review and the acceptance of what it leaves open *)

\* A CI repair always gets full review semantics.
ReviewRoute ==
    IF ctx.budget = "CI_REPAIR" /\ EffectiveRoute \in SYNTHESIZED_ROUTES
    THEN "FULL_REVIEW" ELSE EffectiveRoute

EnterReview ==
    IF ctx.budget = "CI_REPAIR" /\ EffectiveRoute \in SYNTHESIZED_ROUTES
    THEN Ratchet("FULL_REVIEW") ELSE UNCHANGED route

\* _record_reviewed_tree: review round of the last attempt.
RecordReviewedTree ==
    /\ lastTree' = ctx.evidence
    /\ rounds' = IF lastTree = None THEN [rounds EXCEPT ![ctx.budget] = @ + 1] ELSE rounds
    /\ UNCHANGED <<used, grants, unrecorded, polishRecorded, calls>>

\* The SINGLE route: the controller itself writes a skipped test and review report.
SkipReview ==
    /\ pc = "review"
    /\ EnterReview
    /\ ReviewRoute = "SINGLE"
    /\ reviewReport' = "skipped"
    /\ RecordReviewedTree
    /\ Continue("PR_READY", "ready", [ctx EXCEPT !.review = "skipped"])
    /\ UNCHANGED <<initialRoute, callIsLast, counts, needsLook, ledger, receipt, repo, limits,
                   triage, plan, verified, patch, impasse, ciReport>>

\* _run_tester and _run_reviewer: what the two reports leave open for the ledger.
FindingsReported == {None, ctx.evidence}

\* _repair_review_diff, before tester and reviewer: with findings open, Git cannot derive the
\* change since the last review, and any run halts, an unattended one with a pull request too.
RepairDiffFails ==
    /\ pc = "review"
    /\ EnterReview
    /\ ReviewRoute # "SINGLE"
    /\ openFindings # None
    /\ NeedsHuman("other")
    /\ UNCHANGED <<initialRoute, attempts, counts, ledger, receipt, stored, repo, limits>>

\* Tester and reviewer ran.  apply_review folds the report into the ledger: it leaves
\* findings open or none, and can report an impasse only over findings open before.
Review ==
    /\ pc = "review"
    /\ EnterReview
    /\ ReviewRoute # "SINGLE"
    /\ callIsLast' = FALSE
    /\ \/ Fails /\ UNCHANGED <<lastTree, rounds, used, grants, unrecorded, polishRecorded,
                               calls, openFindings, reviewReport>>
       \/ /\ RecordReviewedTree
          /\ openFindings' \in FindingsReported
          /\ reviewReport' = IF openFindings' = None THEN "approved" ELSE "rejected"
          /\ \E i \in {"none"} \cup IF openFindings = None \/ openFindings' = None
                                  THEN {} ELSE {"repeated", "other"} :
                 ctx' = [ctx EXCEPT !.review = reviewReport', !.impasse = i]
          /\ pc' = "decide"
          /\ UNCHANGED <<life, needsLook>>
    /\ UNCHANGED <<initialRoute, counts, reviewedTree, acceptance, acceptedFindings, cleared,
                   receipt, repo, limits, triage, plan, verified, patch, impasse, ciReport>>

\* Whether the controller tries to accept the open findings: an impasse it may accept, the
\* review rounds used up, or the attempts used up.
WantsAcceptance ==
    \/ ctx.impasse = "repeated"
    \/ ctx.impasse = "other" /\ Unattended
    \/ /\ ctx.impasse = "none" /\ openFindings # None
       /\ \/ rounds[ctx.budget] >= MaxRounds
          \/ Exhausted(ctx.budget)

\* _accept_review_findings and _persist_review_acceptance: unattended runs accept whatever
\* is open, attended ones what the review policy allows.
AcceptFindings ==
    /\ pc = "decide"
    /\ WantsAcceptance
    /\ acceptedFindings' \in IF Unattended THEN {"within", "beyond"} ELSE {"within"}
    /\ acceptedFindings = "beyond" => acceptedFindings' = "beyond"
    /\ needsLook' = (needsLook \/ ctx.impasse = "other")
    /\ reviewedTree' = ctx.evidence
    /\ acceptance' = [kind |-> "CONTROLLER", tree |-> ctx.evidence]
    /\ openFindings' = None
    /\ cleared' = cleared \cup {ctx.evidence}
    /\ Move("PR_READY", "ready")
    /\ UNCHANGED <<routing, attempts, counts, receipt, stored, repo, limits>>

\* Attended only: the findings are not eligible, or the impasse is not one to accept.
\* review-impasse.json is stored before the run halts, and nothing ever removes it.
KeepImpasse ==
    /\ pc = "decide"
    /\ ~Unattended
    /\ WantsAcceptance \/ ctx.impasse = "other"
    /\ impasse' = TRUE
    /\ Goto("impasse")
    /\ UNCHANGED <<life, routing, attempts, counts, needsLook, ledger, receipt, repo, limits,
                   triage, plan, reviewReport, verified, patch, ciReport>>

HaltOnImpasse ==
    /\ pc = "impasse"
    /\ NeedsHuman("other")
    /\ UNCHANGED <<routing, attempts, counts, ledger, receipt, stored, repo, limits>>

\* Open findings with rounds and attempts left: another attempt repairs them.
RepairFindings ==
    /\ pc = "decide"
    /\ openFindings # None /\ ctx.impasse = "none" /\ ~WantsAcceptance
    /\ Move("IMPLEMENTING", "select")
    /\ UNCHANGED <<routing, attempts, counts, needsLook, ledger, receipt, stored, repo, limits>>

\* Review found nothing open.  Findings accepted earlier are carried forward.
Approve ==
    /\ pc = "decide"
    /\ openFindings = None
    /\ reviewedTree' = ctx.evidence
    /\ acceptance' = IF acceptedFindings # "none"
                     THEN [kind |-> "CARRIED_FORWARD", tree |-> ctx.evidence]
                     ELSE NoAcceptance
    /\ cleared' = cleared \cup {ctx.evidence}
    /\ Move("PR_READY", "ready")
    /\ UNCHANGED <<routing, attempts, counts, needsLook, receipt, stored, repo, limits,
                   openFindings, acceptedFindings>>

-----------------------------------------------------------------------------
(* Delivery: publication, CI and the merge *)

\* Mutant of AdoptCurrentTree: what is published unreviewed is not flagged.
AdoptSilently ==
    /\ UNCHANGED needsLook
    /\ reviewedTree' = workTree
    /\ patch' = workTree

\* adopt_current_tree: the worktree becomes the tree an unattended run publishes.
AdoptCurrentTree ==
    /\ needsLook' = TRUE
    /\ reviewedTree' = workTree
    /\ patch' = workTree

\* publish_as_is: before a pull request exists an unattended run publishes the worktree it
\* has; with one, it leaves the pull request as it is.
PublishAsIs ==
    /\ pc = "as_is"
    /\ \/ /\ prUrl \/ workTree = Base
          /\ Stop("other")
          /\ UNCHANGED <<reviewedTree, patch>>
       \/ /\ ~prUrl /\ workTree # Base
          /\ AdoptCurrentTree
          /\ Continue("PR_READY", "ready", [ctx EXCEPT !.evidence = workTree, !.review = "none"])
    /\ UNCHANGED <<routing, attempts, counts, receipt, repo, limits,
                   acceptance, openFindings, acceptedFindings, cleared,
                   triage, plan, reviewReport, verified, impasse, ciReport>>

\* Without pull requests PR_READY is the endpoint; otherwise the run is published.
Ready ==
    /\ pc = "ready"
    /\ IF PullRequests
       THEN Goto("publish") /\ UNCHANGED life
       ELSE completed' = TRUE /\ pc' = "idle" /\ ctx' = NoContext /\ UNCHANGED <<state, halt>>
    /\ UNCHANGED <<routing, attempts, counts, needsLook, ledger, receipt, stored, repo, limits>>

\* _reviewed_evidence: what publication requires of the review.
Authorized ==
    IF ctx.review = "none" THEN Unattended /\ needsLook ELSE Authorizes(ctx.review)

TreeChanged == workTree # ctx.evidence \/ workTree # reviewedTree

\* skipped_gates: what would have stopped an attended run.
SkippedGate ==
    \/ triage # "clear"
    \/ route = "MANUAL_TRIAGE"
    \/ plan = "undecided"
    \/ ctx.review # "none" /\ acceptance.kind # "none" /\ acceptedFindings = "beyond"

\* publish begins with the review evidence and the unchanged tree; an unattended run adopts a
\* tree that changed since.
ReviewedEvidence ==
    /\ pc = "publish"
    /\ \/ ~Authorized /\ Stop("other") /\ UNCHANGED <<reviewedTree, patch>>
       \/ /\ Authorized /\ TreeChanged
          /\ IF Unattended /\ workTree # Base
             THEN /\ AdoptCurrentTree
                  /\ pc' = "publish_scope" /\ ctx' = [ctx EXCEPT !.evidence = workTree]
                  /\ UNCHANGED life
             ELSE Stop("other") /\ UNCHANGED <<reviewedTree, patch>>
       \/ /\ Authorized /\ ~TreeChanged
          /\ Goto("publish_scope")
          /\ UNCHANGED <<life, needsLook, reviewedTree, patch>>
    /\ UNCHANGED <<routing, attempts, counts, receipt, repo, limits,
                   acceptance, openFindings, acceptedFindings, cleared,
                   triage, plan, reviewReport, verified, impasse, ciReport>>

\* The publish gate and the scope.  An unattended run notes every gate it skipped.
PublishScope ==
    /\ pc = "publish_scope"
    /\ \/ Stop("other")                                       \* the publish gate
       \/ ~Unattended /\ NeedsHuman("scope")                  \* scope drift
       \/ /\ needsLook' \in IF Unattended THEN {needsLook \/ SkippedGate, TRUE} ELSE {needsLook}
          /\ Goto("receipt") /\ UNCHANGED life
    /\ UNCHANGED <<routing, attempts, counts, ledger, receipt, stored, repo, limits>>

\* Mutant of RecordCommit: the commit is made from the worktree, as git commit -a would.
RecordWorktree ==
    /\ pc = "receipt"
    /\ \/ Stop("publish") /\ UNCHANGED pending
       \/ /\ IF pending = None THEN workTree # ParentTree ELSE pending = reviewedTree
          /\ pending' = workTree
          /\ Goto("branch") /\ UNCHANGED <<life, needsLook>>
    /\ UNCHANGED <<routing, attempts, counts, ledger, commit, prUrl, merged, stored, repo, limits>>

\* publish_bound_commit up to record_commit: the exact commit is recorded before the branch
\* moves.  A recorded commit must be the reviewed tree on the authorized parent.
RecordCommit ==
    /\ pc = "receipt"
    /\ \/ Stop("publish") /\ UNCHANGED pending
       \/ /\ IF pending = None THEN reviewedTree # ParentTree ELSE pending = reviewedTree
          /\ pending' = reviewedTree
          /\ Goto("branch") /\ UNCHANGED <<life, needsLook>>
    /\ UNCHANGED <<routing, attempts, counts, ledger, commit, prUrl, merged, stored, repo, limits>>

\* The branch advances to the recorded commit, unless it is there already.
MoveBranch ==
    /\ pc = "branch"
    /\ headMoved' = TRUE
    /\ Goto("push")
    /\ UNCHANGED <<life, routing, attempts, counts, needsLook, ledger, receipt, stored, limits,
                   workTree, remote, pullRequest, mergedTree>>

\* _push_ref: a push that fails for good may still have landed.
Push ==
    /\ pc = "push"
    /\ \/ remote' = pending /\ Goto("open") /\ UNCHANGED <<life, needsLook>>
       \/ remote' \in {remote, pending} /\ Stop("publish")
    /\ UNCHANGED <<routing, attempts, counts, ledger, receipt, stored, limits,
                   workTree, headMoved, pullRequest, mergedTree>>

\* _attach_pull_request refreshes the run's pull request, reuses an open one of the branch, or
\* creates it.
OpenPullRequest ==
    /\ pc = "open"
    /\ \/ pullRequest' = (IF prUrl THEN pullRequest ELSE "open")
          /\ Goto("published") /\ UNCHANGED <<life, needsLook>>
       \/ pullRequest' \in {pullRequest, IF prUrl THEN pullRequest ELSE "open"}
          /\ Stop("publish")
    /\ UNCHANGED <<routing, attempts, counts, ledger, receipt, stored, limits,
                   workTree, headMoved, remote, mergedTree>>

\* publish saves what it published, and only then moves the run to PR_CREATED.
SavePublished ==
    /\ pc = "published"
    /\ commit' = pending
    /\ pending' = None
    /\ prUrl' = TRUE
    /\ headMoved' = FALSE
    /\ Goto("created")
    /\ UNCHANGED <<life, routing, attempts, counts, needsLook, ledger, merged, stored, limits,
                   workTree, remote, pullRequest, mergedTree>>

\* What a run does once its pull request is open: watch CI, or end.
AfterPublication ==
    IF CIObserved THEN "ci" ELSE IF needsLook THEN "leave" ELSE "done"

PullRequestCreated ==
    /\ pc = "created"
    /\ Move("PR_CREATED", AfterPublication)
    /\ UNCHANGED <<routing, attempts, counts, needsLook, ledger, receipt, stored, repo, limits>>

\* transition to DONE.  From VERIFYING, REVIEWING and the states before IMPLEMENTING the table has
\* no such transition: TransitionError leaves the run unfinished.
Raises == pc' = "raised" /\ ctx' = NoContext /\ UNCHANGED life

\* leave_open labels the pull request, whose failure is only logged, and ends the run.
LeaveOpen ==
    /\ pc \in {"leave", "done"}
    /\ IF state \in {"IMPLEMENTING"} \cup DeliveryStates THEN End("DONE", "other") ELSE Raises
    /\ UNCHANGED <<routing, attempts, counts, needsLook, ledger, receipt, stored, repo, limits>>

-----------------------------------------------------------------------------
(* CI and the merge *)

\* ci_loop begins with CI_RUNNING.  From CI_DIAGNOSIS, where a resume may enter it, the table
\* has no such transition: transition raises TransitionError, which nothing on the way catches.
WatchCI ==
    /\ pc = "ci"
    /\ \/ state \in {"PR_CREATED", "CI_RUNNING"} /\ Move("CI_RUNNING", "observe")
       \/ state = "CI_DIAGNOSIS" /\ Raises
    /\ UNCHANGED <<routing, attempts, counts, needsLook, ledger, receipt, stored, repo, limits>>

\* The observer returns a report, which is stored, or cannot read CI.
Observe ==
    /\ pc = "observe"
    /\ \/ /\ ciReport' \in {"TIMED_OUT", "PASS", "FAIL", "CANCELLED"}
          /\ Goto("verdict") /\ UNCHANGED <<life, needsLook>>
       \/ Stop("other") /\ UNCHANGED ciReport
    /\ UNCHANGED <<routing, attempts, counts, ledger, receipt, repo, limits,
                   triage, plan, reviewReport, verified, patch, impasse>>

Verdict ==
    /\ pc = "verdict"
    /\ \/ ciReport = "TIMED_OUT" /\ Stop("ci_timeout")
       \/ ciReport = "PASS" /\ Goto("finish") /\ UNCHANGED <<life, needsLook>>
       \/ /\ ciReport \in {"FAIL", "CANCELLED"}
          /\ Move("CI_DIAGNOSIS", "diagnose") /\ UNCHANGED needsLook
    /\ UNCHANGED <<routing, attempts, counts, ledger, receipt, stored, repo, limits>>

\* ci_stop_reason: red CI without a repairable failure, or no attempt left to repair it.
Diagnose ==
    /\ pc = "diagnose"
    /\ \/ Stop("ci_status")
       \/ ciReport = "FAIL" /\ Exhausted("CI_REPAIR") /\ Stop("ci_budget")
       \/ /\ ciReport = "FAIL" /\ ~Exhausted("CI_REPAIR")
          /\ Goto("repair") /\ UNCHANGED <<life, needsLook>>
    /\ UNCHANGED <<routing, attempts, counts, ledger, receipt, stored, repo, limits>>

\* repair_ci: implement again, on the budget of CI repairs.
RepairCI ==
    /\ pc = "repair"
    /\ Continue("IMPLEMENTING", "select",
                [ctx EXCEPT !.budget = "CI_REPAIR", !.polish = FALSE, !.generated = FALSE])
    /\ UNCHANGED <<routing, attempts, counts, needsLook, ledger, receipt, stored, repo, limits>>

\* check_delivery_workspace: the worktree still is the published commit.
PublishedWorkspace == workTree = commit /\ ~headMoved

\* Mutant of MayMerge: the reasons to look at the run are not checked.
MergeWhenEnabled == MergeEnabled

MayMerge == ~needsLook /\ MergeEnabled

\* merge_and_finish after CI passed.  The merger merges exactly the published commit; a merge
\* may happen without an answer that confirms it, and one that happened is recognised later.
Finish ==
    /\ pc = "finish"
    /\ \/ needsLook /\ Goto("leave") /\ UNCHANGED <<life, needsLook, pullRequest, mergedTree>>
       \/ /\ ~needsLook /\ ~MergeEnabled
          /\ Goto("done") /\ UNCHANGED <<life, needsLook, pullRequest, mergedTree>>
       \/ /\ MayMerge
          /\ Stop("other") /\ UNCHANGED <<pullRequest, mergedTree>>
       \/ /\ MayMerge
          /\ PublishedWorkspace /\ remote = commit
          /\ mergedTree' = remote
          /\ pullRequest' = "merged"
          /\ \/ Goto("merged") /\ UNCHANGED <<life, needsLook>>
             \/ Stop("other")
    /\ UNCHANGED <<routing, attempts, counts, ledger, receipt, stored, limits,
                   workTree, headMoved, remote>>

\* The merge commit is saved before the run ends.
SaveMerge ==
    /\ pc = "merged"
    /\ merged' = TRUE
    /\ Goto("done")
    /\ UNCHANGED <<life, routing, attempts, counts, needsLook, ledger, stored, repo, limits,
                   pending, commit, prUrl>>

-----------------------------------------------------------------------------
(* Interruption, stop requests, resume and restart *)

\* A crash of the process, or a stalled call that cancel_run ends: the thread and its context
\* are gone.  An implementer or a verify command leaves whatever it did to the worktree, and
\* an agent call that was open is closed later as the last invocation of the run.
Interrupt ==
    /\ pc # "idle"
    /\ interrupts < MaxInterrupts
    /\ interrupts' = interrupts + 1
    /\ workTree' \in IF pc \in {"agent", "verify"} THEN Trees ELSE {workTree}
    /\ callIsLast' \in IF pc \in {"triage", "plan", "replan", "review"}
                       THEN {callIsLast, FALSE} ELSE {callIsLast}
    /\ pc' = "idle"
    /\ ctx' = NoContext
    /\ UNCHANGED <<life, routing, counts, needsLook, ledger, receipt, stored,
                   escalations, edits, escalated,
                   used, rounds, grants, lastTree, unrecorded, polishRecorded, calls,
                   headMoved, remote, pullRequest, mergedTree>>

\* _raise_if_cancelled finds a person's stop request before or after an agent call, before a
\* verify command or while waiting for CI: the open invocation is closed and the run halts.
StopRequested ==
    /\ pc \in {"triage", "plan", "agent", "replan", "verify", "review", "observe"}
    /\ workTree' \in IF pc \in {"agent", "verify"} THEN Trees ELSE {workTree}
    /\ callIsLast' = (callIsLast /\ pc \in {"agent", "verify", "observe"})
    /\ NeedsHuman("other")
    /\ UNCHANGED <<routing, counts, ledger, receipt, stored, limits,
                   used, rounds, grants, lastTree, unrecorded, polishRecorded, calls,
                   headMoved, remote, pullRequest, mergedTree>>

\* Somebody edits the worktree while nothing works on it, or as the run publishes it.
EditWorktree ==
    /\ pc \in {"idle", "publish", "receipt"}
    /\ edits < MaxEdits
    /\ edits' = edits + 1
    /\ workTree' \in Trees \ {workTree}
    /\ UNCHANGED <<life, routing, attempts, counts, needsLook, ledger, receipt, stored, pc, ctx,
                   interrupts, escalations, escalated, headMoved, remote, pullRequest,
                   mergedTree>>

\* Mutant of Interrupted: PR_READY is taken for finished although it was never completed.
InterruptedUnlessReady == pc = "idle" /\ state \notin Terminal \cup {"PR_READY"}

Interrupted == pc = "idle" /\ ~is_run_finished

\* recover_interrupted_delivery: an unattended run leaves its pull request open; every other
\* one, and one whose stored context cannot be read, stops for a person.
StopInterrupted ==
    \/ Unattended /\ prUrl /\ needsLook' = TRUE /\ Goto("leave") /\ UNCHANGED life
    \/ NeedsHuman("other")

\* recover_abandoned_run: attended work interrupted before delivery waits for a person, and so
\* does every run whose resume is refused: a changed delivery policy, another repository.
RecoverAbandoned ==
    /\ Interrupted
    /\ NeedsHuman("other")
    /\ UNCHANGED <<routing, attempts, counts, ledger, receipt, stored, repo, limits>>

\* count_restart closes the open invocation and saves the new count first.
CountRestart ==
    /\ Interrupted
    /\ Unattended /\ state \notin DeliveryStates
    /\ restarts' = restarts + 1
    /\ Goto("count")
    /\ UNCHANGED <<life, routing, attempts, replans, reopens, needsLook, ledger, receipt, stored,
                   repo, limits>>

\* Mutant of CountInterruptedAttempt: the interrupted call is forgotten.
ForgetInterruptedAttempt ==
    /\ pc = "count"
    /\ Goto("restart")
    /\ UNCHANGED <<life, routing, attempts, counts, needsLook, ledger, receipt, stored, repo, limits>>

\* Then an implementer call without an attempt record counts as a failed attempt.  The record
\* carries the number of the last invocation, which may belong to another role.
CountInterruptedAttempt ==
    /\ pc = "count"
    /\ IF unrecorded = None
       THEN UNCHANGED attempts
       ELSE /\ RecordAttempt(unrecorded, FALSE)
            /\ unrecorded' = IF callIsLast THEN None ELSE unrecorded
    /\ Goto("restart")
    /\ UNCHANGED <<life, routing, counts, needsLook, ledger, receipt, stored, repo, limits>>

TooManyRestarts == restarts > MaxRestartRecoveries \/ prUrl

\* Mutant of EndRestarted: the run is not moved to IMPLEMENTING before it is published.
EndInPlace ==
    /\ pc = "restart"
    /\ TooManyRestarts
    /\ IF plan = None THEN NeedsHuman("other") ELSE Goto("as_is") /\ UNCHANGED <<life, needsLook>>
    /\ UNCHANGED <<routing, attempts, counts, ledger, receipt, stored, repo, limits>>

\* end_restarted_run: a run with a plan ends as it is.
EndRestarted ==
    /\ pc = "restart"
    /\ TooManyRestarts
    /\ IF plan = None
       THEN NeedsHuman("other")
       ELSE Continue("IMPLEMENTING", "as_is", NoContext) /\ UNCHANGED needsLook
    /\ UNCHANGED <<routing, attempts, counts, ledger, receipt, stored, repo, limits>>

\* Without a stored triage, or without its worktree, the run starts over on a clean one.
RestartFromScratch ==
    /\ pc = "restart"
    /\ ~TooManyRestarts
    /\ \/ triage = None /\ UNCHANGED edits
       \/ edits < MaxEdits /\ edits' = edits + 1                  \* the worktree was lost
    /\ workTree' = Base
    /\ headMoved' = FALSE
    /\ Continue("CREATED", "prepare", NoContext)
    /\ UNCHANGED <<routing, attempts, counts, needsLook, ledger, receipt, stored,
                   interrupts, escalations, escalated, remote, pullRequest, mergedTree>>

\* Otherwise work starts again at planning, on the route the run started on.
RestartAtPlanning ==
    /\ pc = "restart"
    /\ ~TooManyRestarts
    /\ triage # None
    /\ Continue("PLANNING", IF initialRoute \in SYNTHESIZED_ROUTES THEN "synthesize" ELSE "plan",
                NoContext)
    /\ UNCHANGED <<routing, attempts, counts, needsLook, ledger, receipt, stored, repo, limits>>

\* The worktree cannot be prepared, or an artifact cannot be read.
RestartFails ==
    /\ pc = "restart"
    /\ StopInterrupted
    /\ UNCHANGED <<routing, attempts, counts, ledger, receipt, stored, repo, limits>>

\* published_as_is: work that went out without a passing review of its own.
PublishedAsIs == Unattended /\ needsLook /\ lastTree # reviewedTree

\* restore_delivery_context and check_delivery_workspace for a run in state s.
Checkpoint(s) ==
    /\ s \in {"PR_CREATED", "CI_RUNNING"} => PublishedWorkspace
    /\ workTree = patch
    /\ workTree = reviewedTree
    /\ PublishedAsIs \/ (verified /\ Authorizes(reviewReport))

\* The run context a checkpoint restores.
RestoredContext ==
    [NoContext EXCEPT !.evidence = workTree,
                      !.review   = IF PublishedAsIs THEN "none" ELSE reviewReport,
                      !.polished = polishRecorded]

\* resume of an interrupted delivery: _continue_delivery goes on where the state says.
ResumeDelivery ==
    /\ Interrupted
    /\ state \in DeliveryStates
    /\ \/ Checkpoint(state)
          /\ \/ /\ state = "PR_READY" /\ ~PullRequests
                /\ completed' = TRUE /\ pc' = "idle" /\ ctx' = NoContext
                /\ UNCHANGED <<state, halt, needsLook>>
             \/ /\ state = "PR_READY" /\ PullRequests
                /\ pc' = "publish" /\ ctx' = RestoredContext /\ UNCHANGED <<life, needsLook>>
             \/ /\ state # "PR_READY"
                /\ pc' = AfterPublication /\ ctx' = RestoredContext
                /\ UNCHANGED <<life, needsLook>>
       \/ StopInterrupted             \* no checkpoint, or one that cannot be reconciled
    /\ UNCHANGED <<routing, attempts, counts, ledger, receipt, stored, repo, limits>>

-----------------------------------------------------------------------------
(* Reopening a halted run, and operator escalation *)

\* transition_reopened for a halt of class c: one accepted reply, one way out of NEEDS_HUMAN.
Reopened(class, s, step, c) ==
    /\ pc = "idle" /\ state = "NEEDS_HUMAN"
    /\ halt.class = class
    /\ reopens < MaxReopens
    /\ reopens' = reopens + 1
    /\ Continue(s, step, c)
    /\ UNCHANGED <<replans, restarts>>

\* A risk approval or the answers to plan decisions: _resume_reopened plans again.
ReopenAtPlanning ==
    /\ \/ Reopened("RISK_APPROVAL", "PLANNING", "plan", NoContext)
       \/ Reopened("PLAN_DECISION", "PLANNING", "plan", NoContext)
    /\ UNCHANGED <<routing, attempts, needsLook, ledger, receipt, stored, repo, limits>>

\* reopen_delivery_retry: the reviewed work is published again, unchanged.
ReopenDeliveryRetry ==
    /\ Checkpoint(state)
    /\ Reopened("DELIVERY_RETRY", "PR_READY", "publish", RestoredContext)
    /\ UNCHANGED <<routing, attempts, needsLook, ledger, receipt, stored, repo, limits>>

\* reopen_attempt_grant: exactly one implementation attempt more than before.
ReopenAttemptGrant ==
    /\ Reopened("ATTEMPT_GRANT", "IMPLEMENTING", "select", NoContext)
    /\ grants' = [grants EXCEPT !["IMPLEMENTATION"] = @ + 1]
    /\ UNCHANGED <<routing, needsLook, ledger, receipt, stored, repo, limits,
                   used, rounds, lastTree, unrecorded, callIsLast, polishRecorded, calls>>

\* reopen_findings_acceptance: a person accepts the open findings on the tree they are on,
\* within the review policy or beyond it.
ReopenFindingsAcceptance ==
    /\ openFindings # None /\ workTree = openFindings /\ patch = workTree /\ verified
    /\ Reopened("ACCEPT_FINDINGS", "PR_READY", "ready", RestoredContext)
    /\ reviewedTree' = openFindings
    /\ acceptance' = [kind |-> "OPERATOR", tree |-> openFindings]
    /\ acceptedFindings' \in {"within", "beyond"}
    /\ acceptedFindings = "beyond" => acceptedFindings' = "beyond"
    /\ cleared' = cleared \cup {openFindings}
    /\ openFindings' = None
    /\ needsLook' = TRUE
    /\ UNCHANGED <<routing, attempts, receipt, stored, repo, limits>>

\* reopen_scope_approval: the same work is verified again, without an attempt.
ReopenScopeApproval ==
    /\ patch = workTree
    /\ Reopened("SCOPE_APPROVAL", "IMPLEMENTING", "reverify",
                [NoContext EXCEPT !.evidence = workTree])
    /\ UNCHANGED <<routing, attempts, needsLook, ledger, receipt, stored, repo, limits>>

Reverify ==
    /\ pc = "reverify"
    /\ Move("VERIFYING", "verify")
    /\ UNCHANGED <<routing, attempts, counts, needsLook, ledger, receipt, stored, repo, limits>>

\* reopen_ci_repair_retry: the pull request is still open on the commit CI ran on.  A CI wait
\* that ran out is watched again, red CI gets one more repair attempt.
ReopenCIRepairRetry ==
    /\ Checkpoint(state)
    /\ pullRequest = "open" /\ remote = commit
    /\ IF halt.from = "CI_RUNNING"
       THEN /\ Reopened("CI_REPAIR_RETRY", "CI_RUNNING", "ci", RestoredContext)
            /\ UNCHANGED grants
       ELSE /\ Reopened("CI_REPAIR_RETRY", "CI_DIAGNOSIS", "repair", RestoredContext)
            /\ grants' = [grants EXCEPT !["CI_REPAIR"] = @ + 1]
    /\ UNCHANGED <<routing, needsLook, ledger, receipt, stored, repo, limits,
                   used, rounds, lastTree, unrecorded, callIsLast, polishRecorded, calls>>

\* fail_reopen: a reply was accepted, but the work no longer matches, or the worktree is gone.
FailReopen ==
    /\ pc = "idle" /\ state = "NEEDS_HUMAN"
    /\ halt.class \in ResumeClasses
    /\ reopens < MaxReopens
    /\ reopens' = reopens + 1
    /\ completed' = FALSE
    /\ halt' = [halt EXCEPT !.class = "NOT_RESUMABLE"]
    /\ UNCHANGED <<state, routing, attempts, replans, restarts, needsLook, ledger, receipt,
                   stored, repo, limits, pc, ctx>>

EscalationRoute == IF route = "SINGLE" THEN "CRITIQUE" ELSE "FULL"

\* The trees a run holds for its pull request that neither a review nor a person accepted.
UnacceptedWork == {reviewedTree, pending, commit, remote} \ (cleared \cup {None})

\* escalate: one route higher, fresh budgets and a clean record of skipped gates.  The
\* worktree, the pull request and the receipt of an unfinished publication stay.
Escalate ==
    /\ pc \in {"idle", "raised"}
    /\ state \in DeliveryStates \cup {"NEEDS_HUMAN", "DONE"}
    /\ ~merged /\ route # None /\ plan # None
    /\ escalations < MaxEscalations
    /\ escalations' = escalations + 1
    /\ route' = EscalationRoute
    /\ needsLook' = FALSE
    /\ escalated' = IF needsLook THEN escalated \cup UnacceptedWork ELSE escalated
    /\ used' = [b \in Budgets |-> 0] /\ rounds' = used' /\ grants' = used' /\ calls' = used'
    /\ Continue("PLANNING", IF EscalationRoute = "CRITIQUE" THEN "synthesize" ELSE "plan",
                NoContext)
    /\ UNCHANGED <<initialRoute, lastTree, unrecorded, callIsLast, polishRecorded,
                   counts, ledger, receipt, stored, repo, interrupts, edits>>

-----------------------------------------------------------------------------
(* The specification *)

Work ==
    \/ Prepare \/ Triage \/ DecideRoute \/ Gate \/ Synthesize \/ Plan
    \/ BudgetEnds \/ StartAttempt \/ ImplementerReturns \/ VerifyFails \/ VerifyPasses
    \/ ScopeReplan \/ ScopeHalts \/ Replan \/ ScopePasses \/ Reverify
    \/ SkipReview \/ RepairDiffFails \/ Review \/ AcceptFindings \/ KeepImpasse
    \/ HaltOnImpasse \/ RepairFindings \/ Approve

Deliver ==
    \/ PublishAsIs \/ Ready \/ ReviewedEvidence \/ PublishScope \/ RecordCommit \/ MoveBranch
    \/ Push \/ OpenPullRequest \/ SavePublished \/ PullRequestCreated \/ LeaveOpen
    \/ WatchCI \/ Observe \/ Verdict \/ Diagnose \/ RepairCI \/ Finish \/ SaveMerge

Recover ==
    \/ RecoverAbandoned \/ CountRestart \/ CountInterruptedAttempt \/ EndRestarted
    \/ RestartFromScratch \/ RestartAtPlanning \/ RestartFails \/ ResumeDelivery

Person ==
    \/ ReopenAtPlanning \/ ReopenDeliveryRetry \/ ReopenAttemptGrant \/ ReopenFindingsAcceptance
    \/ ReopenScopeApproval \/ ReopenCIRepairRetry \/ FailReopen \/ Escalate \/ StopRequested

Next == Work \/ Deliver \/ Recover \/ Person \/ Interrupt \/ EditWorktree

\* A run's thread goes on until it ends or is interrupted, and a restarted factory recovers
\* what was interrupted; nothing obliges a person, or a crash.
Fairness == WF_vars(Work \/ Deliver \/ Recover)

Spec == Init /\ [][Next]_vars
FairSpec == Spec /\ Fairness

-----------------------------------------------------------------------------
(* Properties *)

Steps ==
    {"prepare", "triage", "route", "gate", "synthesize", "plan", "select", "agent", "verify",
     "scope", "replan", "review", "decide", "impasse", "as_is", "ready", "publish",
     "publish_scope", "receipt", "branch", "push", "open", "published", "created", "leave",
     "done", "ci", "observe", "verdict", "diagnose", "repair", "finish", "merged", "count",
     "restart", "reverify", "idle", "raised"}

Tree == Trees \cup {None}

Contexts ==
    [budget : Budgets, evidence : Tree,
     review : {"none", "approved", "rejected", "skipped"},
     impasse : {"none", "repeated", "other"},
     polish : BOOLEAN, polished : BOOLEAN, generated : BOOLEAN]

LifeType ==
    /\ state \in States /\ completed \in BOOLEAN
    /\ completed => state \in Terminal \cup {"PR_READY"}
    /\ halt \in [reason : Reasons \cup {"none"},
                 class : ResumeClasses \cup {"NOT_RESUMABLE", "none"},
                 from : States \cup {"none"}]

RouteType == initialRoute \in Routes \cup {None} /\ route \in Routes \cup {None}

AttemptType ==
    /\ used \in [Budgets -> Nat] /\ rounds \in [Budgets -> Nat] /\ grants \in [Budgets -> Nat]
    /\ lastTree \in Tree /\ unrecorded \in Budgets \cup {None}
    /\ callIsLast \in BOOLEAN /\ polishRecorded \in BOOLEAN
    /\ calls \in [Budgets -> Nat]

CountType == replans \in Nat /\ restarts \in Nat /\ reopens \in Nat

LedgerType ==
    /\ reviewedTree \in Tree /\ openFindings \in Tree /\ cleared \subseteq Tree
    /\ acceptance \in [kind : {"none", "CONTROLLER", "CARRIED_FORWARD", "OPERATOR"}, tree : Tree]
    /\ acceptedFindings \in {"none", "within", "beyond"}

ReceiptType == pending \in Tree /\ commit \in Tree /\ prUrl \in BOOLEAN /\ merged \in BOOLEAN

StoredType ==
    /\ triage \in {"clear", "ineligible", "risky", None} /\ plan \in {"clear", "undecided", None}
    /\ reviewReport \in {"none", "approved", "rejected", "skipped"} /\ verified \in BOOLEAN
    /\ patch \in Tree /\ impasse \in BOOLEAN
    /\ ciReport \in {"none", "TIMED_OUT", "PASS", "FAIL", "CANCELLED"}

RepoType ==
    /\ workTree \in Trees /\ headMoved \in BOOLEAN /\ remote \in Tree
    /\ pullRequest \in {"none", "open", "merged"} /\ mergedTree \in Tree

ThreadType == pc \in Steps /\ ctx \in Contexts

LimitType == interrupts \in Nat /\ escalations \in Nat /\ edits \in Nat /\ escalated \subseteq Trees

\* The type of every variable: the persisted run, its artifacts, the repository and the thread.
\* Only a terminal run and a local one that is ready carry a completion stamp.
TypeOK ==
    /\ LifeType /\ RouteType /\ AttemptType /\ CountType /\ needsLook \in BOOLEAN /\ LedgerType
    /\ ReceiptType /\ StoredType /\ RepoType /\ ThreadType /\ LimitType

Lifecycle == INSTANCE RunLifecycle

\* Every step of the controller is a step the lifecycle declares: transition follows the table,
\* and the moves outside it are the restarts, the reopens and the operator escalation.
ImplementsLifecycle == Lifecycle!Spec

\* Work an unattended run may have in its pull request without an acceptance: the run says
\* that a person must look at it, or a person who was told so escalated the run with it.
FlaggedWork(t) == Unattended /\ (needsLook \/ t \in escalated)

\* The factory pushes a tree only after a review or a person accepted exactly that tree, or,
\* in an unattended run, flagged (publish, publish_as_is, adopt_current_tree).
PushesAcceptedWork ==
    [][remote' # remote => remote' \in cleared \/ FlaggedWork(remote')]_vars

\* What the run has on its branch, and so in its pull request, is accepted or flagged at every
\* moment, whatever restarts, repairs, reopens and escalations happened since the push; escalate
\* alone drops needs_look, and what the branch then holds unflagged is what that person saw flagged.
PullRequestHoldsAcceptedWork ==
    remote # None => remote \in cleared \/ FlaggedWork(remote)

\* The factory merges only the commit it recorded, with work that a review or a person accepted
\* or that a person escalated, and never a run that a person must look at, such as one whose
\* findings a person accepted (merge_and_finish, ADR-059).
MergesOnlyAcceptedWork ==
    [][mergedTree' # mergedTree
        => /\ mergedTree' = commit /\ (commit \in cleared \/ FlaggedWork(commit))
           /\ ~needsLook /\ acceptance.kind # "OPERATOR"]_vars

\* A restart never widens an attempt budget (count_restart): an unattended run, however often it
\* is interrupted, calls its implementer no more often than its budgets allow.
CallsWithinBudget == Unattended => \A b \in Budgets : calls[b] <= AttemptLimit(b)

\* The effective route never moves down, however the run is interrupted, restarted, reopened or
\* escalated; only a run that starts from scratch decides its route again (_ratchet_route).
RouteNeverDowngraded ==
    [][route # None /\ pc # "route" => RoutePrecedence[route'] >= RoutePrecedence[route]]_vars

\* A run that ends without a reason to look at it delivered: the pull request holds the commit
\* the run recorded, CI passed on it and, with merges enabled, it is merged.  Every other way to
\* DONE leaves a flag (_stop, recover_interrupted_delivery, ADR-040, ADR-041).
DoneMeansDelivered ==
    state = "DONE" /\ ~needsLook
        => /\ prUrl /\ remote = commit
           /\ CIObserved => ciReport = "PASS" /\ (MergeEnabled => merged)

\* A run that is driven or that a restarted factory finds reaches an end: recovery never leaves
\* it unfinished.  The exceptions are the transitions that raise, below.
RunsFinish == ~is_run_finished ~> (is_run_finished \/ pc = "raised")

(* Promises of the documentation that the code does not keep; each is refuted by its own run. *)

\* workflow.py writes "Reviewer skipped: accepted by deterministic verification" into the review
\* report of a SINGLE run; that acceptance should authorize the publication.
SingleRouteDelivers == pc = "publish" /\ ctx.review = "skipped" => Authorized

\* ADR-043: resume handles PR_READY, PR_CREATED, CI_RUNNING and CI_DIAGNOSIS.
InterruptedRunsFinish == ~is_run_finished ~> is_run_finished

=============================================================================
