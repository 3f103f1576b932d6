------------------------------ MODULE ScopeRules ------------------------------
(***************************************************************************)
(* The files of a change against the plan of an attended run: the scope      *)
(* policy and the publish gate (governance.py), the replan of the scope      *)
(* (scope_replan.py), the scope halt and the approval of a person             *)
(* (halt_contexts.py, run_reopen.py).  Each of them changes one of the four   *)
(* things the policy compares: the changed files, the plan, the paths a       *)
(* person approved, and the sensitive files the configuration allows.          *)
(*                                                                          *)
(* A file is the module it is in and what kind of file it is.                 *)
(***************************************************************************)
EXTENDS Naturals, FiniteSets

CONSTANTS Modules, Kinds,             \* "plain", "protected" and the sensitive kinds
          MaxFiles,                   \* repository.max_changed_files
          MaxAttempts, MaxReplans     \* retries.max_total_attempts, scope_drift.max_replans

VARIABLES allowed,   \* scope_drift.approved_sensitive_files
          plan,      \* [modules, files]: expected_scope and the likely files of the steps
          changed,   \* the changed files of the worktree
          approved,  \* approved_scope_paths of the run
          context,   \* the paths of the scope halt, while a person may approve them
          step,      \* where the run is
          used       \* [attempts, replans]

scopeVars == <<allowed, plan, changed, approved, context, step, used>>

Files == Modules \X Kinds
Change == {S \in SUBSET Files : S # {} /\ Cardinality(S) <= MaxFiles + 1}
Plans == [modules : SUBSET Modules, files : {{}, Files}]

ScopeInit ==
  /\ allowed \in {{}, Files}
  /\ plan \in Plans
  /\ changed = {} /\ approved = {} /\ context = {}
  /\ step = "implement" /\ used = [attempts |-> 0, replans |-> 0]

-----------------------------------------------------------------------------
(* ScopeDriftPolicy.assess *)

\* Sensitive kinds that the configuration may allow when the plan names the file, and others.
Allowable == {"dependency", "ci"}
Never == {"migration", "infrastructure"}

\* What a person approved for this run is not looked at.
Looked == changed \ approved

\* paths_outside_scope: a plan that names no module puts nothing out of scope.
Outside == IF plan.modules = {} THEN {} ELSE {f \in Looked : f[1] \notin plan.modules}

\* A change is unexpected when all of it is outside.
Unexpected == IF Outside = Looked THEN Outside ELSE {}

\* Mutant of Exempt: the configuration alone allows a sensitive file.
ExemptByConfig == allowed

Exempt == allowed \cap plan.files

Sensitive == {f \in Looked : f[2] \in Never \/ (f[2] \in Allowable /\ f \notin Exempt)}

Findings == Unexpected \cup Sensitive

ScopeDecision == IF Findings = {} THEN "continue" ELSE IF Sensitive # {} THEN "needs_human" ELSE "replan"

-----------------------------------------------------------------------------
(* The run *)

Implement ==
  /\ step = "implement" /\ used.attempts < MaxAttempts
  /\ changed' \in Change
  /\ step' = "check" /\ used' = [used EXCEPT !.attempts = @ + 1]
  /\ UNCHANGED <<allowed, plan, approved, context>>

\* build_scope_approval_context: the paths of every finding.
ShownPaths == Findings

Halt(paths) == step' = "halted" /\ context' = paths

\* The check of the implementation loop, in an attempt or of the work of a reopened run.
CheckScope ==
  /\ step \in {"check", "recheck"} /\ UNCHANGED <<allowed, plan, changed, approved, used>>
  /\ \/ ScopeDecision = "continue" /\ step' = "review" /\ UNCHANGED context
     \/ ScopeDecision = "replan" /\ used.replans < MaxReplans /\ step' = "replan" /\ UNCHANGED context
     \/ ScopeDecision = "replan" /\ used.replans = MaxReplans /\ Halt(ShownPaths)
     \/ ScopeDecision = "needs_human" /\ Halt(ShownPaths)

\* The planner describes the same files anew; the same findings again are no progress.
Replan ==
  /\ step = "replan" /\ plan' \in Plans
  /\ UNCHANGED <<allowed, changed, approved>>
  /\ used' = [used EXCEPT !.replans = @ + 1]
  /\ IF ScopeDecision' = "replan" /\ Findings' = Findings
     THEN Halt(Findings)
     ELSE step' = "check" /\ UNCHANGED context

\* A person approves what is shown, and the run goes on with the same work.
ReopenScopeApproval ==
  /\ step = "halted" /\ context # {}
  /\ approved' = approved \cup context /\ context' = {} /\ step' = "recheck"
  /\ UNCHANGED <<allowed, plan, changed, used>>

Review ==
  /\ step = "review" /\ step' \in {"implement", "publish"}
  /\ UNCHANGED <<allowed, plan, changed, approved, context, used>>

\* assess_publish_gate
GateAllows == (\A f \in changed : f[2] # "protected") /\ Cardinality(changed) <= MaxFiles

\* _check_publish_scope: a halt here has no context.
PublishChange ==
  /\ step = "publish" /\ UNCHANGED <<allowed, plan, changed, approved, context, used>>
  /\ \/ ~GateAllows /\ step' = "stopped"
     \/ GateAllows /\ ScopeDecision # "continue" /\ step' = "halted"
     \/ GateAllows /\ ScopeDecision = "continue" /\ step' = "published"

ScopeNext == Implement \/ CheckScope \/ Replan \/ ReopenScopeApproval \/ Review \/ PublishChange
ScopeSpec == ScopeInit /\ [][ScopeNext]_scopeVars

-----------------------------------------------------------------------------
(* Properties *)

\* A pull request holds no sensitive file that nobody cleared, and is not all beyond the plan,
\* after any order of attempts, reviews, replans that rewrite the plan under the same files, and
\* approvals of halts: a file is cleared by a person, or by the configuration and the plan.
PublishesClearedFiles ==
  step = "published" =>
    /\ \A f \in changed \ approved :
         \/ f[2] = "plain"
         \/ f[2] \in Allowable /\ f \in allowed /\ f \in plan.files
    /\ \/ plan.modules = {}
       \/ changed \subseteq approved
       \/ \E f \in changed \ approved : f[1] \in plan.modules

(* Promises of the documentation that the code does not keep: each can be refuted. *)

\* "The run verifies the same work again without a new attempt, passes the scope check and goes
\* on to review" (run_reopen.py, reopen_scope_approval; ADR-060).
ApprovedWorkPassesScope == step = "recheck" => ScopeDecision = "continue"

=============================================================================
