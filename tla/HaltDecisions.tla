----------------------------- MODULE HaltDecisions -----------------------------
(***************************************************************************)
(* What a person decides about a halted attended run, and what the run then *)
(* does (halt_contexts.py, resume_classes.py, resume.py, resume_writes.py,   *)
(* run_reopen.py, ci_repair_retry.py).  A halt snapshots the facts of its    *)
(* class; the page shows them; the request that is filed from the page is    *)
(* taken by the service; and the reopen checks the facts again, against the *)
(* run, the worktree and the pull request, before the run leaves             *)
(* NEEDS_HUMAN.                                                              *)
(*                                                                          *)
(* The facts are numbers of versions: a tree is the number of the write that *)
(* made it.  A fingerprint is the facts it is made from.  Windows, limits of *)
(* reopens, notices and replies on GitHub are in Escalation.                 *)
(***************************************************************************)
EXTENDS Naturals

CONSTANTS MaxAttempts, CIAttempts,    \* retries.max_total_attempts, ci.repair_attempts
          MaxEpisodes, MaxPlans,
          MaxEdits,                   \* what people do to the worktree and the pull request
          MaxEscalations, MaxCrashes

VARIABLES run,      \* the run of run.json
          world,    \* [tree, outside, writes, head, open]: the worktree, what of it is beyond the
                    \* plan, the writes so far, and the pull request
          esc,      \* the escalation: [episode, status, reason, class, context, print, known, shown]
          impasse,  \* review-impasse.json exists
          page,     \* what a person has on the screen: [class, print]
          requests, \* the pending requests of the dashboard
          job,      \* [step, tree]: the process that holds the workspace lock
          granted,  \* decisions that gave an attempt, per budget, since the last escalation
          spent

haltVars == <<run, world, esc, impasse, page, requests, job, granted, spent>>

Budgets == {"implementation", "ci"}
Paths == {"other.py"}
DashboardOnly == {"delivery", "grant", "accept", "scope", "ci"}
Classes == DashboardOnly \cup {"risk", "plan"}

NoFacts == [tree |-> 0, count |-> 0, paths |-> {}, timed |-> FALSE]
\* What compute_*_context_fingerprint binds to an episode.
Fingerprint(episode, facts) == [episode |-> episode, facts |-> facts]
NoPage == [class |-> "none", print |-> Fingerprint(0, NoFacts)]
NoEpisode == [episode |-> 0, status |-> "none", reason |-> "none", class |-> "none",
              context |-> NoFacts, print |-> Fingerprint(0, NoFacts), known |-> FALSE,
              shown |-> NoFacts]
Idle == [step |-> "none", tree |-> 0]

HaltInit ==
  /\ \E risky \in BOOLEAN :
       run = [state |-> "triage", risky |-> risky, plan |-> 0, used |-> [b \in Budgets |-> 0],
              grants |-> [b \in Budgets |-> 0], approved |-> {}, patch |-> 0,
              reviewed |-> 0, ledger |-> 0, findings |-> FALSE, commit |-> 0, timed |-> FALSE]
  /\ world = [tree |-> 0, outside |-> {}, writes |-> 0, head |-> 0, open |-> FALSE]
  /\ esc = NoEpisode
  /\ impasse = FALSE
  /\ page = NoPage /\ requests = {}
  /\ job = [Idle EXCEPT !.step = "work"]
  /\ granted = [b \in Budgets |-> 0]
  /\ spent = [edits |-> 0, escalations |-> 0, crashes |-> 0]

At(state) == job.step = "work" /\ run.state = state
Published == run.commit # 0
Budget == IF Published THEN "ci" ELSE "implementation"
Limit(b) == (IF b = "ci" THEN CIAttempts ELSE MaxAttempts) + run.grants[b]

-----------------------------------------------------------------------------
(* A halt: classify_halt_reason and build_resume_context *)

\* What a person decides about, per class, from what the run has recorded.
Facts(class, r) ==
  CASE class = "plan" -> [NoFacts EXCEPT !.count = r.plan]
    [] class = "delivery" -> [NoFacts EXCEPT !.tree = r.reviewed]
    [] class = "grant" -> [NoFacts EXCEPT !.count = r.used["implementation"]]
    [] class = "accept" -> [NoFacts EXCEPT !.tree = r.ledger]
    [] class = "scope" -> [NoFacts EXCEPT !.tree = r.patch]
    [] class = "ci" -> [NoFacts EXCEPT !.tree = r.commit, !.count = r.used["ci"], !.timed = r.timed]
    [] OTHER -> NoFacts

\* Whether the builder of the class finds what it needs in the run that halts.
Known(class, r) ==
  CASE class = "delivery" -> r.state = "pr_ready" /\ r.reviewed # 0
    [] class = "accept" -> r.findings
    [] class = "scope" -> r.state = "verifying" /\ ~Published
    [] class = "ci" -> \/ r.state = "ci_running" /\ r.timed
                       \/ r.state = "ci_diagnosis"
    [] OTHER -> class \in Classes

\* A stored review impasse comes before the reason of the halt.
Classified(reason) == IF impasse' THEN "accept" ELSE reason

Snapshot(class, r) ==
  [Facts(class, r) EXCEPT !.paths = IF class = "scope" THEN world.outside \ r.approved ELSE {}]

\* A class that only the dashboard resumes has no other way to resume than its context.
KeptClass(class, known) == IF class \in DashboardOnly /\ ~known THEN "none" ELSE class

Halt(reason, r) ==
  LET class == Classified(reason)
      known == Known(class, r)
  IN  /\ esc.episode < MaxEpisodes
      /\ run' = [r EXCEPT !.state = "needs_human"]
      /\ esc' = [episode |-> esc.episode + 1, status |-> "waiting", reason |-> reason,
                 class |-> KeptClass(class, known), context |-> Snapshot(class, r),
                 print |-> Fingerprint(esc.episode + 1, Snapshot(class, r)),
                 known |-> known, shown |-> NoFacts]
      /\ job' = Idle

-----------------------------------------------------------------------------
(* The work of the run, in one step per outcome *)

GoTo(r) == run' = r /\ UNCHANGED <<esc, job>>
Halts(reason) == Halt(reason, run)

Triage ==
  /\ At("triage") /\ UNCHANGED <<world, impasse, page, requests, granted, spent>>
  /\ \/ ~run.risky /\ GoTo([run EXCEPT !.state = "planning"])
     \/ run.risky /\ Halts("risk")

Plan ==
  /\ At("planning") /\ run.plan < MaxPlans
  /\ UNCHANGED <<world, impasse, page, requests, granted, spent>>
  /\ LET planned == [run EXCEPT !.plan = @ + 1]
     IN  \/ GoTo([planned EXCEPT !.state = "implementing"])
         \/ Halt("plan", planned)

Implement ==
  /\ At("implementing") /\ run.used[Budget] < Limit(Budget)
  /\ \E outside \in SUBSET Paths :
       world' = [world EXCEPT !.tree = world.writes + 1, !.writes = @ + 1, !.outside = outside]
  /\ \E state \in {"verifying", "implementing"} :
       GoTo([run EXCEPT !.state = state, !.used[Budget] = @ + 1, !.patch = world'.tree])
  /\ UNCHANGED <<impasse, page, requests, granted, spent>>

OutOfAttempts ==
  /\ At("implementing") /\ run.used[Budget] = Limit(Budget)
  /\ UNCHANGED <<world, impasse, page, requests, granted, spent>>
  /\ Halts(IF Budget = "ci" THEN "ci" ELSE "grant")

\* The commands and the scope check; a tree that changed meanwhile is done again.
Verify ==
  /\ At("verifying") /\ UNCHANGED <<world, impasse, page, requests, granted, spent>>
  /\ \/ GoTo([run EXCEPT !.state = "implementing"])
     \/ /\ world.tree = run.patch /\ ~(world.outside \subseteq run.approved)
        /\ Halts("scope")
     \/ /\ world.tree = run.patch /\ world.outside \subseteq run.approved
        /\ GoTo([run EXCEPT !.state = "reviewing"])

Review ==
  /\ At("reviewing") /\ UNCHANGED <<world, page, requests, granted, spent>>
  /\ \/ /\ GoTo([run EXCEPT !.state = "pr_ready", !.reviewed = run.patch,
                            !.ledger = run.patch, !.findings = FALSE])
        /\ UNCHANGED impasse
     \/ /\ GoTo([run EXCEPT !.state = "implementing", !.ledger = run.patch, !.findings = TRUE])
        /\ UNCHANGED impasse
     \/ /\ impasse' = TRUE
        /\ Halt("accept", [run EXCEPT !.ledger = run.patch, !.findings = TRUE])

\* The reviewed tree is pushed, unless it changed or the publication fails.
Publish ==
  /\ At("pr_ready") /\ UNCHANGED <<impasse, page, requests, granted, spent>>
  /\ \/ /\ world.tree # run.reviewed /\ Halts("none") /\ UNCHANGED world
     \/ /\ world.tree = run.reviewed /\ Halts(IF Published THEN "none" ELSE "delivery")
        /\ UNCHANGED world
     \/ /\ world.tree = run.reviewed
        /\ world' = [world EXCEPT !.head = run.reviewed, !.open = TRUE]
        /\ GoTo([run EXCEPT !.state = "ci_running", !.commit = run.reviewed, !.timed = FALSE])

WatchCI ==
  /\ At("ci_running") /\ UNCHANGED <<world, impasse, page, requests, granted, spent>>
  /\ \/ run' = [run EXCEPT !.state = "done"] /\ job' = Idle /\ UNCHANGED esc
     \/ GoTo([run EXCEPT !.state = "ci_diagnosis", !.timed = FALSE])
     \/ Halt("ci", [run EXCEPT !.timed = TRUE])
     \/ Halts("none")

DiagnoseCI ==
  /\ At("ci_diagnosis") /\ UNCHANGED <<world, impasse, page, requests, granted, spent>>
  /\ \/ run.used["ci"] < Limit("ci") /\ GoTo([run EXCEPT !.state = "implementing"])
     \/ \E reason \in {"ci", "none"} : Halts(reason)

\* repair_ci of a retry: neither the category of the failure nor the budget is asked for.
RepairCI ==
  /\ job.step = "repair"
  /\ run' = [run EXCEPT !.state = "implementing"]
  /\ job' = [Idle EXCEPT !.step = "work"]
  /\ UNCHANGED <<world, esc, impasse, page, requests, granted, spent>>

-----------------------------------------------------------------------------
(* The decision: the page, the request, and its ingest *)

\* has_valid_resume_context: the context is there and is the one of this run and episode.
ValidContext == esc.known /\ esc.print = Fingerprint(esc.episode, esc.context)

Waits == run.state = "needs_human" /\ esc.status = "waiting" /\ esc.class # "none" /\ ValidContext
Asked == [class |-> esc.class, print |-> esc.print]

\* A request for this halt waits for the service.
Queued == Asked \in requests

\* The kind of the next step of the page: the class when it has a button for it.
NextStep ==
  CASE run.state # "needs_human" -> "none"
    [] run.state = "needs_human" /\ esc.class \notin Classes -> "cannot continue"
    [] run.state = "needs_human" /\ esc.class \in Classes /\ Queued -> "queued"
    [] run.state = "needs_human" /\ esc.class \in Classes /\ ~Queued /\ ~Waits -> "unavailable"
    [] OTHER -> esc.class

OpenPage ==
  /\ NextStep \in Classes /\ page # Asked /\ page' = Asked
  /\ UNCHANGED <<run, world, esc, impasse, requests, job, granted, spent>>

\* accept_action refuses a page that is no longer what the run asks.
File ==
  /\ Waits /\ page = Asked /\ page \notin requests
  /\ requests' = requests \cup {page}
  /\ UNCHANGED <<run, world, esc, impasse, page, job, granted, spent>>

\* dashboard_request_refusal, of a request of this episode; Escalation has its times.
Refused(request) == request # Asked

\* ingest_dashboard_request: requests of other episodes are left alone, and a request the
\* run accepted stays pending.
Ingest ==
  /\ Waits
  /\ \E request \in requests :
       /\ ~Refused(request)
       /\ esc' = [esc EXCEPT !.status = "reopened", !.shown = request.print.facts]
  /\ UNCHANGED <<run, world, impasse, page, requests, job, granted, spent>>

-----------------------------------------------------------------------------
(* The reopen *)

StartReopen ==
  /\ run.state = "needs_human" /\ esc.status = "reopened" /\ job.step = "none"
  /\ job' = [step |-> "check", tree |-> 0]
  /\ UNCHANGED <<run, world, esc, impasse, page, requests, granted, spent>>

\* fail_reopen: another episode, that nobody can resume.
FailReopen ==
  /\ esc.episode < MaxEpisodes
  /\ esc' = [NoEpisode EXCEPT !.episode = esc.episode + 1, !.status = "waiting"]
  /\ job' = Idle

\* Mutant of TreeFits: the worktree is not looked at again.
TreeIsTrusted(class, facts) == TRUE

\* The worktree holds what the class was decided on.
TreeFits(class, facts) ==
  CASE class \in {"delivery", "accept", "scope"} -> world.tree = facts.tree
    [] class = "ci" -> world.tree = run.reviewed
    [] OTHER -> TRUE

\* _require_open_pull_request
PullRequestFits(class, facts) == class = "ci" => world.open /\ world.head = facts.tree

\* The recorded facts are still those of the receipt: the checks of _REOPEN_CHECKS.
FactsFit ==
  LET seen == [esc.context EXCEPT !.paths = {}] IN
  esc.class = "scope" \/ Facts(esc.class, run) = seen

CheckReopen ==
  /\ job.step = "check" /\ UNCHANGED <<run, world, impasse, page, requests, granted, spent>>
  /\ \/ /\ TreeFits(esc.class, esc.context) /\ PullRequestFits(esc.class, esc.context) /\ FactsFit
        /\ job' = [step |-> "go", tree |-> world.tree] /\ UNCHANGED esc
     \/ FailReopen

Resumed(class) ==
  CASE class \in {"risk", "plan"} -> "planning"
    [] class \in {"delivery", "accept"} -> "pr_ready"
    [] class = "grant" -> "implementing"
    [] class = "scope" -> "verifying"
    [] class = "ci" /\ esc.context.timed -> "ci_running"
    [] OTHER -> "ci_diagnosis"

Grants == CASE esc.class = "grant" -> {"implementation"}
            [] esc.class = "ci" /\ ~esc.context.timed -> {"ci"}
            [] OTHER -> {}

One(b) == IF b \in Grants THEN 1 ELSE 0

\* Mutant of Given: a red result of CI keeps giving what it gave before.
GivenAgain(b) == IF b \in Grants THEN 1 + run.used[b] ELSE run.grants[b]

Given(b) == run.grants[b] + One(b)

\* The class reopeners up to transition_reopened: one save.
GoReopen ==
  /\ job.step = "go"
  /\ run' = [run EXCEPT
       !.state = Resumed(esc.class),
       !.risky = FALSE,
       !.grants = [b \in Budgets |-> Given(b)],
       !.approved = IF esc.class = "scope" THEN @ \cup esc.context.paths ELSE @,
       !.reviewed = IF esc.class = "accept" THEN esc.context.tree ELSE @,
       !.findings = IF esc.class = "accept" THEN FALSE ELSE @]
  /\ granted' = [b \in Budgets |-> granted[b] + One(b)]
  /\ esc' = [esc EXCEPT !.status = "resumed"]
  /\ job' = [Idle EXCEPT !.step = IF Grants = {"ci"} THEN "repair" ELSE "work"]
  /\ UNCHANGED <<world, impasse, page, requests, spent>>

-----------------------------------------------------------------------------
(* Around it *)

\* factory escalate: the work starts again with new budgets.
Escalate ==
  /\ job.step = "none" /\ run.plan > 0 /\ spent.escalations < MaxEscalations
  /\ run.state \in {"pr_ready", "ci_running", "ci_diagnosis", "needs_human", "done"}
  /\ run' = [run EXCEPT !.state = "planning", !.used = [b \in Budgets |-> 0],
                        !.grants = [b \in Budgets |-> 0]]
  /\ granted' = [b \in Budgets |-> 0]
  /\ job' = [Idle EXCEPT !.step = "work"]
  /\ spent' = [spent EXCEPT !.escalations = @ + 1]
  /\ UNCHANGED <<world, esc, impasse, page, requests>>

Crash ==
  /\ job.step # "none" /\ spent.crashes < MaxCrashes
  /\ job' = Idle
  /\ spent' = [spent EXCEPT !.crashes = @ + 1]
  /\ UNCHANGED <<run, world, esc, impasse, page, requests, granted>>

\* factory resume: a delivery goes on, any other work stops for a person.
Resume ==
  /\ job.step = "none" /\ run.state \notin {"needs_human", "done"}
  /\ UNCHANGED <<world, impasse, page, requests, granted, spent>>
  /\ \/ /\ run.state \in {"pr_ready", "ci_running", "ci_diagnosis"}
        /\ world.tree = run.reviewed
        /\ run' = IF run.state = "ci_diagnosis" THEN [run EXCEPT !.state = "ci_running"] ELSE run
        /\ job' = [Idle EXCEPT !.step = "work"] /\ UNCHANGED esc
     \/ Halts("none")

Edits == spent.edits < MaxEdits /\ spent' = [spent EXCEPT !.edits = @ + 1]

EditTree ==
  /\ Edits
  /\ \E outside \in SUBSET Paths :
       world' = [world EXCEPT !.tree = world.writes + 1, !.writes = @ + 1, !.outside = outside]
  /\ UNCHANGED <<run, esc, impasse, page, requests, job, granted>>

\* A person pushes to the pull request, or closes it.
ChangePull ==
  /\ Edits /\ world.open
  /\ \/ world' = [world EXCEPT !.head = world.writes + 1, !.writes = @ + 1]
     \/ world' = [world EXCEPT !.open = FALSE]
  /\ UNCHANGED <<run, esc, impasse, page, requests, job, granted>>

HaltNext ==
  \/ Triage \/ Plan \/ Implement \/ OutOfAttempts \/ Verify \/ Review
  \/ Publish \/ WatchCI \/ DiagnoseCI \/ RepairCI
  \/ OpenPage \/ File \/ Ingest
  \/ StartReopen \/ CheckReopen \/ GoReopen
  \/ Escalate \/ Crash \/ Resume \/ EditTree \/ ChangePull

HaltSpec == HaltInit /\ [][HaltNext]_haltVars

-----------------------------------------------------------------------------
(* Properties *)

\* What the run resumes on is what the person who decided had on the screen.
StillShown(class, shown) ==
  CASE class = "delivery" -> run.reviewed = shown.tree /\ job.tree = shown.tree
    [] class = "accept" -> run.ledger = shown.tree /\ job.tree = shown.tree
    [] class = "scope" -> run.patch = shown.tree /\ job.tree = shown.tree
    [] class = "ci" -> run.commit = shown.tree /\ run.used["ci"] = shown.count
    [] class = "grant" -> run.used["implementation"] = shown.count
    [] class = "plan" -> run.plan = shown.count
    [] OTHER -> TRUE

\* A decision is applied only while the facts it was made on still hold: the plan that was
\* answered, the reviewed tree that is published or accepted, the patch whose paths were
\* approved, the head and the attempts CI stopped on.  Between the page and the reopen the
\* run may crash, be escalated and halt again, and people may edit the worktree; the
\* reopener looks at the worktree once, before transition_reopened.
ResumesAsShown ==
  esc.status = "reopened" /\ esc'.status = "resumed" => StillShown(esc.class, esc.shown)
ActsOnWhatWasShown == [][ResumesAsShown]_haltVars

\* Beyond the configured budget a run makes one attempt for each decision that gave one
\* (ADR-058, ADR-061), whatever halts, crashes, retries and escalations come in between.
OneAttemptPerGrant ==
  \A b \in Budgets :
    run.used[b] <= granted[b] + (IF b = "ci" THEN CIAttempts ELSE MaxAttempts)

(* Promises of the documentation that the code does not keep: each can be refuted. *)

\* "If it fails, the run halts again for another retry" (ci_repair_retry.py:93-94), of the
\* attempt that a retry of CI grants.
FailedRetryMayBeRetried ==
  run.state = "needs_human" /\ esc.status = "waiting" /\ esc.reason = "ci" /\ run.grants["ci"] > 0
    => esc.class = "ci"

=============================================================================
