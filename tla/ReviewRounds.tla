---------------------------- MODULE ReviewRounds ----------------------------
(***************************************************************************)
(* The review ledger of a run over its rounds: which findings of the        *)
(* reviewer stay open, when the rounds stop, what is accepted at the limit, *)
(* and what a CI repair, an escalation or a person's acceptance finds in    *)
(* the ledger.  RunController sees a review as one choice; here the report  *)
(* is read.                                                                *)
(*                                                                         *)
(* A finding is kept under its id, the category and the place, so a ledger  *)
(* list without duplicates is a function on ids.  Places overlap only with   *)
(* themselves; their first part is the path.  The words decide only whether *)
(* a draft repeats an accepted finding of its id, so a draft says whether   *)
(* it does.  Direct and indirect regressions are one origin.                *)
(***************************************************************************)
EXTENDS Naturals, FiniteSets

CONSTANTS
  MaxRounds,      \* review.max_rounds
  MaxAttempts,    \* retries.max_total_attempts
  CIAttempts,     \* ci.repair_attempts
  MaxAccepted,    \* review.max_accepted_findings
  MaxOpen,        \* MAX_OPEN_REVIEW_FINDINGS
  MaxChances      \* bound: escalations of a run, and crashes between the saves of an acceptance

VARIABLES
  ledger,    \* open and accepted findings, rounds and streaks
  work,      \* the run: state, budgets, acceptance, the last report
  told,      \* history: ids that were owed to a person, and what a person accepted
  chances    \* what the environment may still do

reviewVars == <<ledger, work, told, chances>>

Blocked == "SECURITY"
Ids == {<<"CORRECTNESS", <<"p", 1>>>>, <<"CORRECTNESS", <<"q", 1>>>>, <<Blocked, <<"p", 2>>>>}
Budgets == {"implementation", "ci"}
Nothing == [i \in {} |-> 0]

PathsOf(ids) == {i[2][1] : i \in ids}
IsBlocked(i) == i[1] = Blocked
Keep(f, ids) == [i \in ids |-> f[i]]

\* Of two findings with one id the list keeps the one that stands first.
Deduplicated(f, g) ==
  [i \in DOMAIN f \cup DOMAIN g |-> IF i \in DOMAIN f THEN f[i] ELSE g[i]]

-----------------------------------------------------------------------------
(* Reading a report *)

Mint(ids, origin) == [i \in ids |-> origin]

AtMostOne == {{}} \cup {{i} : i \in Ids}

\* Without open findings the review is a first one: no dispositions and no regressions, and a
\* draft may repeat an accepted finding in its words.  Otherwise every open finding has its
\* disposition.  One new finding of a kind; more meet the same cases a round earlier.
Reports ==
  IF ledger.open = Nothing
  THEN {r \in [latent : AtMostOne, regressions : {{}}, resolved : {{}},
               repeated : SUBSET DOMAIN ledger.accepted] : r.repeated \subseteq r.latent}
  ELSE [latent : AtMostOne, regressions : AtMostOne,
        resolved : SUBSET DOMAIN ledger.open, repeated : {{}}]

FirstReview(report) ==
  LET open == Mint(report.latent \ report.repeated, "INITIAL")
  IN [ledger |-> [ledger EXCEPT !.open = open, !.late = 0, !.replacements = 0,
                                !.paths = [p \in PathsOf(DOMAIN open) |-> 1],
                                !.streaks = [i \in DOMAIN open |-> 1]],
      overflow |-> FALSE]

\* A draft at the place of an open finding counts for that finding.
Overlapping(drafts) == {i \in DOMAIN ledger.open : \E d \in drafts : d[2] = i[2]}
Fresh(drafts) == {d \in drafts : \A i \in DOMAIN ledger.open : d[2] # i[2]}

\* New findings outside the repair are taken once; later only those of a blocked category.
AdoptLate(report) == Fresh(report.latent) # {} /\ ledger.late < 1

\* Mutant: a late finding of a blocked category is advisory like any other.
AdoptedOnce(report) == IF AdoptLate(report) THEN Fresh(report.latent) ELSE {}

Adopted(report) ==
  IF AdoptLate(report) THEN Fresh(report.latent) ELSE {d \in Fresh(report.latent) : IsBlocked(d)}

Count(f, x) == IF x \in DOMAIN f THEN f[x] ELSE 0

RepairReview(report) ==
  LET unresolved == (DOMAIN ledger.open \ report.resolved)
                      \cup Overlapping(report.regressions \cup report.latent)
      regressions == Mint(Fresh(report.regressions), "REGRESSION")
      adopted == Mint(Adopted(report), "LATE_ADOPTED")
      all == Deduplicated(Keep(ledger.open, unresolved), Deduplicated(regressions, adopted))
      first == unresolved \cup DOMAIN regressions
      kept == IF Cardinality(DOMAIN all) <= MaxOpen THEN DOMAIN all
              ELSE CHOOSE s \in SUBSET DOMAIN all :
                     Cardinality(s) = MaxOpen /\ unresolved \subseteq s
                       /\ (s \subseteq first \/ first \subseteq s)
      replaced == unresolved = {} /\ DOMAIN regressions \cup DOMAIN adopted # {}
  IN [ledger |-> [ledger EXCEPT
        !.open = Keep(all, kept),
        !.late = IF AdoptLate(report) THEN @ + 1 ELSE @,
        !.replacements = IF replaced THEN @ + 1 ELSE 0,
        !.paths = [p \in PathsOf(kept) |-> Count(ledger.paths, p) + 1],
        !.streaks = [i \in kept |-> IF i \in DOMAIN ledger.open
                                    THEN Count(ledger.streaks, i) + 1 ELSE 1]],
      overflow |-> kept # DOMAIN all]

ApplyReview(report) ==
  IF ledger.open = Nothing THEN FirstReview(report) ELSE RepairReview(report)

\* The first impasse that applies to a ledger.
Impasse(l, overflow) ==
  CASE overflow -> "TOO_MANY_FINDINGS"
    [] ~overflow /\ (\E p \in DOMAIN l.paths : l.paths[p] >= 3) -> "REPEATED_PATH"
    [] ~overflow /\ (\A p \in DOMAIN l.paths : l.paths[p] < 3)
         /\ (\E i \in DOMAIN l.streaks : l.streaks[i] >= 3) -> "REPEATED_FINDING"
    [] OTHER -> IF l.replacements >= 2 THEN "REPLACEMENT_LOOP" ELSE "none"

-----------------------------------------------------------------------------
(* Acceptance *)

ClearOpen(l) ==
  [l EXCEPT !.open = Nothing, !.replacements = 0, !.paths = Nothing, !.streaks = Nothing]

\* The findings an acceptance takes: accepted ones first, at most MaxOpen of the newest.
ToAccept ==
  LET all == Deduplicated(ledger.accepted, ledger.open)
      newest == IF Cardinality(DOMAIN all) <= MaxOpen THEN DOMAIN all
                ELSE CHOOSE s \in SUBSET DOMAIN all :
                       Cardinality(s) = MaxOpen /\ DOMAIN all \ DOMAIN ledger.accepted \subseteq s
  IN Keep(all, newest)

\* The policy of an attended run.  Its risk is one the policy accepts.
WithinPolicy(findings) ==
  /\ Cardinality(DOMAIN findings) \in 1..MaxAccepted
  /\ ~work.report.regressed /\ ~work.report.blocked
  /\ \A i \in DOMAIN findings : ~IsBlocked(i)
AcceptableOrigins(findings) ==
  \A i \in DOMAIN findings : findings[i] \in {"INITIAL", "LATE_ADOPTED"}

MayAccept ==
  /\ ToAccept # Nothing
  /\ work.unattended \/ (WithinPolicy(ToAccept) /\ AcceptableOrigins(ToAccept))

Used(b) == work.attempts[b]
Limit(b) == IF b = "ci" THEN CIAttempts ELSE MaxAttempts

\* Why the controller would accept the open findings now.
Reason ==
  CASE work.impasse # "none" ->
         IF work.unattended \/ work.impasse \in {"REPEATED_PATH", "REPEATED_FINDING"}
         THEN "IMPASSE" ELSE "none"
    [] work.impasse = "none" /\ ledger.open # Nothing ->
         IF work.rounds[work.budget] >= MaxRounds THEN "ROUND_LIMIT"
         ELSE IF Used(work.budget) >= Limit(work.budget) THEN "BUDGET_LIMIT" ELSE "none"
    [] OTHER -> "none"

\* A publication needs an approving review, or an acceptance that still fits the ledger and is
\* a person's, or an unattended run's, or within the policy.
AuthorizesDelivery ==
  CASE work.report.none -> work.unattended /\ work.look
    [] ~work.report.none /\ work.acceptance.reason = "none" -> work.report.approved
    [] OTHER -> /\ work.acceptance.findings = ledger.accepted
                /\ \/ work.unattended \/ work.acceptance.reason = "OPERATOR"
                   \/ WithinPolicy(work.acceptance.findings)

NoAcceptance == [reason |-> "none", findings |-> Nothing]

-----------------------------------------------------------------------------
ReviewInit ==
  /\ ledger = [open |-> Nothing, accepted |-> Nothing, late |-> 0, replacements |-> 0,
               paths |-> Nothing, streaks |-> Nothing]
  /\ \E u \in BOOLEAN :
       work = [unattended |-> u, state |-> "IMPLEMENTING", budget |-> "implementation",
               rounds |-> [b \in Budgets |-> 0], attempts |-> [b \in Budgets |-> 0],
               acceptance |-> NoAcceptance, impasse |-> "none", stored |-> FALSE,
               report |-> [none |-> TRUE, approved |-> FALSE, regressed |-> FALSE,
                           blocked |-> FALSE],
               seen |-> FALSE, look |-> FALSE, halted |-> "", published |-> FALSE]
  /\ told = [owed |-> {}, persons |-> {}]
  /\ chances = MaxChances

Halt(w, why) == [w EXCEPT !.state = "NEEDS_HUMAN", !.halted = why]

\* An attempt that does not reach the review: it is counted, and the worktree has changed.
AttemptFails ==
  /\ work.state = "IMPLEMENTING" /\ Used(work.budget) < Limit(work.budget)
  /\ work' = [work EXCEPT !.attempts[work.budget] = @ + 1, !.acceptance = NoAcceptance,
                          !.seen = FALSE]
  /\ UNCHANGED <<ledger, told, chances>>

\* No attempt is left: an unattended run publishes as it is, or leaves its pull request open.
BudgetExhausted ==
  /\ work.state = "IMPLEMENTING" /\ Used(work.budget) >= Limit(work.budget)
  /\ work' =
       IF ~work.unattended THEN Halt(work, "budget")
       ELSE IF work.published THEN [work EXCEPT !.state = "DONE", !.look = TRUE]
       ELSE [work EXCEPT !.state = "PR_READY", !.look = TRUE, !.report.none = TRUE]
  /\ UNCHANGED <<ledger, told, chances>>

\* An attempt is verified and reviewed; the new ledger is saved before anything is decided.
Review(report) ==
  LET applied == ApplyReview(report)
      new == Fresh((report.latent \ report.repeated) \cup report.regressions)
      settled == report.resolved \ Overlapping(report.latent \cup report.regressions)
  IN /\ work.state = "IMPLEMENTING" /\ Used(work.budget) < Limit(work.budget)
     /\ ledger' = applied.ledger
     /\ work' = [work EXCEPT !.state = "REVIEWING", !.seen = TRUE, !.acceptance = NoAcceptance,
                             !.attempts[work.budget] = @ + 1, !.rounds[work.budget] = @ + 1,
                             !.impasse = IF ledger.open = Nothing THEN "none"
                                         ELSE Impasse(applied.ledger, applied.overflow),
                             !.report = [none |-> FALSE,
                                         approved |-> applied.ledger.open = Nothing,
                                         regressed |-> report.regressions # {},
                                         blocked |-> \E d \in report.latent : IsBlocked(d)]]
     /\ told' = [told EXCEPT
          !.owed = IF applied.overflow THEN {i \in @ \ settled : i \in DOMAIN ledger'.open}
                   ELSE (@ \ settled) \cup {i \in new : IsBlocked(i)}]
     /\ UNCHANGED chances

\* A limit or an impasse is reached and the findings may be accepted.
AcceptFindings ==
  /\ work.state = "REVIEWING" /\ Reason # "none" /\ MayAccept
  /\ ledger' = [ClearOpen(ledger) EXCEPT !.accepted = ToAccept]
  /\ work' = [work EXCEPT !.state = "PR_READY",
                          !.acceptance = [reason |-> Reason, findings |-> ToAccept],
                          !.look = @ \/ work.impasse \in {"TOO_MANY_FINDINGS", "REPLACEMENT_LOOP"}]
  /\ told' = [told EXCEPT !.owed = @ \ (DOMAIN ledger.accepted \ DOMAIN ToAccept)]
  /\ UNCHANGED chances

\* An impasse, or a limit whose findings may not be accepted: the impasse is stored.
HaltOnImpasse ==
  /\ work.state = "REVIEWING"
  /\ \/ Reason # "none" /\ ~MayAccept
     \/ Reason = "none" /\ work.impasse # "none"
  /\ work' = [Halt(work, "review") EXCEPT !.stored = TRUE]
  /\ UNCHANGED <<ledger, told, chances>>

\* Open findings and rounds left: the implementer repairs them.
RepairAgain ==
  /\ work.state = "REVIEWING" /\ Reason = "none" /\ work.impasse = "none"
  /\ ledger.open # Nothing
  /\ work' = [work EXCEPT !.state = "IMPLEMENTING"]
  /\ UNCHANGED <<ledger, told, chances>>

\* No open finding: what was accepted before is carried to the new tree.
ReviewPasses ==
  /\ work.state = "REVIEWING" /\ Reason = "none" /\ work.impasse = "none"
  /\ ledger.open = Nothing
  /\ ledger' = ClearOpen(ledger)
  /\ work' = [work EXCEPT !.state = "PR_READY",
                !.acceptance = IF ledger.accepted = Nothing THEN NoAcceptance
                               ELSE [reason |-> "CARRIED_FORWARD", findings |-> ledger.accepted]]
  /\ UNCHANGED <<told, chances>>

-----------------------------------------------------------------------------
(* Delivery and the person *)

\* An unattended run notes what an attended one would not have accepted.
BeyondPolicy ==
  /\ work.unattended /\ ~work.report.none /\ work.acceptance.reason # "none"
  /\ ~(WithinPolicy(work.acceptance.findings) /\ AcceptableOrigins(work.acceptance.findings))

Publish ==
  /\ work.state = "PR_READY"
  /\ work' = IF AuthorizesDelivery
             THEN [work EXCEPT !.state = "CI_RUNNING", !.published = TRUE,
                               !.look = @ \/ BeyondPolicy]
             ELSE Halt(work, "unauthorized")
  /\ UNCHANGED <<ledger, told, chances>>

CIPasses ==
  /\ work.state = "CI_RUNNING"
  /\ work' = [work EXCEPT !.state = "DONE"]
  /\ UNCHANGED <<ledger, told, chances>>

\* The repairs of CI share one budget; the ledger stays.
CIFails ==
  /\ work.state = "CI_RUNNING"
  /\ work' = IF Used("ci") < CIAttempts
             THEN [work EXCEPT !.state = "IMPLEMENTING", !.budget = "ci"]
             ELSE IF work.unattended THEN [work EXCEPT !.state = "DONE", !.look = TRUE]
             ELSE Halt(work, "ci")
  /\ UNCHANGED <<ledger, told, chances>>

\* An escalation starts new work: both budgets count anew and the reasons to look are dropped;
\* the ledger stays.
Escalate ==
  /\ work.state \in {"NEEDS_HUMAN", "DONE"}
  /\ chances > 0 /\ chances' = chances - 1
  /\ work' = [work EXCEPT !.state = "IMPLEMENTING", !.halted = "", !.budget = "implementation",
                          !.look = FALSE,
                          !.rounds = [b \in Budgets |-> 0], !.attempts = [b \in Budgets |-> 0]]
  /\ UNCHANGED <<ledger, told>>

\* A person accepts the open findings of the reviewed tree; the first of two saves.
PersonAccepts ==
  /\ work.state = "NEEDS_HUMAN" /\ work.stored /\ ledger.open # Nothing /\ work.seen
  /\ work' = [work EXCEPT !.state = "ACCEPTING", !.halted = "", !.look = TRUE,
                          !.acceptance = [reason |-> "OPERATOR", findings |-> ToAccept]]
  /\ ledger' = [ledger EXCEPT !.accepted = ToAccept]
  /\ told' = [owed |-> {}, persons |-> told.persons \cup DOMAIN ToAccept]
  /\ UNCHANGED chances

\* The second save clears the open findings; a crash before it leaves them open and accepted.
AcceptanceSaved ==
  /\ work.state = "ACCEPTING"
  /\ work' = [work EXCEPT !.state = "PR_READY"]
  /\ \/ ledger' = ClearOpen(ledger) /\ UNCHANGED chances
     \/ chances > 0 /\ chances' = chances - 1 /\ UNCHANGED ledger
  /\ UNCHANGED told

ReviewNext ==
  \/ \E report \in Reports : Review(report)
  \/ AttemptFails \/ BudgetExhausted
  \/ AcceptFindings \/ HaltOnImpasse \/ RepairAgain \/ ReviewPasses
  \/ Publish \/ CIPasses \/ CIFails \/ Escalate \/ PersonAccepts \/ AcceptanceSaved

ReviewSpec == ReviewInit /\ [][ReviewNext]_reviewVars

-----------------------------------------------------------------------------
(* Properties *)

\* What an attended run delivers without a person's look holds no finding of a blocked category
\* that the reviewer reported and never called resolved: not one reported late, beside a repair,
\* under a place that was accepted before, or before an escalation (workflow 2168).  Of more
\* findings than the ledger may hold, those that it drops are not owed.
SafetyFindingsNeedPerson ==
  work.published /\ work.state \in {"CI_RUNNING", "DONE"} /\ ~work.look => told.owed = {}

(* Promises of the documentation that the code does not keep: each can be refuted. *)

\* A run is not stopped at its publication for findings a person has accepted: a person's
\* acceptance passes the delivery check (ADR-059).  A CI repair carries it forward under
\* another reason, which the check does not exempt (workflow 2665).
PersonsAcceptancePasses ==
  work.halted = "unauthorized" => ~(DOMAIN ledger.accepted \subseteq told.persons)

\* The controller accepts no regression of a repair: only a person does (review_ledger 37).
\* The id of a finding that was accepted before hides the new origin.
RegressionsNeedPerson ==
  [][AcceptFindings /\ ~work.unattended =>
       \A i \in DOMAIN ledger.open : ledger.open[i] # "REGRESSION"]_reviewVars

=============================================================================
