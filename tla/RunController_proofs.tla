------------------------ MODULE RunController_proofs ------------------------
(***************************************************************************)
(* Theorems about RunController, for every bound, every set of trees and   *)
(* every configuration.                                                    *)
(***************************************************************************)
EXTENDS RunController, TLAPS

-----------------------------------------------------------------------------
(* Where the thread may be                                                 *)

\* The state of the run at each step of the thread.  An implementer call that is open belongs to
\* the budget of the context.
StepState ==
    /\ pc = "prepare" => state = "CREATED"
    /\ pc \in {"triage", "route", "gate"} => state = "TRIAGING"
    /\ pc \in {"synthesize", "plan", "replan"} => state = "PLANNING"
    /\ pc \in {"select", "agent", "reverify", "as_is"} => state = "IMPLEMENTING"
    /\ pc \in {"verify", "scope"} => state = "VERIFYING"
    /\ pc \in {"review", "decide", "impasse"} => state = "REVIEWING"
    /\ pc \in {"ready", "publish", "publish_scope", "receipt", "branch", "push", "open",
               "published", "created"} => state = "PR_READY"
    /\ pc = "ci" => state \in {"PR_CREATED", "CI_RUNNING", "CI_DIAGNOSIS"}
    /\ pc \in {"observe", "verdict", "finish", "merged"} => state = "CI_RUNNING"
    /\ pc \in {"diagnose", "repair"} => state = "CI_DIAGNOSIS"
    /\ pc \in {"count", "restart"} => state \notin DeliveryStates \cup Terminal
    /\ pc = "agent" => unrecorded = ctx.budget

\* Every step keeps the agreement of the thread's next step with the state of the run.
LEMMA StepStateKept == StepState /\ [Next]_vars => StepState'
<1> SUFFICES ASSUME StepState, [Next]_vars PROVE StepState'
  OBVIOUS
<1>1. CASE Prepare
  BY <1>1 DEF StepState, Prepare, Move, Continue, NeedsHuman, End, Fails, life
<1>2. CASE Triage
  BY <1>2 DEF StepState, Triage, Goto, Fails, End, life
<1>3. CASE DecideRoute
  BY <1>3 DEF StepState, DecideRoute, Goto, life
<1>4. CASE Gate
  BY <1>4 DEF StepState, Gate, Move, Continue, NeedsHuman, End, life
<1>5. CASE Synthesize
  BY <1>5 DEF StepState, Synthesize, Continue, life
<1>6. CASE Plan
  BY <1>6 DEF StepState, Plan, Continue, NeedsHuman, End, Fails, life
<1>7. CASE BudgetEnds
  BY <1>7 DEF StepState, BudgetEnds, Goto, NeedsHuman, End, life
<1>8. CASE StartAttempt
  BY <1>8 DEF StepState, StartAttempt, Goto, Fails, End, life
<1>9. CASE ImplementerReturns
  BY <1>9 DEF StepState, ImplementerReturns, Continue, life
<1>10. CASE VerifyFails
  BY <1>10 DEF StepState, VerifyFails, Move, Continue, life
<1>11. CASE VerifyPasses
  BY <1>11 DEF StepState, VerifyPasses, Continue, Move, life
<1>12. CASE ScopeReplan
  BY <1>12 DEF StepState, ScopeReplan, Move, Continue, NeedsHuman, End, life
<1>13. CASE ScopeHalts
  BY <1>13 DEF StepState, ScopeHalts, NeedsHuman, End, life
<1>14. CASE Replan
  BY <1>14 DEF StepState, Replan, Move, Continue, Fails, End, life
<1>15. CASE ScopePasses
  BY <1>15 DEF StepState, ScopePasses, Continue, Move, life
<1>16. CASE Reverify
  BY <1>16 DEF StepState, Reverify, Move, Continue, life
<1>17. CASE SkipReview
  BY <1>17 DEF StepState, SkipReview, Continue, life
<1>18. CASE Review
  BY <1>18 DEF StepState, Review, Fails, End, life
<1>19. CASE AcceptFindings
  BY <1>19 DEF StepState, AcceptFindings, Move, Continue, life
<1>20. CASE KeepImpasse
  BY <1>20 DEF StepState, KeepImpasse, Goto, life
<1>21. CASE HaltOnImpasse
  BY <1>21 DEF StepState, HaltOnImpasse, NeedsHuman, End, life
<1>22. CASE RepairFindings
  BY <1>22 DEF StepState, RepairFindings, Move, Continue, life
<1>23. CASE Approve
  BY <1>23 DEF StepState, Approve, Move, Continue, life
<1>24. CASE PublishAsIs
  BY <1>24 DEF StepState, PublishAsIs, Continue, Stop, Goto, NeedsHuman, End, life
<1>25. CASE Ready
  BY <1>25 DEF StepState, Ready, Goto, life
<1>26. CASE ReviewedEvidence
  BY <1>26 DEF StepState, ReviewedEvidence, Goto, Stop, NeedsHuman, End, life
<1>27. CASE PublishScope
  BY <1>27 DEF StepState, PublishScope, Goto, NeedsHuman, End, Stop, life
<1>28. CASE RecordCommit
  BY <1>28 DEF StepState, RecordCommit, Goto, Stop, NeedsHuman, End, life
<1>29. CASE MoveBranch
  BY <1>29 DEF StepState, MoveBranch, Goto, life
<1>30. CASE Push
  BY <1>30 DEF StepState, Push, Goto, Stop, NeedsHuman, End, life
<1>31. CASE OpenPullRequest
  BY <1>31 DEF StepState, OpenPullRequest, Goto, Stop, NeedsHuman, End, life
<1>32. CASE SavePublished
  BY <1>32 DEF StepState, SavePublished, Goto, life
<1>33. CASE PullRequestCreated
  BY <1>33 DEF StepState, PullRequestCreated, Move, Continue, AfterPublication, life
<1>34. CASE LeaveOpen
  BY <1>34 DEF StepState, LeaveOpen, End, Raises, life
<1>35. CASE WatchCI
  BY <1>35 DEF StepState, WatchCI, Move, Continue, Raises, life
<1>36. CASE Observe
  BY <1>36 DEF StepState, Observe, Goto, Stop, NeedsHuman, End, life
<1>37. CASE Verdict
  BY <1>37 DEF StepState, Verdict, Goto, Move, Continue, Stop, NeedsHuman, End, life
<1>38. CASE Diagnose
  BY <1>38 DEF StepState, Diagnose, Goto, Stop, NeedsHuman, End, life
<1>39. CASE RepairCI
  BY <1>39 DEF StepState, RepairCI, Continue, life
<1>40. CASE Finish
  BY <1>40 DEF StepState, Finish, Goto, Stop, NeedsHuman, End, life
<1>41. CASE SaveMerge
  BY <1>41 DEF StepState, SaveMerge, Goto, life
<1>42. CASE RecoverAbandoned
  BY <1>42 DEF StepState, RecoverAbandoned, NeedsHuman, End, life
<1>43. CASE CountRestart
  BY <1>43 DEF StepState, CountRestart, Interrupted, is_run_finished, Goto, life
<1>44. CASE CountInterruptedAttempt
  BY <1>44 DEF StepState, CountInterruptedAttempt, Goto, life
<1>45. CASE EndRestarted
  BY <1>45 DEF StepState, EndRestarted, Continue, NeedsHuman, End, life
<1>46. CASE RestartFromScratch
  BY <1>46 DEF StepState, RestartFromScratch, Continue, life
<1>47. CASE RestartAtPlanning
  BY <1>47 DEF StepState, RestartAtPlanning, Continue, life
<1>48. CASE RestartFails
  BY <1>48 DEF StepState, RestartFails, StopInterrupted, Goto, NeedsHuman, End, life
<1>49. CASE ResumeDelivery
  BY <1>49 DEF StepState, ResumeDelivery, StopInterrupted, Goto, NeedsHuman, End,
    AfterPublication, DeliveryStates, life
<1>50. CASE ReopenAtPlanning
  BY <1>50 DEF StepState, ReopenAtPlanning, Reopened, Continue, life
<1>51. CASE ReopenDeliveryRetry
  BY <1>51 DEF StepState, ReopenDeliveryRetry, Reopened, Continue, life
<1>52. CASE ReopenAttemptGrant
  BY <1>52 DEF StepState, ReopenAttemptGrant, Reopened, Continue, life
<1>53. CASE ReopenFindingsAcceptance
  BY <1>53 DEF StepState, ReopenFindingsAcceptance, Reopened, Continue, life
<1>54. CASE ReopenScopeApproval
  BY <1>54 DEF StepState, ReopenScopeApproval, Reopened, Continue, life
<1>55. CASE ReopenCIRepairRetry
  BY <1>55 DEF StepState, ReopenCIRepairRetry, Reopened, Continue, life
<1>56. CASE FailReopen
  BY <1>56 DEF StepState, FailReopen, life
<1>57. CASE Escalate
  BY <1>57 DEF StepState, Escalate, Continue, life
<1>58. CASE StopRequested
  BY <1>58 DEF StepState, StopRequested, NeedsHuman, End, life
<1>59. CASE Interrupt
  BY <1>59 DEF StepState, Interrupt, life
<1>60. CASE EditWorktree
  BY <1>60 DEF StepState, EditWorktree, life
<1>61. CASE UNCHANGED vars
  BY <1>61 DEF StepState, vars, life, attempts
<1>62. CASE RepairDiffFails
  BY <1>62 DEF StepState, RepairDiffFails, NeedsHuman, End, life
<1> QED
  BY <1>1, <1>2, <1>3, <1>4, <1>5, <1>6, <1>7, <1>8, <1>9, <1>10, <1>11, <1>12, <1>13, <1>14,
     <1>15, <1>16, <1>17, <1>18, <1>19, <1>20, <1>21, <1>22, <1>23, <1>24, <1>25, <1>26, <1>27,
     <1>28, <1>29, <1>30, <1>31, <1>32, <1>33, <1>34, <1>35, <1>36, <1>37, <1>38, <1>39, <1>40,
     <1>41, <1>42, <1>43, <1>44, <1>45, <1>46, <1>47, <1>48, <1>49, <1>50, <1>51, <1>52, <1>53,
     <1>54, <1>55, <1>56, <1>57, <1>58, <1>59, <1>60,
     <1>61, <1>62 DEF Next, Work, Deliver, Recover, Person

\* The thread and the persisted run agree at every step: the implementer is only called in
\* IMPLEMENTING, on the budget the next record is charged to, only a PR_READY run is published, and
\* a restart only touches a run before its delivery.
THEOREM StepStateCorrect == Spec => []StepState
<1>1. Init => StepState
  BY DEF Init, StepState
<1> QED BY <1>1, StepStateKept, PTL DEF Spec

-----------------------------------------------------------------------------
(* Typing *)

\* What an action leaves unchanged keeps its type.
LEMMA UnchangedTypes ==
    /\ LifeType /\ UNCHANGED life => LifeType'
    /\ RouteType /\ UNCHANGED routing => RouteType'
    /\ AttemptType /\ UNCHANGED attempts => AttemptType'
    /\ CountType /\ UNCHANGED counts => CountType'
    /\ LedgerType /\ UNCHANGED ledger => LedgerType'
    /\ ReceiptType /\ UNCHANGED receipt => ReceiptType'
    /\ StoredType /\ UNCHANGED stored => StoredType'
    /\ RepoType /\ UNCHANGED repo => RepoType'
    /\ ThreadType /\ UNCHANGED <<pc, ctx>> => ThreadType'
    /\ LimitType /\ UNCHANGED limits => LimitType'
<1>1. LifeType /\ UNCHANGED life => LifeType'
  BY DEF LifeType, life
<1>2. RouteType /\ UNCHANGED routing => RouteType'
  BY DEF RouteType, routing
<1>3. AttemptType /\ UNCHANGED attempts => AttemptType'
  BY DEF AttemptType, attempts
<1>4. CountType /\ UNCHANGED counts => CountType'
  BY DEF CountType, counts
<1>5. LedgerType /\ UNCHANGED ledger => LedgerType'
  BY DEF LedgerType, ledger
<1>6. ReceiptType /\ UNCHANGED receipt => ReceiptType'
  BY DEF ReceiptType, receipt
<1>7. StoredType /\ UNCHANGED stored => StoredType'
  BY DEF StoredType, stored
<1>8. RepoType /\ UNCHANGED repo => RepoType'
  BY DEF RepoType, repo
<1>9. ThreadType /\ UNCHANGED <<pc, ctx>> => ThreadType'
  BY DEF ThreadType
<1>10. LimitType /\ UNCHANGED limits => LimitType'
  BY DEF LimitType, limits
<1> QED BY <1>1, <1>2, <1>3, <1>4, <1>5, <1>6, <1>7, <1>8, <1>9, <1>10

\* A halt is either resumable in one of the known ways or not at all (classify_halt_reason).
LEMMA ClassifyType == \A why : Classify(why) \in ResumeClasses \cup {"NOT_RESUMABLE"}
  BY DEF Classify, ResumeClasses

\* The operators that end a step leave a well-typed run and thread.
LEMMA GotoTypes ==
  ASSUME ThreadType, NEW step \in Steps, Goto(step)
  PROVE  ThreadType'
  BY DEF ThreadType, Goto

\* The same for a step that moves the run.
LEMMA ContinueTypes ==
  ASSUME NEW s \in States \ Terminal, NEW step \in Steps, NEW c \in Contexts, Continue(s, step, c)
  PROVE  LifeType' /\ ThreadType'
  BY DEF LifeType, ThreadType, Continue, NoHalt

\* A fresh RunContext is a context.
LEMMA NoContextType == NoContext \in Contexts
  BY DEF NoContext, Contexts, Tree, Budgets

\* stored_context rebuilds a context from well-typed artifacts.
LEMMA RestoredType ==
  ASSUME TypeOK
  PROVE  RestoredContext \in Contexts
  BY NoContextType DEF TypeOK, RestoredContext, Contexts, RepoType, StoredType, AttemptType, Tree

\* A run that ends is typed, and carries its halt and its completion stamp.
LEMMA EndTypes ==
  ASSUME LifeType, NEW s \in Terminal, NEW why \in Reasons, End(s, why)
  PROVE  LifeType' /\ ThreadType'
<1>1. LifeType'
  <2>1. state' \in States /\ completed' \in BOOLEAN /\ state' \in Terminal
    BY DEF End, States
  <2>2. halt' \in [reason : Reasons \cup {"none"},
                   class : ResumeClasses \cup {"NOT_RESUMABLE", "none"},
                   from : States \cup {"none"}]
    BY ClassifyType DEF LifeType, End, NoHalt
  <2> QED BY <2>1, <2>2 DEF LifeType
<1>2. ThreadType'
  BY NoContextType DEF End, ThreadType, Steps
<1> QED BY <1>1, <1>2

\* A halt for a person is such an end.
LEMMA NeedsHumanTypes ==
  ASSUME LifeType, needsLook \in BOOLEAN, NEW why \in Reasons, NeedsHuman(why)
  PROVE  LifeType' /\ ThreadType' /\ needsLook' \in BOOLEAN
  BY EndTypes DEF NeedsHuman, Terminal

\* So is a failure.
LEMMA FailsTypes ==
  ASSUME LifeType, needsLook \in BOOLEAN, Fails
  PROVE  LifeType' /\ ThreadType' /\ needsLook' \in BOOLEAN
  BY EndTypes DEF Fails, Terminal, Reasons

\* _stop either halts for a person or flags the open pull request and goes on to leave it.
LEMMA StopTypes ==
  ASSUME LifeType, ThreadType, needsLook \in BOOLEAN, NEW why \in Reasons, Stop(why)
  PROVE  LifeType' /\ ThreadType' /\ needsLook' \in BOOLEAN
  BY NeedsHumanTypes, GotoTypes, UnchangedTypes DEF Stop, Steps

\* Every variable of a run keeps its type, and only a terminal run or a local one that is ready
\* carries a completion stamp: transition, restart_at and transition_reopened clear it.
THEOREM TypeCorrect == Spec => []TypeOK
<1>1. Init => TypeOK
  <2> SUFFICES ASSUME Init PROVE TypeOK
    OBVIOUS
  <2>1. LifeType /\ ThreadType
    BY NoContextType DEF Init, LifeType, ThreadType, NoHalt, States, Steps
  <2>2. AttemptType /\ CountType /\ LimitType
    BY DEF Init, AttemptType, CountType, LimitType, Tree
  <2>3. LedgerType /\ RouteType /\ needsLook \in BOOLEAN
    BY DEF Init, LedgerType, RouteType, NoAcceptance, Tree
  <2>4. ReceiptType /\ StoredType /\ RepoType
    BY TreeAssumption DEF Init, ReceiptType, StoredType, RepoType, Tree
  <2> QED BY <2>1, <2>2, <2>3, <2>4 DEF TypeOK
<1>2. TypeOK /\ StepState /\ [Next]_vars => TypeOK'
  <2> SUFFICES ASSUME TypeOK, StepState, [Next]_vars PROVE TypeOK'
    OBVIOUS
  <2>1. CASE Prepare
    <3>1. LifeType' /\ ThreadType' /\ needsLook' \in BOOLEAN
      BY <2>1, ContinueTypes, NeedsHumanTypes, FailsTypes, UnchangedTypes DEF TypeOK, Prepare,
         Move, ThreadType, Steps, States, Terminal, DeliveryStates, Reasons
    <3> QED
      BY <2>1, <3>1, UnchangedTypes DEF TypeOK, Prepare
  <2>2. CASE Triage
    <3>1. LifeType' /\ ThreadType' /\ needsLook' \in BOOLEAN
      BY <2>2, FailsTypes, GotoTypes, UnchangedTypes DEF TypeOK, Triage, ThreadType, Steps,
         States, Terminal, DeliveryStates, Reasons
    <3>2. AttemptType'
      BY <2>2, TreeAssumption DEF TypeOK, Triage, OtherAgentCalled, AttemptType, attempts,
         Budgets, ThreadType, Contexts, Tree
    <3>3. StoredType'
      BY <2>2, TreeAssumption DEF TypeOK, Triage, Verdicts, StoredType, stored, RepoType, Tree,
         ThreadType, Contexts
    <3> QED
      BY <2>2, <3>1, <3>2, <3>3, UnchangedTypes DEF TypeOK, Triage
  <2>3. CASE DecideRoute
    <3>1. LifeType' /\ ThreadType' /\ needsLook' \in BOOLEAN
      BY <2>3, GotoTypes, UnchangedTypes DEF TypeOK, DecideRoute, ThreadType, Steps, States,
         Terminal, DeliveryStates, Reasons
    <3>2. RouteType'
      BY <2>3, TreeAssumption DEF TypeOK, DecideRoute, RoutesPicked, RouteType, routing, Routes,
           EffectiveRoute
    <3> QED
      BY <2>3, <3>1, <3>2, UnchangedTypes DEF TypeOK, DecideRoute
  <2>4. CASE Gate
    <3>1. LifeType' /\ ThreadType' /\ needsLook' \in BOOLEAN
      <4>1. CASE TriageGate # "none"
        BY <2>4, <4>1, NeedsHumanTypes DEF TypeOK, Gate, TriageGate, Reasons
      <4>2. CASE TriageGate = "none"
        BY <2>4, <4>2, ContinueTypes DEF TypeOK, Gate, Move, ThreadType, Steps, States, Terminal
      <4> QED BY <4>1, <4>2
    <3> QED
      BY <2>4, <3>1, UnchangedTypes DEF TypeOK, Gate
  <2>5. CASE Synthesize
    <3>1. LifeType' /\ ThreadType' /\ needsLook' \in BOOLEAN
      BY <2>5, ContinueTypes, NoContextType, UnchangedTypes DEF TypeOK, Synthesize, ThreadType,
         Steps, States, Terminal, DeliveryStates, Reasons
    <3>2. StoredType'
      BY <2>5, TreeAssumption DEF TypeOK, Synthesize, SynthesizedPlan, StoredType, stored,
         RepoType, Tree, ThreadType, Contexts
    <3> QED
      BY <2>5, <3>1, <3>2, UnchangedTypes DEF TypeOK, Synthesize
  <2>6. CASE Plan
    <3>1. LifeType' /\ ThreadType' /\ needsLook' \in BOOLEAN
      BY <2>6, ContinueTypes, NoContextType, NeedsHumanTypes, FailsTypes, UnchangedTypes
         DEF TypeOK, Plan, ThreadType, Steps, States, Terminal, DeliveryStates, Reasons
    <3>2. AttemptType'
      BY <2>6, TreeAssumption DEF TypeOK, Plan, OtherAgentCalled, AttemptType, attempts,
         Budgets, ThreadType, Contexts, Tree
    <3>3. StoredType'
      BY <2>6, TreeAssumption DEF TypeOK, Plan, PlansMade, StoredType, stored, RepoType, Tree,
         ThreadType, Contexts
    <3> QED
      BY <2>6, <3>1, <3>2, <3>3, UnchangedTypes DEF TypeOK, Plan
  <2>7. CASE BudgetEnds
    <3>1. LifeType' /\ ThreadType' /\ needsLook' \in BOOLEAN
      <4>1. CASE Unattended
        BY <2>7, <4>1, GotoTypes, UnchangedTypes DEF TypeOK, BudgetEnds, Steps
      <4>2. CASE ~Unattended /\ ctx.budget = "CI_REPAIR"
        BY <2>7, <4>2, NeedsHumanTypes DEF TypeOK, BudgetEnds, Reasons, CIReasons
      <4>3. CASE ~Unattended /\ ctx.budget # "CI_REPAIR"
        BY <2>7, <4>3, NeedsHumanTypes DEF TypeOK, BudgetEnds, Reasons
      <4> QED BY <4>1, <4>2, <4>3
    <3> QED
      BY <2>7, <3>1, UnchangedTypes DEF TypeOK, BudgetEnds
  <2>8. CASE StartAttempt
    <3>1. LifeType' /\ ThreadType' /\ needsLook' \in BOOLEAN
      BY <2>8, FailsTypes, GotoTypes, UnchangedTypes DEF TypeOK, StartAttempt, ThreadType,
         Steps, States, Terminal, DeliveryStates, Reasons
    <3>2. AttemptType'
      <4>1. ctx.budget \in Budgets
        BY DEF TypeOK, ThreadType, Contexts
      <4>2. calls \in [Budgets -> Nat] => [calls EXCEPT ![ctx.budget] = @ + 1] \in [Budgets -> Nat]
        BY <4>1
      <4> QED BY <2>8, <4>1, <4>2 DEF TypeOK, StartAttempt, AttemptType
    <3>3. LedgerType'
      BY <2>8, TreeAssumption DEF TypeOK, StartAttempt, LedgerType, ledger, ThreadType,
         Contexts, Tree, NoAcceptance, RepoType
    <3> QED
      BY <2>8, <3>1, <3>2, <3>3, UnchangedTypes DEF TypeOK, StartAttempt
  <2>9. CASE ImplementerReturns
    <3>1. LifeType' /\ ThreadType' /\ needsLook' \in BOOLEAN
      <4> DEFINE c == [ctx EXCEPT !.evidence = workTree', !.polish = FALSE]
      <4>1. c \in Contexts /\ [c EXCEPT !.generated = FALSE] \in Contexts
        BY <2>9 DEF TypeOK, ImplementerReturns, ThreadType, Contexts, Tree
      <4> HIDE DEF c
      <4>2. CASE Continue("VERIFYING", "verify", [c EXCEPT !.generated = FALSE])
        BY <2>9, <4>1, <4>2, ContinueTypes DEF TypeOK, ImplementerReturns, Steps, States, Terminal
      <4>3. CASE pc' = "select" /\ ctx' = c /\ UNCHANGED life
        BY <2>9, <4>1, <4>3, UnchangedTypes DEF TypeOK, ImplementerReturns, ThreadType, Steps
      <4> QED BY <2>9, <4>2, <4>3 DEF ImplementerReturns, c
    <3>2. AttemptType'
      BY <2>9, TreeAssumption DEF TypeOK, ImplementerReturns, RecordAttempt, AttemptType,
         attempts, Budgets, ThreadType, Contexts, Tree
    <3>3. StoredType'
      BY <2>9, TreeAssumption DEF TypeOK, ImplementerReturns, StoredType, stored, RepoType,
         Tree, ThreadType, Contexts
    <3>4. RepoType'
      BY <2>9, TreeAssumption DEF TypeOK, ImplementerReturns, RepoType, repo, ReceiptType, Tree,
         StoredType
    <3> QED
      BY <2>9, <3>1, <3>2, <3>3, <3>4, UnchangedTypes DEF TypeOK, ImplementerReturns
  <2>10. CASE VerifyFails
    <3>1. LifeType' /\ ThreadType' /\ needsLook' \in BOOLEAN
      BY <2>10, ContinueTypes, UnchangedTypes DEF TypeOK, VerifyFails, Move, ThreadType, Steps,
         States, Terminal, DeliveryStates, Reasons
    <3>2. RouteType'
      BY <2>10, TreeAssumption DEF TypeOK, VerifyFails, Ratchet, RouteType, routing, Routes,
         EffectiveRoute
    <3>3. StoredType'
      BY <2>10, TreeAssumption DEF TypeOK, VerifyFails, StoredType, stored, RepoType, Tree,
         ThreadType, Contexts
    <3> QED
      BY <2>10, <3>1, <3>2, <3>3, UnchangedTypes DEF TypeOK, VerifyFails
  <2>11. CASE VerifyPasses
    <3>1. LifeType' /\ ThreadType' /\ needsLook' \in BOOLEAN
      <4> DEFINE c == [ctx EXCEPT !.evidence = workTree', !.generated = TRUE]
      <4>1. workTree' \in Trees => c \in Contexts
        BY DEF TypeOK, ThreadType, Contexts, Tree
      <4> HIDE DEF c
      <4>2. CASE Move("VERIFYING", "scope")
        BY <2>11, <4>2, ContinueTypes
           DEF TypeOK, VerifyPasses, Move, ThreadType, Steps, States, Terminal
      <4>3. CASE workTree' \in Trees /\ Continue("IMPLEMENTING", "select", c)
        BY <2>11, <4>1, <4>3, ContinueTypes DEF TypeOK, VerifyPasses, Steps, States, Terminal
      <4> QED BY <2>11, <4>2, <4>3 DEF VerifyPasses, c
    <3>2. StoredType'
      BY <2>11, TreeAssumption DEF TypeOK, VerifyPasses, StoredType, stored, RepoType, Tree,
         ThreadType, Contexts
    <3>3. RepoType'
      BY <2>11, TreeAssumption DEF TypeOK, VerifyPasses, RepoType, repo, ReceiptType, Tree,
         StoredType
    <3> QED
      BY <2>11, <3>1, <3>2, <3>3, UnchangedTypes DEF TypeOK, VerifyPasses
  <2>12. CASE ScopeReplan
    <3>1. LifeType' /\ ThreadType' /\ needsLook' \in BOOLEAN
      BY <2>12, ContinueTypes, NeedsHumanTypes, UnchangedTypes DEF TypeOK, ScopeReplan, Move,
         ThreadType, Steps, States, Terminal, DeliveryStates, Reasons
    <3>2. RouteType'
      BY <2>12, TreeAssumption DEF TypeOK, ScopeReplan, MayRatchet, Ratchet, RouteType, routing,
         Routes, EffectiveRoute
    <3> QED
      BY <2>12, <3>1, <3>2, UnchangedTypes DEF TypeOK, ScopeReplan
  <2>13. CASE ScopeHalts
    <3>1. LifeType' /\ ThreadType' /\ needsLook' \in BOOLEAN
      BY <2>13, NeedsHumanTypes, UnchangedTypes DEF TypeOK, ScopeHalts, ThreadType, Steps,
         States, Terminal, DeliveryStates, Reasons
    <3>2. RouteType'
      BY <2>13, TreeAssumption DEF TypeOK, ScopeHalts, MayRatchet, Ratchet, RouteType, routing,
         Routes, EffectiveRoute
    <3> QED
      BY <2>13, <3>1, <3>2, UnchangedTypes DEF TypeOK, ScopeHalts
  <2>14. CASE Replan
    <3>1. LifeType' /\ ThreadType' /\ needsLook' \in BOOLEAN
      BY <2>14, ContinueTypes, FailsTypes, UnchangedTypes DEF TypeOK, Replan, Move, ThreadType,
         Steps, States, Terminal, DeliveryStates, Reasons
    <3>2. AttemptType'
      BY <2>14, TreeAssumption DEF TypeOK, Replan, OtherAgentCalled, AttemptType, attempts,
         Budgets, ThreadType, Contexts, Tree
    <3>3. CountType'
      BY <2>14, TreeAssumption DEF TypeOK, Replan, CountType, counts
    <3> QED
      BY <2>14, <3>1, <3>2, <3>3, UnchangedTypes DEF TypeOK, Replan
  <2>15. CASE ScopePasses
    <3>1. LifeType' /\ ThreadType' /\ needsLook' \in BOOLEAN
      <4> DEFINE c == [ctx EXCEPT !.polish = TRUE, !.polished = TRUE]
      <4>1. c \in Contexts
        BY DEF TypeOK, ThreadType, Contexts
      <4> HIDE DEF c
      <4>2. CASE Continue("IMPLEMENTING", "select", c)
        BY <2>15, <4>1, <4>2, ContinueTypes DEF TypeOK, ScopePasses, Steps, States, Terminal
      <4>3. CASE Move("REVIEWING", "review")
        BY <2>15, <4>3, ContinueTypes
           DEF TypeOK, ScopePasses, Move, ThreadType, Steps, States, Terminal
      <4> QED BY <2>15, <4>2, <4>3 DEF ScopePasses, c
    <3>2. RouteType'
      BY <2>15, TreeAssumption DEF TypeOK, ScopePasses, Ratchet, MayRatchet, RouteType, routing,
         Routes, EffectiveRoute
    <3> QED
      BY <2>15, <3>1, <3>2, UnchangedTypes DEF TypeOK, ScopePasses
  <2>16. CASE Reverify
    <3>1. LifeType' /\ ThreadType' /\ needsLook' \in BOOLEAN
      BY <2>16, ContinueTypes, UnchangedTypes DEF TypeOK, Reverify, Move, ThreadType, Steps,
         States, Terminal, DeliveryStates, Reasons
    <3> QED
      BY <2>16, <3>1, UnchangedTypes DEF TypeOK, Reverify
  <2>17. CASE SkipReview
    <3>1. LifeType' /\ ThreadType' /\ needsLook' \in BOOLEAN
      <4>1. [ctx EXCEPT !.review = "skipped"] \in Contexts
        BY DEF TypeOK, ThreadType, Contexts
      <4> QED BY <2>17, <4>1, ContinueTypes
              DEF TypeOK, SkipReview, Steps, States, Terminal, DeliveryStates
    <3>2. RouteType'
      BY <2>17, TreeAssumption DEF TypeOK, SkipReview, EnterReview, Ratchet, RouteType, routing,
         Routes, EffectiveRoute
    <3>3. AttemptType'
      BY <2>17, TreeAssumption DEF TypeOK, SkipReview, RecordReviewedTree, AttemptType,
         attempts, Budgets, ThreadType, Contexts, Tree
    <3>4. StoredType'
      BY <2>17, TreeAssumption DEF TypeOK, SkipReview, StoredType, stored, RepoType, Tree,
         ThreadType, Contexts
    <3> QED
      BY <2>17, <3>1, <3>2, <3>3, <3>4, UnchangedTypes DEF TypeOK, SkipReview
  <2>18. CASE Review
    <3>1. LifeType' /\ ThreadType' /\ needsLook' \in BOOLEAN
      <4>1. CASE Fails
        BY <2>18, <4>1, FailsTypes DEF TypeOK
      <4>2. CASE ~Fails
        <5>1. PICK i \in {"none", "repeated", "other"} :
                 ctx' = [ctx EXCEPT !.review = reviewReport', !.impasse = i]
          BY <2>18, <4>2 DEF Review
        <5>2. reviewReport' \in {"approved", "rejected"}
          BY <2>18, <4>2 DEF Review
        <5>3. ctx' \in Contexts
          BY <5>1, <5>2 DEF TypeOK, ThreadType, Contexts
        <5> QED BY <2>18, <4>2, <5>3, UnchangedTypes DEF TypeOK, Review, ThreadType, Steps
      <4> QED BY <4>1, <4>2
    <3>2. RouteType'
      BY <2>18, TreeAssumption DEF TypeOK, Review, EnterReview, Ratchet, RouteType, routing,
         Routes, EffectiveRoute
    <3>3. AttemptType'
      <4>1. ctx.budget \in Budgets /\ ctx.evidence \in Tree
        BY DEF TypeOK, ThreadType, Contexts
      <4>2. CASE RecordReviewedTree
        <5>1. lastTree' \in Tree /\ rounds' \in [Budgets -> Nat]
          BY <4>1, <4>2 DEF TypeOK, RecordReviewedTree, AttemptType
        <5> QED BY <2>18, <4>2, <5>1 DEF TypeOK, Review, RecordReviewedTree, AttemptType
      <4>3. CASE ~RecordReviewedTree
        BY <2>18, <4>3 DEF TypeOK, Review, AttemptType
      <4> QED BY <4>2, <4>3
    <3>4. LedgerType'
      BY <2>18, TreeAssumption DEF TypeOK, Review, FindingsReported, LedgerType, ledger,
         ThreadType, Contexts, Tree, NoAcceptance, RepoType
    <3>5. StoredType'
      <4>1. reviewReport' \in {reviewReport, "approved", "rejected"}
        BY <2>18 DEF Review
      <4>2. UNCHANGED <<triage, plan, verified, patch, impasse, ciReport>>
        BY <2>18 DEF Review
      <4> QED BY <4>1, <4>2 DEF TypeOK, StoredType, Tree
    <3> QED
      BY <2>18, <3>1, <3>2, <3>3, <3>4, <3>5, UnchangedTypes DEF TypeOK, Review
  <2>19. CASE AcceptFindings
    <3>1. LifeType' /\ ThreadType' /\ needsLook' \in BOOLEAN
      BY <2>19, ContinueTypes, UnchangedTypes DEF TypeOK, AcceptFindings, Move, ThreadType,
         Steps, States, Terminal, DeliveryStates, Reasons
    <3>2. LedgerType'
      BY <2>19, TreeAssumption DEF TypeOK, AcceptFindings, LedgerType, ledger, ThreadType,
         Contexts, Tree, NoAcceptance, RepoType
    <3> QED
      BY <2>19, <3>1, <3>2, UnchangedTypes DEF TypeOK, AcceptFindings
  <2>20. CASE KeepImpasse
    <3>1. LifeType' /\ ThreadType' /\ needsLook' \in BOOLEAN
      BY <2>20, GotoTypes, UnchangedTypes DEF TypeOK, KeepImpasse, ThreadType, Steps, States,
         Terminal, DeliveryStates, Reasons
    <3>2. StoredType'
      BY <2>20, TreeAssumption DEF TypeOK, KeepImpasse, StoredType, stored, RepoType, Tree,
         ThreadType, Contexts
    <3> QED
      BY <2>20, <3>1, <3>2, UnchangedTypes DEF TypeOK, KeepImpasse
  <2>21. CASE HaltOnImpasse
    <3>1. LifeType' /\ ThreadType' /\ needsLook' \in BOOLEAN
      BY <2>21, NeedsHumanTypes, UnchangedTypes DEF TypeOK, HaltOnImpasse, ThreadType, Steps,
         States, Terminal, DeliveryStates, Reasons
    <3> QED
      BY <2>21, <3>1, UnchangedTypes DEF TypeOK, HaltOnImpasse
  <2>22. CASE RepairFindings
    <3>1. LifeType' /\ ThreadType' /\ needsLook' \in BOOLEAN
      BY <2>22, ContinueTypes, UnchangedTypes DEF TypeOK, RepairFindings, Move, ThreadType,
         Steps, States, Terminal, DeliveryStates, Reasons
    <3> QED
      BY <2>22, <3>1, UnchangedTypes DEF TypeOK, RepairFindings
  <2>23. CASE Approve
    <3>1. LifeType' /\ ThreadType' /\ needsLook' \in BOOLEAN
      BY <2>23, ContinueTypes, UnchangedTypes DEF TypeOK, Approve, Move, ThreadType, Steps,
         States, Terminal, DeliveryStates, Reasons
    <3>2. LedgerType'
      BY <2>23, TreeAssumption DEF TypeOK, Approve, LedgerType, ledger, ThreadType, Contexts,
         Tree, NoAcceptance, RepoType
    <3> QED
      BY <2>23, <3>1, <3>2, UnchangedTypes DEF TypeOK, Approve
  <2>24. CASE PublishAsIs
    <3>1. LifeType' /\ ThreadType' /\ needsLook' \in BOOLEAN
      <4> DEFINE c == [ctx EXCEPT !.evidence = workTree, !.review = "none"]
      <4>1. c \in Contexts
        BY DEF TypeOK, ThreadType, Contexts, RepoType, Tree
      <4> HIDE DEF c
      <4>2. CASE Stop("other")
        BY <2>24, <4>2, StopTypes DEF TypeOK, Reasons
      <4>3. CASE AdoptCurrentTree /\ Continue("PR_READY", "ready", c)
        BY <2>24, <4>1, <4>3, ContinueTypes
           DEF TypeOK, AdoptCurrentTree, Steps, States, Terminal, DeliveryStates
      <4> QED BY <2>24, <4>2, <4>3 DEF PublishAsIs, c
    <3>2. LedgerType'
      BY <2>24, TreeAssumption DEF TypeOK, PublishAsIs, AdoptCurrentTree, LedgerType, ledger,
         ThreadType, Contexts, Tree, NoAcceptance, RepoType
    <3>3. StoredType'
      BY <2>24, TreeAssumption DEF TypeOK, PublishAsIs, AdoptCurrentTree, StoredType, stored,
         RepoType, Tree, ThreadType, Contexts
    <3> QED
      BY <2>24, <3>1, <3>2, <3>3, UnchangedTypes DEF TypeOK, PublishAsIs
  <2>25. CASE Ready
    <3>1. LifeType' /\ ThreadType' /\ needsLook' \in BOOLEAN
      <4>1. CASE PullRequests
        BY <2>25, <4>1, GotoTypes, UnchangedTypes DEF TypeOK, Ready, Steps
      <4>2. CASE ~PullRequests
        BY <2>25, <4>2, NoContextType
           DEF TypeOK, StepState, Ready, LifeType, ThreadType, Steps, States, Terminal
      <4> QED BY <4>1, <4>2
    <3> QED
      BY <2>25, <3>1, UnchangedTypes DEF TypeOK, Ready
  <2>26. CASE ReviewedEvidence
    <3>1. LifeType' /\ ThreadType' /\ needsLook' \in BOOLEAN
      <4>1. [ctx EXCEPT !.evidence = workTree] \in Contexts
        BY DEF TypeOK, ThreadType, Contexts, RepoType, Tree
      <4>2. CASE Stop("other")
        BY <2>26, <4>2, StopTypes DEF TypeOK, Reasons
      <4>3. CASE ~Stop("other")
        BY <2>26, <4>1, <4>3, GotoTypes, UnchangedTypes
           DEF TypeOK, ReviewedEvidence, AdoptCurrentTree, ThreadType, Steps
      <4> QED BY <4>2, <4>3
    <3>2. LedgerType'
      BY <2>26, TreeAssumption DEF TypeOK, ReviewedEvidence, AdoptCurrentTree, LedgerType,
         ledger, ThreadType, Contexts, Tree, NoAcceptance, RepoType
    <3>3. StoredType'
      BY <2>26, TreeAssumption DEF TypeOK, ReviewedEvidence, AdoptCurrentTree, StoredType,
         stored, RepoType, Tree, ThreadType, Contexts
    <3> QED
      BY <2>26, <3>1, <3>2, <3>3, UnchangedTypes DEF TypeOK, ReviewedEvidence
  <2>27. CASE PublishScope
    <3>1. LifeType' /\ ThreadType' /\ needsLook' \in BOOLEAN
      BY <2>27, NeedsHumanTypes, StopTypes, GotoTypes, UnchangedTypes DEF TypeOK, PublishScope,
         ThreadType, Steps, States, Terminal, DeliveryStates, Reasons
    <3> QED
      BY <2>27, <3>1, UnchangedTypes DEF TypeOK, PublishScope
  <2>28. CASE RecordCommit
    <3>1. LifeType' /\ ThreadType' /\ needsLook' \in BOOLEAN
      BY <2>28, StopTypes, GotoTypes, UnchangedTypes DEF TypeOK, RecordCommit, ThreadType,
         Steps, States, Terminal, DeliveryStates, Reasons
    <3>2. ReceiptType'
      BY <2>28, TreeAssumption DEF TypeOK, RecordCommit, ReceiptType, receipt, LedgerType, Tree
    <3> QED
      BY <2>28, <3>1, <3>2, UnchangedTypes DEF TypeOK, RecordCommit
  <2>29. CASE MoveBranch
    <3>1. LifeType' /\ ThreadType' /\ needsLook' \in BOOLEAN
      BY <2>29, GotoTypes, UnchangedTypes DEF TypeOK, MoveBranch, ThreadType, Steps, States,
         Terminal, DeliveryStates, Reasons
    <3>2. RepoType'
      BY <2>29, TreeAssumption DEF TypeOK, MoveBranch, RepoType, repo, ReceiptType, Tree,
         StoredType
    <3> QED
      BY <2>29, <3>1, <3>2, UnchangedTypes DEF TypeOK, MoveBranch
  <2>30. CASE Push
    <3>1. LifeType' /\ ThreadType' /\ needsLook' \in BOOLEAN
      BY <2>30, StopTypes, GotoTypes, UnchangedTypes DEF TypeOK, Push, ThreadType, Steps,
         States, Terminal, DeliveryStates, Reasons
    <3>2. RepoType'
      BY <2>30, TreeAssumption DEF TypeOK, Push, RepoType, repo, ReceiptType, Tree, StoredType
    <3> QED
      BY <2>30, <3>1, <3>2, UnchangedTypes DEF TypeOK, Push
  <2>31. CASE OpenPullRequest
    <3>1. LifeType' /\ ThreadType' /\ needsLook' \in BOOLEAN
      BY <2>31, StopTypes, GotoTypes, UnchangedTypes DEF TypeOK, OpenPullRequest, ThreadType,
         Steps, States, Terminal, DeliveryStates, Reasons
    <3>2. RepoType'
      BY <2>31, TreeAssumption DEF TypeOK, OpenPullRequest, RepoType, repo, ReceiptType, Tree,
         StoredType
    <3> QED
      BY <2>31, <3>1, <3>2, UnchangedTypes DEF TypeOK, OpenPullRequest
  <2>32. CASE SavePublished
    <3>1. LifeType' /\ ThreadType' /\ needsLook' \in BOOLEAN
      BY <2>32, GotoTypes, UnchangedTypes DEF TypeOK, SavePublished, ThreadType, Steps, States,
         Terminal, DeliveryStates, Reasons
    <3>2. ReceiptType'
      BY <2>32, TreeAssumption DEF TypeOK, SavePublished, ReceiptType, receipt, LedgerType, Tree
    <3>3. RepoType'
      BY <2>32, TreeAssumption DEF TypeOK, SavePublished, RepoType, repo, ReceiptType, Tree,
         StoredType
    <3> QED
      BY <2>32, <3>1, <3>2, <3>3, UnchangedTypes DEF TypeOK, SavePublished
  <2>33. CASE PullRequestCreated
    <3>1. LifeType' /\ ThreadType' /\ needsLook' \in BOOLEAN
      <4>1. AfterPublication \in Steps
        BY DEF AfterPublication, Steps
      <4> QED BY <2>33, <4>1, ContinueTypes
              DEF TypeOK, PullRequestCreated, Move, ThreadType, States, Terminal, DeliveryStates
    <3> QED
      BY <2>33, <3>1, UnchangedTypes DEF TypeOK, PullRequestCreated
  <2>34. CASE LeaveOpen
    <3>1. LifeType' /\ ThreadType' /\ needsLook' \in BOOLEAN
      <4>1. CASE End("DONE", "other")
        BY <2>34, <4>1, EndTypes DEF TypeOK, LeaveOpen, Terminal, Reasons
      <4>2. CASE Raises
        BY <2>34, <4>2, NoContextType, UnchangedTypes DEF TypeOK, LeaveOpen, Raises, ThreadType,
           Steps
      <4> QED BY <2>34, <4>1, <4>2 DEF LeaveOpen
    <3> QED
      BY <2>34, <3>1, UnchangedTypes DEF TypeOK, LeaveOpen
  <2>35. CASE WatchCI
    <3>1. LifeType' /\ ThreadType' /\ needsLook' \in BOOLEAN
      BY <2>35, ContinueTypes, NoContextType, UnchangedTypes DEF TypeOK, WatchCI, Move, Raises,
         ThreadType, Steps, States, Terminal, DeliveryStates, Reasons
    <3> QED
      BY <2>35, <3>1, UnchangedTypes DEF TypeOK, WatchCI
  <2>36. CASE Observe
    <3>1. LifeType' /\ ThreadType' /\ needsLook' \in BOOLEAN
      BY <2>36, StopTypes, GotoTypes, UnchangedTypes DEF TypeOK, Observe, ThreadType, Steps,
         States, Terminal, DeliveryStates, Reasons
    <3>2. StoredType'
      BY <2>36, TreeAssumption DEF TypeOK, Observe, StoredType, stored, RepoType, Tree,
         ThreadType, Contexts
    <3> QED
      BY <2>36, <3>1, <3>2, UnchangedTypes DEF TypeOK, Observe
  <2>37. CASE Verdict
    <3>1. LifeType' /\ ThreadType' /\ needsLook' \in BOOLEAN
      <4>1. CASE Stop("ci_timeout")
        BY <2>37, <4>1, StopTypes DEF TypeOK, Reasons, CIReasons
      <4>2. CASE ~Stop("ci_timeout")
        BY <2>37, <4>2, ContinueTypes, GotoTypes, UnchangedTypes
           DEF TypeOK, Verdict, Move, ThreadType, Steps, States, Terminal, DeliveryStates
      <4> QED BY <4>1, <4>2
    <3> QED
      BY <2>37, <3>1, UnchangedTypes DEF TypeOK, Verdict
  <2>38. CASE Diagnose
    <3>1. LifeType' /\ ThreadType' /\ needsLook' \in BOOLEAN
      <4>1. "ci_status" \in Reasons /\ "ci_budget" \in Reasons /\ "repair" \in Steps
        BY DEF Reasons, CIReasons, Steps
      <4> QED BY <2>38, <4>1, StopTypes, GotoTypes, UnchangedTypes DEF TypeOK, Diagnose
    <3> QED
      BY <2>38, <3>1, UnchangedTypes DEF TypeOK, Diagnose
  <2>39. CASE RepairCI
    <3>1. LifeType' /\ ThreadType' /\ needsLook' \in BOOLEAN
      <4> DEFINE c == [ctx EXCEPT !.budget = "CI_REPAIR", !.polish = FALSE, !.generated = FALSE]
      <4>1. c \in Contexts
        BY DEF TypeOK, ThreadType, Contexts, Budgets
      <4> QED BY <2>39, <4>1, ContinueTypes DEF TypeOK, RepairCI, Steps, States, Terminal
    <3> QED
      BY <2>39, <3>1, UnchangedTypes DEF TypeOK, RepairCI
  <2>40. CASE Finish
    <3>1. LifeType' /\ ThreadType' /\ needsLook' \in BOOLEAN
      BY <2>40, StopTypes, GotoTypes, UnchangedTypes DEF TypeOK, Finish, ThreadType, Steps,
         States, Terminal, DeliveryStates, Reasons
    <3>2. RepoType'
      BY <2>40, TreeAssumption DEF TypeOK, Finish, RepoType, repo, ReceiptType, Tree, StoredType
    <3> QED
      BY <2>40, <3>1, <3>2, UnchangedTypes DEF TypeOK, Finish
  <2>41. CASE SaveMerge
    <3>1. LifeType' /\ ThreadType' /\ needsLook' \in BOOLEAN
      BY <2>41, GotoTypes, UnchangedTypes DEF TypeOK, SaveMerge, ThreadType, Steps, States,
         Terminal, DeliveryStates, Reasons
    <3>2. ReceiptType'
      BY <2>41, TreeAssumption DEF TypeOK, SaveMerge, ReceiptType, receipt, LedgerType, Tree
    <3> QED
      BY <2>41, <3>1, <3>2, UnchangedTypes DEF TypeOK, SaveMerge
  <2>42. CASE RecoverAbandoned
    <3>1. LifeType' /\ ThreadType' /\ needsLook' \in BOOLEAN
      BY <2>42, NeedsHumanTypes, UnchangedTypes DEF TypeOK, RecoverAbandoned, ThreadType, Steps,
         States, Terminal, DeliveryStates, Reasons
    <3> QED
      BY <2>42, <3>1, UnchangedTypes DEF TypeOK, RecoverAbandoned
  <2>43. CASE CountRestart
    <3>1. LifeType' /\ ThreadType' /\ needsLook' \in BOOLEAN
      BY <2>43, GotoTypes, UnchangedTypes DEF TypeOK, CountRestart, ThreadType, Steps, States,
         Terminal, DeliveryStates, Reasons
    <3>2. CountType'
      BY <2>43, TreeAssumption DEF TypeOK, CountRestart, CountType, counts
    <3> QED
      BY <2>43, <3>1, <3>2, UnchangedTypes DEF TypeOK, CountRestart
  <2>44. CASE CountInterruptedAttempt
    <3>1. LifeType' /\ ThreadType' /\ needsLook' \in BOOLEAN
      BY <2>44, GotoTypes, UnchangedTypes DEF TypeOK, CountInterruptedAttempt, ThreadType,
         Steps, States, Terminal, DeliveryStates, Reasons
    <3>2. AttemptType'
      BY <2>44, TreeAssumption DEF TypeOK, CountInterruptedAttempt, RecordAttempt, AttemptType,
         attempts, Budgets, ThreadType, Contexts, Tree
    <3> QED
      BY <2>44, <3>1, <3>2, UnchangedTypes DEF TypeOK, CountInterruptedAttempt
  <2>45. CASE EndRestarted
    <3>1. LifeType' /\ ThreadType' /\ needsLook' \in BOOLEAN
      BY <2>45, ContinueTypes, NoContextType, NeedsHumanTypes, UnchangedTypes DEF TypeOK,
         EndRestarted, ThreadType, Steps, States, Terminal, DeliveryStates, Reasons
    <3> QED
      BY <2>45, <3>1, UnchangedTypes DEF TypeOK, EndRestarted
  <2>46. CASE RestartFromScratch
    <3>1. LifeType' /\ ThreadType' /\ needsLook' \in BOOLEAN
      BY <2>46, ContinueTypes, NoContextType, UnchangedTypes DEF TypeOK, RestartFromScratch,
         ThreadType, Steps, States, Terminal, DeliveryStates, Reasons
    <3>2. RepoType'
      BY <2>46, TreeAssumption DEF TypeOK, RestartFromScratch, RepoType, repo, ReceiptType,
         Tree, StoredType
    <3>3. LimitType'
      BY <2>46, TreeAssumption DEF TypeOK, RestartFromScratch, LimitType, limits
    <3> QED
      BY <2>46, <3>1, <3>2, <3>3, UnchangedTypes DEF TypeOK, RestartFromScratch
  <2>47. CASE RestartAtPlanning
    <3>1. LifeType' /\ ThreadType' /\ needsLook' \in BOOLEAN
      BY <2>47, ContinueTypes, NoContextType, UnchangedTypes DEF TypeOK, RestartAtPlanning,
         ThreadType, Steps, States, Terminal, DeliveryStates, Reasons
    <3> QED
      BY <2>47, <3>1, UnchangedTypes DEF TypeOK, RestartAtPlanning
  <2>48. CASE RestartFails
    <3>1. LifeType' /\ ThreadType' /\ needsLook' \in BOOLEAN
      BY <2>48, NeedsHumanTypes, GotoTypes, UnchangedTypes DEF TypeOK, RestartFails,
         StopInterrupted, ThreadType, Steps, States, Terminal, DeliveryStates, Reasons
    <3> QED
      BY <2>48, <3>1, UnchangedTypes DEF TypeOK, RestartFails
  <2>49. CASE ResumeDelivery
    <3>1. LifeType' /\ ThreadType' /\ needsLook' \in BOOLEAN
      <4>1. AfterPublication \in Steps /\ "publish" \in Steps /\ "leave" \in Steps /\ "idle" \in Steps
        BY DEF AfterPublication, Steps
      <4>2. CASE StopInterrupted
        BY <2>49, <4>1, <4>2, NeedsHumanTypes, GotoTypes, UnchangedTypes
           DEF TypeOK, StopInterrupted, Reasons
      <4>3. CASE ~StopInterrupted
        BY <2>49, <4>1, <4>3, NoContextType, RestoredType, UnchangedTypes
           DEF TypeOK, ResumeDelivery, LifeType, ThreadType
      <4> QED BY <4>2, <4>3
    <3> QED
      BY <2>49, <3>1, UnchangedTypes DEF TypeOK, ResumeDelivery
  <2>50. CASE ReopenAtPlanning
    <3>1. LifeType' /\ ThreadType' /\ needsLook' \in BOOLEAN
      BY <2>50, ContinueTypes, NoContextType, UnchangedTypes DEF TypeOK, ReopenAtPlanning,
         Reopened, ThreadType, Steps, States, Terminal, DeliveryStates, Reasons
    <3>2. CountType'
      BY <2>50, TreeAssumption DEF TypeOK, ReopenAtPlanning, Reopened, CountType, counts
    <3> QED
      BY <2>50, <3>1, <3>2, UnchangedTypes DEF TypeOK, ReopenAtPlanning
  <2>51. CASE ReopenDeliveryRetry
    <3>1. LifeType' /\ ThreadType' /\ needsLook' \in BOOLEAN
      BY <2>51, ContinueTypes, RestoredType
         DEF TypeOK, ReopenDeliveryRetry, Reopened, Steps, States, Terminal, DeliveryStates
    <3>2. CountType'
      BY <2>51, TreeAssumption DEF TypeOK, ReopenDeliveryRetry, Reopened, CountType, counts
    <3> QED
      BY <2>51, <3>1, <3>2, UnchangedTypes DEF TypeOK, ReopenDeliveryRetry
  <2>52. CASE ReopenAttemptGrant
    <3>1. LifeType' /\ ThreadType' /\ needsLook' \in BOOLEAN
      BY <2>52, ContinueTypes, NoContextType, UnchangedTypes DEF TypeOK, ReopenAttemptGrant,
         Reopened, ThreadType, Steps, States, Terminal, DeliveryStates, Reasons
    <3>2. AttemptType'
      BY <2>52, TreeAssumption DEF TypeOK, ReopenAttemptGrant, AttemptType, attempts, Budgets,
         ThreadType, Contexts, Tree
    <3>3. CountType'
      BY <2>52, TreeAssumption DEF TypeOK, ReopenAttemptGrant, Reopened, CountType, counts
    <3> QED
      BY <2>52, <3>1, <3>2, <3>3, UnchangedTypes DEF TypeOK, ReopenAttemptGrant
  <2>53. CASE ReopenFindingsAcceptance
    <3>1. LifeType' /\ ThreadType' /\ needsLook' \in BOOLEAN
      BY <2>53, ContinueTypes, RestoredType
         DEF TypeOK, ReopenFindingsAcceptance, Reopened, Steps, States, Terminal, DeliveryStates
    <3>2. CountType'
      BY <2>53, TreeAssumption DEF TypeOK, ReopenFindingsAcceptance, Reopened, CountType, counts
    <3>3. LedgerType'
      BY <2>53, TreeAssumption DEF TypeOK, ReopenFindingsAcceptance, LedgerType, ledger,
         ThreadType, Contexts, Tree, NoAcceptance, RepoType
    <3> QED
      BY <2>53, <3>1, <3>2, <3>3, UnchangedTypes DEF TypeOK, ReopenFindingsAcceptance
  <2>54. CASE ReopenScopeApproval
    <3>1. LifeType' /\ ThreadType' /\ needsLook' \in BOOLEAN
      <4>1. [NoContext EXCEPT !.evidence = workTree] \in Contexts
        BY DEF TypeOK, NoContext, Contexts, RepoType, Tree, Budgets
      <4> QED BY <2>54, <4>1, ContinueTypes
              DEF TypeOK, ReopenScopeApproval, Reopened, Steps, States, Terminal
    <3>2. CountType'
      BY <2>54, TreeAssumption DEF TypeOK, ReopenScopeApproval, Reopened, CountType, counts
    <3> QED
      BY <2>54, <3>1, <3>2, UnchangedTypes DEF TypeOK, ReopenScopeApproval
  <2>55. CASE ReopenCIRepairRetry
    <3>1. LifeType' /\ ThreadType' /\ needsLook' \in BOOLEAN
      <4>1. "ci" \in Steps /\ "repair" \in Steps /\ {"CI_RUNNING", "CI_DIAGNOSIS"} \subseteq States \ Terminal
        BY DEF Steps, States, Terminal, DeliveryStates
      <4> QED BY <2>55, <4>1, ContinueTypes, RestoredType DEF TypeOK, ReopenCIRepairRetry, Reopened
    <3>2. AttemptType'
      BY <2>55, TreeAssumption DEF TypeOK, ReopenCIRepairRetry, AttemptType, attempts, Budgets,
         ThreadType, Contexts, Tree
    <3>3. CountType'
      BY <2>55, TreeAssumption DEF TypeOK, ReopenCIRepairRetry, Reopened, CountType, counts
    <3> QED
      BY <2>55, <3>1, <3>2, <3>3, UnchangedTypes DEF TypeOK, ReopenCIRepairRetry
  <2>56. CASE FailReopen
    <3>1. LifeType' /\ ThreadType' /\ needsLook' \in BOOLEAN
      <4>1. LifeType'
        BY <2>56 DEF TypeOK, FailReopen, LifeType
      <4> QED BY <2>56, <4>1, UnchangedTypes DEF TypeOK, FailReopen
    <3>2. CountType'
      BY <2>56, TreeAssumption DEF TypeOK, FailReopen, CountType, counts
    <3> QED
      BY <2>56, <3>1, <3>2, UnchangedTypes DEF TypeOK, FailReopen
  <2>57. CASE Escalate
    <3>1. LifeType' /\ ThreadType' /\ needsLook' \in BOOLEAN
      BY <2>57, ContinueTypes, NoContextType, UnchangedTypes DEF TypeOK, Escalate, ThreadType,
         Steps, States, Terminal, DeliveryStates, Reasons
    <3>2. RouteType'
      BY <2>57 DEF TypeOK, Escalate, EscalationRoute, RouteType, Routes
    <3>3. AttemptType'
      BY <2>57, TreeAssumption DEF TypeOK, Escalate, AttemptType, attempts, Budgets, ThreadType,
         Contexts, Tree
    <3>4. LimitType'
      <4>1. UnacceptedWork \subseteq Trees
        BY DEF TypeOK, UnacceptedWork, LedgerType, ReceiptType, RepoType, Tree
      <4> QED BY <2>57, <4>1 DEF TypeOK, Escalate, LimitType
    <3> QED
      BY <2>57, <3>1, <3>2, <3>3, <3>4, UnchangedTypes DEF TypeOK, Escalate
  <2>58. CASE StopRequested
    <3>1. LifeType' /\ ThreadType' /\ needsLook' \in BOOLEAN
      BY <2>58, NeedsHumanTypes, UnchangedTypes DEF TypeOK, StopRequested, ThreadType, Steps,
         States, Terminal, DeliveryStates, Reasons
    <3>2. AttemptType'
      BY <2>58, TreeAssumption DEF TypeOK, StopRequested, AttemptType, attempts, Budgets,
         ThreadType, Contexts, Tree
    <3>3. RepoType'
      BY <2>58, TreeAssumption DEF TypeOK, StopRequested, RepoType, repo, ReceiptType, Tree,
         StoredType
    <3> QED
      BY <2>58, <3>1, <3>2, <3>3, UnchangedTypes DEF TypeOK, StopRequested
  <2>59. CASE Interrupt
    <3>1. LifeType' /\ ThreadType' /\ needsLook' \in BOOLEAN
      BY <2>59, NoContextType, UnchangedTypes DEF TypeOK, Interrupt, ThreadType, Steps
    <3>2. AttemptType'
      BY <2>59, TreeAssumption DEF TypeOK, Interrupt, AttemptType, attempts, Budgets,
         ThreadType, Contexts, Tree
    <3>3. RepoType'
      BY <2>59, TreeAssumption DEF TypeOK, Interrupt, RepoType, repo, ReceiptType, Tree,
         StoredType
    <3>4. LimitType'
      BY <2>59, TreeAssumption DEF TypeOK, Interrupt, LimitType, limits
    <3> QED
      BY <2>59, <3>1, <3>2, <3>3, <3>4, UnchangedTypes DEF TypeOK, Interrupt
  <2>60. CASE EditWorktree
    <3>1. LifeType' /\ ThreadType' /\ needsLook' \in BOOLEAN
      BY <2>60, UnchangedTypes DEF TypeOK, EditWorktree, ThreadType, Steps, States, Terminal,
         DeliveryStates, Reasons
    <3>2. RepoType'
      BY <2>60, TreeAssumption DEF TypeOK, EditWorktree, RepoType, repo, ReceiptType, Tree,
         StoredType
    <3>3. LimitType'
      BY <2>60, TreeAssumption DEF TypeOK, EditWorktree, LimitType, limits
    <3> QED
      BY <2>60, <3>1, <3>2, <3>3, UnchangedTypes DEF TypeOK, EditWorktree
  <2>61. CASE UNCHANGED vars
    BY <2>61, UnchangedTypes DEF TypeOK, vars
  <2>62. CASE RepairDiffFails
    <3>1. LifeType' /\ ThreadType' /\ needsLook' \in BOOLEAN
      BY <2>62, NeedsHumanTypes DEF TypeOK, RepairDiffFails, Reasons
    <3>2. RouteType'
      BY <2>62 DEF TypeOK, RepairDiffFails, EnterReview, Ratchet, RouteType, Routes
    <3> QED
      BY <2>62, <3>1, <3>2, UnchangedTypes DEF TypeOK, RepairDiffFails
  <2> QED
    BY <2>1, <2>2, <2>3, <2>4, <2>5, <2>6, <2>7, <2>8, <2>9, <2>10, <2>11, <2>12, <2>13, <2>14,
       <2>15, <2>16, <2>17, <2>18, <2>19, <2>20, <2>21, <2>22, <2>23, <2>24, <2>25, <2>26,
       <2>27, <2>28, <2>29, <2>30, <2>31, <2>32, <2>33, <2>34, <2>35, <2>36, <2>37, <2>38,
       <2>39, <2>40, <2>41, <2>42, <2>43, <2>44, <2>45, <2>46, <2>47, <2>48, <2>49, <2>50,
       <2>51, <2>52, <2>53, <2>54, <2>55, <2>56, <2>57, <2>58, <2>59, <2>60, <2>61, <2>62 DEF Next,
       Work, Deliver, Recover, Person
<1> QED
  BY <1>1, <1>2, StepStateCorrect, PTL DEF Spec

-----------------------------------------------------------------------------
(* Attempt budgets *)

\* Where an implementer call may be open that no attempt record counts yet: while the agent
\* works, while a restart is about to count it, and in a run that a crash or a person's stop
\* left behind.  A halt that can be reopened is never of this kind.
Uncounted ==
    \/ pc = "agent"
    \/ pc \in {"count", "idle"} /\ state = "IMPLEMENTING"
    \/ pc = "idle" /\ state = "NEEDS_HUMAN" /\ halt.class = "NOT_RESUMABLE"

\* The attempts recorded of a budget cover its calls, but for one that is still uncounted.
Counted ==
    \A b \in Budgets :
        \/ calls[b] <= used[b]
        \/ Uncounted /\ unrecorded = b /\ calls[b] = used[b] + 1

\* The inductive form of CallsWithinBudget.  No review impasse is ever stored for an unattended
\* run: with one, a halt after an interrupted call could be reopened before the call is counted.
BudgetInv == Unattended => ~impasse /\ Counted /\ CallsWithinBudget

\* The limit of a budget, with its grants, is a number of attempts.
LEMMA AttemptLimitType ==
  ASSUME AttemptType, NEW b \in Budgets
  PROVE  AttemptLimit(b) \in Nat
  BY BoundAssumption DEF AttemptType, AttemptLimit, Budgets

\* Every step keeps the inductive form of the budgets.
LEMMA BudgetInvKept == TypeOK /\ StepState /\ BudgetInv /\ [Next]_vars => BudgetInv'
<1> SUFFICES ASSUME TypeOK, StepState, BudgetInv, [Next]_vars, Unattended PROVE BudgetInv'
  BY DEF BudgetInv
<1> USE DEF BudgetInv, Counted, Uncounted, CallsWithinBudget, AttemptLimit,
            TypeOK, AttemptType, life, attempts, stored
<1>1. CASE Prepare
  BY <1>1 DEF Prepare, Move, Continue, NeedsHuman, End, Fails
<1>2. CASE Triage
  BY <1>2 DEF Triage, Goto, Fails, End, OtherAgentCalled
<1>3. CASE DecideRoute
  BY <1>3 DEF DecideRoute, Goto
<1>4. CASE Gate
  BY <1>4 DEF Gate, Move, Continue, NeedsHuman, End
<1>5. CASE Synthesize
  BY <1>5 DEF Synthesize, Continue
<1>6. CASE Plan
  BY <1>6 DEF Plan, Continue, NeedsHuman, End, Fails, OtherAgentCalled
<1>7. CASE BudgetEnds
  BY <1>7 DEF BudgetEnds, Goto, NeedsHuman, End
<1>8. CASE StartAttempt
  <2>1. ctx.budget \in Budgets
    BY DEF ThreadType, Contexts
  <2>2. CASE Fails
    BY <1>8, <2>2 DEF StartAttempt, StepState, Fails, End
  <2>3. CASE ~Fails
    <3>1. /\ pc = "select" /\ pc' = "agent" /\ unrecorded' = ctx.budget
          /\ used' = used /\ grants' = grants
      BY <1>8, <2>3 DEF StartAttempt, Goto
    <3>2. calls' = [calls EXCEPT ![ctx.budget] = @ + 1] /\ impasse' = impasse
      BY <1>8, <2>3 DEF StartAttempt
    <3>3. used[ctx.budget] < AttemptLimit(ctx.budget)
      BY <1>8, <2>1, <2>3, AttemptLimitType DEF StartAttempt, Exhausted
    <3> QED BY <2>1, <3>1, <3>2, <3>3, AttemptLimitType
  <2> QED BY <2>2, <2>3
<1>9. CASE ImplementerReturns
  <2>1. ctx.budget \in Budgets
    BY DEF ThreadType, Contexts
  <2>2. pc = "agent" /\ used' = [used EXCEPT ![ctx.budget] = @ + 1]
    BY <1>9 DEF ImplementerReturns, RecordAttempt
  <2>3. calls' = calls /\ grants' = grants /\ impasse' = impasse
    BY <1>9 DEF ImplementerReturns, RecordAttempt
  <2>4. unrecorded = ctx.budget
    BY <2>2 DEF StepState
  <2> QED BY <2>1, <2>2, <2>3, <2>4
<1>10. CASE VerifyFails
  BY <1>10 DEF VerifyFails, Move, Continue
<1>11. CASE VerifyPasses
  BY <1>11 DEF VerifyPasses, Continue, Move
<1>12. CASE ScopeReplan
  BY <1>12 DEF ScopeReplan, Move, Continue, NeedsHuman, End
<1>13. CASE ScopeHalts
  BY <1>13 DEF ScopeHalts, NeedsHuman, End
<1>14. CASE Replan
  BY <1>14 DEF Replan, Move, Continue, Fails, End, OtherAgentCalled
<1>15. CASE ScopePasses
  BY <1>15 DEF ScopePasses, Continue, Move
<1>16. CASE Reverify
  BY <1>16 DEF Reverify, Move, Continue
<1>17. CASE SkipReview
  BY <1>17 DEF SkipReview, Continue, RecordReviewedTree
<1>18. CASE Review
  BY <1>18 DEF Review, Fails, End, RecordReviewedTree
<1>19. CASE AcceptFindings
  BY <1>19 DEF AcceptFindings, Move, Continue
<1>20. CASE KeepImpasse
  BY <1>20 DEF KeepImpasse, Goto
<1>21. CASE HaltOnImpasse
  BY <1>21 DEF HaltOnImpasse, NeedsHuman, End
<1>22. CASE RepairFindings
  BY <1>22 DEF RepairFindings, Move, Continue
<1>23. CASE Approve
  BY <1>23 DEF Approve, Move, Continue
<1>24. CASE PublishAsIs
  BY <1>24 DEF PublishAsIs, Continue, Stop, Goto, NeedsHuman, End
<1>25. CASE Ready
  BY <1>25 DEF Ready, Goto
<1>26. CASE ReviewedEvidence
  BY <1>26 DEF ReviewedEvidence, Goto, Stop, NeedsHuman, End
<1>27. CASE PublishScope
  BY <1>27 DEF PublishScope, Goto, NeedsHuman, End, Stop
<1>28. CASE RecordCommit
  BY <1>28 DEF RecordCommit, Goto, Stop, NeedsHuman, End
<1>29. CASE MoveBranch
  BY <1>29 DEF MoveBranch, Goto
<1>30. CASE Push
  BY <1>30 DEF Push, Goto, Stop, NeedsHuman, End
<1>31. CASE OpenPullRequest
  BY <1>31 DEF OpenPullRequest, Goto, Stop, NeedsHuman, End
<1>32. CASE SavePublished
  BY <1>32 DEF SavePublished, Goto
<1>33. CASE PullRequestCreated
  BY <1>33 DEF PullRequestCreated, Move, Continue, AfterPublication
<1>34. CASE LeaveOpen
  BY <1>34 DEF LeaveOpen, End, Raises
<1>35. CASE WatchCI
  BY <1>35 DEF WatchCI, Move, Continue, Raises
<1>36. CASE Observe
  BY <1>36 DEF Observe, Goto, Stop, NeedsHuman, End
<1>37. CASE Verdict
  BY <1>37 DEF Verdict, Goto, Move, Continue, Stop, NeedsHuman, End
<1>38. CASE Diagnose
  BY <1>38 DEF Diagnose, Goto, Stop, NeedsHuman, End
<1>39. CASE RepairCI
  BY <1>39 DEF RepairCI, Continue
<1>40. CASE Finish
  BY <1>40 DEF Finish, Goto, Stop, NeedsHuman, End
<1>41. CASE SaveMerge
  BY <1>41 DEF SaveMerge, Goto
<1>42. CASE RecoverAbandoned
  BY <1>42 DEF RecoverAbandoned, NeedsHuman, End, Interrupted, is_run_finished, Terminal,
    Classify, CIReasons
<1>43. CASE CountRestart
  BY <1>43 DEF CountRestart, Interrupted, is_run_finished, Terminal, Goto
<1>44. CASE CountInterruptedAttempt
  <2>1. pc = "count" /\ calls' = calls /\ grants' = grants /\ impasse' = impasse
    BY <1>44 DEF CountInterruptedAttempt, RecordAttempt
  <2>2. CASE unrecorded = None
    BY <1>44, <2>1, <2>2, NoneAssumption DEF CountInterruptedAttempt
  <2>3. CASE unrecorded # None
    <3>1. unrecorded \in Budgets /\ used' = [used EXCEPT ![unrecorded] = @ + 1]
      BY <1>44, <2>3 DEF CountInterruptedAttempt, RecordAttempt
    <3> QED BY <2>1, <3>1
  <2> QED BY <2>2, <2>3
<1>45. CASE EndRestarted
  BY <1>45 DEF EndRestarted, Continue, NeedsHuman, End
<1>46. CASE RestartFromScratch
  BY <1>46 DEF RestartFromScratch, Continue
<1>47. CASE RestartAtPlanning
  BY <1>47 DEF RestartAtPlanning, Continue
<1>48. CASE RestartFails
  BY <1>48 DEF RestartFails, StopInterrupted, Goto, NeedsHuman, End
<1>49. CASE ResumeDelivery
  BY <1>49 DEF ResumeDelivery, StopInterrupted, Goto, NeedsHuman, End, AfterPublication,
    Interrupted, DeliveryStates
<1>50. CASE ReopenAtPlanning
  BY <1>50 DEF ReopenAtPlanning, Reopened, Continue, ResumeClasses
<1>51. CASE ReopenDeliveryRetry
  BY <1>51 DEF ReopenDeliveryRetry, Reopened, Continue, ResumeClasses
<1>52. CASE ReopenAttemptGrant
  BY <1>52, BoundAssumption DEF ReopenAttemptGrant, Reopened, Continue, ResumeClasses, Budgets
<1>53. CASE ReopenFindingsAcceptance
  BY <1>53 DEF ReopenFindingsAcceptance, Reopened, Continue, ResumeClasses
<1>54. CASE ReopenScopeApproval
  BY <1>54 DEF ReopenScopeApproval, Reopened, Continue, ResumeClasses
<1>55. CASE ReopenCIRepairRetry
  BY <1>55, BoundAssumption DEF ReopenCIRepairRetry, Reopened, Continue, ResumeClasses, Budgets
<1>56. CASE FailReopen
  BY <1>56 DEF FailReopen, ResumeClasses
<1>57. CASE Escalate
  <2>1. used' = [b \in Budgets |-> 0] /\ calls' = used' /\ grants' = used' /\ impasse' = impasse
    BY <1>57 DEF Escalate
  <2>2. MaxTotalAttempts \in Nat /\ CIRepairAttempts \in Nat
    BY BoundAssumption
  <2> QED BY <2>1, <2>2
<1>58. CASE StopRequested
  BY <1>58 DEF StopRequested, NeedsHuman, End, ResumeClasses, Classify, CIReasons
<1>59. CASE Interrupt
  BY <1>59 DEF Interrupt, StepState
<1>60. CASE EditWorktree
  BY <1>60 DEF EditWorktree
<1>61. CASE UNCHANGED vars
  BY <1>61 DEF vars
<1>62. CASE RepairDiffFails
  BY <1>62 DEF RepairDiffFails, StepState, NeedsHuman, End
<1> QED
  BY <1>1, <1>2, <1>3, <1>4, <1>5, <1>6, <1>7, <1>8, <1>9, <1>10, <1>11, <1>12, <1>13, <1>14,
     <1>15, <1>16, <1>17, <1>18, <1>19, <1>20, <1>21, <1>22, <1>23, <1>24, <1>25, <1>26, <1>27,
     <1>28, <1>29, <1>30, <1>31, <1>32, <1>33, <1>34, <1>35, <1>36, <1>37, <1>38, <1>39, <1>40,
     <1>41, <1>42, <1>43, <1>44, <1>45, <1>46, <1>47, <1>48, <1>49, <1>50, <1>51, <1>52, <1>53,
     <1>54, <1>55, <1>56, <1>57, <1>58, <1>59, <1>60,
     <1>61, <1>62 DEF Next, Work, Deliver, Recover, Person

\* A restart never widens an attempt budget (count_restart): an unattended run, however often it
\* is interrupted, calls its implementer no more often than its budgets allow.
THEOREM BudgetCorrect == Spec => []CallsWithinBudget
<1>1. Init => BudgetInv
  BY BoundAssumption DEF Init, BudgetInv, Counted, CallsWithinBudget, AttemptLimit
<1>2. BudgetInv => CallsWithinBudget
  BY DEF BudgetInv, CallsWithinBudget
<1> QED
  BY <1>1, <1>2, BudgetInvKept, TypeCorrect, StepStateCorrect, PTL DEF Spec

-----------------------------------------------------------------------------
(* Routes *)

\* The steps that may change the effective route.
RouteSteps ==
    DecideRoute \/ VerifyFails \/ ScopeReplan \/ ScopeHalts \/ ScopePasses \/ SkipReview
    \/ RepairDiffFails \/ Review \/ Escalate

\* Only the steps that decide, ratchet or replace a route change it.
LEMMA RouteUnchanged == [Next]_vars => RouteSteps \/ UNCHANGED route
<1>1. ASSUME Prepare \/ Triage \/ Gate \/ Synthesize \/ Plan \/ BudgetEnds \/ StartAttempt \/
            ImplementerReturns \/ VerifyPasses
     PROVE  UNCHANGED route
  BY <1>1 DEF Prepare, Triage, Gate, Synthesize, Plan, BudgetEnds, StartAttempt,
                ImplementerReturns, VerifyPasses, routing
<1>2. ASSUME Replan \/ Reverify \/ AcceptFindings \/ KeepImpasse \/ HaltOnImpasse \/ RepairFindings
            \/ Approve \/ PublishAsIs \/ Ready
     PROVE  UNCHANGED route
  BY <1>2 DEF Replan, Reverify, AcceptFindings, KeepImpasse, HaltOnImpasse, RepairFindings,
                Approve, PublishAsIs, Ready, routing
<1>3. ASSUME ReviewedEvidence \/ PublishScope \/ RecordCommit \/ MoveBranch \/ Push \/
            OpenPullRequest \/ SavePublished \/ PullRequestCreated \/ LeaveOpen
     PROVE  UNCHANGED route
  BY <1>3 DEF ReviewedEvidence, PublishScope, RecordCommit, MoveBranch, Push, OpenPullRequest,
                SavePublished, PullRequestCreated, LeaveOpen, routing
<1>4. ASSUME WatchCI \/ Observe \/ Verdict \/ Diagnose \/ RepairCI \/ Finish \/ SaveMerge \/
            RecoverAbandoned \/ CountRestart
     PROVE  UNCHANGED route
  BY <1>4 DEF WatchCI, Observe, Verdict, Diagnose, RepairCI, Finish, SaveMerge,
                RecoverAbandoned, CountRestart, routing
<1>5. ASSUME CountInterruptedAttempt \/ EndRestarted \/ RestartFromScratch \/ RestartAtPlanning \/
            RestartFails \/ ResumeDelivery \/ ReopenAtPlanning \/ ReopenDeliveryRetry \/
            ReopenAttemptGrant
     PROVE  UNCHANGED route
  BY <1>5 DEF CountInterruptedAttempt, EndRestarted, RestartFromScratch, RestartAtPlanning,
                RestartFails, ResumeDelivery, ReopenAtPlanning, ReopenDeliveryRetry,
                ReopenAttemptGrant, Reopened, routing
<1>6. ASSUME ReopenFindingsAcceptance \/ ReopenScopeApproval \/ ReopenCIRepairRetry \/ FailReopen
            \/ StopRequested \/ Interrupt \/ EditWorktree
     PROVE  UNCHANGED route
  BY <1>6 DEF ReopenFindingsAcceptance, ReopenScopeApproval, ReopenCIRepairRetry, FailReopen,
                StopRequested, Interrupt, EditWorktree, Reopened, routing
<1>7. CASE UNCHANGED vars
  BY <1>7 DEF vars, routing
<1> QED
  BY <1>1, <1>2, <1>3, <1>4, <1>5, <1>6, <1>7 DEF RouteSteps, Next, Work, Deliver, Recover, Person

\* route_precedence ranks every route.
LEMMA PrecedenceType == RoutePrecedence \in [Routes -> Nat]
  BY DEF RoutePrecedence

\* _ratchet_route to any route keeps the effective route or moves it up.
LEMMA RatchetUp ==
  ASSUME route \in Routes, NEW to \in Routes, Ratchet(to)
  PROVE  RoutePrecedence[route'] >= RoutePrecedence[route]
  BY PrecedenceType, NoneAssumption DEF Ratchet, EffectiveRoute

\* The effective route never moves down, however the run is interrupted, restarted, reopened or
\* escalated; only a run that starts from scratch decides its route again (_ratchet_route).
THEOREM RouteCorrect == Spec => RouteNeverDowngraded
<1> DEFINE Up == RoutePrecedence[route'] >= RoutePrecedence[route]
<1>1. ASSUME TypeOK, [Next]_vars, route # None, pc # "route"
      PROVE  Up
  <2>1. route \in Routes
    BY <1>1 DEF TypeOK, RouteType
  <2>2. UNCHANGED route => Up
    BY <2>1, PrecedenceType
  <2>3. (\E to \in Routes : Ratchet(to)) => Up
    BY <2>1, RatchetUp
  <2>4. {"CRITIQUE", "FULL_REVIEW"} \subseteq Routes
    BY DEF Routes
  <2> HIDE DEF Up
  <2>5. CASE DecideRoute
    BY <1>1, <2>5 DEF DecideRoute
  <2>6. CASE VerifyFails
    BY <2>2, <2>3, <2>4, <2>6 DEF VerifyFails
  <2>7. CASE ScopeReplan \/ ScopeHalts \/ ScopePasses
    BY <2>2, <2>3, <2>4, <2>7 DEF ScopeReplan, ScopeHalts, ScopePasses, MayRatchet
  <2>8. CASE SkipReview \/ RepairDiffFails \/ Review
    BY <2>2, <2>3, <2>4, <2>8 DEF SkipReview, RepairDiffFails, Review, EnterReview
  <2>9. CASE Escalate
    BY <2>1, <2>9 DEF Escalate, EscalationRoute, RoutePrecedence, Routes, Up
  <2> QED
    BY <1>1, <2>2, <2>5, <2>6, <2>7, <2>8, <2>9, RouteUnchanged DEF RouteSteps
<1> QED
  BY <1>1, TypeCorrect, PTL DEF Spec, RouteNeverDowngraded

-----------------------------------------------------------------------------
(* The end of a run *)

\* The states of a run after it stored its published commit.
WatchedStates == {"PR_CREATED", "CI_RUNNING", "CI_DIAGNOSIS"}

\* The inductive form of DoneMeansDelivered: what the last steps of a delivery know of the pull
\* request, of CI and of the flag.
DeliveredInv ==
    /\ pc = "leave" => needsLook
    /\ pc \in {"open", "published"} => remote = pending
    /\ pc = "created" \/ state \in WatchedStates => prUrl /\ remote = commit
    /\ pc \in {"finish", "merged"} => ciReport = "PASS"
    /\ pc = "done" => /\ state \in WatchedStates
                      /\ CIObserved => ciReport = "PASS" /\ (MergeEnabled => merged)
    /\ state = "DONE" => pc = "idle"
    /\ halt.class = "CI_REPAIR_RETRY" => prUrl
    /\ DoneMeansDelivered

\* Every step keeps it.
LEMMA DeliveredInvKept == TypeOK /\ StepState /\ DeliveredInv /\ [Next]_vars => DeliveredInv'
<1> SUFFICES ASSUME TypeOK, StepState, DeliveredInv, [Next]_vars PROVE DeliveredInv'
  OBVIOUS
<1>0. DOMAIN halt = {"reason", "class", "from"}
  BY DEF TypeOK, LifeType
<1> USE <1>0 DEF DeliveredInv, DoneMeansDelivered, WatchedStates, StepState, NoHalt,
     life, receipt, stored, repo
<1>1. CASE Prepare
  BY <1>1 DEF Prepare, Move, Continue, NeedsHuman, End, Fails, Classify, CIReasons
<1>2. CASE Triage
  BY <1>2 DEF Triage, Goto, Fails, End, Classify, CIReasons
<1>3. CASE DecideRoute
  BY <1>3 DEF DecideRoute, Goto
<1>4. CASE Gate
  BY <1>4 DEF Gate, Move, Continue, NeedsHuman, End, Classify, CIReasons
<1>5. CASE Synthesize
  BY <1>5 DEF Synthesize, Continue
<1>6. CASE Plan
  BY <1>6 DEF Plan, Continue, NeedsHuman, End, Fails, Classify, CIReasons
<1>7. CASE BudgetEnds
  BY <1>7 DEF BudgetEnds, Goto, NeedsHuman, End, Classify, CIReasons
<1>8. CASE StartAttempt
  BY <1>8 DEF StartAttempt, Goto, Fails, End, Classify, CIReasons
<1>9. CASE ImplementerReturns
  BY <1>9 DEF ImplementerReturns, Continue
<1>10. CASE VerifyFails
  BY <1>10 DEF VerifyFails, Move, Continue
<1>11. CASE VerifyPasses
  BY <1>11 DEF VerifyPasses, Continue, Move
<1>12. CASE ScopeReplan
  BY <1>12 DEF ScopeReplan, Move, Continue, NeedsHuman, End, Classify, CIReasons
<1>13. CASE ScopeHalts
  BY <1>13 DEF ScopeHalts, NeedsHuman, End, Classify, CIReasons
<1>14. CASE Replan
  BY <1>14 DEF Replan, Move, Continue, Fails, End, Classify, CIReasons
<1>15. CASE ScopePasses
  BY <1>15 DEF ScopePasses, Continue, Move
<1>16. CASE Reverify
  BY <1>16 DEF Reverify, Move, Continue
<1>17. CASE SkipReview
  BY <1>17 DEF SkipReview, Continue
<1>18. CASE Review
  <2>1. state = "REVIEWING" /\ UNCHANGED <<receipt, repo, ciReport>>
    BY <1>18 DEF Review, StepState
  <2>2. CASE Fails
    BY <2>1, <2>2 DEF Fails, End
  <2>3. CASE ~Fails
    <3>1. pc' = "decide" /\ UNCHANGED <<life, needsLook>>
      BY <1>18, <2>3 DEF Review
    <3> QED BY <2>1, <3>1
  <2> QED BY <2>2, <2>3
<1>19. CASE AcceptFindings
  BY <1>19 DEF AcceptFindings, Move, Continue
<1>20. CASE KeepImpasse
  BY <1>20 DEF KeepImpasse, Goto
<1>21. CASE HaltOnImpasse
  BY <1>21 DEF HaltOnImpasse, NeedsHuman, End, Classify, CIReasons
<1>22. CASE RepairFindings
  BY <1>22 DEF RepairFindings, Move, Continue
<1>23. CASE Approve
  BY <1>23 DEF Approve, Move, Continue
<1>24. CASE PublishAsIs
  BY <1>24 DEF PublishAsIs, Continue, Stop, Goto, NeedsHuman, End, Classify, CIReasons
<1>25. CASE Ready
  BY <1>25 DEF Ready, Goto
<1>26. CASE ReviewedEvidence
  BY <1>26 DEF ReviewedEvidence, Goto, Stop, NeedsHuman, End, Classify, CIReasons
<1>27. CASE PublishScope
  <2>1. state = "PR_READY" /\ UNCHANGED <<receipt, repo, ciReport>>
    BY <1>27 DEF PublishScope, StepState
  <2>2. CASE Stop("other") \/ NeedsHuman("scope")
    BY <2>1, <2>2 DEF Stop, Goto, NeedsHuman, End, Classify, CIReasons
  <2>3. CASE ~(Stop("other") \/ NeedsHuman("scope"))
    <3>1. pc' = "receipt" /\ UNCHANGED life
      BY <1>27, <2>3 DEF PublishScope, Goto
    <3> QED BY <2>1, <3>1
  <2> QED BY <2>2, <2>3
<1>28. CASE RecordCommit
  BY <1>28 DEF RecordCommit, Goto, Stop, NeedsHuman, End, Classify, CIReasons
<1>29. CASE MoveBranch
  BY <1>29 DEF MoveBranch, Goto
<1>30. CASE Push
  BY <1>30 DEF Push, Goto, Stop, NeedsHuman, End, Classify, CIReasons
<1>31. CASE OpenPullRequest
  BY <1>31 DEF OpenPullRequest, Goto, Stop, NeedsHuman, End, Classify, CIReasons
<1>32. CASE SavePublished
  BY <1>32 DEF SavePublished, Goto, repo
<1>33. CASE PullRequestCreated
  BY <1>33 DEF PullRequestCreated, Move, Continue, AfterPublication
<1>34. CASE LeaveOpen
  BY <1>34 DEF LeaveOpen, End, Raises, Classify, CIReasons
<1>35. CASE WatchCI
  BY <1>35 DEF WatchCI, Move, Continue, Raises
<1>36. CASE Observe
  BY <1>36 DEF Observe, Goto, Stop, NeedsHuman, End, Classify, CIReasons
<1>37. CASE Verdict
  BY <1>37 DEF Verdict, Goto, Move, Continue, Stop, NeedsHuman, End, Classify, CIReasons
<1>38. CASE Diagnose
  BY <1>38 DEF Diagnose, Goto, Stop, NeedsHuman, End, Classify, CIReasons
<1>39. CASE RepairCI
  BY <1>39 DEF RepairCI, Continue
<1>40. CASE Finish
  BY <1>40 DEF Finish, MayMerge,  Goto, Stop, NeedsHuman, End, Classify, CIReasons
<1>41. CASE SaveMerge
  BY <1>41 DEF SaveMerge, Goto
<1>42. CASE RecoverAbandoned
  BY <1>42 DEF RecoverAbandoned, NeedsHuman, End, Classify, CIReasons
<1>43. CASE CountRestart
  BY <1>43 DEF CountRestart, Interrupted, is_run_finished, Terminal, Goto
<1>44. CASE CountInterruptedAttempt
  BY <1>44 DEF CountInterruptedAttempt, Goto
<1>45. CASE EndRestarted
  BY <1>45 DEF EndRestarted, Continue, NeedsHuman, End, Classify, CIReasons
<1>46. CASE RestartFromScratch
  BY <1>46 DEF RestartFromScratch, Continue
<1>47. CASE RestartAtPlanning
  BY <1>47 DEF RestartAtPlanning, Continue
<1>48. CASE RestartFails
  BY <1>48 DEF RestartFails, StopInterrupted, Goto, NeedsHuman, End, Classify, CIReasons
<1>49. CASE ResumeDelivery
  BY <1>49 DEF ResumeDelivery, StopInterrupted, Goto, NeedsHuman, End, AfterPublication, Classify,
    CIReasons, Interrupted, DeliveryStates
<1>50. CASE ReopenAtPlanning
  BY <1>50 DEF ReopenAtPlanning, Reopened, Continue
<1>51. CASE ReopenDeliveryRetry
  BY <1>51 DEF ReopenDeliveryRetry, Reopened, Continue
<1>52. CASE ReopenAttemptGrant
  BY <1>52 DEF ReopenAttemptGrant, Reopened, Continue
<1>53. CASE ReopenFindingsAcceptance
  BY <1>53 DEF ReopenFindingsAcceptance, Reopened, Continue
<1>54. CASE ReopenScopeApproval
  BY <1>54 DEF ReopenScopeApproval, Reopened, Continue
<1>55. CASE ReopenCIRepairRetry
  BY <1>55 DEF ReopenCIRepairRetry, Reopened, Continue
<1>56. CASE FailReopen
  BY <1>56 DEF FailReopen
<1>57. CASE Escalate
  BY <1>57 DEF Escalate, Continue
<1>58. CASE StopRequested
  BY <1>58 DEF StopRequested, NeedsHuman, End, Classify, CIReasons
<1>59. CASE Interrupt
  BY <1>59 DEF Interrupt
<1>60. CASE EditWorktree
  BY <1>60 DEF EditWorktree
<1>61. CASE UNCHANGED vars
  BY <1>61 DEF vars
<1>62. CASE RepairDiffFails
  BY <1>62 DEF RepairDiffFails, NeedsHuman, End, Classify, CIReasons
<1> QED
  BY <1>1, <1>2, <1>3, <1>4, <1>5, <1>6, <1>7, <1>8, <1>9, <1>10, <1>11, <1>12, <1>13, <1>14,
     <1>15, <1>16, <1>17, <1>18, <1>19, <1>20, <1>21, <1>22, <1>23, <1>24, <1>25, <1>26, <1>27,
     <1>28, <1>29, <1>30, <1>31, <1>32, <1>33, <1>34, <1>35, <1>36, <1>37, <1>38, <1>39, <1>40,
     <1>41, <1>42, <1>43, <1>44, <1>45, <1>46, <1>47, <1>48, <1>49, <1>50, <1>51, <1>52, <1>53,
     <1>54, <1>55, <1>56, <1>57, <1>58, <1>59, <1>60,
     <1>61, <1>62 DEF Next, Work, Deliver, Recover, Person

\* A run that ends without a reason to look at it delivered: the pull request holds the commit
\* the run recorded, CI passed on it and, with merges enabled, it is merged.  Every other way to
\* DONE leaves a flag (_stop, recover_interrupted_delivery, ADR-040, ADR-041).
THEOREM DeliveryCorrect == Spec => []DoneMeansDelivered
<1>1. Init => DeliveredInv
  BY DEF Init, DeliveredInv, DoneMeansDelivered, WatchedStates, NoHalt
<1>2. DeliveredInv => DoneMeansDelivered
  BY DEF DeliveredInv
<1> QED
  BY <1>1, <1>2, DeliveredInvKept, TypeCorrect, StepStateCorrect, PTL DEF Spec

=============================================================================
