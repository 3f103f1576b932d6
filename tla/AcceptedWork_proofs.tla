-------------------------- MODULE AcceptedWork_proofs --------------------------
(***************************************************************************)
(* What a run may publish and merge, and that it keeps to its lifecycle:   *)
(* theorems about RunController that rest on the agreement of its thread   *)
(* with its state, proved in RunController_proofs.                         *)
(***************************************************************************)
EXTENDS RunController_proofs

-----------------------------------------------------------------------------
(* The lifecycle                                                           *)

\* A step of the lifecycle, or one that leaves the lifecycle alone.
LifecycleStep == Lifecycle!Next \/ UNCHANGED <<state, completed>>

\* The rows of the transition table that the controller uses.
LEMMA TableRows ==
    /\ "TRIAGING" \in Lifecycle!ALLOWED_TRANSITIONS["CREATED"]
    /\ "PLANNING" \in Lifecycle!ALLOWED_TRANSITIONS["TRIAGING"]
    /\ {"IMPLEMENTING", "VERIFYING"} \subseteq Lifecycle!ALLOWED_TRANSITIONS["PLANNING"]
    /\ {"VERIFYING", "PR_READY", "DONE"} \subseteq Lifecycle!ALLOWED_TRANSITIONS["IMPLEMENTING"]
    /\ {"REVIEWING", "IMPLEMENTING", "PLANNING"}
         \subseteq Lifecycle!ALLOWED_TRANSITIONS["VERIFYING"]
    /\ {"PR_READY", "IMPLEMENTING"} \subseteq Lifecycle!ALLOWED_TRANSITIONS["REVIEWING"]
    /\ {"PR_CREATED", "DONE"} \subseteq Lifecycle!ALLOWED_TRANSITIONS["PR_READY"]
    /\ {"CI_RUNNING", "DONE"} \subseteq Lifecycle!ALLOWED_TRANSITIONS["PR_CREATED"]
    /\ {"CI_DIAGNOSIS", "DONE"} \subseteq Lifecycle!ALLOWED_TRANSITIONS["CI_RUNNING"]
    /\ {"IMPLEMENTING", "DONE"} \subseteq Lifecycle!ALLOWED_TRANSITIONS["CI_DIAGNOSIS"]
  BY DEF Lifecycle!ALLOWED_TRANSITIONS, Lifecycle!Forward, Lifecycle!States,
         Lifecycle!ActiveStates, Lifecycle!DeliveryStates, Lifecycle!TERMINAL_STATES

\* Every unfinished state may halt for a person or fail: the two escalation columns.
LEMMA EscalationColumns ==
  ASSUME NEW s \in States \ Terminal
  PROVE  {"NEEDS_HUMAN", "FAILED"} \subseteq Lifecycle!ALLOWED_TRANSITIONS[s]
  BY DEF States, Terminal, DeliveryStates, Lifecycle!ALLOWED_TRANSITIONS, Lifecycle!States,
         Lifecycle!ActiveStates, Lifecycle!DeliveryStates, Lifecycle!TERMINAL_STATES

\* transition to an active state is one of the table, when the table has it.
LEMMA MovesOn ==
  ASSUME NEW s \in Lifecycle!ALLOWED_TRANSITIONS[state], s \notin Terminal, NEW step, NEW c,
         Continue(s, step, c)
  PROVE  LifecycleStep
<1>1. state' = s /\ completed' = FALSE
  BY DEF Continue
<1>2. (s \in Lifecycle!TERMINAL_STATES) = FALSE
  BY DEF Terminal, Lifecycle!TERMINAL_STATES
<1> QED BY <1>1, <1>2 DEF LifecycleStep, Lifecycle!Next, Lifecycle!Transition

\* So is a halt, a failure and every other end of an unfinished run.
LEMMA Ends ==
  ASSUME NEW s \in Lifecycle!ALLOWED_TRANSITIONS[state] \cap Terminal, NEW why, End(s, why)
  PROVE  LifecycleStep
  BY DEF End, Terminal, LifecycleStep, Lifecycle!Next, Lifecycle!Transition,
         Lifecycle!TERMINAL_STATES

\* A step that leaves the life of the run alone.
LEMMA Unmoved == UNCHANGED life => LifecycleStep
  BY DEF life, LifecycleStep

\* transition to the state the run is in already changes nothing.
LEMMA Stays ==
  ASSUME NEW step, NEW c, completed = FALSE, state \notin Terminal, Continue(state, step, c)
  PROVE  LifecycleStep
<1>1. state' = state /\ completed' = FALSE
  BY DEF Continue
<1> QED BY <1>1 DEF LifecycleStep

\* Every way an unfinished run ends without its work done, or goes on where it is.
LEMMA Halts ==
  ASSUME state \in States \ Terminal, NEW why,
         Fails \/ NeedsHuman(why) \/ Stop(why) \/ StopInterrupted
  PROVE  LifecycleStep
<1>1. {"NEEDS_HUMAN", "FAILED"} \subseteq Lifecycle!ALLOWED_TRANSITIONS[state] \cap Terminal
  BY EscalationColumns DEF Terminal
<1>2. CASE Fails
  BY <1>1, <1>2, Ends DEF Fails
<1>3. CASE NeedsHuman(why) \/ Stop(why)
  BY <1>1, <1>3, Ends, Unmoved DEF NeedsHuman, Stop
<1>4. CASE StopInterrupted
  BY <1>1, <1>4, Ends, Unmoved DEF NeedsHuman, StopInterrupted
<1> QED BY <1>2, <1>3, <1>4

\* restart_at is only reached before delivery.
LEMMA Restarts ==
  ASSUME state \in States \ (DeliveryStates \cup Terminal),
         NEW s \in {"CREATED", "PLANNING", "IMPLEMENTING"}, NEW step, NEW c, Continue(s, step, c)
  PROVE  LifecycleStep
  BY DEF Continue, LifecycleStep, Lifecycle!Next, Lifecycle!Restart, Lifecycle!RestartStates,
         Lifecycle!ActiveStates, Lifecycle!DeliveryStates, DeliveryStates, Terminal, States

\* transition_reopened leaves NEEDS_HUMAN for a state of the reopens.
LEMMA Reopens ==
  ASSUME NEW class, NEW s \in {"PLANNING", "IMPLEMENTING", "PR_READY", "CI_RUNNING",
       "CI_DIAGNOSIS"},
         NEW step, NEW c, Reopened(class, s, step, c)
  PROVE  LifecycleStep
  BY DEF Reopened, Continue, LifecycleStep, Lifecycle!Next, Lifecycle!Reopen,
         Lifecycle!ReopenStates

\* A local run, or one whose delivery is resumed, is finished at PR_READY.
LEMMA Finalizes ==
  ASSUME state = "PR_READY", completed' = TRUE, UNCHANGED state
  PROVE  LifecycleStep
  BY DEF LifecycleStep, Lifecycle!Next, Lifecycle!Finalize

\* Every step of the controller is a step of the lifecycle or leaves it alone.
LEMMA StepsKeepLifecycle == TypeOK /\ StepState /\ [Next]_vars => LifecycleStep
<1> SUFFICES ASSUME TypeOK, StepState, [Next]_vars PROVE LifecycleStep
  OBVIOUS
<1>a. state \in States /\ (completed => state \in Terminal \cup {"PR_READY"})
  BY DEF TypeOK, LifeType
<1>b. pc \notin {"idle", "raised", "leave", "done"} => state \in States \ Terminal
  BY <1>a DEF TypeOK, ThreadType, Steps, StepState, States, Terminal, DeliveryStates
<1>c. state \notin {"PR_READY", "DONE", "NEEDS_HUMAN", "FAILED"} => completed = FALSE
  BY <1>a DEF Terminal, TypeOK, LifeType
<1>1. CASE Prepare
    BY <1>1, <1>b, Halts, TableRows, MovesOn DEF Prepare, Move, Terminal, StepState
<1>2. CASE Triage
    BY <1>2, <1>b, Unmoved, Halts DEF Triage
<1>3. CASE DecideRoute
    BY <1>3, Unmoved DEF DecideRoute
<1>4. CASE Gate
    BY <1>4, <1>b, Halts, TableRows, MovesOn DEF Gate, Move, Terminal, StepState
<1>5. CASE Synthesize
    BY <1>5, TableRows, MovesOn DEF Synthesize, Terminal, StepState
<1>6. CASE Plan
    BY <1>6, <1>b, Halts, TableRows, MovesOn DEF Plan, Terminal, StepState
<1>7. CASE BudgetEnds
    BY <1>7, <1>b, Unmoved, Halts DEF BudgetEnds
<1>8. CASE StartAttempt
    BY <1>8, <1>b, Unmoved, Halts DEF StartAttempt
<1>9. CASE ImplementerReturns
    BY <1>9, Unmoved, TableRows, MovesOn DEF ImplementerReturns, Terminal, StepState
<1>10. CASE VerifyFails
    BY <1>10, TableRows, MovesOn DEF VerifyFails, Move, Terminal, StepState
<1>11. CASE VerifyPasses
  <2>1. state \in {"IMPLEMENTING", "VERIFYING"} /\ completed = FALSE
    BY <1>11, <1>c DEF VerifyPasses, StepState
  <2>2. (\E c : Continue("VERIFYING", "scope", c)) \/ \E c : Continue("IMPLEMENTING", "select", c)
    BY <1>11 DEF VerifyPasses, Move
  <2>3. state = "IMPLEMENTING" => "VERIFYING" \in Lifecycle!ALLOWED_TRANSITIONS[state]
    BY TableRows
  <2>4. state = "VERIFYING" => "IMPLEMENTING" \in Lifecycle!ALLOWED_TRANSITIONS[state]
    BY TableRows
  <2>5. QED  BY <2>1, <2>2, <2>3, <2>4, MovesOn, Stays DEF Terminal
<1>12. CASE ScopeReplan
    BY <1>12, <1>b, Halts, TableRows, MovesOn DEF ScopeReplan, Move, Terminal, StepState
<1>13. CASE ScopeHalts
    BY <1>13, <1>b, Halts DEF ScopeHalts
<1>14. CASE Replan
    BY <1>14, <1>b, Halts, TableRows, MovesOn DEF Replan, Move, Terminal, StepState
<1>15. CASE ScopePasses
    BY <1>15, TableRows, MovesOn DEF ScopePasses, Move, Terminal, StepState
<1>16. CASE Reverify
    BY <1>16, TableRows, MovesOn DEF Reverify, Move, Terminal, StepState
<1>17. CASE SkipReview
    BY <1>17, TableRows, MovesOn DEF SkipReview, Terminal, StepState
<1>18. CASE Review
    BY <1>18, <1>b, Unmoved, Halts DEF Review
<1>19. CASE AcceptFindings
    BY <1>19, TableRows, MovesOn DEF AcceptFindings, Move, Terminal, StepState
<1>20. CASE KeepImpasse
    BY <1>20, Unmoved DEF KeepImpasse
<1>21. CASE HaltOnImpasse
    BY <1>21, <1>b, Halts DEF HaltOnImpasse
<1>22. CASE RepairFindings
    BY <1>22, TableRows, MovesOn DEF RepairFindings, Move, Terminal, StepState
<1>23. CASE Approve
    BY <1>23, TableRows, MovesOn DEF Approve, Move, Terminal, StepState
<1>24. CASE PublishAsIs
    BY <1>24, <1>b, Halts, TableRows, MovesOn DEF PublishAsIs, Terminal, StepState
<1>25. CASE Ready
    BY <1>25, Unmoved, Finalizes DEF Ready, StepState
<1>26. CASE ReviewedEvidence
    BY <1>26, <1>b, Unmoved, Halts DEF ReviewedEvidence
<1>27. CASE PublishScope
    BY <1>27, <1>b, Unmoved, Halts DEF PublishScope
<1>28. CASE RecordCommit
    BY <1>28, <1>b, Unmoved, Halts DEF RecordCommit
<1>29. CASE MoveBranch
    BY <1>29, Unmoved DEF MoveBranch
<1>30. CASE Push
    BY <1>30, <1>b, Unmoved, Halts DEF Push
<1>31. CASE OpenPullRequest
    BY <1>31, <1>b, Unmoved, Halts DEF OpenPullRequest
<1>32. CASE SavePublished
    BY <1>32, Unmoved DEF SavePublished
<1>33. CASE PullRequestCreated
    BY <1>33, TableRows, MovesOn DEF PullRequestCreated, Move, Terminal, StepState
<1>34. CASE LeaveOpen
  <2>1. CASE Raises
    BY <1>34, <2>1, Unmoved DEF Raises
  <2>2. CASE state \in {"IMPLEMENTING"} \cup DeliveryStates
    <3>1. "DONE" \in Lifecycle!ALLOWED_TRANSITIONS[state] \cap Terminal
      BY <2>2, TableRows DEF DeliveryStates, Terminal
    <3> QED BY <1>34, <2>2, <3>1, Ends DEF LeaveOpen
  <2> QED BY <1>34, <2>1, <2>2 DEF LeaveOpen
<1>35. CASE WatchCI
  <2>1. CASE state = "PR_CREATED" /\ Move("CI_RUNNING", "observe")
    BY <2>1, TableRows, MovesOn DEF Move, Terminal
  <2>2. CASE state = "CI_RUNNING" /\ Move("CI_RUNNING", "observe")
    BY <2>2, <1>c, Stays DEF Move, Terminal
  <2> QED BY <1>35, <2>1, <2>2, Unmoved DEF WatchCI, Raises
<1>36. CASE Observe
    BY <1>36, <1>b, Unmoved, Halts DEF Observe
<1>37. CASE Verdict
    BY <1>37, <1>b, Unmoved, Halts, TableRows, MovesOn DEF Verdict, Move, Terminal, StepState
<1>38. CASE Diagnose
    BY <1>38, <1>b, Unmoved, Halts DEF Diagnose
<1>39. CASE RepairCI
    BY <1>39, TableRows, MovesOn DEF RepairCI, Terminal, StepState
<1>40. CASE Finish
    BY <1>40, <1>b, Unmoved, Halts DEF Finish
<1>41. CASE SaveMerge
    BY <1>41, Unmoved DEF SaveMerge
<1>42. CASE RecoverAbandoned
    BY <1>42, Halts, <1>a DEF RecoverAbandoned, Interrupted, is_run_finished
<1>43. CASE CountRestart
    BY <1>43, Unmoved DEF CountRestart
<1>44. CASE CountInterruptedAttempt
    BY <1>44, Unmoved DEF CountInterruptedAttempt
<1>45. CASE EndRestarted
    BY <1>45, <1>b, Restarts, Halts, <1>a DEF EndRestarted, Terminal, StepState
<1>46. CASE RestartFromScratch
    BY <1>46, Restarts, <1>a DEF RestartFromScratch, Terminal, StepState
<1>47. CASE RestartAtPlanning
    BY <1>47, Restarts, <1>a DEF RestartAtPlanning, Terminal, StepState
<1>48. CASE RestartFails
    BY <1>48, <1>b, Halts DEF RestartFails
<1>49. CASE ResumeDelivery
  <2>1. state \in States \ Terminal
    BY <1>49, <1>a DEF ResumeDelivery, Interrupted, is_run_finished
  <2> QED BY <1>49, <2>1, Halts, Unmoved, Finalizes DEF ResumeDelivery
<1>50. CASE ReopenAtPlanning
    BY <1>50, Reopens DEF ReopenAtPlanning
<1>51. CASE ReopenDeliveryRetry
    BY <1>51, Reopens DEF ReopenDeliveryRetry
<1>52. CASE ReopenAttemptGrant
    BY <1>52, Reopens DEF ReopenAttemptGrant
<1>53. CASE ReopenFindingsAcceptance
    BY <1>53, Reopens DEF ReopenFindingsAcceptance
<1>54. CASE ReopenScopeApproval
    BY <1>54, Reopens DEF ReopenScopeApproval
<1>55. CASE ReopenCIRepairRetry
    BY <1>55, Reopens DEF ReopenCIRepairRetry
<1>56. CASE FailReopen
  BY <1>56 DEF FailReopen, LifecycleStep, Lifecycle!Next, Lifecycle!FailReopen
<1>57. CASE Escalate
  <2>1. state \in Lifecycle!EscalatableStates /\ state' = "PLANNING" /\ completed' = FALSE
    BY <1>57 DEF Escalate, Continue, Lifecycle!EscalatableStates, Lifecycle!DeliveryStates,
         DeliveryStates
  <2> QED BY <2>1 DEF LifecycleStep, Lifecycle!Next, Lifecycle!Escalate
<1>58. CASE StopRequested
    BY <1>58, <1>b, Halts DEF StopRequested
<1>59. CASE Interrupt
    BY <1>59, Unmoved DEF Interrupt
<1>60. CASE EditWorktree
    BY <1>60, Unmoved DEF EditWorktree
<1>61. CASE UNCHANGED vars
  BY <1>61, Unmoved DEF vars
<1>62. CASE RepairDiffFails
  BY <1>62, <1>b, Halts DEF RepairDiffFails
<1> QED
    BY <1>1, <1>2, <1>3, <1>4, <1>5, <1>6, <1>7, <1>8, <1>9, <1>10, <1>11, <1>12, <1>13, <1>14,
       <1>15, <1>16, <1>17, <1>18, <1>19, <1>20, <1>21, <1>22, <1>23, <1>24, <1>25, <1>26, <1>27,
       <1>28, <1>29, <1>30, <1>31, <1>32, <1>33, <1>34, <1>35, <1>36, <1>37, <1>38, <1>39, <1>40,
       <1>41, <1>42, <1>43, <1>44, <1>45, <1>46, <1>47, <1>48, <1>49, <1>50, <1>51, <1>52, <1>53,
       <1>54, <1>55, <1>56, <1>57, <1>58, <1>59, <1>60, <1>61, <1>62 DEF Next, Work, Deliver,
     Recover, Person

\* The controller implements the lifecycle: every step takes a row of the transition table, or is a
\* finish, a restart, a reopen or an escalation that lifecycle.py declares outside of it.
THEOREM LifecycleImplemented == Spec => ImplementsLifecycle
<1>1. Init => Lifecycle!Init
  BY DEF Init, Lifecycle!Init
<1>2. TypeOK /\ StepState /\ [Next]_vars => [Lifecycle!Next]_(Lifecycle!vars)
  BY StepsKeepLifecycle DEF LifecycleStep, Lifecycle!vars
<1> QED
  BY <1>1, <1>2, TypeCorrect, StepStateCorrect, PTL DEF Spec, ImplementsLifecycle, Lifecycle!Spec

-----------------------------------------------------------------------------
(* Work that a review or a person accepted *)

\* A tree the run may hold for its pull request: none, or work a review or a person accepted, or
\* flagged work of an unattended run.
Okay(tree) == tree = None \/ tree \in cleared \/ FlaggedWork(tree)

\* What a run may publish, is about to publish, has published, and has on its branch.  An
\* escalation drops needs_look and keeps all four; the person who escalates knows of them.
AcceptedInv == \A tree \in {reviewedTree, pending, commit, remote} : Okay(tree)

\* The receipt of a publication follows the reviewed tree.
ReceiptInv ==
    /\ pc \in {"publish_scope", "receipt"} => reviewedTree # None
    /\ pc \in {"branch", "push", "open", "published"}
           => pending # None /\ pending = reviewedTree

\* Nothing but an escalation takes back what was accepted or flagged.
LEMMA OkayKept ==
  ASSUME [Next]_vars, ~(Unattended /\ Escalate)
  PROVE  /\ cleared \subseteq cleared' /\ escalated \subseteq escalated'
         /\ Unattended /\ needsLook => needsLook'
<1> USE DEF ledger, limits
<1>1. CASE Prepare
  BY <1>1 DEF Prepare, Move, Continue, NeedsHuman, End, Fails
<1>2. CASE Triage
  BY <1>2 DEF Triage, Goto, Fails, End
<1>3. CASE DecideRoute
  BY <1>3 DEF DecideRoute, Goto
<1>4. CASE Gate
  BY <1>4 DEF Gate, Move, Continue, NeedsHuman, End, TriageGate
<1>5. CASE Synthesize
  BY <1>5 DEF Synthesize, Continue
<1>6. CASE Plan
  BY <1>6 DEF Plan, Continue, NeedsHuman, End, Fails
<1>7. CASE BudgetEnds
  BY <1>7 DEF BudgetEnds, Goto, NeedsHuman, End
<1>8. CASE StartAttempt
  BY <1>8 DEF StartAttempt, Goto, Fails, End
<1>9. CASE ImplementerReturns
  BY <1>9 DEF ImplementerReturns, Continue
<1>10. CASE VerifyFails
  BY <1>10 DEF VerifyFails, Move, Continue
<1>11. CASE VerifyPasses
  <2>1. cleared' = cleared /\ escalated' = escalated /\ (needsLook' = needsLook \/ needsLook' = TRUE)
    BY <1>11 DEF VerifyPasses
  <2> QED BY <2>1
<1>12. CASE ScopeReplan
  BY <1>12 DEF ScopeReplan, Move, Continue, NeedsHuman, End
<1>13. CASE ScopeHalts
  BY <1>13 DEF ScopeHalts, NeedsHuman, End
<1>14. CASE Replan
  BY <1>14 DEF Replan, Move, Continue, Fails, End
<1>15. CASE ScopePasses
  BY <1>15 DEF ScopePasses, Continue, Move
<1>16. CASE Reverify
  BY <1>16 DEF Reverify, Move, Continue
<1>17. CASE SkipReview
  BY <1>17 DEF SkipReview, Continue
<1>18. CASE Review
  <2>1. cleared' = cleared /\ escalated' = escalated
    BY <1>18 DEF Review
  <2>2. needsLook' = needsLook
    BY <1>18 DEF Review, Fails
  <2> QED BY <2>1, <2>2
<1>19. CASE AcceptFindings
  BY <1>19 DEF AcceptFindings, Move, Continue
<1>20. CASE KeepImpasse
  BY <1>20 DEF KeepImpasse, Goto
<1>21. CASE HaltOnImpasse
  BY <1>21 DEF HaltOnImpasse, NeedsHuman, End
<1>22. CASE RepairFindings
  BY <1>22 DEF RepairFindings, Move, Continue
<1>23. CASE Approve
  BY <1>23 DEF Approve, Move, Continue
<1>24. CASE PublishAsIs
  BY <1>24 DEF PublishAsIs, AdoptCurrentTree, Stop, NeedsHuman
<1>25. CASE Ready
  BY <1>25 DEF Ready, Goto
<1>26. CASE ReviewedEvidence
  BY <1>26 DEF ReviewedEvidence, AdoptCurrentTree, Stop, NeedsHuman
<1>27. CASE PublishScope
  BY <1>27 DEF PublishScope, Goto, NeedsHuman, End, Stop
<1>28. CASE RecordCommit
  BY <1>28 DEF RecordCommit, Goto, Stop, NeedsHuman, End
<1>29. CASE MoveBranch
  BY <1>29 DEF MoveBranch, Goto
<1>30. CASE Push
  BY <1>30 DEF Push, Goto, Stop, NeedsHuman, End
<1>31. CASE OpenPullRequest
  BY <1>31 DEF OpenPullRequest, Goto, Stop, NeedsHuman, End
<1>32. CASE SavePublished
  BY <1>32 DEF SavePublished, Goto
<1>33. CASE PullRequestCreated
  BY <1>33 DEF PullRequestCreated, Move, Continue, AfterPublication
<1>34. CASE LeaveOpen
  BY <1>34 DEF LeaveOpen, End, Raises
<1>35. CASE WatchCI
  BY <1>35 DEF WatchCI, Move, Continue, Raises
<1>36. CASE Observe
  BY <1>36 DEF Observe, Goto, Stop, NeedsHuman, End
<1>37. CASE Verdict
  BY <1>37 DEF Verdict, Goto, Move, Continue, Stop, NeedsHuman, End
<1>38. CASE Diagnose
  BY <1>38 DEF Diagnose, Goto, Stop, NeedsHuman, End
<1>39. CASE RepairCI
  BY <1>39 DEF RepairCI, Continue
<1>40. CASE Finish
  BY <1>40 DEF Finish, Goto, Stop, NeedsHuman, End
<1>41. CASE SaveMerge
  BY <1>41 DEF SaveMerge, Goto
<1>42. CASE RecoverAbandoned
  BY <1>42 DEF RecoverAbandoned, NeedsHuman, End
<1>43. CASE CountRestart
  BY <1>43 DEF CountRestart, Goto
<1>44. CASE CountInterruptedAttempt
  BY <1>44 DEF CountInterruptedAttempt, Goto
<1>45. CASE EndRestarted
  BY <1>45 DEF EndRestarted, Continue, NeedsHuman, End, TooManyRestarts
<1>46. CASE RestartFromScratch
  BY <1>46 DEF RestartFromScratch, Continue
<1>47. CASE RestartAtPlanning
  BY <1>47 DEF RestartAtPlanning, Continue
<1>48. CASE RestartFails
  BY <1>48 DEF RestartFails, StopInterrupted, Goto, NeedsHuman, End
<1>49. CASE ResumeDelivery
  BY <1>49 DEF ResumeDelivery, StopInterrupted, Goto, NeedsHuman, End, AfterPublication
<1>50. CASE ReopenAtPlanning
  BY <1>50 DEF ReopenAtPlanning, Reopened, Continue
<1>51. CASE ReopenDeliveryRetry
  BY <1>51 DEF ReopenDeliveryRetry, Reopened, Continue
<1>52. CASE ReopenAttemptGrant
  BY <1>52 DEF ReopenAttemptGrant, Reopened, Continue
<1>53. CASE ReopenFindingsAcceptance
  BY <1>53 DEF ReopenFindingsAcceptance, Reopened, Continue
<1>54. CASE ReopenScopeApproval
  BY <1>54 DEF ReopenScopeApproval, Reopened, Continue
<1>55. CASE ReopenCIRepairRetry
  BY <1>55 DEF ReopenCIRepairRetry, Reopened, Continue
<1>56. CASE FailReopen
  BY <1>56 DEF FailReopen
<1>57. CASE Escalate
  BY <1>57 DEF Escalate
<1>58. CASE StopRequested
  BY <1>58 DEF StopRequested, NeedsHuman, End
<1>59. CASE Interrupt
  BY <1>59 DEF Interrupt
<1>60. CASE EditWorktree
  BY <1>60 DEF EditWorktree
<1>61. CASE UNCHANGED vars
  BY <1>61 DEF vars
<1>62. CASE RepairDiffFails
  BY <1>62 DEF RepairDiffFails, NeedsHuman, End
<1> QED
  BY <1>1, <1>2, <1>3, <1>4, <1>5, <1>6, <1>7, <1>8, <1>9, <1>10, <1>11, <1>12, <1>13, <1>14,
     <1>15, <1>16, <1>17, <1>18, <1>19, <1>20, <1>21, <1>22, <1>23, <1>24, <1>25, <1>26, <1>27,
     <1>28, <1>29, <1>30, <1>31, <1>32, <1>33, <1>34, <1>35, <1>36, <1>37, <1>38, <1>39, <1>40,
     <1>41, <1>42, <1>43, <1>44, <1>45, <1>46, <1>47, <1>48, <1>49, <1>50, <1>51, <1>52, <1>53,
     <1>54, <1>55, <1>56, <1>57, <1>58, <1>59, <1>60, <1>61, <1>62 DEF Next, Work, Deliver,
     Recover, Person

\* The steps that give the run another tree to publish or move one on.
TreeSteps ==
    AcceptFindings \/ Approve \/ ReopenFindingsAcceptance \/ PublishAsIs \/ ReviewedEvidence
    \/ RecordCommit \/ Push \/ SavePublished

\* No other step does.
LEMMA TreesUnchanged == [Next]_vars => TreeSteps \/ UNCHANGED <<reviewedTree, pending, commit, remote>>
<1> SUFFICES ASSUME [Next]_vars PROVE TreeSteps \/ UNCHANGED <<reviewedTree, pending, commit, remote>>
  OBVIOUS
<1> USE DEF TreeSteps, ledger, receipt, repo
<1>1. CASE Work
  BY <1>1 DEF Work, Prepare, Triage, DecideRoute, Gate, Synthesize, Plan, BudgetEnds,
     StartAttempt, ImplementerReturns, VerifyFails, VerifyPasses, ScopeReplan, ScopeHalts,
     Replan, ScopePasses, Reverify, SkipReview, RepairDiffFails, Review, KeepImpasse,
     HaltOnImpasse, RepairFindings
<1>2. CASE Deliver
  BY <1>2 DEF Deliver, Ready, PublishScope, MoveBranch, OpenPullRequest, PullRequestCreated,
     LeaveOpen, WatchCI, Observe, Verdict, Diagnose, RepairCI, Finish, SaveMerge
<1>3. CASE Recover
  BY <1>3 DEF Recover, RecoverAbandoned, CountRestart, CountInterruptedAttempt,
     EndRestarted, RestartFromScratch, RestartAtPlanning, RestartFails, ResumeDelivery
<1>4. CASE Person
  BY <1>4 DEF Person, ReopenAtPlanning, ReopenDeliveryRetry, ReopenAttemptGrant,
     ReopenScopeApproval, ReopenCIRepairRetry, FailReopen, Escalate, StopRequested
<1>5. CASE Interrupt \/ EditWorktree \/ UNCHANGED vars
  BY <1>5 DEF Interrupt, EditWorktree, vars
<1> QED BY <1>1, <1>2, <1>3, <1>4, <1>5 DEF Next

\* Every step keeps what the run holds accepted or flagged.
LEMMA AcceptedInvKept ==
  TypeOK /\ AcceptedInv /\ (pc = "as_is" => Unattended) /\ [Next]_vars => AcceptedInv'
<1> SUFFICES ASSUME TypeOK, AcceptedInv, pc = "as_is" => Unattended, [Next]_vars
             PROVE  AcceptedInv'
  OBVIOUS
<1>1. CASE Unattended /\ Escalate
  <2>1. /\ UNCHANGED <<reviewedTree, pending, commit, remote, cleared>>
        /\ escalated' = IF needsLook THEN escalated \cup UnacceptedWork ELSE escalated
    BY <1>1 DEF Escalate, ledger, receipt, repo
  <2>2. ASSUME NEW tree \in {reviewedTree, pending, commit, remote}
        PROVE  tree = None \/ tree \in cleared \/ tree \in escalated'
    BY <2>1, <2>2 DEF AcceptedInv, Okay, FlaggedWork, UnacceptedWork
  <2> QED BY <1>1, <2>1, <2>2 DEF AcceptedInv, Okay, FlaggedWork
<1>2. CASE ~(Unattended /\ Escalate)
  <2>1. \A tree : Okay(tree) => Okay(tree)'
    BY <1>2, OkayKept DEF Okay, FlaggedWork
  <2>2. /\ Okay(reviewedTree) /\ Okay(pending) /\ Okay(commit) /\ Okay(remote)
        /\ \A tree \in {reviewedTree, pending, commit, remote} : Okay(tree)'
    BY <2>1 DEF AcceptedInv
  <2>3. reviewedTree' \in {reviewedTree} \/ reviewedTree' \in cleared'
          \/ (Unattended /\ needsLook')
    <3>1. CASE AcceptFindings
      BY <3>1 DEF AcceptFindings
    <3>2. CASE Approve
      BY <3>2 DEF Approve
    <3>3. CASE ReopenFindingsAcceptance
      BY <3>3 DEF ReopenFindingsAcceptance
    <3>4. CASE PublishAsIs
      BY <3>4 DEF PublishAsIs, AdoptCurrentTree
    <3>5. CASE ReviewedEvidence
      BY <3>5 DEF ReviewedEvidence, AdoptCurrentTree
    <3>6. CASE RecordCommit \/ Push \/ SavePublished
      BY <3>6 DEF RecordCommit, Push, SavePublished, ledger
    <3> QED BY <3>1, <3>2, <3>3, <3>4, <3>5, <3>6, TreesUnchanged DEF TreeSteps
  <2>4. pending' \in {reviewedTree, pending, None}
    BY TreesUnchanged DEF TreeSteps, AcceptFindings, Approve, ReopenFindingsAcceptance,
       PublishAsIs, ReviewedEvidence, RecordCommit, Push, SavePublished, receipt
  <2>5. commit' \in {pending, commit}
    BY TreesUnchanged DEF TreeSteps, AcceptFindings, Approve, ReopenFindingsAcceptance,
       PublishAsIs, ReviewedEvidence, RecordCommit, Push, SavePublished, receipt
  <2>6. remote' \in {pending, remote}
    BY TreesUnchanged DEF TreeSteps, AcceptFindings, Approve, ReopenFindingsAcceptance,
       PublishAsIs, ReviewedEvidence, RecordCommit, Push, SavePublished, repo
  <2>7. ASSUME NEW tree, tree = None \/ tree \in cleared' \/ (Unattended /\ needsLook')
                           \/ Okay(tree)
        PROVE  tree = None \/ tree \in cleared' \/ FlaggedWork(tree)'
    BY <2>7, <1>2, OkayKept DEF Okay, FlaggedWork
  <2>8. \A tree : Okay(tree) => tree = None \/ tree \in cleared' \/ FlaggedWork(tree)'
    BY <2>7
  <2> QED
    BY <2>3, <2>4, <2>5, <2>6, <2>7, <2>8 DEF AcceptedInv, Okay, FlaggedWork
<1> QED BY <1>1, <1>2

\* Every step keeps the receipt and the branch on the reviewed tree.
LEMMA ReceiptInvKept == TypeOK /\ StepState /\ ReceiptInv /\ [Next]_vars => ReceiptInv'
<1> SUFFICES ASSUME TypeOK, StepState, ReceiptInv, [Next]_vars PROVE ReceiptInv'
  OBVIOUS
<1>a. workTree # None
  BY TreeAssumption DEF TypeOK, RepoType
<1> USE DEF ReceiptInv, ledger, receipt, repo
<1>1. CASE Prepare
  BY <1>1 DEF Prepare, Move, Continue, NeedsHuman, End, Fails
<1>2. CASE Triage
  BY <1>2 DEF Triage, Goto, Fails, End
<1>3. CASE DecideRoute
  BY <1>3 DEF DecideRoute, Goto
<1>4. CASE Gate
  BY <1>4 DEF Gate, Move, Continue, NeedsHuman, End, TriageGate
<1>5. CASE Synthesize
  BY <1>5 DEF Synthesize, Continue
<1>6. CASE Plan
  BY <1>6 DEF Plan, Continue, NeedsHuman, End, Fails
<1>7. CASE BudgetEnds
  BY <1>7 DEF BudgetEnds, Goto, NeedsHuman, End
<1>8. CASE StartAttempt
  BY <1>8 DEF StartAttempt, Goto, Fails, End
<1>9. CASE ImplementerReturns
  BY <1>9 DEF ImplementerReturns, Continue
<1>10. CASE VerifyFails
  BY <1>10 DEF VerifyFails, Move, Continue
<1>11. CASE VerifyPasses
  BY <1>11 DEF VerifyPasses, Continue, Move
<1>12. CASE ScopeReplan
  BY <1>12 DEF ScopeReplan, Move, Continue, NeedsHuman, End
<1>13. CASE ScopeHalts
  BY <1>13 DEF ScopeHalts, NeedsHuman, End
<1>14. CASE Replan
  BY <1>14 DEF Replan, Move, Continue, Fails, End
<1>15. CASE ScopePasses
  BY <1>15 DEF ScopePasses, Continue, Move
<1>16. CASE Reverify
  BY <1>16 DEF Reverify, Move, Continue
<1>17. CASE SkipReview
  BY <1>17 DEF SkipReview, Continue
<1>18. CASE Review
  BY <1>18 DEF Review, Fails, End
<1>19. CASE AcceptFindings
  BY <1>19 DEF AcceptFindings, Move, Continue
<1>20. CASE KeepImpasse
  BY <1>20 DEF KeepImpasse, Goto
<1>21. CASE HaltOnImpasse
  BY <1>21 DEF HaltOnImpasse, NeedsHuman, End
<1>22. CASE RepairFindings
  BY <1>22 DEF RepairFindings, Move, Continue
<1>23. CASE Approve
  BY <1>23 DEF Approve, Move, Continue
<1>24. CASE PublishAsIs
  BY <1>24 DEF PublishAsIs, Continue, Stop, Goto, NeedsHuman, End, AdoptCurrentTree, TreeChanged
<1>25. CASE Ready
  BY <1>25 DEF Ready, Goto
<1>26. CASE ReviewedEvidence
  BY <1>26, <1>a DEF ReviewedEvidence, Goto, Stop, NeedsHuman, End, AdoptCurrentTree,
     TreeChanged
<1>27. CASE PublishScope
  BY <1>27 DEF PublishScope, Goto, NeedsHuman, End, Stop
<1>28. CASE RecordCommit
  BY <1>28 DEF RecordCommit, Goto, Stop, NeedsHuman, End
<1>29. CASE MoveBranch
  BY <1>29 DEF MoveBranch, Goto
<1>30. CASE Push
  BY <1>30 DEF Push, Goto, Stop, NeedsHuman, End
<1>31. CASE OpenPullRequest
  BY <1>31 DEF OpenPullRequest, Goto, Stop, NeedsHuman, End
<1>32. CASE SavePublished
  BY <1>32 DEF SavePublished, Goto
<1>33. CASE PullRequestCreated
  BY <1>33 DEF PullRequestCreated, Move, Continue, AfterPublication
<1>34. CASE LeaveOpen
  BY <1>34 DEF LeaveOpen, End, Raises
<1>35. CASE WatchCI
  BY <1>35 DEF WatchCI, Move, Continue, Raises
<1>36. CASE Observe
  BY <1>36 DEF Observe, Goto, Stop, NeedsHuman, End
<1>37. CASE Verdict
  BY <1>37 DEF Verdict, Goto, Move, Continue, Stop, NeedsHuman, End
<1>38. CASE Diagnose
  BY <1>38 DEF Diagnose, Goto, Stop, NeedsHuman, End
<1>39. CASE RepairCI
  BY <1>39 DEF RepairCI, Continue
<1>40. CASE Finish
  BY <1>40 DEF Finish, Goto, Stop, NeedsHuman, End
<1>41. CASE SaveMerge
  BY <1>41 DEF SaveMerge, Goto
<1>42. CASE RecoverAbandoned
  BY <1>42 DEF RecoverAbandoned, NeedsHuman, End
<1>43. CASE CountRestart
  BY <1>43 DEF CountRestart, Goto
<1>44. CASE CountInterruptedAttempt
  BY <1>44 DEF CountInterruptedAttempt, Goto
<1>45. CASE EndRestarted
  BY <1>45 DEF EndRestarted, Continue, NeedsHuman, End, TooManyRestarts
<1>46. CASE RestartFromScratch
  BY <1>46 DEF RestartFromScratch, Continue
<1>47. CASE RestartAtPlanning
  BY <1>47 DEF RestartAtPlanning, Continue
<1>48. CASE RestartFails
  BY <1>48 DEF RestartFails, StopInterrupted, Goto, NeedsHuman, End
<1>49. CASE ResumeDelivery
  BY <1>49 DEF ResumeDelivery, StopInterrupted, Goto, NeedsHuman, End, AfterPublication
<1>50. CASE ReopenAtPlanning
  BY <1>50 DEF ReopenAtPlanning, Reopened, Continue
<1>51. CASE ReopenDeliveryRetry
  BY <1>51 DEF ReopenDeliveryRetry, Reopened, Continue
<1>52. CASE ReopenAttemptGrant
  BY <1>52 DEF ReopenAttemptGrant, Reopened, Continue
<1>53. CASE ReopenFindingsAcceptance
  BY <1>53 DEF ReopenFindingsAcceptance, Reopened, Continue
<1>54. CASE ReopenScopeApproval
  BY <1>54 DEF ReopenScopeApproval, Reopened, Continue
<1>55. CASE ReopenCIRepairRetry
  BY <1>55 DEF ReopenCIRepairRetry, Reopened, Continue
<1>56. CASE FailReopen
  BY <1>56 DEF FailReopen
<1>57. CASE Escalate
  BY <1>57 DEF Escalate, Continue
<1>58. CASE StopRequested
  BY <1>58 DEF StopRequested, NeedsHuman, End
<1>59. CASE Interrupt
  BY <1>59 DEF Interrupt
<1>60. CASE EditWorktree
  BY <1>60 DEF EditWorktree
<1>61. CASE UNCHANGED vars
  BY <1>61 DEF vars
<1>62. CASE RepairDiffFails
  BY <1>62 DEF RepairDiffFails, NeedsHuman, End
<1> QED
  BY <1>1, <1>2, <1>3, <1>4, <1>5, <1>6, <1>7, <1>8, <1>9, <1>10, <1>11, <1>12, <1>13, <1>14,
     <1>15, <1>16, <1>17, <1>18, <1>19, <1>20, <1>21, <1>22, <1>23, <1>24, <1>25, <1>26, <1>27,
     <1>28, <1>29, <1>30, <1>31, <1>32, <1>33, <1>34, <1>35, <1>36, <1>37, <1>38, <1>39, <1>40,
     <1>41, <1>42, <1>43, <1>44, <1>45, <1>46, <1>47, <1>48, <1>49, <1>50, <1>51, <1>52, <1>53,
     <1>54, <1>55, <1>56, <1>57, <1>58, <1>59, <1>60, <1>61, <1>62 DEF Next, Work, Deliver,
     Recover, Person

-----------------------------------------------------------------------------
(* Findings a person accepted *)

\* A review impasse is only kept for an attended run, and nothing removes it: with it a halt can
\* only be answered by accepting findings.  After such an acceptance the run needs a look until it
\* is escalated, and then it is planned anew: its next attempt drops the acceptance.  Only an
\* unattended run restarts or publishes as it is.
OperatorInv ==
    /\ Unattended => ~impasse
    /\ pc \in {"count", "restart", "as_is"} => Unattended
    /\ acceptance.kind = "OPERATOR" => impasse
    /\ acceptance.kind = "OPERATOR" /\ ~needsLook
           => /\ pc \in {"plan", "synthesize", "select", "idle"}
              /\ state \in {"PLANNING", "IMPLEMENTING", "NEEDS_HUMAN", "FAILED"}
    /\ state = "NEEDS_HUMAN" /\ impasse => halt.class \in {"ACCEPT_FINDINGS", "NOT_RESUMABLE"}
    /\ state = "NEEDS_HUMAN" /\ halt.class = "ACCEPT_FINDINGS" => impasse

\* Every step keeps the trace of an acceptance by a person.
LEMMA OperatorInvKept == TypeOK /\ StepState /\ OperatorInv /\ [Next]_vars => OperatorInv'
<1> SUFFICES ASSUME TypeOK, StepState, OperatorInv, [Next]_vars PROVE OperatorInv'
  OBVIOUS
<1>a. needsLook \in BOOLEAN /\ (pc \in {"count", "restart", "as_is"} => Unattended)
  BY DEF TypeOK, OperatorInv
<1> USE DEF OperatorInv, NoAcceptance, life, ledger, stored
<1>1. CASE Prepare
  BY <1>1, <1>a DEF Prepare, Move, Continue, NeedsHuman, End, Fails, Classify, CIReasons,
     StepState
<1>2. CASE Triage
  BY <1>2, <1>a DEF Triage, Goto, Fails, End, Classify, CIReasons, StepState
<1>3. CASE DecideRoute
  BY <1>3, <1>a DEF DecideRoute, Goto, StepState
<1>4. CASE Gate
  BY <1>4, <1>a DEF Gate, Move, Continue, NeedsHuman, End, TriageGate, Classify, CIReasons,
     StepState
<1>5. CASE Synthesize
  BY <1>5, <1>a DEF Synthesize, Continue, StepState
<1>6. CASE Plan
  BY <1>6, <1>a DEF Plan, Continue, NeedsHuman, End, Fails, Classify, CIReasons, StepState
<1>7. CASE BudgetEnds
  BY <1>7, <1>a DEF BudgetEnds, Goto, NeedsHuman, End, Classify, CIReasons, StepState
<1>8. CASE StartAttempt
  BY <1>8, <1>a DEF StartAttempt, Goto, Fails, End, Classify, CIReasons, StepState
<1>9. CASE ImplementerReturns
  BY <1>9, <1>a DEF ImplementerReturns, Continue, StepState
<1>10. CASE VerifyFails
  BY <1>10, <1>a DEF VerifyFails, Move, Continue, StepState
<1>11. CASE VerifyPasses
  BY <1>11, <1>a DEF VerifyPasses, Continue, Move, StepState
<1>12. CASE ScopeReplan
  BY <1>12, <1>a DEF ScopeReplan, Move, Continue, NeedsHuman, End, Classify, CIReasons,
     StepState
<1>13. CASE ScopeHalts
  BY <1>13, <1>a DEF ScopeHalts, NeedsHuman, End, Classify, CIReasons, StepState
<1>14. CASE Replan
  BY <1>14, <1>a DEF Replan, Move, Continue, Fails, End, Classify, CIReasons, StepState
<1>15. CASE ScopePasses
  BY <1>15, <1>a DEF ScopePasses, Continue, Move, StepState
<1>16. CASE Reverify
  BY <1>16, <1>a DEF Reverify, Move, Continue, StepState
<1>17. CASE SkipReview
  BY <1>17, <1>a DEF SkipReview, Continue, StepState
<1>18. CASE Review
  BY <1>18, <1>a DEF Review, Fails, End, Classify, CIReasons, StepState
<1>19. CASE AcceptFindings
  BY <1>19, <1>a DEF AcceptFindings, Move, Continue, StepState
<1>20. CASE KeepImpasse
  BY <1>20, <1>a DEF KeepImpasse, Goto, StepState
<1>21. CASE HaltOnImpasse
  BY <1>21, <1>a DEF HaltOnImpasse, NeedsHuman, End, Classify, CIReasons, StepState
<1>22. CASE RepairFindings
  BY <1>22, <1>a DEF RepairFindings, Move, Continue, StepState
<1>23. CASE Approve
  BY <1>23, <1>a DEF Approve, Move, Continue, StepState
<1>24. CASE PublishAsIs
  BY <1>24, <1>a DEF PublishAsIs, Continue, Stop, Goto, NeedsHuman, End, Classify, CIReasons,
     StepState, AdoptCurrentTree
<1>25. CASE Ready
  BY <1>25, <1>a DEF Ready, Goto, StepState
<1>26. CASE ReviewedEvidence
  BY <1>26, <1>a DEF ReviewedEvidence, Goto, Stop, NeedsHuman, End, Classify, CIReasons,
     StepState, AdoptCurrentTree
<1>27. CASE PublishScope
  <2>1. CASE Stop("other")
    BY <1>27, <2>1, <1>a
       DEF PublishScope, Goto, NeedsHuman, End, Stop, Classify, CIReasons, StepState
  <2>2. CASE NeedsHuman("scope")
    BY <1>27, <2>2, <1>a DEF PublishScope, NeedsHuman, End, Classify, CIReasons, StepState
  <2>3. CASE Goto("receipt") /\ UNCHANGED life
    <3>1. ~Unattended => needsLook' = needsLook
      BY <1>27, <2>3, <1>a DEF PublishScope, NeedsHuman, Stop
    <3>2. pc' = "receipt" /\ UNCHANGED <<state, halt, impasse, acceptance>>
      BY <1>27, <2>3 DEF PublishScope, Goto
    <3> QED BY <1>27, <3>1, <3>2 DEF PublishScope, StepState
  <2> QED BY <1>27, <2>1, <2>2, <2>3 DEF PublishScope
<1>28. CASE RecordCommit
  BY <1>28, <1>a DEF RecordCommit, Goto, Stop, NeedsHuman, End, Classify, CIReasons, StepState
<1>29. CASE MoveBranch
  BY <1>29, <1>a DEF MoveBranch, Goto, StepState
<1>30. CASE Push
  BY <1>30, <1>a DEF Push, Goto, Stop, NeedsHuman, End, Classify, CIReasons, StepState
<1>31. CASE OpenPullRequest
  BY <1>31, <1>a DEF OpenPullRequest, Goto, Stop, NeedsHuman, End, Classify, CIReasons,
     StepState
<1>32. CASE SavePublished
  BY <1>32, <1>a DEF SavePublished, Goto, StepState
<1>33. CASE PullRequestCreated
  BY <1>33, <1>a DEF PullRequestCreated, Move, Continue, AfterPublication, StepState
<1>34. CASE LeaveOpen
  BY <1>34, <1>a DEF LeaveOpen, End, Raises, Classify, CIReasons, StepState
<1>35. CASE WatchCI
  BY <1>35, <1>a DEF WatchCI, Move, Continue, Raises, StepState
<1>36. CASE Observe
  BY <1>36, <1>a DEF Observe, Goto, Stop, NeedsHuman, End, Classify, CIReasons, StepState
<1>37. CASE Verdict
  BY <1>37, <1>a DEF Verdict, Goto, Move, Continue, Stop, NeedsHuman, End, Classify, CIReasons,
     StepState
<1>38. CASE Diagnose
  BY <1>38, <1>a DEF Diagnose, Goto, Stop, NeedsHuman, End, Classify, CIReasons, StepState
<1>39. CASE RepairCI
  BY <1>39, <1>a DEF RepairCI, Continue, StepState
<1>40. CASE Finish
  BY <1>40, <1>a DEF Finish, Goto, Stop, NeedsHuman, End, Classify, CIReasons, StepState
<1>41. CASE SaveMerge
  BY <1>41, <1>a DEF SaveMerge, Goto, StepState
<1>42. CASE RecoverAbandoned
  BY <1>42, <1>a DEF RecoverAbandoned, NeedsHuman, End, Classify, CIReasons, StepState,
     Interrupted, is_run_finished, Terminal, DeliveryStates
<1>43. CASE CountRestart
  BY <1>43, <1>a DEF CountRestart, Goto, StepState, Interrupted, is_run_finished, Terminal,
     DeliveryStates
<1>44. CASE CountInterruptedAttempt
  BY <1>44, <1>a DEF CountInterruptedAttempt, Goto, StepState
<1>45. CASE EndRestarted
  BY <1>45, <1>a DEF EndRestarted, Continue, NeedsHuman, End, TooManyRestarts, Classify,
     CIReasons, StepState
<1>46. CASE RestartFromScratch
  BY <1>46, <1>a DEF RestartFromScratch, Continue, StepState
<1>47. CASE RestartAtPlanning
  BY <1>47, <1>a DEF RestartAtPlanning, Continue, StepState
<1>48. CASE RestartFails
  BY <1>48, <1>a DEF RestartFails, StopInterrupted, Goto, NeedsHuman, End, Classify, CIReasons,
     StepState
<1>49. CASE ResumeDelivery
  BY <1>49, <1>a DEF ResumeDelivery, StopInterrupted, Goto, NeedsHuman, End, AfterPublication,
     Classify, CIReasons, StepState, Interrupted, is_run_finished, Terminal, DeliveryStates
<1>50. CASE ReopenAtPlanning
  BY <1>50, <1>a DEF ReopenAtPlanning, Reopened, Continue, StepState
<1>51. CASE ReopenDeliveryRetry
  BY <1>51, <1>a DEF ReopenDeliveryRetry, Reopened, Continue, StepState
<1>52. CASE ReopenAttemptGrant
  BY <1>52, <1>a DEF ReopenAttemptGrant, Reopened, Continue, StepState
<1>53. CASE ReopenFindingsAcceptance
  BY <1>53, <1>a DEF ReopenFindingsAcceptance, Reopened, Continue, StepState
<1>54. CASE ReopenScopeApproval
  BY <1>54, <1>a DEF ReopenScopeApproval, Reopened, Continue, StepState
<1>55. CASE ReopenCIRepairRetry
  BY <1>55, <1>a DEF ReopenCIRepairRetry, Reopened, Continue, StepState
<1>56. CASE FailReopen
  BY <1>56, <1>a DEF FailReopen, StepState
<1>57. CASE Escalate
  BY <1>57, <1>a DEF Escalate, Continue, StepState
<1>58. CASE StopRequested
  BY <1>58, <1>a DEF StopRequested, NeedsHuman, End, Classify, CIReasons, StepState
<1>59. CASE Interrupt
  BY <1>59, <1>a DEF Interrupt, StepState
<1>60. CASE EditWorktree
  BY <1>60, <1>a DEF EditWorktree, StepState
<1>61. CASE UNCHANGED vars
  BY <1>61 DEF vars
<1>62. CASE RepairDiffFails
  BY <1>62, <1>a DEF RepairDiffFails, NeedsHuman, End, Classify, CIReasons, StepState
<1> QED
  BY <1>1, <1>2, <1>3, <1>4, <1>5, <1>6, <1>7, <1>8, <1>9, <1>10, <1>11, <1>12, <1>13, <1>14,
     <1>15, <1>16, <1>17, <1>18, <1>19, <1>20, <1>21, <1>22, <1>23, <1>24, <1>25, <1>26, <1>27,
     <1>28, <1>29, <1>30, <1>31, <1>32, <1>33, <1>34, <1>35, <1>36, <1>37, <1>38, <1>39, <1>40,
     <1>41, <1>42, <1>43, <1>44, <1>45, <1>46, <1>47, <1>48, <1>49, <1>50, <1>51, <1>52, <1>53,
     <1>54, <1>55, <1>56, <1>57, <1>58, <1>59, <1>60, <1>61, <1>62 DEF Next, Work, Deliver,
     Recover, Person

\* The inductive invariant of published work.
WorkInv == AcceptedInv /\ ReceiptInv /\ OperatorInv

\* It holds in every reachable state.
LEMMA WorkInvCorrect == Spec => []WorkInv
<1>1. Init => WorkInv
  BY BoundAssumption, NoneAssumption
     DEF Init, WorkInv, AcceptedInv, ReceiptInv, OperatorInv, Okay, NoAcceptance, NoHalt
<1>2. TypeOK /\ StepState /\ WorkInv /\ [Next]_vars => WorkInv'
  <2> SUFFICES ASSUME TypeOK, StepState, WorkInv, [Next]_vars PROVE WorkInv'
    OBVIOUS
  <2>1. AcceptedInv /\ ReceiptInv /\ OperatorInv /\ (pc = "as_is" => Unattended)
    BY DEF WorkInv, OperatorInv
  <2> QED BY <2>1, AcceptedInvKept, ReceiptInvKept, OperatorInvKept DEF WorkInv
<1> QED
  BY <1>1, <1>2, TypeCorrect, StepStateCorrect, PTL DEF Spec

\* What a run has on its branch is accepted or flagged, whatever restarts, repairs, reopens and
\* escalations happened in between (publish, adopt_current_tree, publish_as_is, escalate).
THEOREM PullRequestCorrect == Spec => []PullRequestHoldsAcceptedWork
<1>1. WorkInv => PullRequestHoldsAcceptedWork
  BY DEF WorkInv, AcceptedInv, Okay, PullRequestHoldsAcceptedWork
<1> QED
  BY <1>1, WorkInvCorrect, PTL

\* No step but Push moves the branch on the remote.
LEMMA OnlyPushMovesBranch == [Next]_vars => Push \/ UNCHANGED remote
<1> SUFFICES ASSUME [Next]_vars PROVE Push \/ UNCHANGED remote
  OBVIOUS
<1> USE DEF repo
<1>1. CASE Work
  BY <1>1 DEF Work, Prepare, Triage, DecideRoute, Gate, Synthesize, Plan, BudgetEnds,
     StartAttempt, ImplementerReturns, VerifyFails, VerifyPasses, ScopeReplan, ScopeHalts,
     Replan, ScopePasses, Reverify, SkipReview, RepairDiffFails, Review, AcceptFindings,
     KeepImpasse, HaltOnImpasse, RepairFindings, Approve
<1>2. CASE Deliver
  BY <1>2 DEF Deliver, PublishAsIs, Ready, ReviewedEvidence, PublishScope, RecordCommit,
     MoveBranch, OpenPullRequest, SavePublished, PullRequestCreated, LeaveOpen, WatchCI, Observe,
     Verdict, Diagnose, RepairCI, Finish, SaveMerge
<1>3. CASE Recover
  BY <1>3 DEF Recover, RecoverAbandoned, CountRestart, CountInterruptedAttempt,
     EndRestarted, RestartFromScratch, RestartAtPlanning, RestartFails, ResumeDelivery
<1>4. CASE Person
  BY <1>4 DEF Person, ReopenAtPlanning, ReopenDeliveryRetry, ReopenAttemptGrant,
     ReopenFindingsAcceptance, ReopenScopeApproval, ReopenCIRepairRetry, FailReopen, Escalate,
     StopRequested
<1>5. CASE Interrupt \/ EditWorktree \/ UNCHANGED vars
  BY <1>5 DEF Interrupt, EditWorktree, vars
<1> QED BY <1>1, <1>2, <1>3, <1>4, <1>5 DEF Next

\* No step but Finish merges.
LEMMA OnlyFinishMerges == [Next]_vars => Finish \/ UNCHANGED mergedTree
<1> SUFFICES ASSUME [Next]_vars PROVE Finish \/ UNCHANGED mergedTree
  OBVIOUS
<1> USE DEF repo
<1>1. CASE Work
  BY <1>1 DEF Work, Prepare, Triage, DecideRoute, Gate, Synthesize, Plan, BudgetEnds,
     StartAttempt, ImplementerReturns, VerifyFails, VerifyPasses, ScopeReplan, ScopeHalts,
     Replan, ScopePasses, Reverify, SkipReview, RepairDiffFails, Review, AcceptFindings,
     KeepImpasse, HaltOnImpasse, RepairFindings, Approve
<1>2. CASE Deliver
  BY <1>2 DEF Deliver, PublishAsIs, Ready, ReviewedEvidence, PublishScope, RecordCommit,
     MoveBranch, Push, OpenPullRequest, SavePublished, PullRequestCreated, LeaveOpen, WatchCI,
     Observe, Verdict, Diagnose, RepairCI, SaveMerge
<1>3. CASE Recover
  BY <1>3 DEF Recover, RecoverAbandoned, CountRestart, CountInterruptedAttempt,
     EndRestarted, RestartFromScratch, RestartAtPlanning, RestartFails, ResumeDelivery
<1>4. CASE Person
  BY <1>4 DEF Person, ReopenAtPlanning, ReopenDeliveryRetry, ReopenAttemptGrant,
     ReopenFindingsAcceptance, ReopenScopeApproval, ReopenCIRepairRetry, FailReopen, Escalate,
     StopRequested
<1>5. CASE Interrupt \/ EditWorktree \/ UNCHANGED vars
  BY <1>5 DEF Interrupt, EditWorktree, vars
<1> QED BY <1>1, <1>2, <1>3, <1>4, <1>5 DEF Next

\* The factory pushes only the exact tree a review or a person accepted, or, for an unattended run,
\* one it flagged: every push of every delivery, repair and retry.
THEOREM PushCorrect == Spec => PushesAcceptedWork
<1>1. WorkInv /\ [Next]_vars
        => [remote' # remote => remote' \in cleared \/ FlaggedWork(remote')]_vars
  <2> SUFFICES ASSUME WorkInv, [Next]_vars, remote' # remote
               PROVE  remote' \in cleared \/ FlaggedWork(remote')
    OBVIOUS
  <2>1. pc = "push" /\ remote' = pending
    BY OnlyPushMovesBranch DEF Push
  <2>2. pending # None /\ Okay(pending)
    BY <2>1 DEF WorkInv, ReceiptInv, AcceptedInv
  <2> QED BY <2>1, <2>2 DEF Okay, FlaggedWork
<1> QED
  BY <1>1, WorkInvCorrect, PTL DEF Spec, PushesAcceptedWork

\* The factory merges only the commit it recorded, with work that a review or a person accepted or
\* that a person escalated, and never a run that a person must look at or whose findings a person
\* accepted (merge_and_finish, ADR-059).
THEOREM MergeCorrect == Spec => MergesOnlyAcceptedWork
<1>1. TypeOK /\ StepState /\ WorkInv /\ [Next]_vars
        => [mergedTree' # mergedTree
              => /\ mergedTree' = commit /\ (commit \in cleared \/ FlaggedWork(commit))
                 /\ ~needsLook /\ acceptance.kind # "OPERATOR"]_vars
  <2> SUFFICES ASSUME TypeOK, StepState, WorkInv, [Next]_vars, mergedTree' # mergedTree
               PROVE  /\ mergedTree' = commit /\ (commit \in cleared \/ FlaggedWork(commit))
                      /\ ~needsLook /\ acceptance.kind # "OPERATOR"
    OBVIOUS
  <2>1. /\ pc = "finish" /\ MayMerge /\ PublishedWorkspace
        /\ remote = commit /\ mergedTree' = remote
    BY OnlyFinishMerges DEF Finish
  <2>2. commit \in Trees /\ commit # None
    BY <2>1, TreeAssumption DEF PublishedWorkspace, TypeOK, RepoType
  <2>3. state = "CI_RUNNING"
    BY <2>1 DEF StepState
  <2>4. commit \in cleared \/ FlaggedWork(commit)
    BY <2>2 DEF WorkInv, AcceptedInv, Okay
  <2>5. acceptance.kind # "OPERATOR"
    BY <2>1, <2>3 DEF WorkInv, OperatorInv, MayMerge
  <2> QED BY <2>1, <2>4, <2>5 DEF MayMerge
<1> QED
  BY <1>1, WorkInvCorrect, TypeCorrect, StepStateCorrect, PTL DEF Spec, MergesOnlyAcceptedWork

================================================================================
