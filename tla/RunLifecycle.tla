---------------------------- MODULE RunLifecycle ----------------------------
(***************************************************************************)
(* The life of one factory run as lifecycle.py declares it: the transition *)
(* table, the recovery moves outside the table, and the two fields that    *)
(* decide whether a run is finished.  It is the abstract specification the *)
(* run controller is shown to implement.                                   *)
(***************************************************************************)

VARIABLES
    state,      \* FactoryRun.state
    completed   \* whether FactoryRun.completed_at is stamped

vars == <<state, completed>>

TERMINAL_STATES == {"DONE", "NEEDS_HUMAN", "FAILED"}

\* The states from which resume continues a delivery instead of the work.
DeliveryStates == {"PR_READY", "PR_CREATED", "CI_RUNNING", "CI_DIAGNOSIS"}

ActiveStates ==
    {"CREATED", "TRIAGING", "REFINING", "RESEARCHING", "PLANNING",
     "IMPLEMENTING", "VERIFYING", "REVIEWING"} \cup DeliveryStates

States == ActiveStates \cup TERMINAL_STATES

\* The table without its two escalation columns.
Forward ==
    [s \in States |->
        CASE s = "CREATED"      -> {"TRIAGING"}
          [] s = "TRIAGING"     -> {"PLANNING"}
          [] s = "PLANNING"     -> {"IMPLEMENTING", "VERIFYING"}
          [] s = "IMPLEMENTING" -> {"VERIFYING", "PR_READY", "DONE"}
          [] s = "VERIFYING"    -> {"REVIEWING", "IMPLEMENTING", "PLANNING"}
          [] s = "REVIEWING"    -> {"PR_READY", "IMPLEMENTING"}
          [] s = "PR_READY"     -> {"PR_CREATED", "DONE"}
          [] s = "PR_CREATED"   -> {"CI_RUNNING", "DONE"}
          [] s = "CI_RUNNING"   -> {"DONE", "CI_DIAGNOSIS"}
          [] s = "CI_DIAGNOSIS" -> {"IMPLEMENTING", "DONE"}
          [] OTHER              -> {}]

ALLOWED_TRANSITIONS ==
    [s \in States |->
        Forward[s] \cup IF s \in ActiveStates THEN {"NEEDS_HUMAN", "FAILED"} ELSE {}]

\* restart_at: where an interrupted unattended run starts again.
RestartStates == {"CREATED", "PLANNING", "IMPLEMENTING"}

\* The states an operator escalation may leave.
EscalatableStates == DeliveryStates \cup {"NEEDS_HUMAN", "DONE"}

\* The states a reopen may resume at, over all resumable halt classes.
ReopenStates == {"PLANNING", "IMPLEMENTING", "PR_READY", "CI_RUNNING", "CI_DIAGNOSIS"}

is_run_finished ==
    \/ state \in TERMINAL_STATES
    \/ state = "PR_READY" /\ completed

-----------------------------------------------------------------------------

Init == state = "CREATED" /\ completed = FALSE

\* transition: a terminal state stamps completed_at, an active one clears it.
Transition ==
    \E s \in ALLOWED_TRANSITIONS[state] :
        /\ state' = s
        /\ completed' = (s \in TERMINAL_STATES)

\* finalize_pr_ready: the endpoint of the manual flow.
Finalize ==
    /\ state = "PR_READY"
    /\ completed' = TRUE
    /\ UNCHANGED state

\* restart_at is only reached from an unfinished state before delivery.
Restart ==
    /\ state \in ActiveStates \ DeliveryStates
    /\ state' \in RestartStates
    /\ completed' = FALSE

\* transition_reopened, the way out of NEEDS_HUMAN.
Reopen ==
    /\ state = "NEEDS_HUMAN"
    /\ state' \in ReopenStates
    /\ completed' = FALSE

\* fail_reopen keeps the run halted, without a completion stamp.
FailReopen ==
    /\ state = "NEEDS_HUMAN"
    /\ completed' = FALSE
    /\ UNCHANGED state

\* transition(..., operator_escalation=True).
Escalate ==
    /\ state \in EscalatableStates
    /\ state' = "PLANNING"
    /\ completed' = FALSE

Next == Transition \/ Finalize \/ Restart \/ Reopen \/ FailReopen \/ Escalate

Spec == Init /\ [][Next]_vars

=============================================================================
