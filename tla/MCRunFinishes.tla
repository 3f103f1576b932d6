---------------------------- MODULE MCRunFinishes ----------------------------
(***************************************************************************)
(* Two instances of RunController in one run of TLC, chosen at the start:   *)
(* the run of the configuration file, and an attended one without pull     *)
(* requests and with a polish attempt.                                      *)
(***************************************************************************)
EXTENDS RunController

VARIABLE local   \* which of the two

Local == INSTANCE RunController
           WITH Unattended <- FALSE, PullRequests <- FALSE, CIObserved <- FALSE,
                MergeEnabled <- FALSE, PolishEnabled <- TRUE, MaxTotalAttempts <- 3,
                MaxRounds <- 2

Fair == \/ local /\ (Local!Work \/ Local!Deliver \/ Local!Recover)
        \/ ~local /\ (Work \/ Deliver \/ Recover)

MCInit == (local = TRUE /\ Local!Init) \/ (local = FALSE /\ Init)
MCNext == ((local /\ Local!Next) \/ (~local /\ Next)) /\ UNCHANGED local

MCSpec == MCInit /\ [][MCNext]_<<vars, local>> /\ WF_<<vars, local>>(Fair /\ UNCHANGED local)

=============================================================================
