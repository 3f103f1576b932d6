-------------------------- MODULE MCFactoryService --------------------------
(***************************************************************************)
(* Instances of FactoryService for TLC.  Jobs are only compared with one    *)
(* another, so they are symmetric in the runs that check no liveness.      *)
(***************************************************************************)
EXTENDS FactoryService, TLC

JobSymmetry == Permutations(Jobs)

=============================================================================
