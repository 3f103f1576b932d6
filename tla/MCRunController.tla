-------------------------- MODULE MCRunController --------------------------
(***************************************************************************)
(* Instances of RunController for TLC.  Trees other than the base tree are *)
(* interchangeable: every action only compares a tree with another tree.   *)
(***************************************************************************)
EXTENDS RunController, FiniteSets, TLC

TreeSymmetry == Permutations(Trees \ {Base})

\* The trees a state tells apart from the base.
TreesAtHand ==
    ({workTree, lastTree, reviewedTree, acceptance.tree, openFindings, pending, commit, patch,
      remote, mergedTree, ctx.evidence} \cup cleared \cup escalated) \ {Base, None}

\* Bounds of a run that an operator has escalated: one interruption, one tree besides the
\* base, a triage and a plan that ask nothing, and a CI that does not fail.  An escalation,
\* an interruption and an edited or lost worktree still come together, in every order.  A run
\* that nobody has escalated has none of these bounds.
EscalatedRunBounds ==
    escalations > 0 =>
        /\ interrupts <= 1
        /\ triage \in {None, "clear"}
        /\ plan # "undecided"
        /\ ciReport # "FAIL"
        /\ Cardinality(TreesAtHand) <= 1

=============================================================================
