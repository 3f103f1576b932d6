-------------------------- MODULE PublicationSteps --------------------------
(***************************************************************************)
(* What the bound publication promises: a commit is recorded before anyone  *)
(* can see it, only the recorded commit is shown, it continues the history  *)
(* that was published before, and it counts as published only once it has  *)
(* been shown.  A commit is the sequence of commits it was made on, itself  *)
(* last; the commit the run started from is <<>>.                           *)
(***************************************************************************)
EXTENDS Sequences, SequencesExt

VARIABLES
  pending,   \* the recorded commit, or <<>>
  shown,     \* the factory's commits that a remote repository holds
  saved      \* the last commit that counts as published

psVars == <<pending, shown, saved>>

PsInit == pending = <<>> /\ shown = {} /\ saved = <<>>

\* Record a commit on top of the published history.
PsRecord ==
  /\ pending = <<>> /\ pending' # <<>>
  /\ Front(pending') = saved
  /\ UNCHANGED <<shown, saved>>

\* A remote repository, or another one, holds the recorded commit.
PsShow ==
  /\ pending # <<>>
  /\ shown' = shown \union {pending}
  /\ UNCHANGED <<pending, saved>>

PsSave ==
  /\ pending \in shown
  /\ saved' = pending
  /\ pending' = <<>>
  /\ UNCHANGED shown

PsNext == PsRecord \/ PsShow \/ PsSave

PsSpec == PsInit /\ [][PsNext]_psVars

=============================================================================
