----------------------------- MODULE AttemptChecks -----------------------------
(***************************************************************************)
(* The worktree of a run from the implementer to the review (_verify and    *)
(* _drive_to_pr_ready in workflow.py, governance.py, verification.py,       *)
(* mutation_gate.py, revert_check.py): the repository's own commands run in *)
(* the tree they check, the mutation gate adds a directory to it, and the   *)
(* revert check takes the change out of it and puts it back.                *)
(*                                                                          *)
(* A tree is what four paths hold: a source file, a test file, a file that  *)
(* only a command would write, and mutants/.  Git ignores none of them.     *)
(* The factory may die at any point; an unattended run is restarted on the  *)
(* tree as it was left, and is published as it is when that happens too     *)
(* often.                                                                   *)
(***************************************************************************)
EXTENDS Naturals, TLC

CONSTANTS MaxCalls,       \* calls of the implementer
          MaxRestarts,    \* MAX_RESTART_RECOVERIES
          MaxRunCrashes   \* bound: deaths of the factory

Paths == {"source", "test", "output", "mutants"}

VARIABLES base,      \* the tree of the base commit
          tree,      \* the worktree
          evidence,  \* the tree that was collected after the implementer
          generated, \* verification_generated_paths
          byCheck,   \* the paths a check wrote last, and not the implementer
          verified,  \* the tree the commands of this verification began with
          phase, passed, counts

checkVars == <<base, tree, evidence, generated, byCheck, verified, phase, passed, counts>>

Changed(t) == {p \in Paths : t[p] # base[p]}
Only(t, b, paths) == [p \in Paths |-> IF p \in paths THEN t[p] ELSE b[p]]

CheckInit ==
  /\ \E owned \in BOOLEAN :
       base = [source |-> "base", test |-> "base", output |-> "absent",
               mutants |-> IF owned THEN "base" ELSE "absent"]
  /\ tree = base /\ evidence = base /\ verified = base
  /\ generated = {} /\ byCheck = {}
  /\ phase = "implement" /\ passed = TRUE
  /\ counts = [attempts |-> 0, restarts |-> 0, crashes |-> 0]

Go(s) == phase' = s /\ UNCHANGED <<base, counts>>

-----------------------------------------------------------------------------
(* The attempt: _invoke_implementer *)

\* The agent changes, reverts or removes any file of the tree.
Writing(p) == {base[p], IF p \in {"source", "test"} THEN "change" ELSE "absent"}

\* A failed call leaves its evidence too, but the next call is another attempt.
InvokeImplementer ==
  /\ phase = "implement" /\ counts.attempts < MaxCalls
  /\ \E wrote \in SUBSET Paths, ok \in BOOLEAN :
       /\ \E files \in [wrote -> {"absent", "base", "change"}] :
            /\ \A p \in wrote : files[p] \in Writing(p)
            /\ tree' = files @@ tree
       /\ evidence' = tree'
       /\ byCheck' = byCheck \ wrote
       /\ phase' = IF ok THEN "implemented" ELSE "implement"
  /\ counts' = [counts EXCEPT !.attempts = @ + 1]
  /\ UNCHANGED <<base, generated, verified, passed>>

\* What verification generated must be gone before anything is verified again.
Retained ==
  /\ phase = "implemented" /\ generated \cap Changed(evidence) # {}
  /\ Go("implement")
  /\ UNCHANGED <<tree, evidence, generated, byCheck, verified, passed>>

Accepted ==
  /\ phase = "implemented" /\ generated \cap Changed(evidence) = {}
  /\ generated' = {}
  /\ verified' = tree /\ passed' = TRUE
  /\ Go("install")
  /\ UNCHANGED <<tree, evidence, byCheck>>

-----------------------------------------------------------------------------
(* The commands: RepositoryVerifier.run *)

\* A command may write a file of its own, or rewrite the source, as a formatter does.
Disturbed(t) ==
  {t} \cup {[t EXCEPT ![p] = "other"] : p \in {"source", "output"}}

Runs(ok) ==
  \E t \in Disturbed(tree) :
    /\ tree' = t
    /\ byCheck' = byCheck \cup {p \in Paths : t[p] # tree[p]}
    /\ passed' = ok
    /\ UNCHANGED <<evidence, generated, verified>>

Install == phase = "install" /\ \E ok \in BOOLEAN : Runs(ok) /\ Go(IF ok THEN "verify" ELSE "failed")

\* Every verify command runs, also after one that failed.
Verify == phase = "verify" /\ \E ok \in BOOLEAN : Runs(passed /\ ok) /\ Go("verify")
VerifyDone ==
  /\ phase = "verify" /\ Go(IF passed THEN "build" ELSE "failed")
  /\ UNCHANGED <<tree, evidence, generated, byCheck, verified, passed>>
Build == phase = "build" /\ \E ok \in BOOLEAN : Runs(ok) /\ Go(IF ok THEN "gate" ELSE "failed")

\* A failed verification goes back to the implementer; nothing is collected.
Failed ==
  /\ phase = "failed" /\ Go("implement")
  /\ UNCHANGED <<tree, evidence, generated, byCheck, verified, passed>>

-----------------------------------------------------------------------------
(* The advisory checks *)

\* No tool, no changed module, or a mutants/ that is there already: no gate.
SkipGate ==
  /\ phase = "gate" /\ Go("revert")
  /\ UNCHANGED <<tree, evidence, generated, byCheck, verified, passed>>

Mutate ==
  /\ phase = "gate" /\ "source" \in Changed(evidence) /\ tree["mutants"] = "absent"
  /\ tree' = [tree EXCEPT !["mutants"] = "other"]
  /\ byCheck' = byCheck \cup {"mutants"}
  /\ Go("mutating")
  /\ UNCHANGED <<evidence, generated, verified, passed>>

\* A directory that cannot be removed is an error of the gate, which skips it.
RemoveMutants ==
  /\ phase = "mutating"
  /\ \/ /\ tree' = [tree EXCEPT !["mutants"] = "absent"]
        /\ byCheck' = byCheck \ {"mutants"}
     \/ UNCHANGED <<tree, byCheck>>
  /\ Go("revert")
  /\ UNCHANGED <<evidence, generated, verified, passed>>

\* revert_check_sources
Sources == IF "test" \in Changed(evidence) THEN Changed(evidence) \ {"test"} ELSE {}

SkipRevert ==
  /\ phase = "revert" /\ Go("compare")
  /\ UNCHANGED <<tree, evidence, generated, byCheck, verified, passed>>

Revert ==
  /\ phase = "revert" /\ Sources # {}
  /\ tree' = Only(base, tree, Sources)
  /\ byCheck' = byCheck \cup Sources
  /\ Go("reverted")
  /\ UNCHANGED <<evidence, generated, verified, passed>>

\* The verify commands again, whatever they say.
VerifyReverted ==
  /\ phase = "reverted" /\ Runs(passed) /\ Go("restore")

\* A restore that does not give the collected content raises: the run stops there.
Restore ==
  /\ phase = "restore"
  /\ \/ /\ tree' = Only(evidence, tree, Sources)
        /\ byCheck' = byCheck \ Sources
        /\ Go("compare")
     \/ Go("down") /\ UNCHANGED <<tree, byCheck>>
  /\ UNCHANGED <<evidence, generated, verified, passed>>

\* Mutant of Same: only the names of the changed files are compared.
SameFiles == Changed(tree) = Changed(evidence)

Same == tree = evidence

Compare ==
  /\ phase = "compare"
  /\ \/ Same /\ Go("review") /\ UNCHANGED <<evidence, generated>>
     \/ /\ ~Same
        /\ generated' = generated \cup (Changed(tree) \ Changed(evidence))
        /\ evidence' = tree
        /\ Go("implement")
  /\ UNCHANGED <<tree, byCheck, verified, passed>>

\* The reviewer asks for a repair, or a polish attempt is made first.
Rejected ==
  /\ phase = "review" /\ Go("implement")
  /\ UNCHANGED <<tree, evidence, generated, byCheck, verified, passed>>

Ready ==
  /\ phase = "review" /\ Go("ready")
  /\ UNCHANGED <<tree, evidence, generated, byCheck, verified, passed>>

\* publish_as_is: the budget is used up.
PublishesTree ==
  /\ Go("published") /\ evidence' = tree
  /\ UNCHANGED <<tree, generated, byCheck, verified, passed>>
Exhausted == phase = "implement" /\ counts.attempts = MaxCalls /\ PublishesTree

-----------------------------------------------------------------------------
(* The restart of an unattended run *)

CrashRun ==
  /\ phase \notin {"down", "ready", "published"} /\ counts.crashes < MaxRunCrashes
  /\ phase' = "down"
  /\ counts' = [counts EXCEPT !.crashes = @ + 1]
  /\ UNCHANGED <<base, tree, evidence, generated, byCheck, verified, passed>>

\* restart_interrupted_run: the attempt that was running counts, what
\* verification generated is forgotten with the driver.
Restart ==
  /\ phase = "down" /\ counts.restarts < MaxRestarts
  /\ counts' = [counts EXCEPT !.restarts = @ + 1]
  /\ generated' = {} /\ evidence' = base
  /\ phase' = "implement"
  /\ UNCHANGED <<base, tree, byCheck, verified, passed>>

RestartedTooOften ==
  /\ phase = "down" /\ counts.restarts = MaxRestarts /\ PublishesTree

CheckNext ==
  \/ InvokeImplementer \/ Retained \/ Accepted
  \/ Install \/ Verify \/ VerifyDone \/ Build \/ Failed
  \/ SkipGate \/ Mutate \/ RemoveMutants
  \/ SkipRevert \/ Revert \/ VerifyReverted \/ Restore
  \/ Compare \/ Rejected \/ Ready \/ Exhausted
  \/ CrashRun \/ Restart \/ RestartedTooOften

CheckSpec == CheckInit /\ [][CheckNext]_checkVars

-----------------------------------------------------------------------------
(* Properties *)

\* A tree goes to the tester and the reviewer only as it was when its own
\* verification began, after every command, the mutation gate and the revert check
\* ran in it, and whatever an earlier attempt, crash or restart left behind
\* (_drive_to_pr_ready: verified_evidence against evidence).
ReviewsWhatWasVerified ==
  phase \in {"review", "ready"} => tree = verified /\ evidence = verified

(* Promises of the documentation that the code does not keep: each can be refuted. *)

\* "Any generated, staged or rewritten file returns the run to IMPLEMENTING with
\* explicit repair context before Tester or Reviewer runs" (docs/architecture.md):
\* no file that a check wrote last is part of what is reviewed.
NothingGeneratedIsReviewed ==
  phase = "review" => byCheck \cap Changed(evidence) = {}

\* "The run never continues without its production change" (docs/decisions.md): what
\* is published is not the tests of a change that the revert check took out.
PublishesTheChange ==
  phase = "published" => ("source" \in byCheck => tree["source"] # "base")

=============================================================================
