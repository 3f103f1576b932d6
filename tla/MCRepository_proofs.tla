------------------------- MODULE MCRepository_proofs -------------------------
(***************************************************************************)
(* What holds of the merge of a pull request, of the worktrees of a          *)
(* repository, of its setup and of a project, for every value of the         *)
(* constants: the sets of checks, items, heads and processes, the tasks, the  *)
(* size of a wave, and every bound.  Repository_proofs has the publication    *)
(* and the lock.                                                             *)
(*                                                                           *)
(* The theorems are about MCSpec, so the components' variables are a .. h:    *)
(*                                                                           *)
(*        Merging (M)   Worktrees (W)   SetupRun (S)   Projects (J)          *)
(*   a    pull          repo            repo           plan                  *)
(*   b    branches      tree            record         project               *)
(*   c    checks        branch          tree           branches              *)
(*   d    policy        meta            checker        child                 *)
(*   e    merger        job             owner          runner                *)
(*   f    outcome       last            pulls          supply                *)
(*   g    green         times           job                                  *)
(*   h    left                          spent                                *)
(***************************************************************************)
EXTENDS MCRepository, FiniteSetTheorems, TLAPS

-----------------------------------------------------------------------------
\* THE MERGE.  The proofs rest on what the reads of the pull request and of the policy still
\* mean later: the checks of a head that passed once stay passed in the history (green), and
\* what nobody changes is as it was read.

\* The records of the pull request, of its branches, of the policy, of the thread and of
\* what is left have their fields.
MergeFields ==
  /\ {"state", "draft", "head", "base", "decision", "by"} \subseteq DOMAIN a
  /\ {"contexts", "strict", "reviewed", "queue", "bypass"} \subseteq DOMAIN d
  /\ {"pc", "polls", "seen"} \subseteq DOMAIN e
  /\ {"faults", "retries", "changes"} \subseteq DOMAIN h
  /\ c \in [M!Checks -> M!CheckStatus]

\* Required checks that pass on the reviewed head have passed on it, and a thread that is past
\* the first read saw that.
GreenInv ==
  /\ a.head = "reviewed" /\ (\A x \in RequiredChecks : c[x] = "PASS") => g = TRUE
  /\ e.pc \in {"policy", "second", "put", "final"} => g = TRUE
  /\ M!ReportedMergeIsProven

\* The required checks are those the rollup of the head reports as passed.
LEMMA PassMeansGreen ==
  ASSUME MergeFields, GreenInv, M!RequiredPass, a.head = "reviewed"
  PROVE  g = TRUE
BY DEF MergeFields, GreenInv, M!RequiredPass, M!Rollup, M!Checks

\* Every step of the merge, of GitHub and of people keeps that.
LEMMA GreenKept ==
  ASSUME MergeFields, GreenInv, M!MergeNext
  PROVE  MergeFields' /\ GreenInv'
<1> USE DEF MergeFields, GreenInv, M!ReportedMergeIsProven, M!server
<1>1. CASE M!Observe
  BY <1>1 DEF M!Observe, M!GoTo, M!Stop, M!Spend
<1>2. CASE M!FirstRead
  BY <1>2, PassMeansGreen
  DEF M!FirstRead, M!Read, M!GoTo, M!Stop, M!Spend, M!Confirm, M!Evidence, M!AsPlanned,
      M!Mergeable, M!Finish
<1>3. CASE M!ReadPolicy
  BY <1>3 DEF M!ReadPolicy, M!GoTo, M!Stop, M!Spend
<1>4. CASE M!SecondRead
  BY <1>4, PassMeansGreen
  DEF M!SecondRead, M!Read, M!GoTo, M!Stop, M!Spend, M!Confirm, M!Evidence, M!AsPlanned,
      M!Mergeable, M!Finish
<1>5. CASE M!RequestMerge
  BY <1>5 DEF M!RequestMerge, M!MergedBy, M!Accepts, M!GoTo, M!Stop, M!Spend
<1>6. CASE M!FinalRead
  BY <1>6 DEF M!FinalRead, M!GoTo, M!Stop, M!Spend, M!Confirm, M!AsPlanned, M!Finish
<1>7. CASE M!Retry
  BY <1>7 DEF M!Retry, M!Spend, M!Awake
<1>8. CASE M!CheckMoves
  BY <1>8 DEF M!CheckMoves, M!Sees
<1>9. CASE M!PeopleChange
  <2>1. a.state # "MERGED" /\ UNCHANGED <<d, e, f>> /\ M!Sees /\ M!Spend("changes")
    BY <1>9 DEF M!PeopleChange
  <2>2. {"state", "draft", "head", "base", "decision", "by"} \subseteq DOMAIN a'
        /\ c' \in [M!Checks -> M!CheckStatus]
    <3>1. CASE UNCHANGED <<a, c>>
      BY <3>1
    <3>2. CASE c' = [x \in M!Checks |-> "absent"] /\ a' = [a EXCEPT !.head = "other"]
      BY <3>2 DEF M!CheckStatus
    <3>3. CASE UNCHANGED c /\ DOMAIN a' = DOMAIN a
      BY <3>3
    <3>4. QED  BY <1>9, <3>1, <3>2, <3>3 DEF M!PeopleChange, M!MergedBy
  <2>3. h' = [h EXCEPT !["changes"] = @ - 1] /\ (g = TRUE => g' = TRUE)
    BY <2>1 DEF M!Spend, M!Sees
  <2>4. a'.head = "reviewed" /\ (\A x \in RequiredChecks : c'[x] = "PASS") => g' = TRUE
    BY <2>1 DEF M!Sees
  <2>5. QED  BY <2>1, <2>2, <2>3, <2>4
<1>10. CASE M!PolicyChanges
  BY <1>10 DEF M!PolicyChanges, M!Spend
<1>11. QED
  BY <1>1, <1>2, <1>3, <1>4, <1>5, <1>6, <1>7, <1>8, <1>9, <1>10 DEF M!MergeNext, M!Merge

\* Until somebody changes something, the policy a thread has read is still there, and after its
\* second read the pull request goes to the configured base.
EnforceInv ==
  /\ h.changes \in Nat
  /\ e.pc \in {"second", "put"} =>
       /\ e.seen \in Nat /\ h.changes <= e.seen
       /\ h.changes = e.seen => M!Enforced /\ (e.pc = "put" => a.base = "main")

\* So does what nobody has changed.
LEMMA EnforceKept ==
  ASSUME MergeFields, EnforceInv, M!MergeNext
  PROVE  EnforceInv'
<1> USE SharedAssumption DEF MergeFields, EnforceInv, M!server, M!Enforced, M!ReadContexts,
      M!Authorizes
<1>1. CASE M!Observe
  BY <1>1 DEF M!Observe, M!GoTo, M!Stop, M!Spend
<1>2. CASE M!FirstRead
  BY <1>2 DEF M!FirstRead, M!Read, M!GoTo, M!Stop, M!Spend, M!Confirm, M!Finish
<1>3. CASE M!ReadPolicy
  <2>1. CASE e' = [e EXCEPT !.pc = "idle"]
    BY <1>3, <2>1 DEF M!ReadPolicy, M!Spend
  <2>2. CASE M!Enforced /\ e' = [e EXCEPT !.pc = "second", !.seen = h.changes] /\ UNCHANGED h
    <3>1. e'.pc = "second" /\ e'.seen = h.changes /\ h' = h /\ d' = d
      BY <1>3, <2>2 DEF M!ReadPolicy
    <3>2. QED  BY <2>2, <3>1
  <2>3. QED  BY <1>3, <2>1, <2>2 DEF M!ReadPolicy, M!Stop
<1>4. CASE M!SecondRead
  BY <1>4 DEF M!SecondRead, M!Read, M!GoTo, M!Stop, M!Spend, M!Confirm, M!Finish, M!Mergeable
<1>5. CASE M!RequestMerge
  BY <1>5 DEF M!RequestMerge, M!MergedBy, M!GoTo, M!Stop, M!Spend
<1>6. CASE M!FinalRead
  BY <1>6 DEF M!FinalRead, M!GoTo, M!Stop, M!Spend, M!Confirm, M!Finish
<1>7. CASE M!Retry
  BY <1>7 DEF M!Retry, M!Spend, M!Awake
<1>8. CASE M!CheckMoves
  BY <1>8 DEF M!CheckMoves
<1>9. CASE M!PeopleChange \/ M!PolicyChanges
  <2>1. M!Spend("changes")
    BY <1>9 DEF M!PeopleChange, M!PolicyChanges
  <2>2. h'.changes = h.changes - 1 /\ h.changes > 0
    BY <2>1 DEF M!Spend
  <2>3. e' = e
    BY <1>9 DEF M!PeopleChange, M!PolicyChanges
  <2>4. QED  BY <2>2, <2>3
<1>10. QED
  BY <1>1, <1>2, <1>3, <1>4, <1>5, <1>6, <1>7, <1>8, <1>9 DEF M!MergeNext, M!Merge

\* The factory's merge is the step that asks GitHub for it.
LEMMA MergeIsEnforced ==
  ASSUME MergeFields, EnforceInv, M!MergeNext
  PROVE  M!EnforcesChecks
<1> SUFFICES ASSUME a.by = "nobody", a'.by = "factory", ~(h.changes < e.seen)
             PROVE  a.head = "reviewed" /\ M!Satisfied /\ RequiredChecks \subseteq d.contexts
  BY DEF M!EnforcesChecks
<1>1. M!RequestMerge
  <2>1. CASE M!PeopleChange
    BY <2>1 DEF MergeFields, M!PeopleChange, M!MergedBy
  <2>2. CASE M!Observe \/ M!FirstRead \/ M!ReadPolicy \/ M!SecondRead \/ M!FinalRead
             \/ M!Retry \/ M!CheckMoves \/ M!PolicyChanges
    BY <2>2 DEF M!Observe, M!FirstRead, M!ReadPolicy, M!SecondRead, M!FinalRead, M!Read,
       M!Retry, M!CheckMoves, M!PolicyChanges, M!server
  <2>3. QED  BY <2>1, <2>2 DEF M!MergeNext, M!Merge
<1>2. M!Accepts /\ e.pc = "put"
  BY <1>1 DEF M!RequestMerge
<1>3. a.base = "main" /\ M!Enforced
  BY <1>2 DEF EnforceInv
<1>4. d.bypass = FALSE /\ RequiredChecks \subseteq d.contexts
  BY <1>3, SharedAssumption DEF M!Enforced, M!ReadContexts, M!Authorizes
<1>5. QED  BY <1>2, <1>3, <1>4 DEF M!Accepts, M!Blocked

\* The merge is one of the components; the others do not touch what it has.
MergingInv == which = "merge" => MergeFields /\ GreenInv /\ EnforceInv

\* The invariant holds in every reachable state.
LEMMA MergingInvariant ==
  /\ MCInit => MergingInv
  /\ MergingInv /\ [MCNext]_mcvars => MergingInv'
<1>1. MCInit => MergingInv
  <2> SUFFICES ASSUME M!MergeInit PROVE MergeFields /\ GreenInv /\ EnforceInv
    BY DEF MCInit, MergingInv
  <2>1. /\ {"state", "draft", "head", "base", "decision", "by"} \subseteq DOMAIN a
        /\ a.base = "main"
    <3>1. \E decision :
            a = [state |-> "OPEN", draft |-> FALSE, head |-> "reviewed", base |-> "main",
                 decision |-> decision, by |-> "nobody"]
      BY Zenon DEF M!MergeInit
    <3>2. QED  BY <3>1
  <2>2. {"contexts", "strict", "reviewed", "queue", "bypass"} \subseteq DOMAIN d
    BY DEF M!MergeInit
  <2>3. /\ {"pc", "polls", "seen"} \subseteq DOMAIN e /\ e.pc = "observe" /\ f = "none"
        /\ {"faults", "retries", "changes"} \subseteq DOMAIN h /\ h.changes = Changes
    BY DEF M!MergeInit, M!Awake
  <2>4. c \in [M!Checks -> M!CheckStatus] /\ \A x \in RequiredChecks : c[x] # "PASS"
    BY DEF M!MergeInit, M!Checks, M!CheckStatus
  <2>5. QED
    BY <2>1, <2>2, <2>3, <2>4, SharedAssumption
    DEF MergeFields, GreenInv, EnforceInv, M!ReportedMergeIsProven
<1>2. ASSUME MergingInv, [MCNext]_mcvars PROVE MergingInv'
  <2>1. CASE which = "merge" /\ Merging
    BY <1>2, <2>1, GreenKept, EnforceKept DEF MergingInv, Merging
  <2>2. CASE UNCHANGED mcvars
    BY <1>2, <2>2
    DEF MergingInv, MergeFields, GreenInv, EnforceInv, mcvars, shared, M!ReportedMergeIsProven,
        M!Enforced, M!ReadContexts, M!Authorizes
  <2>3. CASE which # "merge"
    BY <1>2, <2>3 DEF MergingInv, MCNext, Publishing, Locking, Merging, SettingUp, Planning,
       Preparing, mcvars
  <2>4. QED
    BY <1>2, <2>1, <2>2, <2>3 DEF MCNext, Publishing, Locking, Merging, SettingUp, Planning,
       Preparing
<1>3. QED  BY <1>1, <1>2

\* A run that reports its merge says the truth, whoever merged and whatever call lost its answer
\* (PullRequestMerger.merge and _confirm_merged).
THEOREM MergeIsProven == MCSpec => []ReportedMergeIsProven
<1>1. MergingInv => ReportedMergeIsProven
  BY DEF MergingInv, GreenInv, ReportedMergeIsProven
<1>2. QED  BY <1>1, MergingInvariant, PTL DEF MCSpec

\* Where nobody changes the pull request or the policy after they were read, the factory merges
\* only what GitHub required the checks of, also from the factory (_validate_server_enforcement).
THEOREM MergesAreEnforced == MCSpec => MergesOnlyEnforced
<1>1. MergingInv /\ [MCNext]_mcvars => [which = "merge" => M!EnforcesChecks]_mcvars
  BY MergeIsEnforced
  DEF MergingInv, MCNext, Publishing, Locking, Merging, SettingUp, Planning, Preparing
<1>2. QED  BY <1>1, MergingInvariant, PTL DEF MCSpec, MergesOnlyEnforced

-----------------------------------------------------------------------------
\* THE WORKTREES.  The invariant is W!TreeInv of Worktrees: a process alone inside the lock, the
\* registration of a directory, and where the base of a change comes from.

\* What a step of one item leaves alone, and what it may do to what all of them share.
OnlyItem(w) ==
  /\ W!TreeFields' /\ a'.head = a.head /\ g'.delivers = g.delivers
  /\ \A v \in Items \ {w} :
       b'[v] = b[v] /\ c'[v] = c[v] /\ d'[v] = d[v] /\ e'[v] = e[v] /\ f'[v] = f[v]

SharedKept(w) ==
  /\ \A v \in Items \ {w} :
       v \in a.registered /\ (b[v].there \/ W!At(v, "checkout")) => v \in a'.registered
  /\ \A v \in Items \ {w} : e[v].step \in W!Locked => a'.lock = {v}
  /\ e'[w].step \in W!Locked => a'.lock = {w}
  /\ b'[w].there => w \in a'.registered

\* What the invariant says of one item.
ItemInv(w) == W!Standing(w) /\ W!LocalBase(w) /\ W!DeliveredBase(w) /\ W!OwnBase(w)

\* A step of one item that leaves the others alone needs an argument for its own only.
LEMMA ItemStep ==
  ASSUME W!TreeInv, NEW w \in Items, OnlyItem(w), SharedKept(w), ItemInv(w)'
  PROVE  W!TreeInv'
<1>1. W!TreeFields' /\ W!LockHeld' /\ W!DirectoriesAreRegistered'
  BY DEF W!TreeInv, OnlyItem, SharedKept, W!LockHeld, W!DirectoriesAreRegistered
<1>2. ASSUME NEW v \in Items, v # w PROVE ItemInv(v)'
  BY <1>2 DEF W!TreeInv, OnlyItem, SharedKept, ItemInv, W!Standing, W!LocalBase,
     W!DeliveredBase,
     W!OwnBase, W!Fits, W!At, W!DirectoriesAreRegistered, W!NoCommit, W!Preparing
<1>3. QED  BY <1>1, <1>2 DEF W!TreeInv, ItemInv

\* Who is between the commands of Git is there alone.
LEMMA AloneInside ==
  ASSUME W!TreeInv, NEW w \in Items, e[w].step \in W!Locked
  PROVE  \A v \in Items \ {w} : e[v].step \notin W!Locked
<1> SUFFICES ASSUME NEW v \in Items \ {w}, e[v].step \in W!Locked PROVE FALSE
  OBVIOUS
<1>1. a.lock = {v} /\ a.lock = {w}
  BY DEF W!TreeInv, W!LockHeld
<1>2. QED  BY <1>1

\* A failed preparation gives the lock back and leaves everything else.
LEMMA FailsKept ==
  ASSUME W!TreeInv, NEW w \in Items, e[w].step \in W!Locked, W!Fails(w),
         UNCHANGED <<b, c, d, g>>
  PROVE  W!TreeInv'
<1>1. OnlyItem(w)
  BY SharedAssumption
  DEF OnlyItem, W!TreeInv, W!TreeFields, W!Fails, W!Unlocks, W!NoJob, W!NoCommit
<1>2. SharedKept(w)
  BY AloneInside
  DEF SharedKept, W!TreeInv, W!TreeFields, W!DirectoriesAreRegistered, W!Fails, W!Unlocks,
      W!NoJob, W!Locked
<1>3. ItemInv(w)'
  BY DEF ItemInv, W!TreeInv, W!TreeFields, W!Standing, W!Fits, W!LocalBase, W!DeliveredBase,
     W!OwnBase, W!Fails, W!Unlocks, W!NoJob, W!NoCommit, W!At, W!Preparing
<1>4. QED  BY <1>1, <1>2, <1>3, ItemStep

\* Every step of an item and the new head of the repository keep the invariant.
LEMMA TreeKept ==
  ASSUME W!TreeInv, W!TreeNext
  PROVE  W!TreeInv'
<1> USE SharedAssumption DEF W!Locked, W!At, W!To, W!NoCommit, W!NoJob, W!Preparing
<1>1. CASE W!MoveHead
  BY <1>1 DEF W!MoveHead, W!TreeInv, W!TreeFields, W!LockHeld, W!Standing, W!Fits, W!LocalBase,
     W!DeliveredBase, W!OwnBase, W!DirectoriesAreRegistered
<1>2. ASSUME NEW w \in Items, W!StartRun(w) PROVE W!TreeInv'
  <2>1. OnlyItem(w)
    BY <1>2
    DEF OnlyItem, W!TreeInv, W!TreeFields, W!StartRun, W!LockHeld
  <2>2. SharedKept(w)
    BY <1>2, <2>1, AloneInside
    DEF OnlyItem, SharedKept, W!TreeInv, W!TreeFields, W!DirectoriesAreRegistered, W!Standing,
        W!StartRun, W!LockHeld
  <2>3. ItemInv(w)'
    BY <1>2, <2>1
    DEF ItemInv, W!TreeInv, W!TreeFields, W!Standing, W!Fits, W!LocalBase, W!DeliveredBase,
        W!OwnBase, W!StartRun, W!LockHeld
  <2>4. QED  BY <2>1, <2>2, <2>3, ItemStep
<1>3. ASSUME NEW w \in Items, W!ContinueRun(w) PROVE W!TreeInv'
  <2>1. OnlyItem(w)
    BY <1>3
    DEF OnlyItem, W!TreeInv, W!TreeFields, W!ContinueRun, W!LockHeld
  <2>2. SharedKept(w)
    BY <1>3, <2>1, AloneInside
    DEF OnlyItem, SharedKept, W!TreeInv, W!TreeFields, W!DirectoriesAreRegistered, W!Standing,
        W!ContinueRun, W!LockHeld
  <2>3. ItemInv(w)'
    BY <1>3, <2>1
    DEF ItemInv, W!TreeInv, W!TreeFields, W!Standing, W!Fits, W!LocalBase, W!DeliveredBase,
        W!OwnBase, W!ContinueRun, W!LockHeld
  <2>4. QED  BY <2>1, <2>2, <2>3, ItemStep
<1>4. ASSUME NEW w \in Items, W!RestartRun(w) PROVE W!TreeInv'
  <2>1. OnlyItem(w)
    BY <1>4
    DEF OnlyItem, W!TreeInv, W!TreeFields, W!RestartRun, W!LockHeld
  <2>2. SharedKept(w)
    BY <1>4, <2>1, AloneInside
    DEF OnlyItem, SharedKept, W!TreeInv, W!TreeFields, W!DirectoriesAreRegistered, W!Standing,
        W!RestartRun, W!LockHeld
  <2>3. ItemInv(w)'
    BY <1>4, <2>1
    DEF ItemInv, W!TreeInv, W!TreeFields, W!Standing, W!Fits, W!LocalBase, W!DeliveredBase,
        W!OwnBase, W!RestartRun, W!LockHeld
  <2>4. QED  BY <2>1, <2>2, <2>3, ItemStep
<1>5. ASSUME NEW w \in Items, W!LockToPrepare(w) PROVE W!TreeInv'
  <2>1. OnlyItem(w)
    BY <1>5
    DEF OnlyItem, W!TreeInv, W!TreeFields, W!LockToPrepare, W!Locks, W!CanLock, W!LockHeld
  <2>2. SharedKept(w)
    BY <1>5, <2>1, AloneInside
    DEF OnlyItem, SharedKept, W!TreeInv, W!TreeFields, W!DirectoriesAreRegistered, W!Standing,
        W!LockToPrepare, W!Locks, W!CanLock, W!LockHeld
  <2>3. ItemInv(w)'
    BY <1>5, <2>1
    DEF ItemInv, W!TreeInv, W!TreeFields, W!Standing, W!Fits, W!LocalBase, W!DeliveredBase,
        W!OwnBase, W!LockToPrepare, W!Locks, W!CanLock, W!LockHeld
  <2>4. QED  BY <2>1, <2>2, <2>3, ItemStep
<1>6. ASSUME NEW w \in Items, W!Inspect(w) PROVE W!TreeInv'
  <2>1. CASE W!Fails(w) /\ UNCHANGED <<b, c, d, g>>
    BY <1>6, <2>1, FailsKept DEF W!Inspect
  <2>2. CASE ~W!Fails(w)
    <3>1. /\ W!At(w, "inspect") /\ UNCHANGED <<b, c, d, f, g>>
          /\ a' = a \/ a' = [a EXCEPT !.registered = W!Pruned]
          /\ \/ W!To(w, "base") /\ b[w].there
             \/ W!To(w, "create") /\ ~b[w].there
      BY <1>6, <2>2 DEF W!Inspect
    <3>2. /\ {"head", "registered", "lock"} \subseteq DOMAIN a'
          /\ a'.head = a.head /\ a'.lock = a.lock
          /\ \A v \in Items : v \in a.registered /\ b[v].there => v \in a'.registered
      BY <3>1 DEF W!TreeInv, W!TreeFields, W!Pruned
    <3>3. OnlyItem(w)
      BY <3>1, <3>2 DEF OnlyItem, W!TreeInv, W!TreeFields
    <3>4. SharedKept(w)
      BY <3>1, <3>2, <3>3, AloneInside DEF OnlyItem, SharedKept, W!TreeInv, W!TreeFields,
         W!DirectoriesAreRegistered, W!Standing, W!LockHeld
    <3>5. ItemInv(w)'
      BY <3>1, <3>2, <3>3 DEF ItemInv, OnlyItem, W!TreeInv, W!TreeFields, W!Standing, W!Fits,
         W!LocalBase, W!DeliveredBase, W!OwnBase
    <3>6. QED  BY <3>3, <3>4, <3>5, ItemStep
  <2>3. QED  BY <1>6, <2>1, <2>2 DEF W!Inspect
<1>7. ASSUME NEW w \in Items, W!Register(w) PROVE W!TreeInv'
  <2> DEFINE fork == IF e[w].asked = W!NoCommit THEN a.head ELSE e[w].asked
             made == IF c[w].there THEN c[w] ELSE [there |-> TRUE, own |-> FALSE, fork |-> fork]
  <2>1. /\ W!At(w, "create") /\ W!To(w, "checkout") /\ UNCHANGED <<b, d, f, g>>
        /\ a' = [a EXCEPT !.registered = @ \cup {w}] /\ c' = [c EXCEPT ![w] = made]
    BY <1>7 DEF W!Register
  <2>2. fork \in 0..LastHead
    BY DEF W!TreeInv, W!TreeFields
  <2>3. {"there", "fork", "own"} \subseteq DOMAIN made /\ made.fork \in 0..LastHead
    BY <2>2 DEF W!TreeInv, W!TreeFields
  <2>4. made.there /\ (~c[w].there => made.fork = fork) /\ (c[w].there => made = c[w])
    OBVIOUS
  <2> HIDE DEF made
  <2>5. OnlyItem(w) /\ c'[w] = made
    BY <2>1, <2>3 DEF OnlyItem, W!TreeInv, W!TreeFields
  <2>6. SharedKept(w)
    BY <2>1, <2>5, AloneInside DEF OnlyItem, SharedKept, W!TreeInv, W!TreeFields,
       W!DirectoriesAreRegistered, W!Standing, W!LockHeld
  <2>7. ItemInv(w)'
    BY <2>1, <2>4, <2>5 DEF ItemInv, OnlyItem, W!TreeInv, W!TreeFields, W!Standing, W!Fits,
       W!LocalBase, W!DeliveredBase, W!OwnBase
  <2>8. QED  BY <2>5, <2>6, <2>7, ItemStep
<1>8. ASSUME NEW w \in Items, W!CheckOut(w) PROVE W!TreeInv'
  <2>1. OnlyItem(w)
    BY <1>8
    DEF OnlyItem, W!TreeInv, W!TreeFields, W!CheckOut, W!LockHeld
  <2>2. SharedKept(w)
    BY <1>8, <2>1, AloneInside
    DEF OnlyItem, SharedKept, W!TreeInv, W!TreeFields, W!DirectoriesAreRegistered, W!Standing,
        W!CheckOut, W!LockHeld
  <2>3. ItemInv(w)'
    BY <1>8, <2>1
    DEF ItemInv, W!TreeInv, W!TreeFields, W!Standing, W!Fits, W!LocalBase, W!DeliveredBase,
        W!OwnBase, W!CheckOut, W!LockHeld
  <2>4. QED  BY <2>1, <2>2, <2>3, ItemStep
<1>9. ASSUME NEW w \in Items, W!AddFails(w) PROVE W!TreeInv'
  BY <1>9, FailsKept DEF W!AddFails
<1>10. ASSUME NEW w \in Items, W!FindBase(w) PROVE W!TreeInv'
  <2> DEFINE base == IF d[w] # W!NoCommit THEN d[w]
                     ELSE IF e[w].asked # W!NoCommit THEN e[w].asked ELSE W!MergeBase(w)
  <2>1. W!At(w, "base") /\ UNCHANGED <<b, c, g>>
    BY <1>10 DEF W!FindBase
  <2>2. \/ W!Fails(w) /\ UNCHANGED d
        \/ /\ e[w].asked \in {W!NoCommit, base}
           /\ d' = [d EXCEPT ![w] = base]
           /\ e' = [e EXCEPT ![w].step = "verify", ![w].base = base]
           /\ UNCHANGED <<a, f>>
    BY <1>10 DEF W!FindBase
  <2>3. base \in 0..LastHead
    BY DEF W!TreeInv, W!TreeFields, W!MergeBase
  <2>4. d[w] = W!NoCommit /\ e[w].asked = W!NoCommit => base <= c[w].fork /\ base <= a.head
    BY DEF W!TreeInv, W!TreeFields, W!MergeBase
  <2>5. /\ d[w] # W!NoCommit => base = d[w]
        /\ d[w] = W!NoCommit /\ e[w].asked # W!NoCommit => base = e[w].asked
    OBVIOUS
  <2> HIDE DEF base
  <2>6. CASE W!Fails(w) /\ UNCHANGED d
    BY <2>1, <2>6, FailsKept
  <2>7. CASE /\ e[w].asked \in {W!NoCommit, base}
             /\ d' = [d EXCEPT ![w] = base]
             /\ e' = [e EXCEPT ![w].step = "verify", ![w].base = base]
             /\ UNCHANGED <<a, f>>
    <3>1. OnlyItem(w)
      BY <2>1, <2>3, <2>7 DEF OnlyItem, W!TreeInv, W!TreeFields
    <3>2. SharedKept(w)
      BY <2>1, <2>7, <3>1, AloneInside DEF OnlyItem, SharedKept, W!TreeInv, W!TreeFields,
         W!DirectoriesAreRegistered, W!Standing, W!LockHeld
    <3>3. d'[w] = base /\ e'[w].step = "verify" /\ e'[w].base = base /\ e'[w].asked = e[w].asked
      BY <2>7 DEF W!TreeInv, W!TreeFields
    <3>4. ItemInv(w)'
      BY <2>1, <2>3, <2>4, <2>5, <2>7, <3>1, <3>3 DEF ItemInv, OnlyItem, W!TreeInv,
         W!TreeFields, W!Standing, W!Fits, W!LocalBase, W!DeliveredBase, W!OwnBase
    <3>5. QED  BY <3>1, <3>2, <3>4, ItemStep
  <2>8. QED  BY <2>2, <2>6, <2>7
<1>11. ASSUME NEW w \in Items, W!Verify(w) PROVE W!TreeInv'
  <2>1. W!At(w, "verify") /\ UNCHANGED <<b, c, d, g>>
    BY <1>11 DEF W!Verify
  <2>2. CASE W!Fails(w)
    BY <2>1, <2>2, FailsKept
  <2>3. CASE /\ e[w].asked # W!NoCommit => c[w].fork = e[w].asked
             /\ W!Unlocks /\ W!To(w, "working") /\ f' = [f EXCEPT ![w] = "ready"]
    <3>1. OnlyItem(w)
      BY <2>1, <2>3 DEF OnlyItem, W!TreeInv, W!TreeFields, W!Unlocks
    <3>2. SharedKept(w)
      BY <2>1, <2>3, <3>1, AloneInside DEF OnlyItem, SharedKept, W!TreeInv, W!TreeFields,
         W!DirectoriesAreRegistered, W!Standing, W!Unlocks
    <3>3. ItemInv(w)'
      BY <2>1, <2>3, <3>1 DEF ItemInv, OnlyItem, W!TreeInv, W!TreeFields, W!Standing, W!Fits,
         W!LocalBase, W!DeliveredBase, W!OwnBase, W!Unlocks
    <3>4. QED  BY <3>1, <3>2, <3>3, ItemStep
  <2>4. QED  BY <1>11, <2>2, <2>3 DEF W!Verify
<1>12. ASSUME NEW w \in Items, W!LockToDiscard(w) PROVE W!TreeInv'
  <2>1. OnlyItem(w)
    BY <1>12
    DEF OnlyItem, W!TreeInv, W!TreeFields, W!LockToDiscard, W!Locks, W!CanLock, W!LockHeld
  <2>2. SharedKept(w)
    BY <1>12, <2>1, AloneInside
    DEF OnlyItem, SharedKept, W!TreeInv, W!TreeFields, W!DirectoriesAreRegistered, W!Standing,
        W!LockToDiscard, W!Locks, W!CanLock, W!LockHeld
  <2>3. ItemInv(w)'
    BY <1>12, <2>1
    DEF ItemInv, W!TreeInv, W!TreeFields, W!Standing, W!Fits, W!LocalBase, W!DeliveredBase,
        W!OwnBase, W!LockToDiscard, W!Locks, W!CanLock, W!LockHeld
  <2>4. QED  BY <2>1, <2>2, <2>3, ItemStep
<1>13. ASSUME NEW w \in Items, W!RemoveDirectory(w) PROVE W!TreeInv'
  <2>1. OnlyItem(w)
    BY <1>13
    DEF OnlyItem, W!TreeInv, W!TreeFields, W!RemoveDirectory, W!NoTree, W!LockHeld
  <2>2. SharedKept(w)
    BY <1>13, <2>1, AloneInside
    DEF OnlyItem, SharedKept, W!TreeInv, W!TreeFields, W!DirectoriesAreRegistered, W!Standing,
        W!RemoveDirectory, W!NoTree, W!LockHeld
  <2>3. ItemInv(w)'
    BY <1>13, <2>1
    DEF ItemInv, W!TreeInv, W!TreeFields, W!Standing, W!Fits, W!LocalBase, W!DeliveredBase,
        W!OwnBase, W!RemoveDirectory, W!NoTree, W!LockHeld
  <2>4. QED  BY <2>1, <2>2, <2>3, ItemStep
<1>14. ASSUME NEW w \in Items, W!RemoveFails(w) PROVE W!TreeInv'
  BY <1>14, FailsKept DEF W!RemoveFails
<1>15. ASSUME NEW w \in Items, W!Prune(w) PROVE W!TreeInv'
  <2>1. OnlyItem(w)
    BY <1>15
    DEF OnlyItem, W!TreeInv, W!TreeFields, W!Prune, W!Pruned, W!LockHeld
  <2>2. SharedKept(w)
    BY <1>15, <2>1, AloneInside
    DEF OnlyItem, SharedKept, W!TreeInv, W!TreeFields, W!DirectoriesAreRegistered, W!Standing,
        W!Prune, W!Pruned, W!LockHeld
  <2>3. ItemInv(w)'
    BY <1>15, <2>1
    DEF ItemInv, W!TreeInv, W!TreeFields, W!Standing, W!Fits, W!LocalBase, W!DeliveredBase,
        W!OwnBase, W!Prune, W!Pruned, W!LockHeld
  <2>4. QED  BY <2>1, <2>2, <2>3, ItemStep
<1>16. ASSUME NEW w \in Items, W!DeleteBranch(w) PROVE W!TreeInv'
  <2>1. /\ W!At(w, "branch") /\ W!Unlocks /\ W!To(w, "forget") /\ UNCHANGED <<b, d, f, g>>
        /\ c' = [c EXCEPT ![w] = W!NoBranch]
    BY <1>16 DEF W!DeleteBranch
  <2>2. c'[w] = W!NoBranch
    BY <2>1 DEF W!TreeInv, W!TreeFields, W!NoBranch
  <2>3. OnlyItem(w)
    BY <2>1 DEF OnlyItem, W!TreeInv, W!TreeFields, W!Unlocks, W!NoBranch
  <2>4. SharedKept(w)
    BY <2>1, <2>3, AloneInside DEF OnlyItem, SharedKept, W!TreeInv, W!TreeFields,
       W!DirectoriesAreRegistered, W!Standing, W!Unlocks
  <2>5. ItemInv(w)'
    BY <2>1, <2>2, <2>3 DEF ItemInv, OnlyItem, W!TreeInv, W!TreeFields, W!Standing, W!Fits,
       W!LocalBase, W!DeliveredBase, W!OwnBase, W!Unlocks, W!NoBranch
  <2>6. QED  BY <2>3, <2>4, <2>5, ItemStep
<1>17. ASSUME NEW w \in Items, W!DeleteMeta(w) PROVE W!TreeInv'
  <2>1. OnlyItem(w)
    BY <1>17
    DEF OnlyItem, W!TreeInv, W!TreeFields, W!DeleteMeta, W!LockHeld
  <2>2. SharedKept(w)
    BY <1>17, <2>1, AloneInside
    DEF OnlyItem, SharedKept, W!TreeInv, W!TreeFields, W!DirectoriesAreRegistered, W!Standing,
        W!DeleteMeta, W!LockHeld
  <2>3. ItemInv(w)'
    BY <1>17, <2>1
    DEF ItemInv, W!TreeInv, W!TreeFields, W!Standing, W!Fits, W!LocalBase, W!DeliveredBase,
        W!OwnBase, W!DeleteMeta, W!LockHeld
  <2>4. QED  BY <2>1, <2>2, <2>3, ItemStep
<1>18. ASSUME NEW w \in Items, W!Edit(w) PROVE W!TreeInv'
  <2>1. OnlyItem(w)
    BY <1>18
    DEF OnlyItem, W!TreeInv, W!TreeFields, W!Edit, W!LockHeld
  <2>2. SharedKept(w)
    BY <1>18, <2>1, AloneInside
    DEF OnlyItem, SharedKept, W!TreeInv, W!TreeFields, W!DirectoriesAreRegistered, W!Standing,
        W!Edit, W!LockHeld
  <2>3. ItemInv(w)'
    BY <1>18, <2>1
    DEF ItemInv, W!TreeInv, W!TreeFields, W!Standing, W!Fits, W!LocalBase, W!DeliveredBase,
        W!OwnBase, W!Edit, W!LockHeld
  <2>4. QED  BY <2>1, <2>2, <2>3, ItemStep
<1>19. ASSUME NEW w \in Items, W!CommitWork(w) PROVE W!TreeInv'
  <2>1. OnlyItem(w)
    BY <1>19
    DEF OnlyItem, W!TreeInv, W!TreeFields, W!CommitWork, W!LockHeld
  <2>2. SharedKept(w)
    BY <1>19, <2>1, AloneInside
    DEF OnlyItem, SharedKept, W!TreeInv, W!TreeFields, W!DirectoriesAreRegistered, W!Standing,
        W!CommitWork, W!LockHeld
  <2>3. ItemInv(w)'
    BY <1>19, <2>1
    DEF ItemInv, W!TreeInv, W!TreeFields, W!Standing, W!Fits, W!LocalBase, W!DeliveredBase,
        W!OwnBase, W!CommitWork, W!LockHeld
  <2>4. QED  BY <2>1, <2>2, <2>3, ItemStep
<1>20. ASSUME NEW w \in Items, W!Leave(w) PROVE W!TreeInv'
  <2>1. OnlyItem(w)
    BY <1>20
    DEF OnlyItem, W!TreeInv, W!TreeFields, W!Leave, W!LockHeld
  <2>2. SharedKept(w)
    BY <1>20, <2>1, AloneInside
    DEF OnlyItem, SharedKept, W!TreeInv, W!TreeFields, W!DirectoriesAreRegistered, W!Standing,
        W!Leave, W!LockHeld
  <2>3. ItemInv(w)'
    BY <1>20, <2>1
    DEF ItemInv, W!TreeInv, W!TreeFields, W!Standing, W!Fits, W!LocalBase, W!DeliveredBase,
        W!OwnBase, W!Leave, W!LockHeld
  <2>4. QED  BY <2>1, <2>2, <2>3, ItemStep
<1>21. ASSUME NEW w \in Items, W!Crash(w) PROVE W!TreeInv'
  <2>1. OnlyItem(w)
    BY <1>21
    DEF OnlyItem, W!TreeInv, W!TreeFields, W!Crash, W!LockHeld
  <2>2. SharedKept(w)
    BY <1>21, <2>1, AloneInside
    DEF OnlyItem, SharedKept, W!TreeInv, W!TreeFields, W!DirectoriesAreRegistered, W!Standing,
        W!Crash, W!LockHeld
  <2>3. ItemInv(w)'
    BY <1>21, <2>1
    DEF ItemInv, W!TreeInv, W!TreeFields, W!Standing, W!Fits, W!LocalBase, W!DeliveredBase,
        W!OwnBase, W!Crash, W!LockHeld
  <2>4. QED  BY <2>1, <2>2, <2>3, ItemStep
<1>22. ASSUME NEW w \in Items, W!DeleteByHand(w) PROVE W!TreeInv'
  <2>1. /\ W!At(w, "idle") /\ UNCHANGED <<a, e, f>>
        /\ g' = [g EXCEPT !.troubles = @ + 1] /\ b' = [b EXCEPT ![w] = W!NoTree]
        /\ c' = c \/ c' = [c EXCEPT ![w] = W!NoBranch]
        /\ d' = d \/ d' = [d EXCEPT ![w] = W!NoCommit]
    BY <1>22 DEF W!DeleteByHand
  <2>2. /\ Items \subseteq DOMAIN c' /\ c'[w] \in {c[w], W!NoBranch}
        /\ \A v \in Items \ {w} : c'[v] = c[v]
    BY <2>1 DEF W!TreeInv, W!TreeFields, W!NoBranch
  <2>3. Items \subseteq DOMAIN d' /\ d'[w] \in {d[w],
  W!NoCommit} /\ \A v \in Items \ {w} : d'[v] = d[v]
    BY <2>1 DEF W!TreeInv, W!TreeFields
  <2>4. OnlyItem(w)
    BY <2>1, <2>2, <2>3 DEF OnlyItem, W!TreeInv, W!TreeFields, W!NoTree, W!NoBranch
  <2>5. SharedKept(w)
    BY <2>1, <2>4 DEF OnlyItem, SharedKept, W!TreeInv, W!TreeFields,
       W!DirectoriesAreRegistered, W!Standing, W!LockHeld, W!NoTree
  <2>6. ItemInv(w)'
    BY <2>1, <2>4 DEF ItemInv, OnlyItem, W!TreeInv, W!TreeFields, W!Standing, W!Fits,
       W!LocalBase, W!DeliveredBase, W!OwnBase, W!NoTree, W!NoBranch
  <2>7. QED  BY <2>4, <2>5, <2>6, ItemStep
<1>23. QED
  BY <1>1, <1>2, <1>3, <1>4, <1>5, <1>6, <1>7, <1>8, <1>9, <1>10, <1>11, <1>12, <1>13, <1>14,
     <1>15, <1>16, <1>17, <1>18, <1>19, <1>20, <1>21, <1>22 DEF W!TreeNext

\* The worktrees are one of the components; the others do not touch what they have.
WorktreesInv == which = "worktrees" => W!TreeInv

\* The invariant holds in every reachable state.
LEMMA WorktreesInvariant ==
  /\ MCInit => WorktreesInv
  /\ WorktreesInv /\ [MCNext]_mcvars => WorktreesInv'
<1>1. MCInit => WorktreesInv
  <2> SUFFICES ASSUME W!TreeInit PROVE W!TreeInv
    BY DEF MCInit, WorktreesInv
  <2>1. W!TreeFields
    BY SharedAssumption
    DEF W!TreeInit, W!TreeFields, W!NoTree, W!NoBranch, W!NoJob, W!NoCommit
  <2>2. W!LockHeld /\ W!DirectoriesAreRegistered /\ \A w \in Items : ItemInv(w)
    BY DEF W!TreeInit, W!LockHeld, W!DirectoriesAreRegistered, ItemInv, W!Standing, W!LocalBase,
       W!DeliveredBase, W!OwnBase, W!Fits, W!At, W!NoTree, W!NoBranch, W!NoJob, W!NoCommit,
       W!Locked, W!Preparing
  <2>3. QED  BY <2>1, <2>2 DEF W!TreeInv, ItemInv
<1>2. ASSUME WorktreesInv, [MCNext]_mcvars PROVE WorktreesInv'
  <2>1. CASE which = "worktrees" /\ Preparing
    BY <1>2, <2>1, TreeKept DEF WorktreesInv, Preparing
  <2>2. CASE UNCHANGED mcvars
    BY <1>2, <2>2
    DEF WorktreesInv, mcvars, shared, W!TreeInv, W!TreeFields, W!LockHeld,
        W!DirectoriesAreRegistered, W!Standing, W!LocalBase, W!DeliveredBase, W!OwnBase,
        W!Fits, W!At, W!NoCommit
  <2>3. CASE which # "worktrees"
    BY <1>2, <2>3 DEF WorktreesInv, MCNext, Publishing, Locking, Merging, SettingUp, Planning,
       Preparing, mcvars
  <2>4. QED
    BY <1>2, <2>1, <2>2, <2>3 DEF MCNext, Publishing, Locking, Merging, SettingUp, Planning,
       Preparing
<1>3. QED  BY <1>1, <1>2

\* Git knows every worktree that is there, whatever other items prune meanwhile and wherever a
\* process died (_prune_lock in workspace.py).
THEOREM WorktreesAreKnown == MCSpec => []DirectoriesAreRegistered
<1>1. WorktreesInv => DirectoriesAreRegistered
  BY DEF WorktreesInv, W!TreeInv, DirectoriesAreRegistered
<1>2. QED  BY <1>1, WorktreesInvariant, PTL DEF MCSpec

\* The base of a change is never ahead of its fork, whatever crashed or was deleted before
\* (_load_or_compute_base_commit and collect_evidence in workspace.py).
THEOREM ChangesAreWhole == MCSpec => []ChangeIsWhole
<1>1. WorktreesInv => ChangeIsWhole
  BY DEF WorktreesInv, W!TreeInv, W!OwnBase, W!ChangeIsWhole, ChangeIsWhole
<1>2. QED  BY <1>1, WorktreesInvariant, PTL DEF MCSpec

-----------------------------------------------------------------------------
\* THE SETUP.  The invariant is S!SetupInv of SetupRun: who applies a plan has the worktree
\* locked and clean, and who has applied one finds its own change there.

\* A process that is at rest is idle.
LEMMA SetupRests ==
  S!NoJob.step = "idle" /\ {"step", "head", "prev", "ok"} \subseteq DOMAIN S!NoJob
<1>1. \E x, y : S!NoJob = [step |-> "idle", head |-> x, prev |-> y, ok |-> TRUE]
  BY Zenon DEF S!NoJob
<1>2. QED  BY <1>1

\* A process whose check ends lets its job go, whatever it saves.
LEMMA EndsCheck ==
  ASSUME NEW p, S!KeepProposal(p) \/ S!NothingToAdd(p) \/ \E r : S!Save(p, r)
  PROVE  g' = [g EXCEPT ![p] = S!NoJob]
BY Zenon DEF S!KeepProposal, S!NothingToAdd, S!Save

\* A process that lets its job go leaves the invariant, unless it takes from another what that
\* one relies on.
LEMMA LetsGo ==
  ASSUME S!SetupInv, NEW p \in S!Processes, g' = [g EXCEPT ![p] = S!NoJob], UNCHANGED a,
         Heads \subseteq DOMAIN c', Heads \subseteq DOMAIN e',
         \A n \in Heads : {"state", "base", "by"} \subseteq DOMAIN c'[n],
         \A q \in S!Processes \ {p} :
           /\ S!At(q, "apply") => e'[g[q].head] = {q} /\ c'[g[q].head] = c[g[q].head]
           /\ S!HasApplied(q) => c'[g[q].head] = c[g[q].head]
  PROVE  S!SetupInv'
<1> USE DEF S!SetupInv, S!SetupFields, S!AppliesAlone, S!OwnChange, S!HasApplied, S!At
<1>1. \A q \in S!Processes : g'[q] = IF q = p THEN S!NoJob ELSE g[q]
  OBVIOUS
<1>2. S!SetupFields'
  BY <1>1, SetupRests
<1>3. S!AppliesAlone' /\ S!OwnChange'
  BY <1>1, SetupRests
<1>4. QED  BY <1>2, <1>3

\* The same where all worktrees and locks stay as they are.
LEMMA LetsOnlyGo ==
  ASSUME S!SetupInv, NEW p \in S!Processes, g' = [g EXCEPT ![p] = S!NoJob], UNCHANGED <<a, c,
  e>>
  PROVE  S!SetupInv'
BY LetsGo DEF S!SetupInv, S!SetupFields, S!AppliesAlone

\* What a process relies on is not the worktree that another one has locked.
LEMMA OthersElsewhere ==
  ASSUME S!SetupInv, NEW p \in S!Processes, e[g[p].head] = {} \/ S!At(p, "apply"),
         NEW q \in S!Processes \ {p}
  PROVE  /\ S!At(q, "apply") => g[q].head # g[p].head
         /\ S!HasApplied(q) /\ g[q].head = g[p].head =>
              c[g[p].head].state \in {"changed", "committed"} /\ ~S!At(p, "apply")
<1>1. S!At(q, "apply") => e[g[q].head] = {q}
  BY DEF S!SetupInv, S!AppliesAlone
<1>2. S!At(p, "apply") => e[g[p].head] = {p} /\ c[g[p].head].state = "clean"
  BY DEF S!SetupInv, S!AppliesAlone
<1>3. S!HasApplied(q) => c[g[q].head].state \in {"changed", "committed"}
  BY DEF S!SetupInv, S!OwnChange
<1>4. QED  BY <1>1, <1>2, <1>3

\* Every step of a process keeps the invariant.
LEMMA SetupKept ==
  ASSUME S!SetupInv, S!SetupNext
  PROVE  S!SetupInv'
<1>1. ASSUME S!StartByHand PROVE S!SetupInv'
  BY <1>1 DEF S!StartByHand, S!NoJob, S!SetupInv, S!SetupFields, S!AppliesAlone, S!OwnChange,
     S!HasApplied, S!At, S!To, S!Processes
<1>2. ASSUME S!MoveHead PROVE S!SetupInv'
  BY <1>2 DEF S!MoveHead, S!SetupInv, S!SetupFields, S!AppliesAlone, S!OwnChange,
     S!HasApplied, S!At, S!To, S!Processes
<1>3. ASSUME NEW p \in S!Processes, S!Tick(p) PROVE S!SetupInv'
  BY <1>3 DEF S!Tick, S!SetupInv, S!SetupFields, S!AppliesAlone, S!OwnChange,
     S!HasApplied, S!At, S!To, S!Processes
<1>4. ASSUME NEW p \in S!Processes, S!PlanCheckout(p) PROVE S!SetupInv'
  <2>1. UNCHANGED <<a, c, e>> /\ S!At(p, "plan")
        /\ (g' = [g EXCEPT ![p] = S!NoJob] \/ S!To(p, "worktree"))
    BY <1>4, EndsCheck DEF S!PlanCheckout
  <2>2. CASE S!To(p, "worktree")
    BY <2>1, <2>2 DEF S!SetupInv, S!SetupFields, S!AppliesAlone, S!OwnChange,
       S!HasApplied, S!At, S!To, S!Processes
  <2>3. QED  BY <2>1, <2>2, LetsOnlyGo
<1>5. ASSUME NEW p \in S!Processes, S!OpenTree(p) PROVE S!SetupInv'
  <2> USE <1>5 DEF S!OpenTree, S!Usable, S!Prepared, S!At, S!To
  <2>1. S!SetupFields'
    BY DEF S!SetupInv, S!SetupFields
  <2>2. S!AppliesAlone'
    BY DEF S!SetupInv, S!SetupFields, S!AppliesAlone
  <2>3. S!OwnChange'
    BY DEF S!SetupInv, S!SetupFields, S!AppliesAlone, S!OwnChange, S!HasApplied
  <2>4. QED  BY <2>1, <2>2, <2>3 DEF S!SetupInv
<1>6. ASSUME NEW p \in S!Processes, S!TreeRefused(p) PROVE S!SetupInv'
  <2>1. /\ UNCHANGED <<a, e>> /\ g' = [g EXCEPT ![p] = S!NoJob] /\ g[p].head \in Heads
        /\ \/ UNCHANGED c
           \/ /\ e[g[p].head] = {} /\ c' = [c EXCEPT ![g[p].head] = S!Prepared(p)]
    BY <1>6, EndsCheck DEF S!TreeRefused, S!SetupInv, S!SetupFields, S!At
  <2>2. CASE UNCHANGED c
    BY <2>1, <2>2, LetsOnlyGo
  <2>3. CASE e[g[p].head] = {} /\ c' = [c EXCEPT ![g[p].head] = S!Prepared(p)]
    <3>1. /\ {"state", "base", "by"} \subseteq DOMAIN S!Prepared(p)
          /\ c[g[p].head].state # "none" => S!Prepared(p) = c[g[p].head]
      BY <2>1 DEF S!Prepared, S!SetupInv, S!SetupFields
    <3>2. /\ Heads \subseteq DOMAIN c' /\ Heads \subseteq DOMAIN e'
          /\ \A n \in Heads : {"state", "base", "by"} \subseteq DOMAIN c'[n]
      BY <2>1, <2>3, <3>1 DEF S!SetupInv, S!SetupFields
    <3>3. ASSUME NEW q \in S!Processes \ {p}, S!At(q, "apply") \/ S!HasApplied(q)
          PROVE  c'[g[q].head] = c[g[q].head]
      <4>1. g[q].head # g[p].head \/ S!Prepared(p) = c[g[p].head]
        BY <2>3, <3>1, <3>3, OthersElsewhere
      <4>2. QED  BY <2>1, <2>3, <4>1 DEF S!SetupInv, S!SetupFields
    <3>4. \A q \in S!Processes : S!At(q, "apply") => e'[g[q].head] = {q}
      BY <2>1 DEF S!SetupInv, S!AppliesAlone
    <3>5. QED  BY <2>1, <3>2, <3>3, <3>4, LetsGo
  <2>4. QED  BY <2>1, <2>2, <2>3
<1>7. ASSUME NEW p \in S!Processes, S!Apply(p) PROVE S!SetupInv'
  <2> USE <1>7 DEF S!Apply, S!Changed, S!At, S!To
  <2>1. S!SetupFields'
    BY DEF S!SetupInv, S!SetupFields
  <2>2. S!AppliesAlone'
    BY DEF S!SetupInv, S!SetupFields, S!AppliesAlone
  <2>3. S!OwnChange'
    BY DEF S!SetupInv, S!SetupFields, S!AppliesAlone, S!OwnChange, S!HasApplied
  <2>4. QED  BY <2>1, <2>2, <2>3 DEF S!SetupInv
<1>8. ASSUME NEW p \in S!Processes, S!UnexpectedChange(p) PROVE S!SetupInv'
  <2>1. /\ UNCHANGED a /\ g' = [g EXCEPT ![p] = S!NoJob] /\ S!Changed(p) /\ S!At(p, "apply")
        /\ e' = [e EXCEPT ![g[p].head] = {}]
    BY <1>8, EndsCheck DEF S!UnexpectedChange
  <2>2. /\ Heads \subseteq DOMAIN c' /\ Heads \subseteq DOMAIN e'
        /\ \A n \in Heads : {"state", "base", "by"} \subseteq DOMAIN c'[n]
    BY <2>1 DEF S!Changed, S!SetupInv, S!SetupFields
  <2>3. ASSUME NEW q \in S!Processes \ {p}, S!At(q, "apply") \/ S!HasApplied(q)
        PROVE  g[q].head # g[p].head
    BY <2>1, <2>3, OthersElsewhere
  <2>4. ASSUME NEW n \in Heads, n # g[p].head PROVE c'[n] = c[n] /\ e'[n] = e[n]
    BY <2>1, <2>4 DEF S!Changed, S!SetupInv, S!SetupFields
  <2>5. /\ \A q \in S!Processes : S!At(q, "apply") => e[g[q].head] = {q}
        /\ \A q \in S!Processes : S!At(q, "apply") \/ S!HasApplied(q) => g[q].head \in Heads
    BY DEF S!SetupInv, S!SetupFields, S!AppliesAlone, S!HasApplied, S!At
  <2>6. \A q \in S!Processes \ {p} : S!At(q, "apply") \/ S!HasApplied(q) =>
          c'[g[q].head] = c[g[q].head] /\ e'[g[q].head] = e[g[q].head]
    BY <2>3, <2>4, <2>5
  <2>7. QED  BY <2>1, <2>2, <2>5, <2>6, LetsGo
<1>9. ASSUME NEW p \in S!Processes, S!Result(p) PROVE S!SetupInv'
  <2>1. /\ UNCHANGED <<a, c, e>> /\ S!At(p, "result")
        /\ \/ g' = [g EXCEPT ![p] = S!NoJob]
           \/ S!HasApplied(p) /\ S!To(p, "publish")
    BY <1>9, EndsCheck DEF S!Result, S!HasApplied
  <2>2. CASE S!HasApplied(p) /\ S!To(p, "publish")
    BY <2>1, <2>2 DEF S!SetupInv, S!SetupFields, S!AppliesAlone, S!OwnChange,
       S!HasApplied, S!At, S!To, S!Processes
  <2>3. QED  BY <2>1, <2>2, LetsOnlyGo
<1>10. ASSUME NEW p \in S!Processes, S!CommitSetup(p) PROVE S!SetupInv'
  <2>1. /\ UNCHANGED <<a, e>> /\ S!At(p, "publish")
        /\ \/ g' = [g EXCEPT ![p] = S!NoJob] /\ UNCHANGED c
           \/ /\ c' = [c EXCEPT ![g[p].head].state = "committed"]
              /\ S!To(p, "create")
    BY <1>10, EndsCheck DEF S!CommitSetup
  <2>2. CASE c' = [c EXCEPT ![g[p].head].state = "committed"] /\ S!To(p, "create")
    BY <2>1, <2>2 DEF S!SetupInv, S!SetupFields, S!AppliesAlone, S!OwnChange,
       S!HasApplied, S!At, S!To, S!Processes
  <2>3. QED  BY <2>1, <2>2, LetsOnlyGo
<1>11. ASSUME NEW p \in S!Processes, S!CreatePull(p) PROVE S!SetupInv'
  BY <1>11 DEF S!CreatePull, S!Opened, S!SetupInv, S!SetupFields, S!AppliesAlone, S!OwnChange,
     S!HasApplied, S!At, S!To, S!Processes
<1>12. ASSUME NEW p \in S!Processes, S!CreateFails(p) PROVE S!SetupInv'
  BY <1>12, EndsCheck, LetsOnlyGo DEF S!CreateFails
<1>13. ASSUME NEW p \in S!Processes, S!SaveProposal(p) PROVE S!SetupInv'
  <2>1. g' = [g EXCEPT ![p] = S!NoJob] /\ UNCHANGED <<a, c, e>>
    BY <1>13, EndsCheck DEF S!SaveProposal
  <2>2. QED  BY <2>1, LetsOnlyGo
<1>14. ASSUME NEW p \in S!Processes, S!Crash(p) PROVE S!SetupInv'
  <2>1. /\ UNCHANGED <<a, c>> /\ g' = [g EXCEPT ![p] = S!NoJob]
        /\ e' = [n \in Heads |-> e[n] \ {p}]
    BY <1>14 DEF S!Crash
  <2>2. ASSUME NEW q \in S!Processes \ {p}, S!At(q, "apply") PROVE e'[g[q].head] = {q}
    BY <2>1, <2>2 DEF S!SetupInv, S!SetupFields, S!AppliesAlone, S!At
  <2>3. QED  BY <2>1, <2>2, LetsGo DEF S!SetupInv, S!SetupFields
<1>15. QED
  BY <1>1, <1>2, <1>3, <1>4, <1>5, <1>6, <1>7, <1>8, <1>9, <1>10, <1>11, <1>12, <1>13, <1>14
  DEF S!SetupNext

\* The setup is one of the components; the others do not touch what it has.
SettingUpInv == which = "setup" => S!SetupInv

\* The invariant holds in every reachable state.
LEMMA SettingUpInvariant ==
  /\ MCInit => SettingUpInv
  /\ SettingUpInv /\ [MCNext]_mcvars => SettingUpInv'
<1>1. MCInit => SettingUpInv
  <2> SUFFICES ASSUME S!SetupInit PROVE S!SetupInv
    BY DEF MCInit, SettingUpInv
  <2>1. /\ {"head", "dirty", "needs"} \subseteq DOMAIN a /\ a.head \in Heads
        /\ e = [n \in Heads |-> {}] /\ g = [p \in S!Processes |-> S!NoJob]
    BY DEF S!SetupInit
  <2>2. c = [n \in Heads |-> S!NoTree] /\ {"state", "base", "by"} \subseteq DOMAIN S!NoTree
    BY DEF S!SetupInit, S!NoTree
  <2>3. QED
    BY <2>1, <2>2, SetupRests
    DEF S!SetupInv, S!SetupFields, S!AppliesAlone, S!OwnChange, S!HasApplied, S!At
<1>2. ASSUME SettingUpInv, [MCNext]_mcvars PROVE SettingUpInv'
  <2>1. CASE which = "setup" /\ SettingUp
    BY <1>2, <2>1, SetupKept DEF SettingUpInv, SettingUp
  <2>2. CASE UNCHANGED mcvars
    BY <1>2, <2>2
    DEF SettingUpInv, mcvars, shared, S!SetupInv, S!SetupFields, S!AppliesAlone, S!OwnChange,
        S!HasApplied, S!At
  <2>3. CASE which # "setup"
    BY <1>2, <2>3 DEF SettingUpInv, MCNext, Publishing, Locking, Merging, SettingUp, Planning,
       Preparing, mcvars
  <2>4. QED
    BY <1>2, <2>1, <2>2, <2>3 DEF MCNext, Publishing, Locking, Merging, SettingUp, Planning,
       Preparing
<1>3. QED  BY <1>1, <1>2

\* Who publishes a setup worktree applied the plan in it, although the lock goes back before the
\* publication (run_toolchain_setup and publish_setup in setup_run.py).
THEOREM SetupIsOwn == MCSpec => []PublishesOwnSetup
<1>1. SettingUpInv => PublishesOwnSetup
  BY DEF SettingUpInv, S!SetupInv, S!OwnChange, S!HasApplied, S!PublishesOwnSetup,
     PublishesOwnSetup
<1>2. QED  BY <1>1, SettingUpInvariant, PTL DEF MCSpec

-----------------------------------------------------------------------------
\* THE PROJECT.  The proofs rest on the record, the branch and the list of what is missing, which
\* are saved one after the other: what a record calls done is on the branch or in the list, and
\* whatever a crash leaves, a resume finds again.

\* A commit is one, of its task.
LEMMA CommitIs ==
  ASSUME NEW t \in 0..LastTask, NEW same \in BOOLEAN
  PROVE  J!Commit(t, same) \in J!Commits /\ J!Commit(t, same).task = t
BY DEF J!Commit, J!Commits

\* A branch holds the tasks of its commits.
LEMMA CommitsOf ==
  ASSUME NEW s \in Seq(J!Commits), NEW t
  PROVE  /\ J!Commit(t, TRUE) \in J!ToSet(s) => t \in J!Holds(s)
         /\ J!Holds(s) \subseteq 0..LastTask
BY DEF J!ToSet, J!Holds, J!Commit, J!Commits

\* A commit on top of a branch adds its task.
LEMMA AppendHolds ==
  ASSUME NEW s \in Seq(J!Commits), NEW t \in 0..LastTask, NEW same \in BOOLEAN
  PROVE  LET x == Append(s, J!Commit(t, same))
         IN  /\ x \in Seq(J!Commits) /\ J!Holds(x) = J!Holds(s) \cup {t}
             /\ J!ToSet(x) = J!ToSet(s) \cup {J!Commit(t, same)}
<1> DEFINE y == J!Commit(t, same)
           x == Append(s, y)
<1>1. y \in J!Commits /\ y.task = t
  BY CommitIs
<1> HIDE DEF y
<1>2. /\ x \in Seq(J!Commits) /\ DOMAIN x = DOMAIN s \cup {Len(s) + 1} /\ x[Len(s) + 1] = y
      /\ \A i \in DOMAIN s : x[i] = s[i]
  BY <1>1
<1> HIDE DEF x
<1>3. J!Holds(x) = J!Holds(s) \cup {t} /\ J!ToSet(x) = J!ToSet(s) \cup {y}
  BY <1>1, <1>2 DEF J!Holds, J!ToSet
<1>4. QED  BY <1>2, <1>3 DEF x, y

\* A branch whose last commit was taken back is a branch.
LEMMA FrontHolds ==
  ASSUME NEW s \in Seq(J!Commits), s # <<>>
  PROVE  J!Front(s) \in Seq(J!Commits)
BY DEF J!Front

\* A fast-forward loses nothing.
LEMMA PrefixHolds ==
  ASSUME NEW s \in Seq(J!Commits), NEW t \in Seq(J!Commits), J!IsPrefix(s, t)
  PROVE  J!Holds(s) \subseteq J!Holds(t)
<1> SUFFICES ASSUME NEW i \in DOMAIN s PROVE s[i].task \in J!Holds(t)
  BY DEF J!Holds
<1>1. i \in DOMAIN t /\ s[i] = t[i]
  BY DEF J!IsPrefix
<1>2. QED  BY <1>1 DEF J!Holds

\* The natural numbers are well ordered; this is how the library says so.
Less == OpToRel(<, Nat)

\* A task of a set that has none before it.
LEMMA LeastTask ==
  ASSUME NEW set, set \subseteq J!Tasks, set # {}
  PROVE  J!Min(set) \in set /\ \A t \in set : J!Min(set) <= t
<1>1. \A x, y \in Nat : <<x, y>> \in Less <=> x < y
  BY DEF Less, OpToRel
<1>2. IsWellFoundedOn(Less, Nat)
  BY NatLessThanWellFounded DEF Less
<1>3. set \subseteq Nat
  BY SharedAssumption DEF J!Tasks
<1>4. PICK t \in set : \A u \in set : ~(<<u, t>> \in Less)
  BY <1>2, <1>3, WFMin, Zenon
<1>5. \A u \in set : t <= u
  <2> SUFFICES ASSUME NEW u \in set PROVE t <= u
    OBVIOUS
  <2>1. ~(<<u, t>> \in Less) /\ u \in Nat /\ t \in Nat
    BY <1>3, <1>4
  <2>2. ~(u < t)
    BY <1>1, <2>1
  <2>3. QED  BY <2>1, <2>2
<1>6. QED  BY <1>5 DEF J!Min

\* What is skipped is closed: who depends on an unmerged task, or on a skipped one, is skipped.
\* Without unmerged tasks nothing is.
LEMMA SkipsDependents ==
  /\ J!Skipped \subseteq J!Pending
  /\ \A t \in J!Pending : a.deps[t] \cap (e.unmerged \cup J!Skipped) # {} => t \in J!Skipped
  /\ e.unmerged = {} => J!Skipped = {}
<1> DEFINE Follow(set) == {t \in J!Pending : a.deps[t] \cap (e.unmerged \cup set) # {}}
           least == {t \in J!Pending :
                       \A set \in SUBSET J!Pending : Follow(set) \subseteq set => t \in set}
<1>1. J!Skipped = least
  BY Zenon DEF J!Skipped
<1>2. ASSUME NEW t \in J!Pending, a.deps[t] \cap (e.unmerged \cup least) # {} PROVE t \in least
  <2> SUFFICES ASSUME NEW set \in SUBSET J!Pending, Follow(set) \subseteq set PROVE t \in set
    OBVIOUS
  <2>1. least \subseteq set
    OBVIOUS
  <2>2. t \in Follow(set)
    BY <1>2, <2>1
  <2>3. QED  BY <2>2
<1>3. e.unmerged = {} => Follow({}) = {}
  OBVIOUS
<1>4. QED  BY <1>1, <1>2, <1>3

\* While tasks are left, one of them is ready (the first: its dependencies come before it and are
\* neither left nor skipped), and all of a wave are.
LEMMA WaveGoesOn ==
  ASSUME J!ProjectFields, NEW left, left = J!Pending \ J!Skipped, left # {}
  PROVE  LET wave == J!Wave(J!Ready(left))
         IN  wave # {} /\ wave \subseteq left /\ \A t \in wave : a.deps[t] \subseteq e.completed
<1> DEFINE wave == J!Wave(J!Ready(left))
           first == J!Min(left)
<1>1. wave \subseteq left /\ \A t \in wave : a.deps[t] \subseteq e.completed
  BY DEF J!Wave, J!Ready
<1>2. left \subseteq J!Tasks /\ J!Ready(left) \subseteq J!Tasks
  BY DEF J!Pending, J!Ready
<1>3. first \in left /\ \A t \in left : first <= t
  BY <1>2, LeastTask
<1> HIDE DEF first
<1>4. a.deps[first] \subseteq e.completed
  <2> SUFFICES ASSUME NEW t \in a.deps[first], t \notin e.completed PROVE FALSE
    OBVIOUS
  <2>1. t \in J!Tasks /\ t < first
    BY <1>2, <1>3, SharedAssumption DEF J!ProjectFields, J!PlanFields, J!Tasks
  <2>2. t \notin left
    BY <1>2, <1>3, <2>1 DEF J!Tasks
  <2>3. t \in e.unmerged \cup J!Skipped
    BY <2>1, <2>2 DEF J!Pending
  <2>4. QED  BY <1>3, <2>3, SkipsDependents
<1>5. J!Ready(left) # {}
  BY <1>3, <1>4 DEF J!Ready
<1> DEFINE next == J!Min(J!Ready(left))
<1>6. next \in J!Ready(left) /\ \A t \in J!Ready(left) : next <= t
  BY <1>2, <1>5, LeastTask
<1> HIDE DEF next
<1>7. {t \in J!Ready(left) : t < next} = {}
  BY <1>2, <1>6 DEF J!Tasks
<1>8. J!Cardinality({}) = 0
  BY FS_EmptySet, Zenon DEF J!Cardinality, Cardinality
<1>9. next \in wave
  BY <1>6, <1>7, <1>8, SharedAssumption DEF J!Wave
<1>10. QED  BY <1>1, <1>9

\* The process that runs nothing.
LEMMA OffFields ==
  /\ {"pc", "resuming", "wave", "live", "raised", "completed", "unmerged", "stopped"}
       \subseteq DOMAIN J!Off
  /\ J!Off.pc = "off" /\ J!Off.wave = {} /\ J!Off.live = {} /\ J!Off.raised = {}
  /\ J!Off.completed = {} /\ J!Off.unmerged = {}
BY DEF J!Off

\* The task being settled is one of the wave.
LEMMA CurrentInWave ==
  ASSUME J!ProjectFields, J!WaveInv, e.pc \in {"mark", "dispatch", "wave"} \cup J!Settling
  PROVE  J!Current \in e.wave /\ J!Current \in J!Tasks
BY LeastTask DEF J!Current, J!WaveInv, J!ProjectFields, J!RunnerFields

\* What a failure leaves: no runner, and records of running tasks that failed.
LEMMA FailFields ==
  ASSUME NEW saved, NEW target, J!FailFrom(saved, target),
         {"state", "merged", "record", "looks"} \subseteq DOMAIN saved,
         J!Tasks \subseteq DOMAIN saved.record
  PROVE  /\ e' = J!Off
         /\ J!RecordFields' /\ b'.state = "FAILED"
         /\ b'.looks = saved.looks /\ b'.merged = saved.merged
         /\ \A t \in J!Tasks : \/ b'.record[t] = saved.record[t]
                               \/ /\ saved.record[t] = "RUNNING" /\ b'.record[t] = "FAILED"
                                  /\ ~(a.unattended /\ target)
BY DEF J!FailFrom, J!KeepsRunning, J!RecordFields

\* What settling a task leaves.
LEMMA SettleFields ==
  ASSUME J!RunnerFields, NEW sets, J!Settle(sets)
  PROVE  \/ e' = J!Off
         \/ /\ DOMAIN e' = DOMAIN e /\ e'.wave = e.wave \ {J!Current}
            /\ e'.completed = e.completed \cup sets.completed
            /\ e'.unmerged = e.unmerged \cup sets.unmerged
            /\ e'.live = e.live /\ e'.raised = e.raised
            /\ e'.pc = IF e'.wave = {} THEN "next" ELSE "settle"
<1> DEFINE rest == e.wave \ {J!Current}
           stopped == e.stopped \/ sets.stopped
<1>1. CASE rest = {} /\ stopped
  BY <1>1 DEF J!Settle
<1>2. CASE ~(rest = {} /\ stopped)
  <2>1. e' = [e EXCEPT !.wave = rest, !.stopped = stopped,
                       !.completed = @ \cup sets.completed, !.unmerged = @ \cup sets.unmerged,
                       !.pc = IF rest = {} THEN "next" ELSE "settle"]
    BY <1>2, Zenon DEF J!Settle
  <2> HIDE DEF rest, stopped
  <2>2. /\ DOMAIN e' = DOMAIN e /\ e'.wave = rest
        /\ e'.completed = e.completed \cup sets.completed
        /\ e'.unmerged = e.unmerged \cup sets.unmerged
        /\ e'.live = e.live /\ e'.raised = e.raised
        /\ e'.pc = IF rest = {} THEN "next" ELSE "settle"
    BY <2>1 DEF J!RunnerFields
  <2>3. QED  BY <2>2 DEF rest
<1>3. QED  BY <1>1, <1>2

\* A project of which one record is set.
OneRecord(p, q, t, state) ==
  /\ DOMAIN q = DOMAIN p /\ J!Tasks \subseteq DOMAIN q.record /\ q.record[t] = state
  /\ \A u \in J!Tasks \ {t} : q.record[u] = p.record[u]

\* The saves that set one record.
LEMMA RecordIsSet ==
  ASSUME NEW p, NEW q, NEW x, NEW t \in J!Tasks, NEW state, J!Tasks \subseteq DOMAIN p.record,
         {"state", "merged", "record", "looks"} \subseteq DOMAIN p
  PROVE  /\ q = [p EXCEPT !.record[t] = state] =>
              /\ OneRecord(p, q, t, state)
              /\ q.looks = p.looks /\ q.merged = p.merged /\ q.state = p.state
         /\ q = [p EXCEPT !.record[t] = state, !.looks = x] =>
              /\ OneRecord(p, q, t, state)
              /\ q.looks = x /\ q.merged = p.merged /\ q.state = p.state
         /\ q = [p EXCEPT !.record[t] = state, !.merged = x] =>
              /\ OneRecord(p, q, t, state)
              /\ q.looks = p.looks /\ q.merged = x /\ q.state = p.state
         /\ q = [p EXCEPT !.record[t] = state, !.state = x] =>
              /\ OneRecord(p, q, t, state)
              /\ q.looks = p.looks /\ q.merged = p.merged /\ q.state = x
BY DEF OneRecord

\* A task that is not integrated: its record, and where the thread goes.
LEMMA NotIntegratedFields ==
  ASSUME J!RecordFields, NEW state, J!NotIntegrated(state), J!Current \in J!Tasks
  PROVE  /\ OneRecord(b, b', J!Current, state) /\ b'.looks = b.looks /\ b'.merged = b.merged
         /\ a.unattended => b'.state = b.state /\ J!At("reason")
         /\ ~a.unattended => b'.state \in {"FAILED", "NEEDS_HUMAN"} /\ J!Settle(J!Stopped)
<1> DEFINE t == J!Current
           x == IF "FAILED" \in {b.state, state} THEN "FAILED" ELSE "NEEDS_HUMAN"
<1>1. IF a.unattended THEN b' = [b EXCEPT !.record[t] = state] /\ J!At("reason")
                      ELSE b' = [b EXCEPT !.record[t] = state, !.state = x] /\ J!Settle(J!Stopped)
  BY Zenon DEF J!NotIntegrated
<1>2. x \in {"FAILED", "NEEDS_HUMAN"}
  OBVIOUS
<1> HIDE DEF t, x
<1>3. t \in J!Tasks /\ {"state", "merged", "record", "looks"} \subseteq DOMAIN b
      /\ J!Tasks \subseteq DOMAIN b.record
  BY DEF t, J!RecordFields
<1>4. /\ OneRecord(b, b', t, state) /\ b'.looks = b.looks /\ b'.merged = b.merged
      /\ b'.state = IF a.unattended THEN b.state ELSE x
  BY <1>1, <1>3, RecordIsSet
<1>5. QED  BY <1>1, <1>2, <1>4 DEF t

\* A process that ended runs nothing.
LEMMA OffIsFine ==
  ASSUME e' = J!Off
  PROVE  /\ J!RunnerFields' /\ e'.pc = "off" /\ e'.wave = {} /\ e'.live = {} /\ e'.raised = {}
         /\ e'.completed = {} /\ e'.unmerged = {}
BY OffFields DEF J!RunnerFields

\* The same of a failure that saves no other change.
LEMMA Fails ==
  ASSUME J!RecordFields, NEW target, J!Fail(target)
  PROVE  /\ e' = J!Off
         /\ J!RecordFields' /\ b'.state = "FAILED" /\ b'.looks = b.looks /\ b'.merged = b.merged
         /\ \A t \in J!Tasks : \/ b'.record[t] = b.record[t]
                               \/ /\ b.record[t] = "RUNNING" /\ b'.record[t] = "FAILED"
                                  /\ ~(a.unattended /\ target)
BY FailFields DEF J!Fail, J!RecordFields

\* The current task is settled: the process ends, or goes on with the rest of the wave.
Settled(completed, unmerged) ==
  /\ J!RunnerFields'
  /\ \/ /\ e'.pc = "off" /\ e'.wave = {} /\ e'.live = {} /\ e'.raised = {}
        /\ e'.completed = {} /\ e'.unmerged = {}
     \/ /\ e'.wave = e.wave \ {J!Current}
        /\ e'.completed = e.completed \cup completed
        /\ e'.unmerged = e.unmerged \cup unmerged
        /\ e'.live = e.live /\ e'.raised = e.raised
        /\ e'.pc = IF e'.wave = {} THEN "next" ELSE "settle"

\* Settling the current task as stopped, integrated or unmerged.
LEMMA Settles ==
  ASSUME J!RunnerFields, J!Current \in J!Tasks
  PROVE  /\ J!Settle(J!Stopped) => Settled({}, {})
         /\ J!Settle(J!Integrated) => Settled({J!Current}, {})
         /\ J!Settle(J!Unmerged) => Settled({}, {J!Current})
<1> DEFINE cur == J!Current
<1>1. /\ J!Stopped.completed = {} /\ J!Stopped.unmerged = {}
      /\ J!Integrated.completed = {cur} /\ J!Integrated.unmerged = {}
      /\ J!Unmerged.completed = {} /\ J!Unmerged.unmerged = {cur}
  BY DEF J!Stopped, J!Integrated, J!Unmerged
<1>2. ASSUME NEW sets, J!Settle(sets), sets.completed \subseteq {cur}, sets.unmerged \subseteq {cur}
      PROVE  Settled(sets.completed, sets.unmerged)
  <2>1. CASE e' = J!Off
    BY <2>1, OffIsFine DEF Settled
  <2>2. CASE e' # J!Off
    BY <1>2, <2>2, SettleFields DEF Settled, J!RunnerFields
  <2>3. QED  BY <2>1, <2>2
<1>3. QED  BY <1>1, <1>2

\* The thread goes to another place.
Goes(pc) ==
  /\ J!RunnerFields' /\ e'.pc = pc /\ e'.wave = e.wave /\ e'.live = e.live /\ e'.raised = e.raised
  /\ e'.completed = e.completed /\ e'.unmerged = e.unmerged /\ J!Current' = J!Current

\* A step that only moves the thread.
LEMMA GoesTo ==
  ASSUME J!RunnerFields, NEW pc, J!At(pc)
  PROVE  Goes(pc)
BY DEF Goes, J!At, J!RunnerFields, J!Current

\* What that means for the wave.
LEMMA WaveSettles ==
  ASSUME J!WaveInv, J!ChildFields, e.pc \in J!Settling, J!Current \in e.wave,
         NEW x, NEW y, Settled(x, y),
         UNCHANGED <<a, d>>, f'.raises = 0 => f.raises = 0,
         \A t \in e.wave \ {J!Current} : b'.record[t] = b.record[t]
  PROVE  J!WaveInv'
<1>1. CASE e'.pc = "off"
  BY <1>1 DEF J!WaveInv, Settled, J!Settling
<1>2. CASE e'.pc = "next"
  BY <1>2 DEF J!WaveInv, Settled, J!Settling
<1>3. CASE e'.pc = "settle"
  BY <1>3 DEF J!WaveInv, Settled, J!Settling, J!Finished
<1>4. QED  BY <1>1, <1>2, <1>3 DEF Settled

\* The same while the task is not settled yet.
LEMMA WaveGoes ==
  ASSUME J!WaveInv, J!ChildFields, e.pc \in {"settle", "picked"}, NEW pc, Goes(pc),
         UNCHANGED <<a, d>>, f'.raises = 0 => f.raises = 0,
         \A t \in e.wave \ {J!Current} : b'.record[t] = b.record[t],
         \/ pc = "reason"
         \/ pc \in {"copy", "picked"} /\ ~a.remote /\ J!Current \in J!Holds(c'.head),
         pc = "picked" => b' = b
  PROVE  J!WaveInv'
BY DEF J!WaveInv, Goes, J!Settling, J!Finished

\* What one use of the supply leaves.
LEMMA TakeFields ==
  ASSUME J!SupplyFields, NEW what \in {"resumes", "raises", "fetches", "moves"}, J!Take(what)
  PROVE  /\ J!SupplyFields'
         /\ IF what = "raises" THEN f'.raises # 0 ELSE f'.raises = f.raises
         /\ IF what = "moves" THEN f'.moves # 0 ELSE f'.moves = f.moves
<1>1. f' = [f EXCEPT ![what] = @ + 1]
  BY Zenon DEF J!Take
<1>2. QED  BY <1>1 DEF J!SupplyFields

\* A fetch that fails counts as no raise and no move.
LEMMA FetchFailsFields ==
  ASSUME J!SupplyFields, J!FetchFails
  PROVE  J!SupplyFields' /\ f'.raises = f.raises /\ f'.moves = f.moves
BY TakeFields DEF J!FetchFails, J!SupplyFields

\* The branch moves forward to the target.
LEMMA FetchedFields ==
  ASSUME J!BranchFields, J!Fetched, J!FastForward
  PROVE  J!BranchFields' /\ c'.head = c.target /\ c'.target = c.target
         /\ J!Holds(c.head) \subseteq J!Holds(c.target)
<1>1. c'.head = c.target /\ c'.target = c.target /\ DOMAIN c' = DOMAIN c
  BY DEF J!Fetched, J!BranchFields
<1>2. J!Holds(c.head) \subseteq J!Holds(c.target)
  BY PrefixHolds DEF J!FastForward, J!BranchFields
<1>3. QED  BY <1>1, <1>2 DEF J!BranchFields

\* When a rejected task must not be on the branch.
MayReject == f.raises = 0 /\ f.moves = 0 /\ (a.remote => a.unattended)

\* A step that rejects no task of the branch keeps that.
LEMMA RejectsNone ==
  ASSUME J!RejectedIsNotIntegrated, UNCHANGED a,
         a.remote => c'.target = c.target, ~a.remote => c'.head = c.head,
         f'.raises = 0 => f.raises = 0, f'.moves = 0 => f.moves = 0,
         \A t \in J!Tasks : b'.record[t] \in {"FAILED", "NEEDS_HUMAN"} /\ MayReject =>
           \/ b.record[t] \in {"FAILED", "NEEDS_HUMAN"}
           \/ J!Commit(t, TRUE) \notin J!ToSet(IF a.remote THEN c.target ELSE c.head)
  PROVE  J!RejectedIsNotIntegrated'
BY DEF J!RejectedIsNotIntegrated, J!Rejected, J!Unmoved, MayReject

\* A project that fails keeps the invariant, when no running task that is on the branch fails.
LEMMA StopsKept ==
  ASSUME J!ProjectInv, e.pc # "off", UNCHANGED <<a, d>>, e' = J!Off,
         J!RecordFields', b'.state = "FAILED", b.looks \subseteq b'.looks, b'.merged = b.merged,
         ~a.unattended => b'.looks = {},
         \A t \in J!Tasks : \/ b'.record[t] \in {b.record[t], "PENDING"}
                            \/ b'.record[t] = "FAILED" /\ ~MayReject,
         J!SupplyFields', f'.raises = f.raises, f'.moves = f.moves,
         J!BranchFields', c'.target = c.target, ~a.remote => c' = c,
         J!Holds(c.head) \subseteq J!Holds(c'.head),
         c' # c => J!Holds(c'.head) \subseteq J!Holds(c.target)
  PROVE  J!ProjectInv'
<1>1. J!ProjectFields'
  BY OffIsFine DEF J!ProjectInv, J!ProjectFields, J!PlanFields, J!ChildFields
<1>2. J!WaveInv'
  BY OffIsFine DEF J!WaveInv, J!Settling
<1>3. J!RecordInv'
  BY OffIsFine DEF J!ProjectInv, J!RecordInv, J!ProjectFields, J!PlanFields
<1>4. J!BranchInv'
  BY DEF J!ProjectInv, J!BranchInv, J!Unmoved
<1>5. J!RejectedIsNotIntegrated'
  BY RejectsNone DEF J!ProjectInv, MayReject
<1>6. J!StartsFromDependencies'
  BY DEF J!ProjectInv, J!StartsFromDependencies, J!Unmoved
<1>7. QED  BY <1>1, <1>2, <1>3, <1>4, <1>5, <1>6 DEF J!ProjectInv

\* What a step of the project leaves of the branches and children needs no other argument.
LEMMA GoesOnKept ==
  ASSUME J!ProjectInv, UNCHANGED <<a, d>>,
         J!RecordFields', J!RunnerFields', J!WaveInv', J!RecordInv', b'.merged \subseteq b.merged,
         \A t \in J!Tasks : b'.record[t] \in {"FAILED", "NEEDS_HUMAN"}
                            => b'.record[t] = b.record[t],
         J!SupplyFields', f'.raises = f.raises, f'.moves = f.moves,
         J!BranchFields', c'.target = c.target, ~a.remote => c' = c,
         c' # c => J!Holds(c'.head) \subseteq J!Holds(c.target)
  PROVE  J!ProjectInv'
<1>1. J!ProjectFields'
  BY DEF J!ProjectInv, J!ProjectFields, J!PlanFields, J!ChildFields
<1>2. J!BranchInv'
  BY DEF J!ProjectInv, J!BranchInv, J!Unmoved
<1>3. J!RejectedIsNotIntegrated'
  BY RejectsNone DEF J!ProjectInv, MayReject
<1>4. J!StartsFromDependencies'
  BY DEF J!ProjectInv, J!StartsFromDependencies, J!Unmoved
<1>5. QED  BY <1>1, <1>2, <1>3, <1>4 DEF J!ProjectInv

\* A task that is not integrated keeps the invariant, when its change is not on the branch.
LEMMA NotIntegratedKept ==
  ASSUME J!ProjectInv, e.pc = "settle", UNCHANGED <<a, d>>,
         NEW state \in {"NEEDS_HUMAN", "FAILED"}, J!NotIntegrated(state),
         J!SupplyFields', f'.moves = f.moves, f'.raises = 0 => f.raises = 0,
         J!BranchFields', c'.target = c.target, ~a.remote => c'.head = c.head,
         J!Holds(c.head) \subseteq J!Holds(c'.head),
         J!Holds(c'.head) \subseteq J!Holds(c.head) \cup J!Holds(c.target),
         MayReject /\ f'.raises = 0 =>
           J!Commit(J!Current, TRUE) \notin J!ToSet(IF a.remote THEN c.target ELSE c.head)
  PROVE  J!ProjectInv'
<1>1. J!ProjectFields /\ J!WaveInv /\ J!RecordInv /\ J!BranchInv
  BY DEF J!ProjectInv
<1>2. J!Current \in e.wave /\ J!Current \in J!Tasks
  BY <1>1, CurrentInWave DEF J!Settling
<1>3. J!RecordFields /\ J!RunnerFields /\ J!ChildFields
  BY <1>1 DEF J!ProjectFields
<1>4. /\ OneRecord(b, b', J!Current, state) /\ b'.looks = b.looks /\ b'.merged = b.merged
      /\ a.unattended => b'.state = b.state /\ Goes("reason")
      /\ ~a.unattended => b'.state \in {"FAILED", "NEEDS_HUMAN"} /\ Settled({}, {})
  BY <1>2, <1>3, NotIntegratedFields, Settles, GoesTo
<1>5. J!RecordFields' /\ J!RunnerFields'
  BY <1>3, <1>4 DEF J!RecordFields, OneRecord, Goes, Settled
<1>6. J!ProjectFields'
  BY <1>1, <1>5 DEF J!ProjectFields, J!PlanFields, J!ChildFields
<1>7. J!WaveInv'
  <2>1. \A t \in e.wave \ {J!Current} : b'.record[t] = b.record[t]
    BY <1>3, <1>4 DEF OneRecord, J!RunnerFields
  <2>2. CASE a.unattended
    BY <1>1, <1>2, <1>3, <1>4, <2>1, <2>2, WaveGoes
  <2>3. CASE ~a.unattended
    BY <1>1, <1>2, <1>3, <1>4, <2>1, <2>3, WaveSettles DEF J!Settling
  <2>4. QED  BY <2>2, <2>3
<1>8. J!RecordInv'
  BY <1>1, <1>2, <1>3, <1>4 DEF J!RecordInv, Goes, Settled, OneRecord
<1>9. J!BranchInv'
  BY <1>1, <1>4 DEF J!BranchInv, J!Unmoved
<1>10. J!RejectedIsNotIntegrated'
  <2>1. CASE f'.raises = 0
    <3>1. \A t \in J!Tasks : b'.record[t] \in {"FAILED", "NEEDS_HUMAN"} /\ MayReject =>
            \/ b.record[t] \in {"FAILED", "NEEDS_HUMAN"}
            \/ J!Commit(t, TRUE) \notin J!ToSet(IF a.remote THEN c.target ELSE c.head)
      BY <1>2, <1>4, <2>1 DEF OneRecord
    <3>2. QED  BY <3>1, RejectsNone DEF J!ProjectInv
  <2>2. CASE f'.raises # 0
    BY <2>2 DEF J!RejectedIsNotIntegrated
  <2>3. QED  BY <2>1, <2>2
<1>11. J!StartsFromDependencies'
  BY DEF J!ProjectInv, J!StartsFromDependencies, J!Unmoved
<1>12. QED  BY <1>6, <1>7, <1>8, <1>9, <1>10, <1>11 DEF J!ProjectInv

\* What happens to the supply in most steps.
LEMMA SupplyStays ==
  ASSUME J!SupplyFields, \/ UNCHANGED f
                         \/ J!Take("resumes") \/ J!Take("fetches")
  PROVE  J!SupplyFields' /\ f'.raises = f.raises /\ f'.moves = f.moves
BY TakeFields DEF J!SupplyFields

\* A failure that can say nothing of a task on the branch.
LEMMA FailKept ==
  ASSUME J!ProjectInv, e.pc # "off", UNCHANGED <<a, c, d>>, UNCHANGED f \/ J!Take("fetches"),
         NEW target, J!Fail(target),
         \A t \in J!Tasks : \/ b.record[t] # "RUNNING"
                            \/ a.unattended /\ target
                            \/ ~MayReject
  PROVE  J!ProjectInv'
<1>1. /\ J!RecordFields /\ J!SupplyFields /\ J!BranchFields
      /\ ~a.unattended => b.looks = {}
  BY DEF J!ProjectInv, J!ProjectFields, J!RecordInv
<1>2. /\ e' = J!Off /\ J!RecordFields' /\ b'.state = "FAILED" /\ b'.looks = b.looks
      /\ b'.merged = b.merged
      /\ \A t \in J!Tasks : \/ b'.record[t] = b.record[t]
                            \/ b'.record[t] = "FAILED" /\ ~MayReject
  BY <1>1, Fails
<1>3. J!SupplyFields' /\ f'.raises = f.raises /\ f'.moves = f.moves
  BY <1>1, SupplyStays
<1>4. J!BranchFields'
  BY <1>1 DEF J!BranchFields
<1>5. QED  BY <1>1, <1>2, <1>3, <1>4, StopsKept

\* A step of the runner alone, which rejects no task.
LEMMA QuietKept ==
  ASSUME J!ProjectInv, UNCHANGED <<a, c, d>>,
         \/ UNCHANGED f
         \/ J!Take("resumes") \/ J!Take("fetches"),
         J!RecordFields', J!RunnerFields', J!WaveInv', J!RecordInv', b'.merged = b.merged,
         \A t \in J!Tasks : b'.record[t] \in {b.record[t], "PENDING", "RUNNING", "DONE"}
  PROVE  J!ProjectInv'
<1>1. J!SupplyFields /\ J!BranchFields
  BY DEF J!ProjectInv, J!ProjectFields
<1>2. J!SupplyFields' /\ f'.raises = f.raises /\ f'.moves = f.moves
  BY <1>1, SupplyStays
<1>3. J!BranchFields'
  BY <1>1 DEF J!BranchFields
<1>4. QED  BY <1>2, <1>3, GoesOnKept

\* Between two waves there is nothing to say of one.
LEMMA NoWave ==
  ASSUME J!WaveInv, e'.pc \notin {"mark", "dispatch", "wave"} \cup J!Settling,
         e'.wave = {}, e'.live = {}, e'.raised \in {{}, e.raised}, f'.raises = 0 => f.raises = 0
  PROVE  J!WaveInv'
BY DEF J!WaveInv, J!Settling

\* The records stay as they are.
Records(state, looks) ==
  /\ J!RecordFields' /\ b'.state = state /\ b'.looks = looks /\ b'.merged = b.merged
  /\ \A t \in J!Tasks : b'.record[t] = b.record[t]

\* The saves that leave the records.
LEMMA RecordsStay ==
  ASSUME J!RecordFields, NEW x
  PROVE  /\ b' = [b EXCEPT !.state = x] => Records(x, b.looks)
         /\ b' = [b EXCEPT !.state = "RUNNING", !.tasks = x] => Records("RUNNING", b.looks)
         /\ \/ b' = [b EXCEPT !.planned = x]
            \/ b' = [b EXCEPT !.warned = x]
            \/ b' = [b EXCEPT !.copied = x]
            \/ UNCHANGED b
            => Records(b.state, b.looks)
         /\ b' = [b EXCEPT !.looks = x] => Records(b.state, x)
BY DEF J!RecordFields, Records

\* A step between two waves.
LEMMA BetweenKept ==
  ASSUME J!ProjectInv, UNCHANGED <<a, c, d>>, UNCHANGED f \/ J!Take("resumes"),
         e.pc \notin {"mark", "dispatch", "wave"} \cup J!Settling,
         NEW state, Records(state, b.looks), J!RecordInv',
         \/ \E pc : Goes(pc) /\ pc \notin {"mark", "dispatch", "wave"} \cup J!Settling
         \/ /\ J!RunnerFields' /\ e'.pc \in {"off", "reconcile"}
            /\ e'.wave = {} /\ e'.live = {} /\ e'.raised = {}
  PROVE  J!ProjectInv'
<1>1. J!SupplyFields /\ J!WaveInv
  BY DEF J!ProjectInv, J!ProjectFields
<1>2. f'.raises = f.raises
  BY <1>1, SupplyStays
<1>3. J!WaveInv' /\ J!RunnerFields'
  <2>1. e.wave = {} /\ e.live = {}
    BY <1>1 DEF J!WaveInv, J!Settling
  <2>2. CASE \E pc : Goes(pc) /\ pc \notin {"mark", "dispatch", "wave"} \cup J!Settling
    BY <1>1, <1>2, <2>1, <2>2, NoWave DEF Goes
  <2>3. CASE /\ J!RunnerFields' /\ e'.pc \in {"off", "reconcile"}
             /\ e'.wave = {} /\ e'.live = {} /\ e'.raised = {}
    BY <1>1, <1>2, <2>3, NoWave DEF J!Settling
  <2>4. QED  BY <2>2, <2>3
<1>4. QED  BY <1>3, QuietKept DEF Records

\* run saves the execution before there is a plan.
LEMMA StartKept ==
  ASSUME J!ProjectInv, J!Start
  PROVE  J!ProjectInv'
<1>1. /\ e.pc = "off" /\ b.state = "none" /\ UNCHANGED <<a, c, d, f>>
      /\ Records("PLANNING", b.looks)
      /\ Goes("plan")
  BY RecordsStay, GoesTo DEF J!ProjectInv, J!ProjectFields, J!Start
<1>2. J!RecordInv'
  BY <1>1 DEF J!ProjectInv, J!RecordInv, Records, Goes
<1>3. QED  BY <1>1, <1>2, BetweenKept DEF J!Settling

\* The tasks are saved and the waves begin.
LEMMA SaveTasksKept ==
  ASSUME J!ProjectInv, J!SaveTasks
  PROVE  J!ProjectInv'
<1>1. /\ e.pc = "planned" /\ UNCHANGED <<a, c, d, f>>
      /\ Records("RUNNING", b.looks)
      /\ Goes("next")
  BY RecordsStay, GoesTo DEF J!ProjectInv, J!ProjectFields, J!SaveTasks
<1>2. J!RecordInv'
  BY <1>1 DEF J!ProjectInv, J!RecordInv, Records, Goes
<1>3. QED  BY <1>1, <1>2, BetweenKept DEF J!Settling

\* The failed final verification is noted.
LEMMA WarnOfVerificationKept ==
  ASSUME J!ProjectInv, J!WarnOfVerification
  PROVE  J!ProjectInv'
<1>1. /\ e.pc = "warn" /\ UNCHANGED <<a, c, d, f>>
      /\ Records(b.state, b.looks)
      /\ Goes("done")
  BY RecordsStay, GoesTo DEF J!ProjectInv, J!ProjectFields, J!WarnOfVerification
<1>2. J!RecordInv'
  BY <1>1 DEF J!ProjectInv, J!RecordInv, Records, Goes
<1>3. QED  BY <1>1, <1>2, BetweenKept DEF J!Settling

\* A second run of the same id finds an abandoned project.
LEMMA MarkAbandonedKept ==
  ASSUME J!ProjectInv, J!MarkAbandoned
  PROVE  J!ProjectInv'
<1>1. /\ e.pc = "off" /\ UNCHANGED <<a, c, d, e, f>>
      /\ b.state \in {"PLANNING", "RUNNING"} /\ Records("NEEDS_HUMAN", b.looks)
  BY RecordsStay DEF J!ProjectInv, J!ProjectFields, J!MarkAbandoned
<1>2. Goes("off")
  BY <1>1 DEF J!ProjectInv, J!ProjectFields, J!RunnerFields, J!Current, Goes
<1>3. J!RecordInv'
  BY <1>1, <1>2 DEF J!ProjectInv, J!RecordInv, Records, Goes
<1>4. QED  BY <1>1, <1>2, <1>3, BetweenKept DEF J!Settling

\* A plan is made, or no running task fails with the project.
LEMMA MakePlanKept ==
  ASSUME J!ProjectInv, J!MakePlan
  PROVE  J!ProjectInv'
<1>1. e.pc = "plan" /\ UNCHANGED <<a, c, d, f>>
  BY DEF J!MakePlan
<1>2. CASE Records(b.state, b.looks) /\ Goes("planned")
  <2>1. J!RecordInv'
    BY <1>1, <1>2 DEF J!ProjectInv, J!RecordInv, Records, Goes
  <2>2. QED  BY <1>1, <1>2, <2>1, BetweenKept DEF J!Settling
<1>3. CASE J!Fail(FALSE)
  <2>1. \A t \in J!Tasks : b.record[t] # "RUNNING"
    BY <1>1 DEF J!ProjectInv, J!RecordInv
  <2>2. QED  BY <1>1, <1>3, <2>1, FailKept
<1>4. QED
  BY <1>2, <1>3, RecordsStay, GoesTo DEF J!ProjectInv, J!ProjectFields, J!MakePlan

\* A resume starts with no wave and settles again what it finds.
LEMMA ResumeKept ==
  ASSUME J!ProjectInv, J!Resume
  PROVE  J!ProjectInv'
<1>1. /\ e.pc = "off" /\ UNCHANGED <<a, c, d>> /\ J!Take("resumes")
      /\ b.state \notin {"none", "DONE"} /\ Records("RUNNING", b.looks)
      /\ e' = [J!Off EXCEPT !.pc = "reconcile", !.resuming = TRUE]
  BY RecordsStay DEF J!ProjectInv, J!ProjectFields, J!Resume
<1>2. /\ J!RunnerFields' /\ e'.pc = "reconcile" /\ e'.wave = {} /\ e'.live = {} /\ e'.raised = {}
      /\ e'.completed = {} /\ e'.unmerged = {}
  BY <1>1, OffFields DEF J!RunnerFields
<1>3. J!RecordInv'
  BY <1>1, <1>2 DEF J!ProjectInv, J!RecordInv, Records
<1>4. QED  BY <1>1, <1>2, <1>3, BetweenKept DEF J!Settling

\* The final verification passes, is warned of, or stops the project.
LEMMA VerifyKept ==
  ASSUME J!ProjectInv, J!Verify
  PROVE  J!ProjectInv'
<1>1. /\ e.pc = "final" /\ UNCHANGED <<a, c, d, f>>
      /\ \/ Records(b.state, b.looks) /\ (Goes("passed") \/ Goes("warn"))
         \/ Records("NEEDS_HUMAN", b.looks) /\ e' = J!Off
  BY RecordsStay, GoesTo DEF J!ProjectInv, J!ProjectFields, J!Verify
<1>2. J!RecordInv'
  BY <1>1, OffIsFine DEF J!ProjectInv, J!RecordInv, Records, Goes
<1>3. QED  BY <1>1, <1>2, OffIsFine, BetweenKept DEF J!Settling

\* The project is done: every task is settled, as completed or as unmerged.
LEMMA FinishDoneKept ==
  ASSUME J!ProjectInv, J!FinishDone
  PROVE  J!ProjectInv'
<1>1. e.pc \in {"passed", "done"} /\ UNCHANGED <<a, c, d>>
  BY DEF J!FinishDone
<1>2. CASE Records("DONE", b.looks) /\ e' = J!Off /\ UNCHANGED f
  <2>1. J!RecordInv'
    BY <1>1, <1>2, OffIsFine DEF J!ProjectInv, J!RecordInv, Records
  <2>2. QED  BY <1>1, <1>2, <2>1, OffIsFine, BetweenKept DEF J!Settling
<1>3. CASE a.remote /\ J!Take("fetches") /\ J!Fail(TRUE)
  BY <1>1, <1>3, FailKept DEF MayReject
<1>4. QED
  BY <1>2, <1>3, RecordsStay DEF J!ProjectInv, J!ProjectFields, J!FinishDone

\* The tasks of the wave are running before anything is dispatched.
LEMMA MarkRunningKept ==
  ASSUME J!ProjectInv, J!MarkRunning
  PROVE  J!ProjectInv'
<1>1. /\ e.pc = "mark" /\ UNCHANGED <<a, c, d, f>> /\ J!At("dispatch")
      /\ b' = [b EXCEPT !.record = [t \in J!Tasks |-> IF t \in e.wave THEN "RUNNING" ELSE @[t]]]
  BY DEF J!MarkRunning
<1>2. J!RecordFields /\ J!RunnerFields /\ J!WaveInv /\ J!RecordInv
  BY DEF J!ProjectInv, J!ProjectFields
<1>3. /\ J!RecordFields' /\ b'.state = b.state /\ b'.looks = b.looks /\ b'.merged = b.merged
      /\ \A t \in J!Tasks : b'.record[t] = IF t \in e.wave THEN "RUNNING" ELSE b.record[t]
  BY <1>1, <1>2 DEF J!RecordFields
<1>4. Goes("dispatch")
  BY <1>1, <1>2, GoesTo
<1>5. J!WaveInv'
  BY <1>1, <1>2, <1>3, <1>4 DEF J!WaveInv, J!RunnerFields, J!Settling, Goes
<1>6. J!RecordInv'
  BY <1>1, <1>2, <1>3, <1>4 DEF J!RecordInv, Goes
<1>7. QED  BY <1>1, <1>3, <1>4, <1>5, <1>6, QuietKept DEF Goes

\* A child starts from a branch with all that was completed, so with its dependencies.
LEMMA DispatchKept ==
  ASSUME J!ProjectInv, J!Dispatch
  PROVE  J!ProjectInv'
<1> DEFINE base == J!Holds(IF a.remote THEN c.target ELSE c.head)
<1>1. /\ e.pc = "dispatch" /\ UNCHANGED <<a, b, c, f>>
      /\ d' = [t \in J!Tasks |-> IF t \in e.wave /\ d[t].state = "none"
                                   THEN [d[t] EXCEPT !.state = "going", !.base = base] ELSE d[t]]
      /\ e' = [e EXCEPT !.pc = "wave", !.raised = {}, !.live = {t \in e.wave : ~J!Finished(t)}]
  BY DEF J!Dispatch
<1>2. (a.remote => J!Unmoved) => e.completed \subseteq base
  BY DEF J!ProjectInv, J!RecordInv, J!BranchInv
<1> HIDE DEF base
<1>3. /\ J!PlanFields /\ J!RecordFields /\ J!BranchFields /\ J!ChildFields /\ J!RunnerFields
      /\ J!SupplyFields /\ J!WaveInv /\ J!RecordInv /\ J!BranchInv
  BY DEF J!ProjectInv, J!ProjectFields
<1>4. /\ J!RunnerFields' /\ e'.pc = "wave" /\ e'.raised = {} /\ e'.wave = e.wave
      /\ e'.live = {t \in e.wave : ~J!Finished(t)}
      /\ e'.completed = e.completed /\ e'.unmerged = e.unmerged
  <2>1. /\ DOMAIN e' = DOMAIN e /\ e'.pc = "wave" /\ e'.raised = {} /\ e'.wave = e.wave
        /\ e'.live = {t \in e.wave : ~J!Finished(t)}
        /\ e'.completed = e.completed /\ e'.unmerged = e.unmerged
    BY <1>1, <1>3 DEF J!RunnerFields
  <2>2. QED  BY <1>3, <2>1 DEF J!RunnerFields
<1>5. J!ChildFields' /\ \A t \in J!Tasks :
        \/ d'[t] = d[t] /\ (t \in e.wave => d[t].state # "none")
        \/ /\ t \in e.wave /\ d[t].state = "none" /\ d'[t].state = "going" /\ d'[t].base = base
           /\ d'[t].sha = d[t].sha
  BY <1>1, <1>3 DEF J!ChildFields
<1>6. UNCHANGED <<a, b, c, f>> /\ e.pc = "dispatch"
  BY <1>1
<1>7. J!ProjectFields'
  BY <1>3, <1>4, <1>5, <1>6
  DEF J!ProjectFields, J!PlanFields, J!RecordFields, J!BranchFields, J!SupplyFields
<1>8. J!WaveInv'
  BY <1>3, <1>4, <1>5, <1>6
  DEF J!WaveInv, J!RunnerFields, J!ChildFields, J!Settling, J!Finished
<1>9. J!RecordInv'
  BY <1>3, <1>4, <1>5, <1>6 DEF J!RecordInv
<1>10. J!BranchInv'
  BY <1>3, <1>5, <1>6 DEF J!BranchInv, J!Unmoved
<1>11. J!RejectedIsNotIntegrated'
  BY <1>6 DEF J!ProjectInv, J!RejectedIsNotIntegrated, J!Rejected, J!Unmoved
<1>12. J!StartsFromDependencies'
  BY <1>2, <1>3, <1>5, <1>6, SharedAssumption
  DEF J!ProjectInv, J!StartsFromDependencies, J!WaveInv, J!Unmoved
<1>13. QED  BY <1>7, <1>8, <1>9, <1>10, <1>11, <1>12 DEF J!ProjectInv

\* No child is live: each finished or raised.
LEMMA WaveEndsKept ==
  ASSUME J!ProjectInv, J!WaveEnds
  PROVE  J!ProjectInv'
<1>1. /\ e.pc = "wave" /\ e.live = {} /\ UNCHANGED <<a, b, c, d, f>> /\ Goes("settle")
  BY GoesTo DEF J!ProjectInv, J!ProjectFields, J!WaveEnds
<1>2. J!WaveInv'
  BY <1>1 DEF J!ProjectInv, J!WaveInv, J!Settling, J!Finished, Goes
<1>3. J!RecordFields' /\ J!RecordInv'
  BY <1>1 DEF J!ProjectInv, J!ProjectFields, J!RecordFields, J!RecordInv, Goes
<1>4. QED  BY <1>1, <1>2, <1>3, QuietKept DEF Goes

\* The reason of a rejected task is saved after its record.
LEMMA AddReasonKept ==
  ASSUME J!ProjectInv, J!AddReason
  PROVE  J!ProjectInv'
<1>1. /\ e.pc = "reason"
      /\ UNCHANGED <<a, c, d, f>>
  BY DEF J!AddReason
<1>2. /\ J!RecordFields /\ J!RunnerFields /\ J!ChildFields /\ J!WaveInv /\ J!RecordInv
  BY DEF J!ProjectInv, J!ProjectFields
<1>3. J!Current \in e.wave /\ J!Current \in J!Tasks
  BY <1>1, <1>2, CurrentInWave DEF J!ProjectInv, J!Settling
<1>4. Settled({}, {J!Current})
  BY <1>2, <1>3, Settles, GoesTo DEF J!AddReason
<1>5. /\ J!RecordFields' /\ b'.looks = b.looks \cup {J!Current} /\ b'.record = b.record
      /\ b'.merged = b.merged /\ b'.state = b.state
  BY <1>2 DEF J!AddReason, J!RecordFields
<1>6. J!RecordFields' /\ \A t \in J!Tasks \ {J!Current} : b'.record[t] = b.record[t]
  BY <1>5
<1>7. J!WaveInv'
  BY <1>1, <1>2, <1>3, <1>4, <1>6, WaveSettles DEF J!Settling, J!RunnerFields
<1>8. J!RecordInv'
  BY <1>1, <1>2, <1>3, <1>4, <1>5 DEF J!WaveInv, J!RecordInv, Settled
<1>9. QED  BY <1>1, <1>3, <1>4, <1>5, <1>6, <1>7, <1>8, QuietKept DEF Settled

\* A task whose pull request is open is done and named in one save.
LEMMA SettleOpenKept ==
  ASSUME J!ProjectInv, J!SettleOpen
  PROVE  J!ProjectInv'
<1>1. /\ e.pc = "settle" /\ a.remote /\ ~d[J!Current].sha
      /\ d[J!Current].state \in {"PR_READY", "DONE"}
      /\ UNCHANGED <<a, c, d, f>>
  BY DEF J!SettleOpen, J!Succeeded
<1>2. /\ J!RecordFields /\ J!RunnerFields /\ J!ChildFields /\ J!WaveInv /\ J!RecordInv
  BY DEF J!ProjectInv, J!ProjectFields
<1>3. J!Current \in e.wave /\ J!Current \in J!Tasks
  BY <1>1, <1>2, CurrentInWave DEF J!ProjectInv, J!Settling
<1>4. Settled({}, {J!Current})
  BY <1>2, <1>3, Settles, GoesTo DEF J!SettleOpen
<1>5. /\ OneRecord(b, b', J!Current, "DONE") /\ b'.looks = b.looks \cup {J!Current}
      /\ b'.merged = b.merged /\ b'.state = b.state
  BY <1>2, <1>3, RecordIsSet DEF J!SettleOpen, J!RecordFields
<1>6. J!RecordFields' /\ \A t \in J!Tasks \ {J!Current} : b'.record[t] = b.record[t]
  BY <1>2, <1>5 DEF J!RecordFields, OneRecord
<1>7. J!WaveInv'
  BY <1>1, <1>2, <1>3, <1>4, <1>6, WaveSettles DEF J!Settling, J!RunnerFields
<1>8. J!RecordInv'
  BY <1>1, <1>2, <1>3, <1>4, <1>5 DEF J!WaveInv, J!RecordInv, Settled, OneRecord
<1>9. QED  BY <1>1, <1>3, <1>4, <1>5, <1>6, <1>7, <1>8, QuietKept DEF Settled, OneRecord

\* A picked task is recorded as done.
LEMMA SavePickKept ==
  ASSUME J!ProjectInv, J!SavePick
  PROVE  J!ProjectInv'
<1>1. /\ e.pc = "picked"
      /\ UNCHANGED <<a, c, d, f>>
  BY DEF J!SavePick
<1>2. /\ J!RecordFields /\ J!RunnerFields /\ J!ChildFields /\ J!WaveInv /\ J!RecordInv
  BY DEF J!ProjectInv, J!ProjectFields
<1>3. J!Current \in e.wave /\ J!Current \in J!Tasks
  BY <1>1, <1>2, CurrentInWave DEF J!ProjectInv, J!Settling
<1>4. IF a.unattended THEN Goes("copy") ELSE Settled({J!Current}, {})
  BY <1>2, <1>3, Settles, GoesTo DEF J!SavePick
<1>5. /\ OneRecord(b, b', J!Current, "DONE") /\ b'.looks = b.looks
      /\ b'.merged = b.merged /\ b'.state = b.state
  BY <1>2, <1>3, RecordIsSet DEF J!SavePick, J!RecordFields
<1>6. J!RecordFields' /\ \A t \in J!Tasks \ {J!Current} : b'.record[t] = b.record[t]
  BY <1>2, <1>5 DEF J!RecordFields, OneRecord
<1>7. J!WaveInv'
  BY <1>1, <1>2, <1>3, <1>4, <1>6, WaveSettles, WaveGoes DEF J!Settling, J!RunnerFields, J!WaveInv
<1>8. J!RecordInv'
  BY <1>1, <1>2, <1>3, <1>4, <1>5 DEF J!WaveInv, J!RecordInv, Settled, Goes, OneRecord
<1>9. QED  BY <1>1, <1>3, <1>4, <1>5, <1>6, <1>7, <1>8, QuietKept DEF Settled, Goes, OneRecord

\* The reasons of a local child are copied.
LEMMA CopyReasonsKept ==
  ASSUME J!ProjectInv, J!CopyReasons
  PROVE  J!ProjectInv'
<1>1. /\ e.pc = "copy"
      /\ UNCHANGED <<a, c, d, f>>
  BY DEF J!CopyReasons
<1>2. /\ J!RecordFields /\ J!RunnerFields /\ J!ChildFields /\ J!WaveInv /\ J!RecordInv
  BY DEF J!ProjectInv, J!ProjectFields
<1>3. J!Current \in e.wave /\ J!Current \in J!Tasks
  BY <1>1, <1>2, CurrentInWave DEF J!ProjectInv, J!Settling
<1>4. Settled({J!Current}, {})
  BY <1>2, <1>3, Settles, GoesTo DEF J!CopyReasons
<1>5. /\ J!RecordFields' /\ b'.looks = b.looks /\ b'.record = b.record
      /\ b'.merged = b.merged /\ b'.state = b.state
  BY <1>2 DEF J!CopyReasons, J!RecordFields
<1>6. J!RecordFields' /\ \A t \in J!Tasks \ {J!Current} : b'.record[t] = b.record[t]
  BY <1>5
<1>7. J!WaveInv'
  BY <1>1, <1>2, <1>3, <1>4, <1>6, WaveSettles DEF J!Settling, J!RunnerFields
<1>8. J!RecordInv'
  BY <1>1, <1>2, <1>3, <1>4, <1>5 DEF J!WaveInv, J!RecordInv, Settled
<1>9. QED  BY <1>1, <1>3, <1>4, <1>5, <1>6, <1>7, <1>8, QuietKept DEF Settled

\* A child that failed without raising is not on the branch, so its task may be rejected.
LEMMA SettleFailedKept ==
  ASSUME J!ProjectInv, J!SettleFailed
  PROVE  J!ProjectInv'
<1> DEFINE state == IF J!Current \notin e.raised /\ d[J!Current].state = "NEEDS_HUMAN"
                      THEN "NEEDS_HUMAN" ELSE "FAILED"
           held == IF a.remote THEN c.target ELSE c.head
<1>1. /\ state \in {"NEEDS_HUMAN", "FAILED"} /\ J!NotIntegrated(state)
      /\ e.pc = "settle" /\ UNCHANGED <<a, c, d, f>>
      /\ J!Current \in e.raised \/ d[J!Current].state \notin {"PR_READY", "DONE"}
  BY DEF J!SettleFailed, J!Succeeded
<1> HIDE DEF state
<1>2. /\ J!SupplyFields /\ J!BranchFields /\ J!ChildFields /\ J!WaveInv /\ J!BranchInv
  BY DEF J!ProjectInv, J!ProjectFields
<1>3. J!Current \in e.wave /\ J!Current \in J!Tasks
  BY <1>1, <1>2, CurrentInWave DEF J!ProjectInv, J!Settling
<1>4. MayReject => J!Commit(J!Current, TRUE) \notin J!ToSet(held)
  <2> SUFFICES ASSUME MayReject PROVE J!Current \notin J!Holds(held)
    <3>1. held \in Seq(J!Commits)
      BY <1>2 DEF J!BranchFields
    <3>2. QED  BY <3>1, CommitsOf
  <2>1. e.live = {} /\ e.raised = {} /\ J!Finished(J!Current)
    BY <1>1, <1>2, <1>3 DEF J!WaveInv, J!Settling, MayReject
  <2>2. d[J!Current].state \in {"NEEDS_HUMAN", "FAILED"}
    BY <1>1, <1>2, <1>3, <2>1 DEF J!ChildFields, J!Finished
  <2>3. QED  BY <1>2, <1>3, <2>2 DEF J!BranchInv, J!Unmoved, MayReject
<1>5. J!SupplyFields' /\ J!BranchFields'
  BY <1>1, <1>2 DEF J!SupplyFields, J!BranchFields
<1>6. QED  BY <1>1, <1>4, <1>5, NotIntegratedKept

\* A resume takes as completed what is on the branch, and names the rejected tasks again.
LEMMA ReconcileKept ==
  ASSUME J!ProjectInv, J!Reconcile
  PROVE  J!ProjectInv'
<1> DEFINE unmerged == {t \in J!Tasks : a.unattended /\ J!DidNotMerge(t)}
           completed == {t \in J!Tasks \ unmerged : b.record[t] = "DONE"}
           proven == a.remote => completed \subseteq (b.merged \cap J!Holds(c.target))
<1>1. /\ e.pc = "reconcile" /\ UNCHANGED <<a, d>>
      /\ \/ a.remote /\ J!FetchFails /\ J!Fail(TRUE) /\ UNCHANGED c
         \/ /\ a.remote => J!FastForward
            /\ IF a.remote THEN J!Fetched ELSE UNCHANGED c
            /\ IF proven
                 THEN /\ b' = [b EXCEPT !.looks = @ \cup J!LostReasons(unmerged)]
                      /\ e' = [e EXCEPT !.pc = "next", !.completed = completed,
                                        !.unmerged = unmerged]
                 ELSE J!Fail(FALSE)
            /\ UNCHANGED f
  BY Zenon DEF J!Reconcile
<1>0. /\ J!RecordFields /\ J!SupplyFields /\ J!BranchFields /\ J!RunnerFields
      /\ ~a.unattended => b.looks = {}
  BY DEF J!ProjectInv, J!ProjectFields, J!RecordInv
<1>2. CASE a.remote /\ J!FetchFails /\ J!Fail(TRUE) /\ UNCHANGED c
  <2>1. e.pc # "off" /\ (UNCHANGED f \/ J!Take("fetches"))
    BY <1>1, <1>2 DEF J!FetchFails
  <2>2. QED  BY <1>1, <1>2, <2>1, FailKept DEF MayReject
<1>3. CASE /\ a.remote => J!FastForward
           /\ IF a.remote THEN J!Fetched ELSE UNCHANGED c
           /\ IF proven
                THEN /\ b' = [b EXCEPT !.looks = @ \cup J!LostReasons(unmerged)]
                     /\ e' = [e EXCEPT !.pc = "next", !.completed = completed,
                                       !.unmerged = unmerged]
                ELSE J!Fail(FALSE)
           /\ UNCHANGED f
  <2>a. /\ a.remote => J!FastForward
        /\ IF a.remote THEN J!Fetched ELSE UNCHANGED c
        /\ UNCHANGED f
    BY <1>3
  <2> USE <2>a
  <2>0. /\ J!BranchFields' /\ c'.target = c.target /\ (~a.remote => c' = c)
        /\ J!Holds(c.head) \subseteq J!Holds(c'.head)
        /\ a.remote => c'.head = c.target
    BY <1>0, FetchedFields DEF J!BranchFields
  <2>1. CASE ~proven /\ J!Fail(FALSE)
    <3>1. ~MayReject
      BY <2>1 DEF J!ProjectInv, J!BranchInv, MayReject, J!DidNotMerge, J!Unmoved
    <3>2. /\ e' = J!Off /\ J!RecordFields' /\ b'.state = "FAILED" /\ b'.looks = b.looks
          /\ b'.merged = b.merged
          /\ \A t \in J!Tasks : \/ b'.record[t] = b.record[t]
                                \/ b'.record[t] = "FAILED"
      BY <1>0, <2>1, Fails
    <3>3. J!SupplyFields' /\ f'.raises = f.raises /\ f'.moves = f.moves
      BY <1>0 DEF J!SupplyFields
    <3>4. ~a.unattended => b'.looks = {}
      BY <1>0, <3>2
    <3>5. \A t \in J!Tasks : \/ b'.record[t] \in {b.record[t], "PENDING"}
                             \/ b'.record[t] = "FAILED" /\ ~MayReject
      BY <3>1, <3>2
    <3>6. c' # c => J!Holds(c'.head) \subseteq J!Holds(c.target)
      BY <2>0
    <3>7. e.pc # "off"
      BY <1>1
    <3>8. QED  BY <1>1, <2>0, <3>2, <3>3, <3>4, <3>5, <3>6, <3>7, StopsKept
  <2>2. CASE /\ proven
             /\ b' = [b EXCEPT !.looks = @ \cup J!LostReasons(unmerged)]
             /\ e' = [e EXCEPT !.pc = "next", !.completed = completed, !.unmerged = unmerged]
    <3>1. /\ completed \subseteq J!Tasks /\ unmerged \subseteq J!Tasks
          /\ a.unattended \/ unmerged = {}
          /\ \A t \in completed : b.record[t] = "DONE" /\ (a.unattended => ~J!DidNotMerge(t))
          /\ \A t \in unmerged : \/ t \in J!LostReasons(unmerged)
                                \/ /\ b.record[t] = "DONE" /\ a.remote /\ t \notin b.merged
          /\ J!LostReasons(unmerged) \subseteq unmerged
          /\ a.remote => completed \subseteq J!Holds(c.target)
      <4>1. proven
        BY <2>2
      <4>2. QED  BY ONLY <4>1 DEF J!DidNotMerge, J!LostReasons, J!Rejected
    <3> HIDE DEF completed, unmerged
    <3>2. /\ J!RecordFields' /\ b'.record = b.record /\ b'.merged = b.merged /\ b'.state = b.state
          /\ b'.looks = b.looks \cup J!LostReasons(unmerged)
      BY <2>2 DEF J!ProjectInv, J!ProjectFields, J!RecordFields
    <3>3. /\ J!RunnerFields' /\ e'.pc = "next" /\ e'.completed = completed /\ e'.unmerged = unmerged
          /\ e'.wave = e.wave /\ e'.live = e.live /\ e'.raised = e.raised
      BY <2>2, <3>1 DEF J!ProjectInv, J!ProjectFields, J!RunnerFields
    <3>4. J!WaveInv'
      BY <1>1, <3>2, <3>3 DEF J!ProjectInv, J!WaveInv, J!Settling
    <3>5. J!RecordInv'
      BY <1>1, <2>0, <3>1, <3>2, <3>3
      DEF J!ProjectInv, J!ProjectFields, J!PlanFields, J!RecordFields, J!RecordInv
    <3>6. J!SupplyFields' /\ f'.raises = f.raises /\ f'.moves = f.moves
      BY <1>0 DEF J!SupplyFields
    <3>7. /\ c' # c => J!Holds(c'.head) \subseteq J!Holds(c.target)
          /\ b'.merged \subseteq b.merged
          /\ \A t \in J!Tasks : b'.record[t] \in {"FAILED", "NEEDS_HUMAN"}
                               => b'.record[t] = b.record[t]
      BY <2>0, <3>2
    <3>8. QED  BY <1>1, <2>0, <3>2, <3>3, <3>4, <3>5, <3>6, <3>7, GoesOnKept
  <2>3. IF proven
          THEN /\ b' = [b EXCEPT !.looks = @ \cup J!LostReasons(unmerged)]
               /\ e' = [e EXCEPT !.pc = "next", !.completed = completed, !.unmerged = unmerged]
          ELSE J!Fail(FALSE)
    BY <1>3, Zenon
  <2> HIDE DEF proven, unmerged, completed
  <2>4. QED  BY <2>1, <2>2, <2>3, Zenon
<1>4. QED  BY <1>1, <1>2, <1>3

\* The next wave skips, fetches and starts, or fails with the fetch.
LEMMA NextWaveKept ==
  ASSUME J!ProjectInv, J!NextWave
  PROVE  J!ProjectInv'
<1> DEFINE skipped == J!Skipped
           left == J!Pending \ skipped
           wave == IF left = {} THEN {} ELSE J!Wave(J!Ready(left))
           chosen == [e EXCEPT !.unmerged = @ \cup skipped,
                               !.pc = IF left = {} THEN "final" ELSE "mark", !.wave = wave]
           noted == [b EXCEPT !.looks = @ \cup skipped,
                              !.record = [t \in J!Tasks |-> IF t \in skipped THEN "PENDING"
                                                                           ELSE @[t]]]
<1>1. /\ e.pc = "next" /\ UNCHANGED <<a, d>>
      /\ \/ /\ a.remote => J!FastForward
            /\ IF a.remote THEN J!Fetched ELSE UNCHANGED c
            /\ b' = noted /\ e' = chosen /\ UNCHANGED f
         \/ a.remote /\ J!FetchFails /\ J!FailFrom(noted, TRUE) /\ UNCHANGED c
  BY Zenon DEF J!NextWave
<1>0. /\ J!RecordFields /\ J!SupplyFields /\ J!BranchFields /\ J!RunnerFields
      /\ ~a.unattended => b.looks = {} /\ e.unmerged = {}
  BY DEF J!ProjectInv, J!ProjectFields, J!RecordInv
<1>2. /\ skipped \subseteq J!Tasks /\ left \subseteq J!Tasks
      /\ J!Tasks \subseteq left \cup skipped \cup e.completed \cup e.unmerged
      /\ ~a.unattended => skipped = {}
  BY <1>0, SkipsDependents DEF J!Pending
<1>3. /\ wave \subseteq J!Tasks /\ (wave = {} <=> left = {})
      /\ \A t \in wave : a.deps[t] \subseteq e.completed
  BY <1>2, WaveGoesOn DEF J!ProjectInv
<1> HIDE DEF skipped, left, wave
<1>4. /\ {"state", "merged", "record", "looks"} \subseteq DOMAIN noted
      /\ J!Tasks \subseteq DOMAIN noted.record
      /\ noted.state = b.state /\ noted.merged = b.merged /\ noted.looks = b.looks \cup skipped
      /\ \A t \in J!Tasks : noted.record[t] \in {b.record[t], "PENDING"}
  BY <1>0 DEF J!RecordFields
<1>5. CASE a.remote /\ J!FetchFails /\ J!FailFrom(noted, TRUE) /\ UNCHANGED c
  <2> HIDE DEF noted, chosen
  <2>1. /\ e' = J!Off /\ J!RecordFields' /\ b'.state = "FAILED" /\ b.looks \subseteq b'.looks
        /\ b'.looks = b.looks \cup skipped /\ b'.merged = b.merged
        /\ \A t \in J!Tasks : \/ b'.record[t] = noted.record[t]
                              \/ b'.record[t] = "FAILED" /\ ~a.unattended
    BY <1>4, <1>5, FailFields
  <2>2. J!SupplyFields' /\ f'.raises = f.raises /\ f'.moves = f.moves
    BY <1>0, <1>5, FetchFailsFields
  <2>3. J!BranchFields'
    BY <1>0, <1>5 DEF J!BranchFields
  <2>4. e.pc # "off"
    BY <1>1
  <2>5. \A t \in J!Tasks : \/ b'.record[t] \in {b.record[t], "PENDING"}
                           \/ b'.record[t] = "FAILED" /\ ~MayReject
    BY <1>4, <1>5, <2>1 DEF MayReject
  <2>6. ~a.unattended => b'.looks = {}
    BY <1>0, <1>2, <2>1
  <2>7. QED  BY <1>1, <1>5, <2>1, <2>2, <2>3, <2>4, <2>5, <2>6, StopsKept
<1>6. CASE /\ a.remote => J!FastForward
           /\ IF a.remote THEN J!Fetched ELSE UNCHANGED c
           /\ b' = noted /\ e' = chosen /\ UNCHANGED f
  <2>1. /\ J!BranchFields' /\ c'.target = c.target /\ (~a.remote => c' = c)
        /\ J!Holds(c.head) \subseteq J!Holds(c'.head)
        /\ c' # c => J!Holds(c'.head) \subseteq J!Holds(c.target)
    BY <1>0, <1>6, FetchedFields DEF J!BranchFields
  <2>2. /\ J!RecordFields' /\ b'.state = b.state /\ b'.merged = b.merged
        /\ b'.looks = b.looks \cup skipped
        /\ \A t \in J!Tasks : b'.record[t] \in {b.record[t], "PENDING"}
    BY <1>4, <1>6 DEF J!RecordFields
  <2>3. /\ J!RunnerFields' /\ e'.unmerged = e.unmerged \cup skipped /\ e'.wave = wave
        /\ e'.pc = IF left = {} THEN "final" ELSE "mark"
        /\ e'.completed = e.completed /\ e'.live = e.live /\ e'.raised = e.raised
    BY <1>0, <1>2, <1>3, <1>6 DEF J!RunnerFields
  <2> HIDE DEF noted, chosen
  <2>4. J!WaveInv'
    BY <1>1, <1>3, <1>6, <2>2, <2>3 DEF J!ProjectInv, J!WaveInv, J!Settling
  <2>5. J!RecordInv'
    BY <1>0, <1>1, <1>2, <1>6, <2>1, <2>2, <2>3
    DEF J!ProjectInv, J!ProjectFields, J!RecordFields, J!RecordInv
  <2>6. J!SupplyFields' /\ f'.raises = f.raises /\ f'.moves = f.moves
    BY <1>0, <1>6 DEF J!SupplyFields
  <2>7. /\ b'.merged \subseteq b.merged
        /\ \A t \in J!Tasks : b'.record[t] \in {"FAILED", "NEEDS_HUMAN"}
                              => b'.record[t] = b.record[t]
    BY <2>2
  <2>8. QED  BY <1>1, <2>1, <2>2, <2>3, <2>4, <2>5, <2>6, <2>7, GoesOnKept
<1>7. QED  BY <1>1, <1>5, <1>6

\* A child that merges is running, so its task is not rejected.
LEMMA ChildMergesKept ==
  ASSUME J!ProjectInv, NEW t \in J!Tasks, J!ChildMerges(t)
  PROVE  J!ProjectInv'
<1> DEFINE more == Append(c.target, J!Commit(t, TRUE))
<1>1. /\ a.remote /\ t \in e.live /\ UNCHANGED <<a, b, d, e, f>>
      /\ c' = [c EXCEPT !.target = more]
  BY DEF J!ChildMerges
<1>2. J!BranchFields /\ J!WaveInv /\ t \in 0..LastTask
  BY SharedAssumption DEF J!ProjectInv, J!ProjectFields, J!Tasks
<1>3. /\ more \in Seq(J!Commits) /\ J!Holds(more) = J!Holds(c.target) \cup {t}
      /\ J!ToSet(more) = J!ToSet(c.target) \cup {J!Commit(t, TRUE)}
  BY <1>2, AppendHolds DEF J!BranchFields
<1> HIDE DEF more
<1>4. c'.head = c.head /\ c'.target = more /\ J!BranchFields'
  BY <1>1, <1>2, <1>3 DEF J!BranchFields
<1>5. d[t].state = "going" /\ b.record[t] = "RUNNING"
  BY <1>1, <1>2 DEF J!WaveInv
<1>6. J!ProjectFields'
  BY <1>1, <1>4
  DEF J!ProjectInv, J!ProjectFields, J!PlanFields, J!RecordFields, J!ChildFields, J!RunnerFields,
      J!SupplyFields
<1>7. J!WaveInv'
  BY <1>1, <1>2, <1>4 DEF J!WaveInv, J!Finished, J!Current
<1>8. J!RecordInv'
  BY <1>1, <1>4 DEF J!ProjectInv, J!RecordInv
<1>9. J!BranchInv'
  BY <1>1, <1>3, <1>4, <1>5 DEF J!ProjectInv, J!BranchInv, J!Unmoved
<1>10. J!RejectedIsNotIntegrated'
  <2>1. \A u : J!Commit(u, TRUE).task = u
    BY DEF J!Commit
  <2>2. ASSUME NEW u \in J!Tasks, J!Rejected(u), f.raises = 0, J!Unmoved, a.unattended
        PROVE  J!Commit(u, TRUE) \notin J!ToSet(more)
    <3>1. J!Commit(u, TRUE) \notin J!ToSet(c.target)
      BY <1>1, <2>2 DEF J!ProjectInv, J!RejectedIsNotIntegrated
    <3>2. u # t
      BY <1>5, <2>2 DEF J!Rejected
    <3>3. QED  BY <1>3, <2>1, <3>1, <3>2
  <2>3. QED  BY <1>1, <1>4, <2>2 DEF J!RejectedIsNotIntegrated, J!Rejected, J!Unmoved
<1>11. J!StartsFromDependencies'
  BY <1>1 DEF J!ProjectInv, J!StartsFromDependencies, J!Unmoved
<1>12. QED  BY <1>6, <1>7, <1>8, <1>9, <1>10, <1>11 DEF J!ProjectInv

\* A child may raise.
LEMMA ChildRaisesKept ==
  ASSUME J!ProjectInv, NEW t \in J!Tasks, J!ChildRaises(t)
  PROVE  J!ProjectInv'
<1>1. /\ t \in e.live /\ UNCHANGED <<a, b, c, d>> /\ J!Take("raises")
      /\ e' = [e EXCEPT !.live = @ \ {t}, !.raised = @ \cup {t}]
  BY DEF J!ChildRaises
<1>2. J!SupplyFields /\ J!RunnerFields /\ J!WaveInv
  BY DEF J!ProjectInv, J!ProjectFields
<1>3. J!SupplyFields' /\ f'.raises # 0 /\ f'.moves = f.moves
  BY <1>1, <1>2, TakeFields
<1>4. /\ J!RunnerFields' /\ e'.live = e.live \ {t} /\ e'.raised = e.raised \cup {t}
      /\ e'.pc = e.pc /\ e'.wave = e.wave /\ e'.completed = e.completed /\ e'.unmerged = e.unmerged
  BY <1>1, <1>2 DEF J!RunnerFields
<1>5. J!ProjectFields'
  BY <1>1, <1>3, <1>4
  DEF J!ProjectInv, J!ProjectFields, J!PlanFields, J!RecordFields, J!ChildFields, J!BranchFields
<1>6. J!WaveInv'
  BY <1>1, <1>2, <1>3, <1>4 DEF J!WaveInv, J!Finished, J!Current
<1>7. J!RecordInv'
  BY <1>1, <1>4 DEF J!ProjectInv, J!RecordInv
<1>8. J!BranchInv' /\ J!RejectedIsNotIntegrated' /\ J!StartsFromDependencies'
  BY <1>1, <1>3
  DEF J!ProjectInv, J!BranchInv, J!RejectedIsNotIntegrated, J!StartsFromDependencies, J!Unmoved,
      J!Rejected
<1>9. QED  BY <1>5, <1>6, <1>7, <1>8 DEF J!ProjectInv

\* A child ends as failed only if it did not merge.
LEMMA ChildEndsKept ==
  ASSUME J!ProjectInv, NEW t \in J!Tasks, J!ChildEnds(t)
  PROVE  J!ProjectInv'
<1> DEFINE landed == t \in J!Holds(c.target)
           End(state, sha, look) ==
             d' = [d EXCEPT ![t].state = state, ![t].sha = sha, ![t].look = look]
<1>1. /\ t \in e.live /\ UNCHANGED <<a, b, c>> /\ e' = [e EXCEPT !.live = @ \ {t}]
      /\ UNCHANGED f \/ J!Take("raises")
      /\ \E state \in {"PR_READY", "DONE", "NEEDS_HUMAN", "FAILED"}, sha, look \in BOOLEAN :
           /\ End(state, sha, look)
           /\ state = "PR_READY" => ~a.remote
           /\ state \in {"NEEDS_HUMAN", "FAILED"} => ~landed
           /\ state = "DONE" => a.remote /\ IF sha THEN landed ELSE a.unattended
  BY DEF J!ChildEnds, J!ProjectInv, J!ProjectFields, J!PlanFields
<1>2. PICK state \in {"PR_READY", "DONE", "NEEDS_HUMAN", "FAILED"},
           sha \in BOOLEAN, look \in BOOLEAN :
           /\ End(state, sha, look)
           /\ state = "PR_READY" => ~a.remote
           /\ state \in {"NEEDS_HUMAN", "FAILED"} => ~landed
           /\ state = "DONE" => a.remote /\ IF sha THEN landed ELSE a.unattended
  BY <1>1
<1>3. J!SupplyFields /\ J!RunnerFields /\ J!ChildFields /\ J!WaveInv
  BY DEF J!ProjectInv, J!ProjectFields
<1>4. /\ J!SupplyFields' /\ f'.moves = f.moves
      /\ f'.raises = 0 => f.raises = 0
  <2>1. CASE UNCHANGED f
    BY <1>3, <2>1 DEF J!SupplyFields
  <2>2. CASE J!Take("raises")
    BY <1>3, <2>2, TakeFields
  <2>3. QED  BY <1>1, <2>1, <2>2
<1>5. /\ J!RunnerFields' /\ e'.live = e.live \ {t} /\ e'.raised = e.raised
      /\ e'.pc = e.pc /\ e'.wave = e.wave /\ e'.completed = e.completed /\ e'.unmerged = e.unmerged
  BY <1>1, <1>3 DEF J!RunnerFields
<1>6. /\ J!ChildFields' /\ d'[t].state = state /\ d'[t].sha = sha /\ d'[t].base = d[t].base
      /\ \A u \in J!Tasks \ {t} : d'[u] = d[u]
  BY <1>2, <1>3 DEF J!ChildFields
<1>7. d[t].state = "going"
  BY <1>1, <1>3 DEF J!WaveInv
<1> HIDE DEF End
<1>8. J!ProjectFields'
  BY <1>1, <1>4, <1>5, <1>6
  DEF J!ProjectInv, J!ProjectFields, J!PlanFields, J!RecordFields, J!BranchFields
<1>9. J!WaveInv'
  BY <1>1, <1>2, <1>3, <1>4, <1>5, <1>6 DEF J!WaveInv, J!Finished, J!Current, J!RunnerFields
<1>10. J!RecordInv'
  BY <1>1, <1>2, <1>5, <1>6 DEF J!ProjectInv, J!RecordInv
<1>11. J!BranchInv'
  BY <1>1, <1>2, <1>4, <1>6, <1>7 DEF J!ProjectInv, J!BranchInv, J!Unmoved
<1>12. J!RejectedIsNotIntegrated'
  BY <1>1, <1>4 DEF J!ProjectInv, J!RejectedIsNotIntegrated, J!Unmoved, J!Rejected
<1>13. J!StartsFromDependencies'
  BY <1>1, <1>4, <1>6, <1>7 DEF J!ProjectInv, J!StartsFromDependencies, J!Unmoved
<1>14. QED  BY <1>8, <1>9, <1>10, <1>11, <1>12, <1>13 DEF J!ProjectInv

\* A crash leaves the saved records and at most a pick cut short.
LEMMA CrashKept ==
  ASSUME J!ProjectInv, J!Crash
  PROVE  J!ProjectInv'
<1>1. e' = J!Off /\ UNCHANGED <<a, b, d, f>>
  BY DEF J!Crash
<1>2. J!BranchFields
  BY DEF J!ProjectInv, J!ProjectFields
<1>3. c'.head = c.head /\ c'.target = c.target /\ J!BranchFields'
  BY <1>2 DEF J!Crash, J!BranchFields
<1>4. J!ProjectFields'
  BY <1>1, <1>3, OffIsFine
  DEF J!ProjectInv, J!ProjectFields, J!PlanFields, J!RecordFields, J!ChildFields, J!SupplyFields
<1>5. J!WaveInv'
  BY <1>1, OffIsFine DEF J!WaveInv, J!Settling
<1>6. J!RecordInv'
  BY <1>1, <1>3, OffIsFine DEF J!ProjectInv, J!RecordInv
<1>7. J!BranchInv' /\ J!RejectedIsNotIntegrated' /\ J!StartsFromDependencies'
  BY <1>1, <1>3
  DEF J!ProjectInv, J!BranchInv, J!RejectedIsNotIntegrated, J!StartsFromDependencies, J!Unmoved,
      J!Rejected
<1>8. QED  BY <1>4, <1>5, <1>6, <1>7 DEF J!ProjectInv

\* Who moves the target takes back the promise of what it holds.
LEMMA TargetMovesKept ==
  ASSUME J!ProjectInv, J!TargetMoves
  PROVE  J!ProjectInv'
<1> DEFINE more == Append(c.target, J!Commit(0, TRUE))
<1>1. /\ a.remote /\ J!Take("moves") /\ UNCHANGED <<a, b, d, e>>
      /\ \/ c' = [c EXCEPT !.target = more]
         \/ c.target # <<>> /\ c' = [c EXCEPT !.target = J!Front(c.target)]
  BY DEF J!TargetMoves
<1>2. J!SupplyFields /\ J!BranchFields /\ 0 \in 0..LastTask
  BY SharedAssumption DEF J!ProjectInv, J!ProjectFields
<1>3. more \in Seq(J!Commits) /\ (c.target # <<>> => J!Front(c.target) \in Seq(J!Commits))
  BY <1>2, AppendHolds, FrontHolds DEF J!BranchFields
<1> HIDE DEF more
<1>4. c'.head = c.head /\ J!BranchFields'
  BY <1>1, <1>2, <1>3 DEF J!BranchFields
<1>5. J!SupplyFields' /\ f'.raises = f.raises /\ f'.moves # 0
  BY <1>1, <1>2, TakeFields
<1>6. J!ProjectFields'
  BY <1>1, <1>4, <1>5
  DEF J!ProjectInv, J!ProjectFields, J!PlanFields, J!RecordFields, J!ChildFields, J!RunnerFields
<1>7. J!WaveInv' /\ J!RecordInv'
  BY <1>1, <1>4, <1>5 DEF J!ProjectInv, J!WaveInv, J!RecordInv, J!Finished, J!Current
<1>8. J!BranchInv' /\ J!RejectedIsNotIntegrated' /\ J!StartsFromDependencies'
  BY <1>1, <1>5
  DEF J!ProjectInv, J!BranchInv, J!RejectedIsNotIntegrated, J!StartsFromDependencies, J!Unmoved
<1>9. QED  BY <1>6, <1>7, <1>8 DEF J!ProjectInv

\* A merged child is recorded once the fetched target holds it.
LEMMA SettleRemoteKept ==
  ASSUME J!ProjectInv, J!SettleRemote
  PROVE  J!ProjectInv'
<1> DEFINE held == J!Current \in J!Holds(c.target)
           done == [b EXCEPT !.record[J!Current] = "DONE", !.merged = @ \cup {J!Current}]
<1>1. /\ e.pc = "settle" /\ a.remote /\ UNCHANGED <<a, d>>
      /\ \/ a.unattended /\ J!FetchFails /\ J!Fail(TRUE) /\ UNCHANGED c
         \/ ~a.unattended /\ J!FetchFails /\ J!NotIntegrated("NEEDS_HUMAN") /\ UNCHANGED c
         \/ /\ J!FastForward /\ J!Fetched /\ UNCHANGED f /\ held
            /\ b' = done /\ J!Settle(J!Integrated)
         \/ /\ J!FastForward /\ J!Fetched /\ UNCHANGED f /\ ~held
            /\ J!NotIntegrated("NEEDS_HUMAN")
  BY Zenon DEF J!SettleRemote
<1>2. /\ J!RecordFields /\ J!SupplyFields /\ J!BranchFields /\ J!RunnerFields /\ J!ChildFields
      /\ J!WaveInv /\ J!RecordInv /\ J!BranchInv
  BY DEF J!ProjectInv, J!ProjectFields
<1>3. J!Current \in e.wave /\ J!Current \in J!Tasks
  BY <1>1, <1>2, CurrentInWave DEF J!ProjectInv, J!Settling
<1>4. CASE a.unattended /\ J!FetchFails /\ J!Fail(TRUE) /\ UNCHANGED c
  <2>1. e.pc # "off" /\ (UNCHANGED f \/ J!Take("fetches"))
    BY <1>1, <1>4 DEF J!FetchFails
  <2>2. QED  BY <1>1, <1>4, <2>1, FailKept
<1>5. CASE ~a.unattended /\ J!FetchFails /\ J!NotIntegrated("NEEDS_HUMAN") /\ UNCHANGED c
  <2>1. J!SupplyFields' /\ f'.raises = f.raises /\ f'.moves = f.moves
    BY <1>2, <1>5, FetchFailsFields
  <2>2. J!BranchFields'
    BY <1>2, <1>5 DEF J!BranchFields
  <2>3. ~MayReject
    BY <1>1, <1>5 DEF MayReject
  <2>4. QED  BY <1>1, <1>5, <2>1, <2>2, <2>3, NotIntegratedKept
<1>6. CASE J!FastForward /\ J!Fetched /\ UNCHANGED f /\ ~held /\ J!NotIntegrated("NEEDS_HUMAN")
  <2>1. J!BranchFields' /\ c'.head = c.target /\ c'.target = c.target
        /\ J!Holds(c.head) \subseteq J!Holds(c.target)
    BY <1>2, <1>6, FetchedFields
  <2>2. J!SupplyFields' /\ f'.raises = f.raises /\ f'.moves = f.moves
    BY <1>2, <1>6 DEF J!SupplyFields
  <2>3. J!Commit(J!Current, TRUE) \notin J!ToSet(c.target)
    BY <1>2, <1>6, CommitsOf DEF J!BranchFields
  <2>4. QED  BY <1>1, <1>6, <2>1, <2>2, <2>3, NotIntegratedKept
<1>7. CASE /\ J!FastForward /\ J!Fetched /\ UNCHANGED f /\ held
           /\ b' = done /\ J!Settle(J!Integrated)
  <2>1. J!BranchFields' /\ c'.head = c.target /\ c'.target = c.target
        /\ J!Holds(c.head) \subseteq J!Holds(c.target)
    BY <1>2, <1>7, FetchedFields
  <2>2. J!SupplyFields' /\ f'.raises = f.raises /\ f'.moves = f.moves
    BY <1>2, <1>7 DEF J!SupplyFields
  <2>3. /\ OneRecord(b, b', J!Current, "DONE") /\ b'.looks = b.looks /\ b'.state = b.state
        /\ b'.merged = b.merged \cup {J!Current}
    BY <1>2, <1>3, <1>7, RecordIsSet DEF J!RecordFields
  <2>4. Settled({J!Current}, {})
    BY <1>2, <1>3, <1>7, Settles
  <2> HIDE DEF done
  <2>5. J!ProjectFields'
    BY <1>1, <1>2, <2>1, <2>2, <2>3, <2>4
    DEF J!ProjectInv, J!ProjectFields, J!PlanFields, J!ChildFields, J!RecordFields, OneRecord,
        Settled
  <2>6. J!WaveInv'
    <3>1. \A t \in e.wave \ {J!Current} : b'.record[t] = b.record[t]
      BY <1>2, <2>3 DEF OneRecord, J!RunnerFields
    <3>2. QED  BY <1>1, <1>2, <1>3, <2>2, <2>4, <3>1, WaveSettles DEF J!Settling
  <2>7. J!RecordInv'
    BY <1>1, <1>2, <1>3, <1>7, <2>1, <2>3, <2>4 DEF J!RecordInv, Settled, OneRecord
  <2>8. J!BranchInv'
    BY <1>1, <1>2, <1>7, <2>1, <2>2, <2>3 DEF J!BranchInv, J!Unmoved
  <2>9. J!RejectedIsNotIntegrated'
    BY <1>1, <1>3, <2>1, <2>2, <2>3, RejectsNone DEF J!ProjectInv, OneRecord
  <2>10. J!StartsFromDependencies'
    BY <1>1, <2>2 DEF J!ProjectInv, J!StartsFromDependencies, J!Unmoved
  <2>11. QED  BY <2>5, <2>6, <2>7, <2>8, <2>9, <2>10 DEF J!ProjectInv
<1>8. QED  BY <1>1, <1>4, <1>5, <1>6, <1>7

\* A local child is picked, or found on the branch, or rejected: then its patch is not there.
LEMMA SettleLocalKept ==
  ASSUME J!ProjectInv, J!SettleLocal
  PROVE  J!ProjectInv'
<1>1. /\ e.pc = "settle" /\ ~a.remote /\ UNCHANGED <<a, d>> /\ J!Succeeded(J!Current)
      /\ \/ /\ J!Current \in J!Holds(c.head) /\ J!At("picked") /\ UNCHANGED <<b, c, f>>
         \/ \E same \in BOOLEAN :
              /\ c' = [c EXCEPT !.head = Append(@, J!Commit(J!Current, same))]
              /\ J!At("picked") /\ UNCHANGED <<b, f>>
         \/ /\ J!NotIntegrated("NEEDS_HUMAN")
            /\ UNCHANGED c \/ \E half \in {0, c.half} : c' = [c EXCEPT !.half = half]
            /\ \/ ~J!PatchAlreadyIntegrated(J!Current) /\ UNCHANGED f
               \/ J!Take("raises")
  <2>1. J!PatchAlreadyIntegrated(J!Current) => J!Current \in J!Holds(c.head)
    BY DEF J!PatchAlreadyIntegrated, J!Holds, J!Commit
  <2>2. QED  BY <2>1 DEF J!SettleLocal
<1>2. /\ J!RecordFields /\ J!SupplyFields /\ J!BranchFields /\ J!RunnerFields /\ J!ChildFields
      /\ J!WaveInv /\ J!RecordInv /\ J!BranchInv
  BY DEF J!ProjectInv, J!ProjectFields
<1>3. J!Current \in e.wave /\ J!Current \in J!Tasks /\ J!Current \in 0..LastTask
  BY <1>1, <1>2, CurrentInWave, SharedAssumption DEF J!ProjectInv, J!Settling, J!Tasks
<1>4. d[J!Current].state \in {"PR_READY", "DONE"} /\ b.record[J!Current] = "RUNNING"
  BY <1>1, <1>2, <1>3 DEF J!Succeeded, J!WaveInv
<1>5. ASSUME J!At("picked"), UNCHANGED <<b, f>>, J!BranchFields', c'.target = c.target,
             J!Holds(c'.head) = J!Holds(c.head) \cup {J!Current},
             \A t \in J!Tasks \ {J!Current} :
               J!Commit(t, TRUE) \in J!ToSet(c'.head) => J!Commit(t, TRUE) \in J!ToSet(c.head)
      PROVE  J!ProjectInv'
  <2>1. Goes("picked")
    BY <1>2, <1>5, GoesTo
  <2>2. J!ProjectFields'
    BY <1>1, <1>5, <2>1
    DEF J!ProjectInv, J!ProjectFields, J!PlanFields, J!ChildFields, J!RecordFields, J!SupplyFields,
        Goes
  <2>3. J!WaveInv'
    BY <1>1, <1>2, <1>5, <2>1, WaveGoes
  <2>4. J!RecordInv'
    BY <1>1, <1>2, <1>5, <2>1 DEF J!RecordInv, Goes
  <2>5. J!BranchInv'
    BY <1>1, <1>2, <1>4, <1>5 DEF J!BranchInv
  <2>6. J!RejectedIsNotIntegrated'
    BY <1>1, <1>4, <1>5 DEF J!ProjectInv, J!RejectedIsNotIntegrated, J!Rejected, J!Unmoved
  <2>7. J!StartsFromDependencies'
    BY <1>1, <1>5 DEF J!ProjectInv, J!StartsFromDependencies, J!Unmoved
  <2>8. QED  BY <2>2, <2>3, <2>4, <2>5, <2>6, <2>7 DEF J!ProjectInv
<1>6. CASE J!Current \in J!Holds(c.head) /\ J!At("picked") /\ UNCHANGED <<b, c, f>>
  <2>1. J!BranchFields'
    BY <1>2, <1>6 DEF J!BranchFields
  <2>2. QED  BY <1>5, <1>6, <2>1
<1>7. CASE \E same \in BOOLEAN :
             /\ c' = [c EXCEPT !.head = Append(@, J!Commit(J!Current, same))]
             /\ J!At("picked") /\ UNCHANGED <<b, f>>
  <2>1. PICK same \in BOOLEAN :
             /\ c' = [c EXCEPT !.head = Append(@, J!Commit(J!Current, same))]
             /\ J!At("picked") /\ UNCHANGED <<b, f>>
    BY <1>7
  <2> DEFINE more == Append(c.head, J!Commit(J!Current, same))
  <2>2. /\ more \in Seq(J!Commits) /\ J!Holds(more) = J!Holds(c.head) \cup {J!Current}
        /\ J!ToSet(more) = J!ToSet(c.head) \cup {J!Commit(J!Current, same)}
    BY <1>2, <1>3, AppendHolds DEF J!BranchFields
  <2>3. c' = [c EXCEPT !.head = more]
    BY <2>1
  <2> HIDE DEF more
  <2>4. c'.head = more /\ c'.target = c.target /\ J!BranchFields'
    BY <1>2, <2>2, <2>3 DEF J!BranchFields
  <2>5. J!Commit(J!Current, same).task = J!Current /\ \A t : J!Commit(t, TRUE).task = t
    BY DEF J!Commit
  <2>6. \A t \in J!Tasks \ {J!Current} : J!Commit(t, TRUE) # J!Commit(J!Current, same)
    BY <2>5
  <2>7. QED  BY <1>5, <2>1, <2>2, <2>4, <2>6
<1>8. CASE /\ J!NotIntegrated("NEEDS_HUMAN")
           /\ UNCHANGED c \/ \E half \in {0, c.half} : c' = [c EXCEPT !.half = half]
           /\ \/ ~J!PatchAlreadyIntegrated(J!Current) /\ UNCHANGED f
              \/ J!Take("raises")
  <2>1. J!BranchFields' /\ c'.head = c.head /\ c'.target = c.target
    BY <1>2, <1>8 DEF J!BranchFields
  <2>2. /\ J!SupplyFields' /\ f'.moves = f.moves
        /\ f'.raises = 0 => f.raises = 0
        /\ f'.raises = 0 => ~J!PatchAlreadyIntegrated(J!Current)
    <3>1. CASE UNCHANGED f /\ ~J!PatchAlreadyIntegrated(J!Current)
      BY <1>2, <3>1 DEF J!SupplyFields
    <3>2. CASE J!Take("raises")
      BY <1>2, <3>2, TakeFields
    <3>3. QED  BY <1>8, <3>1, <3>2
  <2>3. ~J!PatchAlreadyIntegrated(J!Current) =>
          J!Commit(J!Current, TRUE) \notin J!ToSet(c.head)
    BY DEF J!PatchAlreadyIntegrated, J!ToSet
  <2>4. QED  BY <1>1, <1>8, <2>1, <2>2, <2>3, NotIntegratedKept
<1>9. QED  BY <1>1, <1>6, <1>7, <1>8

\* The initial states have the invariant.
LEMMA ProjectStarts == J!ProjectInit => J!ProjectInv
<1> SUFFICES ASSUME J!ProjectInit PROVE J!ProjectInv
  OBVIOUS
<1>1. PICK deps \in [J!Tasks -> SUBSET J!Tasks], x \in BOOLEAN, y \in BOOLEAN :
        /\ \A t \in J!Tasks : \A u \in deps[t] : u < t
        /\ a = [deps |-> deps, remote |-> x, unattended |-> y]
  BY DEF J!ProjectInit
<1>2. J!PlanFields
  BY <1>1, SharedAssumption DEF J!PlanFields, J!Tasks
<1>3. J!RecordFields /\ b.state = "none" /\ b.merged = {} /\ b.looks = {}
      /\ \A t \in J!Tasks : b.record[t] = "PENDING"
  BY DEF J!ProjectInit, J!RecordFields
<1>4. c.head = <<>> /\ c.target = <<>> /\ {"head", "target", "half"} \subseteq DOMAIN c
  BY DEF J!ProjectInit
<1>5. J!ChildFields /\ \A t \in J!Tasks : d[t].state = "none"
  BY DEF J!ProjectInit, J!ChildFields
<1>6. /\ {"pc", "wave", "live", "raised", "completed", "unmerged"} \subseteq DOMAIN e
      /\ e.pc = "off" /\ e.wave = {} /\ e.live = {} /\ e.raised = {}
      /\ e.completed = {} /\ e.unmerged = {}
  BY OffFields DEF J!ProjectInit
<1>7. J!SupplyFields
  BY DEF J!ProjectInit, J!SupplyFields
<1>8. J!BranchFields /\ J!Holds(c.head) = {} /\ J!Holds(c.target) = {}
  BY <1>4 DEF J!BranchFields, J!Holds
<1>9. J!RunnerFields /\ J!WaveInv
  BY <1>6 DEF J!RunnerFields, J!WaveInv, J!Settling
<1>10. J!RecordInv /\ J!BranchInv
  BY <1>3, <1>5, <1>6, <1>8 DEF J!RecordInv, J!BranchInv
<1>11. J!RejectedIsNotIntegrated /\ J!StartsFromDependencies
  BY <1>3, <1>5 DEF J!RejectedIsNotIntegrated, J!Rejected, J!StartsFromDependencies
<1>12. QED
  BY <1>2, <1>3, <1>5, <1>7, <1>8, <1>9, <1>10, <1>11 DEF J!ProjectInv, J!ProjectFields

\* Every step of the project, of its children and of others keeps the invariant.
LEMMA ProjectKept ==
  ASSUME J!ProjectInv, J!ProjectNext
  PROVE  J!ProjectInv'
<1>1. CASE J!Run
  BY <1>1, StartKept, MakePlanKept, SaveTasksKept, ResumeKept, ReconcileKept, NextWaveKept,
     MarkRunningKept, DispatchKept, WaveEndsKept, SettleFailedKept, AddReasonKept, SettleOpenKept,
     SettleRemoteKept, SettleLocalKept, SavePickKept, CopyReasonsKept, VerifyKept,
     WarnOfVerificationKept, FinishDoneKept, Zenon
  DEF J!Run
<1>2. CASE J!Children
  BY <1>2, ChildMergesKept, ChildEndsKept, ChildRaisesKept, Zenon DEF J!Children
<1>3. CASE J!MarkAbandoned \/ J!Crash \/ J!TargetMoves
  BY <1>3, MarkAbandonedKept, CrashKept, TargetMovesKept, Zenon
<1>4. QED  BY <1>1, <1>2, <1>3, Zenon DEF J!ProjectNext

\* The project is one of the components; the others do not touch what it has.
ProjectHolds == which = "project" => J!ProjectInv

\* The invariant holds in every reachable state.
LEMMA ProjectInvariant == MCSpec => []ProjectHolds
<1>1. MCInit => ProjectHolds
  BY ProjectStarts DEF MCInit, ProjectHolds
<1>2. ASSUME ProjectHolds, [MCNext]_mcvars PROVE ProjectHolds'
  <2>1. CASE Planning
    BY <1>2, <2>1, ProjectKept DEF Planning, ProjectHolds
  <2>2. CASE UNCHANGED mcvars
    <3> SUFFICES ASSUME which = "project" PROVE J!ProjectInv'
      BY <2>2 DEF mcvars, ProjectHolds
    <3>1. J!ProjectInv /\ UNCHANGED <<a, b, c, d, e, f>>
      BY <1>2, <2>2 DEF mcvars, shared, ProjectHolds
    <3>2. J!ProjectFields'
      BY <3>1
      DEF J!ProjectInv, J!ProjectFields, J!PlanFields, J!RecordFields, J!BranchFields,
          J!ChildFields, J!RunnerFields, J!SupplyFields
    <3>3. J!WaveInv'
      BY <3>1 DEF J!ProjectInv, J!WaveInv, J!Finished, J!Current
    <3>4. J!RecordInv' /\ J!BranchInv'
      BY <3>1 DEF J!ProjectInv, J!RecordInv, J!BranchInv, J!Unmoved
    <3>5. J!RejectedIsNotIntegrated' /\ J!StartsFromDependencies'
      BY <3>1
      DEF J!ProjectInv, J!RejectedIsNotIntegrated, J!StartsFromDependencies, J!Unmoved, J!Rejected
    <3>6. QED  BY <3>2, <3>3, <3>4, <3>5 DEF J!ProjectInv
  <2>3. CASE which # "project" /\ which' = which
    BY <2>3 DEF ProjectHolds
  <2>4. QED
    BY <1>2, <2>1, <2>2, <2>3
    DEF MCNext, Publishing, Locking, Merging, SettingUp, Planning, Preparing
<1>3. QED  BY <1>1, <1>2, PTL DEF MCSpec

\* No crash and no failed fetch turns a change that is on the branch into a rejected task
\* (_patch_already_integrated and _record_project_failure in project.py).
THEOREM RejectedStaysOut == MCSpec => []RejectedIsNotIntegrated
<1>1. ProjectHolds => RejectedIsNotIntegrated
  BY DEF ProjectHolds, J!ProjectInv, RejectedIsNotIntegrated
<1>2. QED  BY <1>1, ProjectInvariant, PTL

\* A project that is done has every task on its branch or names it, and a child starts from a
\* branch with all that its task depends on, whatever crashes came between the saves.
THEOREM NoTaskIsLost == MCSpec => []NoTaskIsMissing
<1>1. J!ProjectInv => J!NoTaskIsMissing
  BY DEF J!ProjectInv, J!RecordInv, J!NoTaskIsMissing, J!DoneNamesWhatIsMissing
<1>2. ProjectHolds => NoTaskIsMissing
  BY <1>1 DEF ProjectHolds, NoTaskIsMissing
<1>3. QED  BY <1>2, ProjectInvariant, PTL

=============================================================================
