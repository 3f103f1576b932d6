--------------------------- MODULE Repository_proofs ---------------------------
(***************************************************************************)
(* What runs share in a repository: the lock of a workspace and the          *)
(* publication of a branch.                                                  *)
(*                                                                           *)
(* WorkspaceLock is a lock, whatever the processes, the files and the number  *)
(* of retries: LockInv is inductive, it gives one owner, and under it every   *)
(* step takes the lock, leaves it or changes no owner.                        *)
(*                                                                           *)
(* Publication has its three properties for any set of trees and any number   *)
(* of published commits, faults, crashes and changes by others: it            *)
(* implements PublicationSteps, it reaches only its repository, and what is   *)
(* reviewed, pushed, described and saved is one tree.  The invariant has a    *)
(* part for the types, for the places that name a pull request, for the       *)
(* receipt against what is shown, for the repositories of an authorized run,  *)
(* for the pull requests, and for a run with which nobody meddles.  Every     *)
(* step is first reduced to what it does to fields.                           *)
(***************************************************************************)
EXTENDS WorkspaceLock, Publication, TLAPS

-----------------------------------------------------------------------------
(* The lock *)

\* A closed descriptor keeps no flock and disturbs nobody else's.
LEMMA CloseIsPrivate ==
  ASSUME LockTypeOK, HoldsFlock, NEW p \in Process, Close(p),
         NEW q \in Process, q # p,
         stage[q] \in {"locked", "owner", "unlinking", "unlocking"}
  PROVE  fd'[q] = fd[q] /\ fd[q] \in Inode /\ flock'[fd[q]] = q
BY LockAssumption DEF LockTypeOK, HoldsFlock, Close

\* The types hold after a descriptor is closed.
LEMMA CloseKeepsTypes ==
  ASSUME LockTypeOK, NEW p \in Process, Close(p)
  PROVE  flock' \in [Inode -> Process \cup {None}] /\ fd' \in [Process -> Inode \cup {None}]
BY DEF LockTypeOK, Close

\* A process that closes its descriptor and goes where nobody holds anything
\* leaves the invariant (Refused, WriteFails, Replaced, Unlock and Die).
LEMMA ClosingKeepsInvariant ==
  ASSUME LockInv, NEW p \in Process, NEW next \in {"idle", "again"},
         Close(p), To(p, next), path' = path, tries' \in [Process -> Nat]
  PROVE  LockInv'
<1>1. stage' \in [Process -> Stages] /\ stage'[p] = next
      /\ \A q \in Process : q # p => stage'[q] = stage[q] /\ fd'[q] = fd[q]
  BY DEF LockInv, LockTypeOK, To, Stages, Close
<1>2. LockTypeOK'
  BY <1>1, CloseKeepsTypes DEF LockInv, LockTypeOK
<1>3. HoldsFlock'
  BY <1>1, CloseIsPrivate DEF LockInv, HoldsFlock
<1>4. HasFile'
  BY <1>1 DEF LockInv, HasFile
<1>5. OwnsPath'
  BY <1>1 DEF LockInv, OwnsPath
<1> QED BY <1>2, <1>3, <1>4, <1>5 DEF LockInv

LEMMA InvInit == LockInit => LockInv
BY DEF LockInit, LockInv, LockTypeOK, HoldsFlock, HasFile, OwnsPath, Stages

LEMMA InvNext == LockInv /\ [LockNext]_lockVars => LockInv'
<1> SUFFICES ASSUME LockInv, [LockNext]_lockVars PROVE LockInv'
  OBVIOUS
<1> USE DEF LockInv
<1>0. CASE UNCHANGED lockVars
  BY <1>0 DEF lockVars, LockTypeOK, HoldsFlock, HasFile, OwnsPath
<1>1. ASSUME NEW p \in Process, Open(p) PROVE LockInv'
  <2>1. path' \in Inode
    BY <1>1, LockAssumption DEF Open, LockTypeOK
  <2>2. \A q \in Process : q # p => stage'[q] = stage[q] /\ fd'[q] = fd[q]
    BY <1>1 DEF Open, To, LockTypeOK
  <2>3. stage'[p] = "opened" /\ fd'[p] = path' /\ flock' = flock
    BY <1>1 DEF Open, To, LockTypeOK
  <2>4. LockTypeOK'
    BY <1>1, <2>1 DEF Open, To, LockTypeOK, Stages
  <2>5. HoldsFlock'
    BY <2>2, <2>3 DEF HoldsFlock
  <2>6. HasFile'
    BY <2>1, <2>2, <2>3 DEF HasFile
  <2>7. OwnsPath'
    <3> SUFFICES ASSUME NEW q \in Process, stage'[q] \in {"owner", "unlinking"}
                 PROVE  path' = fd'[q]
      BY DEF OwnsPath
    <3>1. q # p /\ path = fd[q] /\ fd[q] \in Inode
      BY <2>2, <2>3 DEF OwnsPath, HoldsFlock
    <3>2. path' = path
      BY <1>1, <3>1, LockAssumption DEF Open
    <3> QED BY <2>2, <3>1, <3>2
  <2> QED BY <2>4, <2>5, <2>6, <2>7
<1>2. ASSUME NEW p \in Process, Lock(p) PROVE LockInv'
  <2>1. \A q \in Process : q # p => stage'[q] = stage[q]
    BY <1>2 DEF Lock, To, LockTypeOK
  <2>2. stage'[p] = "locked" /\ fd[p] \in Inode /\ UNCHANGED <<path, fd, tries>>
    BY <1>2 DEF Lock, To, LockTypeOK, HasFile
  <2>3. flock'[fd[p]] = p /\ \A i \in Inode : i # fd[p] => flock'[i] = flock[i]
    BY <1>2, <2>2 DEF Lock, LockTypeOK
  <2>4. LockTypeOK'
    BY <1>2, <2>2 DEF Lock, To, LockTypeOK, Stages
  <2>5. HoldsFlock'
    <3> SUFFICES ASSUME NEW q \in Process, q # p,
                        stage'[q] \in {"locked", "owner", "unlinking", "unlocking"}
                 PROVE  fd'[q] \in Inode /\ flock'[fd'[q]] = q
      BY <2>2, <2>3 DEF HoldsFlock
    <3>1. fd[q] \in Inode /\ flock[fd[q]] = q
      BY <2>1 DEF HoldsFlock
    <3>2. fd[q] # fd[p]
      BY <1>2, <3>1, LockAssumption DEF Lock
    <3> QED BY <2>2, <2>3, <3>1, <3>2
  <2>6. HasFile' /\ OwnsPath'
    BY <2>1, <2>2 DEF HasFile, OwnsPath
  <2> QED BY <2>4, <2>5, <2>6
<1>3. ASSUME NEW p \in Process, Refused(p) PROVE LockInv'
  BY <1>3, ClosingKeepsInvariant DEF Refused, LockTypeOK
<1>4. ASSUME NEW p \in Process, Own(p) PROVE LockInv'
  BY <1>4 DEF Own, To, StillNamed, LockTypeOK, Stages, HoldsFlock, HasFile, OwnsPath
<1>5. ASSUME NEW p \in Process, WriteFails(p) PROVE LockInv'
  BY <1>5, ClosingKeepsInvariant DEF WriteFails, LockTypeOK
<1>6. ASSUME NEW p \in Process, Replaced(p) PROVE LockInv'
  <2>1. tries' \in [Process -> Nat]
    BY <1>6 DEF Replaced, LockTypeOK
  <2>2. Close(p) /\ path' = path /\ (To(p, "again") \/ To(p, "idle"))
    BY <1>6 DEF Replaced
  <2> QED BY <2>1, <2>2, ClosingKeepsInvariant
<1>7. ASSUME NEW p \in Process, LetGo(p) PROVE LockInv'
  BY <1>7 DEF LetGo, To, StillNamed, LockTypeOK, Stages, HoldsFlock, HasFile, OwnsPath
<1>8. ASSUME NEW p \in Process, Unlink(p) PROVE LockInv'
  <2>1. stage'[p] = "unlocking" /\ \A q \in Process : q # p => stage'[q] = stage[q]
    BY <1>8 DEF Unlink, To, LockTypeOK
  <2>2. LockTypeOK' /\ UNCHANGED <<flock, fd, tries>>
    BY <1>8 DEF Unlink, To, LockTypeOK, Stages
  <2>3. HoldsFlock'
    BY <1>8, <2>1, <2>2 DEF Unlink, HoldsFlock
  <2>4. HasFile'
    BY <2>1, <2>2 DEF HasFile
  <2>5. OwnsPath'
    <3> SUFFICES ASSUME NEW q \in Process, stage'[q] \in {"owner", "unlinking"} PROVE FALSE
      BY DEF OwnsPath
    <3>1. q # p /\ path = fd[q] /\ flock[fd[q]] = q
      BY <2>1 DEF OwnsPath, HoldsFlock
    <3>2. path = fd[p] /\ flock[fd[p]] = p
      BY <1>8 DEF Unlink, OwnsPath, HoldsFlock
    <3> QED BY <3>1, <3>2
  <2> QED BY <2>2, <2>3, <2>4, <2>5
<1>9. ASSUME NEW p \in Process, Unlock(p) PROVE LockInv'
  BY <1>9, ClosingKeepsInvariant DEF Unlock, LockTypeOK
<1>10. ASSUME NEW p \in Process, Die(p) PROVE LockInv'
  BY <1>10, ClosingKeepsInvariant DEF Die, LockTypeOK
<1> QED BY <1>0, <1>1, <1>2, <1>3, <1>4, <1>5, <1>6, <1>7, <1>8, <1>9, <1>10 DEF LockNext

\* The invariant holds in every reachable state.
THEOREM LockInvariant == LockSpec => []LockInv
<1> QED BY InvInit, InvNext, PTL DEF LockSpec

\* Two owners would both hold the flock of the file that the path names.
LEMMA InvGivesOneOwner == LockInv => OneOwner
BY DEF LockInv, OneOwner, Owners, OwnsPath, HoldsFlock

\* A workspace has at most one owner, for every set of processes and files
\* (acquire_lock and release_lock in workspace.py).
THEOREM LockIsExclusive == LockSpec => []OneOwner
<1> QED BY LockInvariant, InvGivesOneOwner, PTL

-----------------------------------------------------------------------------

LEMMA OwnersOfInit == LockInit => Lk!ExInit
BY DEF LockInit, Lk!ExInit, Owners

\* A step of a process that is not the owner before or after changes no owner.
LEMMA OthersKeepOwners ==
  ASSUME LockTypeOK, NEW p \in Process, NEW next \in Stages, To(p, next),
         stage[p] # "owner", next # "owner"
  PROVE  UNCHANGED Owners
BY DEF LockTypeOK, To, Owners

\* The only owner that leaves the step "owner" empties the set.
LEMMA OwnerLeaves ==
  ASSUME LockTypeOK, OneOwner, NEW p \in Process, NEW next \in Stages, To(p, next),
         stage[p] = "owner", next # "owner"
  PROVE  Lk!Leave(p)
<1>1. Owners = {p}
  BY DEF OneOwner, Owners
<1>2. stage'[p] # "owner" /\ \A q \in Process : q # p => stage'[q] = stage[q]
  BY DEF LockTypeOK, To
<1>3. Owners' = {}
  BY <1>1, <1>2 DEF Owners
<1> QED BY <1>1, <1>3 DEF Lk!Leave

\* Whoever becomes the owner finds no other: both would have the file of the path.
LEMMA OwnTakes ==
  ASSUME LockInv, NEW p \in Process, Own(p)
  PROVE  Lk!Take(p)
<1>1. Owners = {}
  BY DEF LockInv, Own, StillNamed, Owners, OwnsPath, HoldsFlock
<1>2. stage'[p] = "owner" /\ \A q \in Process : q # p => stage'[q] = stage[q]
  BY DEF LockInv, LockTypeOK, Own, To
<1>3. Owners' = {p}
  BY <1>1, <1>2 DEF Owners
<1> QED BY <1>1, <1>3 DEF Lk!Take

LEMMA StepIsALockStep ==
  LockInv /\ [LockNext]_lockVars => [Lk!ExNext]_Owners
<1> SUFFICES ASSUME LockInv, [LockNext]_lockVars PROVE [Lk!ExNext]_Owners
  OBVIOUS
<1>a. LockTypeOK /\ OneOwner
  BY InvGivesOneOwner DEF LockInv
<1>b. \A p \in Process, next \in Stages :
        To(p, next) /\ stage[p] # "owner" /\ next # "owner" => UNCHANGED Owners
  BY <1>a, OthersKeepOwners
<1>0. CASE UNCHANGED lockVars
  BY <1>0 DEF lockVars, Owners
<1>1. ASSUME NEW p \in Process, Open(p) PROVE UNCHANGED Owners
  BY <1>1, <1>b DEF Open, Stages
<1>2. ASSUME NEW p \in Process, Lock(p) PROVE UNCHANGED Owners
  BY <1>2, <1>b DEF Lock, Stages
<1>3. ASSUME NEW p \in Process, Refused(p) PROVE UNCHANGED Owners
  BY <1>3, <1>b DEF Refused, Stages
<1>4. ASSUME NEW p \in Process, Own(p) PROVE Lk!Take(p)
  BY <1>4, OwnTakes
<1>5. ASSUME NEW p \in Process, WriteFails(p) PROVE UNCHANGED Owners
  BY <1>5, <1>b DEF WriteFails, Stages
<1>6. ASSUME NEW p \in Process, Replaced(p) PROVE UNCHANGED Owners
  BY <1>6, <1>b DEF Replaced, Stages
<1>7. ASSUME NEW p \in Process, LetGo(p) PROVE Lk!Leave(p)
  BY <1>7, <1>a, OwnerLeaves DEF LetGo, Stages
<1>8. ASSUME NEW p \in Process, Unlink(p) PROVE UNCHANGED Owners
  BY <1>8, <1>b DEF Unlink, Stages
<1>9. ASSUME NEW p \in Process, Unlock(p) PROVE UNCHANGED Owners
  BY <1>9, <1>b DEF Unlock, Stages
<1>10. ASSUME NEW p \in Process, Die(p) PROVE [Lk!ExNext]_Owners
  <2>1. CASE stage[p] = "owner"
    BY <1>10, <1>a, <2>1, OwnerLeaves DEF Die, Stages, Lk!ExNext
  <2>2. CASE stage[p] # "owner"
    BY <1>10, <1>b, <2>2 DEF Die, Stages
  <2> QED BY <2>1, <2>2
<1> QED
  BY <1>0, <1>1, <1>2, <1>3, <1>4, <1>5, <1>6, <1>7, <1>8, <1>9, <1>10
  DEF LockNext, Lk!ExNext

\* The system calls of acquire_lock and release_lock implement a lock: the
\* refinement of Exclusion, for every set of processes and files.
THEOREM LockImplementsExclusion == LockSpec => IsALock
<1> QED
  BY LockInvariant, OwnersOfInit, StepIsALockStep, PTL DEF LockSpec, IsALock, Lk!ExSpec

-----------------------------------------------------------------------------
(* The types of the publication *)

Commits == [by : {"factory", "person"}, tree : Trees]
Histories == Seq(Commits)

Working == {"move", "look", "push", "reconcile", "find", "create", "rediscover", "refresh", "save"}
Attaching == {"find", "create", "rediscover", "refresh", "save"}
Places == Working \cup {"idle", "commit", "saved", "created", "halted"}
Reasons == {"none", "repository", "history", "content", "empty", "diverged", "github"}
PullType == [repo : Repositories, open : BOOLEAN, fork : BOOLEAN, ours : BOOLEAN,
             describes : Trees \cup {"none"}]
ReceiptType == [authorized : BOOLEAN, tree : Trees, pending : Histories, saved : Histories,
                url : Nat]
StepType == [pc : Places, why : Reasons, api : Repositories \cup {"none"},
             to : Repositories \cup {"alias", "none"}, head : Histories, commit : Histories,
             tries : Nat, pull : Nat]
BoundsType == [faults : Nat, retries : Nat, meddles : 0 .. MaxMeddles]

PubTypes ==
  /\ receipt \in ReceiptType
  /\ branch \in [on : BOOLEAN, tip : Histories]
  /\ alias \in Repositories
  /\ remote \in [Repositories -> Histories]
  /\ pulls \in Seq(PullType)
  /\ late \subseteq [repo : Repositories, commit : Histories]
  /\ step \in StepType
  /\ bounds \in BoundsType

-----------------------------------------------------------------------------
(* The steps, in fields *)

\* The thread goes on with the same commit to the same repository, and with a pull request.
Goes(pc) ==
  /\ step'.pc = pc /\ step'.why = step.why /\ step'.api = step.api /\ step'.to = step.to
  /\ step'.head = step.head /\ step'.commit = step.commit
RefusedFor(why) == step'.pc = "halted" /\ step'.why = why
Restarted == step'.pc = "idle" /\ step'.why = "none"

\* GoTo keeps the type of the thread and every field but its place.
LEMMA GoToFields ==
  ASSUME step \in StepType, NEW pc \in Places, GoTo(pc)
  PROVE  step' \in StepType /\ Goes(pc) /\ step'.pull = step.pull
  BY DEF GoTo, StepType, Goes

\* So does a new try.
LEMMA TryFields ==
  ASSUME step \in StepType, NEW pc \in Places, NEW n \in Nat,
         step' = [step EXCEPT !.pc = pc, !.tries = n]
  PROVE  step' \in StepType /\ Goes(pc) /\ step'.pull = step.pull
  BY DEF StepType, Goes

\* So does the naming of a pull request.
LEMMA PullFields ==
  ASSUME step \in StepType, NEW pc \in Places, NEW i \in Nat,
         step' = [step EXCEPT !.pc = pc, !.pull = i]
  PROVE  step' \in StepType /\ Goes(pc) /\ step'.pull = i
  BY DEF StepType, Goes

\* A refusal halts, with its reason.
LEMMA RefuseFields ==
  ASSUME NEW why \in Reasons, Refuse(why)
  PROVE  step' \in StepType /\ RefusedFor(why)
<1>1. step' = [pc |-> "halted", why |-> why, api |-> "none", to |-> "none", head |-> <<>>,
               commit |-> <<>>, tries |-> 0, pull |-> 0]
  BY DEF Refuse, Fresh
<1>2. QED  BY <1>1 DEF StepType, Places, Histories, RefusedFor

\* A fresh thread is idle.
LEMMA FreshFields ==
  ASSUME step' = Fresh
  PROVE  step' \in StepType /\ Restarted
  BY DEF Fresh, StepType, Places, Reasons, Histories, Restarted

\* The environment spends what it has.
LEMMA SpendFields ==
  ASSUME bounds \in BoundsType,
         NEW what \in {"faults", "retries", "meddles"}, Spend(what)
  PROVE  /\ bounds' \in BoundsType
         /\ what # "meddles" => bounds'.meddles = bounds.meddles
         /\ what = "meddles" => bounds'.meddles < MaxMeddles
<1> USE DEF BoundsType, Spend
<1>1. CASE what = "meddles"
  BY <1>1, PublicationAssumption
<1>2. CASE what = "faults"
  BY <1>2
<1>3. CASE what = "retries"
  BY <1>3
<1>4. QED  BY <1>1, <1>2, <1>3

\* A history goes on as a history.
LEMMA CommitTyped ==
  ASSUME NEW by \in {"factory", "person"}, NEW tree \in Trees, NEW h \in Histories
  PROVE  Append(h, Commit(by, tree)) \in Histories
  BY DEF Commit, Commits, Histories

\* Bounds but for those of the others.
Calm == bounds'.meddles = bounds.meddles
Typed == step' \in StepType /\ bounds' \in BoundsType

\* Identify: the repository is the authorized one, or the run stops.
LEMMA IdentifyFields ==
  ASSUME PubTypes, Identify
  PROVE  /\ step.pc = "idle" /\ UNCHANGED <<receipt, branch, alias, remote, pulls, late, bounds>>
         /\ \/ /\ IdentityHolds
               /\ step'.pc = "commit" /\ step'.why = "none" /\ step'.api = alias
            \/ RefusedFor("repository") /\ ~(IdentityHolds /\ StoredPullFits)
         /\ Typed
<1>1. CASE step' = [Fresh EXCEPT !.pc = "commit", !.api = alias] /\ IdentityHolds
  <2>1. step' = [pc |-> "commit", why |-> "none", api |-> alias, to |-> "none", head |-> <<>>,
                 commit |-> <<>>, tries |-> 0, pull |-> 0]
    BY <1>1 DEF Fresh
  <2>2. step' \in StepType
    BY <2>1 DEF PubTypes, StepType, Places, Histories, Reasons, Repositories
  <2>3. step'.pc = "commit" /\ step'.why = "none" /\ step'.api = alias
    BY <2>1
  <2>4. step.pc = "idle" /\ UNCHANGED <<receipt, branch, alias, remote, pulls, late, bounds>>
    BY DEF Identify, github
  <2>5. QED  BY <1>1, <2>2, <2>3, <2>4 DEF PubTypes, Typed
<1>2. CASE Refuse("repository") /\ ~(IdentityHolds /\ StoredPullFits)
  BY <1>2, RefuseFields DEF Reasons, Identify, github, PubTypes, Typed
<1>3. QED  BY <1>1, <1>2 DEF Identify, RemoteTarget

\* BuildCommit: the recorded commit is the tree on the saved commit, or the run stops.
LEMMA BuildFields ==
  ASSUME PubTypes, BuildCommit
  PROVE  /\ step.pc = "commit" /\ UNCHANGED <<branch, alias, remote, pulls, late, bounds>>
         /\ \/ /\ IdentityHolds
               /\ receipt'.pending = Append(receipt.saved, Commit("factory", receipt.tree))
               /\ receipt.pending # <<>> => receipt'.pending = receipt.pending
               /\ branch.tip \in {receipt.saved, receipt'.pending}
               /\ receipt' = [receipt EXCEPT !.pending = receipt'.pending]
               /\ receipt'.pending \in Histories
               /\ step'.pc = "move" /\ step'.why = step.why /\ step'.api = step.api
               /\ step'.to = Destination /\ step'.head = branch.tip
               /\ step'.commit = receipt'.pending
            \/ /\ UNCHANGED receipt
               /\ \/ RefusedFor("repository") /\ ~IdentityHolds
                  \/ RefusedFor("history") /\ ~branch.on
                  \/ /\ RefusedFor("content")
                     /\ receipt.pending # <<>> /\ ~HasShape(receipt.pending, receipt.saved)
                  \/ /\ RefusedFor("history")
                     /\ branch.tip # receipt.saved
                     /\ receipt.pending # <<>> => branch.tip # receipt.pending
                  \/ RefusedFor("empty")
         /\ Typed
<1> DEFINE parent == receipt.saved
           commit == IF receipt.pending = <<>>
                       THEN Append(parent, Commit("factory", receipt.tree)) ELSE receipt.pending
           heads == IF receipt.pending = <<>> THEN {parent} ELSE ResumeHeads(commit, parent)
           empty == /\ receipt.pending = <<>>
                    /\ parent # <<>> /\ Last(parent).tree = receipt.tree
           why == CASE ~IdentityHolds -> "repository"
                    [] ~branch.on -> "history"
                    [] ~HasShape(commit, parent) -> "content"
                    [] branch.tip \notin heads -> "history"
                    [] empty -> "empty"
                    [] OTHER -> "none"
<1>1. commit \in Histories
  BY CommitTyped DEF PubTypes, ReceiptType
<1>2. HasShape(commit, parent) <=> commit = Append(parent, Commit("factory", receipt.tree))
  BY DEF HasShape
<1>3. CASE why # "none"
  <2>1. Refuse(why) /\ UNCHANGED <<receipt, branch, alias, remote, pulls, late, bounds>>
    BY <1>3 DEF BuildCommit, github
  <2>2. why \in Reasons
    BY DEF Reasons
  <2>3. step' \in StepType /\ RefusedFor(why)
    BY <2>1, <2>2, RefuseFields
  <2> HIDE DEF commit, parent, heads, empty
  <2>4. \/ why = "repository" /\ ~IdentityHolds
        \/ why = "history" /\ ~branch.on
        \/ why = "content" /\ ~HasShape(commit, parent)
        \/ why = "history" /\ branch.tip \notin heads
        \/ why = "empty"
    BY <1>3
  <2> USE DEF commit, parent, heads, empty
  <2> HIDE DEF why
  <2>5. Typed /\ step.pc = "commit"
    BY <2>1, <2>3 DEF Typed, PubTypes, BuildCommit
  <2>6. ~HasShape(commit, parent) =>
          receipt.pending # <<>> /\ ~HasShape(receipt.pending, receipt.saved)
    BY <1>2
  <2>7. branch.tip \notin heads =>
          branch.tip # receipt.saved /\ (receipt.pending # <<>> => branch.tip # receipt.pending)
    BY DEF ResumeHeads
  <2> HIDE DEF commit, parent, heads, empty
  <2>8. QED  BY <2>1, <2>3, <2>4, <2>5, <2>6, <2>7
<1>4. CASE why = "none"
  <2>1. /\ receipt' = [receipt EXCEPT !.pending = commit]
        /\ step' = [step EXCEPT !.pc = "move", !.to = Destination, !.head = branch.tip,
                                !.commit = commit]
        /\ step.pc = "commit" /\ UNCHANGED <<branch, alias, remote, pulls, late, bounds>>
    BY <1>4 DEF BuildCommit, github
  <2>2. IdentityHolds /\ HasShape(commit, parent) /\ branch.tip \in heads
    BY <1>4
  <2> HIDE DEF why, heads, empty
  <2>3. Destination \in Repositories \cup {"alias"}
    BY DEF Destination, RemoteTarget, PubTypes
  <2>4. /\ step' \in StepType
        /\ step'.pc = "move" /\ step'.why = step.why /\ step'.api = step.api
        /\ step'.to = Destination /\ step'.head = branch.tip /\ step'.commit = commit
    BY <2>1, <2>3, <1>1 DEF PubTypes, StepType, Places, Working
  <2>5. receipt'.pending = commit
    BY <2>1 DEF PubTypes, ReceiptType
  <2>6. receipt.pending # <<>> => commit = receipt.pending
    OBVIOUS
  <2>7. branch.tip \in {receipt.saved, commit}
    BY <2>2 DEF ResumeHeads, heads
  <2> HIDE DEF commit, parent
  <2>8. parent = receipt.saved
    BY DEF parent
  <2>9. Typed
    BY <2>1, <2>4 DEF PubTypes, Typed
  <2>10. QED  BY <1>1, <1>2, <2>1, <2>2, <2>4, <2>5, <2>6, <2>7, <2>8, <2>9
<1>5. QED  BY <1>3, <1>4

\* MoveBranch: the branch is at the commit, moves to it, or stops the run.
LEMMA MoveFields ==
  ASSUME PubTypes, MoveBranch
  PROVE  /\ step.pc = "move" /\ UNCHANGED <<receipt, alias, remote, pulls, late, bounds>>
         /\ \/ Goes("look") /\ step'.pull = step.pull /\ step.head = step.commit /\ UNCHANGED branch
            \/ /\ Goes("look") /\ step'.pull = step.pull /\ step.head # step.commit
               /\ branch.tip = receipt.saved
               /\ branch' = [branch EXCEPT !.tip = step.commit]
            \/ /\ RefusedFor("history") /\ UNCHANGED branch
               /\ step.head # step.commit /\ branch.tip # receipt.saved
         /\ Typed
  BY GoToFields, RefuseFields
     DEF MoveBranch, Places, Working, Reasons, PubTypes, others, github, Typed

\* LookAtRemote: the commit is there, or is pushed next.
LEMMA LookFields ==
  ASSUME PubTypes, LookAtRemote
  PROVE  /\ step.pc = "look" /\ UNCHANGED <<receipt, branch, alias, remote, pulls, late>> /\ Calm
         /\ \/ Goes("find") /\ remote[Reached] = step.commit
            \/ Goes("push")
            \/ RefusedFor("github")
         /\ Typed
<1>1. CASE GoTo("find") /\ remote[Reached] = step.commit /\ UNCHANGED bounds
  BY <1>1, GoToFields DEF LookAtRemote, Places, Working, PubTypes, others, github, Typed, Calm
<1>2. CASE step' = [step EXCEPT !.pc = "push", !.tries = 1] /\ UNCHANGED bounds
  BY <1>2, TryFields DEF LookAtRemote, Places, Working, PubTypes, others, github, Typed, Calm
<1>3. CASE Refuse("github") /\ Spend("faults")
  BY <1>3, RefuseFields, SpendFields
     DEF LookAtRemote, Reasons, PubTypes, others, github, Typed, Calm
<1>4. QED  BY <1>1, <1>2, <1>3 DEF LookAtRemote, GoTo

\* Push: it lands, is refused, may still arrive, or is lost.
LEMMA PushFields ==
  ASSUME PubTypes, Push
  PROVE  /\ step.pc = "push" /\ UNCHANGED <<receipt, branch, alias, pulls>> /\ Calm
         /\ \/ /\ Goes("find") \/ Goes("reconcile")
               /\ Takes(Reached, step.commit) /\ Land(Reached, step.commit) /\ UNCHANGED late
            \/ /\ RefusedFor("diverged") /\ ~Takes(Reached, step.commit)
               /\ UNCHANGED <<remote, late>>
            \/ /\ Goes("reconcile") /\ UNCHANGED remote
               /\ late' = late \union {[repo |-> Reached, commit |-> step.commit]}
            \/ Goes("reconcile") /\ UNCHANGED <<remote, late>>
         /\ Typed
<1>1. CASE GoTo("find") \/ GoTo("reconcile")
  <2>1. (GoTo("find") /\ Goes("find")) \/ (GoTo("reconcile") /\ Goes("reconcile"))
    BY <1>1, GoToFields DEF PubTypes, Places, Working
  <2>2. step' \in StepType
    BY <1>1, GoToFields DEF PubTypes, Places, Working
  <2>3. step'.pc # "halted"
    BY <2>1 DEF Goes
  <2>4. ~Refuse("diverged")
    BY <2>3, RefuseFields DEF RefusedFor, Reasons
  <2>5. CASE /\ UNCHANGED bounds /\ GoTo("find")
             /\ Takes(Reached, step.commit) /\ Land(Reached, step.commit)
             /\ UNCHANGED late
    BY <2>5, <2>2, GoToFields DEF Push, PubTypes, Typed, Calm, Places, Working
  <2>6. CASE Spend("faults") /\ GoTo("reconcile")
    <3>1. Calm /\ Typed
      BY <2>6, <2>2, SpendFields DEF PubTypes, Calm, Typed
    <3>2. Goes("reconcile")
      BY <2>6, GoToFields DEF PubTypes, Places, Working
    <3>3. UNCHANGED <<receipt, branch, alias, pulls>> /\ step.pc = "push"
      BY DEF Push
    <3>4. \/ Takes(Reached, step.commit) /\ Land(Reached, step.commit) /\ UNCHANGED late
          \/ late' = late \union {[repo |-> Reached, commit |-> step.commit]} /\ UNCHANGED remote
          \/ UNCHANGED <<remote, late>>
      BY <2>4, <2>6 DEF Push
    <3>5. QED  BY <3>1, <3>2, <3>3, <3>4
  <2>7. QED  BY <2>4, <2>5, <2>6 DEF Push
<1>2. CASE Refuse("diverged") /\ ~Takes(Reached, step.commit) /\ UNCHANGED <<remote, late, bounds>>
  BY <1>2, RefuseFields DEF Push, Reasons, PubTypes, Typed, Calm
<1>3. QED  BY <1>1, <1>2 DEF Push

\* Reconcile: the push landed, is tried again, or stops the run.
LEMMA ReconcileFields ==
  ASSUME PubTypes, Reconcile
  PROVE  /\ step.pc = "reconcile" /\ UNCHANGED <<receipt, branch, alias, remote, pulls, late>>
         /\ Calm
         /\ \/ Goes("find") /\ remote[Reached] = step.commit
            \/ Goes("push")
            \/ RefusedFor("github")
         /\ Typed
<1>1. step.pc = "reconcile" /\ UNCHANGED <<receipt, branch, alias, remote, pulls, late>>
  BY DEF Reconcile, others, github
<1>2. Calm /\ bounds' \in BoundsType
  BY SpendFields DEF Reconcile, PubTypes, Calm
<1>3. CASE Landed /\ GoTo("find")
  BY <1>1, <1>2, <1>3, GoToFields DEF Landed, Places, Working, PubTypes, Typed
<1>4. CASE step' = [step EXCEPT !.pc = "push", !.tries = 2]
  BY <1>1, <1>2, <1>4, TryFields DEF Places, Working, PubTypes, Typed
<1>5. CASE Refuse("github")
  BY <1>1, <1>2, <1>5, RefuseFields DEF Reasons, PubTypes, Typed
<1>6. QED  BY <1>3, <1>4, <1>5 DEF Reconcile

\* A pull request the run may attach: it is open there, and the run's own.
Attachable(i) == /\ i \in DOMAIN pulls /\ pulls[i].repo = step.api
                 /\ ~pulls[i].fork /\ pulls[i].ours

\* Adopt: the one pull request that is the run's own.
LEMMA AdoptFields ==
  ASSUME PubTypes, Adopt
  PROVE  \E i \in Nat : Attachable(i) /\ Goes("refresh") /\ step'.pull = i /\ step' \in StepType
<1>1. PICK i \in Matches : step' = [step EXCEPT !.pc = "refresh", !.pull = i]
  BY DEF Adopt
<1>2. Attachable(i) /\ i \in Nat
  BY DEF Matches, OpenPulls, Attachable, PubTypes
<1>3. QED  BY <1>1, <1>2, PullFields DEF PubTypes, Places, Working

\* FindPull: the stored one, the adopted one, or a new one.
LEMMA FindFields ==
  ASSUME PubTypes, FindPull
  PROVE  /\ step.pc = "find" /\ UNCHANGED <<receipt, branch, alias, remote, pulls, late>> /\ Calm
         /\ \/ Goes("refresh") /\ step'.pull = receipt.url /\ receipt.url # 0
            \/ \E i \in Nat : Attachable(i) /\ Goes("refresh") /\ step'.pull = i
            \/ Goes("create")
            \/ RefusedFor("github")
         /\ Typed
<1>1. step.pc = "find" /\ UNCHANGED <<receipt, branch, alias, remote, pulls, late>>
  BY DEF FindPull, others, github
<1>2. Calm /\ bounds' \in BoundsType
  BY SpendFields DEF FindPull, PubTypes, Calm
<1>3. CASE step' = [step EXCEPT !.pc = "refresh", !.pull = receipt.url] /\ receipt.url # 0
  BY <1>1, <1>2, <1>3, PullFields DEF Places, Working, PubTypes, ReceiptType, Typed
<1>4. CASE Adopt
  BY <1>1, <1>2, <1>4, AdoptFields DEF Typed
<1>5. CASE step' = [step EXCEPT !.pc = "create", !.tries = 1]
  BY <1>1, <1>2, <1>5, TryFields DEF Places, Working, PubTypes, Typed
<1>6. CASE Refuse("github")
  BY <1>1, <1>2, <1>6, RefuseFields DEF Reasons, PubTypes, Typed
<1>7. QED  BY <1>3, <1>4, <1>5, <1>6 DEF FindPull

\* The pull request that create_pr makes.
NewPull == [repo |-> step.api, open |-> TRUE, fork |-> FALSE, ours |-> TRUE,
            describes |-> receipt.tree]

\* CreatePull: the pull request is there and named, or is there and not known, or is not.
LEMMA CreateFields ==
  ASSUME PubTypes, CreatePull
  PROVE  /\ step.pc = "create" /\ UNCHANGED <<receipt, branch, alias, remote, late>> /\ Calm
         /\ \/ /\ pulls' = Append(pulls, NewPull) /\ remote[step.api] # <<>>
               /\ Goes("save") /\ step'.pull = Len(pulls')
            \/ /\ pulls' = Append(pulls, NewPull) /\ remote[step.api] # <<>>
               /\ Goes("rediscover") \/ RefusedFor("github")
            \/ UNCHANGED pulls /\ (Goes("rediscover") \/ RefusedFor("github"))
         /\ Typed
<1>1. step.pc = "create" /\ UNCHANGED <<receipt, branch, alias, remote, late>>
  BY DEF CreatePull, others
<1>2. Calm /\ bounds' \in BoundsType
  BY SpendFields DEF CreatePull, PubTypes, Calm
<1>3. Created = Append(pulls, NewPull) /\ (Creatable => remote[step.api] # <<>>)
  BY DEF Created, NewPull, Description, Creatable
<1>4. CASE /\ Creatable /\ pulls' = Created
           /\ step' = [step EXCEPT !.pc = "save", !.pull = Len(pulls')]
  <2>1. Len(pulls') \in Nat
    BY <1>3, <1>4 DEF PubTypes
  <2>2. QED  BY <1>1, <1>2, <1>3, <1>4, <2>1, PullFields DEF Places, Working, PubTypes, Typed
<1>5. CASE /\ UNCHANGED pulls \/ (Creatable /\ pulls' = Created)
           /\ GoTo("rediscover") \/ Refuse("github")
  <2>1. (Goes("rediscover") \/ RefusedFor("github")) /\ step' \in StepType
    BY <1>5, GoToFields, RefuseFields DEF Places, Working, PubTypes, Reasons
  <2>2. QED  BY <1>1, <1>2, <1>3, <1>5, <2>1 DEF Typed
<1>6. QED  BY <1>4, <1>5 DEF CreatePull

\* Rediscover: what a failed creation left is adopted, or it is tried again.
LEMMA RediscoverFields ==
  ASSUME PubTypes, Rediscover
  PROVE  /\ step.pc = "rediscover" /\ UNCHANGED <<receipt, branch, alias, remote, pulls, late>>
         /\ Calm
         /\ \/ \E i \in Nat : Attachable(i) /\ Goes("refresh") /\ step'.pull = i
            \/ Goes("create")
            \/ RefusedFor("github")
         /\ Typed
<1>1. step.pc = "rediscover" /\ UNCHANGED <<receipt, branch, alias, remote, pulls, late>>
  BY DEF Rediscover, others, github
<1>2. Calm /\ bounds' \in BoundsType
  BY SpendFields DEF Rediscover, PubTypes, Calm
<1>3. CASE Adopt
  BY <1>1, <1>2, <1>3, AdoptFields DEF Typed
<1>4. CASE step' = [step EXCEPT !.pc = "create", !.tries = 2]
  BY <1>1, <1>2, <1>4, TryFields DEF Places, Working, PubTypes, Typed
<1>5. CASE Refuse("github")
  BY <1>1, <1>2, <1>5, RefuseFields DEF Reasons, PubTypes, Typed
<1>6. QED  BY <1>3, <1>4, <1>5 DEF Rediscover

\* RefreshPull: the description is changed, or perhaps, when the run stops.
LEMMA RefreshFields ==
  ASSUME PubTypes, RefreshPull
  PROVE  /\ step.pc = "refresh" /\ UNCHANGED <<receipt, branch, alias, remote, late>> /\ Calm
         /\ \/ pulls' = Refreshed /\ Goes("save") /\ step'.pull = step.pull
            \/ pulls' \in {pulls, Refreshed} /\ RefusedFor("github")
         /\ Typed
<1>1. step.pc = "refresh" /\ UNCHANGED <<receipt, branch, alias, remote, late>>
  BY DEF RefreshPull, others
<1>2. Calm /\ bounds' \in BoundsType
  BY SpendFields DEF RefreshPull, PubTypes, Calm
<1>3. CASE pulls' = Refreshed /\ GoTo("save")
  BY <1>1, <1>2, <1>3, GoToFields DEF Places, Working, PubTypes, Typed
<1>4. CASE pulls' \in {pulls, Refreshed} /\ Refuse("github")
  BY <1>1, <1>2, <1>4, RefuseFields DEF Reasons, PubTypes, Typed
<1>5. QED  BY <1>3, <1>4 DEF RefreshPull

\* SavePublication: the commit counts, and nothing is pending.
LEMMA SaveFields ==
  ASSUME PubTypes, SavePublication
  PROVE  /\ step.pc = "save" /\ UNCHANGED <<branch, alias, remote, pulls, late, bounds>>
         /\ receipt' = [receipt EXCEPT !.saved = step.commit, !.pending = <<>>, !.url = step.pull]
         /\ Goes("saved")
         /\ Typed
  BY GoToFields DEF SavePublication, PubTypes, Places, Typed, others, github

\* PullRequestCreated: the thread is done.
LEMMA CreatedFields ==
  ASSUME PubTypes, PullRequestCreated
  PROVE  /\ step.pc = "saved" /\ UNCHANGED <<receipt, branch, alias, remote, pulls, late, bounds>>
         /\ step'.pc = "created" /\ step'.why = "none"
         /\ Typed
<1>1. step' = [pc |-> "created", why |-> "none", api |-> "none", to |-> "none", head |-> <<>>,
               commit |-> <<>>, tries |-> 0, pull |-> 0]
  BY DEF PullRequestCreated, Fresh
<1>2. step' \in StepType
  BY <1>1 DEF StepType, Places, Histories, Reasons
<1>3. step'.pc = "created" /\ step'.why = "none"
  BY <1>1
<1>4. QED  BY <1>2, <1>3 DEF PullRequestCreated, others, github, PubTypes, Typed

\* Another try, with the same tree or with another one.
LEMMA AgainFields ==
  ASSUME PubTypes, Repair \/ Retry \/ NewWork
  PROVE  /\ UNCHANGED <<branch, alias, remote, pulls, late>> /\ Restarted
         /\ \/ UNCHANGED receipt /\ Calm
            \/ /\ \E tree \in Trees : receipt' = [receipt EXCEPT !.tree = tree]
               /\ (Calm /\ step.pc = "created") \/ Meddled'
         /\ Typed
<1>1. Restarted /\ step' \in StepType
  BY FreshFields DEF Repair, Retry, NewWork
<1>2. CASE Repair
  BY <1>1, <1>2 DEF Repair, others, github, PubTypes, Typed, Calm
<1>3. CASE Retry
  BY <1>1, <1>3, SpendFields DEF Retry, others, github, PubTypes, Typed, Calm
<1>4. CASE NewWork
  BY <1>1, <1>4, SpendFields DEF NewWork, others, github, PubTypes, Typed, Meddled
<1>5. QED  BY <1>2, <1>3, <1>4

\* PushArrives: a late push is taken or refused.
LEMMA ArrivesFields ==
  ASSUME PubTypes, PushArrives
  PROVE  /\ UNCHANGED <<receipt, branch, alias, pulls, step, bounds>>
         /\ \E p \in late : /\ late' = late \ {p}
                            /\ \/ Takes(p.repo, p.commit) /\ Land(p.repo, p.commit)
                               \/ UNCHANGED remote
         /\ Typed
  BY DEF PushArrives, PubTypes, Typed

\* Others change pull requests in nothing but whether they are open.
SamePull(p, q) == q.repo = p.repo /\ q.fork = p.fork /\ q.ours = p.ours /\ q.describes = p.describes
PullsStay ==
  /\ DOMAIN pulls \subseteq DOMAIN pulls'
  /\ \A i \in DOMAIN pulls : SamePull(pulls[i], pulls'[i])

\* Meddle: others change the branch, a remote, the alias or a pull request.
LEMMA MeddleFields ==
  ASSUME PubTypes, Meddle
  PROVE  /\ UNCHANGED <<receipt, late, step>> /\ Meddled'
         /\ alias' \in Repositories /\ branch' \in [on : BOOLEAN, tip : Histories]
         /\ \/ UNCHANGED remote
            \/ \E repo \in Repositories, tree \in Trees :
                 Land(repo, Append(remote[repo], Commit("person", tree)))
         /\ pulls' \in Seq(PullType) /\ PullsStay
         /\ Typed
<1>1. Meddled' /\ Typed /\ UNCHANGED <<receipt, late, step>>
  BY SpendFields DEF Meddle, PubTypes, Typed, Meddled
<1>2. alias' \in Repositories
  BY DEF Meddle, PubTypes
<1>3. branch' \in [on : BOOLEAN, tip : Histories]
  <2>1. CASE \E tree \in Trees : branch' = [branch EXCEPT !.tip = Append(@, Commit("person", tree))]
    <3>1. PICK tree \in Trees : branch' = [branch EXCEPT !.tip = Append(@, Commit("person", tree))]
      BY <2>1
    <3>2. Append(branch.tip, Commit("person", tree)) \in Histories
      BY CommitTyped DEF PubTypes
    <3>3. QED  BY <3>1, <3>2 DEF PubTypes
  <2>2. CASE branch.tip # <<>> /\ branch' = [branch EXCEPT !.tip = Front(@)]
    <3>1. Front(branch.tip) \in Histories
      BY <2>2 DEF Front, PubTypes, Histories
    <3>2. QED  BY <2>2, <3>1 DEF PubTypes
  <2>3. CASE branch' = [branch EXCEPT !.on = ~@]
    BY <2>3 DEF PubTypes
  <2>4. CASE UNCHANGED branch
    BY <2>4 DEF PubTypes
  <2>5. QED  BY <2>1, <2>2, <2>3, <2>4 DEF Meddle
<1>4. pulls' \in Seq(PullType) /\ PullsStay
  <2>1. CASE \E i \in DOMAIN pulls : pulls' = [pulls EXCEPT ![i].open = ~@]
    <3>1. PICK i \in DOMAIN pulls : pulls' = [pulls EXCEPT ![i].open = ~@]
      BY <2>1
    <3>2. pulls[i] \in PullType /\ i \in 1 .. Len(pulls)
      BY DEF PubTypes
    <3>3. /\ [pulls[i] EXCEPT !.open = ~@] \in PullType
          /\ SamePull(pulls[i], [pulls[i] EXCEPT !.open = ~@])
      BY <3>2 DEF PullType, SamePull
    <3>4. pulls' = [pulls EXCEPT ![i] = [pulls[i] EXCEPT !.open = ~@]]
      BY <3>1
    <3>5. QED  BY <3>2, <3>3, <3>4 DEF PubTypes, PullsStay, SamePull
  <2>2. CASE \E repo \in Repositories, fork \in BOOLEAN :
               pulls' = Append(pulls, [repo |-> repo, open |-> TRUE, fork |-> fork,
                                       ours |-> FALSE, describes |-> "none"])
    <3>1. PICK repo \in Repositories, fork \in BOOLEAN :
               pulls' = Append(pulls, [repo |-> repo, open |-> TRUE, fork |-> fork,
                                       ours |-> FALSE, describes |-> "none"])
      BY <2>2
    <3>2. [repo |-> repo, open |-> TRUE, fork |-> fork, ours |-> FALSE, describes |-> "none"]
            \in PullType
      BY DEF PullType
    <3>3. /\ pulls' \in Seq(PullType) /\ Len(pulls') = Len(pulls) + 1
          /\ \A i \in 1 .. Len(pulls) : pulls'[i] = pulls[i]
      BY <3>1, <3>2 DEF PubTypes
    <3>4. DOMAIN pulls = 1 .. Len(pulls) /\ DOMAIN pulls' = 1 .. Len(pulls')
      BY <3>3 DEF PubTypes
    <3>5. QED  BY <3>3, <3>4 DEF PubTypes, PullsStay, SamePull
  <2>3. CASE UNCHANGED pulls
    BY <2>3 DEF PubTypes, PullsStay, SamePull
  <2>4. QED  BY <2>1, <2>2, <2>3 DEF Meddle, github
<1>5. UNCHANGED remote \/ \E repo \in Repositories, tree \in Trees :
                 Land(repo, Append(remote[repo], Commit("person", tree)))
  BY DEF Meddle, github
<1>6. QED  BY <1>1, <1>2, <1>3, <1>4, <1>5

\* The types.
LEMMA TypesInitially == ASSUME PubInit PROVE PubTypes
<1>1. <<>> \in Histories /\ <<>> \in Seq(PullType)
  BY DEF Histories
<1>2. Fresh \in StepType
  BY DEF Fresh, StepType, Places, Reasons, Histories
<1>3. bounds \in BoundsType
  BY PublicationAssumption DEF PubInit, BoundsType
<1>4. receipt \in ReceiptType
  BY <1>1 DEF PubInit, ReceiptType
<1>5. QED  BY <1>1, <1>2, <1>3, <1>4 DEF PubInit, PubTypes, Repositories

\* A push reaches a repository.
LEMMA ReachedTyped ==
  ASSUME PubTypes, step.pc \in Working, step.to # "none"
  PROVE  Reached \in Repositories /\ step.commit \in Histories
  BY DEF Reached, PubTypes, StepType

\* A landing keeps the histories of the remote.
LEMMA LandTyped ==
  ASSUME remote \in [Repositories -> Histories], NEW r \in Repositories, NEW c \in Histories,
         Land(r, c)
  PROVE  remote' \in [Repositories -> Histories]
  BY DEF Land

\* Where the thread works, and the pull requests it names.
PlaceInv ==
  /\ step.pc \in Working \cup {"commit"} => step.api \in Repositories
  /\ step.pc \in Working => step.to # "none"
  /\ step.pc \in {"refresh", "save"} => step.pull \in DOMAIN pulls
  /\ receipt.url # 0 => receipt.url \in DOMAIN pulls

\* The empty history is one.
LEMMA EmptyTyped == <<>> \in Histories
  BY DEF Histories

\* A refresh changes the description of the named pull request and nothing else.
LEMMA RefreshTyped ==
  ASSUME PubTypes, step.pull \in DOMAIN pulls
  PROVE  /\ Refreshed \in Seq(PullType) /\ DOMAIN Refreshed = DOMAIN pulls
         /\ Len(Refreshed) = Len(pulls)
         /\ \A i \in DOMAIN pulls :
              /\ Refreshed[i].repo = pulls[i].repo /\ Refreshed[i].fork = pulls[i].fork
              /\ Refreshed[i].ours = pulls[i].ours
              /\ i = step.pull => Refreshed[i].describes = receipt.tree
<1> DEFINE p == [pulls[step.pull] EXCEPT !.describes = receipt.tree]
<1>1. pulls[step.pull] \in PullType /\ step.pull \in 1 .. Len(pulls) /\ receipt.tree \in Trees
  BY DEF PubTypes, ReceiptType
<1>2. /\ p \in PullType /\ p.describes = receipt.tree /\ p.repo = pulls[step.pull].repo
      /\ p.fork = pulls[step.pull].fork /\ p.ours = pulls[step.pull].ours
  BY <1>1 DEF PullType
<1>3. Refreshed = [pulls EXCEPT ![step.pull] = p]
  BY DEF Refreshed, Description
<1> HIDE DEF p
<1>4. QED  BY <1>1, <1>2, <1>3 DEF PubTypes

\* A new pull request comes last and leaves the others.
LEMMA AppendPull ==
  ASSUME PubTypes, NEW p \in PullType
  PROVE  /\ Append(pulls, p) \in Seq(PullType)
         /\ DOMAIN pulls \subseteq DOMAIN Append(pulls, p)
         /\ Len(Append(pulls, p)) = Len(pulls) + 1
         /\ Len(Append(pulls, p)) \in DOMAIN Append(pulls, p)
         /\ Len(Append(pulls, p)) # 0
         /\ Append(pulls, p)[Len(Append(pulls, p))] = p
         /\ \A i \in DOMAIN pulls : Append(pulls, p)[i] = pulls[i]
<1>1. Append(pulls, p) \in Seq(PullType) /\ Len(Append(pulls, p)) = Len(pulls) + 1
  BY DEF PubTypes
<1>2. Len(pulls) \in Nat /\ DOMAIN pulls = 1 .. Len(pulls)
  BY DEF PubTypes
<1>3. DOMAIN Append(pulls, p) = 1 .. Len(pulls) + 1
  BY <1>1, <1>2
<1>4. QED  BY <1>1, <1>2, <1>3 DEF PubTypes

\* Every step keeps the types.
LEMMA TypesKept ==
  ASSUME PubTypes, PlaceInv, [PubNext]_pubVars
  PROVE  PubTypes'
<1> USE DEF PubTypes, Typed
<1>1. CASE Identify
  BY <1>1, IdentifyFields
<1>2. CASE BuildCommit
  <2>1. receipt' \in ReceiptType
    BY <1>2, BuildFields DEF ReceiptType
  <2>2. QED  BY <1>2, <2>1, BuildFields
<1>3. CASE MoveBranch
  <2>1. branch' \in [on : BOOLEAN, tip : Histories]
    BY <1>3, MoveFields DEF StepType
  <2>2. QED  BY <1>3, <2>1, MoveFields
<1>4. CASE LookAtRemote
  BY <1>4, LookFields
<1>5. CASE Push
  <2>1. Reached \in Repositories /\ step.commit \in Histories
    BY <1>5, ReachedTyped DEF Push, PlaceInv, Working
  <2>2. remote' \in [Repositories -> Histories]
    BY <1>5, <2>1, PushFields, LandTyped
  <2>3. late' \subseteq [repo : Repositories, commit : Histories]
    BY <1>5, <2>1, PushFields
  <2>4. QED  BY <1>5, <2>2, <2>3, PushFields
<1>6. CASE Reconcile
  BY <1>6, ReconcileFields
<1>7. CASE FindPull
  BY <1>7, FindFields
<1>8. CASE CreatePull
  <2>1. step.api \in Repositories /\ receipt.tree \in Trees
    BY <1>8, CreateFields DEF PlaceInv, Working, ReceiptType
  <2>2. NewPull \in PullType
    BY <2>1 DEF NewPull, PullType
  <2>3. pulls' \in Seq(PullType)
    BY <1>8, <2>2, CreateFields, AppendPull
  <2>4. QED  BY <1>8, <2>3, CreateFields
<1>9. CASE Rediscover
  BY <1>9, RediscoverFields
<1>10. CASE RefreshPull
  <2>1. step.pull \in DOMAIN pulls
    BY <1>10, RefreshFields DEF PlaceInv
  <2>2. pulls' \in Seq(PullType)
    BY <1>10, <2>1, RefreshFields, RefreshTyped
  <2>3. QED  BY <1>10, <2>2, RefreshFields
<1>11. CASE SavePublication
  <2>1. step.commit \in Histories /\ step.pull \in Nat
    BY DEF StepType
  <2>2. receipt' \in ReceiptType
    BY <1>11, <2>1, SaveFields, EmptyTyped DEF ReceiptType
  <2>3. QED  BY <1>11, <2>2, SaveFields
<1>12. CASE PullRequestCreated
  BY <1>12, CreatedFields
<1>13. CASE Repair \/ Retry \/ NewWork
  <2>1. receipt' \in ReceiptType
    BY <1>13, AgainFields DEF ReceiptType
  <2>2. QED  BY <1>13, <2>1, AgainFields
<1>14. CASE PushArrives
  <2>1. remote' \in [Repositories -> Histories]
    BY <1>14, ArrivesFields, LandTyped
  <2>2. QED  BY <1>14, <2>1, ArrivesFields
<1>15. CASE Meddle
  <2>1. remote' \in [Repositories -> Histories]
    BY <1>15, MeddleFields, LandTyped, CommitTyped
  <2>2. QED  BY <1>15, <2>1, MeddleFields
<1>16. CASE UNCHANGED pubVars
  BY <1>16 DEF pubVars
<1>17. QED
  BY <1>1, <1>2, <1>3, <1>4, <1>5, <1>6, <1>7, <1>8, <1>9, <1>10, <1>11, <1>12, <1>13, <1>14,
     <1>15, <1>16 DEF PubNext, Publish
-----------------------------------------------------------------------------
(* Histories *)

\* The factory's commits of a history.
Marks(h) == {SubSeq(h, 1, n) : n \in {k \in DOMAIN h : h[k].by = "factory"}}

\* A prefix has fewer marks.
LEMMA MarksOfPrefix ==
  ASSUME NEW g \in Histories, NEW h \in Histories, IsPrefix(g, h)
  PROVE  Marks(g) \subseteq Marks(h)
  BY DEF Marks, IsPrefix, Histories

\* A mark of a history is a prefix of it.
LEMMA MarkIsPrefix ==
  ASSUME NEW h \in Histories, NEW c \in Marks(h)
  PROVE  c \in Histories /\ c # <<>> /\ IsPrefix(c, h)
<1>1. PICK n \in DOMAIN h : c = SubSeq(h, 1, n)
  BY DEF Marks
<1>2. n \in 1 .. Len(h) /\ Len(h) \in Nat
  BY DEF Histories
<1>3. c \in Histories /\ Len(c) = n /\ \A k \in 1 .. n : c[k] = h[k]
  BY <1>1, <1>2 DEF Histories
<1>4. SubSeq(h, 1, Len(c)) = c
  BY <1>1, <1>3
<1>5. QED  BY <1>2, <1>3, <1>4 DEF IsPrefix

\* A commit of the factory adds its mark, one of a person adds none.
LEMMA MarksOfAppend ==
  ASSUME NEW h \in Histories, NEW x \in Commits
  PROVE  /\ Append(h, x) \in Histories /\ IsPrefix(h, Append(h, x))
         /\ x.by # "factory" => Marks(Append(h, x)) = Marks(h)
         /\ x.by = "factory" => Marks(Append(h, x)) = Marks(h) \cup {Append(h, x)}
<1> DEFINE g == Append(h, x)
           n == Len(h) + 1
<1>1. /\ g \in Histories /\ Len(g) = n /\ n \in Nat /\ g[n] = x
      /\ \A k \in 1 .. Len(h) : g[k] = h[k]
      /\ DOMAIN h = 1 .. Len(h) /\ DOMAIN g = 1 .. n
  BY DEF Histories
<1>2. \A k \in 1 .. Len(h) : SubSeq(g, 1, k) = SubSeq(h, 1, k)
  BY DEF Histories
<1>3. SubSeq(g, 1, n) = g
  BY <1>1 DEF Histories
<1>4. IsPrefix(h, g)
  BY <1>1, <1>2 DEF IsPrefix, Histories
<1>5. {k \in DOMAIN g : g[k].by = "factory"}
        = {k \in DOMAIN h : h[k].by = "factory"} \cup (IF x.by = "factory" THEN {n} ELSE {})
  BY <1>1
<1> HIDE DEF g, n
<1>6. x.by # "factory" => Marks(g) = Marks(h)
  BY <1>1, <1>2, <1>5 DEF Marks
<1>7. x.by = "factory" => Marks(g) = Marks(h) \cup {g}
  <2> SUFFICES ASSUME x.by = "factory"  PROVE Marks(g) = Marks(h) \cup {g}
    OBVIOUS
  <2> DEFINE own == {k \in DOMAIN h : h[k].by = "factory"}
  <2>1. Marks(g) = {SubSeq(g, 1, k) : k \in own \cup {n}}
    BY <1>5 DEF Marks
  <2>2. Marks(h) = {SubSeq(h, 1, k) : k \in own}
    BY DEF Marks
  <2>3. \A k \in own : SubSeq(g, 1, k) = SubSeq(h, 1, k)
    BY <1>1, <1>2
  <2> HIDE DEF own
  <2>4. QED  BY <1>3, <2>1, <2>2, <2>3
<1>8. QED  BY <1>1, <1>4, <1>6, <1>7 DEF g

\* The commit on a history is not that history, and holds its tree.
LEMMA AppendedCommit ==
  ASSUME NEW h \in Histories, NEW tree \in Trees
  PROVE  /\ Front(Append(h, Commit("factory", tree))) = h
         /\ Last(Append(h, Commit("factory", tree))).tree = tree
         /\ Append(h, Commit("factory", tree)) # <<>>
         /\ Append(h, Commit("factory", tree)) # h
         /\ Append(h, Commit("factory", tree)) \in Histories
  BY DEF Front, Last, Commit, Commits, Histories

\* Two prefixes of each other are one.
LEMMA PrefixesMeet ==
  ASSUME NEW g \in Histories, NEW h \in Histories, IsPrefix(g, h), IsPrefix(h, g)
  PROVE  g = h
  BY DEF IsPrefix, Histories

\* A history is a prefix of itself.
LEMMA PrefixOfItself ==
  ASSUME NEW h \in Histories
  PROVE  IsPrefix(h, h)
  BY DEF IsPrefix, Histories

\* A history that a repository took.
LEMMA LandShows ==
  ASSUME PubTypes, NEW r \in Repositories, NEW c \in Histories, IsPrefix(remote[r], c),
         remote' = [remote EXCEPT ![r] = c]
  PROVE  /\ Shown' = Shown \cup Marks(c)
         /\ ShownIn(r)' = Marks(c)
         /\ \A q \in Repositories \ {r} : ShownIn(q)' = ShownIn(q)
<1>1. /\ remote' \in [Repositories -> Histories] /\ remote'[r] = c
      /\ \A q \in Repositories \ {r} : remote'[q] = remote[q]
  BY DEF PubTypes
<1>2. \A q \in Repositories : ShownIn(q) = Marks(remote[q]) /\ ShownIn(q)' = Marks(remote'[q])
  BY DEF ShownIn, Marks
<1>3. Marks(remote[r]) \subseteq Marks(c)
  BY MarksOfPrefix DEF PubTypes
<1>4. Shown = UNION {Marks(remote[q]) : q \in Repositories}
  BY <1>2 DEF Shown
<1>5. Shown' = UNION {Marks(remote'[q]) : q \in Repositories}
  BY <1>2 DEF Shown
<1>6. \A x : x \in Shown' <=> x \in Shown \cup Marks(c)
  BY <1>1, <1>3, <1>4, <1>5
<1>7. QED  BY <1>1, <1>2, <1>6

\* What others push is not the factory's.
LEMMA PersonShows ==
  ASSUME PubTypes, NEW r \in Repositories, NEW tree \in Trees,
         Land(r, Append(remote[r], Commit("person", tree)))
  PROVE  Shown' = Shown /\ \A q \in Repositories : ShownIn(q)' = ShownIn(q)
<1> DEFINE c == Append(remote[r], Commit("person", tree))
<1>1. Commit("person", tree) \in Commits /\ Commit("person", tree).by = "person"
  BY DEF Commit, Commits
<1>2. remote[r] \in Histories
  BY DEF PubTypes
<1>3. c \in Histories /\ IsPrefix(remote[r], c) /\ Marks(c) = Marks(remote[r])
  BY <1>1, <1>2, MarksOfAppend
<1>4. remote' = [remote EXCEPT ![r] = c]
  BY DEF Land
<1>5. Marks(remote[r]) = ShownIn(r) /\ Marks(remote[r]) \subseteq Shown
  BY DEF ShownIn, Marks, Shown
<1> HIDE DEF c
<1>6. QED  BY <1>3, <1>4, <1>5, LandShows

\* Who shows a commit shows those it continues.
LEMMA ShownContinues ==
  ASSUME PubTypes, NEW c \in Shown
  PROVE  c \in Histories /\ c # <<>> /\ Marks(c) \subseteq Shown
<1>1. PICK r \in Repositories : c \in Marks(remote[r])
  BY DEF Shown, ShownIn, Marks
<1>2. remote[r] \in Histories
  BY DEF PubTypes
<1>3. c \in Histories /\ c # <<>> /\ IsPrefix(c, remote[r])
  BY <1>1, <1>2, MarkIsPrefix
<1>4. Marks(c) \subseteq Marks(remote[r])
  BY <1>2, <1>3, MarksOfPrefix
<1>5. Marks(remote[r]) \subseteq Shown
  BY DEF Shown, ShownIn, Marks
<1>6. QED  BY <1>3, <1>4, <1>5
-----------------------------------------------------------------------------
(* The receipt, in fields *)

\* Recording changes the pending commit only.
LEMMA ReceiptBuilt ==
  ASSUME PubTypes, NEW c, receipt' = [receipt EXCEPT !.pending = c]
  PROVE  /\ receipt'.authorized = receipt.authorized /\ receipt'.tree = receipt.tree
         /\ receipt'.pending = c /\ receipt'.saved = receipt.saved /\ receipt'.url = receipt.url
  BY DEF PubTypes, ReceiptType

\* Saving changes the commits and the pull request.
LEMMA ReceiptSaved ==
  ASSUME PubTypes, NEW c, NEW i,
         receipt' = [receipt EXCEPT !.saved = c, !.pending = <<>>, !.url = i]
  PROVE  /\ receipt'.authorized = receipt.authorized /\ receipt'.tree = receipt.tree
         /\ receipt'.pending = <<>> /\ receipt'.saved = c /\ receipt'.url = i
  BY DEF PubTypes, ReceiptType

\* A new tree changes nothing else.
LEMMA ReceiptAgain ==
  ASSUME PubTypes, NEW tree, receipt' = [receipt EXCEPT !.tree = tree]
  PROVE  /\ receipt'.authorized = receipt.authorized /\ receipt'.url = receipt.url
         /\ receipt'.pending = receipt.pending /\ receipt'.saved = receipt.saved
  BY DEF PubTypes, ReceiptType

\* What the repair, the retry and new work keep of the receipt.
LEMMA AgainReceipt ==
  ASSUME PubTypes, Repair \/ Retry \/ NewWork
  PROVE  /\ receipt'.authorized = receipt.authorized /\ receipt'.url = receipt.url
         /\ receipt'.pending = receipt.pending /\ receipt'.saved = receipt.saved
<1>1. CASE UNCHANGED receipt
  BY <1>1
<1>2. CASE \E tree \in Trees : receipt' = [receipt EXCEPT !.tree = tree]
  BY <1>2, ReceiptAgain
<1>3. QED  BY <1>1, <1>2, AgainFields

\* A run is authorized, or not, for good.
LEMMA AuthorizationStays ==
  ASSUME PubTypes, [PubNext]_pubVars
  PROVE  receipt'.authorized = receipt.authorized
<1>1. CASE BuildCommit
  BY <1>1, BuildFields, ReceiptBuilt
<1>2. CASE SavePublication
  BY <1>2, SaveFields, ReceiptSaved
<1>3. CASE Repair \/ Retry \/ NewWork
  BY <1>3, AgainReceipt
<1>4. CASE UNCHANGED receipt
  BY <1>4
<1>5. QED
  BY <1>1, <1>2, <1>3, <1>4 DEF PubNext, Publish, pubVars, Identify, MoveBranch, LookAtRemote, Push,
     Reconcile, FindPull, CreatePull, Rediscover, RefreshPull, PullRequestCreated, PushArrives,
     Meddle

-----------------------------------------------------------------------------
(* What is recorded, shown and saved *)

Recorded(c) == receipt.pending # <<>> /\ c = receipt.pending

RecordInv ==
  /\ step.pc \in Working =>
       step.commit = receipt.pending /\ HasShape(receipt.pending, receipt.saved)
  /\ receipt.pending # <<>> =>
       \E tree \in Trees : receipt.pending = Append(receipt.saved, Commit("factory", tree))
  /\ step.pc \in {"saved", "created"} => receipt.pending = <<>>
  /\ receipt.saved # <<>> => receipt.saved \in Shown
  /\ step.pc \in Attaching => receipt.pending \in Shown
  /\ \A p \in late : p.commit \in Shown \/ Recorded(p.commit)

\* A thread at work has the recorded commit: the tree on the saved commit.
LEMMA WorkingCommit ==
  ASSUME PubTypes, RecordInv, step.pc \in Working
  PROVE  /\ step.commit = receipt.pending /\ receipt.pending # <<>>
         /\ receipt.pending = Append(receipt.saved, Commit("factory", receipt.tree))
<1>1. receipt.tree \in Trees /\ receipt.saved \in Histories
  BY DEF PubTypes, ReceiptType
<1>2. QED  BY <1>1, AppendedCommit DEF RecordInv, HasShape

\* The marks of the recorded commit are those of the saved one and itself.
LEMMA RecordedMarks ==
  ASSUME PubTypes, RecordInv, receipt.pending # <<>>
  PROVE  /\ receipt.pending \in Marks(receipt.pending)
         /\ Shown \cup Marks(receipt.pending) = Shown \cup {receipt.pending}
<1>1. PICK tree \in Trees : receipt.pending = Append(receipt.saved, Commit("factory", tree))
  BY DEF RecordInv
<1>2. Commit("factory", tree) \in Commits /\ Commit("factory", tree).by = "factory"
  BY DEF Commit, Commits
<1>3. receipt.saved \in Histories
  BY DEF PubTypes, ReceiptType
<1>4. Marks(receipt.pending) = Marks(receipt.saved) \cup {receipt.pending}
  BY <1>1, <1>2, <1>3, MarksOfAppend
<1>5. Marks(receipt.saved) \subseteq Shown
  <2>1. CASE receipt.saved = <<>>
    BY <2>1 DEF Marks
  <2>2. CASE receipt.saved # <<>>
    BY <2>2, ShownContinues DEF RecordInv
  <2>3. QED  BY <2>1, <2>2
<1>6. QED  BY <1>4, <1>5

\* A commit that a repository takes was recorded: either all of it is shown already, or it is
\* the pending one.
LEMMA LandsRecorded ==
  ASSUME PubTypes, RecordInv, NEW r \in Repositories, NEW c \in Histories,
         Takes(r, c), Land(r, c), c \in Shown \/ Recorded(c)
  PROVE  /\ \/ c \in Shown /\ Shown' = Shown
            \/ Recorded(c) /\ Shown' = Shown \cup {receipt.pending}
         /\ ShownIn(r)' = Marks(c)
         /\ \A q \in Repositories \ {r} : ShownIn(q)' = ShownIn(q)
<1>1. /\ Shown' = Shown \cup Marks(c)
      /\ ShownIn(r)' = Marks(c)
      /\ \A q \in Repositories \ {r} : ShownIn(q)' = ShownIn(q)
  BY LandShows DEF Takes, Land
<1>2. CASE c \in Shown
  BY <1>1, <1>2, ShownContinues
<1>3. CASE Recorded(c)
  BY <1>1, <1>3, RecordedMarks DEF Recorded
<1>4. QED  BY <1>1, <1>2, <1>3

\* What a repository holds as its tip, when it is the recorded commit, is shown.
LEMMA TipIsShown ==
  ASSUME PubTypes, RecordInv, NEW r \in Repositories, receipt.pending # <<>>,
         remote[r] = receipt.pending
  PROVE  receipt.pending \in ShownIn(r) /\ receipt.pending \in Shown
<1>1. receipt.pending \in Marks(remote[r])
  BY RecordedMarks
<1>2. Marks(remote[r]) = ShownIn(r) /\ ShownIn(r) \subseteq Shown
  BY DEF Marks, ShownIn, Shown
<1>3. QED  BY <1>1, <1>2

\* What the remotes hold is what is shown.
LEMMA ShownStays ==
  ASSUME UNCHANGED remote
  PROVE  Shown' = Shown /\ \A q \in Repositories : ShownIn(q)' = ShownIn(q)
  BY DEF Shown, ShownIn

\* Every step shows nothing new, or the recorded commit.
LEMMA ShownStep ==
  ASSUME PubTypes, PlaceInv, RecordInv, [PubNext]_pubVars
  PROVE  \/ Shown' = Shown
         \/ /\ receipt.pending # <<>> /\ Shown' = Shown \cup {receipt.pending}
            /\ UNCHANGED receipt
<1>1. CASE Push
  <2>1. Reached \in Repositories /\ step.commit \in Histories /\ step.pc \in Working
    BY <1>1, ReachedTyped DEF Push, PlaceInv, Working
  <2>2. Recorded(step.commit)
    BY <2>1, WorkingCommit DEF Recorded
  <2>3. CASE Takes(Reached, step.commit) /\ Land(Reached, step.commit)
    BY <1>1, <2>1, <2>2, <2>3, LandsRecorded, PushFields DEF Recorded
  <2>4. CASE UNCHANGED remote
    BY <2>4, ShownStays
  <2>5. QED  BY <1>1, <2>3, <2>4, PushFields
<1>2. CASE PushArrives
  <2>1. PICK p \in late : (Takes(p.repo, p.commit) /\ Land(p.repo, p.commit)) \/ UNCHANGED remote
    BY <1>2, ArrivesFields
  <2>2. /\ p.repo \in Repositories /\ p.commit \in Histories
        /\ p.commit \in Shown \/ Recorded(p.commit)
    BY DEF PubTypes, RecordInv
  <2>3. CASE Takes(p.repo, p.commit) /\ Land(p.repo, p.commit)
    BY <1>2, <2>2, <2>3, LandsRecorded, ArrivesFields DEF Recorded
  <2>4. QED  BY <2>1, <2>3, ShownStays
<1>3. CASE Meddle
  BY <1>3, MeddleFields, PersonShows, ShownStays
<1>4. CASE UNCHANGED remote
  BY <1>4, ShownStays
<1>5. QED
  BY <1>1, <1>2, <1>3, <1>4 DEF PubNext, Publish, pubVars, Identify, BuildCommit, MoveBranch,
     LookAtRemote, Reconcile, FindPull, CreatePull, Rediscover, RefreshPull, SavePublication,
     PullRequestCreated, Repair, Retry, NewWork, github

\* A step that keeps the receipt and the late pushes, and stays where it is or goes on with the
\* recorded commit, or stops.
LEMMA RecordGoesOn ==
  ASSUME PubTypes, RecordInv, Shown \subseteq Shown', UNCHANGED <<receipt, late>>,
         \/ UNCHANGED step
         \/ step'.pc \in {"idle", "commit", "halted"}
         \/ /\ step.pc \in Working /\ step'.pc \in Working /\ step'.commit = step.commit
            /\ step'.pc \in Attaching => step.pc \in Attaching \/ receipt.pending \in Shown'
  PROVE  RecordInv'
  BY DEF RecordInv, HasShape, Recorded, Working, Attaching

\* Every step keeps the receipt true to what is shown.
LEMMA RecordKept ==
  ASSUME PubTypes, PlaceInv, RecordInv, [PubNext]_pubVars
  PROVE  RecordInv'
<1>s. Shown \subseteq Shown'
  BY ShownStep
<1>w. step.pc \in Working => step.commit = receipt.pending /\ receipt.pending # <<>>
  BY WorkingCommit
<1>1. CASE Identify
  BY <1>1, <1>s, IdentifyFields, RecordGoesOn DEF RefusedFor
<1>2. CASE BuildCommit
  <2>1. CASE UNCHANGED receipt /\ step'.pc = "halted"
    BY <1>2, <2>1, <1>s, BuildFields, RecordGoesOn
  <2>2. CASE ~(UNCHANGED receipt /\ step'.pc = "halted")
    <3>1. /\ receipt'.pending = Append(receipt.saved, Commit("factory", receipt.tree))
          /\ receipt.pending # <<>> => receipt'.pending = receipt.pending
          /\ receipt' = [receipt EXCEPT !.pending = receipt'.pending]
          /\ step'.pc = "move" /\ step'.commit = receipt'.pending /\ UNCHANGED <<remote, late>>
      BY <1>2, <2>2, BuildFields DEF RefusedFor
    <3>2. receipt'.saved = receipt.saved /\ receipt'.tree = receipt.tree
      BY <3>1, ReceiptBuilt
    <3>3. Shown' = Shown /\ receipt.tree \in Trees /\ receipt.saved \in Histories
      BY <3>1, ShownStays DEF PubTypes, ReceiptType
    <3>4. receipt'.pending # <<>>
      BY <3>1, <3>3, AppendedCommit
    <3>5. QED
      BY <3>1, <3>2, <3>3, <3>4 DEF RecordInv, HasShape, Recorded, Working, Attaching
  <2>3. QED  BY <2>1, <2>2
<1>3. CASE MoveBranch
  BY <1>3, <1>s, MoveFields, RecordGoesOn DEF Goes, RefusedFor, Working, Attaching
<1>4. CASE LookAtRemote \/ Reconcile
  <2>1. /\ step.pc \in Working \ Attaching /\ UNCHANGED <<receipt, late, remote>>
        /\ \/ Goes("find") /\ remote[Reached] = step.commit
           \/ Goes("push")
           \/ RefusedFor("github")
    BY <1>4, LookFields, ReconcileFields DEF Working, Attaching
  <2>2. CASE Goes("find") /\ remote[Reached] = step.commit
    <3>1. Reached \in Repositories
      BY <2>1, ReachedTyped DEF PlaceInv
    <3>2. receipt.pending \in Shown
      BY <2>1, <2>2, <3>1, <1>w, TipIsShown
    <3>3. QED  BY <2>1, <2>2, <3>2, <1>s, RecordGoesOn DEF Goes, Working, Attaching
  <2>3. CASE Goes("push")
    BY <2>1, <2>3, <1>s, RecordGoesOn DEF Goes, Working, Attaching
  <2>4. CASE RefusedFor("github")
    BY <2>1, <2>4, <1>s, RecordGoesOn DEF RefusedFor
  <2>5. QED  BY <2>1, <2>2, <2>3, <2>4
<1>5. CASE Push
  <2>1. Reached \in Repositories /\ step.commit \in Histories /\ step.pc \in Working
    BY <1>5, ReachedTyped DEF Push, PlaceInv, Working
  <2>2. Recorded(step.commit) /\ step.commit = receipt.pending
    BY <2>1, <1>w DEF Recorded
  <2>3. CASE /\ Goes("find") \/ Goes("reconcile")
             /\ Takes(Reached, step.commit) /\ Land(Reached, step.commit) /\ UNCHANGED late
    <3>1. receipt.pending \in Shown'
      BY <2>1, <2>2, <2>3, LandsRecorded
    <3>2. QED
      BY <1>5, <2>1, <2>3, <3>1, <1>s, PushFields, RecordGoesOn DEF Goes, Working, Attaching
  <2>4. CASE RefusedFor("diverged") /\ UNCHANGED late
    BY <1>5, <2>4, <1>s, PushFields, RecordGoesOn DEF RefusedFor
  <2>5. CASE Goes("reconcile") /\ UNCHANGED late
    BY <1>5, <2>1, <2>5, <1>s, PushFields, RecordGoesOn DEF Goes, Working, Attaching
  <2>6. CASE /\ Goes("reconcile") /\ UNCHANGED remote
             /\ late' = late \union {[repo |-> Reached, commit |-> step.commit]}
    <3>1. Shown' = Shown /\ UNCHANGED receipt
      BY <1>5, <2>6, ShownStays, PushFields
    <3>2. \A p \in late' : p.commit \in Shown \/ Recorded(p.commit)
      BY <2>2, <2>6 DEF RecordInv
    <3>3. step'.pc = "reconcile" /\ step'.commit = step.commit
      BY <2>6 DEF Goes
    <3>4. QED
      BY <2>1, <3>1, <3>2, <3>3 DEF RecordInv, HasShape, Recorded, Working, Attaching
  <2>7. QED  BY <1>5, <2>3, <2>4, <2>5, <2>6, PushFields
<1>6. CASE FindPull
  BY <1>6, <1>s, FindFields, RecordGoesOn DEF Goes, RefusedFor, Working, Attaching
<1>7. CASE CreatePull
  BY <1>7, <1>s, CreateFields, RecordGoesOn DEF Goes, RefusedFor, Working, Attaching
<1>8. CASE Rediscover
  BY <1>8, <1>s, RediscoverFields, RecordGoesOn DEF Goes, RefusedFor, Working, Attaching
<1>9. CASE RefreshPull
  BY <1>9, <1>s, RefreshFields, RecordGoesOn DEF Goes, RefusedFor, Working, Attaching
<1>10. CASE SavePublication
  <2>1. /\ step.pc \in Working /\ step.pc \in Attaching /\ step'.pc = "saved"
        /\ UNCHANGED <<remote, late>>
    BY <1>10, SaveFields DEF Goes, Working, Attaching
  <2>a. receipt'.pending = <<>> /\ receipt'.saved = step.commit
    BY <1>10, SaveFields, ReceiptSaved
  <2>2. receipt'.saved = receipt.pending /\ receipt.pending \in Shown /\ Shown' = Shown
    BY <2>1, <2>a, <1>w, ShownStays DEF RecordInv
  <2>3. \A p \in late : p.commit \in Shown
    BY <2>2 DEF RecordInv, Recorded
  <2>4. QED
    BY <2>1, <2>a, <2>2, <2>3 DEF RecordInv, Working, Attaching
<1>11. CASE PullRequestCreated
  <2>1. /\ step.pc = "saved" /\ step'.pc = "created" /\ UNCHANGED <<receipt, remote, late>>
    BY <1>11, CreatedFields
  <2>2. QED  BY <2>1, <1>s DEF RecordInv, Recorded, Working, Attaching
<1>12. CASE Repair \/ Retry \/ NewWork
  <2>1. /\ step'.pc = "idle" /\ UNCHANGED <<remote, late>>
        /\ receipt'.pending = receipt.pending /\ receipt'.saved = receipt.saved
    BY <1>12, AgainFields, AgainReceipt DEF Restarted
  <2>2. QED  BY <2>1, <1>s DEF RecordInv, Recorded, Working, Attaching
<1>13. CASE PushArrives
  <2>1. UNCHANGED <<receipt, step>> /\ late' \subseteq late
    BY <1>13, ArrivesFields
  <2>2. QED  BY <2>1, <1>s DEF RecordInv, HasShape, Recorded
<1>14. CASE Meddle
  BY <1>14, <1>s, MeddleFields, RecordGoesOn
<1>15. CASE UNCHANGED pubVars
  BY <1>15, <1>s, RecordGoesOn DEF pubVars
<1>16. QED
  BY <1>1, <1>2, <1>3, <1>4, <1>5, <1>6, <1>7, <1>8, <1>9, <1>10, <1>11, <1>12, <1>13, <1>14,
     <1>15 DEF PubNext, Publish

-----------------------------------------------------------------------------
(* The repositories of an authorized run *)

RepositoryInv ==
  receipt.authorized =>
    /\ StaysInRepository
    /\ \A p \in late : p.repo = "authorized"
    /\ step.pc \in Working => step.to = "authorized"
    /\ step.pc \in Working \cup {"commit"} => step.api = "authorized"

\* A step that shows nothing and goes on where it was keeps the repositories.
LEMMA RepositoryGoesOn ==
  ASSUME RepositoryInv, receipt'.authorized = receipt.authorized, UNCHANGED <<remote, late>>,
         \/ UNCHANGED step
         \/ step'.pc \notin Working \cup {"commit"}
         \/ /\ step.pc \in Working /\ step'.api = step.api /\ step'.to = step.to
  PROVE  RepositoryInv'
<1>1. ShownIn("other")' = ShownIn("other")
  BY DEF ShownIn
<1>2. QED  BY <1>1 DEF RepositoryInv, StaysInRepository

\* Every step keeps an authorized run to its repository.
LEMMA RepositoryKept ==
  ASSUME PubTypes, PlaceInv, RecordInv, RepositoryInv, [PubNext]_pubVars
  PROVE  RepositoryInv'
<1>a. receipt'.authorized = receipt.authorized
  BY AuthorizationStays
<1>1. CASE Identify
  <2>1. CASE RefusedFor("repository")
    BY <1>1, <1>a, <2>1, IdentifyFields, RepositoryGoesOn DEF RefusedFor, Working
  <2>2. CASE ~RefusedFor("repository")
    <3>1. /\ IdentityHolds /\ step'.pc = "commit" /\ step'.api = alias
          /\ UNCHANGED <<receipt, remote, late>>
      BY <1>1, <2>2, IdentifyFields
    <3>2. ShownIn("other")' = ShownIn("other")
      BY <3>1 DEF ShownIn
    <3>3. QED
      BY <3>1, <3>2 DEF RepositoryInv, StaysInRepository, IdentityHolds, RemoteTarget, Working
  <2>3. QED  BY <2>1, <2>2
<1>2. CASE BuildCommit
  <2>1. CASE step'.pc = "halted"
    BY <1>2, <1>a, <2>1, BuildFields, RepositoryGoesOn DEF Working
  <2>2. CASE step'.pc # "halted"
    <3>1. /\ IdentityHolds /\ step.pc = "commit" /\ step'.pc = "move" /\ step'.api = step.api
          /\ step'.to = Destination /\ UNCHANGED <<remote, late>>
      BY <1>2, <2>2, BuildFields DEF RefusedFor
    <3>2. ShownIn("other")' = ShownIn("other")
      BY <3>1 DEF ShownIn
    <3>3. receipt.authorized => Destination = "authorized"
      BY <3>1 DEF Destination, IdentityHolds
    <3>4. QED
      BY <3>1, <3>2, <3>3, <1>a DEF RepositoryInv, StaysInRepository, Working
  <2>3. QED  BY <2>1, <2>2
<1>3. CASE MoveBranch
  BY <1>3, <1>a, MoveFields, RepositoryGoesOn DEF Goes, RefusedFor, Working
<1>4. CASE LookAtRemote \/ Reconcile
  BY <1>4, <1>a, LookFields, ReconcileFields, RepositoryGoesOn DEF Goes, RefusedFor, Working
<1>5. CASE Push
  <2>1. Reached \in Repositories /\ step.commit \in Histories /\ step.pc \in Working
    BY <1>5, ReachedTyped DEF Push, PlaceInv, Working
  <2>2. receipt.authorized => Reached = "authorized"
    BY <2>1 DEF RepositoryInv, Reached
  <2>3. Recorded(step.commit)
    BY <2>1, WorkingCommit DEF Recorded
  <2>4. receipt.authorized => ShownIn("other")' = ShownIn("other")
    <3>1. CASE UNCHANGED remote
      BY <3>1 DEF ShownIn
    <3>2. CASE Takes(Reached, step.commit) /\ Land(Reached, step.commit)
      BY <2>1, <2>2, <2>3, <3>2, LandsRecorded DEF Repositories
    <3>3. QED  BY <1>5, <3>1, <3>2, PushFields
  <2>5. receipt.authorized => \A p \in late' : p.repo = "authorized"
    BY <1>5, <2>2, PushFields DEF RepositoryInv
  <2>6. \/ step'.pc \notin Working \cup {"commit"}
        \/ step'.api = step.api /\ step'.to = step.to
    BY <1>5, PushFields DEF Goes, RefusedFor, Working
  <2>7. QED  BY <1>a, <2>1, <2>4, <2>5, <2>6 DEF RepositoryInv, StaysInRepository
<1>6. CASE FindPull
  BY <1>6, <1>a, FindFields, RepositoryGoesOn DEF Goes, RefusedFor, Working
<1>7. CASE CreatePull
  BY <1>7, <1>a, CreateFields, RepositoryGoesOn DEF Goes, RefusedFor, Working
<1>8. CASE Rediscover
  BY <1>8, <1>a, RediscoverFields, RepositoryGoesOn DEF Goes, RefusedFor, Working
<1>9. CASE RefreshPull
  BY <1>9, <1>a, RefreshFields, RepositoryGoesOn DEF Goes, RefusedFor, Working
<1>10. CASE SavePublication
  BY <1>10, <1>a, SaveFields, RepositoryGoesOn DEF Goes, Working
<1>11. CASE PullRequestCreated
  BY <1>11, <1>a, CreatedFields, RepositoryGoesOn DEF Working
<1>12. CASE Repair \/ Retry \/ NewWork
  BY <1>12, <1>a, AgainFields, RepositoryGoesOn DEF Restarted, Working
<1>13. CASE PushArrives
  <2>1. PICK p \in late : /\ late' = late \ {p}
                          /\ \/ Takes(p.repo, p.commit) /\ Land(p.repo, p.commit)
                             \/ UNCHANGED remote
    BY <1>13, ArrivesFields
  <2>2. /\ p.repo \in Repositories /\ p.commit \in Histories
        /\ p.commit \in Shown \/ Recorded(p.commit)
    BY DEF PubTypes, RecordInv
  <2>3. receipt.authorized => ShownIn("other")' = ShownIn("other")
    <3>1. CASE UNCHANGED remote
      BY <3>1 DEF ShownIn
    <3>2. CASE Takes(p.repo, p.commit) /\ Land(p.repo, p.commit)
      <4>1. receipt.authorized => p.repo = "authorized"
        BY DEF RepositoryInv
      <4>2. QED  BY <2>2, <3>2, <4>1, LandsRecorded DEF Repositories
    <3>3. QED  BY <2>1, <3>1, <3>2
  <2>4. QED
    BY <1>13, <1>a, <2>1, <2>3, ArrivesFields DEF RepositoryInv, StaysInRepository
<1>14. CASE Meddle
  <2>1. ShownIn("other")' = ShownIn("other")
    <3>1. CASE UNCHANGED remote
      BY <3>1 DEF ShownIn
    <3>2. QED  BY <1>14, <3>1, MeddleFields, PersonShows DEF Repositories
  <2>2. QED
    BY <1>14, <1>a, <2>1, MeddleFields DEF RepositoryInv, StaysInRepository
<1>15. CASE UNCHANGED pubVars
  BY <1>15, <1>a, RepositoryGoesOn DEF pubVars
<1>16. QED
  BY <1>1, <1>2, <1>3, <1>4, <1>5, <1>6, <1>7, <1>8, <1>9, <1>10, <1>11, <1>12, <1>13, <1>14,
     <1>15 DEF PubNext, Publish

-----------------------------------------------------------------------------
(* The pull requests *)

\* A pull request that the run may count as its own.
OwnPull(i) ==
  /\ i \in DOMAIN pulls /\ pulls[i].ours /\ ~pulls[i].fork
  /\ receipt.authorized => pulls[i].repo = "authorized"

PullInv ==
  /\ receipt.url # 0 => OwnPull(receipt.url)
  /\ step.pc \in {"refresh", "save"} => OwnPull(step.pull)
  /\ step.pc = "save" => pulls[step.pull].describes = receipt.tree

\* No step takes a pull request away, or makes it another one.
LEMMA PullsGrow ==
  ASSUME PubTypes, PlaceInv, [PubNext]_pubVars
  PROVE  /\ DOMAIN pulls \subseteq DOMAIN pulls'
         /\ \A i \in DOMAIN pulls :
              /\ pulls'[i].repo = pulls[i].repo /\ pulls'[i].fork = pulls[i].fork
              /\ pulls'[i].ours = pulls[i].ours
              /\ step.pc # "refresh" => pulls'[i].describes = pulls[i].describes
<1>1. CASE CreatePull
  <2>1. step.api \in Repositories /\ receipt.tree \in Trees
    BY <1>1, CreateFields DEF PlaceInv, Working, PubTypes, ReceiptType
  <2>2. NewPull \in PullType
    BY <2>1 DEF NewPull, PullType
  <2>3. QED  BY <1>1, <2>2, CreateFields, AppendPull
<1>2. CASE RefreshPull
  <2>1. step.pull \in DOMAIN pulls
    BY <1>2, RefreshFields DEF PlaceInv
  <2>2. QED  BY <1>2, <2>1, RefreshFields, RefreshTyped
<1>3. CASE Meddle
  BY <1>3, MeddleFields DEF PullsStay, SamePull
<1>4. CASE UNCHANGED pulls
  BY <1>4
<1>5. QED
  BY <1>1, <1>2, <1>3, <1>4 DEF PubNext, Publish, pubVars, Identify, BuildCommit, MoveBranch,
     LookAtRemote, Push, Reconcile, FindPull, Rediscover, SavePublication,
     PullRequestCreated, Repair, Retry, NewWork, PushArrives, github

OwnNext(i) ==
  /\ i \in DOMAIN pulls' /\ pulls'[i].ours /\ ~pulls'[i].fork
  /\ receipt'.authorized => pulls'[i].repo = "authorized"

\* What is the run's own stays so.
LEMMA OwnStays ==
  ASSUME PubTypes, PlaceInv, [PubNext]_pubVars, NEW i, OwnPull(i)
  PROVE  OwnNext(i)
  BY PullsGrow, AuthorizationStays DEF OwnPull, OwnNext

\* A step that keeps the receipt's pull request, and comes to no place with one.
LEMMA PullGoesOn ==
  ASSUME PubTypes, PlaceInv, PullInv, [PubNext]_pubVars,
         receipt'.url = receipt.url,
         \/ UNCHANGED step /\ receipt'.tree = receipt.tree /\ step.pc # "refresh"
         \/ step'.pc \notin {"refresh", "save"}
  PROVE  PullInv'
<1>1. receipt'.url # 0 => OwnNext(receipt'.url)
  BY OwnStays DEF PullInv
<1>2. step'.pc \in {"refresh", "save"} => OwnNext(step'.pull)
  BY OwnStays DEF PullInv
<1>3. step'.pc = "save" => pulls'[step'.pull].describes = receipt'.tree
  BY PullsGrow DEF PullInv, OwnPull
<1>4. QED  BY <1>1, <1>2, <1>3 DEF PullInv, OwnPull, OwnNext

\* What the run attaches is its own.
LEMMA AttachedIsOwn ==
  ASSUME RepositoryInv, step.pc \in Working, NEW i, Attachable(i)
  PROVE  OwnPull(i)
  BY DEF Attachable, OwnPull, RepositoryInv

\* Every step names pull requests of the run only, and saves one that is described.
LEMMA PullKept ==
  ASSUME PubTypes, PlaceInv, RepositoryInv, PullInv, [PubNext]_pubVars
  PROVE  PullInv'
<1>1. CASE Identify
  BY <1>1, IdentifyFields, PullGoesOn DEF RefusedFor
<1>2. CASE BuildCommit
  BY <1>2, BuildFields, ReceiptBuilt, PullGoesOn DEF RefusedFor
<1>3. CASE MoveBranch
  BY <1>3, MoveFields, PullGoesOn DEF Goes, RefusedFor
<1>4. CASE LookAtRemote \/ Reconcile
  BY <1>4, LookFields, ReconcileFields, PullGoesOn DEF Goes, RefusedFor
<1>5. CASE Push
  BY <1>5, PushFields, PullGoesOn DEF Goes, RefusedFor
<1>6. CASE FindPull \/ Rediscover
  <2>1. step.pc \in Working /\ UNCHANGED <<receipt, pulls>>
    BY <1>6, FindFields, RediscoverFields DEF Working
  <2>2. CASE Goes("create") \/ RefusedFor("github")
    BY <2>1, <2>2, PullGoesOn, <1>6 DEF Goes, RefusedFor, PubNext, Publish
  <2>3. CASE Goes("refresh") /\ step'.pull = receipt.url /\ receipt.url # 0
    BY <2>1, <2>3 DEF PullInv, OwnPull, Goes
  <2>4. CASE \E i \in Nat : Attachable(i) /\ Goes("refresh") /\ step'.pull = i
    <3>1. OwnPull(step'.pull) /\ step'.pc = "refresh"
      BY <2>1, <2>4, AttachedIsOwn DEF Goes
    <3>2. QED  BY <2>1, <3>1 DEF PullInv, OwnPull
  <2>5. QED  BY <1>6, <2>2, <2>3, <2>4, FindFields, RediscoverFields
<1>7. CASE CreatePull
  <2>1. CASE step'.pc # "save"
    BY <1>7, <2>1, CreateFields, PullGoesOn DEF Goes, RefusedFor
  <2>2. CASE step'.pc = "save"
    <3>1. /\ step.pc = "create" /\ UNCHANGED receipt
          /\ pulls' = Append(pulls, NewPull) /\ step'.pull = Len(pulls')
      BY <1>7, <2>2, CreateFields DEF Goes, RefusedFor
    <3>2. /\ step.api \in Repositories /\ receipt.tree \in Trees
          /\ receipt.authorized => step.api = "authorized"
      BY <3>1 DEF PlaceInv, RepositoryInv, Working, PubTypes, ReceiptType
    <3>3. /\ NewPull \in PullType /\ NewPull.ours /\ ~NewPull.fork /\ NewPull.repo = step.api
          /\ NewPull.describes = receipt.tree
      BY <3>2 DEF NewPull, PullType
    <3>4. step'.pull \in DOMAIN pulls' /\ pulls'[step'.pull] = NewPull
      BY <3>1, <3>3, AppendPull
    <3>5. receipt'.url # 0 => OwnNext(receipt'.url)
      BY <1>7, <3>1, OwnStays DEF PullInv, PubNext, Publish
    <3>6. OwnNext(step'.pull)
      BY <3>1, <3>2, <3>3, <3>4 DEF OwnNext
    <3>7. QED  BY <3>1, <3>3, <3>4, <3>5, <3>6 DEF PullInv, OwnPull, OwnNext
  <2>3. QED  BY <2>1, <2>2
<1>8. CASE RefreshPull
  <2>1. CASE step'.pc # "save"
    BY <1>8, <2>1, RefreshFields, PullGoesOn DEF Goes, RefusedFor
  <2>2. CASE step'.pc = "save"
    <3>1. /\ step.pc = "refresh" /\ UNCHANGED receipt /\ pulls' = Refreshed
          /\ step'.pull = step.pull
      BY <1>8, <2>2, RefreshFields DEF Goes, RefusedFor
    <3>2. OwnPull(step.pull)
      BY <3>1 DEF PullInv
    <3>3. pulls'[step'.pull].describes = receipt'.tree
      BY <3>1, <3>2, RefreshTyped DEF OwnPull
    <3>4. receipt'.url # 0 => OwnNext(receipt'.url)
      BY <1>8, <3>1, OwnStays DEF PullInv, PubNext, Publish
    <3>5. OwnNext(step'.pull)
      BY <1>8, <3>1, <3>2, OwnStays DEF PubNext, Publish
    <3>6. QED  BY <3>3, <3>4, <3>5 DEF PullInv, OwnPull, OwnNext
  <2>3. QED  BY <2>1, <2>2
<1>9. CASE SavePublication
  <2>1. step.pc = "save" /\ step'.pc = "saved" /\ UNCHANGED pulls
    BY <1>9, SaveFields DEF Goes
  <2>2. receipt'.url = step.pull /\ receipt'.authorized = receipt.authorized
    BY <1>9, SaveFields, ReceiptSaved
  <2>3. QED  BY <2>1, <2>2 DEF PullInv, OwnPull
<1>10. CASE PullRequestCreated
  BY <1>10, CreatedFields, PullGoesOn
<1>11. CASE Repair \/ Retry \/ NewWork
  BY <1>11, AgainFields, AgainReceipt, PullGoesOn DEF Restarted
<1>12. CASE PushArrives
  <2>1. CASE step.pc # "refresh"
    BY <1>12, <2>1, ArrivesFields, PullGoesOn
  <2>2. CASE step.pc = "refresh"
    BY <1>12, <2>2, ArrivesFields DEF PullInv, OwnPull
  <2>3. QED  BY <2>1, <2>2
<1>13. CASE Meddle
  <2>1. CASE step.pc # "refresh"
    BY <1>13, <2>1, MeddleFields, PullGoesOn
  <2>2. CASE step.pc = "refresh"
    <3>1. UNCHANGED <<receipt, step>>
      BY <1>13, MeddleFields
    <3>2. (receipt.url # 0 => OwnNext(receipt.url)) /\ OwnNext(step.pull)
      BY <1>13, <2>2, OwnStays DEF PullInv
    <3>3. QED  BY <2>2, <3>1, <3>2 DEF PullInv, OwnPull, OwnNext
  <2>3. QED  BY <2>1, <2>2
<1>14. CASE UNCHANGED pubVars
  BY <1>14 DEF pubVars, PullInv, OwnPull
<1>15. QED
  BY <1>1, <1>2, <1>3, <1>4, <1>5, <1>6, <1>7, <1>8, <1>9, <1>10, <1>11, <1>12, <1>13,
     <1>14 DEF PubNext, Publish

\* The place follows from the same steps.
LEMMA PlaceKept ==
  ASSUME PubTypes, PlaceInv, PullInv', [PubNext]_pubVars
  PROVE  PlaceInv'
<1>u. receipt'.url # 0 => receipt'.url \in DOMAIN pulls'
  BY DEF PullInv, OwnPull
<1>p. step'.pc \in {"refresh", "save"} => step'.pull \in DOMAIN pulls'
  BY DEF PullInv, OwnPull
<1>1. CASE Identify
  BY <1>1, <1>u, <1>p, IdentifyFields DEF PlaceInv, Working, RefusedFor, PubTypes
<1>2. CASE BuildCommit
  <2>1. Destination # "none"
    BY DEF Destination, RemoteTarget, PubTypes, Repositories
  <2>2. QED  BY <1>2, <1>u, <1>p, <2>1, BuildFields DEF PlaceInv, Working, RefusedFor
<1>3. CASE /\ step.pc \in Working
           /\ \/ step'.api = step.api /\ step'.to = step.to
              \/ step'.pc \notin Working \cup {"commit"}
  BY <1>3, <1>u, <1>p DEF PlaceInv
<1>4. CASE UNCHANGED step \/ step'.pc \notin Working \cup {"commit"}
  BY <1>4, <1>u, <1>p DEF PlaceInv
<1>5. ASSUME MoveBranch \/ LookAtRemote \/ Push \/ Reconcile \/ FindPull \/ CreatePull \/ Rediscover
               \/ RefreshPull
      PROVE  /\ step.pc \in Working
             /\ \/ step'.api = step.api /\ step'.to = step.to
                \/ step'.pc \notin Working \cup {"commit"}
  BY <1>5, MoveFields, LookFields, PushFields, ReconcileFields, FindFields, CreateFields,
     RediscoverFields, RefreshFields DEF Working, Goes, RefusedFor
<1>6. ASSUME \/ SavePublication \/ PullRequestCreated \/ Repair \/ Retry \/ NewWork \/ PushArrives
             \/ Meddle
      PROVE  UNCHANGED step \/ step'.pc \notin Working \cup {"commit"}
  BY <1>6, SaveFields, CreatedFields, AgainFields, ArrivesFields, MeddleFields
     DEF Working, Goes, Restarted
<1>7. QED  BY <1>1, <1>2, <1>3, <1>4, <1>5, <1>6 DEF PubNext, Publish, pubVars

-----------------------------------------------------------------------------
(* While nobody meddles *)

At(tip) == tip = receipt.saved \/ Recorded(tip)
Blamed == {"history", "content", "repository", "diverged"}

CalmInv ==
  ~Meddled =>
    /\ alias = "authorized" /\ branch.on /\ remote["other"] = <<>>
    /\ At(remote["authorized"]) /\ At(branch.tip)
    /\ receipt.pending # <<>> => HasShape(receipt.pending, receipt.saved)
    /\ \A p \in late : p.repo = "authorized"
    /\ step.pc \in Working => step.to \in {"authorized", "alias"}
    /\ step.pc \in Working \cup {"commit"} => step.api = "authorized"
    /\ step.pc = "move" => step.head = branch.tip
    /\ step.pc \in Working \ {"move"} => branch.tip = receipt.pending
    /\ \A i \in DOMAIN pulls : pulls[i].repo = "authorized"
    /\ step.why \notin Blamed

\* A step of the thread that keeps the branch, the remotes and the receipt.
LEMMA CalmGoesOn ==
  ASSUME CalmInv, Calm, UNCHANGED <<receipt, branch, alias, remote, pulls, late>>,
         \/ UNCHANGED step
         \/ step'.pc \in {"idle", "halted"} /\ step'.why \notin Blamed
         \/ /\ Goes(step'.pc) /\ step.pc \in Working \ {"move"} /\ step'.pc \in Working \ {"move"}
  PROVE  CalmInv'
  BY DEF CalmInv, Calm, Meddled, Goes, Blamed, At, Recorded, HasShape, Working

\* What the authorized repository shows is what its branch was made of.
LEMMA CalmShown ==
  ASSUME PubTypes, CalmInv, ~Meddled
  PROVE  Shown = Marks(remote["authorized"])
<1>1. Shown = UNION {Marks(remote[q]) : q \in Repositories}
  BY DEF Shown, ShownIn, Marks
<1>2. Marks(remote["other"]) = {}
  BY DEF CalmInv, Marks
<1>3. QED  BY <1>1, <1>2 DEF Repositories

\* Then a repository takes the recorded commit: it continues what was published.
LEMMA CalmTakes ==
  ASSUME PubTypes, RecordInv, CalmInv, ~Meddled, step.pc \in Working
  PROVE  Reached = "authorized" /\ Takes("authorized", step.commit)
<1>1. Reached = "authorized"
  BY DEF CalmInv, Reached
<1>2. /\ step.commit = receipt.pending
      /\ receipt.pending = Append(receipt.saved, Commit("factory", receipt.tree))
  BY WorkingCommit
<1>3. /\ receipt.saved \in Histories /\ receipt.pending \in Histories
      /\ Commit("factory", receipt.tree) \in Commits
  BY DEF PubTypes, ReceiptType, Commit, Commits
<1>4. IsPrefix(receipt.saved, receipt.pending) /\ IsPrefix(receipt.pending, receipt.pending)
  BY <1>2, <1>3, MarksOfAppend, PrefixOfItself
<1>5. QED  BY <1>1, <1>2, <1>4 DEF CalmInv, At, Recorded, Takes

\* A late push that is taken brings nothing else than is there.
LEMMA CalmArrival ==
  ASSUME PubTypes, RecordInv, CalmInv, ~Meddled, NEW p \in late, Takes(p.repo, p.commit)
  PROVE  p.repo = "authorized" /\ At(p.commit)
<1>1. p.repo = "authorized" /\ p.commit \in Histories /\ remote["authorized"] \in Histories
  BY DEF CalmInv, PubTypes, Repositories
<1>2. CASE Recorded(p.commit)
  BY <1>1, <1>2 DEF At
<1>3. CASE p.commit \in Shown
  <2>1. IsPrefix(p.commit, remote["authorized"])
    BY <1>1, <1>3, CalmShown, MarkIsPrefix
  <2>2. IsPrefix(remote["authorized"], p.commit)
    BY <1>1 DEF Takes
  <2>3. p.commit = remote["authorized"]
    BY <1>1, <2>1, <2>2, PrefixesMeet
  <2>4. QED  BY <1>1, <2>3 DEF CalmInv
<1>4. QED  BY <1>2, <1>3 DEF RecordInv

\* When the pull request is looked for, the repository holds the recorded commit.
LEMMA CalmAttaching ==
  ASSUME PubTypes, RecordInv, CalmInv, ~Meddled, step.pc \in Attaching
  PROVE  remote["authorized"] = receipt.pending
<1>1. /\ receipt.pending = Append(receipt.saved, Commit("factory", receipt.tree))
  BY WorkingCommit DEF Attaching, Working
<1>2. /\ receipt.saved \in Histories /\ Commit("factory", receipt.tree) \in Commits
      /\ receipt.tree \in Trees
  BY DEF PubTypes, ReceiptType, Commit, Commits
<1>3. receipt.pending \in Shown
  BY DEF RecordInv
<1>4. ASSUME remote["authorized"] = receipt.saved  PROVE FALSE
  <2>1. IsPrefix(receipt.pending, receipt.saved)
    BY <1>2, <1>3, <1>4, CalmShown, MarkIsPrefix
  <2>2. IsPrefix(receipt.saved, receipt.pending) /\ receipt.pending \in Histories
    BY <1>1, <1>2, MarksOfAppend
  <2>3. receipt.pending = receipt.saved
    BY <1>2, <2>1, <2>2, PrefixesMeet
  <2>4. QED  BY <1>1, <1>2, <2>3, AppendedCommit
<1>5. QED  BY <1>4 DEF CalmInv, At, Recorded

\* A landing changes the tip of one repository.
LEMMA LandAuthorized ==
  ASSUME PubTypes, NEW c \in Histories, Land("authorized", c)
  PROVE  remote'["authorized"] = c /\ remote'["other"] = remote["other"]
  BY DEF PubTypes, Land, Repositories

\* Every step that nobody else takes keeps the calm.
LEMMA CalmKept ==
  ASSUME PubTypes, PlaceInv, RecordInv, CalmInv, [PubNext]_pubVars
  PROVE  CalmInv'
<1>1. CASE Identify
  <2>1. ASSUME ~Meddled  PROVE IdentityHolds /\ StoredPullFits
    <3>1. receipt.url # 0 => receipt.url \in DOMAIN pulls
      BY DEF PlaceInv
    <3>2. QED  BY <2>1, <3>1 DEF CalmInv, IdentityHolds, StoredPullFits, RemoteTarget
  <2>2. UNCHANGED <<receipt, branch, alias, remote, pulls, late, bounds>>
    BY <1>1, IdentifyFields
  <2>3. ~Meddled => step'.pc = "commit" /\ step'.why = "none" /\ step'.api = alias
    BY <1>1, <2>1, IdentifyFields
  <2>4. QED
    BY <2>2, <2>3 DEF CalmInv, Meddled, Blamed, At, Recorded, HasShape, Working
<1>2. CASE BuildCommit
  <2>1. UNCHANGED <<branch, alias, remote, pulls, late, bounds>> /\ step.pc = "commit"
    BY <1>2, BuildFields
  <2>2. CASE RefusedFor("empty") /\ UNCHANGED receipt
    BY <2>1, <2>2, CalmGoesOn DEF RefusedFor, Calm, Blamed
  <2>3. CASE step'.pc = "halted" /\ ~RefusedFor("empty")
    <3>1. \/ ~IdentityHolds
          \/ ~branch.on
          \/ receipt.pending # <<>> /\ ~HasShape(receipt.pending, receipt.saved)
          \/ /\ branch.tip # receipt.saved
             /\ receipt.pending # <<>> => branch.tip # receipt.pending
      BY <1>2, <2>3, BuildFields
    <3>2. Meddled
      BY <3>1 DEF CalmInv, IdentityHolds, RemoteTarget, At, Recorded
    <3>3. QED  BY <2>1, <3>2 DEF CalmInv, Meddled
  <2>4. CASE step'.pc # "halted"
    <3>1. /\ receipt'.pending = Append(receipt.saved, Commit("factory", receipt.tree))
          /\ receipt.pending # <<>> => receipt'.pending = receipt.pending
          /\ receipt' = [receipt EXCEPT !.pending = receipt'.pending]
          /\ step'.pc = "move" /\ step'.why = step.why /\ step'.api = step.api
          /\ step'.to = Destination /\ step'.head = branch.tip
      BY <1>2, <2>4, BuildFields DEF RefusedFor
    <3>2. receipt'.saved = receipt.saved /\ receipt'.tree = receipt.tree
      BY <3>1, ReceiptBuilt
    <3>3. HasShape(receipt.pending, receipt.saved)'
      BY <3>1, <3>2 DEF HasShape
    <3>4. ~Meddled => Destination \in {"authorized", "alias"}
      BY DEF CalmInv, Destination, RemoteTarget
    <3>5. At(remote["authorized"]) => At(remote["authorized"])'
      BY <2>1, <3>1, <3>2 DEF At, Recorded
    <3>6. At(branch.tip) => At(branch.tip)'
      BY <2>1, <3>1, <3>2 DEF At, Recorded
    <3>7. QED
      BY <2>1, <3>1, <3>3, <3>4, <3>5, <3>6 DEF CalmInv, Meddled, Working
  <2>5. QED  BY <1>2, <2>2, <2>3, <2>4, BuildFields
<1>3. CASE MoveBranch
  <2>1. UNCHANGED <<receipt, alias, remote, pulls, late, bounds>> /\ step.pc = "move"
    BY <1>3, MoveFields
  <2>2. step.commit = receipt.pending /\ receipt.pending # <<>> /\ receipt.pending \in Histories
    BY <2>1, WorkingCommit DEF Working, PubTypes, ReceiptType
  <2>3. CASE Goes("look") /\ step.head = step.commit /\ UNCHANGED branch
    BY <2>1, <2>2, <2>3 DEF CalmInv, Meddled, Goes, Blamed, At, Recorded, HasShape, Working
  <2>4. CASE Goes("look") /\ branch' = [branch EXCEPT !.tip = step.commit]
    <3>1. branch'.tip = receipt.pending /\ branch'.on = branch.on
      BY <2>2, <2>4 DEF PubTypes
    <3>2. QED
      BY <2>1, <2>2, <2>4, <3>1
         DEF CalmInv, Meddled, Goes, Blamed, At, Recorded, HasShape, Working
  <2>5. CASE step.head # step.commit /\ branch.tip # receipt.saved
    <3>1. Meddled
      BY <2>1, <2>2, <2>5 DEF CalmInv, At, Recorded
    <3>2. QED  BY <2>1, <3>1 DEF CalmInv, Meddled
  <2>6. QED  BY <1>3, <2>3, <2>4, <2>5, MoveFields
<1>4. CASE LookAtRemote
  BY <1>4, LookFields, CalmGoesOn DEF Goes, RefusedFor, Working, Blamed
<1>5. CASE Push
  <2>1. Reached \in Repositories /\ step.commit \in Histories /\ step.pc = "push"
    BY <1>5, ReachedTyped DEF Push, PlaceInv, Working
  <2>2. /\ step.commit = receipt.pending /\ receipt.pending # <<>>
        /\ ~Meddled => Reached = "authorized" /\ Takes("authorized", step.commit)
    BY <2>1, WorkingCommit, CalmTakes DEF Working
  <2>3. UNCHANGED <<receipt, branch, alias, pulls>> /\ Calm
    BY <1>5, PushFields
  <2>4. CASE /\ Goes("find") \/ Goes("reconcile")
             /\ Land(Reached, step.commit) /\ UNCHANGED late
    <3>1. ~Meddled => /\ remote'["authorized"] = receipt.pending
                      /\ remote'["other"] = remote["other"]
      BY <2>1, <2>2, <2>4, LandAuthorized
    <3>2. step'.pc \in {"find", "reconcile"} /\ Goes(step'.pc)
      BY <2>4 DEF Goes
    <3>3. Meddled' <=> Meddled
      BY <2>3 DEF Calm, Meddled
    <3>4. ~Meddled => At(remote["authorized"])'
      BY <2>2, <2>3, <3>1 DEF At, Recorded
    <3>5. HasShape(receipt.pending, receipt.saved)' <=> HasShape(receipt.pending, receipt.saved)
      BY <2>3 DEF HasShape
    <3>6. At(branch.tip)' <=> At(branch.tip)
      BY <2>3 DEF At, Recorded
    <3>7. UNCHANGED late
      BY <2>4
    <3>8. QED
      BY <2>1, <2>3, <3>1, <3>2, <3>3, <3>4, <3>5, <3>6, <3>7 DEF CalmInv, Goes, Working
  <2>5. CASE ~Takes(Reached, step.commit)
    BY <2>2, <2>3, <2>5 DEF CalmInv, Calm, Meddled
  <2>6. CASE Goes("reconcile") /\ UNCHANGED <<remote, late>>
    BY <2>1, <2>3, <2>6, CalmGoesOn DEF Goes, Working
  <2>7. CASE /\ Goes("reconcile") /\ UNCHANGED remote
             /\ late' = late \union {[repo |-> Reached, commit |-> step.commit]}
    <3>1. ~Meddled => \A p \in late' : p.repo = "authorized"
      BY <2>2, <2>7 DEF CalmInv
    <3>2. QED
      BY <2>1, <2>3, <2>7, <3>1
         DEF CalmInv, Calm, Meddled, Goes, Blamed, At, Recorded, HasShape, Working
  <2>8. QED  BY <1>5, <2>4, <2>5, <2>6, <2>7, PushFields
<1>6. CASE Reconcile
  BY <1>6, ReconcileFields, CalmGoesOn DEF Goes, RefusedFor, Working, Blamed
<1>7. CASE FindPull
  BY <1>7, FindFields, CalmGoesOn DEF Goes, RefusedFor, Working, Blamed
<1>8. CASE CreatePull
  <2>1. /\ step.pc = "create" /\ UNCHANGED <<receipt, branch, alias, remote, late>> /\ Calm
        /\ \/ Goes(step'.pc) /\ step'.pc \in Working \ {"move"}
           \/ RefusedFor("github")
    BY <1>8, CreateFields DEF Goes, Working
  <2>2. ~Meddled => \A i \in DOMAIN pulls' : pulls'[i].repo = "authorized"
    <3>1. CASE UNCHANGED pulls
      BY <3>1 DEF CalmInv
    <3>2. CASE pulls' = Append(pulls, NewPull)
      <4>1. step.api \in Repositories /\ receipt.tree \in Trees
        BY <2>1 DEF PlaceInv, Working, PubTypes, ReceiptType
      <4>2. NewPull \in PullType /\ (~Meddled => NewPull.repo = "authorized")
        BY <2>1, <4>1 DEF NewPull, PullType, CalmInv, Working
      <4>3. \A i \in DOMAIN pulls' : i \in DOMAIN pulls \/ i = Len(pulls')
        BY <3>2, <4>2 DEF PubTypes
      <4>4. QED  BY <3>2, <4>2, <4>3, AppendPull DEF CalmInv
    <3>3. QED  BY <1>8, <3>1, <3>2, CreateFields
  <2>3. QED
    BY <2>1, <2>2
       DEF CalmInv, Calm, Meddled, Goes, RefusedFor, Blamed, At, Recorded, HasShape, Working
<1>9. CASE Rediscover
  BY <1>9, RediscoverFields, CalmGoesOn DEF Goes, RefusedFor, Working, Blamed
<1>10. CASE RefreshPull
  <2>1. /\ step.pc = "refresh" /\ UNCHANGED <<receipt, branch, alias, remote, late>> /\ Calm
        /\ Goes("save") \/ RefusedFor("github")
        /\ pulls' \in {pulls, Refreshed}
    BY <1>10, RefreshFields
  <2>2. ~Meddled => \A i \in DOMAIN pulls' : pulls'[i].repo = "authorized"
    <3>1. step.pull \in DOMAIN pulls
      BY <2>1 DEF PlaceInv
    <3>2. QED  BY <2>1, <3>1, RefreshTyped DEF CalmInv
  <2>3. QED
    BY <2>1, <2>2
       DEF CalmInv, Calm, Meddled, Goes, RefusedFor, Blamed, At, Recorded, HasShape, Working
<1>11. CASE SavePublication
  <2>1. /\ step.pc = "save" /\ Goes("saved")
        /\ UNCHANGED <<branch, alias, remote, pulls, late, bounds>>
    BY <1>11, SaveFields
  <2>2. receipt'.pending = <<>> /\ receipt'.saved = step.commit
    BY <1>11, SaveFields, ReceiptSaved
  <2>3. step.commit = receipt.pending
    BY <2>1, WorkingCommit DEF Working
  <2>4. ~Meddled => remote["authorized"] = receipt.pending /\ branch.tip = receipt.pending
    BY <2>1, CalmAttaching DEF Attaching, CalmInv, Working
  <2>5. QED
    BY <2>1, <2>2, <2>3, <2>4 DEF CalmInv, Meddled, Goes, Blamed, At, Working
<1>12. CASE PullRequestCreated
  <2>1. /\ step'.pc = "created" /\ step'.why = "none"
        /\ UNCHANGED <<receipt, branch, alias, remote, pulls, late, bounds>>
    BY <1>12, CreatedFields
  <2>2. QED  BY <2>1 DEF CalmInv, Meddled, Blamed, At, Recorded, HasShape, Working
<1>13. CASE Repair \/ Retry \/ NewWork
  <2>1. UNCHANGED <<branch, alias, remote, pulls, late>> /\ Restarted
    BY <1>13, AgainFields
  <2>2. CASE Meddled'
    BY <2>2 DEF CalmInv, Meddled
  <2>3. CASE UNCHANGED receipt /\ Calm
    BY <2>1, <2>3, CalmGoesOn DEF Restarted, Blamed
  <2>4. CASE step.pc = "created" /\ Calm
    <3>1. receipt.pending = <<>>
      BY <2>4 DEF RecordInv
    <3>2. receipt'.pending = <<>> /\ receipt'.saved = receipt.saved
      BY <1>13, <3>1, AgainReceipt
    <3>3. QED
      BY <2>1, <2>4, <3>1, <3>2
         DEF CalmInv, Calm, Meddled, Restarted, Blamed, At, Recorded, Working
  <2>5. QED  BY <1>13, <2>2, <2>3, <2>4, AgainFields
<1>14. CASE PushArrives
  <2>1. PICK p \in late : /\ late' = late \ {p}
                          /\ \/ Takes(p.repo, p.commit) /\ Land(p.repo, p.commit)
                             \/ UNCHANGED remote
    BY <1>14, ArrivesFields
  <2>2. UNCHANGED <<receipt, branch, alias, pulls, step, bounds>>
    BY <1>14, ArrivesFields
  <2>3. ~Meddled => At(remote'["authorized"]) /\ remote'["other"] = <<>>
    <3>1. CASE UNCHANGED remote
      BY <3>1 DEF CalmInv
    <3>2. CASE Takes(p.repo, p.commit) /\ Land(p.repo, p.commit)
      <4>1. ~Meddled => p.repo = "authorized" /\ At(p.commit)
        BY <3>2, CalmArrival
      <4>2. p.commit \in Histories
        BY DEF PubTypes
      <4>3. QED  BY <3>2, <4>1, <4>2, LandAuthorized DEF CalmInv
    <3>3. QED  BY <2>1, <3>1, <3>2
  <2>4. QED
    BY <2>1, <2>2, <2>3 DEF CalmInv, Meddled, At, Recorded, HasShape
<1>15. CASE Meddle
  BY <1>15, MeddleFields DEF CalmInv, Meddled
<1>16. CASE UNCHANGED pubVars
  BY <1>16, CalmGoesOn DEF pubVars, Calm
<1>17. QED
  BY <1>1, <1>2, <1>3, <1>4, <1>5, <1>6, <1>7, <1>8, <1>9, <1>10, <1>11, <1>12, <1>13, <1>14,
     <1>15, <1>16 DEF PubNext, Publish

-----------------------------------------------------------------------------
(* The theorems *)

PublicationInv ==
  PubTypes /\ PlaceInv /\ RecordInv /\ RepositoryInv /\ PullInv /\ CalmInv

\* The invariant holds at the start.
LEMMA PublicationInitially == ASSUME PubInit PROVE PublicationInv
<1>1. PubTypes
  BY TypesInitially
<1>2. step.pc = "idle" /\ step.why = "none"
  BY DEF PubInit, Fresh
<1>3. /\ receipt.pending = <<>> /\ receipt.saved = <<>> /\ receipt.url = 0
      /\ alias = "authorized" /\ branch.on /\ branch.tip = <<>> /\ late = {} /\ pulls = <<>>
      /\ remote["authorized"] = <<>> /\ remote["other"] = <<>>
  BY DEF PubInit, Repositories
<1>4. RecordInv /\ PlaceInv /\ PullInv
  BY <1>2, <1>3 DEF RecordInv, PlaceInv, PullInv, Working, Attaching
<1>5. ShownIn("other") = {}
  BY <1>3 DEF ShownIn
<1>6. RepositoryInv
  BY <1>2, <1>3, <1>5 DEF RepositoryInv, StaysInRepository, Working
<1>7. CalmInv
  BY <1>2, <1>3 DEF CalmInv, At, Blamed, Working
<1>8. QED  BY <1>1, <1>4, <1>6, <1>7 DEF PublicationInv

\* Every step keeps the invariant.
LEMMA PublicationKept ==
  ASSUME PublicationInv, [PubNext]_pubVars
  PROVE  PublicationInv'
<1>1. PubTypes /\ PlaceInv /\ RecordInv /\ RepositoryInv /\ PullInv /\ CalmInv
  BY DEF PublicationInv
<1>2. PubTypes' /\ RecordInv' /\ RepositoryInv' /\ PullInv' /\ CalmInv'
  BY <1>1, TypesKept, RecordKept, RepositoryKept, PullKept, CalmKept
<1>3. PlaceInv'
  BY <1>1, <1>2, PlaceKept
<1>4. QED  BY <1>2, <1>3 DEF PublicationInv

\* The invariant holds for good.
LEMMA PublicationInvariant == PubSpec => []PublicationInv
<1>1. PubInit => PublicationInv
  BY PublicationInitially
<1>2. PublicationInv /\ [PubNext]_pubVars => PublicationInv'
  BY PublicationKept
<1>3. QED  BY <1>1, <1>2, PTL DEF PubSpec

\* The work of an authorized run reaches its repository and no other one, and a publication is
\* refused because of what it found only if someone changed that: for any number of trees,
\* published commits, faults, crashes and changes by others.
THEOREM WorkReachesItsRepository ==
  PubSpec => []ReachesOnlyItsRepository
<1>1. PublicationInv => ReachesOnlyItsRepository
  BY DEF PublicationInv, RepositoryInv, CalmInv, ReachesOnlyItsRepository, StaysInRepository,
         RefusesOnlyMeddling, Blamed
<1>2. QED  BY <1>1, PublicationInvariant, PTL

\* Each step of the publication records the commit, shows the recorded one, saves what is
\* shown, or is none of these.
LEMMA PublicationStep ==
  ASSUME PublicationInv, [PubNext]_pubVars
  PROVE  [Steps!PsNext]_(Steps!psVars)
<1>1. PubTypes /\ PlaceInv /\ RecordInv
  BY DEF PublicationInv
<1>2. CASE BuildCommit
  <2>1. Shown' = Shown
    BY <1>1, <1>2, BuildFields, ShownStays
  <2>2. CASE UNCHANGED receipt
    BY <2>1, <2>2 DEF Steps!psVars
  <2>3. CASE ~UNCHANGED receipt
    <3>1. /\ receipt'.pending = Append(receipt.saved, Commit("factory", receipt.tree))
          /\ receipt.pending # <<>> => receipt'.pending = receipt.pending
          /\ receipt' = [receipt EXCEPT !.pending = receipt'.pending]
      BY <1>1, <1>2, <2>3, BuildFields
    <3>2. receipt'.saved = receipt.saved
      BY <1>1, <3>1, ReceiptBuilt
    <3>3. receipt.saved \in Histories /\ receipt.tree \in Trees
      BY <1>1 DEF PubTypes, ReceiptType
    <3>4. receipt'.pending # <<>> /\ Front(receipt'.pending) = receipt.saved
      BY <3>1, <3>3, AppendedCommit
    <3>5. CASE receipt.pending = <<>>
      BY <2>1, <3>2, <3>4, <3>5 DEF Steps!PsNext, Steps!PsRecord, Steps!Front, Front
    <3>6. CASE receipt.pending # <<>>
      BY <2>1, <3>1, <3>2, <3>6 DEF Steps!psVars
    <3>7. QED  BY <3>5, <3>6
  <2>4. QED  BY <2>2, <2>3
<1>3. CASE SavePublication
  <2>1. step.pc = "save" /\ Shown' = Shown
    BY <1>1, <1>3, SaveFields, ShownStays
  <2>2. receipt'.pending = <<>> /\ receipt'.saved = step.commit
    BY <1>1, <1>3, SaveFields, ReceiptSaved
  <2>3. step.commit = receipt.pending /\ receipt.pending \in Shown
    BY <1>1, <2>1, WorkingCommit DEF Working, Attaching, RecordInv
  <2>4. QED  BY <2>1, <2>2, <2>3 DEF Steps!PsNext, Steps!PsSave
<1>4. CASE UNCHANGED <<receipt.pending, receipt.saved>>
  <2>1. CASE Shown' = Shown
    BY <1>4, <2>1 DEF Steps!psVars
  <2>2. CASE receipt.pending # <<>> /\ Shown' = Shown \cup {receipt.pending}
    BY <1>4, <2>2 DEF Steps!PsNext, Steps!PsShow
  <2>3. QED  BY <1>1, <2>1, <2>2, ShownStep
<1>5. CASE Repair \/ Retry \/ NewWork
  BY <1>1, <1>4, <1>5, AgainReceipt
<1>6. CASE UNCHANGED receipt
  BY <1>4, <1>6
<1>7. QED
  BY <1>2, <1>3, <1>5, <1>6 DEF PubNext, Publish, pubVars, Identify, MoveBranch, LookAtRemote,
     Push, Reconcile, FindPull, CreatePull, Rediscover, RefreshPull, PullRequestCreated,
     PushArrives, Meddle

\* The start is one of PublicationSteps.
LEMMA PublicationStart == ASSUME PubInit PROVE Steps!PsInit
<1>1. receipt.pending = <<>> /\ receipt.saved = <<>> /\ \A r \in Repositories : remote[r] = <<>>
  BY DEF PubInit
<1>2. \A r \in Repositories : ShownIn(r) = {}
  BY <1>1 DEF ShownIn
<1>3. QED  BY <1>1, <1>2 DEF Steps!PsInit, Shown

\* The publication implements PublicationSteps: nothing is shown that was not recorded, the
\* recorded commit continues the published history, and nothing counts that was not shown.
THEOREM PublicationKeepsItsOrder ==
  PubSpec => PublishesInOrder
<1>1. PubInit => Steps!PsInit
  BY PublicationStart
<1>2. PublicationInv /\ [PubNext]_pubVars => [Steps!PsNext]_(Steps!psVars)
  BY PublicationStep
<1>3. QED
  BY <1>1, <1>2, PublicationInvariant, PTL DEF PubSpec, PublishesInOrder, Steps!PsSpec

\* A save of an authorized run finds the commit in the authorized repository, and the pull
\* request its own and described by the tree of the commit.
LEMMA SaveIsDescribed ==
  ASSUME PublicationInv, [PubNext]_pubVars
  PROVE  SavesDescribed
<1> SUFFICES ASSUME receipt'.saved # receipt.saved, receipt.authorized
             PROVE  LET pull == pulls[receipt'.url] IN
                      /\ receipt'.saved \in ShownIn("authorized")
                      /\ pull.repo = "authorized" /\ pull.ours /\ ~pull.fork
                      /\ pull.describes = Last(receipt'.saved).tree
  BY DEF SavesDescribed
<1>1. PubTypes /\ PlaceInv /\ RecordInv /\ RepositoryInv /\ PullInv
  BY DEF PublicationInv
<1>2. SavePublication
  <2>1. CASE BuildCommit
    BY <1>1, <2>1, BuildFields, ReceiptBuilt
  <2>2. CASE Repair \/ Retry \/ NewWork
    BY <1>1, <2>2, AgainReceipt
  <2>3. CASE UNCHANGED receipt
    BY <2>3
  <2>4. QED
    BY <2>1, <2>2, <2>3 DEF PubNext, Publish, pubVars, Identify, MoveBranch, LookAtRemote,
       Push, Reconcile, FindPull, CreatePull, Rediscover, RefreshPull, PullRequestCreated,
       PushArrives, Meddle
<1>3. step.pc = "save" /\ receipt'.saved = step.commit /\ receipt'.url = step.pull
  BY <1>1, <1>2, SaveFields, ReceiptSaved
<1>4. /\ step.commit = receipt.pending /\ receipt.pending \in Shown
      /\ receipt.pending = Append(receipt.saved, Commit("factory", receipt.tree))
  BY <1>1, <1>3, WorkingCommit DEF Working, Attaching, RecordInv
<1>5. receipt.pending \in ShownIn("authorized")
  BY <1>1, <1>4 DEF RepositoryInv, StaysInRepository, Shown, Repositories
<1>6. Last(receipt.pending).tree = receipt.tree
  BY <1>1, <1>4, AppendedCommit DEF PubTypes, ReceiptType
<1>7. /\ pulls[step.pull].repo = "authorized" /\ pulls[step.pull].ours /\ ~pulls[step.pull].fork
      /\ pulls[step.pull].describes = receipt.tree
  BY <1>1, <1>3 DEF PullInv, OwnPull
<1>8. QED  BY <1>3, <1>4, <1>5, <1>6, <1>7

\* A push takes the commit of the reviewed tree.
LEMMA PushIsReviewed ==
  ASSUME PublicationInv
  PROVE  PushesReviewed
<1>1. ASSUME step.pc = "push"  PROVE Last(receipt.pending).tree = receipt.tree
  <2>1. receipt.pending = Append(receipt.saved, Commit("factory", receipt.tree))
    BY <1>1, WorkingCommit DEF PublicationInv, Working
  <2>2. QED  BY <2>1, AppendedCommit DEF PublicationInv, PubTypes, ReceiptType
<1>2. QED  BY <1>1 DEF PushesReviewed

\* Reviewed, pushed, described and saved are one tree, whatever is lost or changes in between.
THEOREM ReviewedWorkIsPublished ==
  PubSpec => PublishesWhatWasReviewed
<1>1. PublicationInv /\ [PubNext]_pubVars => SavesDescribed /\ PushesReviewed
  BY SaveIsDescribed, PushIsReviewed
<1>2. QED
  BY <1>1, PublicationInvariant, PTL DEF PubSpec, PublishesWhatWasReviewed

=============================================================================
