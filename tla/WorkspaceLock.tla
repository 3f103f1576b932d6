---------------------------- MODULE WorkspaceLock ----------------------------
(***************************************************************************)
(* The lock of one workspace (GitWorktreeWorkspace.acquire_lock and         *)
(* release_lock in workspace.py): an flock on a file that its owner unlinks *)
(* before it lets go, and that every acquirer creates when it is missing.   *)
(* A process may therefore lock a file that the path no longer names; it    *)
(* compares the two before it believes the lock.                            *)
(*                                                                          *)
(* Every system call is a step of its own.  A crash closes the descriptor,  *)
(* and the kernel drops the flock with it.                                  *)
(***************************************************************************)
EXTENDS Naturals

CONSTANTS Process,   \* the runs, resumes and commands that want the workspace
          Inode,     \* the files the path may name, reused once nobody has them open
          Retries,   \* _LOCK_ACQUIRE_RETRIES
          None

ASSUME LockAssumption ==
  /\ None \notin Process \cup Inode
  /\ Retries \in Nat \ {0}

VARIABLES path,    \* the file that lock_path names, None when there is none
          flock,   \* who holds the flock of each file
          fd,      \* the file each process has open
          stage,    \* where each process is
          tries    \* the attempts of this acquire_lock that found a replaced file

lockVars == <<path, flock, fd, stage, tries>>

Stages == {"idle", "again", "opened", "locked", "owner", "unlinking", "unlocking"}

LockTypeOK ==
  /\ path \in Inode \cup {None}
  /\ flock \in [Inode -> Process \cup {None}]
  /\ fd \in [Process -> Inode \cup {None}]
  /\ stage \in [Process -> Stages]
  /\ tries \in [Process -> Nat]

LockInit ==
  /\ path = None
  /\ flock = [i \in Inode |-> None]
  /\ fd = [p \in Process |-> None]
  /\ stage = [p \in Process |-> "idle"]
  /\ tries = [p \in Process |-> 0]

To(p, next) == stage' = [stage EXCEPT ![p] = next]

\* The descriptor is closed, and its flock goes with it.
Close(p) ==
  /\ flock' = [i \in Inode |-> IF flock[i] = p THEN None ELSE flock[i]]
  /\ fd' = [fd EXCEPT ![p] = None]

StillNamed(p) == path = fd[p]

-----------------------------------------------------------------------------
(* acquire_lock *)

\* os.open with O_CREAT: the file of the path, or a new one.
Open(p) ==
  /\ stage[p] \in {"idle", "again"}
  /\ \/ path # None /\ UNCHANGED path
     \/ path = None /\ path' \in Inode \ {fd[q] : q \in Process}
  /\ fd' = [fd EXCEPT ![p] = path']
  /\ To(p, "opened") /\ UNCHANGED <<flock, tries>>

\* LOCK_NB got the lock.
Lock(p) ==
  /\ stage[p] = "opened" /\ flock[fd[p]] = None
  /\ flock' = [flock EXCEPT ![fd[p]] = p]
  /\ To(p, "locked") /\ UNCHANGED <<path, fd, tries>>

\* WorkspaceLockError: somebody else has it.
Refused(p) ==
  /\ stage[p] = "opened" /\ flock[fd[p]] # None
  /\ Close(p)
  /\ To(p, "idle") /\ tries' = [tries EXCEPT ![p] = 0] /\ UNCHANGED path

\* The locked file is the file of the path, and the owner writes its pid there.
Own(p) ==
  /\ stage[p] = "locked" /\ StillNamed(p)
  /\ To(p, "owner") /\ tries' = [tries EXCEPT ![p] = 0]
  /\ UNCHANGED <<path, flock, fd>>

\* The pid could not be written.
WriteFails(p) ==
  /\ stage[p] = "locked" /\ StillNamed(p)
  /\ Close(p)
  /\ To(p, "idle") /\ tries' = [tries EXCEPT ![p] = 0] /\ UNCHANGED path

\* The file was replaced: lock the one that is there now, a few times.
Replaced(p) ==
  /\ stage[p] = "locked" /\ ~StillNamed(p)
  /\ Close(p) /\ UNCHANGED path
  /\ IF tries[p] + 1 < Retries
       THEN To(p, "again") /\ tries' = [tries EXCEPT ![p] = @ + 1]
       ELSE To(p, "idle") /\ tries' = [tries EXCEPT ![p] = 0]

-----------------------------------------------------------------------------
(* release_lock *)

\* A bug: the flock is dropped before the file is unlinked.
LetsGoFirst(p) ==
  /\ stage[p] = "owner"
  /\ To(p, IF StillNamed(p) THEN "unlinking" ELSE "unlocking")
  /\ flock' = [flock EXCEPT ![fd[p]] = None]
  /\ UNCHANGED <<path, fd, tries>>

LetGo(p) ==
  /\ stage[p] = "owner"
  /\ To(p, IF StillNamed(p) THEN "unlinking" ELSE "unlocking")
  /\ UNCHANGED <<path, flock, fd, tries>>

\* An unlink that fails is ignored.
Unlink(p) ==
  /\ stage[p] = "unlinking"
  /\ path' \in {None, path}
  /\ To(p, "unlocking") /\ UNCHANGED <<flock, fd, tries>>

Unlock(p) ==
  /\ stage[p] = "unlocking"
  /\ Close(p)
  /\ To(p, "idle") /\ UNCHANGED <<path, tries>>

\* The process ends anywhere.
Die(p) ==
  /\ stage[p] # "idle"
  /\ Close(p)
  /\ To(p, "idle") /\ tries' = [tries EXCEPT ![p] = 0] /\ UNCHANGED path

LockNext ==
  \E p \in Process :
    Open(p) \/ Lock(p) \/ Refused(p) \/ Own(p) \/ WriteFails(p) \/ Replaced(p)
    \/ LetGo(p) \/ Unlink(p) \/ Unlock(p) \/ Die(p)

LockSpec == LockInit /\ [][LockNext]_lockVars

-----------------------------------------------------------------------------
(* Properties *)

Owners == {p \in Process : stage[p] = "owner"}

\* Two runs never own one workspace, although an owner unlinks the file that
\* others have open and a crash leaves it behind (acquire_lock and release_lock
\* in workspace.py).
OneOwner == \A p, q \in Owners : p = q

\* Seen from outside, the file, its flock and its unlinking are a lock: it goes
\* from one owner to none and from none to one (workspace.py's locking).
Lk == INSTANCE Exclusion WITH owners <- Owners
IsALock == Lk!ExSpec

\* What keeps it so: whoever passed flock holds it, and whoever is the owner
\* or about to unlink has the very file that the path names.
HoldsFlock ==
  \A p \in Process :
    stage[p] \in {"locked", "owner", "unlinking", "unlocking"} =>
      fd[p] \in Inode /\ flock[fd[p]] = p
HasFile == \A p \in Process : stage[p] = "opened" => fd[p] \in Inode
OwnsPath == \A p \in Process : stage[p] \in {"owner", "unlinking"} => path = fd[p]

LockInv == LockTypeOK /\ HoldsFlock /\ HasFile /\ OwnsPath

=============================================================================
