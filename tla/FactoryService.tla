--------------------------- MODULE FactoryService ---------------------------
(***************************************************************************)
(* `factory start`: the service loop and its Scheduler on the main thread, *)
(* and the worker threads that drive runs.  The loop recovers persisted    *)
(* runs, then in every cycle resumes interrupted runs, reopens accepted    *)
(* ones, accepts requests of people, stops stalled work and dispatches new *)
(* items.  Between any two steps of the loop the workers move.             *)
(*                                                                         *)
(* Only runs, receipts and requests are on disk.  A crash loses the rest.  *)
(* What a worker does with its run is RunController; here a run is only    *)
(* unfinished, waiting for a person, reopened by one, or finished.         *)
(*                                                                         *)
(* A job is one call of _submit.  Its phases: queued on the executor,      *)
(* started on a thread, driving the run under the workspace lock, hung in  *)
(* an agent call, halted (the outcome is saved, the lock is still held),   *)
(* returned, done (the callback runs), and free again.                     *)
(***************************************************************************)
EXTENDS Integers, Sequences, FiniteSets

CONSTANTS
    Items,          \* tracker items; each has the run of its work item id
    Jobs,           \* jobs that exist at one time
    None,           \* Python's None
    Unattended,     \* items whose runs are unattended (run.unattended, fixed when a run is created)
    MaxConcurrent,  \* scheduler.max_concurrent_tasks, and the threads of the executor
    MaxRunsPerDay,  \* scheduler.max_runs_per_day
    MaxReopens,     \* escalation.max_reopens
    MaxHangs,       \* bound: agent calls that hang until the stall timeout
    MaxFaults,      \* bound: GitHub errors, and resumes that raise
    MaxCrashes      \* bound: crashes of the service process

ASSUME ServiceAssumption ==
    /\ IsFiniteSet(Items) /\ IsFiniteSet(Jobs)
    /\ Unattended \subseteq Items
    /\ MaxConcurrent \in Nat \ {0} /\ MaxRunsPerDay \in Nat \ {0}
    /\ {MaxReopens, MaxHangs, MaxFaults, MaxCrashes} \subseteq Nat
    /\ None \notin Jobs

VARIABLES
    \* on disk: the run of each item, its accepted receipts, and a person's pending request
    run, reopens, request,
    \* on disk: runs ever created per item, and runs and receipts dated today
    created, claimed,
    \* memory of the main thread
    pc, listed, todo, slots, quota,
    \* memory of the service and of the scheduler
    active, escalated, interrupted, handle, runIds, cancels, completion,
    \* the executor and its threads
    job, queue,
    \* history: jobs the stall check stopped, and runs this process drives no more
    stopped, lost,
    \* bounds
    hangs, faults, crashes

disk    == <<run, reopens, request, created, claimed>>
loop    == <<pc, listed, todo, slots, quota>>
service == <<active, escalated, interrupted, handle, runIds, cancels, completion>>
threads == <<job, queue>>
history == <<stopped, lost>>
limits  == <<hangs, faults, crashes>>

vars == <<disk, loop, service, threads, history, limits>>

-----------------------------------------------------------------------------

FreeJob == [item |-> None, kind |-> "none", phase |-> "free"]

Phase(j) == job[j].phase

\* handle.is_done of the run of item i; a handle whose callback ran is None here.
IsDone(i) == handle[i] # None => Phase(handle[i]) = "done"

\* The thread of a job is taken until the job's callback returned.
Busy == {j \in Jobs : Phase(j) \notin {"free", "queued"}}

\* Threads that may stay with their job for longer than the stall timeout.
Driving == {j \in Jobs : Phase(j) \in {"driving", "hung"}}

\* The workspace lock of item i is held by a job other than j.
Locked(i, j) == \E k \in Jobs \ {j} : job[k].item = i /\ Phase(k) \in {"driving", "hung", "halted"}

\* _remaining_daily_quota: runs created today and receipts accepted today.
RemainingQuota == IF claimed < MaxRunsPerDay THEN MaxRunsPerDay - claimed ELSE 0

\* awaits_human, and a reopen is still allowed.
AwaitsHuman(i) == run[i] = "waiting" /\ reopens[i] < MaxReopens

NotListed == [i \in Items |-> "none"]

Init ==
    /\ run = [i \in Items |-> "none"] /\ reopens = [i \in Items |-> 0]
    /\ request = [i \in Items |-> FALSE] /\ created = [i \in Items |-> 0] /\ claimed = 0
    /\ pc = "recover" /\ listed = NotListed /\ todo = {} /\ slots = 0 /\ quota = 0
    /\ active = {} /\ escalated = {} /\ interrupted = {}
    /\ handle = [i \in Items |-> None] /\ runIds = handle
    /\ cancels = {} /\ completion = FALSE
    /\ job = [j \in Jobs |-> FreeJob] /\ queue = <<>>
    /\ stopped = {} /\ lost = {}
    /\ hangs = 0 /\ faults = 0 /\ crashes = 0

-----------------------------------------------------------------------------
(* _submit and the reservations of the scheduler *)

\* Mutant of ClearCancel: a stop request of an earlier dispatch stays.
KeepCancel(i) == UNCHANGED cancels

ClearCancel(i) == cancels' = cancels \ {i}

\* _submit for item i.
Submit(i, kind) ==
    \E j \in Jobs :
        /\ Phase(j) = "free"
        /\ ClearCancel(i)
        /\ handle' = [handle EXCEPT ![i] = j]
        /\ runIds' = [runIds EXCEPT ![i] = j]
        /\ job' = [job EXCEPT ![j] = [item |-> i, kind |-> kind, phase |-> "queued"]]
        /\ queue' = Append(queue, j)

\* _dispatch_existing_run: the job shares the slots and the stall check of the scheduler.
DispatchExistingRun(i, kind) ==
    /\ Submit(i, kind)
    /\ active' = active \cup {i}
    /\ escalated' = escalated \ {i}
    /\ slots' = slots - 1

\* The step pc of the loop ends, and the next one handles the items of set.
NextStep(step, set) ==
    /\ pc' = step
    /\ todo' = set
    /\ UNCHANGED <<listed, slots, quota>>

\* A part of the cycle returns; its listing and its budget are local to it.
ReturnTo(step) ==
    /\ pc' = step
    /\ todo' = {} /\ listed' = NotListed /\ slots' = 0 /\ quota' = 0

Skip(i) == todo' = todo \ {i}

-----------------------------------------------------------------------------
(* The main thread: recover, then one cycle after the other *)

\* recover: unattended runs are kept to resume, every other unfinished run waits for a person,
\* here without a way to resume, and its item is excluded.
Recover ==
    /\ pc = "recover"
    /\ LET unfinished == {i \in Items : run[i] = "working"}
           abandoned  == unfinished \ Unattended
       IN  /\ interrupted' = unfinished \cap Unattended
           /\ run' = [i \in Items |-> IF i \in abandoned THEN "finished" ELSE run[i]]
           /\ escalated' = abandoned
    /\ NextStep("begin", {})
    /\ UNCHANGED <<reopens, request, created, claimed, active, handle, runIds, cancels, completion,
                   threads, history, limits>>

\* The completion event is cleared before the runs are read.
BeginCycle ==
    /\ pc = "begin"
    /\ completion' = FALSE
    /\ NextStep("list", {})
    /\ UNCHANGED <<disk, active, escalated, interrupted, handle, runIds, cancels,
                   threads, history, limits>>

\* The slots of a _CycleBudget: jobs that are not done, of whatever run.
FreeSlots == MaxConcurrent - Cardinality({i \in Items : ~IsDone(i)})

\* reconcile_escalation lists the runs once, settles the requests of runs that do not wait,
\* and computes what the cycle may dispatch.
ListRuns ==
    /\ pc = "list"
    /\ listed' = run
    /\ request' = [i \in Items |-> request[i] /\ run[i] = "waiting"]
    /\ slots' = FreeSlots
    /\ quota' = RemainingQuota
    /\ todo' = interrupted
    /\ pc' = "resume"
    /\ UNCHANGED <<run, reopens, created, claimed, service, threads, history, limits>>

\* Mutant of ReopenPending: only a reply of this cycle starts a reopen.
NothingReopened == {}

ReopenPending == {i \in Items : listed[i] = "reopened"}

\* _dispatch_interrupted_runs: a slot each and no quota; the run is forgotten first.
ResumeInterrupted ==
    /\ pc = "resume"
    /\ \/ /\ todo = {} \/ slots <= 0
          /\ NextStep("reopen", ReopenPending)
          /\ UNCHANGED <<service, threads>>
       \/ \E i \in todo :
             /\ Skip(i)
             /\ UNCHANGED <<pc, listed, quota>>
             /\ \/ ~IsDone(i) /\ UNCHANGED <<slots, service, threads>>
                \/ /\ IsDone(i) /\ slots > 0
                   /\ interrupted' = interrupted \ {i}
                   /\ DispatchExistingRun(i, "resume")
                   /\ UNCHANGED completion
    /\ UNCHANGED <<disk, history, limits>>

\* _dispatch_reopened_runs: a receipt accepted earlier already counted against the quota.
ReopenAccepted ==
    /\ pc = "reopen"
    /\ \/ /\ todo = {} \/ slots <= 0
          /\ NextStep("ingest", {i \in Items : listed[i] = "waiting" /\ request[i]})
          /\ UNCHANGED <<service, threads>>
       \/ \E i \in todo :
             /\ Skip(i)
             /\ UNCHANGED <<pc, listed, quota>>
             /\ slots > 0
             /\ \/ ~IsDone(i) /\ UNCHANGED <<slots, service, threads>>
                \/ /\ IsDone(i)
                   /\ DispatchExistingRun(i, "reopen")
                   /\ UNCHANGED <<interrupted, completion>>
    /\ UNCHANGED <<disk, history, limits>>

\* Mutant of HasRoom: requests are accepted without daily quota.
HasSlot == slots > 0

HasRoom == slots > 0 /\ quota > 0

\* _ingest_dashboard_requests and _poll_replies: the receipt is saved, then the run is dispatched,
\* with a slot and quota.  The thread that halted the run may still hold its workspace.
AcceptRequests ==
    /\ pc = "ingest"
    /\ \/ /\ todo = {} \/ ~HasRoom
          /\ ReturnTo("tick")
          /\ UNCHANGED <<run, reopens, request, claimed, service, threads>>
       \/ \E i \in todo :
             /\ HasRoom
             /\ Skip(i)
             /\ UNCHANGED <<pc, listed>>
             /\ \/ /\ ~(AwaitsHuman(i) /\ request[i])
                   /\ UNCHANGED <<run, reopens, request, claimed, slots, quota, service, threads>>
                \/ /\ AwaitsHuman(i) /\ request[i]
                   /\ run' = [run EXCEPT ![i] = "reopened"]
                   /\ reopens' = [reopens EXCEPT ![i] = @ + 1]
                   /\ request' = [request EXCEPT ![i] = FALSE]
                   /\ claimed' = claimed + 1
                   /\ quota' = quota - 1
                   /\ DispatchExistingRun(i, "reopen")
                   /\ UNCHANGED <<interrupted, completion>>
    /\ UNCHANGED <<created, history, limits>>

\* tick begins with _reconcile_active: finished work frees its reservation, and work without
\* activity for the stall timeout is stalled.  A queued job has none while every thread drives a
\* run; a thread that is about to be free again takes the job long before that.
ReconcileActive ==
    /\ pc = "tick"
    /\ active' = {i \in active : ~IsDone(i)}
    /\ \E waited \in SUBSET {i \in active' : Phase(handle[i]) = "queued"
                                              /\ Cardinality(Driving) = MaxConcurrent} :
           NextStep("stall", waited \cup {i \in active' : Phase(handle[i]) = "hung"})
    /\ UNCHANGED <<disk, escalated, interrupted, handle, runIds, cancels, completion,
                   threads, history, limits>>

\* future.cancel stops a job only while it is queued; its callback then runs at once.
CancelQueued(i) ==
    /\ Phase(handle[i]) = "queued"
    /\ queue' = SelectSeq(queue, LAMBDA j : j # handle[i])
    /\ job' = [job EXCEPT ![handle[i]] = FreeJob]
    /\ handle' = [handle EXCEPT ![i] = None]
    /\ runIds' = [runIds EXCEPT ![i] = None]
    /\ completion' = TRUE
    /\ UNCHANGED <<cancels, history>>

\* _on_stall finds the run of the item, and its work is not done yet.
StopsAgent(i) == runIds[i] # None /\ ~IsDone(i)

\* _handle_stall: the reservation ends and the item is excluded; _on_stall stops the agent.
HandleStall ==
    /\ pc = "stall"
    /\ \/ /\ todo = {}
          /\ NextStep(IF Cardinality(active) >= MaxConcurrent THEN "wait" ELSE "claim", {})
          /\ UNCHANGED <<service, threads, history>>
       \/ \E i \in todo :
             /\ Skip(i)
             /\ active' = active \ {i}
             /\ escalated' = escalated \cup {i}
             /\ \/ handle[i] # None /\ CancelQueued(i)
                \/ /\ handle[i] # None => Phase(handle[i]) # "queued"
                   /\ IF StopsAgent(i)
                      THEN cancels' = cancels \cup {i} /\ stopped' = stopped \cup {handle[i]}
                      ELSE UNCHANGED <<cancels, stopped>>
                   /\ lost' = IF ~StopsAgent(i) /\ ~IsDone(i) THEN lost \cup {i} ELSE lost
                   /\ UNCHANGED <<handle, runIds, completion, threads>>
             /\ UNCHANGED <<pc, listed, slots, quota, interrupted>>
    /\ UNCHANGED <<disk, limits>>

\* _is_eligible, with any persisted run of the work item excluding it.
Eligible(i) == i \notin active /\ i \notin escalated /\ run[i] = "none"

\* Mutant of ClaimBatch: the completion event is cleared after the finished work was reconciled.
ClaimAndClear ==
    /\ pc = "claim"
    /\ quota' = RemainingQuota
    /\ todo' = {i \in Items : Eligible(i)}
    /\ pc' = "dispatch"
    /\ completion' = FALSE
    /\ UNCHANGED <<disk, listed, slots, active, escalated, interrupted, handle, runIds, cancels,
                   threads, history, limits>>

\* tick goes on with the candidates: persisted runs and the quota are read once more right
\* before the batch is dispatched.
ClaimBatch ==
    /\ pc = "claim"
    /\ quota' = RemainingQuota
    /\ todo' = {i \in Items : Eligible(i)}
    /\ pc' = "dispatch"
    /\ UNCHANGED <<disk, listed, slots, service, threads, history, limits>>

DispatchNew ==
    /\ pc = "dispatch"
    /\ \/ /\ todo = {} \/ quota = 0 \/ Cardinality(active) >= MaxConcurrent
          /\ ReturnTo("wait")
          /\ UNCHANGED <<service, threads>>
       \/ \E i \in todo :
             /\ quota > 0 /\ Cardinality(active) < MaxConcurrent
             /\ Skip(i)
             /\ active' = active \cup {i}
             /\ Submit(i, "fresh")
             /\ quota' = quota - 1
             /\ UNCHANGED <<pc, listed, slots, escalated, interrupted, completion>>
    /\ UNCHANGED <<disk, history, limits>>

\* A GitHub error ends the cycle; the next one follows after the poll interval.
CycleFails ==
    /\ pc \in {"list", "ingest", "claim"}
    /\ faults < MaxFaults
    /\ faults' = faults + 1
    /\ ReturnTo("wait")
    /\ UNCHANGED <<disk, service, threads, history, hangs, crashes>>

\* The next cycle begins when work completed, or when polling is due.
Wake ==
    /\ pc = "wait"
    /\ NextStep("begin", {})
    /\ UNCHANGED <<disk, service, threads, history, limits>>

-----------------------------------------------------------------------------
(* The worker threads *)

\* Mutant of Requeue: an interrupted run is left to the next restart of the service.
LeaveToRestart(i) == UNCHANGED interrupted

\* The run continues in a later cycle, under the same run id.
Requeue(i) == interrupted' = interrupted \cup {i}

Becomes(j, phase) == job' = [job EXCEPT ![j].phase = phase]

\* A free thread takes the oldest job, unless it was cancelled (set_running_or_notify_cancel).
Start(j) ==
    /\ queue # <<>> /\ Head(queue) = j /\ Phase(j) = "queued"
    /\ Cardinality(Busy) < MaxConcurrent
    /\ queue' = Tail(queue)
    /\ Becomes(j, "started")
    /\ UNCHANGED <<disk, loop, service, history, limits>>

\* controller.run: under the workspace lock the new run is persisted.  When another job holds
\* the lock the outcome is a failed run that is not persisted.
CreateRun(j) ==
    LET i == job[j].item
    IN  /\ Phase(j) = "started" /\ job[j].kind = "fresh"
        /\ IF Locked(i, j)
           THEN Becomes(j, "returned") /\ UNCHANGED <<run, created, claimed>>
           ELSE /\ Becomes(j, "driving")
                /\ run' = [run EXCEPT ![i] = "working"]
                /\ created' = [created EXCEPT ![i] = @ + 1]
                /\ claimed' = claimed + 1
        /\ UNCHANGED <<reopens, request, loop, service, queue, history, limits>>

\* controller.reopen: without the lock it raises, and a run that was reopened meanwhile is returned
\* as it is.  Either way the job is over.
ReopenRun(j) ==
    LET i == job[j].item
    IN  /\ Phase(j) = "started" /\ job[j].kind = "reopen"
        /\ IF Locked(i, j) \/ run[i] # "reopened"
           THEN Becomes(j, "returned") /\ UNCHANGED run
           ELSE Becomes(j, "driving") /\ run' = [run EXCEPT ![i] = "working"]
        /\ UNCHANGED <<reopens, request, created, claimed, loop, service, queue, history, limits>>

\* _execute_resume: a locked workspace or a GitHub error queues the run again, any other
\* exception than the listed ones, such as TransitionError, leaves it to the next restart.
ResumeRun(j) ==
    LET i == job[j].item
    IN  /\ Phase(j) = "started" /\ job[j].kind = "resume"
        /\ \/ /\ run[i] # "working"
              /\ Becomes(j, "returned")
              /\ UNCHANGED <<interrupted, lost, faults>>
           \/ /\ run[i] = "working" /\ Locked(i, j)
              /\ Becomes(j, "returned")
              /\ Requeue(i)
              /\ UNCHANGED <<lost, faults>>
           \/ /\ run[i] = "working" /\ ~Locked(i, j)
              /\ Becomes(j, "driving")
              /\ UNCHANGED <<interrupted, lost, faults>>
           \/ /\ run[i] = "working" /\ ~Locked(i, j) /\ faults < MaxFaults
              /\ faults' = faults + 1
              /\ Becomes(j, "returned")
              /\ \/ Requeue(i) /\ UNCHANGED lost
                 \/ lost' = lost \cup {i} /\ UNCHANGED interrupted
        /\ UNCHANGED <<disk, loop, active, escalated, handle, runIds, cancels, completion,
                       queue, stopped, hangs, crashes>>

\* The controller saves the outcome of the run and still holds the workspace.
Halt(j) ==
    /\ Phase(j) = "driving"
    /\ Becomes(j, "halted")
    /\ run' \in {[run EXCEPT ![job[j].item] = s] : s \in {"waiting", "finished"}}
    /\ UNCHANGED <<reopens, request, created, claimed, loop, service, queue, history, limits>>

\* An agent call hangs, and may still come back by itself.
Hang(j) ==
    /\ Phase(j) = "driving"
    /\ hangs < MaxHangs
    /\ hangs' = hangs + 1
    /\ Becomes(j, "hung")
    /\ UNCHANGED <<disk, loop, service, queue, history, faults, crashes>>

ComeBack(j) ==
    /\ Phase(j) = "hung"
    /\ Becomes(j, "driving")
    /\ UNCHANGED <<disk, loop, service, queue, history, limits>>

\* RunCancelledError releases the lock; _settle_stalled_run queues an unattended run to
\* continue and stops any other run for a person.
RunStopped(j) ==
    LET i == job[j].item
    IN  /\ Phase(j) \in {"driving", "hung"} /\ i \in cancels
        /\ Becomes(j, "returned")
        /\ cancels' = cancels \ {i}
        /\ IF i \in Unattended
           THEN Requeue(i) /\ UNCHANGED run
           ELSE run' = [run EXCEPT ![i] = "finished"] /\ UNCHANGED interrupted
        /\ UNCHANGED <<reopens, request, created, claimed, loop, active, escalated, handle, runIds,
                       completion, queue, history, limits>>

\* The job releases its workspace and forgets a stop request that came too late.
Return(j) ==
    /\ Phase(j) = "halted"
    /\ Becomes(j, "returned")
    /\ cancels' = cancels \ {job[j].item}
    /\ UNCHANGED <<disk, loop, active, escalated, interrupted, handle, runIds, completion,
                   queue, history, limits>>

Complete(j) ==
    /\ Phase(j) = "returned"
    /\ Becomes(j, "done")
    /\ UNCHANGED <<disk, loop, service, queue, history, limits>>

\* _on_done: jobs of one persisted run share its run id, two new runs do not.
OnDone(j) ==
    LET i == job[j].item
        same == runIds[i] = j \/ (runIds[i] # None /\ job[runIds[i]].kind # "fresh")
    IN  /\ Phase(j) = "done"
        /\ runIds' = IF same THEN [runIds EXCEPT ![i] = None] ELSE runIds
        /\ handle' = IF handle[i] = j THEN [handle EXCEPT ![i] = None] ELSE handle
        /\ completion' = TRUE
        /\ job' = [job EXCEPT ![j] = FreeJob]
        /\ stopped' = stopped \ {j}
        /\ UNCHANGED <<disk, loop, active, escalated, interrupted, cancels, queue, lost, limits>>

-----------------------------------------------------------------------------
(* People, the calendar and crashes *)

\* A reply or a dashboard request for a run that waits.
Request(i) ==
    /\ AwaitsHuman(i) /\ ~request[i]
    /\ request' = [request EXCEPT ![i] = TRUE]
    /\ UNCHANGED <<run, reopens, created, claimed, loop, service, threads, history, limits>>

NewDay ==
    /\ claimed > 0
    /\ claimed' = 0
    /\ UNCHANGED <<run, reopens, request, created, loop, service, threads, history, limits>>

Crash ==
    /\ crashes < MaxCrashes
    /\ crashes' = crashes + 1
    /\ ReturnTo("recover")
    /\ active' = {} /\ escalated' = {} /\ interrupted' = {}
    /\ handle' = [i \in Items |-> None] /\ runIds' = handle'
    /\ cancels' = {} /\ completion' = FALSE
    /\ job' = [j \in Jobs |-> FreeJob] /\ queue' = <<>>
    /\ stopped' = {} /\ lost' = {}
    /\ UNCHANGED <<disk, hangs, faults>>

-----------------------------------------------------------------------------
(* The specification *)

MainThread ==
    \/ Recover \/ BeginCycle \/ ListRuns \/ ResumeInterrupted \/ ReopenAccepted \/ AcceptRequests
    \/ ReconcileActive \/ HandleStall \/ ClaimBatch \/ DispatchNew \/ Wake

Worker(j) ==
    \/ Start(j) \/ CreateRun(j) \/ ReopenRun(j) \/ ResumeRun(j) \/ Halt(j) \/ RunStopped(j)
    \/ Return(j) \/ Complete(j) \/ OnDone(j)

Environment ==
    \/ CycleFails \/ NewDay \/ Crash
    \/ \E i \in Items : Request(i)
    \/ \E j \in Jobs : Hang(j) \/ ComeBack(j)

Next == MainThread \/ (\E j \in Jobs : Worker(j)) \/ Environment

\* The loop polls for ever, every thread that is not hung goes on, and days pass.
Fairness ==
    /\ WF_vars(MainThread)
    /\ \A j \in Jobs : WF_vars(Worker(j))
    /\ WF_vars(NewDay)

Spec == Init /\ [][Next]_vars
FairSpec == Spec /\ Fairness

-----------------------------------------------------------------------------
(* Properties *)

TypeOK ==
    /\ run \in [Items -> {"none", "working", "waiting", "reopened", "finished"}]
    /\ reopens \in [Items -> Nat] /\ request \in [Items -> BOOLEAN]
    /\ created \in [Items -> Nat] /\ claimed \in Nat
    /\ pc \in {"recover", "begin", "list", "resume", "reopen", "ingest", "tick", "stall", "claim",
               "dispatch", "wait"}
    /\ listed \in [Items -> {"none", "working", "waiting", "reopened", "finished"}]
    /\ todo \subseteq Items /\ slots \in Int /\ quota \in Nat
    /\ active \subseteq Items /\ escalated \subseteq Items /\ interrupted \subseteq Items
    /\ handle \in [Items -> Jobs \cup {None}] /\ runIds \in [Items -> Jobs \cup {None}]
    /\ cancels \subseteq Items /\ completion \in BOOLEAN
    /\ job \in [Jobs -> [item : Items \cup {None}, kind : {"none", "fresh", "resume", "reopen"},
                         phase : {"free", "queued", "started", "driving", "hung", "halted",
                                  "returned", "done"}]]
    /\ queue \in Seq(Jobs)
    /\ stopped \subseteq Jobs /\ lost \subseteq Items
    /\ hangs \in Nat /\ faults \in Nat /\ crashes \in Nat

\* An unfinished run is never forgotten: it is queued to continue, or a job drives it or is about
\* to.  The exceptions are resumes that raised and stalls that stopped nobody (lost).  This is so
\* with one task at a time; with two, a reopen of a stale listing and a second reply let a run be
\* driven that no handle names, and the slots that are free no longer bound the queue.
UnfinishedRunsAreHeld ==
    pc # "recover" =>
        \A i \in Items : run[i] = "working" =>
            \/ i \in interrupted \cup lost
            \/ \E j \in Jobs : /\ job[j].item = i
                             /\ Phase(j) \in {"queued", "started", "driving", "hung"}

\* A stop request belongs to one dispatch: it never stops a later job of the same run
\* (clear_cancel in _submit and in _supervise).
StopsItsOwnJob ==
    \A j \in Jobs : Phase(j) \in {"driving", "hung"} /\ job'[j].phase = "returned"
        => j \in stopped

\* The stall check stops no job of a persisted run in the queue: its run would be left to the
\* next restart ("It never queues a run behind the stall check", ADR-043).
CancelsNoResume ==
    \A j \in Jobs : Phase(j) = "queued" /\ job'[j].phase = "free" /\ crashes' = crashes
        => job[j].kind = "fresh"

\* The stall check ends what has stalled and nothing else.
StopsOnlyStalledJobs == [][StopsItsOwnJob /\ CancelsNoResume]_vars

\* A completion that races with tick is not lost (run_forever): while the loop waits, finished
\* work that still holds its reservation has set the event or is about to.  Only a cycle that a
\* GitHub error ended may miss it.
CompletionIsNotLost ==
    pc = "wait" /\ faults = 0 => \A i \in active : handle[i] = None => completion

\* The daily quota counts persisted runs (_remaining_daily_quota), so dispatched runs that are not
\* persisted yet are overlooked.  Reservations bound them: fewer than MaxConcurrent hold one, and
\* of those whose reservation the stall check ended at most MaxConcurrent have a thread, because
\* future.cancel takes the queued ones back.
QuotaOverrunIsBounded == claimed <= MaxRunsPerDay + MaxConcurrent + (MaxConcurrent - 1)

\* Every unfinished run comes to an end or waits, unless it is lost or the service stops.
RunsSettle == \A i \in Items : run[i] = "working" ~> (run[i] # "working" \/ lost # {})

\* An accepted reply is acted on, and a request is settled, unless a lost thread holds the slot.
RequestsSettle ==
    \A i \in Items : (request[i] \/ run[i] = "reopened")
                        ~> ((~request[i] /\ run[i] # "reopened") \/ lost # {})

\* No run, no accepted reply and no request is forgotten.
WorkSettles == RunsSettle /\ RequestsSettle

(* Promises of comments that the code does not keep; each is refuted by its own run. *)

\* _on_stall stops the stalled run's agent, and its own thread then settles the run.
StallStopsAgent ==
    [][\A i \in Items : pc = "stall" /\ i \in todo /\ i \notin todo' /\ pc' = "stall"
                         /\ handle[i] # None /\ Phase(handle[i]) = "hung"
            => i \in cancels']_vars

=============================================================================
