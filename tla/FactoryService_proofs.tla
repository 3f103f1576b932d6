----------------------- MODULE FactoryService_proofs -----------------------
(***************************************************************************)
(* Proofs about `factory start`, for any items, jobs and limits.           *)
(*                                                                         *)
(* ServiceInv is inductive: a run that is not persisted yet has one job,   *)
(* the one its item's handle names, and the loop remembers nothing of an   *)
(* item without a run.  On it rest the bound of the daily quota, which     *)
(* counts the jobs that will still claim, and the completion event.        *)
(*                                                                         *)
(* OneTaskInv is inductive when one task runs at a time, the default of    *)
(* max_concurrent_tasks: then a free slot means that no job is live, so a  *)
(* job of a persisted run never waits behind another one.  With two tasks  *)
(* a reopen dispatched from a stale listing breaks it.                     *)
(*                                                                         *)
(* The proofs speak of steps in fields (StepKind) and never of the queue:  *)
(* Start takes a queued job, and nothing here depends on which one.        *)
(***************************************************************************)
EXTENDS FactoryService, FiniteSetTheorems, TLAPS

-----------------------------------------------------------------------------
(* The invariants                                                          *)

RunStates == {"none", "working", "waiting", "reopened", "finished"}

Steps == {"recover", "begin", "list", "resume", "reopen", "ingest", "tick", "stall", "claim",
          "dispatch", "wait"}

JobRecords == [item : Items \cup {None}, kind : {"none", "fresh", "resume", "reopen"},
               phase : {"free", "queued", "started", "driving", "hung", "halted",
                        "returned", "done"}]

\* The part of TypeOK that the proofs need.
Types ==
    /\ run \in [Items -> RunStates] /\ listed \in [Items -> RunStates]
    /\ pc \in Steps /\ todo \subseteq Items /\ slots \in Int /\ quota \in Nat /\ claimed \in Nat
    /\ active \subseteq Items /\ escalated \subseteq Items /\ interrupted \subseteq Items
    /\ handle \in [Items -> Jobs \cup {None}]
    /\ job \in [Jobs -> JobRecords]
    /\ faults \in Nat /\ completion \in BOOLEAN

\* A job that is not free has an item, and a handle belongs to a job of its item.
Handles ==
    /\ \A j \in Jobs : Phase(j) # "free" => job[j].item \in Items
    /\ \A i \in Items : handle[i] # None => job[handle[i]].item = i /\ Phase(handle[i]) # "free"
    /\ pc = "recover" => \A j \in Jobs : Phase(j) = "free"

\* A job of a new run that is not persisted yet.
Fresh(j) == job[j].kind = "fresh" /\ Phase(j) \in {"queued", "started"}

\* A run that is not persisted yet has one job, and the scheduler remembers its item.
FreshJobs ==
    \A j \in Jobs : Fresh(j) =>
        /\ run[job[j].item] = "none"
        /\ handle[job[j].item] = j
        /\ job[j].item \in active \cup escalated
        /\ Phase(j) = "queued" => job[j].item \in active

\* What the loop and the threads know of an item that has no run.
UnbornRuns ==
    /\ \A i \in Items : run[i] = "none" =>
        /\ i \notin interrupted
        /\ listed[i] = "none"
        /\ pc \in {"resume", "reopen", "ingest"} => i \notin todo
    /\ \A j \in Jobs : Phase(j) \in {"driving", "hung", "halted"} => run[job[j].item] # "none"
    /\ pc = "dispatch" => \A i \in todo : Eligible(i)

\* What holds with any number of tasks.
ServiceInv == Types /\ Handles /\ FreshJobs /\ UnbornRuns

\* Jobs that will still claim a run of the day.
Pending == {j \in Jobs : Fresh(j)}

\* What the part of the cycle that runs may still dispatch.
Room == IF pc = "dispatch" \/ slots > 0 THEN quota ELSE 0

\* Claims, jobs that will claim and room for more.
QuotaInv ==
    /\ Cardinality(Busy) <= MaxConcurrent
    /\ pc = "claim" => Cardinality(active) < MaxConcurrent
    /\ claimed + Cardinality(Pending) + Room <= MaxRunsPerDay + MaxConcurrent + (MaxConcurrent - 1)

\* From the reconciliation on, finished work with a reservation has set the event.
CompletionInv ==
    faults = 0 /\ pc \in {"stall", "claim", "dispatch", "wait"} =>
        \A i \in active : handle[i] = None => completion

\* A job that drives its run or is about to.
Live(j) == Phase(j) \in {"queued", "started", "driving", "hung"}

\* An item's handle is that of its live job.
LiveJobs == \A j \in Jobs : Live(j) => handle[job[j].item] = j

\* While requests are dispatched, a free slot means that no job is live.
FreeSlot ==
    pc \in {"resume", "reopen", "ingest"} =>
        slots <= 1 /\ (slots > 0 => \A j \in Jobs : ~Live(j))

\* A job of a persisted run that does not drive it yet.
Continued(j) == job[j].kind # "fresh" /\ Phase(j) \in {"queued", "started"}

\* Such a job waits alone, and under a reservation that the stall check leaves alone.
ContinuedJobs ==
    \A j \in Jobs : Continued(j) =>
        /\ job[j].item \in active
        /\ \A k \in Jobs : Live(k) => k = j
        /\ pc = "stall" => job[j].item \notin todo

\* Job j has an unfinished run in its hands.
Holds(j) == Phase(j) \in {"driving", "hung"} \/ (Continued(j) /\ job[j].kind = "resume")

\* Every unfinished run is in somebody's hands.
HeldRuns ==
    pc # "recover" =>
        \A i \in Items : run[i] = "working" =>
            i \in interrupted \cup lost \/ \E j \in Jobs : job[j].item = i /\ Holds(j)

\* A stop request reaches only jobs that the stall check stopped.
StopRequests == \A j \in Jobs : Live(j) /\ job[j].item \in cancels => j \in stopped

OneTaskInv == LiveJobs /\ FreeSlot /\ ContinuedJobs /\ HeldRuns /\ StopRequests

-----------------------------------------------------------------------------
(* What the operators of the model change *)

Kinds == {"fresh", "resume", "reopen"}

Phases == {"free", "queued", "started", "driving", "hung", "halted", "returned", "done"}

\* Nothing but the phase of job j changed.
PhaseOf(j, phase) ==
    \A k \in Jobs :
        /\ job'[k].item = job[k].item
        /\ job'[k].kind = job[k].kind
        /\ job'[k].phase = IF k = j THEN phase ELSE job[k].phase

\* Job j became free, the others are as before.
Freed(j) ==
    \A k \in Jobs :
        /\ k # j => job'[k] = job[k]
        /\ k = j => job'[k].phase = "free" /\ job'[k].kind = "none"

\* Free job j was queued for item i.
Queued(j, i, kind) ==
    /\ job[j].phase = "free"
    /\ job'[j].item = i /\ job'[j].kind = kind /\ job'[j].phase = "queued"
    /\ \A k \in Jobs : k # j => job'[k] = job[k]
    /\ handle'[i] = j
    /\ \A k \in Items : k # i => handle'[k] = handle[k]

\* Becomes changes the phase of one job.
LEMMA BecomesEffect ==
    ASSUME job \in [Jobs -> JobRecords], NEW j \in Jobs, NEW phase \in Phases, Becomes(j, phase)
    PROVE  job' \in [Jobs -> JobRecords] /\ PhaseOf(j, phase)
BY DEF Becomes, JobRecords, Phases, PhaseOf

\* Submit queues a free job for its item.
LEMMA SubmitEffect ==
    ASSUME job \in [Jobs -> JobRecords], handle \in [Items -> Jobs \cup {None}],
           NEW i \in Items, NEW kind \in Kinds, Submit(i, kind)
    PROVE  /\ job' \in [Jobs -> JobRecords] /\ handle' \in [Items -> Jobs \cup {None}]
           /\ cancels' = cancels \ {i}
           /\ \E j \in Jobs : Queued(j, i, kind)
<1>1. PICK j \in Jobs : /\ Phase(j) = "free"
                        /\ ClearCancel(i)
                        /\ handle' = [handle EXCEPT ![i] = j]
                        /\ job' = [job EXCEPT ![j] = [item |-> i, kind |-> kind, phase |-> "queued"]]
    BY DEF Submit
<1>2. job' \in [Jobs -> JobRecords] /\ handle' \in [Items -> Jobs \cup {None}]
    BY <1>1 DEF JobRecords, Kinds
<1>3. Queued(j, i, kind)
    BY <1>1 DEF Queued, Phase, JobRecords
<1> QED
    BY <1>1, <1>2, <1>3 DEF ClearCancel

\* A job that is over becomes free.
LEMMA FreedEffect ==
    ASSUME job \in [Jobs -> JobRecords], NEW j \in Jobs, job' = [job EXCEPT ![j] = FreeJob]
    PROVE  job' \in [Jobs -> JobRecords] /\ Freed(j)
BY DEF JobRecords, FreeJob, Freed

\* Counting items and jobs gives a natural number.
LEMMA ItemsAreFinite ==
    /\ \A S \in SUBSET Items : IsFiniteSet(S) /\ Cardinality(S) \in Nat
    /\ \A S \in SUBSET Jobs : IsFiniteSet(S) /\ Cardinality(S) \in Nat
BY ServiceAssumption, FS_Subset, FS_CardinalityType

-----------------------------------------------------------------------------
(* Types *)

\* Every step keeps the variables in their sets.
LEMMA KeepsTypes ==
    ASSUME ServiceInv, [Next]_vars
    PROVE  Types'
<1> USE DEF Types
<1>0. /\ Types /\ Handles
      /\ {"none", "finished", "reopened", "working", "waiting"} \subseteq RunStates
      /\ {"fresh", "resume", "reopen"} \subseteq Kinds
      /\ NotListed \in [Items -> RunStates]
      /\ [k \in Jobs |-> FreeJob] \in [Jobs -> JobRecords]
      /\ RemainingQuota \in Nat
    BY ServiceAssumption DEF ServiceInv, RunStates, Kinds, NotListed, FreeJob, JobRecords,
         RemainingQuota
<1>1. ASSUME NEW i \in Items, NEW kind \in Kinds, Submit(i, kind)
      PROVE  job' \in [Jobs -> JobRecords] /\ handle' \in [Items -> Jobs \cup {None}]
    BY <1>0, <1>1, SubmitEffect
<1>2. ASSUME NEW j \in Jobs, NEW phase \in Phases, Becomes(j, phase)
      PROVE  job' \in [Jobs -> JobRecords]
    BY <1>0, <1>2, BecomesEffect
<1>3. ASSUME NEW j \in Jobs, job' = [job EXCEPT ![j] = FreeJob]
      PROVE  job' \in [Jobs -> JobRecords]
    BY <1>0, <1>3, FreedEffect
<1>4. ASSUME NEW j \in Jobs, Phase(j) # "free"
      PROVE  job[j].item \in Items
    BY <1>0, <1>4 DEF Handles
<1>5. ASSUME NEW i \in Items, NEW s \in RunStates
      PROVE  [run EXCEPT ![i] = s] \in [Items -> RunStates]
    BY <1>0
<1> DEFINE Kept == Types'
<1> SUFFICES Kept
    OBVIOUS
<1> USE DEF vars, disk, loop, service, threads, history, limits
<1>10. CASE Recover
    <2>1. run' \in [Items -> RunStates]
        BY <1>0, <1>10 DEF Recover, RunStates
    <2>2. interrupted' \subseteq Items /\ escalated' \subseteq Items
        BY <1>0, <1>10 DEF Recover
    <2> QED
        BY <1>0, <1>10, <2>1, <2>2 DEF Recover, NextStep, Steps
<1>11. CASE BeginCycle
    BY <1>0, <1>11 DEF BeginCycle, NextStep, Steps
<1>12. CASE ListRuns
    <2>1. slots' \in Int
        BY <1>0, <1>12, ItemsAreFinite, ServiceAssumption DEF ListRuns, FreeSlots
    <2> QED
        BY <1>0, <1>12, <2>1 DEF ListRuns, Steps
<1>13. CASE ResumeInterrupted
    <2>1. CASE NextStep("reopen", ReopenPending) /\ UNCHANGED <<service, threads>>
        BY <1>0, <1>13, <2>1 DEF ResumeInterrupted, NextStep, Steps, ReopenPending
    <2>2. ASSUME NEW i \in todo, Skip(i), UNCHANGED <<pc, listed, quota, slots, service, threads>>
          PROVE  Kept
        BY <1>0, <1>13, <2>2 DEF ResumeInterrupted, Skip
    <2>3. ASSUME NEW i \in todo, Skip(i), UNCHANGED <<pc, listed, quota, completion>>,
                 interrupted' = interrupted \ {i}, DispatchExistingRun(i, "resume")
          PROVE  Kept
        BY <1>0, <1>1, <1>13, <2>3 DEF ResumeInterrupted, DispatchExistingRun, Skip
    <2> QED
        BY <1>13, <2>1, <2>2, <2>3 DEF ResumeInterrupted
<1>14. CASE ReopenAccepted
    <2>1. CASE /\ NextStep("ingest", {i \in Items : listed[i] = "waiting" /\ request[i]})
               /\ UNCHANGED <<service, threads>>
        BY <1>0, <1>14, <2>1 DEF ReopenAccepted, NextStep, Steps
    <2>2. ASSUME NEW i \in todo, Skip(i), UNCHANGED <<pc, listed, quota, slots, service, threads>>
          PROVE  Kept
        BY <1>0, <1>14, <2>2 DEF ReopenAccepted, Skip
    <2>3. ASSUME NEW i \in todo, Skip(i), UNCHANGED <<pc, listed, quota, interrupted, completion>>,
                 DispatchExistingRun(i, "reopen")
          PROVE  Kept
        BY <1>0, <1>1, <1>14, <2>3 DEF ReopenAccepted, DispatchExistingRun, Skip
    <2> QED
        BY <1>14, <2>1, <2>2, <2>3 DEF ReopenAccepted
<1>15. CASE AcceptRequests
    <2>1. CASE ReturnTo("tick") /\ UNCHANGED <<run, claimed, service, threads>>
        BY <1>0, <1>15, <2>1 DEF AcceptRequests, ReturnTo, Steps
    <2>2. ASSUME NEW i \in todo, Skip(i),
                 UNCHANGED <<run, claimed, pc, listed, quota, slots, service, threads>>
          PROVE  Kept
        BY <1>0, <1>15, <2>2 DEF AcceptRequests, Skip
    <2>3. ASSUME NEW i \in todo, HasRoom, Skip(i),
                 UNCHANGED <<pc, listed, interrupted, completion>>,
                 run' = [run EXCEPT ![i] = "reopened"], claimed' = claimed + 1, quota' = quota - 1,
                 DispatchExistingRun(i, "reopen")
          PROVE  Kept
        <3>1. quota' \in Nat /\ claimed' \in Nat /\ i \in Items
            BY <1>0, <2>3 DEF HasRoom
        <3>2. run' \in [Items -> RunStates]
            BY <1>0, <1>5, <2>3
        <3> QED
            BY <1>0, <1>1, <1>15, <2>3, <3>1, <3>2 DEF AcceptRequests, DispatchExistingRun, Skip
    <2> QED
        BY <1>15, <2>1, <2>2, <2>3 DEF AcceptRequests
<1>16. CASE ReconcileActive
    <2>1. PICK waited \in SUBSET active' :
                 NextStep("stall", waited \cup {i \in active' : Phase(handle[i]) = "hung"})
        BY <1>16 DEF ReconcileActive
    <2>2. active' \subseteq Items
        BY <1>0, <1>16 DEF ReconcileActive
    <2> QED
        BY <1>0, <1>16, <2>1, <2>2 DEF ReconcileActive, NextStep, Steps
<1>17. CASE HandleStall
    <2>1. CASE /\ NextStep(IF Cardinality(active) >= MaxConcurrent THEN "wait" ELSE "claim", {})
               /\ UNCHANGED <<service, threads, history>>
        BY <1>0, <1>17, <2>1 DEF HandleStall, NextStep, Steps
    <2>2. ASSUME NEW i \in todo, Skip(i), active' = active \ {i}, escalated' = escalated \cup {i},
                 UNCHANGED <<pc, listed, slots, quota, interrupted>>
          PROVE  /\ UNCHANGED <<handle, completion, threads>> => Kept
                 /\ handle[i] # None /\ CancelQueued(i) => Kept
        <3>1. SUFFICES ASSUME handle[i] # None, CancelQueued(i)
                       PROVE  Kept
            BY <1>0, <1>17, <2>2 DEF HandleStall, Skip
        <3>2. i \in Items /\ handle[i] \in Jobs
            BY <1>0, <3>1
        <3>3. job' \in [Jobs -> JobRecords]
            BY <1>3, <3>1, <3>2 DEF CancelQueued
        <3>4. handle' \in [Items -> Jobs \cup {None}] /\ completion' \in BOOLEAN
            BY <1>0, <3>1, <3>2 DEF CancelQueued
        <3> QED
            BY <1>0, <1>17, <2>2, <3>2, <3>3, <3>4 DEF HandleStall, Skip
    <2> QED
        BY <1>17, <2>1, <2>2 DEF HandleStall
<1>18. CASE ClaimBatch
    BY <1>0, <1>18 DEF ClaimBatch, Steps
<1>19. CASE DispatchNew
    <2>1. CASE ReturnTo("wait") /\ UNCHANGED <<service, threads>>
        BY <1>0, <1>19, <2>1 DEF DispatchNew, ReturnTo, Steps
    <2>2. ASSUME NEW i \in todo, Skip(i), quota > 0, quota' = quota - 1,
                 active' = active \cup {i}, Submit(i, "fresh"),
                 UNCHANGED <<pc, listed, slots, escalated, interrupted, completion>>
          PROVE  Kept
        <3>1. quota' \in Nat
            BY <1>0, <2>2
        <3> QED
            BY <1>0, <1>1, <1>19, <2>2, <3>1 DEF DispatchNew, Skip
    <2> QED
        BY <1>19, <2>1, <2>2 DEF DispatchNew
<1>20. CASE CycleFails
    BY <1>0, <1>20 DEF CycleFails, ReturnTo, Steps
<1>21. CASE Wake
    BY <1>0, <1>21 DEF Wake, NextStep, Steps
<1>30. ASSUME NEW j \in Jobs, Start(j) PROVE Kept
    BY <1>0, <1>2, <1>30 DEF Start, Phases
<1>31. ASSUME NEW j \in Jobs, CreateRun(j) PROVE Kept
    <2>1. job' \in [Jobs -> JobRecords]
        BY <1>2, <1>31 DEF CreateRun, Phases
    <2>2. run' \in [Items -> RunStates] /\ claimed' \in Nat
        BY <1>0, <1>4, <1>5, <1>31 DEF CreateRun
    <2> QED
        BY <1>0, <1>31, <2>1, <2>2 DEF CreateRun
<1>32. ASSUME NEW j \in Jobs, ReopenRun(j) PROVE Kept
    <2>1. job' \in [Jobs -> JobRecords]
        BY <1>2, <1>32 DEF ReopenRun, Phases
    <2>2. run' \in [Items -> RunStates]
        BY <1>0, <1>4, <1>5, <1>32 DEF ReopenRun
    <2> QED
        BY <1>0, <1>32, <2>1, <2>2 DEF ReopenRun
<1>33. ASSUME NEW j \in Jobs, ResumeRun(j) PROVE Kept
    <2>1. job' \in [Jobs -> JobRecords]
        BY <1>2, <1>33 DEF ResumeRun, Phases
    <2>2. interrupted' \subseteq Items /\ faults' \in Nat
        BY <1>0, <1>4, <1>33 DEF ResumeRun, Requeue
    <2> QED
        BY <1>0, <1>33, <2>1, <2>2 DEF ResumeRun
<1>34. ASSUME NEW j \in Jobs, Halt(j) PROVE Kept
    <2>1. job' \in [Jobs -> JobRecords]
        BY <1>2, <1>34 DEF Halt, Phases
    <2>2. run' \in [Items -> RunStates]
        BY <1>0, <1>4, <1>5, <1>34 DEF Halt
    <2> QED
        BY <1>0, <1>34, <2>1, <2>2 DEF Halt
<1>35. ASSUME NEW j \in Jobs, RunStopped(j) PROVE Kept
    <2>1. job' \in [Jobs -> JobRecords]
        BY <1>2, <1>35 DEF RunStopped, Phases
    <2>2. run' \in [Items -> RunStates] /\ interrupted' \subseteq Items
        BY <1>0, <1>4, <1>5, <1>35 DEF RunStopped, Requeue
    <2> QED
        BY <1>0, <1>35, <2>1, <2>2 DEF RunStopped
<1>36. ASSUME NEW j \in Jobs, Return(j) \/ Complete(j) \/ Hang(j) \/ ComeBack(j) PROVE Kept
    BY <1>0, <1>2, <1>36 DEF Return, Complete, Hang, ComeBack, Phases
<1>37. ASSUME NEW j \in Jobs, OnDone(j) PROVE Kept
    <2>1. job' \in [Jobs -> JobRecords]
        BY <1>3, <1>37 DEF OnDone
    <2>2. handle' \in [Items -> Jobs \cup {None}]
        BY <1>0, <1>4, <1>37 DEF OnDone
    <2> QED
        BY <1>0, <1>37, <2>1, <2>2 DEF OnDone
<1>38. ASSUME NEW i \in Items, Request(i) PROVE Kept
    BY <1>0, <1>38 DEF Request
<1>39. CASE NewDay
    BY <1>0, <1>39 DEF NewDay
<1>40. CASE Crash
    <2>1. handle' \in [Items -> Jobs \cup {None}] /\ faults' \in Nat /\ completion' \in BOOLEAN
        BY <1>0, <1>40 DEF Crash
    <2> QED
        BY <1>0, <1>40, <2>1 DEF Crash, ReturnTo, Steps
<1>41. CASE UNCHANGED vars
    BY <1>0, <1>41
<1> QED
    BY <1>10, <1>11, <1>12, <1>13, <1>14, <1>15, <1>16, <1>17, <1>18, <1>19, <1>20, <1>21,
       <1>30, <1>31, <1>32, <1>33, <1>34, <1>35, <1>36, <1>37, <1>38, <1>39, <1>40, <1>41
    DEF Next, MainThread, Worker, Environment

-----------------------------------------------------------------------------
(* The steps of the service, in the terms the invariants speak of *)

\* What no step of the main thread touches but the one that accepts requests and Recover.
loopFrame == <<job, handle, cancels, completion, run, claimed, faults, crashes, stopped, lost>>

\* What a step of a worker leaves alone in any case.
workerFrame == <<pc, listed, todo, slots, quota, active, escalated, crashes>>

\* An item of the current list needs nothing.
PassesItem ==
    /\ pc \in {"resume", "reopen", "ingest"}
    /\ \E i \in todo : todo' = todo \ {i}
    /\ UNCHANGED <<loopFrame, pc, listed, slots, quota, active, escalated, interrupted>>

EndsResume ==
    /\ pc = "resume" /\ pc' = "reopen" /\ todo' = ReopenPending
    /\ UNCHANGED <<loopFrame, listed, slots, quota, active, escalated, interrupted>>

EndsReopen ==
    /\ pc = "reopen" /\ pc' = "ingest" /\ todo' \subseteq {i \in Items : listed[i] = "waiting"}
    /\ UNCHANGED <<loopFrame, listed, slots, quota, active, escalated, interrupted>>

\* A part of the cycle returns.
EndsPart(from, to) ==
    /\ pc = from /\ pc' = to /\ todo' = {} /\ listed' = NotListed /\ slots' = 0 /\ quota' = 0
    /\ UNCHANGED <<loopFrame, active, escalated, interrupted>>

EndsStall ==
    /\ pc = "stall" /\ todo' = {}
    /\ \/ pc' = "wait"
       \/ pc' = "claim" /\ ~(Cardinality(active) >= MaxConcurrent)
    /\ UNCHANGED <<loopFrame, listed, slots, quota, active, escalated, interrupted>>

\* Item i of the list is dispatched with a slot.
TakesSlot(i, kind) ==
    /\ i \in todo /\ slots > 0 /\ todo' = todo \ {i} /\ slots' = slots - 1
    /\ active' = active \cup {i} /\ escalated' = escalated \ {i} /\ cancels' = cancels \ {i}
    /\ \E j \in Jobs : Queued(j, i, kind)
    /\ UNCHANGED <<pc, listed, completion, faults, crashes, stopped, lost>>

Resumes(i) ==
    /\ pc = "resume" /\ IsDone(i) /\ TakesSlot(i, "resume")
    /\ interrupted' = interrupted \ {i}
    /\ UNCHANGED <<quota, run, claimed>>

Reopens(i) ==
    /\ pc = "reopen" /\ IsDone(i) /\ TakesSlot(i, "reopen")
    /\ UNCHANGED <<quota, run, claimed, interrupted>>

Accepts(i) ==
    /\ pc = "ingest" /\ quota > 0 /\ run[i] = "waiting" /\ TakesSlot(i, "reopen")
    /\ run'[i] = "reopened" /\ \A k \in Items : k # i => run'[k] = run[k]
    /\ claimed' = claimed + 1 /\ quota' = quota - 1
    /\ UNCHANGED interrupted

Dispatches(i) ==
    /\ pc = "dispatch" /\ i \in todo /\ todo' = todo \ {i}
    /\ quota > 0 /\ quota' = quota - 1 /\ Cardinality(active) < MaxConcurrent
    /\ active' = active \cup {i} /\ cancels' = cancels \ {i}
    /\ \E j \in Jobs : Queued(j, i, "fresh")
    /\ UNCHANGED <<pc, listed, slots, escalated, interrupted, completion, run, claimed, faults,
                   crashes, stopped, lost>>

\* The stall check gives item i up.
GivesUp(i) ==
    /\ pc = "stall" /\ i \in todo /\ todo' = todo \ {i}
    /\ active' = active \ {i} /\ escalated' = escalated \cup {i}
    /\ UNCHANGED <<pc, listed, slots, quota, interrupted, run, claimed, faults, crashes>>

CancelsStalled(i) ==
    /\ GivesUp(i) /\ handle[i] # None /\ Phase(handle[i]) = "queued"
    /\ Freed(handle[i]) /\ handle'[i] = None /\ completion' = TRUE
    /\ \A k \in Items : k # i => handle'[k] = handle[k]
    /\ UNCHANGED <<cancels, stopped, lost>>

StopsStalled(i) ==
    /\ GivesUp(i) /\ (handle[i] # None => Phase(handle[i]) # "queued")
    /\ \/ UNCHANGED <<cancels, stopped>>
       \/ cancels' = cancels \cup {i} /\ stopped' = stopped \cup {handle[i]} /\ ~IsDone(i)
    /\ lost \subseteq lost'
    /\ UNCHANGED <<job, handle, completion>>

Starts(j) ==
    /\ Phase(j) = "queued" /\ PhaseOf(j, "started") /\ Cardinality(Busy) < MaxConcurrent
    /\ UNCHANGED <<workerFrame, interrupted, run, claimed, handle, cancels, completion, stopped,
         lost,
                   faults>>

\* Job j persists its new run.
Creates(j) ==
    /\ Fresh(j) /\ Phase(j) = "started" /\ PhaseOf(j, "driving")
    /\ run'[job[j].item] = "working" /\ \A k \in Items : k # job[j].item => run'[k] = run[k]
    /\ claimed' = claimed + 1
    /\ UNCHANGED <<workerFrame, interrupted, handle, cancels, completion, stopped, lost, faults>>

\* Job j is over without a change to its run.
Drops(j) ==
    /\ Phase(j) = "started" /\ PhaseOf(j, "returned")
    /\ job[j].kind = "resume" => run[job[j].item] # "working"
    /\ UNCHANGED <<workerFrame, interrupted, run, claimed, handle, cancels, completion, stopped,
         lost,
                   faults>>

\* Job j does not resume its run, which is queued again or lost.
PutsBack(j) ==
    /\ Phase(j) = "started" /\ job[j].kind = "resume" /\ PhaseOf(j, "returned")
    /\ run[job[j].item] = "working" /\ faults' >= faults
    /\ \/ interrupted' = interrupted \cup {job[j].item} /\ UNCHANGED lost
       \/ lost' = lost \cup {job[j].item} /\ UNCHANGED interrupted
    /\ UNCHANGED <<workerFrame, run, claimed, handle, cancels, completion, stopped>>

\* Job j drives its persisted run on.
Drives(j) ==
    /\ Continued(j) /\ Phase(j) = "started" /\ PhaseOf(j, "driving")
    /\ run[job[j].item] # "none" /\ run'[job[j].item] = "working"
    /\ \A k \in Items : k # job[j].item => run'[k] = run[k]
    /\ UNCHANGED <<workerFrame, interrupted, claimed, handle, cancels, completion, stopped, lost,
                   faults>>

Halts(j) ==
    /\ Phase(j) = "driving" /\ PhaseOf(j, "halted")
    /\ run'[job[j].item] \in {"waiting", "finished"}
    /\ \A k \in Items : k # job[j].item => run'[k] = run[k]
    /\ UNCHANGED <<workerFrame, interrupted, claimed, handle, cancels, completion, stopped, lost,
                   faults>>

\* Job j hangs or comes back.
Swings(j) ==
    /\ Phase(j) \in {"driving", "hung"}
    /\ PhaseOf(j, "driving") \/ PhaseOf(j, "hung")
    /\ UNCHANGED <<workerFrame, interrupted, run, claimed, handle, cancels, completion, stopped,
         lost,
                   faults>>

\* A stop request ends job j.
IsStopped(j) ==
    /\ Phase(j) \in {"driving", "hung"} /\ job[j].item \in cancels /\ PhaseOf(j, "returned")
    /\ cancels' = cancels \ {job[j].item}
    /\ \/ interrupted' = interrupted \cup {job[j].item} /\ UNCHANGED run
       \/ /\ run'[job[j].item] = "finished" /\ UNCHANGED interrupted
          /\ \A k \in Items : k # job[j].item => run'[k] = run[k]
    /\ UNCHANGED <<workerFrame, claimed, handle, completion, stopped, lost, faults>>

\* The run of job j is settled, its thread is not.
Leaves(j) ==
    /\ \/ Phase(j) = "halted" /\ PhaseOf(j, "returned")
       \/ Phase(j) = "returned" /\ PhaseOf(j, "done")
    /\ cancels' \subseteq cancels
    /\ UNCHANGED <<workerFrame, interrupted, run, claimed, handle, completion, stopped, lost,
         faults>>

\* The callback of job j ran.
Ends(j) ==
    /\ Phase(j) = "done" /\ Freed(j) /\ completion' = TRUE
    /\ \A i \in Items : handle'[i] = IF handle[i] = j THEN None ELSE handle[i]
    /\ stopped' = stopped \ {j}
    /\ UNCHANGED <<workerFrame, interrupted, run, claimed, cancels, lost, faults>>

\* Nothing that the invariants speak of changed, but that a new day began.
IsIdle ==
    /\ UNCHANGED <<pc, listed, todo, slots, quota, active, escalated, interrupted, handle, job,
         cancels,
                   completion, run, stopped, lost, faults, crashes>>
    /\ claimed' \in {claimed, 0}

StepKind ==
    \/ Recover \/ BeginCycle \/ ListRuns \/ ReconcileActive \/ ClaimBatch \/ CycleFails \/ Wake
    \/ Crash \/ IsIdle \/ PassesItem \/ EndsResume \/ EndsReopen \/ EndsStall
    \/ EndsPart("ingest", "tick") \/ EndsPart("dispatch", "wait")
    \/ \E i \in Items : Resumes(i) \/ Reopens(i) \/ Accepts(i) \/ Dispatches(i)
                        \/ CancelsStalled(i) \/ StopsStalled(i)
    \/ \E j \in Jobs : Starts(j) \/ Creates(j) \/ Drops(j) \/ PutsBack(j) \/ Drives(j) \/ Halts(j)
                       \/ Swings(j) \/ IsStopped(j) \/ Leaves(j) \/ Ends(j)

\* Every step is of one of these kinds.
LEMMA StepKinds ==
    ASSUME ServiceInv, [Next]_vars
    PROVE  StepKind
<1>0. Types /\ Handles /\ todo \subseteq Items /\ slots \in Int /\ quota \in Nat /\ claimed \in Nat
      /\ faults \in Nat /\ active \subseteq Items
    BY DEF ServiceInv, Types
<1>1. ASSUME NEW i \in Items, NEW kind \in Kinds, Submit(i, kind)
      PROVE  cancels' = cancels \ {i} /\ \E j \in Jobs : Queued(j, i, kind)
    BY <1>0, <1>1, SubmitEffect DEF Types
<1>2. ASSUME NEW j \in Jobs, NEW phase \in Phases, Becomes(j, phase)
      PROVE  PhaseOf(j, phase)
    BY <1>0, <1>2, BecomesEffect DEF Types
<1>3. ASSUME NEW j \in Jobs, job' = [job EXCEPT ![j] = FreeJob]
      PROVE  Freed(j)
    BY <1>0, <1>3, FreedEffect DEF Types
<1>4. ASSUME NEW j \in Jobs, Phase(j) # "free"
      PROVE  job[j].item \in Items
    BY <1>0, <1>4 DEF Handles
<1>5. ASSUME NEW i \in Items, NEW s \in RunStates, run' = [run EXCEPT ![i] = s]
      PROVE  run'[i] = s /\ \A k \in Items : k # i => run'[k] = run[k]
    BY <1>0, <1>5 DEF Types
<1>6. {"fresh", "resume", "reopen"} \subseteq Kinds
    BY DEF Kinds
<1>7. {"working", "finished", "waiting", "reopened"} \subseteq RunStates
    BY DEF RunStates
<1> USE DEF vars, disk, loop, service, threads, history, limits
<1>13. CASE ResumeInterrupted
    <2>1. CASE NextStep("reopen", ReopenPending) /\ UNCHANGED <<service, threads>>
        <3> EndsResume
            BY <1>13, <2>1 DEF ResumeInterrupted, NextStep, EndsResume, loopFrame
        <3> QED
            BY DEF StepKind
    <2>2. ASSUME NEW i \in todo, Skip(i), UNCHANGED <<pc, listed, quota, slots, service, threads>>
          PROVE  StepKind
        <3> PassesItem
            BY <1>13, <2>2 DEF ResumeInterrupted, Skip, PassesItem, loopFrame
        <3> QED
            BY DEF StepKind
    <2>3. ASSUME NEW i \in todo, Skip(i), UNCHANGED <<pc, listed, quota, completion>>, IsDone(i),
                 slots > 0, interrupted' = interrupted \ {i}, DispatchExistingRun(i, "resume")
          PROVE  StepKind
        <3>1. cancels' = cancels \ {i} /\ \E j \in Jobs : Queued(j, i, "resume")
            BY <1>0, <1>1, <1>6, <2>3 DEF DispatchExistingRun
        <3> Resumes(i)
            BY <1>13, <2>3, <3>1 DEF ResumeInterrupted, DispatchExistingRun, Skip, Resumes,
                 TakesSlot
        <3> QED
            BY <1>0 DEF StepKind
    <2> QED
        BY <1>13, <2>1, <2>2, <2>3 DEF ResumeInterrupted
<1>14. CASE ReopenAccepted
    <2>1. CASE /\ NextStep("ingest", {i \in Items : listed[i] = "waiting" /\ request[i]})
               /\ UNCHANGED <<service, threads>>
        <3> EndsReopen
            BY <1>14, <2>1 DEF ReopenAccepted, NextStep, EndsReopen, loopFrame
        <3> QED
            BY DEF StepKind
    <2>2. ASSUME NEW i \in todo, Skip(i), UNCHANGED <<pc, listed, quota, slots, service, threads>>
          PROVE  StepKind
        <3> PassesItem
            BY <1>14, <2>2 DEF ReopenAccepted, Skip, PassesItem, loopFrame
        <3> QED
            BY DEF StepKind
    <2>3. ASSUME NEW i \in todo, Skip(i), UNCHANGED <<pc, listed, quota, interrupted, completion>>,
                 IsDone(i), slots > 0, DispatchExistingRun(i, "reopen")
          PROVE  StepKind
        <3>1. cancels' = cancels \ {i} /\ \E j \in Jobs : Queued(j, i, "reopen")
            BY <1>0, <1>1, <1>6, <2>3 DEF DispatchExistingRun
        <3> Reopens(i)
            BY <1>14, <2>3, <3>1 DEF ReopenAccepted, DispatchExistingRun, Skip, Reopens, TakesSlot
        <3> QED
            BY <1>0 DEF StepKind
    <2> QED
        BY <1>14, <2>1, <2>2, <2>3 DEF ReopenAccepted
<1>15. CASE AcceptRequests
    <2>1. CASE ReturnTo("tick") /\ UNCHANGED <<run, claimed, service, threads>>
        <3> EndsPart("ingest", "tick")
            BY <1>15, <2>1 DEF AcceptRequests, ReturnTo, EndsPart, loopFrame
        <3> QED
            BY DEF StepKind
    <2>2. ASSUME NEW i \in todo, Skip(i),
                 UNCHANGED <<run, claimed, pc, listed, quota, slots, service, threads>>
          PROVE  StepKind
        <3> PassesItem
            BY <1>15, <2>2 DEF AcceptRequests, Skip, PassesItem, loopFrame
        <3> QED
            BY DEF StepKind
    <2>3. ASSUME NEW i \in todo, HasRoom, Skip(i), AwaitsHuman(i),
                 UNCHANGED <<pc, listed, interrupted, completion>>,
                 run' = [run EXCEPT ![i] = "reopened"], claimed' = claimed + 1, quota' = quota - 1,
                 DispatchExistingRun(i, "reopen")
          PROVE  StepKind
        <3>1. cancels' = cancels \ {i} /\ \E j \in Jobs : Queued(j, i, "reopen")
            BY <1>0, <1>1, <1>6, <2>3 DEF DispatchExistingRun
        <3>2. run'[i] = "reopened" /\ \A k \in Items : k # i => run'[k] = run[k]
            BY <1>0, <1>5, <1>7, <2>3
        <3> Accepts(i)
            BY <1>15, <2>3, <3>1, <3>2
            DEF AcceptRequests, DispatchExistingRun, Skip, Accepts, TakesSlot, HasRoom, AwaitsHuman
        <3> QED
            BY <1>0 DEF StepKind
    <2> QED
        BY <1>15, <2>1, <2>2, <2>3 DEF AcceptRequests
<1>17. CASE HandleStall
    <2>1. CASE /\ NextStep(IF Cardinality(active) >= MaxConcurrent THEN "wait" ELSE "claim", {})
               /\ UNCHANGED <<service, threads, history>>
        <3> EndsStall
            BY <1>17, <2>1 DEF HandleStall, NextStep, EndsStall, loopFrame
        <3> QED
            BY DEF StepKind
    <2>2. ASSUME NEW i \in todo, Skip(i), active' = active \ {i}, escalated' = escalated \cup {i},
                 UNCHANGED <<pc, listed, slots, quota, interrupted>>,
                 handle[i] # None, CancelQueued(i)
          PROVE  StepKind
        <3>1. i \in Items /\ handle[i] \in Jobs
            BY <1>0, <2>2 DEF Types
        <3>2. Freed(handle[i])
            BY <1>3, <2>2, <3>1 DEF CancelQueued
        <3>3. handle'[i] = None /\ \A k \in Items : k # i => handle'[k] = handle[k]
            BY <1>0, <2>2, <3>1 DEF CancelQueued, Types
        <3>4. GivesUp(i)
            BY <1>17, <2>2 DEF HandleStall, GivesUp, Skip, CancelQueued
        <3> CancelsStalled(i)
            BY <1>17, <2>2, <3>2, <3>3, <3>4 DEF CancelsStalled, CancelQueued, HandleStall
        <3> QED
            BY <3>1 DEF StepKind
    <2>3. ASSUME NEW i \in todo, Skip(i), active' = active \ {i}, escalated' = escalated \cup {i},
                 UNCHANGED <<pc, listed, slots, quota, interrupted>>,
                 handle[i] # None => Phase(handle[i]) # "queued",
                 IF StopsAgent(i)
                 THEN cancels' = cancels \cup {i} /\ stopped' = stopped \cup {handle[i]}
                 ELSE UNCHANGED <<cancels, stopped>>,
                 lost' = IF ~StopsAgent(i) /\ ~IsDone(i) THEN lost \cup {i} ELSE lost,
                 UNCHANGED <<handle, runIds, completion, threads>>
          PROVE  StepKind
        <3>1. GivesUp(i)
            BY <1>17, <2>3 DEF HandleStall, GivesUp, Skip
        <3>2. \/ UNCHANGED <<cancels, stopped>>
              \/ cancels' = cancels \cup {i} /\ stopped' = stopped \cup {handle[i]} /\ ~IsDone(i)
            BY <2>3 DEF StopsAgent
        <3> StopsStalled(i)
            BY <2>3, <3>1, <3>2 DEF StopsStalled
        <3> QED
            BY <1>0 DEF StepKind
    <2> QED
        BY <1>17, <2>1, <2>2, <2>3 DEF HandleStall
<1>19. CASE DispatchNew
    <2>1. CASE ReturnTo("wait") /\ UNCHANGED <<service, threads>>
        <3> EndsPart("dispatch", "wait")
            BY <1>19, <2>1 DEF DispatchNew, ReturnTo, EndsPart, loopFrame
        <3> QED
            BY DEF StepKind
    <2>2. ASSUME NEW i \in todo, Skip(i), quota > 0, quota' = quota - 1,
                 Cardinality(active) < MaxConcurrent,
                 active' = active \cup {i}, Submit(i, "fresh"),
                 UNCHANGED <<pc, listed, slots, escalated, interrupted, completion>>
          PROVE  StepKind
        <3>1. cancels' = cancels \ {i} /\ \E j \in Jobs : Queued(j, i, "fresh")
            BY <1>0, <1>1, <1>6, <2>2
        <3> Dispatches(i)
            BY <1>19, <2>2, <3>1 DEF DispatchNew, Skip, Dispatches
        <3> QED
            BY <1>0 DEF StepKind
    <2> QED
        BY <1>19, <2>1, <2>2 DEF DispatchNew
<1>30. ASSUME NEW j \in Jobs, Start(j) PROVE StepKind
    <2>1. PhaseOf(j, "started")
        BY <1>2, <1>30 DEF Start, Phases
    <2> Starts(j)
        BY <1>30, <2>1 DEF Start, Starts, workerFrame
    <2> QED
        BY DEF StepKind
<1>31. ASSUME NEW j \in Jobs, CreateRun(j) PROVE StepKind
    <2>1. CASE Locked(job[j].item, j)
        <3>1. PhaseOf(j, "returned")
            BY <1>2, <1>31, <2>1 DEF CreateRun, Phases
        <3> Drops(j)
            BY <1>31, <2>1, <3>1 DEF CreateRun, Drops, workerFrame
        <3> QED
            BY DEF StepKind
    <2>2. CASE ~Locked(job[j].item, j)
        <3>1. PhaseOf(j, "driving")
            BY <1>2, <1>31, <2>2 DEF CreateRun, Phases
        <3>2. /\ run'[job[j].item] = "working"
              /\ \A k \in Items : k # job[j].item => run'[k] = run[k]
            BY <1>4, <1>5, <1>7, <1>31, <2>2 DEF CreateRun
        <3> Creates(j)
            BY <1>31, <2>2, <3>1, <3>2 DEF CreateRun, Creates, Fresh, workerFrame
        <3> QED
            BY DEF StepKind
    <2> QED
        BY <2>1, <2>2
<1>32. ASSUME NEW j \in Jobs, ReopenRun(j) PROVE StepKind
    <2>1. CASE Locked(job[j].item, j) \/ run[job[j].item] # "reopened"
        <3>1. PhaseOf(j, "returned")
            BY <1>2, <1>32, <2>1 DEF ReopenRun, Phases
        <3> Drops(j)
            BY <1>32, <2>1, <3>1 DEF ReopenRun, Drops, workerFrame
        <3> QED
            BY DEF StepKind
    <2>2. CASE ~(Locked(job[j].item, j) \/ run[job[j].item] # "reopened")
        <3>1. PhaseOf(j, "driving")
            BY <1>2, <1>32, <2>2 DEF ReopenRun, Phases
        <3>2. /\ run'[job[j].item] = "working"
              /\ \A k \in Items : k # job[j].item => run'[k] = run[k]
            BY <1>4, <1>5, <1>7, <1>32, <2>2 DEF ReopenRun
        <3> Drives(j)
            BY <1>32, <2>2, <3>1, <3>2 DEF ReopenRun, Drives, Continued, workerFrame
        <3> QED
            BY DEF StepKind
    <2> QED
        BY <2>1, <2>2
<1>33. ASSUME NEW j \in Jobs, ResumeRun(j) PROVE StepKind
    <2>1. CASE run[job[j].item] # "working"
        <3>1. PhaseOf(j, "returned")
            BY <1>2, <1>33, <2>1 DEF ResumeRun, Phases
        <3> Drops(j)
            BY <1>33, <2>1, <3>1 DEF ResumeRun, Drops, workerFrame
        <3> QED
            BY DEF StepKind
    <2>2. CASE run[job[j].item] = "working" /\ Becomes(j, "driving")
        <3>1. PhaseOf(j, "driving")
            BY <1>2, <2>2 DEF Phases
        <3>2. ~Becomes(j, "returned")
            <4>1. SUFFICES ASSUME Becomes(j, "returned")
                           PROVE  FALSE
                OBVIOUS
            <4>2. PhaseOf(j, "returned")
                BY <1>2, <4>1 DEF Phases
            <4> QED
                BY <3>1, <4>2 DEF PhaseOf
        <3> Drives(j)
            BY <1>33, <2>2, <3>1, <3>2 DEF ResumeRun, Drives, Continued, workerFrame
        <3> QED
            BY DEF StepKind
    <2>3. CASE run[job[j].item] = "working" /\ Becomes(j, "returned")
        <3>1. PhaseOf(j, "returned")
            BY <1>2, <2>3 DEF Phases
        <3>2. ~Becomes(j, "driving")
            <4>1. SUFFICES ASSUME Becomes(j, "driving")
                           PROVE  FALSE
                OBVIOUS
            <4>2. PhaseOf(j, "driving")
                BY <1>2, <4>1 DEF Phases
            <4> QED
                BY <3>1, <4>2 DEF PhaseOf
        <3>3. faults' >= faults
            BY <1>0, <1>33 DEF ResumeRun
        <3>4. \/ interrupted' = interrupted \cup {job[j].item} /\ UNCHANGED lost
              \/ lost' = lost \cup {job[j].item} /\ UNCHANGED interrupted
            BY <1>33, <2>3, <3>2 DEF ResumeRun, Requeue
        <3> PutsBack(j)
            BY <1>33, <2>3, <3>1, <3>3, <3>4 DEF ResumeRun, PutsBack, workerFrame
        <3> QED
            BY DEF StepKind
    <2> QED
        BY <1>33, <2>1, <2>2, <2>3 DEF ResumeRun
<1>34. ASSUME NEW j \in Jobs, Halt(j) PROVE StepKind
    <2>1. PhaseOf(j, "halted")
        BY <1>2, <1>34 DEF Halt, Phases
    <2>2. /\ run'[job[j].item] \in {"waiting", "finished"}
          /\ \A k \in Items : k # job[j].item => run'[k] = run[k]
        BY <1>4, <1>5, <1>7, <1>34 DEF Halt
    <2> Halts(j)
        BY <1>34, <2>1, <2>2 DEF Halt, Halts, workerFrame
    <2> QED
        BY DEF StepKind
<1>35. ASSUME NEW j \in Jobs, RunStopped(j) PROVE StepKind
    <2>1. PhaseOf(j, "returned")
        BY <1>2, <1>35 DEF RunStopped, Phases
    <2>2. \/ interrupted' = interrupted \cup {job[j].item} /\ UNCHANGED run
          \/ /\ run'[job[j].item] = "finished" /\ UNCHANGED interrupted
             /\ \A k \in Items : k # job[j].item => run'[k] = run[k]
        BY <1>4, <1>5, <1>7, <1>35 DEF RunStopped, Requeue
    <2> IsStopped(j)
        BY <1>35, <2>1, <2>2 DEF RunStopped, IsStopped, workerFrame
    <2> QED
        BY DEF StepKind
<1>36. ASSUME NEW j \in Jobs, Return(j) \/ Complete(j) PROVE StepKind
    <2>1. Return(j) => PhaseOf(j, "returned")
        BY <1>2 DEF Return, Phases
    <2>2. Complete(j) => PhaseOf(j, "done")
        BY <1>2 DEF Complete, Phases
    <2> Leaves(j)
        BY <1>36, <2>1, <2>2 DEF Return, Complete, Leaves, workerFrame
    <2> QED
        BY DEF StepKind
<1>37. ASSUME NEW j \in Jobs, Hang(j) \/ ComeBack(j) PROVE StepKind
    <2>1. Hang(j) => PhaseOf(j, "hung")
        BY <1>2 DEF Hang, Phases
    <2>2. ComeBack(j) => PhaseOf(j, "driving")
        BY <1>2 DEF ComeBack, Phases
    <2> Swings(j)
        BY <1>37, <2>1, <2>2 DEF Hang, ComeBack, Swings, workerFrame
    <2> QED
        BY DEF StepKind
<1>38. ASSUME NEW j \in Jobs, OnDone(j) PROVE StepKind
    <2>1. Freed(j)
        BY <1>3, <1>38 DEF OnDone
    <2>2. \A i \in Items : handle'[i] = IF handle[i] = j THEN None ELSE handle[i]
        BY <1>0, <1>4, <1>38 DEF OnDone, Types, Handles
    <2> Ends(j)
        BY <1>38, <2>1, <2>2 DEF OnDone, Ends, workerFrame
    <2> QED
        BY DEF StepKind
<1>39. ASSUME \/ \E i \in Items : Request(i)
              \/ NewDay
              \/ UNCHANGED vars
       PROVE  StepKind
    <2> IsIdle
        BY <1>39 DEF Request, NewDay, IsIdle
    <2> QED
        BY DEF StepKind
<1>40. \/ Recover \/ BeginCycle \/ ListRuns \/ ReconcileActive \/ ClaimBatch \/ CycleFails \/ Wake
       \/ Crash
       => StepKind
    BY DEF StepKind
<1> QED
    BY <1>13, <1>14, <1>15, <1>17, <1>19, <1>30, <1>31, <1>32, <1>33, <1>34, <1>35, <1>36, <1>37,
       <1>38, <1>39, <1>40
    DEF Next, MainThread, Worker, Environment

-----------------------------------------------------------------------------
(* Handles, new runs and the jobs that create them *)

\* A handle keeps belonging to a job of its item, and recovery starts without jobs.
LEMMA KeepsHandles ==
    ASSUME ServiceInv, StepKind
    PROVE  Handles'
<1>0. Types /\ Handles
    BY DEF ServiceInv
<1> DEFINE Kept == Handles'
<1> SUFFICES Kept
    OBVIOUS
<1> USE DEF Types, Handles, Phase, JobRecords, FreeJob
<1> USE DEF vars, disk, loop, service, threads, history, limits
<1>10. CASE Recover
    BY <1>0, <1>10 DEF Recover, NextStep
<1>11. CASE BeginCycle
    BY <1>0, <1>11 DEF BeginCycle, NextStep
<1>12. CASE ListRuns
    BY <1>0, <1>12 DEF ListRuns
<1>13. CASE ReconcileActive
    BY <1>0, <1>13 DEF ReconcileActive, NextStep
<1>14. CASE ClaimBatch
    BY <1>0, <1>14 DEF ClaimBatch
<1>15. CASE CycleFails
    BY <1>0, <1>15 DEF CycleFails, ReturnTo
<1>16. CASE Wake
    BY <1>0, <1>16 DEF Wake, NextStep
<1>17. CASE Crash
    BY <1>0, <1>17 DEF Crash, ReturnTo
<1>18. CASE IsIdle
    BY <1>0, <1>18 DEF IsIdle
<1>19. CASE PassesItem
    BY <1>0, <1>19 DEF PassesItem, loopFrame
<1>20. CASE EndsResume
    BY <1>0, <1>20 DEF EndsResume, loopFrame
<1>21. CASE EndsReopen
    BY <1>0, <1>21 DEF EndsReopen, loopFrame
<1>22. CASE EndsStall
    BY <1>0, <1>22 DEF EndsStall, loopFrame
<1>23. CASE EndsPart("ingest", "tick") \/ EndsPart("dispatch", "wait")
    BY <1>0, <1>23 DEF EndsPart, loopFrame
<1>24. ASSUME NEW i \in Items, Resumes(i) PROVE Kept
    <2>1. PICK j \in Jobs : Queued(j, i, "resume")
        BY <1>24 DEF Resumes, TakesSlot
    <2> QED
        BY <1>0, <1>24, <2>1 DEF Resumes, TakesSlot, Queued
<1>25. ASSUME NEW i \in Items, Reopens(i) PROVE Kept
    <2>1. PICK j \in Jobs : Queued(j, i, "reopen")
        BY <1>25 DEF Reopens, TakesSlot
    <2> QED
        BY <1>0, <1>25, <2>1 DEF Reopens, TakesSlot, Queued
<1>26. ASSUME NEW i \in Items, Accepts(i) PROVE Kept
    <2>1. PICK j \in Jobs : Queued(j, i, "reopen")
        BY <1>26 DEF Accepts, TakesSlot
    <2>2. TakesSlot(i, "reopen") /\ pc = "ingest"
        BY <1>26 DEF Accepts
    <2> QED
        BY <1>0, <2>1, <2>2 DEF TakesSlot, Queued
<1>27. ASSUME NEW i \in Items, Dispatches(i) PROVE Kept
    <2>1. PICK j \in Jobs : Queued(j, i, "fresh")
        BY <1>27 DEF Dispatches
    <2> QED
        BY <1>0, <1>27, <2>1 DEF Dispatches, Queued
<1>28. ASSUME NEW i \in Items, CancelsStalled(i) PROVE Kept
    BY <1>0, <1>28 DEF CancelsStalled, GivesUp, Freed
<1>29. ASSUME NEW i \in Items, StopsStalled(i) PROVE Kept
    BY <1>0, <1>29 DEF StopsStalled, GivesUp
<1>30. ASSUME NEW j \in Jobs, Starts(j) PROVE Kept
    BY <1>0, <1>30 DEF Starts, workerFrame, PhaseOf
<1>31. ASSUME NEW j \in Jobs, Creates(j) PROVE Kept
    BY <1>0, <1>31 DEF Creates, workerFrame, PhaseOf
<1>32. ASSUME NEW j \in Jobs, Drops(j) PROVE Kept
    BY <1>0, <1>32 DEF Drops, workerFrame, PhaseOf
<1>33. ASSUME NEW j \in Jobs, PutsBack(j) PROVE Kept
    BY <1>0, <1>33 DEF PutsBack, workerFrame, PhaseOf
<1>34. ASSUME NEW j \in Jobs, Drives(j) PROVE Kept
    BY <1>0, <1>34 DEF Drives, workerFrame, PhaseOf
<1>35. ASSUME NEW j \in Jobs, Halts(j) PROVE Kept
    BY <1>0, <1>35 DEF Halts, workerFrame, PhaseOf
<1>36. ASSUME NEW j \in Jobs, Swings(j) PROVE Kept
    BY <1>0, <1>36 DEF Swings, workerFrame, PhaseOf
<1>37. ASSUME NEW j \in Jobs, IsStopped(j) PROVE Kept
    BY <1>0, <1>37 DEF IsStopped, workerFrame, PhaseOf
<1>38. ASSUME NEW j \in Jobs, Leaves(j) PROVE Kept
    BY <1>0, <1>38 DEF Leaves, workerFrame, PhaseOf
<1>39. ASSUME NEW j \in Jobs, Ends(j) PROVE Kept
    BY <1>0, <1>39 DEF Ends, workerFrame, Freed
<1> QED
    BY <1>10, <1>11, <1>12, <1>13, <1>14, <1>15, <1>16, <1>17, <1>18, <1>19, <1>20, <1>21,
       <1>22, <1>23, <1>24, <1>25, <1>26, <1>27, <1>28, <1>29, <1>30, <1>31, <1>32, <1>33,
       <1>34, <1>35, <1>36, <1>37, <1>38, <1>39 DEF StepKind

\* A job of a new run stays the only one of its item until the run is persisted.
LEMMA KeepsFreshJobs ==
    ASSUME ServiceInv, StepKind
    PROVE  FreshJobs'
<1>0. Types /\ Handles /\ FreshJobs /\ UnbornRuns /\ None \notin Jobs
    BY ServiceAssumption DEF ServiceInv
<1> DEFINE Kept == FreshJobs'
<1> SUFFICES Kept
    OBVIOUS
<1> USE DEF Types, Handles, FreshJobs, UnbornRuns, Fresh, Phase, JobRecords, FreeJob, Eligible,
     IsDone
<1> USE DEF vars, disk, loop, service, threads, history, limits
<1>10. CASE Recover
    BY <1>0, <1>10 DEF Recover, NextStep
<1>11. CASE BeginCycle
    BY <1>0, <1>11 DEF BeginCycle, NextStep
<1>12. CASE ListRuns
    BY <1>0, <1>12 DEF ListRuns
<1>13. CASE ReconcileActive
    BY <1>0, <1>13 DEF ReconcileActive, NextStep
<1>14. CASE ClaimBatch
    BY <1>0, <1>14 DEF ClaimBatch
<1>15. CASE CycleFails
    BY <1>0, <1>15 DEF CycleFails, ReturnTo
<1>16. CASE Wake
    BY <1>0, <1>16 DEF Wake, NextStep
<1>17. CASE Crash
    BY <1>0, <1>17 DEF Crash, ReturnTo
<1>18. CASE IsIdle
    BY <1>0, <1>18 DEF IsIdle
<1>19. CASE PassesItem
    BY <1>0, <1>19 DEF PassesItem, loopFrame
<1>20. CASE EndsResume
    BY <1>0, <1>20 DEF EndsResume, loopFrame
<1>21. CASE EndsReopen
    BY <1>0, <1>21 DEF EndsReopen, loopFrame
<1>22. CASE EndsStall
    BY <1>0, <1>22 DEF EndsStall, loopFrame
<1>23. CASE EndsPart("ingest", "tick") \/ EndsPart("dispatch", "wait")
    BY <1>0, <1>23 DEF EndsPart, loopFrame
<1>24. ASSUME NEW i \in Items, Resumes(i) PROVE Kept
    <2>1. PICK j \in Jobs : Queued(j, i, "resume")
        BY <1>24 DEF Resumes, TakesSlot
    <2> QED
        BY <1>0, <1>24, <2>1 DEF Resumes, TakesSlot, Queued
<1>25. ASSUME NEW i \in Items, Reopens(i) PROVE Kept
    <2>1. PICK j \in Jobs : Queued(j, i, "reopen")
        BY <1>25 DEF Reopens, TakesSlot
    <2> QED
        BY <1>0, <1>25, <2>1 DEF Reopens, TakesSlot, Queued
<1>26. ASSUME NEW i \in Items, Accepts(i) PROVE Kept
    <2>1. PICK j \in Jobs : Queued(j, i, "reopen")
        BY <1>26 DEF Accepts, TakesSlot
    <2> QED
        BY <1>0, <1>26, <2>1 DEF Accepts, TakesSlot, Queued
<1>27. ASSUME NEW i \in Items, Dispatches(i) PROVE Kept
    <2>1. PICK j \in Jobs : Queued(j, i, "fresh")
        BY <1>27 DEF Dispatches
    <2> QED
        BY <1>0, <1>27, <2>1 DEF Dispatches, Queued
<1>28. ASSUME NEW i \in Items, CancelsStalled(i) PROVE Kept
    BY <1>0, <1>28 DEF CancelsStalled, GivesUp, Freed
<1>29. ASSUME NEW i \in Items, StopsStalled(i) PROVE Kept
    BY <1>0, <1>29 DEF StopsStalled, GivesUp
<1>30. ASSUME NEW j \in Jobs, Starts(j) PROVE Kept
    BY <1>0, <1>30 DEF Starts, workerFrame, PhaseOf
<1>31. ASSUME NEW j \in Jobs, Creates(j) PROVE Kept
    BY <1>0, <1>31 DEF Creates, workerFrame, PhaseOf
<1>32. ASSUME NEW j \in Jobs, Drops(j) PROVE Kept
    BY <1>0, <1>32 DEF Drops, workerFrame, PhaseOf
<1>33. ASSUME NEW j \in Jobs, PutsBack(j) PROVE Kept
    BY <1>0, <1>33 DEF PutsBack, workerFrame, PhaseOf
<1>34. ASSUME NEW j \in Jobs, Drives(j) PROVE Kept
    BY <1>0, <1>34 DEF Drives, workerFrame, PhaseOf
<1>35. ASSUME NEW j \in Jobs, Halts(j) PROVE Kept
    BY <1>0, <1>35 DEF Halts, workerFrame, PhaseOf
<1>36. ASSUME NEW j \in Jobs, Swings(j) PROVE Kept
    BY <1>0, <1>36 DEF Swings, workerFrame, PhaseOf
<1>37. ASSUME NEW j \in Jobs, IsStopped(j) PROVE Kept
    BY <1>0, <1>37 DEF IsStopped, workerFrame, PhaseOf
<1>38. ASSUME NEW j \in Jobs, Leaves(j) PROVE Kept
    BY <1>0, <1>38 DEF Leaves, workerFrame, PhaseOf
<1>39. ASSUME NEW j \in Jobs, Ends(j) PROVE Kept
    BY <1>0, <1>39 DEF Ends, workerFrame, Freed
<1> QED
    BY <1>10, <1>11, <1>12, <1>13, <1>14, <1>15, <1>16, <1>17, <1>18, <1>19, <1>20, <1>21,
       <1>22, <1>23, <1>24, <1>25, <1>26, <1>27, <1>28, <1>29, <1>30, <1>31, <1>32, <1>33,
       <1>34, <1>35, <1>36, <1>37, <1>38, <1>39 DEF StepKind

\* What the loop remembers of an item without a run stays empty.
LEMMA KeepsUnbornRuns ==
    ASSUME ServiceInv, StepKind
    PROVE  UnbornRuns'
<1>0. Types /\ Handles /\ FreshJobs /\ UnbornRuns /\ None \notin Jobs
    BY ServiceAssumption DEF ServiceInv
<1> DEFINE Kept == UnbornRuns'
<1> SUFFICES Kept
    OBVIOUS
<1> USE DEF Types, Handles, FreshJobs, UnbornRuns, Fresh, Phase, JobRecords, FreeJob, Eligible,
     NotListed, ReopenPending
<1> USE DEF vars, disk, loop, service, threads, history, limits
<1>10. CASE Recover
    BY <1>0, <1>10 DEF Recover, NextStep
<1>11. CASE BeginCycle
    BY <1>0, <1>11 DEF BeginCycle, NextStep
<1>12. CASE ListRuns
    BY <1>0, <1>12 DEF ListRuns
<1>13. CASE ReconcileActive
    BY <1>0, <1>13 DEF ReconcileActive, NextStep
<1>14. CASE ClaimBatch
    BY <1>0, <1>14 DEF ClaimBatch
<1>15. CASE CycleFails
    BY <1>0, <1>15 DEF CycleFails, ReturnTo
<1>16. CASE Wake
    BY <1>0, <1>16 DEF Wake, NextStep
<1>17. CASE Crash
    BY <1>0, <1>17 DEF Crash, ReturnTo
<1>18. CASE IsIdle
    BY <1>0, <1>18 DEF IsIdle
<1>19. CASE PassesItem
    BY <1>0, <1>19 DEF PassesItem, loopFrame
<1>20. CASE EndsResume
    BY <1>0, <1>20 DEF EndsResume, loopFrame
<1>21. CASE EndsReopen
    BY <1>0, <1>21 DEF EndsReopen, loopFrame
<1>22. CASE EndsStall
    BY <1>0, <1>22 DEF EndsStall, loopFrame
<1>23. CASE EndsPart("ingest", "tick") \/ EndsPart("dispatch", "wait")
    BY <1>0, <1>23 DEF EndsPart, loopFrame
<1>24. ASSUME NEW i \in Items, Resumes(i) PROVE Kept
    <2>1. PICK j \in Jobs : Queued(j, i, "resume")
        BY <1>24 DEF Resumes, TakesSlot
    <2> QED
        BY <1>0, <1>24, <2>1 DEF Resumes, TakesSlot, Queued
<1>25. ASSUME NEW i \in Items, Reopens(i) PROVE Kept
    <2>1. PICK j \in Jobs : Queued(j, i, "reopen")
        BY <1>25 DEF Reopens, TakesSlot
    <2> QED
        BY <1>0, <1>25, <2>1 DEF Reopens, TakesSlot, Queued
<1>26. ASSUME NEW i \in Items, Accepts(i) PROVE Kept
    <2>1. PICK j \in Jobs : Queued(j, i, "reopen")
        BY <1>26 DEF Accepts, TakesSlot
    <2> QED
        BY <1>0, <1>26, <2>1 DEF Accepts, TakesSlot, Queued
<1>27. ASSUME NEW i \in Items, Dispatches(i) PROVE Kept
    <2>1. PICK j \in Jobs : Queued(j, i, "fresh")
        BY <1>27 DEF Dispatches
    <2> QED
        BY <1>0, <1>27, <2>1 DEF Dispatches, Queued
<1>28. ASSUME NEW i \in Items, CancelsStalled(i) PROVE Kept
    BY <1>0, <1>28 DEF CancelsStalled, GivesUp, Freed
<1>29. ASSUME NEW i \in Items, StopsStalled(i) PROVE Kept
    BY <1>0, <1>29 DEF StopsStalled, GivesUp
<1>30. ASSUME NEW j \in Jobs, Starts(j) PROVE Kept
    BY <1>0, <1>30 DEF Starts, workerFrame, PhaseOf
<1>31. ASSUME NEW j \in Jobs, Creates(j) PROVE Kept
    BY <1>0, <1>31 DEF Creates, workerFrame, PhaseOf
<1>32. ASSUME NEW j \in Jobs, Drops(j) PROVE Kept
    BY <1>0, <1>32 DEF Drops, workerFrame, PhaseOf
<1>33. ASSUME NEW j \in Jobs, PutsBack(j) PROVE Kept
    BY <1>0, <1>33 DEF PutsBack, workerFrame, PhaseOf
<1>34. ASSUME NEW j \in Jobs, Drives(j) PROVE Kept
    BY <1>0, <1>34 DEF Drives, workerFrame, PhaseOf
<1>35. ASSUME NEW j \in Jobs, Halts(j) PROVE Kept
    BY <1>0, <1>35 DEF Halts, workerFrame, PhaseOf
<1>36. ASSUME NEW j \in Jobs, Swings(j) PROVE Kept
    BY <1>0, <1>36 DEF Swings, workerFrame, PhaseOf
<1>37. ASSUME NEW j \in Jobs, IsStopped(j) PROVE Kept
    BY <1>0, <1>37 DEF IsStopped, workerFrame, PhaseOf
<1>38. ASSUME NEW j \in Jobs, Leaves(j) PROVE Kept
    BY <1>0, <1>38 DEF Leaves, workerFrame, PhaseOf
<1>39. ASSUME NEW j \in Jobs, Ends(j) PROVE Kept
    BY <1>0, <1>39 DEF Ends, workerFrame, Freed
<1> QED
    BY <1>10, <1>11, <1>12, <1>13, <1>14, <1>15, <1>16, <1>17, <1>18, <1>19, <1>20, <1>21,
       <1>22, <1>23, <1>24, <1>25, <1>26, <1>27, <1>28, <1>29, <1>30, <1>31, <1>32, <1>33,
       <1>34, <1>35, <1>36, <1>37, <1>38, <1>39 DEF StepKind

-----------------------------------------------------------------------------
(* The completion event *)

\* While the loop waits, the event is set when finished work still holds its reservation.
LEMMA KeepsCompletion ==
    ASSUME ServiceInv, CompletionInv, StepKind
    PROVE  CompletionInv'
<1>0. Types /\ Handles /\ CompletionInv /\ None \notin Jobs
    BY ServiceAssumption DEF ServiceInv
<1> DEFINE Kept == CompletionInv'
<1> SUFFICES Kept
    OBVIOUS
<1> USE DEF Types, Handles, CompletionInv, Phase, JobRecords, FreeJob, IsDone
<1> USE DEF vars, disk, loop, service, threads, history, limits
<1>10. CASE Recover
    BY <1>0, <1>10 DEF Recover, NextStep
<1>11. CASE BeginCycle
    BY <1>0, <1>11 DEF BeginCycle, NextStep
<1>12. CASE ListRuns
    BY <1>0, <1>12 DEF ListRuns
<1>13. CASE ReconcileActive
    BY <1>0, <1>13 DEF ReconcileActive, NextStep
<1>14. CASE ClaimBatch
    BY <1>0, <1>14 DEF ClaimBatch
<1>15. CASE CycleFails
    BY <1>0, <1>15 DEF CycleFails, ReturnTo
<1>16. CASE Wake
    BY <1>0, <1>16 DEF Wake, NextStep
<1>17. CASE Crash
    BY <1>0, <1>17 DEF Crash, ReturnTo
<1>18. CASE IsIdle
    BY <1>0, <1>18 DEF IsIdle
<1>19. CASE PassesItem
    BY <1>0, <1>19 DEF PassesItem, loopFrame
<1>20. CASE EndsResume
    BY <1>0, <1>20 DEF EndsResume, loopFrame
<1>21. CASE EndsReopen
    BY <1>0, <1>21 DEF EndsReopen, loopFrame
<1>22. CASE EndsStall
    BY <1>0, <1>22 DEF EndsStall, loopFrame
<1>23. CASE EndsPart("ingest", "tick") \/ EndsPart("dispatch", "wait")
    BY <1>0, <1>23 DEF EndsPart, loopFrame
<1>24. ASSUME NEW i \in Items, Resumes(i) PROVE Kept
    <2>1. PICK j \in Jobs : Queued(j, i, "resume")
        BY <1>24 DEF Resumes, TakesSlot
    <2> QED
        BY <1>0, <1>24, <2>1 DEF Resumes, TakesSlot, Queued
<1>25. ASSUME NEW i \in Items, Reopens(i) PROVE Kept
    <2>1. PICK j \in Jobs : Queued(j, i, "reopen")
        BY <1>25 DEF Reopens, TakesSlot
    <2> QED
        BY <1>0, <1>25, <2>1 DEF Reopens, TakesSlot, Queued
<1>26. ASSUME NEW i \in Items, Accepts(i) PROVE Kept
    <2>1. PICK j \in Jobs : Queued(j, i, "reopen")
        BY <1>26 DEF Accepts, TakesSlot
    <2> QED
        BY <1>0, <1>26, <2>1 DEF Accepts, TakesSlot, Queued
<1>27. ASSUME NEW i \in Items, Dispatches(i) PROVE Kept
    <2>1. PICK j \in Jobs : Queued(j, i, "fresh")
        BY <1>27 DEF Dispatches
    <2> QED
        BY <1>0, <1>27, <2>1 DEF Dispatches, Queued
<1>28. ASSUME NEW i \in Items, CancelsStalled(i) PROVE Kept
    BY <1>0, <1>28 DEF CancelsStalled, GivesUp, Freed
<1>29. ASSUME NEW i \in Items, StopsStalled(i) PROVE Kept
    BY <1>0, <1>29 DEF StopsStalled, GivesUp
<1>30. ASSUME NEW j \in Jobs, Starts(j) PROVE Kept
    BY <1>0, <1>30 DEF Starts, workerFrame, PhaseOf
<1>31. ASSUME NEW j \in Jobs, Creates(j) PROVE Kept
    BY <1>0, <1>31 DEF Creates, workerFrame, PhaseOf
<1>32. ASSUME NEW j \in Jobs, Drops(j) PROVE Kept
    BY <1>0, <1>32 DEF Drops, workerFrame, PhaseOf
<1>33. ASSUME NEW j \in Jobs, PutsBack(j) PROVE Kept
    BY <1>0, <1>33 DEF PutsBack, workerFrame, PhaseOf
<1>34. ASSUME NEW j \in Jobs, Drives(j) PROVE Kept
    BY <1>0, <1>34 DEF Drives, workerFrame, PhaseOf
<1>35. ASSUME NEW j \in Jobs, Halts(j) PROVE Kept
    BY <1>0, <1>35 DEF Halts, workerFrame, PhaseOf
<1>36. ASSUME NEW j \in Jobs, Swings(j) PROVE Kept
    BY <1>0, <1>36 DEF Swings, workerFrame, PhaseOf
<1>37. ASSUME NEW j \in Jobs, IsStopped(j) PROVE Kept
    BY <1>0, <1>37 DEF IsStopped, workerFrame, PhaseOf
<1>38. ASSUME NEW j \in Jobs, Leaves(j) PROVE Kept
    BY <1>0, <1>38 DEF Leaves, workerFrame, PhaseOf
<1>39. ASSUME NEW j \in Jobs, Ends(j) PROVE Kept
    BY <1>0, <1>39 DEF Ends, workerFrame, Freed
<1> QED
    BY <1>10, <1>11, <1>12, <1>13, <1>14, <1>15, <1>16, <1>17, <1>18, <1>19, <1>20, <1>21,
       <1>22, <1>23, <1>24, <1>25, <1>26, <1>27, <1>28, <1>29, <1>30, <1>31, <1>32, <1>33,
       <1>34, <1>35, <1>36, <1>37, <1>38, <1>39 DEF StepKind

-----------------------------------------------------------------------------
(* One task at a time *)

\* With one task at a time, counts of zero and one say who is there.
LEMMA OneTaskCounts ==
    ASSUME MaxConcurrent = 1, Types
    PROVE  /\ FreeSlots \in Int /\ FreeSlots <= 1
           /\ FreeSlots > 0 => \A i \in Items : IsDone(i)
           /\ Cardinality(Driving) = 1 => \E k \in Jobs : Phase(k) \in {"driving", "hung"}
           /\ Cardinality(active) < 1 => active = {}
<1> DEFINE open == {i \in Items : ~IsDone(i)}
<1>1. IsFiniteSet(open) /\ Cardinality(open) \in Nat /\ IsFiniteSet(active) /\ Cardinality(active) \in Nat
    BY ItemsAreFinite DEF Types
<1>2. Cardinality(open) = 0 => open = {}
    BY <1>1, FS_EmptySet
<1>3. Cardinality(active) = 0 => active = {}
    BY <1>1, FS_EmptySet
<1>4. Cardinality(Driving) = 1 => Driving # {}
    BY FS_EmptySet
<1>5. FreeSlots = 1 - Cardinality(open)
    BY DEF FreeSlots
<1>6. open = {} => \A i \in Items : IsDone(i)
    OBVIOUS
<1> HIDE DEF open
<1>7. FreeSlots \in Int /\ FreeSlots <= 1 /\ (FreeSlots > 0 => open = {})
    BY <1>1, <1>2, <1>5
<1>8. Cardinality(active) < 1 => active = {}
    BY <1>1, <1>3
<1> QED
    BY <1>4, <1>6, <1>7, <1>8 DEF Driving

\* The handle of an item stays that of its only live job.
LEMMA KeepsLiveJobs ==
    ASSUME MaxConcurrent = 1, ServiceInv, OneTaskInv, StepKind
    PROVE  LiveJobs'
<1>0. /\ Types /\ Handles /\ FreshJobs /\ UnbornRuns /\ None \notin Jobs
      /\ LiveJobs /\ FreeSlot /\ ContinuedJobs /\ HeldRuns /\ StopRequests
      /\ FreeSlots \in Int /\ FreeSlots <= 1
      /\ FreeSlots > 0 => \A i \in Items : IsDone(i)
      /\ Cardinality(Driving) = 1 => \E k \in Jobs : Phase(k) \in {"driving", "hung"}
      /\ Cardinality(active) < 1 => active = {}
    BY OneTaskCounts, ServiceAssumption DEF ServiceInv, OneTaskInv
<1> DEFINE Kept == LiveJobs'
<1> SUFFICES Kept
    OBVIOUS
<1> USE DEF Types, Handles, JobRecords, FreeJob, Phase, Live, LiveJobs, FreeSlot, ContinuedJobs,
     Continued, FreshJobs, Fresh, UnbornRuns, Eligible
<1> USE DEF vars, disk, loop, service, threads, history, limits
<1>10. CASE Recover
    BY <1>0, <1>10 DEF Recover, NextStep
<1>11. CASE BeginCycle
    BY <1>0, <1>11 DEF BeginCycle, NextStep
<1>12. CASE ListRuns
    BY <1>0, <1>12 DEF ListRuns
<1>13. CASE ReconcileActive
    BY <1>0, <1>13 DEF ReconcileActive, NextStep
<1>14. CASE ClaimBatch
    BY <1>0, <1>14 DEF ClaimBatch
<1>15. CASE CycleFails
    BY <1>0, <1>15 DEF CycleFails, ReturnTo
<1>16. CASE Wake
    BY <1>0, <1>16 DEF Wake, NextStep
<1>17. CASE Crash
    BY <1>0, <1>17 DEF Crash, ReturnTo
<1>18. CASE IsIdle
    BY <1>0, <1>18 DEF IsIdle
<1>19. CASE PassesItem
    BY <1>0, <1>19 DEF PassesItem, loopFrame
<1>20. CASE EndsResume
    BY <1>0, <1>20 DEF EndsResume, loopFrame
<1>21. CASE EndsReopen
    BY <1>0, <1>21 DEF EndsReopen, loopFrame
<1>22. CASE EndsStall
    BY <1>0, <1>22 DEF EndsStall, loopFrame
<1>23. CASE EndsPart("ingest", "tick") \/ EndsPart("dispatch", "wait")
    BY <1>0, <1>23 DEF EndsPart, loopFrame
<1>24. ASSUME NEW i \in Items, Resumes(i) PROVE Kept
    <2>1. PICK j \in Jobs : Queued(j, i, "resume")
        BY <1>24 DEF Resumes, TakesSlot
    <2> QED
        BY <1>0, <1>24, <2>1 DEF Resumes, TakesSlot, Queued
<1>25. ASSUME NEW i \in Items, Reopens(i) PROVE Kept
    <2>1. PICK j \in Jobs : Queued(j, i, "reopen")
        BY <1>25 DEF Reopens, TakesSlot
    <2> QED
        BY <1>0, <1>25, <2>1 DEF Reopens, TakesSlot, Queued
<1>26. ASSUME NEW i \in Items, Accepts(i) PROVE Kept
    <2>1. PICK j \in Jobs : Queued(j, i, "reopen")
        BY <1>26 DEF Accepts, TakesSlot
    <2> QED
        BY <1>0, <1>26, <2>1 DEF Accepts, TakesSlot, Queued
<1>27. ASSUME NEW i \in Items, Dispatches(i) PROVE Kept
    <2>1. PICK j \in Jobs : Queued(j, i, "fresh")
        BY <1>27 DEF Dispatches
    <2> QED
        BY <1>0, <1>27, <2>1 DEF Dispatches, Queued
<1>28. ASSUME NEW i \in Items, CancelsStalled(i) PROVE Kept
    BY <1>0, <1>28 DEF CancelsStalled, GivesUp, Freed
<1>29. ASSUME NEW i \in Items, StopsStalled(i) PROVE Kept
    BY <1>0, <1>29 DEF StopsStalled, GivesUp
<1>30. ASSUME NEW j \in Jobs, Starts(j) PROVE Kept
    BY <1>0, <1>30 DEF Starts, workerFrame, PhaseOf
<1>31. ASSUME NEW j \in Jobs, Creates(j) PROVE Kept
    BY <1>0, <1>31 DEF Creates, workerFrame, PhaseOf
<1>32. ASSUME NEW j \in Jobs, Drops(j) PROVE Kept
    BY <1>0, <1>32 DEF Drops, workerFrame, PhaseOf
<1>33. ASSUME NEW j \in Jobs, PutsBack(j) PROVE Kept
    BY <1>0, <1>33 DEF PutsBack, workerFrame, PhaseOf
<1>34. ASSUME NEW j \in Jobs, Drives(j) PROVE Kept
    BY <1>0, <1>34 DEF Drives, workerFrame, PhaseOf
<1>35. ASSUME NEW j \in Jobs, Halts(j) PROVE Kept
    BY <1>0, <1>35 DEF Halts, workerFrame, PhaseOf
<1>36. ASSUME NEW j \in Jobs, Swings(j) PROVE Kept
    BY <1>0, <1>36 DEF Swings, workerFrame, PhaseOf
<1>37. ASSUME NEW j \in Jobs, IsStopped(j) PROVE Kept
    BY <1>0, <1>37 DEF IsStopped, workerFrame, PhaseOf
<1>38. ASSUME NEW j \in Jobs, Leaves(j) PROVE Kept
    BY <1>0, <1>38 DEF Leaves, workerFrame, PhaseOf
<1>39. ASSUME NEW j \in Jobs, Ends(j) PROVE Kept
    BY <1>0, <1>39 DEF Ends, workerFrame, Freed
<1> QED
    BY <1>10, <1>11, <1>12, <1>13, <1>14, <1>15, <1>16, <1>17, <1>18, <1>19, <1>20, <1>21,
       <1>22, <1>23, <1>24, <1>25, <1>26, <1>27, <1>28, <1>29, <1>30, <1>31, <1>32, <1>33,
       <1>34, <1>35, <1>36, <1>37, <1>38, <1>39 DEF StepKind

\* A free slot keeps meaning that no job is live.
LEMMA KeepsFreeSlot ==
    ASSUME MaxConcurrent = 1, ServiceInv, OneTaskInv, StepKind
    PROVE  FreeSlot'
<1>0. /\ Types /\ Handles /\ FreshJobs /\ UnbornRuns /\ None \notin Jobs
      /\ LiveJobs /\ FreeSlot /\ ContinuedJobs /\ HeldRuns /\ StopRequests
      /\ FreeSlots \in Int /\ FreeSlots <= 1
      /\ FreeSlots > 0 => \A i \in Items : IsDone(i)
      /\ Cardinality(Driving) = 1 => \E k \in Jobs : Phase(k) \in {"driving", "hung"}
      /\ Cardinality(active) < 1 => active = {}
    BY OneTaskCounts, ServiceAssumption DEF ServiceInv, OneTaskInv
<1> DEFINE Kept == FreeSlot'
<1> SUFFICES Kept
    OBVIOUS
<1> USE DEF Types, Handles, JobRecords, FreeJob, Phase, Live, LiveJobs, FreeSlot, IsDone
<1> USE DEF vars, disk, loop, service, threads, history, limits
<1>10. CASE Recover
    BY <1>0, <1>10 DEF Recover, NextStep
<1>11. CASE BeginCycle
    BY <1>0, <1>11 DEF BeginCycle, NextStep
<1>12. CASE ListRuns
    BY <1>0, <1>12 DEF ListRuns
<1>13. CASE ReconcileActive
    BY <1>0, <1>13 DEF ReconcileActive, NextStep
<1>14. CASE ClaimBatch
    BY <1>0, <1>14 DEF ClaimBatch
<1>15. CASE CycleFails
    BY <1>0, <1>15 DEF CycleFails, ReturnTo
<1>16. CASE Wake
    BY <1>0, <1>16 DEF Wake, NextStep
<1>17. CASE Crash
    BY <1>0, <1>17 DEF Crash, ReturnTo
<1>18. CASE IsIdle
    BY <1>0, <1>18 DEF IsIdle
<1>19. CASE PassesItem
    BY <1>0, <1>19 DEF PassesItem, loopFrame
<1>20. CASE EndsResume
    BY <1>0, <1>20 DEF EndsResume, loopFrame
<1>21. CASE EndsReopen
    BY <1>0, <1>21 DEF EndsReopen, loopFrame
<1>22. CASE EndsStall
    BY <1>0, <1>22 DEF EndsStall, loopFrame
<1>23. CASE EndsPart("ingest", "tick") \/ EndsPart("dispatch", "wait")
    BY <1>0, <1>23 DEF EndsPart, loopFrame
<1>24. ASSUME NEW i \in Items, Resumes(i) PROVE Kept
    <2>1. PICK j \in Jobs : Queued(j, i, "resume")
        BY <1>24 DEF Resumes, TakesSlot
    <2> QED
        BY <1>0, <1>24, <2>1 DEF Resumes, TakesSlot, Queued
<1>25. ASSUME NEW i \in Items, Reopens(i) PROVE Kept
    <2>1. PICK j \in Jobs : Queued(j, i, "reopen")
        BY <1>25 DEF Reopens, TakesSlot
    <2> QED
        BY <1>0, <1>25, <2>1 DEF Reopens, TakesSlot, Queued
<1>26. ASSUME NEW i \in Items, Accepts(i) PROVE Kept
    <2>1. PICK j \in Jobs : Queued(j, i, "reopen")
        BY <1>26 DEF Accepts, TakesSlot
    <2> QED
        BY <1>0, <1>26, <2>1 DEF Accepts, TakesSlot, Queued
<1>27. ASSUME NEW i \in Items, Dispatches(i) PROVE Kept
    <2>1. PICK j \in Jobs : Queued(j, i, "fresh")
        BY <1>27 DEF Dispatches
    <2> QED
        BY <1>0, <1>27, <2>1 DEF Dispatches, Queued
<1>28. ASSUME NEW i \in Items, CancelsStalled(i) PROVE Kept
    BY <1>0, <1>28 DEF CancelsStalled, GivesUp, Freed
<1>29. ASSUME NEW i \in Items, StopsStalled(i) PROVE Kept
    BY <1>0, <1>29 DEF StopsStalled, GivesUp
<1>30. ASSUME NEW j \in Jobs, Starts(j) PROVE Kept
    BY <1>0, <1>30 DEF Starts, workerFrame, PhaseOf
<1>31. ASSUME NEW j \in Jobs, Creates(j) PROVE Kept
    BY <1>0, <1>31 DEF Creates, workerFrame, PhaseOf
<1>32. ASSUME NEW j \in Jobs, Drops(j) PROVE Kept
    BY <1>0, <1>32 DEF Drops, workerFrame, PhaseOf
<1>33. ASSUME NEW j \in Jobs, PutsBack(j) PROVE Kept
    BY <1>0, <1>33 DEF PutsBack, workerFrame, PhaseOf
<1>34. ASSUME NEW j \in Jobs, Drives(j) PROVE Kept
    BY <1>0, <1>34 DEF Drives, workerFrame, PhaseOf
<1>35. ASSUME NEW j \in Jobs, Halts(j) PROVE Kept
    BY <1>0, <1>35 DEF Halts, workerFrame, PhaseOf
<1>36. ASSUME NEW j \in Jobs, Swings(j) PROVE Kept
    BY <1>0, <1>36 DEF Swings, workerFrame, PhaseOf
<1>37. ASSUME NEW j \in Jobs, IsStopped(j) PROVE Kept
    BY <1>0, <1>37 DEF IsStopped, workerFrame, PhaseOf
<1>38. ASSUME NEW j \in Jobs, Leaves(j) PROVE Kept
    BY <1>0, <1>38 DEF Leaves, workerFrame, PhaseOf
<1>39. ASSUME NEW j \in Jobs, Ends(j) PROVE Kept
    BY <1>0, <1>39 DEF Ends, workerFrame, Freed
<1> QED
    BY <1>10, <1>11, <1>12, <1>13, <1>14, <1>15, <1>16, <1>17, <1>18, <1>19, <1>20, <1>21,
       <1>22, <1>23, <1>24, <1>25, <1>26, <1>27, <1>28, <1>29, <1>30, <1>31, <1>32, <1>33,
       <1>34, <1>35, <1>36, <1>37, <1>38, <1>39 DEF StepKind

\* A job of a persisted run waits for its thread alone and under its reservation.
LEMMA KeepsContinuedJobs ==
    ASSUME MaxConcurrent = 1, ServiceInv, OneTaskInv, StepKind
    PROVE  ContinuedJobs'
<1>0. /\ Types /\ Handles /\ FreshJobs /\ UnbornRuns /\ None \notin Jobs
      /\ LiveJobs /\ FreeSlot /\ ContinuedJobs /\ HeldRuns /\ StopRequests
      /\ FreeSlots \in Int /\ FreeSlots <= 1
      /\ FreeSlots > 0 => \A i \in Items : IsDone(i)
      /\ Cardinality(Driving) = 1 => \E k \in Jobs : Phase(k) \in {"driving", "hung"}
      /\ Cardinality(active) < 1 => active = {}
    BY OneTaskCounts, ServiceAssumption DEF ServiceInv, OneTaskInv
<1> DEFINE Kept == ContinuedJobs'
<1> SUFFICES Kept
    OBVIOUS
<1> USE DEF Types, Handles, JobRecords, FreeJob, Phase, Live, LiveJobs, FreeSlot, ContinuedJobs,
     Continued, IsDone
<1> USE DEF vars, disk, loop, service, threads, history, limits
<1>10. CASE Recover
    BY <1>0, <1>10 DEF Recover, NextStep
<1>11. CASE BeginCycle
    BY <1>0, <1>11 DEF BeginCycle, NextStep
<1>12. CASE ListRuns
    BY <1>0, <1>12 DEF ListRuns
<1>13. CASE ReconcileActive
    BY <1>0, <1>13 DEF ReconcileActive, NextStep
<1>14. CASE ClaimBatch
    BY <1>0, <1>14 DEF ClaimBatch
<1>15. CASE CycleFails
    BY <1>0, <1>15 DEF CycleFails, ReturnTo
<1>16. CASE Wake
    BY <1>0, <1>16 DEF Wake, NextStep
<1>17. CASE Crash
    BY <1>0, <1>17 DEF Crash, ReturnTo
<1>18. CASE IsIdle
    BY <1>0, <1>18 DEF IsIdle
<1>19. CASE PassesItem
    BY <1>0, <1>19 DEF PassesItem, loopFrame
<1>20. CASE EndsResume
    BY <1>0, <1>20 DEF EndsResume, loopFrame
<1>21. CASE EndsReopen
    BY <1>0, <1>21 DEF EndsReopen, loopFrame
<1>22. CASE EndsStall
    BY <1>0, <1>22 DEF EndsStall, loopFrame
<1>23. CASE EndsPart("ingest", "tick") \/ EndsPart("dispatch", "wait")
    BY <1>0, <1>23 DEF EndsPart, loopFrame
<1>24. ASSUME NEW i \in Items, Resumes(i) PROVE Kept
    <2>1. PICK j \in Jobs : Queued(j, i, "resume")
        BY <1>24 DEF Resumes, TakesSlot
    <2> QED
        BY <1>0, <1>24, <2>1 DEF Resumes, TakesSlot, Queued
<1>25. ASSUME NEW i \in Items, Reopens(i) PROVE Kept
    <2>1. PICK j \in Jobs : Queued(j, i, "reopen")
        BY <1>25 DEF Reopens, TakesSlot
    <2> QED
        BY <1>0, <1>25, <2>1 DEF Reopens, TakesSlot, Queued
<1>26. ASSUME NEW i \in Items, Accepts(i) PROVE Kept
    <2>1. PICK j \in Jobs : Queued(j, i, "reopen")
        BY <1>26 DEF Accepts, TakesSlot
    <2> QED
        BY <1>0, <1>26, <2>1 DEF Accepts, TakesSlot, Queued
<1>27. ASSUME NEW i \in Items, Dispatches(i) PROVE Kept
    <2>1. PICK j \in Jobs : Queued(j, i, "fresh")
        BY <1>27 DEF Dispatches
    <2> QED
        BY <1>0, <1>27, <2>1 DEF Dispatches, Queued
<1>28. ASSUME NEW i \in Items, CancelsStalled(i) PROVE Kept
    BY <1>0, <1>28 DEF CancelsStalled, GivesUp, Freed
<1>29. ASSUME NEW i \in Items, StopsStalled(i) PROVE Kept
    BY <1>0, <1>29 DEF StopsStalled, GivesUp
<1>30. ASSUME NEW j \in Jobs, Starts(j) PROVE Kept
    BY <1>0, <1>30 DEF Starts, workerFrame, PhaseOf
<1>31. ASSUME NEW j \in Jobs, Creates(j) PROVE Kept
    BY <1>0, <1>31 DEF Creates, workerFrame, PhaseOf
<1>32. ASSUME NEW j \in Jobs, Drops(j) PROVE Kept
    BY <1>0, <1>32 DEF Drops, workerFrame, PhaseOf
<1>33. ASSUME NEW j \in Jobs, PutsBack(j) PROVE Kept
    BY <1>0, <1>33 DEF PutsBack, workerFrame, PhaseOf
<1>34. ASSUME NEW j \in Jobs, Drives(j) PROVE Kept
    BY <1>0, <1>34 DEF Drives, workerFrame, PhaseOf
<1>35. ASSUME NEW j \in Jobs, Halts(j) PROVE Kept
    BY <1>0, <1>35 DEF Halts, workerFrame, PhaseOf
<1>36. ASSUME NEW j \in Jobs, Swings(j) PROVE Kept
    BY <1>0, <1>36 DEF Swings, workerFrame, PhaseOf
<1>37. ASSUME NEW j \in Jobs, IsStopped(j) PROVE Kept
    BY <1>0, <1>37 DEF IsStopped, workerFrame, PhaseOf
<1>38. ASSUME NEW j \in Jobs, Leaves(j) PROVE Kept
    BY <1>0, <1>38 DEF Leaves, workerFrame, PhaseOf
<1>39. ASSUME NEW j \in Jobs, Ends(j) PROVE Kept
    BY <1>0, <1>39 DEF Ends, workerFrame, Freed
<1> QED
    BY <1>10, <1>11, <1>12, <1>13, <1>14, <1>15, <1>16, <1>17, <1>18, <1>19, <1>20, <1>21,
       <1>22, <1>23, <1>24, <1>25, <1>26, <1>27, <1>28, <1>29, <1>30, <1>31, <1>32, <1>33,
       <1>34, <1>35, <1>36, <1>37, <1>38, <1>39 DEF StepKind

\* An unfinished run stays in somebody's hands.
LEMMA KeepsHeldRuns ==
    ASSUME MaxConcurrent = 1, ServiceInv, OneTaskInv, StepKind
    PROVE  HeldRuns'
<1>0. /\ Types /\ Handles /\ FreshJobs /\ UnbornRuns /\ None \notin Jobs
      /\ LiveJobs /\ FreeSlot /\ ContinuedJobs /\ HeldRuns /\ StopRequests
      /\ FreeSlots \in Int /\ FreeSlots <= 1
      /\ FreeSlots > 0 => \A i \in Items : IsDone(i)
      /\ Cardinality(Driving) = 1 => \E k \in Jobs : Phase(k) \in {"driving", "hung"}
      /\ Cardinality(active) < 1 => active = {}
    BY OneTaskCounts, ServiceAssumption DEF ServiceInv, OneTaskInv
<1> DEFINE Kept == HeldRuns'
<1> SUFFICES Kept
    OBVIOUS
<1> USE DEF Types, Handles, JobRecords, FreeJob, Phase, Live, FreshJobs, Fresh, ContinuedJobs,
     Continued, HeldRuns, Holds
<1> USE DEF vars, disk, loop, service, threads, history, limits
<1>10. CASE Recover
    BY <1>0, <1>10 DEF Recover, NextStep
<1>11. CASE BeginCycle
    BY <1>0, <1>11 DEF BeginCycle, NextStep
<1>12. CASE ListRuns
    BY <1>0, <1>12 DEF ListRuns
<1>13. CASE ReconcileActive
    BY <1>0, <1>13 DEF ReconcileActive, NextStep
<1>14. CASE ClaimBatch
    BY <1>0, <1>14 DEF ClaimBatch
<1>15. CASE CycleFails
    BY <1>0, <1>15 DEF CycleFails, ReturnTo
<1>16. CASE Wake
    BY <1>0, <1>16 DEF Wake, NextStep
<1>17. CASE Crash
    BY <1>0, <1>17 DEF Crash, ReturnTo
<1>18. CASE IsIdle
    BY <1>0, <1>18 DEF IsIdle
<1>19. CASE PassesItem
    BY <1>0, <1>19 DEF PassesItem, loopFrame
<1>20. CASE EndsResume
    BY <1>0, <1>20 DEF EndsResume, loopFrame
<1>21. CASE EndsReopen
    BY <1>0, <1>21 DEF EndsReopen, loopFrame
<1>22. CASE EndsStall
    BY <1>0, <1>22 DEF EndsStall, loopFrame
<1>23. CASE EndsPart("ingest", "tick") \/ EndsPart("dispatch", "wait")
    BY <1>0, <1>23 DEF EndsPart, loopFrame
<1>24. ASSUME NEW i \in Items, Resumes(i) PROVE Kept
    <2>1. PICK j \in Jobs : Queued(j, i, "resume")
        BY <1>24 DEF Resumes, TakesSlot
    <2> QED
        BY <1>0, <1>24, <2>1 DEF Resumes, TakesSlot, Queued
<1>25. ASSUME NEW i \in Items, Reopens(i) PROVE Kept
    <2>1. PICK j \in Jobs : Queued(j, i, "reopen")
        BY <1>25 DEF Reopens, TakesSlot
    <2> QED
        BY <1>0, <1>25, <2>1 DEF Reopens, TakesSlot, Queued
<1>26. ASSUME NEW i \in Items, Accepts(i) PROVE Kept
    <2>1. PICK j \in Jobs : Queued(j, i, "reopen")
        BY <1>26 DEF Accepts, TakesSlot
    <2> QED
        BY <1>0, <1>26, <2>1 DEF Accepts, TakesSlot, Queued
<1>27. ASSUME NEW i \in Items, Dispatches(i) PROVE Kept
    <2>1. PICK j \in Jobs : Queued(j, i, "fresh")
        BY <1>27 DEF Dispatches
    <2> QED
        BY <1>0, <1>27, <2>1 DEF Dispatches, Queued
<1>28. ASSUME NEW i \in Items, CancelsStalled(i) PROVE Kept
    BY <1>0, <1>28 DEF CancelsStalled, GivesUp, Freed
<1>29. ASSUME NEW i \in Items, StopsStalled(i) PROVE Kept
    BY <1>0, <1>29 DEF StopsStalled, GivesUp
<1>30. ASSUME NEW j \in Jobs, Starts(j) PROVE Kept
    BY <1>0, <1>30 DEF Starts, workerFrame, PhaseOf
<1>31. ASSUME NEW j \in Jobs, Creates(j) PROVE Kept
    <2>1. job'[j].item = job[j].item /\ job'[j].phase = "driving"
        BY <1>31 DEF Creates, PhaseOf
    <2>2. ASSUME NEW k \in Jobs, Holds(k)
          PROVE  Holds(k)' /\ job'[k].item = job[k].item
        BY <1>0, <1>31, <2>2 DEF Creates, PhaseOf
    <2>3. pc' = pc /\ interrupted' = interrupted /\ lost' = lost
        BY <1>31 DEF Creates, workerFrame
    <2>4. \A i \in Items : i = job[j].item \/ run'[i] = run[i]
        BY <1>31 DEF Creates
    <2>5. ASSUME pc # "recover", NEW i \in Items, run'[i] = "working"
          PROVE  i \in interrupted' \cup lost' \/ \E k \in Jobs : job'[k].item = i /\ Holds(k)'
        <3>1. CASE i = job[j].item
            BY <2>1, <3>1
        <3>2. CASE run[i] = "working"
            <4>1. CASE i \in interrupted \cup lost
                BY <2>3, <4>1
            <4>2. CASE \E k \in Jobs : job[k].item = i /\ Holds(k)
                <5>1. PICK k \in Jobs : job[k].item = i /\ Holds(k)
                    BY <4>2
                <5> QED
                    BY <2>2, <5>1
            <4> QED
                BY <1>0, <2>5, <3>2, <4>1, <4>2
        <3> QED
            BY <2>4, <2>5, <3>1, <3>2
    <2> QED
        BY <2>3, <2>5
<1>32. ASSUME NEW j \in Jobs, Drops(j) PROVE Kept
    BY <1>0, <1>32 DEF Drops, workerFrame, PhaseOf
<1>33. ASSUME NEW j \in Jobs, PutsBack(j) PROVE Kept
    BY <1>0, <1>33 DEF PutsBack, workerFrame, PhaseOf
<1>34. ASSUME NEW j \in Jobs, Drives(j) PROVE Kept
    BY <1>0, <1>34 DEF Drives, workerFrame, PhaseOf
<1>35. ASSUME NEW j \in Jobs, Halts(j) PROVE Kept
    BY <1>0, <1>35 DEF Halts, workerFrame, PhaseOf
<1>36. ASSUME NEW j \in Jobs, Swings(j) PROVE Kept
    BY <1>0, <1>36 DEF Swings, workerFrame, PhaseOf
<1>37. ASSUME NEW j \in Jobs, IsStopped(j) PROVE Kept
    BY <1>0, <1>37 DEF IsStopped, workerFrame, PhaseOf
<1>38. ASSUME NEW j \in Jobs, Leaves(j) PROVE Kept
    BY <1>0, <1>38 DEF Leaves, workerFrame, PhaseOf
<1>39. ASSUME NEW j \in Jobs, Ends(j) PROVE Kept
    BY <1>0, <1>39 DEF Ends, workerFrame, Freed
<1> QED
    BY <1>10, <1>11, <1>12, <1>13, <1>14, <1>15, <1>16, <1>17, <1>18, <1>19, <1>20, <1>21,
       <1>22, <1>23, <1>24, <1>25, <1>26, <1>27, <1>28, <1>29, <1>30, <1>31, <1>32, <1>33,
       <1>34, <1>35, <1>36, <1>37, <1>38, <1>39 DEF StepKind

\* A stop request concerns a job that the stall check stopped.
LEMMA KeepsStopRequests ==
    ASSUME MaxConcurrent = 1, ServiceInv, OneTaskInv, StepKind
    PROVE  StopRequests'
<1>0. /\ Types /\ Handles /\ FreshJobs /\ UnbornRuns /\ None \notin Jobs
      /\ LiveJobs /\ FreeSlot /\ ContinuedJobs /\ HeldRuns /\ StopRequests
      /\ FreeSlots \in Int /\ FreeSlots <= 1
      /\ FreeSlots > 0 => \A i \in Items : IsDone(i)
      /\ Cardinality(Driving) = 1 => \E k \in Jobs : Phase(k) \in {"driving", "hung"}
      /\ Cardinality(active) < 1 => active = {}
    BY OneTaskCounts, ServiceAssumption DEF ServiceInv, OneTaskInv
<1> DEFINE Kept == StopRequests'
<1> SUFFICES Kept
    OBVIOUS
<1> USE DEF Types, Handles, JobRecords, FreeJob, Phase, Live, LiveJobs, StopRequests
<1> USE DEF vars, disk, loop, service, threads, history, limits
<1>10. CASE Recover
    BY <1>0, <1>10 DEF Recover, NextStep
<1>11. CASE BeginCycle
    BY <1>0, <1>11 DEF BeginCycle, NextStep
<1>12. CASE ListRuns
    BY <1>0, <1>12 DEF ListRuns
<1>13. CASE ReconcileActive
    BY <1>0, <1>13 DEF ReconcileActive, NextStep
<1>14. CASE ClaimBatch
    BY <1>0, <1>14 DEF ClaimBatch
<1>15. CASE CycleFails
    BY <1>0, <1>15 DEF CycleFails, ReturnTo
<1>16. CASE Wake
    BY <1>0, <1>16 DEF Wake, NextStep
<1>17. CASE Crash
    BY <1>0, <1>17 DEF Crash, ReturnTo
<1>18. CASE IsIdle
    BY <1>0, <1>18 DEF IsIdle
<1>19. CASE PassesItem
    BY <1>0, <1>19 DEF PassesItem, loopFrame
<1>20. CASE EndsResume
    BY <1>0, <1>20 DEF EndsResume, loopFrame
<1>21. CASE EndsReopen
    BY <1>0, <1>21 DEF EndsReopen, loopFrame
<1>22. CASE EndsStall
    BY <1>0, <1>22 DEF EndsStall, loopFrame
<1>23. CASE EndsPart("ingest", "tick") \/ EndsPart("dispatch", "wait")
    BY <1>0, <1>23 DEF EndsPart, loopFrame
<1>24. ASSUME NEW i \in Items, Resumes(i) PROVE Kept
    <2>1. PICK j \in Jobs : Queued(j, i, "resume")
        BY <1>24 DEF Resumes, TakesSlot
    <2> QED
        BY <1>0, <1>24, <2>1 DEF Resumes, TakesSlot, Queued
<1>25. ASSUME NEW i \in Items, Reopens(i) PROVE Kept
    <2>1. PICK j \in Jobs : Queued(j, i, "reopen")
        BY <1>25 DEF Reopens, TakesSlot
    <2> QED
        BY <1>0, <1>25, <2>1 DEF Reopens, TakesSlot, Queued
<1>26. ASSUME NEW i \in Items, Accepts(i) PROVE Kept
    <2>1. PICK j \in Jobs : Queued(j, i, "reopen")
        BY <1>26 DEF Accepts, TakesSlot
    <2> QED
        BY <1>0, <1>26, <2>1 DEF Accepts, TakesSlot, Queued
<1>27. ASSUME NEW i \in Items, Dispatches(i) PROVE Kept
    <2>1. PICK j \in Jobs : Queued(j, i, "fresh")
        BY <1>27 DEF Dispatches
    <2> QED
        BY <1>0, <1>27, <2>1 DEF Dispatches, Queued
<1>28. ASSUME NEW i \in Items, CancelsStalled(i) PROVE Kept
    BY <1>0, <1>28 DEF CancelsStalled, GivesUp, Freed
<1>29. ASSUME NEW i \in Items, StopsStalled(i) PROVE Kept
    BY <1>0, <1>29 DEF StopsStalled, GivesUp
<1>30. ASSUME NEW j \in Jobs, Starts(j) PROVE Kept
    BY <1>0, <1>30 DEF Starts, workerFrame, PhaseOf
<1>31. ASSUME NEW j \in Jobs, Creates(j) PROVE Kept
    BY <1>0, <1>31 DEF Creates, workerFrame, PhaseOf
<1>32. ASSUME NEW j \in Jobs, Drops(j) PROVE Kept
    BY <1>0, <1>32 DEF Drops, workerFrame, PhaseOf
<1>33. ASSUME NEW j \in Jobs, PutsBack(j) PROVE Kept
    BY <1>0, <1>33 DEF PutsBack, workerFrame, PhaseOf
<1>34. ASSUME NEW j \in Jobs, Drives(j) PROVE Kept
    BY <1>0, <1>34 DEF Drives, workerFrame, PhaseOf
<1>35. ASSUME NEW j \in Jobs, Halts(j) PROVE Kept
    BY <1>0, <1>35 DEF Halts, workerFrame, PhaseOf
<1>36. ASSUME NEW j \in Jobs, Swings(j) PROVE Kept
    BY <1>0, <1>36 DEF Swings, workerFrame, PhaseOf
<1>37. ASSUME NEW j \in Jobs, IsStopped(j) PROVE Kept
    BY <1>0, <1>37 DEF IsStopped, workerFrame, PhaseOf
<1>38. ASSUME NEW j \in Jobs, Leaves(j) PROVE Kept
    BY <1>0, <1>38 DEF Leaves, workerFrame, PhaseOf
<1>39. ASSUME NEW j \in Jobs, Ends(j) PROVE Kept
    BY <1>0, <1>39 DEF Ends, workerFrame, Freed
<1> QED
    BY <1>10, <1>11, <1>12, <1>13, <1>14, <1>15, <1>16, <1>17, <1>18, <1>19, <1>20, <1>21,
       <1>22, <1>23, <1>24, <1>25, <1>26, <1>27, <1>28, <1>29, <1>30, <1>31, <1>32, <1>33,
       <1>34, <1>35, <1>36, <1>37, <1>38, <1>39 DEF StepKind

-----------------------------------------------------------------------------
(* The daily quota *)

\* Only a thread below the limit takes a job.
LEMMA BusySteps ==
    ASSUME ServiceInv, StepKind
    PROVE  \/ Busy' \subseteq Busy
           \/ \E j \in Jobs : Busy' = Busy \cup {j} /\ Cardinality(Busy) < MaxConcurrent
<1>0. Types /\ Handles /\ FreshJobs /\ UnbornRuns /\ None \notin Jobs
    BY ServiceAssumption DEF ServiceInv
<1> DEFINE Kept == \/ Busy' \subseteq Busy
           \/ \E j \in Jobs : Busy' = Busy \cup {j} /\ Cardinality(Busy) < MaxConcurrent
<1> SUFFICES Kept
    OBVIOUS
<1> USE DEF Handles, Busy, Phase, FreeJob
<1> USE DEF vars, disk, loop, service, threads, history, limits
<1>10. CASE Recover
    BY <1>0, <1>10 DEF Recover, NextStep
<1>11. CASE BeginCycle
    BY <1>0, <1>11 DEF BeginCycle, NextStep
<1>12. CASE ListRuns
    BY <1>0, <1>12 DEF ListRuns
<1>13. CASE ReconcileActive
    BY <1>0, <1>13 DEF ReconcileActive, NextStep
<1>14. CASE ClaimBatch
    BY <1>0, <1>14 DEF ClaimBatch
<1>15. CASE CycleFails
    BY <1>0, <1>15 DEF CycleFails, ReturnTo
<1>16. CASE Wake
    BY <1>0, <1>16 DEF Wake, NextStep
<1>17. CASE Crash
    BY <1>0, <1>17 DEF Crash, ReturnTo
<1>18. CASE IsIdle
    BY <1>0, <1>18 DEF IsIdle
<1>19. CASE PassesItem
    BY <1>0, <1>19 DEF PassesItem, loopFrame
<1>20. CASE EndsResume
    BY <1>0, <1>20 DEF EndsResume, loopFrame
<1>21. CASE EndsReopen
    BY <1>0, <1>21 DEF EndsReopen, loopFrame
<1>22. CASE EndsStall
    BY <1>0, <1>22 DEF EndsStall, loopFrame
<1>23. CASE EndsPart("ingest", "tick") \/ EndsPart("dispatch", "wait")
    BY <1>0, <1>23 DEF EndsPart, loopFrame
<1>24. ASSUME NEW i \in Items, Resumes(i) PROVE Kept
    <2>1. PICK j \in Jobs : Queued(j, i, "resume")
        BY <1>24 DEF Resumes, TakesSlot
    <2> QED
        BY <1>0, <1>24, <2>1 DEF Resumes, TakesSlot, Queued
<1>25. ASSUME NEW i \in Items, Reopens(i) PROVE Kept
    <2>1. PICK j \in Jobs : Queued(j, i, "reopen")
        BY <1>25 DEF Reopens, TakesSlot
    <2> QED
        BY <1>0, <1>25, <2>1 DEF Reopens, TakesSlot, Queued
<1>26. ASSUME NEW i \in Items, Accepts(i) PROVE Kept
    <2>1. PICK j \in Jobs : Queued(j, i, "reopen")
        BY <1>26 DEF Accepts, TakesSlot
    <2> QED
        BY <1>0, <1>26, <2>1 DEF Accepts, TakesSlot, Queued
<1>27. ASSUME NEW i \in Items, Dispatches(i) PROVE Kept
    <2>1. PICK j \in Jobs : Queued(j, i, "fresh")
        BY <1>27 DEF Dispatches
    <2> QED
        BY <1>0, <1>27, <2>1 DEF Dispatches, Queued
<1>28. ASSUME NEW i \in Items, CancelsStalled(i) PROVE Kept
    BY <1>0, <1>28 DEF CancelsStalled, GivesUp, Freed
<1>29. ASSUME NEW i \in Items, StopsStalled(i) PROVE Kept
    BY <1>0, <1>29 DEF StopsStalled, GivesUp
<1>30. ASSUME NEW j \in Jobs, Starts(j) PROVE Kept
    BY <1>0, <1>30 DEF Starts, workerFrame, PhaseOf
<1>31. ASSUME NEW j \in Jobs, Creates(j) PROVE Kept
    BY <1>0, <1>31 DEF Creates, workerFrame, PhaseOf
<1>32. ASSUME NEW j \in Jobs, Drops(j) PROVE Kept
    BY <1>0, <1>32 DEF Drops, workerFrame, PhaseOf
<1>33. ASSUME NEW j \in Jobs, PutsBack(j) PROVE Kept
    BY <1>0, <1>33 DEF PutsBack, workerFrame, PhaseOf
<1>34. ASSUME NEW j \in Jobs, Drives(j) PROVE Kept
    BY <1>0, <1>34 DEF Drives, workerFrame, PhaseOf
<1>35. ASSUME NEW j \in Jobs, Halts(j) PROVE Kept
    BY <1>0, <1>35 DEF Halts, workerFrame, PhaseOf
<1>36. ASSUME NEW j \in Jobs, Swings(j) PROVE Kept
    BY <1>0, <1>36 DEF Swings, workerFrame, PhaseOf
<1>37. ASSUME NEW j \in Jobs, IsStopped(j) PROVE Kept
    BY <1>0, <1>37 DEF IsStopped, workerFrame, PhaseOf
<1>38. ASSUME NEW j \in Jobs, Leaves(j) PROVE Kept
    BY <1>0, <1>38 DEF Leaves, workerFrame, PhaseOf
<1>39. ASSUME NEW j \in Jobs, Ends(j) PROVE Kept
    BY <1>0, <1>39 DEF Ends, workerFrame, Freed
<1> QED
    BY <1>10, <1>11, <1>12, <1>13, <1>14, <1>15, <1>16, <1>17, <1>18, <1>19, <1>20, <1>21,
       <1>22, <1>23, <1>24, <1>25, <1>26, <1>27, <1>28, <1>29, <1>30, <1>31, <1>32, <1>33,
       <1>34, <1>35, <1>36, <1>37, <1>38, <1>39 DEF StepKind

\* A step that takes nothing from the quota.
TakesNothing == Pending' \subseteq Pending /\ claimed' <= claimed /\ Room' <= Room

\* A step that turns room into a claim, a pending run into a claim, or room into a pending run.
TakesOne ==
    \/ Pending' \subseteq Pending /\ claimed' = claimed + 1 /\ Room' <= Room - 1
    \/ \E j \in Pending : Pending' \subseteq Pending \ {j} /\ claimed' = claimed + 1 /\ Room' <= Room
    \/ \E j \in Jobs : Pending' = Pending \cup {j} /\ claimed' = claimed /\ Room' <= Room - 1

\* Every step but the two that read the quota moves at most one unit of it.
LEMMA QuotaSteps ==
    ASSUME ServiceInv, StepKind
    PROVE  TakesNothing \/ TakesOne \/ ListRuns \/ ClaimBatch
<1>0. Types /\ Handles /\ FreshJobs /\ UnbornRuns /\ None \notin Jobs
    BY ServiceAssumption DEF ServiceInv
<1> DEFINE Kept == TakesNothing \/ TakesOne \/ ListRuns \/ ClaimBatch
<1> SUFFICES Kept
    OBVIOUS
<1> USE DEF Types, Handles, TakesNothing, TakesOne, Pending, Room, Fresh, Phase, FreeJob
<1> USE DEF vars, disk, loop, service, threads, history, limits
<1>10. CASE Recover
    BY <1>0, <1>10 DEF Recover, NextStep
<1>11. CASE BeginCycle
    BY <1>0, <1>11 DEF BeginCycle, NextStep
<1>12. CASE ListRuns
    BY <1>0, <1>12 DEF ListRuns
<1>13. CASE ReconcileActive
    BY <1>0, <1>13 DEF ReconcileActive, NextStep
<1>14. CASE ClaimBatch
    BY <1>0, <1>14 DEF ClaimBatch
<1>15. CASE CycleFails
    BY <1>0, <1>15 DEF CycleFails, ReturnTo
<1>16. CASE Wake
    BY <1>0, <1>16 DEF Wake, NextStep
<1>17. CASE Crash
    BY <1>0, <1>17 DEF Crash, ReturnTo
<1>18. CASE IsIdle
    BY <1>0, <1>18 DEF IsIdle
<1>19. CASE PassesItem
    BY <1>0, <1>19 DEF PassesItem, loopFrame
<1>20. CASE EndsResume
    BY <1>0, <1>20 DEF EndsResume, loopFrame
<1>21. CASE EndsReopen
    BY <1>0, <1>21 DEF EndsReopen, loopFrame
<1>22. CASE EndsStall
    BY <1>0, <1>22 DEF EndsStall, loopFrame
<1>23. CASE EndsPart("ingest", "tick") \/ EndsPart("dispatch", "wait")
    BY <1>0, <1>23 DEF EndsPart, loopFrame
<1>24. ASSUME NEW i \in Items, Resumes(i) PROVE Kept
    <2>1. PICK j \in Jobs : Queued(j, i, "resume")
        BY <1>24 DEF Resumes, TakesSlot
    <2> QED
        BY <1>0, <1>24, <2>1 DEF Resumes, TakesSlot, Queued
<1>25. ASSUME NEW i \in Items, Reopens(i) PROVE Kept
    <2>1. PICK j \in Jobs : Queued(j, i, "reopen")
        BY <1>25 DEF Reopens, TakesSlot
    <2> QED
        BY <1>0, <1>25, <2>1 DEF Reopens, TakesSlot, Queued
<1>26. ASSUME NEW i \in Items, Accepts(i) PROVE Kept
    <2>1. PICK j \in Jobs : Queued(j, i, "reopen")
        BY <1>26 DEF Accepts, TakesSlot
    <2> QED
        BY <1>0, <1>26, <2>1 DEF Accepts, TakesSlot, Queued
<1>27. ASSUME NEW i \in Items, Dispatches(i) PROVE Kept
    <2>1. PICK j \in Jobs : Queued(j, i, "fresh")
        BY <1>27 DEF Dispatches
    <2> QED
        BY <1>0, <1>27, <2>1 DEF Dispatches, Queued
<1>28. ASSUME NEW i \in Items, CancelsStalled(i) PROVE Kept
    BY <1>0, <1>28 DEF CancelsStalled, GivesUp, Freed
<1>29. ASSUME NEW i \in Items, StopsStalled(i) PROVE Kept
    BY <1>0, <1>29 DEF StopsStalled, GivesUp
<1>30. ASSUME NEW j \in Jobs, Starts(j) PROVE Kept
    BY <1>0, <1>30 DEF Starts, workerFrame, PhaseOf
<1>31. ASSUME NEW j \in Jobs, Creates(j) PROVE Kept
    BY <1>0, <1>31 DEF Creates, workerFrame, PhaseOf
<1>32. ASSUME NEW j \in Jobs, Drops(j) PROVE Kept
    BY <1>0, <1>32 DEF Drops, workerFrame, PhaseOf
<1>33. ASSUME NEW j \in Jobs, PutsBack(j) PROVE Kept
    BY <1>0, <1>33 DEF PutsBack, workerFrame, PhaseOf
<1>34. ASSUME NEW j \in Jobs, Drives(j) PROVE Kept
    BY <1>0, <1>34 DEF Drives, workerFrame, PhaseOf
<1>35. ASSUME NEW j \in Jobs, Halts(j) PROVE Kept
    BY <1>0, <1>35 DEF Halts, workerFrame, PhaseOf
<1>36. ASSUME NEW j \in Jobs, Swings(j) PROVE Kept
    BY <1>0, <1>36 DEF Swings, workerFrame, PhaseOf
<1>37. ASSUME NEW j \in Jobs, IsStopped(j) PROVE Kept
    BY <1>0, <1>37 DEF IsStopped, workerFrame, PhaseOf
<1>38. ASSUME NEW j \in Jobs, Leaves(j) PROVE Kept
    BY <1>0, <1>38 DEF Leaves, workerFrame, PhaseOf
<1>39. ASSUME NEW j \in Jobs, Ends(j) PROVE Kept
    BY <1>0, <1>39 DEF Ends, workerFrame, Freed
<1> QED
    BY <1>10, <1>11, <1>12, <1>13, <1>14, <1>15, <1>16, <1>17, <1>18, <1>19, <1>20, <1>21,
       <1>22, <1>23, <1>24, <1>25, <1>26, <1>27, <1>28, <1>29, <1>30, <1>31, <1>32, <1>33,
       <1>34, <1>35, <1>36, <1>37, <1>38, <1>39 DEF StepKind

\* The scheduler comes to claim only with a reservation left.
LEMMA ClaimSteps ==
    ASSUME ServiceInv, QuotaInv, StepKind
    PROVE  (pc' = "claim" => Cardinality(active') < MaxConcurrent)
<1>0. /\ Types /\ Cardinality(active) \in Nat /\ MaxConcurrent \in Nat
      /\ pc = "claim" => Cardinality(active) < MaxConcurrent
    BY ItemsAreFinite, ServiceAssumption DEF ServiceInv, Types, QuotaInv
<1> DEFINE Kept == (pc' = "claim" => Cardinality(active') < MaxConcurrent)
<1> SUFFICES Kept
    OBVIOUS
<1> USE DEF Steps
<1> USE DEF vars, disk, loop, service, threads, history, limits
<1>10. CASE Recover
    BY <1>0, <1>10 DEF Recover, NextStep
<1>11. CASE BeginCycle
    BY <1>0, <1>11 DEF BeginCycle, NextStep
<1>12. CASE ListRuns
    BY <1>0, <1>12 DEF ListRuns
<1>13. CASE ReconcileActive
    BY <1>0, <1>13 DEF ReconcileActive, NextStep
<1>14. CASE ClaimBatch
    BY <1>0, <1>14 DEF ClaimBatch
<1>15. CASE CycleFails
    BY <1>0, <1>15 DEF CycleFails, ReturnTo
<1>16. CASE Wake
    BY <1>0, <1>16 DEF Wake, NextStep
<1>17. CASE Crash
    BY <1>0, <1>17 DEF Crash, ReturnTo
<1>18. CASE IsIdle
    BY <1>0, <1>18 DEF IsIdle
<1>19. CASE PassesItem
    BY <1>0, <1>19 DEF PassesItem, loopFrame
<1>20. CASE EndsResume
    BY <1>0, <1>20 DEF EndsResume, loopFrame
<1>21. CASE EndsReopen
    BY <1>0, <1>21 DEF EndsReopen, loopFrame
<1>22. CASE EndsStall
    BY <1>0, <1>22 DEF EndsStall, loopFrame
<1>23. CASE EndsPart("ingest", "tick") \/ EndsPart("dispatch", "wait")
    BY <1>0, <1>23 DEF EndsPart, loopFrame
<1>24. ASSUME NEW i \in Items, Resumes(i) PROVE Kept
    <2>1. PICK j \in Jobs : Queued(j, i, "resume")
        BY <1>24 DEF Resumes, TakesSlot
    <2> QED
        BY <1>0, <1>24, <2>1 DEF Resumes, TakesSlot, Queued
<1>25. ASSUME NEW i \in Items, Reopens(i) PROVE Kept
    <2>1. PICK j \in Jobs : Queued(j, i, "reopen")
        BY <1>25 DEF Reopens, TakesSlot
    <2> QED
        BY <1>0, <1>25, <2>1 DEF Reopens, TakesSlot, Queued
<1>26. ASSUME NEW i \in Items, Accepts(i) PROVE Kept
    <2>1. PICK j \in Jobs : Queued(j, i, "reopen")
        BY <1>26 DEF Accepts, TakesSlot
    <2> QED
        BY <1>0, <1>26, <2>1 DEF Accepts, TakesSlot, Queued
<1>27. ASSUME NEW i \in Items, Dispatches(i) PROVE Kept
    <2>1. PICK j \in Jobs : Queued(j, i, "fresh")
        BY <1>27 DEF Dispatches
    <2> QED
        BY <1>0, <1>27, <2>1 DEF Dispatches, Queued
<1>28. ASSUME NEW i \in Items, CancelsStalled(i) PROVE Kept
    BY <1>0, <1>28 DEF CancelsStalled, GivesUp, Freed
<1>29. ASSUME NEW i \in Items, StopsStalled(i) PROVE Kept
    BY <1>0, <1>29 DEF StopsStalled, GivesUp
<1>30. ASSUME NEW j \in Jobs, Starts(j) PROVE Kept
    BY <1>0, <1>30 DEF Starts, workerFrame, PhaseOf
<1>31. ASSUME NEW j \in Jobs, Creates(j) PROVE Kept
    BY <1>0, <1>31 DEF Creates, workerFrame, PhaseOf
<1>32. ASSUME NEW j \in Jobs, Drops(j) PROVE Kept
    BY <1>0, <1>32 DEF Drops, workerFrame, PhaseOf
<1>33. ASSUME NEW j \in Jobs, PutsBack(j) PROVE Kept
    BY <1>0, <1>33 DEF PutsBack, workerFrame, PhaseOf
<1>34. ASSUME NEW j \in Jobs, Drives(j) PROVE Kept
    BY <1>0, <1>34 DEF Drives, workerFrame, PhaseOf
<1>35. ASSUME NEW j \in Jobs, Halts(j) PROVE Kept
    BY <1>0, <1>35 DEF Halts, workerFrame, PhaseOf
<1>36. ASSUME NEW j \in Jobs, Swings(j) PROVE Kept
    BY <1>0, <1>36 DEF Swings, workerFrame, PhaseOf
<1>37. ASSUME NEW j \in Jobs, IsStopped(j) PROVE Kept
    BY <1>0, <1>37 DEF IsStopped, workerFrame, PhaseOf
<1>38. ASSUME NEW j \in Jobs, Leaves(j) PROVE Kept
    BY <1>0, <1>38 DEF Leaves, workerFrame, PhaseOf
<1>39. ASSUME NEW j \in Jobs, Ends(j) PROVE Kept
    BY <1>0, <1>39 DEF Ends, workerFrame, Freed
<1> QED
    BY <1>10, <1>11, <1>12, <1>13, <1>14, <1>15, <1>16, <1>17, <1>18, <1>19, <1>20, <1>21,
       <1>22, <1>23, <1>24, <1>25, <1>26, <1>27, <1>28, <1>29, <1>30, <1>31, <1>32, <1>33,
       <1>34, <1>35, <1>36, <1>37, <1>38, <1>39 DEF StepKind

\* Jobs of new runs have items of their own, so distinct pending jobs have distinct items.
LEMMA PendingItems ==
    ASSUME ServiceInv, NEW S \in SUBSET Pending, NEW T \in SUBSET Items,
           \A j \in S : job[j].item \in T
    PROVE  Cardinality(S) <= Cardinality(T)
<1> DEFINE f == [j \in S |-> job[j].item]
<1>1. \A j, k \in S : job[j].item = job[k].item => j = k
    BY DEF ServiceInv, FreshJobs, Pending
<1>2. f \in [S -> T]
    OBVIOUS
<1>3. \A j, k \in S : f[j] = f[k] => j = k
    BY <1>1
<1> HIDE DEF f
<1>4. f \in Injection(S, T)
    BY <1>2, <1>3 DEF Injection, IsInjective
<1> QED
    BY <1>4, ItemsAreFinite, FS_Injection

\* A free slot leaves fewer than MaxConcurrent runs that are not persisted yet.
LEMMA PendingAtList ==
    ASSUME ServiceInv
    PROVE  Cardinality(Pending) <= MaxConcurrent - FreeSlots
<1> DEFINE open == {i \in Items : ~IsDone(i)}
<1>1. \A j \in Pending : job[j].item \in open
    BY ServiceAssumption DEF ServiceInv, Types, Handles, FreshJobs, Pending, Fresh, Phase, IsDone
<1>2. Cardinality(Pending) <= Cardinality(open)
    BY <1>1, PendingItems
<1>3. FreeSlots = MaxConcurrent - Cardinality(open) /\ Cardinality(open) \in Nat
    BY ItemsAreFinite DEF FreeSlots
<1> QED
    BY <1>2, <1>3, ItemsAreFinite, ServiceAssumption DEF Pending

\* When the scheduler may claim, fewer than MaxConcurrent pending runs are reserved, and the others
\* have a thread.
LEMMA PendingAtClaim ==
    ASSUME ServiceInv, Cardinality(active) < MaxConcurrent, Cardinality(Busy) <= MaxConcurrent
    PROVE  Cardinality(Pending) <= MaxConcurrent + (MaxConcurrent - 1)
<1> DEFINE reserved == {j \in Pending : job[j].item \in active}
<1> DEFINE others == Pending \ reserved
<1>1. active \in SUBSET Items /\ \A j \in reserved : job[j].item \in active
    BY DEF ServiceInv, Types
<1>2. Cardinality(reserved) <= Cardinality(active)
    BY <1>1, PendingItems
<1>3. others \in SUBSET Busy
    BY DEF ServiceInv, FreshJobs, Pending, Fresh, Busy, Phase
<1>4. Cardinality(others) <= Cardinality(Busy)
    BY <1>3, ItemsAreFinite, FS_Subset DEF Busy
<1>5. Pending = reserved \cup others /\ reserved \in SUBSET Jobs /\ others \in SUBSET Jobs
    BY DEF Pending
<1>6. IsFiniteSet(reserved) /\ IsFiniteSet(others)
    BY <1>5, ItemsAreFinite
<1>7. Cardinality(Pending) = Cardinality(reserved) + Cardinality(others)
                               - Cardinality(reserved \cap others)
    BY <1>5, <1>6, FS_Union
<1>8. reserved \cap others = {}
    OBVIOUS
<1>9. Cardinality(reserved \cap others) = 0
    BY <1>8, FS_EmptySet
<1>10. /\ Cardinality(reserved) \in Nat /\ Cardinality(others) \in Nat
       /\ Cardinality(active) \in Nat /\ Cardinality(Busy) \in Nat
    BY <1>1, <1>5, ItemsAreFinite DEF Busy
<1> HIDE DEF reserved, others
<1> QED
    BY <1>2, <1>4, <1>7, <1>9, <1>10, ServiceAssumption

\* One more element makes a set larger by at most one.
LEMMA OneMore ==
    ASSUME NEW S, NEW x, IsFiniteSet(S), Cardinality(S) \in Nat
    PROVE  Cardinality(S \cup {x}) <= Cardinality(S) + 1
<1>1. Cardinality(S \cup {x}) = Cardinality(S) \/ Cardinality(S \cup {x}) = Cardinality(S) + 1
    BY FS_AddElement, Zenon
<1> DEFINE larger == Cardinality(S \cup {x})
<1>2. larger = Cardinality(S) \/ larger = Cardinality(S) + 1
    BY <1>1
<1> HIDE DEF larger
<1>3. larger <= Cardinality(S) + 1
    BY <1>2
<1> QED
    BY <1>3 DEF larger

\* Room that is in the quota, and a bound for the pending runs, bound the three together.
LEMMA RoomAndPending ==
    ASSUME NEW c \in Int, NEW q \in Int, NEW r \in Int, NEW p \in Int, NEW m \in Int, NEW b \in Int,
           c + q <= m, r <= q, p <= b
    PROVE  c + p + r <= m + b
OBVIOUS

\* The quota and its overrun stay bounded.
LEMMA KeepsQuota ==
    ASSUME ServiceInv, QuotaInv, [Next]_vars, StepKind
    PROVE  QuotaInv'
<1> DEFINE bound == MaxRunsPerDay + MaxConcurrent + (MaxConcurrent - 1)
<1>0. /\ Types /\ Types' /\ bound \in Int /\ MaxConcurrent \in Nat /\ MaxRunsPerDay \in Nat
      /\ slots \in Int /\ quota \in Nat /\ claimed \in Nat
      /\ slots' \in Int /\ quota' \in Nat /\ claimed' \in Nat
    BY KeepsTypes, ServiceAssumption DEF ServiceInv, Types
<1>1. /\ IsFiniteSet(Pending) /\ Cardinality(Pending) \in Nat
      /\ IsFiniteSet(Pending') /\ Cardinality(Pending') \in Nat
      /\ IsFiniteSet(Busy) /\ Cardinality(Busy) \in Nat
      /\ IsFiniteSet(Busy') /\ Cardinality(Busy') \in Nat
    BY ItemsAreFinite DEF Pending, Busy
<1>2. Room \in Nat /\ Room' \in Nat
    BY <1>0 DEF Room
<1>3. Cardinality(Busy') <= MaxConcurrent
    <2>1. CASE Busy' \subseteq Busy
        <3>1. Cardinality(Busy') <= Cardinality(Busy)
            BY <1>1, <2>1, FS_Subset
        <3> QED
            BY <1>0, <1>1, <3>1 DEF QuotaInv
    <2>2. ASSUME NEW j \in Jobs, Busy' = Busy \cup {j}, Cardinality(Busy) < MaxConcurrent
          PROVE  Cardinality(Busy') <= MaxConcurrent
        <3>1. Cardinality(Busy \cup {j}) <= Cardinality(Busy) + 1
            BY <1>1, OneMore
        <3> QED
            BY <1>0, <1>1, <2>2, <3>1
    <2> QED
        BY <2>1, <2>2, BusySteps
<1>4. pc' = "claim" => Cardinality(active') < MaxConcurrent
    BY ClaimSteps, <1>0 DEF QuotaInv
<1>5. claimed + Cardinality(Pending) + Room <= bound
    BY DEF QuotaInv
<1>6. claimed' + Cardinality(Pending') + Room' <= bound
    <2>1. Pending' \subseteq Pending => Cardinality(Pending') <= Cardinality(Pending)
        BY <1>1, FS_Subset
    <2>2. CASE TakesNothing
        BY <1>0, <1>1, <1>2, <1>5, <2>1, <2>2 DEF TakesNothing
    <2>3. CASE Pending' \subseteq Pending /\ claimed' = claimed + 1 /\ Room' <= Room - 1
        BY <1>0, <1>1, <1>2, <1>5, <2>1, <2>3
    <2>4. ASSUME NEW j \in Pending, Pending' \subseteq Pending \ {j}, claimed' = claimed + 1,
                 Room' <= Room
          PROVE  claimed' + Cardinality(Pending') + Room' <= bound
        <3>1. IsFiniteSet(Pending \ {j}) /\ Cardinality(Pending \ {j}) = Cardinality(Pending) - 1
            BY <1>1, FS_RemoveElement
        <3>2. Cardinality(Pending') <= Cardinality(Pending \ {j})
            BY <2>4, <3>1, FS_Subset
        <3> QED
            BY <1>0, <1>1, <1>2, <1>5, <2>4, <3>1, <3>2
    <2>5. ASSUME NEW j \in Jobs, Pending' = Pending \cup {j}, claimed' = claimed, Room' <= Room - 1
          PROVE  claimed' + Cardinality(Pending') + Room' <= bound
        <3>1. Cardinality(Pending \cup {j}) <= Cardinality(Pending) + 1
            BY <1>1, OneMore
        <3>2. Cardinality(Pending') <= Cardinality(Pending) + 1
            BY <2>5, <3>1
        <3> QED
            BY <1>0, <1>1, <1>2, <1>5, <2>5, <3>2
    <2>6. ASSUME ListRuns \/ ClaimBatch
          PROVE  /\ Cardinality(Pending') = Cardinality(Pending) /\ claimed' = claimed
                 /\ quota' <= 0 \/ claimed + quota' <= MaxRunsPerDay
                 /\ Room' <= quota'
        <3>1. quota' <= 0 \/ claimed + quota' <= MaxRunsPerDay
            <4>1. quota' = RemainingQuota
                BY <2>6 DEF ListRuns, ClaimBatch
            <4>2. RemainingQuota <= 0 \/ claimed + RemainingQuota <= MaxRunsPerDay
                BY <1>0 DEF RemainingQuota
            <4> QED
                BY <4>1, <4>2
        <3>2. Room' <= quota'
            BY <1>0 DEF Room
        <3>3. Pending' = Pending
            BY <2>6 DEF ListRuns, ClaimBatch, Pending, Fresh, Phase, threads
        <3> QED
            BY <2>6, <3>1, <3>2, <3>3 DEF ListRuns, ClaimBatch, disk
    <2>9. ASSUME ListRuns \/ ClaimBatch,
                 Cardinality(Pending) <= MaxConcurrent + (MaxConcurrent - 1)
          PROVE  claimed' + Cardinality(Pending') + Room' <= bound
        <3>1. CASE quota' <= 0
            <4>1. Room' = 0
                BY <1>0, <2>6, <2>9, <3>1 DEF Room
            <4>2. claimed + Cardinality(Pending) <= bound
                BY <1>0, <1>1, <1>2, <1>5
            <4>3. claimed' + Cardinality(Pending') + Room' = claimed + Cardinality(Pending)
                <5>1. claimed' + Cardinality(Pending') + Room' = claimed + Cardinality(Pending) + 0
                    BY <2>6, <2>9, <4>1
                <5>2. claimed + Cardinality(Pending) + 0 = claimed + Cardinality(Pending)
                    BY <1>0, <1>1
                <5> QED
                    BY <5>1, <5>2
            <4> QED
                BY <4>2, <4>3
        <3>2. CASE claimed + quota' <= MaxRunsPerDay
            <4>1. /\ claimed \in Int /\ quota' \in Int /\ Room' \in Int /\ Cardinality(Pending) \in Int
                  /\ MaxRunsPerDay \in Int /\ MaxConcurrent + (MaxConcurrent - 1) \in Int
                  /\ Room' <= quota'
                <5>1. Room' <= quota'
                    BY <2>6, <2>9
                <5>2. Room' \in Int /\ quota' \in Int
                    BY <1>0, <1>2
                <5>3. MaxConcurrent + (MaxConcurrent - 1) \in Int /\ MaxRunsPerDay \in Int
                    BY <1>0
                <5>4. claimed \in Int /\ Cardinality(Pending) \in Int
                    BY <1>0, <1>1
                <5> QED
                    BY <5>1, <5>2, <5>3, <5>4
            <4>2. claimed + Cardinality(Pending) + Room'
                      <= MaxRunsPerDay + (MaxConcurrent + (MaxConcurrent - 1))
                BY <2>9, <3>2, <4>1, RoomAndPending
            <4>3. claimed' + Cardinality(Pending') + Room' = claimed + Cardinality(Pending) + Room'
                BY <2>6, <2>9
            <4> QED
                BY <1>0, <4>2, <4>3
        <3> QED
            BY <2>6, <2>9, <3>1, <3>2
    <2>7. CASE ListRuns
        <3>1. slots' = FreeSlots /\ pc' = "resume"
            BY <2>7 DEF ListRuns
        <3>2. CASE slots' > 0
            <4>1. Cardinality(Pending) <= MaxConcurrent - slots'
                BY <3>1, PendingAtList
            <4>2. Cardinality(Pending) <= MaxConcurrent + (MaxConcurrent - 1)
                BY <1>0, <1>1, <3>2, <4>1
            <4> QED
                BY <2>7, <2>9, <4>2
        <3>3. CASE ~(slots' > 0)
            <4>1. Room' = 0
                BY <3>1, <3>3 DEF Room
            <4> QED
                BY <1>0, <1>1, <1>2, <1>5, <2>6, <2>7, <4>1
        <3> QED
            BY <3>2, <3>3
    <2>8. CASE ClaimBatch
        <3>1. pc = "claim"
            BY <2>8 DEF ClaimBatch
        <3>2. Cardinality(Pending) <= MaxConcurrent + (MaxConcurrent - 1)
            BY <3>1, PendingAtClaim DEF QuotaInv
        <3> QED
            BY <2>8, <2>9, <3>2
    <2> QED
        BY <2>2, <2>3, <2>4, <2>5, <2>7, <2>8, QuotaSteps DEF TakesOne
<1> QED
    BY <1>3, <1>4, <1>6 DEF QuotaInv

-----------------------------------------------------------------------------
(* What the stall check stops *)

\* A job that drives its run ends early only when the stall check stopped it.
LEMMA StopSteps ==
    ASSUME ServiceInv, OneTaskInv, StepKind
    PROVE  StopsItsOwnJob
<1>0. /\ Types /\ Handles /\ FreshJobs /\ None \notin Jobs /\ LiveJobs /\ ContinuedJobs /\ StopRequests
    BY ServiceAssumption DEF ServiceInv, OneTaskInv
<1> DEFINE Kept == StopsItsOwnJob
<1> SUFFICES Kept
    OBVIOUS
<1> USE DEF Types, Handles, JobRecords, FreeJob, Phase, Live, StopRequests, StopsItsOwnJob
<1> USE DEF vars, disk, loop, service, threads, history, limits
<1>10. CASE Recover
    BY <1>0, <1>10 DEF Recover, NextStep
<1>11. CASE BeginCycle
    BY <1>0, <1>11 DEF BeginCycle, NextStep
<1>12. CASE ListRuns
    BY <1>0, <1>12 DEF ListRuns
<1>13. CASE ReconcileActive
    BY <1>0, <1>13 DEF ReconcileActive, NextStep
<1>14. CASE ClaimBatch
    BY <1>0, <1>14 DEF ClaimBatch
<1>15. CASE CycleFails
    BY <1>0, <1>15 DEF CycleFails, ReturnTo
<1>16. CASE Wake
    BY <1>0, <1>16 DEF Wake, NextStep
<1>17. CASE Crash
    BY <1>0, <1>17 DEF Crash, ReturnTo
<1>18. CASE IsIdle
    BY <1>0, <1>18 DEF IsIdle
<1>19. CASE PassesItem
    BY <1>0, <1>19 DEF PassesItem, loopFrame
<1>20. CASE EndsResume
    BY <1>0, <1>20 DEF EndsResume, loopFrame
<1>21. CASE EndsReopen
    BY <1>0, <1>21 DEF EndsReopen, loopFrame
<1>22. CASE EndsStall
    BY <1>0, <1>22 DEF EndsStall, loopFrame
<1>23. CASE EndsPart("ingest", "tick") \/ EndsPart("dispatch", "wait")
    BY <1>0, <1>23 DEF EndsPart, loopFrame
<1>24. ASSUME NEW i \in Items, Resumes(i) PROVE Kept
    <2>1. PICK j \in Jobs : Queued(j, i, "resume")
        BY <1>24 DEF Resumes, TakesSlot
    <2> QED
        BY <1>0, <1>24, <2>1 DEF Resumes, TakesSlot, Queued
<1>25. ASSUME NEW i \in Items, Reopens(i) PROVE Kept
    <2>1. PICK j \in Jobs : Queued(j, i, "reopen")
        BY <1>25 DEF Reopens, TakesSlot
    <2> QED
        BY <1>0, <1>25, <2>1 DEF Reopens, TakesSlot, Queued
<1>26. ASSUME NEW i \in Items, Accepts(i) PROVE Kept
    <2>1. PICK j \in Jobs : Queued(j, i, "reopen")
        BY <1>26 DEF Accepts, TakesSlot
    <2> QED
        BY <1>0, <1>26, <2>1 DEF Accepts, TakesSlot, Queued
<1>27. ASSUME NEW i \in Items, Dispatches(i) PROVE Kept
    <2>1. PICK j \in Jobs : Queued(j, i, "fresh")
        BY <1>27 DEF Dispatches
    <2> QED
        BY <1>0, <1>27, <2>1 DEF Dispatches, Queued
<1>28. ASSUME NEW i \in Items, CancelsStalled(i) PROVE Kept
    BY <1>0, <1>28 DEF CancelsStalled, GivesUp, Freed
<1>29. ASSUME NEW i \in Items, StopsStalled(i) PROVE Kept
    BY <1>0, <1>29 DEF StopsStalled, GivesUp
<1>30. ASSUME NEW j \in Jobs, Starts(j) PROVE Kept
    BY <1>0, <1>30 DEF Starts, workerFrame, PhaseOf
<1>31. ASSUME NEW j \in Jobs, Creates(j) PROVE Kept
    BY <1>0, <1>31 DEF Creates, workerFrame, PhaseOf
<1>32. ASSUME NEW j \in Jobs, Drops(j) PROVE Kept
    BY <1>0, <1>32 DEF Drops, workerFrame, PhaseOf
<1>33. ASSUME NEW j \in Jobs, PutsBack(j) PROVE Kept
    BY <1>0, <1>33 DEF PutsBack, workerFrame, PhaseOf
<1>34. ASSUME NEW j \in Jobs, Drives(j) PROVE Kept
    BY <1>0, <1>34 DEF Drives, workerFrame, PhaseOf
<1>35. ASSUME NEW j \in Jobs, Halts(j) PROVE Kept
    BY <1>0, <1>35 DEF Halts, workerFrame, PhaseOf
<1>36. ASSUME NEW j \in Jobs, Swings(j) PROVE Kept
    BY <1>0, <1>36 DEF Swings, workerFrame, PhaseOf
<1>37. ASSUME NEW j \in Jobs, IsStopped(j) PROVE Kept
    BY <1>0, <1>37 DEF IsStopped, workerFrame, PhaseOf
<1>38. ASSUME NEW j \in Jobs, Leaves(j) PROVE Kept
    BY <1>0, <1>38 DEF Leaves, workerFrame, PhaseOf
<1>39. ASSUME NEW j \in Jobs, Ends(j) PROVE Kept
    BY <1>0, <1>39 DEF Ends, workerFrame, Freed
<1> QED
    BY <1>10, <1>11, <1>12, <1>13, <1>14, <1>15, <1>16, <1>17, <1>18, <1>19, <1>20, <1>21,
       <1>22, <1>23, <1>24, <1>25, <1>26, <1>27, <1>28, <1>29, <1>30, <1>31, <1>32, <1>33,
       <1>34, <1>35, <1>36, <1>37, <1>38, <1>39 DEF StepKind

\* A job of a persisted run leaves the queue only for a thread, or with the process.
LEMMA CancelSteps ==
    ASSUME ServiceInv, OneTaskInv, StepKind
    PROVE  CancelsNoResume
<1>0. /\ Types /\ Handles /\ FreshJobs /\ None \notin Jobs /\ LiveJobs /\ ContinuedJobs /\ StopRequests
    BY ServiceAssumption DEF ServiceInv, OneTaskInv
<1> DEFINE Kept == CancelsNoResume
<1> SUFFICES Kept
    OBVIOUS
<1> USE DEF Types, Handles, JobRecords, FreeJob, Phase, Live, LiveJobs, ContinuedJobs, Continued,
     CancelsNoResume
<1> USE DEF vars, disk, loop, service, threads, history, limits
<1>10. CASE Recover
    BY <1>0, <1>10 DEF Recover, NextStep
<1>11. CASE BeginCycle
    BY <1>0, <1>11 DEF BeginCycle, NextStep
<1>12. CASE ListRuns
    BY <1>0, <1>12 DEF ListRuns
<1>13. CASE ReconcileActive
    BY <1>0, <1>13 DEF ReconcileActive, NextStep
<1>14. CASE ClaimBatch
    BY <1>0, <1>14 DEF ClaimBatch
<1>15. CASE CycleFails
    BY <1>0, <1>15 DEF CycleFails, ReturnTo
<1>16. CASE Wake
    BY <1>0, <1>16 DEF Wake, NextStep
<1>17. CASE Crash
    BY <1>0, <1>17 DEF Crash, ReturnTo
<1>18. CASE IsIdle
    BY <1>0, <1>18 DEF IsIdle
<1>19. CASE PassesItem
    BY <1>0, <1>19 DEF PassesItem, loopFrame
<1>20. CASE EndsResume
    BY <1>0, <1>20 DEF EndsResume, loopFrame
<1>21. CASE EndsReopen
    BY <1>0, <1>21 DEF EndsReopen, loopFrame
<1>22. CASE EndsStall
    BY <1>0, <1>22 DEF EndsStall, loopFrame
<1>23. CASE EndsPart("ingest", "tick") \/ EndsPart("dispatch", "wait")
    BY <1>0, <1>23 DEF EndsPart, loopFrame
<1>24. ASSUME NEW i \in Items, Resumes(i) PROVE Kept
    <2>1. PICK j \in Jobs : Queued(j, i, "resume")
        BY <1>24 DEF Resumes, TakesSlot
    <2> QED
        BY <1>0, <1>24, <2>1 DEF Resumes, TakesSlot, Queued
<1>25. ASSUME NEW i \in Items, Reopens(i) PROVE Kept
    <2>1. PICK j \in Jobs : Queued(j, i, "reopen")
        BY <1>25 DEF Reopens, TakesSlot
    <2> QED
        BY <1>0, <1>25, <2>1 DEF Reopens, TakesSlot, Queued
<1>26. ASSUME NEW i \in Items, Accepts(i) PROVE Kept
    <2>1. PICK j \in Jobs : Queued(j, i, "reopen")
        BY <1>26 DEF Accepts, TakesSlot
    <2> QED
        BY <1>0, <1>26, <2>1 DEF Accepts, TakesSlot, Queued
<1>27. ASSUME NEW i \in Items, Dispatches(i) PROVE Kept
    <2>1. PICK j \in Jobs : Queued(j, i, "fresh")
        BY <1>27 DEF Dispatches
    <2> QED
        BY <1>0, <1>27, <2>1 DEF Dispatches, Queued
<1>28. ASSUME NEW i \in Items, CancelsStalled(i) PROVE Kept
    BY <1>0, <1>28 DEF CancelsStalled, GivesUp, Freed
<1>29. ASSUME NEW i \in Items, StopsStalled(i) PROVE Kept
    BY <1>0, <1>29 DEF StopsStalled, GivesUp
<1>30. ASSUME NEW j \in Jobs, Starts(j) PROVE Kept
    BY <1>0, <1>30 DEF Starts, workerFrame, PhaseOf
<1>31. ASSUME NEW j \in Jobs, Creates(j) PROVE Kept
    BY <1>0, <1>31 DEF Creates, workerFrame, PhaseOf
<1>32. ASSUME NEW j \in Jobs, Drops(j) PROVE Kept
    BY <1>0, <1>32 DEF Drops, workerFrame, PhaseOf
<1>33. ASSUME NEW j \in Jobs, PutsBack(j) PROVE Kept
    BY <1>0, <1>33 DEF PutsBack, workerFrame, PhaseOf
<1>34. ASSUME NEW j \in Jobs, Drives(j) PROVE Kept
    BY <1>0, <1>34 DEF Drives, workerFrame, PhaseOf
<1>35. ASSUME NEW j \in Jobs, Halts(j) PROVE Kept
    BY <1>0, <1>35 DEF Halts, workerFrame, PhaseOf
<1>36. ASSUME NEW j \in Jobs, Swings(j) PROVE Kept
    BY <1>0, <1>36 DEF Swings, workerFrame, PhaseOf
<1>37. ASSUME NEW j \in Jobs, IsStopped(j) PROVE Kept
    BY <1>0, <1>37 DEF IsStopped, workerFrame, PhaseOf
<1>38. ASSUME NEW j \in Jobs, Leaves(j) PROVE Kept
    BY <1>0, <1>38 DEF Leaves, workerFrame, PhaseOf
<1>39. ASSUME NEW j \in Jobs, Ends(j) PROVE Kept
    BY <1>0, <1>39 DEF Ends, workerFrame, Freed
<1> QED
    BY <1>10, <1>11, <1>12, <1>13, <1>14, <1>15, <1>16, <1>17, <1>18, <1>19, <1>20, <1>21,
       <1>22, <1>23, <1>24, <1>25, <1>26, <1>27, <1>28, <1>29, <1>30, <1>31, <1>32, <1>33,
       <1>34, <1>35, <1>36, <1>37, <1>38, <1>39 DEF StepKind

-----------------------------------------------------------------------------
(* Theorems *)

\* The service starts without runs, jobs and reservations.
LEMMA ServiceStarts ==
    ASSUME Init
    PROVE  ServiceInv /\ QuotaInv /\ CompletionInv /\ OneTaskInv
<1>1. Types /\ NotListed \in [Items -> RunStates]
    <2>1. run \in [Items -> RunStates] /\ NotListed \in [Items -> RunStates]
        BY DEF Init, RunStates, NotListed
    <2>2. handle \in [Items -> Jobs \cup {None}] /\ job \in [Jobs -> JobRecords]
        BY DEF Init, JobRecords, FreeJob
    <2>3. /\ pc \in Steps /\ todo \subseteq Items /\ slots \in Int /\ quota \in Nat /\ claimed \in Nat
          /\ active \subseteq Items /\ escalated \subseteq Items /\ interrupted \subseteq Items
          /\ faults \in Nat /\ listed = NotListed
        BY DEF Init, Steps
    <2>4. completion \in BOOLEAN
        BY DEF Init
    <2> QED
        BY <2>1, <2>2, <2>3, <2>4 DEF Types
<1>2. \A j \in Jobs : job[j].phase = "free"
    BY DEF Init, FreeJob
<1>3. Handles /\ FreshJobs /\ CompletionInv /\ OneTaskInv
    BY <1>1, <1>2 DEF Init, Handles, FreshJobs, Fresh, Phase, CompletionInv, OneTaskInv, LiveJobs,
        Live, FreeSlot, ContinuedJobs, Continued, HeldRuns, StopRequests
<1>4. UnbornRuns
    BY <1>2 DEF Init, UnbornRuns, Phase, NotListed
<1>5. Busy = {} /\ Pending = {}
    BY <1>2 DEF Busy, Pending, Fresh, Phase
<1>6. Cardinality(Busy) = 0 /\ Cardinality(Pending) = 0
    BY <1>5, FS_EmptySet
<1>7. QuotaInv
    <2>1. Room = 0 /\ claimed = 0 /\ pc # "claim"
        BY DEF Init, Room
    <2> QED
        BY <1>6, <2>1, ServiceAssumption DEF QuotaInv
<1> QED
    BY <1>1, <1>3, <1>4, <1>7 DEF ServiceInv

\* In every reachable state handles belong to jobs of their item, a run that is not persisted yet has
\* one job, and the loop remembers nothing of an item without a run.
THEOREM ServiceCorrect == Spec => []ServiceInv
<1>1. Init => ServiceInv
    BY ServiceStarts
<1>2. ServiceInv /\ [Next]_vars => ServiceInv'
    BY KeepsTypes, StepKinds, KeepsHandles, KeepsFreshJobs, KeepsUnbornRuns DEF ServiceInv
<1> QED
    BY <1>1, <1>2, PTL DEF Spec

\* QuotaOverrunIsBounded, for any number of tasks: a day's quota (_remaining_daily_quota) is overrun
\* by fewer than two runs per concurrent task, whatever the threads, the stall check and people do.
THEOREM QuotaCorrect == Spec => []QuotaOverrunIsBounded
<1>1. Init => QuotaInv
    BY ServiceStarts
<1>2. ServiceInv /\ QuotaInv /\ [Next]_vars => QuotaInv'
    BY StepKinds, KeepsQuota
<1>3. ServiceInv /\ QuotaInv => QuotaOverrunIsBounded
    <2> SUFFICES ASSUME ServiceInv, QuotaInv
                 PROVE  QuotaOverrunIsBounded
        OBVIOUS
    <2>1. Cardinality(Pending) \in Nat
        BY ItemsAreFinite DEF Pending
    <2>2. Room \in Nat /\ claimed \in Nat
        BY DEF ServiceInv, Types, Room
    <2> QED
        BY <2>1, <2>2, ServiceAssumption DEF QuotaInv, QuotaOverrunIsBounded
<1> QED
    BY <1>1, <1>2, <1>3, ServiceCorrect, PTL DEF Spec

\* CompletionIsNotLost, for any number of tasks: no completion that races with a cycle is lost while
\* the loop waits (run_forever clears the event before it reads the runs).
THEOREM CompletionCorrect == Spec => []CompletionIsNotLost
<1>1. Init => CompletionInv
    BY ServiceStarts
<1>2. ServiceInv /\ CompletionInv /\ [Next]_vars => CompletionInv'
    BY StepKinds, KeepsCompletion
<1>3. CompletionInv => CompletionIsNotLost
    BY DEF CompletionInv, CompletionIsNotLost
<1> QED
    BY <1>1, <1>2, <1>3, ServiceCorrect, PTL DEF Spec

\* max_concurrent_tasks has its default.
OneTask == MaxConcurrent = 1

\* One task at a time: a live job is the one its item's handle names, a job of a persisted run waits
\* alone, every unfinished run is in somebody's hands, and stop requests are for stalled jobs.
THEOREM OneTaskCorrect ==
    ASSUME OneTask
    PROVE  Spec => []OneTaskInv
<1>1. Init => OneTaskInv
    BY ServiceStarts
<1>2. ServiceInv /\ OneTaskInv /\ [Next]_vars => OneTaskInv'
    <2> SUFFICES ASSUME ServiceInv, OneTaskInv, [Next]_vars
                 PROVE  OneTaskInv'
        OBVIOUS
    <2>1. MaxConcurrent = 1 /\ StepKind
        BY StepKinds DEF OneTask
    <2> QED
        BY <2>1, KeepsLiveJobs, KeepsFreeSlot, KeepsContinuedJobs, KeepsHeldRuns, KeepsStopRequests
        DEF OneTaskInv
<1> QED
    BY <1>1, <1>2, ServiceCorrect, PTL DEF Spec

\* UnfinishedRunsAreHeld, with one task at a time: whatever crashes, hangs and errors come, an
\* unfinished run is queued to continue, or a job drives it or is about to, or it counts as lost.
THEOREM RunsAreHeld ==
    ASSUME OneTask
    PROVE  Spec => []UnfinishedRunsAreHeld
<1>1. OneTaskInv => UnfinishedRunsAreHeld
    BY DEF OneTaskInv, HeldRuns, Holds, Continued, UnfinishedRunsAreHeld, Phase
<1> QED
    BY <1>1, OneTaskCorrect, PTL

\* StopsOnlyStalledJobs, with one task at a time: a stop request never reaches a later job of its
\* run, and the stall check never takes a job of a persisted run out of the queue (ADR-043).
THEOREM StallCheckCorrect ==
    ASSUME OneTask
    PROVE  Spec => StopsOnlyStalledJobs
<1>1. ServiceInv /\ OneTaskInv /\ [Next]_vars => [StopsItsOwnJob /\ CancelsNoResume]_vars
    <2> SUFFICES ASSUME ServiceInv, OneTaskInv, [Next]_vars
                 PROVE  StopsItsOwnJob /\ CancelsNoResume
        OBVIOUS
    <2>1. StopsItsOwnJob
        BY StepKinds, StopSteps
    <2>2. CancelsNoResume
        BY StepKinds, CancelSteps
    <2> QED
        BY <2>1, <2>2
<1> QED
    BY <1>1, ServiceCorrect, OneTaskCorrect, PTL DEF Spec, StopsOnlyStalledJobs

=============================================================================
