------------------------------ MODULE AgentCall ------------------------------
(***************************************************************************)
(* How a run is stopped, stalled and steered while its thread waits for an  *)
(* agent or a check.  Four actors meet: the worker thread that drives the   *)
(* run, the heartbeat thread that watches it, the service's main thread,    *)
(* which stops a stalled run, and people who file stop requests and steer   *)
(* notes from other processes.  Their steps end where another one can see   *)
(* them: at a file, at the controller's sets and at the child processes.    *)
(*                                                                         *)
(* RunController sees all this as one choice: the call returns, fails or    *)
(* the run is interrupted.  One run and one worker thread; a job is one     *)
(* drive of the run.  Notes are numbered in the order they are filed.       *)
(***************************************************************************)
EXTENDS Naturals

CONSTANTS
  MaxJobs,      \* bound: drives of the run
  MaxSteps,     \* bound: agent calls and checks of one drive
  MaxNotes,     \* bound: steer notes that people file
  MaxStops,     \* bound: stop requests that people file
  MaxStalls,    \* bound: stalls the scheduler finds
  MaxCrashes    \* bound: crashes of the factory

VARIABLES
  disk,      \* state of run.json, stop request, steer note (0 is none)
  driver,    \* the worker thread
  process,   \* its child: none, running, signalled (SIGTERM was sent), ended
  watch,     \* the heartbeat thread
  service,   \* _cancel_requests, _agent_threads, _KILLED_THREADS, the main thread
  people,    \* who has read the run and is about to write a request
  seen,      \* history: newest note, notes of calls that returned, notes that were
             \* dropped, children started since the stop request was filed
  room       \* what the environment may still do

acVars == <<disk, driver, process, watch, service, people, seen, room>>

Spend(what) == room[what] > 0 /\ room' = [room EXCEPT ![what] = @ - 1]

Idle == [pc |-> "free", work |-> "none", note |-> 0, outcome |-> "none", back |-> "none", target |-> "none",
         fallback |-> FALSE, steps |-> 0]
Asleep == [pc |-> "off", killed |-> FALSE, stopping |-> FALSE]
GoTo(pc) == driver' = [driver EXCEPT !.pc = pc]

\* _terminate_group: one SIGTERM to a child that lives, which it may ignore.
Signalled == IF process = "running" THEN "signalled" ELSE process

\* kill_thread_children signals the children that are registered; track_child signals a later one.
KillChildren(afterwards) ==
  /\ service' = [service EXCEPT !.killedThread = TRUE, !.pc = afterwards]
  /\ process' = IF driver.pc = "track" THEN process ELSE Signalled

-----------------------------------------------------------------------------
(* Stop checks and the move to a final state *)

\* A bug: the controller never reads the stop request.
NeverStops == FALSE

StopRequested == disk.stop

\* _raise_if_cancelled: halt for a person's request, unwind for a stall.  pc is where the
\* thread goes on, back where the exception takes it.
Check(pc, back) ==
  driver' = CASE StopRequested -> [driver EXCEPT !.pc = "delete", !.target = "halted",
                                                 !.outcome = "halt", !.back = back]
              [] ~StopRequested /\ service.cancels -> [driver EXCEPT !.outcome = "cancel",
                                                                     !.pc = back]
              [] ~StopRequested /\ ~service.cancels -> [driver EXCEPT !.pc = pc]

\* transition to a final state deletes the requests first.
DeleteRequests ==
  /\ driver.pc = "delete"
  /\ disk' = [disk EXCEPT !.stop = FALSE,
                          !.note = IF driver.target = "done" THEN 0 ELSE @]
  /\ seen' = [seen EXCEPT !.begun = 0,
                          !.gone = IF driver.target = "done" THEN @ \union {disk.note} ELSE @]
  /\ GoTo("save")
  /\ UNCHANGED <<process, watch, service, people, room>>

SaveFinal ==
  /\ driver.pc = "save"
  /\ disk' = [disk EXCEPT !.state = driver.target]
  /\ GoTo(driver.back)
  /\ UNCHANGED <<process, watch, service, people, seen, room>>

-----------------------------------------------------------------------------
(* One drive *)

\* The main thread submits the run: a new one, an interrupted one, or a reopened one.
StartJob ==
  /\ driver.pc = "free" /\ service.pc = "idle"
  /\ disk.state # "done"
  /\ Spend("jobs")
  /\ service' = [service EXCEPT !.cancels = FALSE]
  /\ driver' = [Idle EXCEPT !.pc = IF disk.state = "halted" THEN "reopen" ELSE "work"]
  /\ UNCHANGED <<disk, process, watch, people, seen>>

\* The reopen deletes a stop request that was filed as the run halted, then saves.
ReopenDelete ==
  /\ driver.pc = "reopen"
  /\ disk' = [disk EXCEPT !.stop = FALSE]
  /\ seen' = [seen EXCEPT !.begun = 0]
  /\ GoTo("reopened")
  /\ UNCHANGED <<process, watch, service, people, room>>

ReopenSave ==
  /\ driver.pc = "reopened"
  /\ disk' = [disk EXCEPT !.state = "working"]
  /\ GoTo("work")
  /\ UNCHANGED <<process, watch, service, people, seen, room>>

\* An agent call begins (_invoke_agent), or a verification, a CI wait (watched).
OpenCall ==
  /\ driver.pc = "work" /\ driver.steps < MaxSteps
  /\ Check("take", "end")
  /\ UNCHANGED <<disk, process, watch, service, people, seen, room>>

OpenCheck ==
  /\ driver.pc = "work" /\ driver.steps < MaxSteps
  /\ driver' = [driver EXCEPT !.pc = "publish", !.work = "check", !.steps = @ + 1]
  /\ UNCHANGED <<disk, process, watch, service, people, seen, room>>

\* take_steer_note: the file moves away in one step.
TakeNote ==
  /\ driver.pc = "take"
  /\ driver' = [driver EXCEPT !.pc = "publish", !.work = "call", !.note = disk.note,
                              !.steps = @ + 1]
  /\ disk' = [disk EXCEPT !.note = 0]
  /\ UNCHANGED <<process, watch, service, people, seen, room>>

\* The run is finished or halts for a reason of its own.
Finish ==
  /\ driver.pc = "work"
  /\ \E target \in {"done", "halted"} :
       driver' = [driver EXCEPT !.pc = "delete", !.target = target, !.outcome = "halt",
                                !.back = "end"]
  /\ UNCHANGED <<disk, process, watch, service, people, seen, room>>

\* End of _supervise: a run that a stall stopped is queued to continue, or halts.
EndJob ==
  /\ driver.pc = "end"
  /\ IF driver.outcome = "cancel" /\ disk.state = "working" /\ ~disk.unattended
       THEN /\ driver' = [driver EXCEPT !.pc = "delete", !.target = "halted",
                                        !.outcome = "halt", !.back = "end"]
            /\ UNCHANGED service
       ELSE /\ driver' = Idle
            /\ service' = [service EXCEPT !.cancels = FALSE]
  /\ UNCHANGED <<disk, process, watch, people, seen, room>>

-----------------------------------------------------------------------------
(* The watched step (watched, track_child) *)

\* The thread is published before the check, so a stall finds it or is found by it.
Publish ==
  /\ driver.pc = "publish"
  /\ service' = [service EXCEPT !.thread = TRUE]
  /\ GoTo("enter")
  /\ UNCHANGED <<disk, process, watch, people, seen, room>>

Enter ==
  /\ driver.pc = "enter"
  /\ Check(IF driver.work = "check" THEN "before" ELSE "spawn", "pop")
  /\ watch' = IF driver'.pc \in {"before", "spawn"} THEN [Asleep EXCEPT !.pc = "poll"] ELSE watch
  /\ UNCHANGED <<disk, process, service, people, seen, room>>

\* before_command and before_wait: a stop check while the heartbeat runs.
BeforeCommand ==
  /\ driver.pc = "before"
  /\ Check("spawn", "leave")
  /\ UNCHANGED <<disk, process, watch, service, people, seen, room>>

\* Popen: the child runs before it is registered.
Spawn ==
  /\ driver.pc = "spawn"
  /\ process' = "running"
  /\ seen' = IF disk.stop /\ ~driver.fallback THEN [seen EXCEPT !.begun = @ + 1] ELSE seen
  /\ GoTo("track")
  /\ UNCHANGED <<disk, watch, service, people, room>>

\* A bug: a child that is registered after the kill is left alone.
LeftAlone == process

\* track_child: a child that is registered after the kill is signalled by its own thread.
Tracked == IF service.killedThread THEN Signalled ELSE process

Track ==
  /\ driver.pc = "track"
  /\ process' = Tracked
  /\ GoTo("wait")
  /\ UNCHANGED <<disk, watch, service, people, seen, room>>

\* The child ends: by itself, at its deadline, or from the signal.
ProcessEnds ==
  /\ process \in {"running", "signalled"}
  /\ process' = "ended"
  /\ UNCHANGED <<disk, driver, watch, service, people, seen, room>>

\* The runtime returns or raises; the router sends the request to the fallback once if the
\* runtime is unavailable; a verification goes on with its next command.
Return ==
  /\ driver.pc = "wait" /\ process = "ended"
  /\ process' = "none"
  /\ \/ \E outcome \in {"returned", "raised"} :
          driver' = [driver EXCEPT !.pc = "leave", !.outcome = outcome]
     \/ /\ driver.work = "call" /\ ~driver.fallback
        /\ driver' = [driver EXCEPT !.pc = "spawn", !.fallback = TRUE]
     \/ /\ driver.work = "check" /\ driver.steps < MaxSteps
        /\ driver' = [driver EXCEPT !.pc = "before", !.steps = @ + 1]
  /\ UNCHANGED <<disk, watch, service, people, seen, room>>

\* stop.set, then beat.join.
Leave ==
  /\ driver.pc = "leave"
  /\ watch' = [watch EXCEPT !.stopping = TRUE]
  /\ GoTo("join")
  /\ UNCHANGED <<disk, process, service, people, seen, room>>

\* After the join, a step that ended by itself is checked once more if it was killed.
Exit ==
  /\ driver.pc = "join" /\ watch.pc = "off"
  /\ IF driver.outcome = "returned" /\ (watch.killed \/ service.cancels)
       THEN Check("pop", "pop") ELSE GoTo("pop")
  /\ UNCHANGED <<disk, process, watch, service, people, seen, room>>

Pop ==
  /\ driver.pc = "pop"
  /\ service' = [service EXCEPT !.thread = FALSE]
  /\ GoTo("release")
  /\ UNCHANGED <<disk, process, watch, people, seen, room>>

\* release_thread.
Release ==
  /\ driver.pc = "release"
  /\ service' = [service EXCEPT !.killedThread = FALSE]
  /\ GoTo("after")
  /\ UNCHANGED <<disk, process, watch, people, seen, room>>

\* A bug: an older note replaces a newer one.
Overwrite(note) == note

\* create_steer_note: create-only.
PutBack(note) == IF disk.note = 0 THEN note ELSE disk.note

\* A call that raised puts its note back; then the exception unwinds, or the result is
\* checked once more before it is recorded.
After ==
  /\ driver.pc = "after"
  /\ LET back == driver.note # 0 /\ driver.outcome # "returned"
         used == driver.note # 0 /\ driver.outcome = "returned"
     IN /\ disk' = IF back THEN [disk EXCEPT !.note = PutBack(driver.note)] ELSE disk
        /\ seen' = IF used THEN [seen EXCEPT !.used = @ \union {driver.note}] ELSE seen
  /\ driver' = [driver EXCEPT !.note = 0, !.fallback = FALSE,
                              !.pc = IF driver.outcome \in {"halt", "cancel"} THEN "end"
                                     ELSE IF driver.work = "call" THEN "record" ELSE "work"]
  /\ UNCHANGED <<process, watch, service, people, room>>

Record ==
  /\ driver.pc = "record"
  /\ Check("work", "end")
  /\ UNCHANGED <<disk, process, watch, service, people, seen, room>>

Drive ==
  \/ StartJob \/ ReopenDelete \/ ReopenSave \/ OpenCall \/ OpenCheck \/ TakeNote \/ Finish
  \/ EndJob \/ Publish \/ Enter \/ BeforeCommand \/ Spawn \/ Track \/ Return \/ Leave \/ Exit \/ Pop
  \/ Release \/ After \/ Record \/ DeleteRequests \/ SaveFinal

-----------------------------------------------------------------------------
(* The heartbeat thread *)

\* stop.wait returned, or the step outlived its timeout.
HeartbeatEnds ==
  /\ watch.pc = "poll"
  /\ watch' = [watch EXCEPT !.pc = "off"]
  /\ UNCHANGED <<disk, driver, process, service, people, seen, room>>

\* One poll: look for a stop request, then beat if the agent was heard.
Poll ==
  /\ watch.pc = "poll" /\ ~watch.stopping
  /\ \E pc \in {"poll", "beat"} :
       watch' = [watch EXCEPT !.pc = pc, !.killed = @ \/ disk.stop]
  /\ IF disk.stop THEN KillChildren(service.pc) ELSE UNCHANGED <<process, service>>
  /\ UNCHANGED <<disk, driver, people, seen, room>>

\* write_heartbeat saves the run as it was when the watched step began.
Beat ==
  /\ watch.pc = "beat"
  /\ disk' = [disk EXCEPT !.state = "working"]
  /\ watch' = [watch EXCEPT !.pc = "poll"]
  /\ UNCHANGED <<driver, process, service, people, seen, room>>

Heartbeat == HeartbeatEnds \/ Poll \/ Beat

-----------------------------------------------------------------------------
(* The main thread and people *)

\* _on_stall: cancel_run adds the run to the set before it looks for its thread.
StallFound ==
  /\ service.pc = "idle" /\ driver.pc # "free"
  /\ Spend("stalls")
  /\ service' = [service EXCEPT !.cancels = TRUE, !.pc = "look"]
  /\ UNCHANGED <<disk, driver, process, watch, people, seen>>

LookForThread ==
  /\ service.pc = "look"
  /\ service' = [service EXCEPT !.pc = IF service.thread THEN "kill" ELSE "idle"]
  /\ UNCHANGED <<disk, driver, process, watch, people, seen, room>>

KillThread ==
  /\ service.pc = "kill"
  /\ KillChildren("idle")
  /\ UNCHANGED <<disk, driver, watch, people, seen, room>>

\* request_run_stop reads the run, then creates the file.
AskToStop ==
  /\ disk.state = "working" /\ ~people.stops
  /\ Spend("stops")
  /\ people' = [people EXCEPT !.stops = TRUE]
  /\ UNCHANGED <<disk, driver, process, watch, service, seen>>

FileStop ==
  /\ people.stops
  /\ people' = [people EXCEPT !.stops = FALSE]
  /\ disk' = [disk EXCEPT !.stop = TRUE]
  /\ UNCHANGED <<driver, process, watch, service, seen, room>>

\* request_run_steer: also for a halted run that can resume; the newer note replaces.
AskToSteer ==
  /\ disk.state # "done" /\ ~people.steers
  /\ Spend("notes")
  /\ people' = [people EXCEPT !.steers = TRUE]
  /\ UNCHANGED <<disk, driver, process, watch, service, seen>>

FileNote ==
  /\ people.steers
  /\ people' = [people EXCEPT !.steers = FALSE]
  /\ disk' = [disk EXCEPT !.note = seen.newest + 1]
  /\ seen' = [seen EXCEPT !.newest = @ + 1]
  /\ UNCHANGED <<driver, process, watch, service, room>>

\* The files stay; everything else of the factory is gone.
Crash ==
  /\ Spend("crashes")
  /\ driver' = Idle /\ watch' = Asleep /\ process' = "none"
  /\ service' = [pc |-> "idle", cancels |-> FALSE, thread |-> FALSE, killedThread |-> FALSE]
  /\ seen' = [seen EXCEPT !.gone = @ \union {driver.note}]
  /\ UNCHANGED <<disk, people>>

Others ==
  \/ StallFound \/ LookForThread \/ KillThread \/ AskToStop \/ FileStop \/ AskToSteer
  \/ FileNote \/ Crash \/ ProcessEnds

-----------------------------------------------------------------------------

AcInit ==
  /\ \E unattended \in BOOLEAN :
       disk = [state |-> "working", stop |-> FALSE, note |-> 0, unattended |-> unattended]
  /\ driver = Idle /\ watch = Asleep /\ process = "none"
  /\ service = [pc |-> "idle", cancels |-> FALSE, thread |-> FALSE, killedThread |-> FALSE]
  /\ people = [stops |-> FALSE, steers |-> FALSE]
  /\ seen = [newest |-> 0, used |-> {}, gone |-> {}, begun |-> 0]
  /\ room = [jobs |-> MaxJobs, notes |-> MaxNotes, stops |-> MaxStops, stalls |-> MaxStalls,
             crashes |-> MaxCrashes]

AcNext == Drive \/ Heartbeat \/ Others

AcSpec == AcInit /\ [][AcNext]_acVars

-----------------------------------------------------------------------------
(* Properties *)

\* Once cancel_run has returned, no registered child of the stalled run lives on without having
\* been sent the signal: the kill found it, track_child did, or the thread found the cancel and
\* started none, however the two threads interleave.
CancelledAgentIsSignalled ==
  service.cancels /\ service.pc = "idle" /\ driver.pc # "track" => process # "running"

\* After a stop request is filed, one more child may start, whose check came before it (and
\* its fallback): every path from one step of the run to the next sees the request.
StopHoldsAtNextStep == seen.begun <= 1

\* The newest note waits, is with its call, was seen by a call that returned, or went with a
\* finished run or a crash; and no note is seen by two calls that returned.
NewestNoteIsKept ==
  /\ seen.newest # 0 =>
       seen.newest \in {disk.note, driver.note} \union seen.used \union seen.gone
  /\ {disk.note, driver.note} \intersect seen.used = {}

(* Promises of the documentation that the code does not keep: each can be refuted. *)

\* A halted run works again only when it is reopened.
HaltedRunStaysHalted ==
  [][disk.state = "halted" /\ disk'.state # "halted" => driver.pc = "reopened"]_acVars

=============================================================================
