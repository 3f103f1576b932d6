----------------------------- MODULE Escalation -----------------------------
(***************************************************************************)
(* A halted run asks a person: the notice on GitHub, the replies the        *)
(* service polls for, the requests of the dashboard, the accepted decision  *)
(* and the reopen it leads to.                                              *)
(*                                                                         *)
(* Two actors work on run.json and neither locks it.  The service's main    *)
(* thread delivers notices, settles and accepts requests, polls replies and *)
(* dispatches reopened runs.  The driver is the thread or the process that  *)
(* holds the lock of the run's workspace: it reopens the run, works, halts  *)
(* it, and delivers the notice of its own halt.  Each delivers from the     *)
(* copy of the run it read first (deliver_escalation_notification saves     *)
(* that copy, whole).                                                       *)
(*                                                                         *)
(* A step ends at a save or a call to GitHub.  A load, a check and a save   *)
(* with no remote call between them are one step.  The slots and the daily  *)
(* quota of a dispatched run are FactoryService's.  A thread is the pull    *)
(* request's or the issue's, without a difference; a reply is authorized    *)
(* and in the grammar of its class, or it is chatter; the contexts of a     *)
(* decision are the episode they belong to.                                 *)
(***************************************************************************)
EXTENDS Naturals, Sequences, SequencesExt, FiniteSetsExt

CONSTANTS
    Drains,           \* run_once: the next cycle starts when the dispatched work is done
    Window,           \* reply_window_hours
    MaxReopens,       \* max_reopens when the run halted
    MaxAttempts,      \* max_notification_attempts
    PageSize,         \* per_page of the comment listings
    PagesPerPoll,     \* max_pages_per_poll
    None,             \* Python's None
    HaltClasses,      \* bound: the classes a halt may have
    MaxEpisodes,      \* bound: episodes of the run
    MaxClock,         \* bound: hours that pass
    MaxComments,      \* bound: comments on the thread
    MaxHalts,         \* bound: further halts of the run
    MaxEscalations,   \* bound: operator escalations
    MaxFaults,        \* bound: failed calls of GitHub, and reopens that fail
    MaxCrashes,       \* bound: crashes, each with a restart that may lower max_reopens
    MaxDeletions      \* bound: comments edited or deleted

ASSUME ProtocolAssumption ==
    /\ Drains \in BOOLEAN
    /\ {Window, MaxReopens, MaxClock, MaxComments, MaxHalts, MaxEscalations, MaxFaults,
        MaxCrashes, MaxDeletions} \subseteq Nat
    /\ {MaxAttempts, PageSize, PagesPerPoll} \subseteq Nat \ {0}
    /\ MaxEpisodes \in Nat /\ MaxEpisodes > MaxHalts + MaxReopens + MaxFaults + MaxCrashes

VARIABLES
    run,        \* run.json: state, and the escalation record
    answers,    \* the PlanDecisionAnswers artifact: the episode it answers, or 0
    requests,   \* dashboard request of each episode: status, when it was made
    thread,     \* comments of the issue or pull request, in order of creation
    reachable,  \* resolve_escalation_target finds the thread
    limit,      \* max_reopens in force
    now,        \* the clock
    actor,      \* the main thread and the driver: next step, copy of the run, what it reads
    job,        \* a reopen is dispatched and its worker has not started it
    asking,     \* a dashboard request that is checked and not filed: its episode and time
    bounds      \* what the environment has done

vars == <<run, answers, requests, thread, reachable, limit, now, actor, job, asking, bounds>>

disk   == <<run, answers, requests>>
github == <<thread, reachable>>
world  == <<now, limit, asking, bounds>>

Actors == {"main", "driver"}
Episodes == 1..MaxEpisodes

\* Classes of a halt: those a GitHub reply can resume, those only the dashboard can
\* (RESUME_CLASSES), and the rest.
GithubReplyClasses == {"RISK_APPROVAL", "PLAN_DECISION"}
ResumableClasses == GithubReplyClasses \union {"DELIVERY_RETRY"}
Classes == ResumableClasses \union {"NOT_RESUMABLE"}
WaitingStatuses == {"PENDING_NOTIFICATION", "NOTIFIED", "NOTIFICATION_FAILED"}
ASSUME ClassAssumption == HaltClasses \subseteq Classes
Statuses == WaitingStatuses \union {"REOPENED", "RESUMED", "EXPIRED"}

\* A reply cursor: the page to read next, the time to list from, the last comment seen.
Cursor(page, since, last) == [page |-> page, since |-> since, last |-> last]
CursorClosed == Cursor(0, 0, 0)

\* github_resume_enabled: whether the notice of such a halt carries reply instructions.
ResumableByReply(class) == class \in GithubReplyClasses

\* A bug: a new halt starts without the receipts of the earlier ones.
ForgetfulEpisode(old, class) ==
  [episode |-> old.episode + 1, status |-> "PENDING_NOTIFICATION", class |-> class,
   remote |-> ResumableByReply(class),
   cursor |-> IF ResumableByReply(class) THEN Cursor(1, 0, 0) ELSE CursorClosed,
   attempts |-> 0, notifiedAt |-> 0, created |-> now,
   reopens |-> old.reopens, receipts |-> {}]

\* The record of a new halt.  Receipts and the reopen count are carried over.
NewEpisode(old, class) ==
  [episode |-> old.episode + 1, status |-> "PENDING_NOTIFICATION", class |-> class,
   remote |-> ResumableByReply(class),
   cursor |-> IF ResumableByReply(class) THEN Cursor(1, 0, 0) ELSE CursorClosed,
   attempts |-> 0, notifiedAt |-> 0, created |-> now,
   reopens |-> old.reopens, receipts |-> old.receipts]

Halted(r, class) == [state |-> "NEEDS_HUMAN", esc |-> NewEpisode(r.esc, class)]

AwaitsHuman(r) == r.state = "NEEDS_HUMAN" /\ r.esc.status \in WaitingStatuses
WindowPassed(e, at) == at > e.created + Window

ReopensLeft(e) == e.reopens < limit

\* resume_refusal: the run takes no decision made at time at.
ResumeRefused(r, at) ==
  \/ ~AwaitsHuman(r)
  \/ r.esc.class \notin ResumableClasses
  \/ WindowPassed(r.esc, at)
  \/ ~ReopensLeft(r.esc)

Spend(what) == bounds[what] > 0 /\ bounds' = [bounds EXCEPT ![what] = @ - 1]

\* The actor goes on at another step, and keeps what it holds in memory.
Asleep == [pc |-> "idle", who |-> "worker", copy |-> None, at |-> 0, comment |-> 0,
           next |-> CursorClosed, latest |-> CursorClosed, pages |-> 0]
GoOn(a, pc) == actor' = [actor EXCEPT ![a] = IF pc = "idle" THEN Asleep ELSE [@ EXCEPT !.pc = pc]]
GoPoll == actor' = [actor EXCEPT !["main"] = [Asleep EXCEPT !.pc = "poll"]]
Idle(a) == actor[a].pc = "idle"

\* What an actor does after a notice: the driver lets go of the lock, the main thread
\* goes on with its cycle.
AfterNotice(a) == IF a = "driver" THEN "idle" ELSE "settle"

-----------------------------------------------------------------------------
(* Delivering the notice *)

\* The notice of this episode is on the thread.  Its text names the reopen limit.
Marked(e) == {i \in 1..Len(thread) : thread[i].kind = "notice" /\ ~thread[i].gone
                                       /\ thread[i].episode = e.episode}
Unaltered(e) == {i \in Marked(e) : ~thread[i].edited /\ thread[i].limit = limit}

\* reconcile_undelivered_notifications: a run whose notice is still owed.
NoticeOwed(r) ==
  /\ r.state = "NEEDS_HUMAN"
  /\ r.esc.status \in {"PENDING_NOTIFICATION", "NOTIFICATION_FAILED"}
  /\ r.esc.attempts < MaxAttempts

\* The ways a delivery attempt ends, as the record it leaves.
Notified(e, at) ==
  [e EXCEPT !.status = "NOTIFIED", !.attempts = @ + 1,
            !.notifiedAt = at, !.remote = ResumableByReply(e.class),
            !.cursor = IF ResumableByReply(e.class) THEN Cursor(1, at, 0) ELSE CursorClosed]
NotNotified(e) ==
  [e EXCEPT !.status = "NOTIFICATION_FAILED", !.attempts = @ + 1, !.remote = FALSE,
            !.cursor = CursorClosed, !.notifiedAt = 0]
PostFailed(e) ==
  IF e.attempts + 1 >= MaxAttempts
    THEN [NotNotified(e) EXCEPT !.notifiedAt = e.notifiedAt]
    ELSE [e EXCEPT !.attempts = @ + 1]

\* Save the actor's own copy of the run with the escalation record e.
SaveCopy(a, e) ==
  /\ run' = [actor[a].copy EXCEPT !.esc = e]
  /\ GoOn(a, AfterNotice(a))
  /\ UNCHANGED <<answers, requests>>

\* Find the thread and the factory's account, and look for an earlier copy of the notice.
\* An error of the listing is read as no notice (listed = {}); an account that cannot be
\* verified, or a notice whose text differs, fails the delivery.
LookForNotice(a) ==
  /\ actor[a].pc = "look"
  /\ LET e == actor[a].copy.esc IN
     \E verified, lists \in BOOLEAN :
       /\ IF verified /\ lists THEN UNCHANGED bounds ELSE Spend("faults")
       /\ LET listed == IF lists THEN Marked(e) ELSE {} IN
          \/ /\ e.status = "NOTIFIED" \/ e.attempts >= MaxAttempts
             /\ GoOn(a, AfterNotice(a))
             /\ UNCHANGED disk
          \/ /\ NoticeOwed(actor[a].copy)
             /\ \/ ~reachable
                \/ listed # {} /\ (listed \intersect Unaltered(e) = {} \/ ~verified)
                \/ listed = {} /\ ~verified
             /\ SaveCopy(a, NotNotified(e))
          \/ /\ NoticeOwed(actor[a].copy) /\ reachable /\ verified
             /\ \E i \in listed \intersect Unaltered(e) : SaveCopy(a, Notified(e, thread[i].at))
          \/ /\ NoticeOwed(actor[a].copy) /\ reachable /\ verified /\ listed = {}
             /\ GoOn(a, "post")
             /\ UNCHANGED disk
  /\ UNCHANGED <<github, now, limit, asking, job>>

\* create_issue_comment: it may fail, and it may happen and lose its answer.
CreateComment(comment, answered) ==
  \/ thread' = Append(thread, comment)
  \/ ~answered /\ UNCHANGED thread

PostNotice(a) ==
  /\ actor[a].pc = "post"
  /\ LET e == actor[a].copy.esc
         notice == [kind |-> "notice", episode |-> e.episode, at |-> now, limit |-> limit,
                    edited |-> FALSE, gone |-> FALSE]
     IN \E answered \in BOOLEAN :
          /\ IF answered THEN UNCHANGED bounds ELSE Spend("faults")
          /\ CreateComment(notice, answered)
          /\ IF answered
               THEN /\ actor' = [actor EXCEPT ![a].pc = "posted", ![a].at = now]
                    /\ UNCHANGED disk
               ELSE SaveCopy(a, PostFailed(e))
  /\ UNCHANGED <<reachable, now, limit, asking, job>>

SavePosted(a) ==
  /\ actor[a].pc = "posted"
  /\ SaveCopy(a, Notified(actor[a].copy.esc, actor[a].at))
  /\ UNCHANGED <<github, world, job>>

Deliver(a) == LookForNotice(a) \/ PostNotice(a) \/ SavePosted(a)

-----------------------------------------------------------------------------
(* The cycle of the main thread (reconcile_escalation) *)

BeginCycle ==
  /\ Idle("main")
  /\ Drains => ~job /\ (Idle("driver") \/ actor["driver"].who = "cli")
  /\ actor' = [actor EXCEPT !["main"].pc = IF NoticeOwed(run) THEN "look" ELSE "settle",
                            !["main"].copy = run]
  /\ UNCHANGED <<disk, github, world, job>>

\* The request of the run's episode.  One that the run accepted itself stays pending.
Pending(r) == requests[r.esc.episode].status = "pending"

\* A bug: the receipt of the request is not looked for.
NeverAcceptedHere(r) == FALSE

AcceptedHere(r) == \E x \in r.esc.receipts : x.episode = r.esc.episode /\ x.comment = 0

Unsettled(r) == Pending(r) /\ ~AcceptedHere(r)

MarkStale(r) == requests' = [requests EXCEPT ![r.esc.episode].status = "stale"]

\* _settle_requests_of_runs_not_waiting.
SettleRequests ==
  /\ actor["main"].pc = "settle"
  /\ IF ~AwaitsHuman(run) /\ Unsettled(run)
       THEN MarkStale(run) ELSE UNCHANGED requests
  /\ actor' = [actor EXCEPT !["main"].pc = "dispatch", !["main"].copy = run]
  /\ UNCHANGED <<run, answers, github, world, job>>

\* A bug: the reopen over the limit is only logged.
LogOverLimit == run' = run

\* _fail_reopen_over_limit: the reopen of the stored run fails, if it still is one.
FailOverLimit ==
  run' = IF run.state = "NEEDS_HUMAN" /\ run.esc.status = "REOPENED"
           THEN Halted(run, "NOT_RESUMABLE") ELSE run

\* _dispatch_reopened_runs.  A run whose worker is still at it is left for a later cycle.
DispatchReopened ==
  /\ actor["main"].pc = "dispatch"
  /\ LET r == actor["main"].copy
         reopened == r.state = "NEEDS_HUMAN" /\ r.esc.status = "REOPENED"
     IN \/ /\ reopened /\ r.esc.reopens > limit
           /\ FailOverLimit
           /\ UNCHANGED job
        \/ /\ reopened /\ r.esc.reopens <= limit
           /\ job' = (job \/ Idle("driver") \/ actor["driver"].who = "cli")
           /\ UNCHANGED run
        \/ /\ ~reopened
           /\ UNCHANGED <<run, job>>
  /\ GoOn("main", "ingest")
  /\ UNCHANGED <<answers, requests, github, world>>

\* ingest_dashboard_request for a run that waits: judged when the person made it.
IngestRequest ==
  /\ actor["main"].pc = "ingest"
  /\ LET asked == AwaitsHuman(actor["main"].copy) /\ Pending(actor["main"].copy)
                    /\ actor["main"].copy.esc.episode = run.esc.episode
         at == requests[run.esc.episode].at
         refused == ResumeRefused(run, at) \/ at < run.esc.created
     IN \/ /\ asked /\ ~AcceptedHere(run) /\ refused
           /\ MarkStale(run)
           /\ GoPoll
        \/ /\ asked /\ ~AcceptedHere(run) /\ ~refused
           /\ actor' = [actor EXCEPT !["main"].pc = "accept", !["main"].comment = 0,
                                     !["main"].copy = run]
           /\ UNCHANGED requests
        \/ /\ ~asked \/ AcceptedHere(run)
           /\ GoPoll
           /\ UNCHANGED requests
  /\ UNCHANGED <<run, answers, github, world, job>>

\* A bug: the answers are left to be saved with the reopened run.
LateAnswers(r) == answers

PlanAnswers(r) == IF r.esc.class = "PLAN_DECISION" THEN r.esc.episode ELSE answers

\* accept_resume: load the run again, refuse what it no longer takes, save the answers ...
AcceptAnswers ==
  /\ actor["main"].pc = "accept"
  /\ LET m == actor["main"]
         at == IF m.comment = 0 THEN requests[m.copy.esc.episode].at ELSE now
         refused == ResumeRefused(run, at) \/ run.esc.episode # m.copy.esc.episode
     IN IF refused
          THEN /\ requests' = IF m.comment = 0 /\ ~AcceptedHere(run)
                                THEN [requests EXCEPT ![m.copy.esc.episode].status = "stale"]
                                ELSE requests
               /\ (IF m.comment = 0 THEN GoPoll ELSE GoOn("main", "idle"))
               /\ UNCHANGED answers
          ELSE /\ answers' = PlanAnswers(run)
               /\ actor' = [actor EXCEPT !["main"].pc = "reopen", !["main"].copy = run]
               /\ UNCHANGED requests
  /\ UNCHANGED <<run, github, world, job>>

\* ... then save the reopened run ...
AcceptRun ==
  /\ actor["main"].pc = "reopen"
  /\ LET m == actor["main"]
         receipt == [episode |-> m.copy.esc.episode, comment |-> m.comment]
     IN /\ run' = [m.copy EXCEPT !.esc.receipts = @ \union {receipt}, !.esc.reopens = @ + 1,
                                 !.esc.status = "REOPENED", !.esc.cursor = CursorClosed]
        /\ IF m.comment = 0
             THEN job' = TRUE /\ GoPoll
             ELSE GoOn("main", "displace") /\ UNCHANGED job
  /\ UNCHANGED <<answers, requests, github, world>>

\* ... then, after a GitHub reply, mark the dashboard request it displaced, and dispatch.
DisplaceRequest ==
  /\ actor["main"].pc = "displace"
  /\ IF Pending(actor["main"].copy) THEN MarkStale(actor["main"].copy) ELSE UNCHANGED requests
  /\ job' = TRUE
  /\ GoOn("main", "idle")
  /\ UNCHANGED <<run, answers, github, world>>

-----------------------------------------------------------------------------
(* Polling for a reply (poll_escalation_reply) *)

\* Save a change of the stored escalation, unless it moved on since the poll read it.
SaveIfUnchanged(seen, e) ==
  run' = IF /\ run.esc.status = seen.status /\ run.esc.episode = seen.episode
            /\ run.esc.cursor = seen.cursor
           THEN [run EXCEPT !.esc = e] ELSE run

\* _pollable_escalation: a run that waits with a notice.
Pollable(r) == r.state = "NEEDS_HUMAN" /\ r.esc.status = "NOTIFIED"

\* _close_unpollable_reply_cursors: no reply resumes a run of this class.
Unpollable(r) == Pollable(r) /\ ~ResumableByReply(r.esc.class) /\ r.esc.cursor # CursorClosed

\* reply_closed_cause: why a reply is not read at a time; the first reason counts.
ClosedCause(e, at) ==
  IF ~e.remote THEN "NO_INSTRUCTIONS"
  ELSE IF WindowPassed(e, at) THEN "WINDOW_EXPIRED"
  ELSE IF ~ReopensLeft(e) THEN "REOPEN_LIMIT" ELSE "OPEN"

\* _close_reply_gate: the window that passed expires the record, the other causes close it.
GateClosed(e, cause) ==
  [e EXCEPT !.remote = FALSE, !.cursor = CursorClosed,
            !.status = IF cause = "WINDOW_EXPIRED" THEN "EXPIRED" ELSE @]

\* get_authenticated_user: an account that cannot be verified skips the poll.
Unverified == Spend("faults")

BeginPoll ==
  /\ actor["main"].pc = "poll"
  /\ LET e == run.esc
         reads == Pollable(run) /\ ResumableByReply(e.class) /\ e.cursor # CursorClosed
         cause == ClosedCause(e, now)
     IN \/ /\ ~reads
           /\ run' = IF Unpollable(run) THEN [run EXCEPT !.esc.cursor = CursorClosed] ELSE run
           /\ GoOn("main", "idle")
           /\ UNCHANGED bounds
        \/ /\ reads /\ cause # "OPEN"
           /\ run' = [run EXCEPT !.esc = GateClosed(e, cause)]
           /\ GoOn("main", "idle")
           /\ UNCHANGED bounds
        \/ /\ reads /\ cause = "OPEN"
           /\ UNCHANGED run
           /\ \/ GoOn("main", "idle") /\ Unverified
              \/ /\ actor' = [actor EXCEPT !["main"].pc = "page", !["main"].copy = run,
                                !["main"].next = e.cursor, !["main"].latest = e.cursor,
                                !["main"].pages = PagesPerPoll]
                 /\ UNCHANGED bounds
  /\ UNCHANGED <<answers, requests, github, now, limit, asking, job>>

\* list_issue_comments: the comments of a time on, in order of creation, as positions in the
\* thread (a comment's position is its id).
ListedSince(since) ==
  SelectSeq([i \in 1..Len(thread) |-> i], LAMBDA i : ~thread[i].gone /\ thread[i].at >= since)

\* One page of the listing.
PageOf(cursor, page) ==
  LET listed == ListedSince(cursor.since)
  IN SubSeq(listed, (page - 1) * PageSize + 1, Min({PageSize * page, Len(listed)}))

\* A bug: every comment of the cursor's own second counts as seen.
SameSecondSeen(cursor, i) == thread[i].at = cursor.since

\* Comments of the cursor's own second up to its id were read before.
SeenBefore(cursor, i) == thread[i].at = cursor.since /\ i <= cursor.last

\* is_authorized_author: a person who may decide, and not the factory itself.
ByAuthorized(i) == thread[i].kind = "reply"

\* validate_reply_candidate, up to its calls of GitHub: an authorized reply in the exact
\* grammar to this episode, made after the notice and not accepted before ...
IsReply(e, i) ==
  /\ ByAuthorized(i) /\ thread[i].episode = e.episode
  /\ thread[i].at >= e.notifiedAt
  /\ ~\E x \in e.receipts : x.comment = i
\* get_issue_comment: the comment as it is now.
FetchedUnedited(i) == ~thread[i].edited

\* ... and, fetched again, not edited.
IsValidReply(e, i) == IsReply(e, i) /\ FetchedUnedited(i)

\* _accept_valid_reply: accept_resume goes on from here, and the poll ends.
AcceptReply(i) ==
  actor' = [actor EXCEPT !["main"].pc = "accept", !["main"].comment = i,
                         !["main"].next = CursorClosed, !["main"].latest = CursorClosed,
                         !["main"].pages = 0]

\* One page.  The comments before the one that stops it move the cursor; a valid reply is
\* accepted; a reply that cannot be checked now is read again by the next poll.
ReadPage ==
  /\ actor["main"].pc = "page"
  /\ LET m == actor["main"]
         e == m.copy.esc
         start == e.cursor
         page == PageOf(start, m.next.page)
         unread == SelectSeq(page, LAMBDA i : ~SeenBefore(start, i))
         valid == {k \in 1..Len(unread) : IsValidReply(e, unread[k])}
         stop == IF valid = {} THEN Len(unread) + 1 ELSE Min(valid)
         Latest(n) == Cursor(1, Max({m.latest.since} \union {thread[unread[k]].at : k \in 1..n}),
                                Max({m.latest.last} \union {unread[k] : k \in 1..n}))
         Finish(cursor) ==
           /\ SaveIfUnchanged(e, [run.esc EXCEPT !.cursor = cursor])
           /\ GoOn("main", "idle")
     IN \/ \* the listing fails: keep what the pages before it gave
           /\ Spend("faults")
           /\ Finish(m.next)
        \/ \* the reply at k cannot be checked
           /\ \E k \in 1..Min({stop, Len(unread)}) :
                 IsReply(e, unread[k]) /\ Finish(Latest(k - 1))
           /\ Spend("faults")
        \/ /\ \E i \in 1..Len(thread) : stop <= Len(unread) /\ i = unread[stop] /\ AcceptReply(i)
           /\ UNCHANGED <<run, bounds>>
        \/ /\ stop > Len(unread)
           /\ LET last == Latest(Len(unread))
                  next == IF Len(page) < PageSize
                            THEN last ELSE Cursor(m.next.page + 1, start.since, last.last)
              IN IF Len(page) < PageSize \/ m.pages = 1
                   THEN Finish(next)
                   ELSE /\ actor' = [actor EXCEPT !["main"].next = next, !["main"].latest = last,
                                                  !["main"].pages = @ - 1]
                        /\ UNCHANGED run
           /\ UNCHANGED bounds
  /\ UNCHANGED <<answers, requests, github, now, limit, asking, job>>

Service ==
  \/ BeginCycle \/ Deliver("main") \/ SettleRequests \/ DispatchReopened \/ IngestRequest
  \/ AcceptAnswers \/ AcceptRun \/ DisplaceRequest \/ BeginPoll \/ ReadPage

-----------------------------------------------------------------------------
(* The driver: reopens the run, works on it, halts it *)

\* transition_reopened, or a failed reopen: a changed worktree or delivery, an error, or a
\* limit lowered meanwhile.  A held lock leaves the run reopened.
Reopen ==
  /\ job
  /\ job' = FALSE
  /\ LET reopened == run.state = "NEEDS_HUMAN" /\ run.esc.status = "REOPENED"
         fails == run.esc.reopens > limit
                    \/ ~\E x \in run.esc.receipts : x.episode = run.esc.episode
         resumed == [run EXCEPT !.state = "WORKING", !.esc.status = "RESUMED"]
     IN \/ /\ ~reopened \/ ~Idle("driver")
           /\ UNCHANGED <<run, actor, bounds>>
        \/ /\ reopened /\ fails
           /\ run' = Halted(run, "NOT_RESUMABLE")
           /\ UNCHANGED <<actor, bounds>>
        \/ /\ reopened /\ ~fails /\ Idle("driver")
           /\ \/ /\ run' = Halted(run, "NOT_RESUMABLE")
                 /\ Spend("faults")
                 /\ UNCHANGED actor
              \/ /\ run' = resumed
                 /\ actor' = [actor EXCEPT !["driver"].pc = "work", !["driver"].who = "worker",
                                           !["driver"].copy = resumed]
                 /\ UNCHANGED bounds
  /\ UNCHANGED <<answers, requests, github, now, limit, asking>>

\* Every save of the driver writes its own copy (a transition, a heartbeat).
DriverSaves ==
  /\ actor["driver"].pc = "work"
  /\ run # actor["driver"].copy
  /\ run' = actor["driver"].copy
  /\ UNCHANGED <<answers, requests, github, world, actor, job>>

\* transition to NEEDS_HUMAN and _halt: a new episode, whose notice the driver delivers.
Halt ==
  /\ actor["driver"].pc = "work"
  /\ Spend("halts")
  /\ \E class \in HaltClasses :
       /\ run' = Halted(actor["driver"].copy, class)
       /\ actor' = [actor EXCEPT !["driver"].pc = "look", !["driver"].copy = run']
  /\ UNCHANGED <<answers, requests, github, now, limit, asking, job>>

Finish ==
  /\ actor["driver"].pc = "work"
  /\ run' = [actor["driver"].copy EXCEPT !.state = "DONE"]
  /\ GoOn("driver", "idle")
  /\ UNCHANGED <<answers, requests, github, world, job>>

\* `factory escalate`, a process of its own: the record of the escalation stays as it is.
Escalate ==
  /\ Idle("driver") /\ run.state # "WORKING"
  /\ Spend("escalations")
  /\ run' = [run EXCEPT !.state = "WORKING"]
  /\ actor' = [actor EXCEPT !["driver"].pc = "work", !["driver"].who = "cli",
                            !["driver"].copy = run']
  /\ UNCHANGED <<answers, requests, github, now, limit, asking, job>>

Drive == DriverSaves \/ Halt \/ Finish \/ Deliver("driver")

-----------------------------------------------------------------------------
(* People, time and crashes *)

\* The dashboard checks a request against the stored run (accept_action) ...
CheckRequest ==
  /\ asking.episode = 0
  /\ ~ResumeRefused(run, now)
  /\ asking' = [episode |-> run.esc.episode, at |-> now]
  /\ UNCHANGED <<disk, github, now, limit, actor, job, bounds>>

\* ... and files it: create-only, one file for an episode.
FileRequest ==
  /\ asking.episode # 0
  /\ asking' = [asking EXCEPT !.episode = 0, !.at = 0]
  /\ requests' = [requests EXCEPT ![asking.episode] =
                    IF @.status = "none" THEN [status |-> "pending", at |-> asking.at] ELSE @]
  /\ UNCHANGED <<run, answers, github, now, limit, actor, job, bounds>>

Comment ==
  /\ Len(thread) < MaxComments
  /\ \E kind \in {"reply", "chatter"} :
       thread' = Append(thread, [kind |-> kind, episode |-> run.esc.episode, at |-> now,
                                 limit |-> 0, edited |-> FALSE, gone |-> FALSE])
  /\ UNCHANGED <<disk, reachable, world, actor, job>>

EditOrDelete ==
  /\ Spend("deletions")
  /\ \E i \in 1..Len(thread) :
       /\ ~thread[i].gone
       /\ \/ thread' = [thread EXCEPT ![i].edited = TRUE]
          \/ thread' = [thread EXCEPT ![i].gone = TRUE]
  /\ UNCHANGED <<disk, reachable, now, limit, asking, actor, job>>

\* The pull request is closed, and the work item names no issue to fall back to.
LoseThread ==
  /\ reachable
  /\ Spend("deletions")
  /\ reachable' = FALSE
  /\ UNCHANGED <<disk, thread, now, limit, asking, actor, job>>

Tick ==
  /\ now < MaxClock
  /\ now' = now + 1
  /\ UNCHANGED <<disk, github, limit, asking, actor, job, bounds>>

\* The service's process dies and starts again, with a lower reopen limit or the same.  A
\* run that its worker drove is driven on (ADR-043) or halted by the recovery.
Restart ==
  /\ Spend("crashes")
  /\ limit' \in {limit, limit - 1} \intersect Nat
  /\ LET escalated == actor["driver"].who = "cli" /\ ~Idle("driver")
         driver == [Asleep EXCEPT !.pc = "work", !.copy = run]
     IN \/ /\ escalated \/ run.state # "WORKING"
           /\ actor' = [main |-> Asleep, driver |-> IF escalated THEN actor["driver"] ELSE Asleep]
           /\ UNCHANGED run
        \/ /\ ~escalated /\ run.state = "WORKING"
           /\ actor' = [main |-> Asleep, driver |-> driver]
           /\ UNCHANGED run
        \/ /\ ~escalated /\ run.state = "WORKING"
           /\ actor' = [main |-> Asleep, driver |-> Asleep]
           /\ run' = Halted(run, "NOT_RESUMABLE")
  /\ job' = FALSE
  /\ UNCHANGED <<answers, requests, github, now, asking>>

Environment ==
  \/ Escalate \/ CheckRequest \/ FileRequest \/ Comment \/ EditOrDelete \/ LoseThread
  \/ Tick \/ Restart

-----------------------------------------------------------------------------

\* The run has just halted for the first time, and its driver is about to deliver the notice.
Init ==
  /\ now = 0 /\ limit = MaxReopens
  /\ \E class \in HaltClasses :
       run = [state |-> "NEEDS_HUMAN",
              esc |-> NewEpisode([episode |-> 0, reopens |-> 0, receipts |-> {}], class)]
  /\ actor = [main |-> Asleep, driver |-> [Asleep EXCEPT !.pc = "look", !.copy = run]]
  /\ answers = 0
  /\ requests = [n \in Episodes |-> [status |-> "none", at |-> 0]]
  /\ thread = <<>> /\ reachable = TRUE
  /\ job = FALSE
  /\ asking = [episode |-> 0, at |-> 0]
  /\ bounds = [halts |-> MaxHalts, escalations |-> MaxEscalations, faults |-> MaxFaults,
               crashes |-> MaxCrashes, deletions |-> MaxDeletions]

Next == Service \/ Reopen \/ Drive \/ Environment

\* The main thread polls for ever, and the driver
\* goes on until its work ends.  Nothing obliges a
\* person, the clock, a fault or a crash.
Fairness == WF_vars(Service) /\ WF_vars(Reopen) /\ WF_vars(Drive)

Spec == Init /\ [][Next]_vars /\ Fairness

-----------------------------------------------------------------------------
(* Properties *)

\* Types: the stored record, the artifacts and files beside it, and the two actors.
TypeOK ==
  /\ run.state \in {"NEEDS_HUMAN", "WORKING", "DONE"}
  /\ run.esc.episode \in Episodes /\ run.esc.status \in Statuses /\ run.esc.class \in Classes
  /\ run.esc.remote \in BOOLEAN /\ run.esc.attempts \in 0..MaxAttempts
  /\ run.esc.reopens \in 0..MaxReopens
  /\ answers \in {0} \union Episodes
  /\ requests \in [Episodes -> [status : {"none", "pending", "stale"}, at : 0..MaxClock]]
  /\ limit \in 0..MaxReopens /\ now \in 0..MaxClock
  /\ \A a \in Actors : actor[a].pc \in {"idle", "look", "post", "posted", "settle", "dispatch",
                                       "ingest", "accept", "reopen", "displace", "poll", "page",
                                       "work"}

\* Where a run is in the protocol of its decisions.
Phase(r) ==
  CASE r.state = "WORKING" -> "working"
    [] r.state = "DONE" -> "ended"
    [] r.state = "NEEDS_HUMAN" /\ r.esc.status = "REOPENED" -> "reopened"
    [] AwaitsHuman(r) -> "waiting"
    [] OTHER -> "closed"

Decisions == INSTANCE ResumeEpisodes
               WITH phase <- Phase(run), episode <- run.esc.episode,
                    receipts <- {x.episode : x \in run.esc.receipts}

\* The protocol keeps its promise: each episode is decided at most once, by a receipt that
\* stays, and only a decided episode sets the run working again.
DecidesEachEpisodeOnce == Decisions!EpSpec

\* A run never reopens without the answers its plan waited for, whatever crash falls
\* between the two saves (accept_resume).
ReopenedHasItsAnswers ==
  run.esc.status \in {"REOPENED", "RESUMED"} /\ run.esc.class = "PLAN_DECISION"
    => answers = run.esc.episode

\* A reply a person may give and the service may still take.
Open(i) ==
  /\ i <= Len(thread) /\ ~thread[i].gone
  /\ run.state = "NEEDS_HUMAN" /\ run.esc.status = "NOTIFIED" /\ run.esc.remote
  /\ run.esc.class \in GithubReplyClasses
  /\ ~WindowPassed(run.esc, now) /\ ReopensLeft(run.esc)
  /\ IsValidReply(run.esc, i)

\* No authorized reply is missed: paging, a cursor kept over polls, restarts and failed calls
\* do not step over it.
RepliesAreTaken == \A i \in 1..MaxComments : Open(i) ~> ~Open(i)

\* A dashboard request for the current episode is accepted or marked stale, or the episode
\* ends first.
RequestsAreSettled ==
  LET waits == /\ requests[run.esc.episode].status = "pending"
               /\ ~\E x \in run.esc.receipts : x.episode = run.esc.episode /\ x.comment = 0
  IN waits ~> ~waits

\* A reopened run is dispatched or its reopen fails, also when the reopen limit was lowered
\* below its count after the reply was accepted.
ReopensAreSettled ==
  LET reopened == run.state = "NEEDS_HUMAN" /\ run.esc.status = "REOPENED"
  IN reopened ~> ~reopened

\* A pending notice is posted or given up.
NoticesAreSettled ==
  LET owed == run.state = "NEEDS_HUMAN" /\ run.esc.status = "PENDING_NOTIFICATION"
  IN owed ~> ~owed

\* No episode stays between two saves: notices, requests and reopens all come to an end,
\* under faults, a crash, a lowered limit and a second actor.
EpisodesSettle == NoticesAreSettled /\ ReopensAreSettled /\ RequestsAreSettled

\* A dashboard request whose decision the run took is never marked stale: the file beside
\* run.json and the receipt in it, saved in two steps, say the same to the person who asked.
AcceptedRequestsStayPending ==
  \A n \in Episodes :
    (\E x \in run.esc.receipts : x.episode = n /\ x.comment = 0) => requests[n].status = "pending"

(* Promises of the documentation that the code does not keep: each can be refuted. *)

\* The thread holds one notice of an episode.
OneNoticePerEpisode ==
  \A i, j \in 1..Len(thread) :
    thread[i].kind = "notice" /\ thread[j].kind = "notice" /\ thread[i].episode = thread[j].episode
      => i = j

=============================================================================
