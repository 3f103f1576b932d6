--------------------------- MODULE Escalation_proofs ---------------------------
(***************************************************************************)
(* The decisions on a halted run, for any page size, any number of halts,    *)
(* comments, faults, crashes and escalations: a reopened plan has its         *)
(* answers, and the request of a decision that was taken stays pending.  For  *)
(* a service whose cycle waits for the work it dispatched, and without an     *)
(* operator's escalation, the protocol implements ResumeEpisodes.             *)
(*                                                                           *)
(* The difficulty is that three records of a run exist at once: the stored    *)
(* one and the copies of the main thread and of the driver, each of which may *)
(* be saved over it.  The steps are first reduced to what they do to these.   *)
(***************************************************************************)
EXTENDS MCEscalation, TLAPS

Main == actor["main"]
Driver == actor["driver"]

Notifying == {"look", "post", "posted"}
MainPlaces == Notifying \cup {"idle", "settle", "dispatch", "ingest", "accept", "reopen",
                              "displace", "poll", "page"}
DriverPlaces == Notifying \cup {"idle", "work"}

\* The fields a record of a run has, and the counts in it.
HasFields(r) ==
  /\ {"state", "esc"} \subseteq DOMAIN r
  /\ {"episode", "status", "class", "remote", "cursor", "attempts", "notifiedAt", "reopens",
      "receipts"} \subseteq DOMAIN r.esc
  /\ r.esc.episode \in Nat
  /\ \A x \in r.esc.receipts : x.episode \in Nat /\ x.episode <= r.esc.episode

ActorFields ==
  /\ Actors \subseteq DOMAIN actor
  /\ \A a \in Actors :
       {"pc", "who", "copy", "at", "comment", "next", "latest", "pages"} \subseteq DOMAIN actor[a]

EscTypes ==
  /\ ActorFields
  /\ Main.pc \in MainPlaces /\ Driver.pc \in DriverPlaces
  /\ HasFields(run)
  /\ Main.pc \notin {"idle", "poll"} => HasFields(Main.copy)
  /\ Driver.pc # "idle" => HasFields(Driver.copy)
  /\ Episodes \subseteq DOMAIN requests
  /\ "escalations" \in DOMAIN bounds
  /\ job \in BOOLEAN

\* A record whose notice is owed.
Owing(r) ==
  r.state = "NEEDS_HUMAN" /\ r.esc.status \in {"PENDING_NOTIFICATION", "NOTIFICATION_FAILED"}

\* A record that a decision reopened, and no worker has taken up yet.
Reopened(r) == r.state = "NEEDS_HUMAN" /\ r.esc.status = "REOPENED"

-----------------------------------------------------------------------------
(* The steps, in fields *)

BoundsKept == "escalations" \in DOMAIN bounds' /\ bounds'.escalations = bounds.escalations
Keeps(a) == actor'[a].copy = actor[a].copy /\ actor'[a].comment = actor[a].comment
              /\ actor'[a].who = actor[a].who

\* An event of another kind leaves the escalations that are left.
LEMMA SpendFields ==
  ASSUME EscTypes, NEW what, what # "escalations", Spend(what)
  PROVE  BoundsKept
BY DEF EscTypes, Spend, BoundsKept

\* An actor that goes on keeps what it holds, and the other one stays where it is.
LEMMA GoOnFields ==
  ASSUME EscTypes, NEW a \in Actors, NEW pc, GoOn(a, pc)
  PROVE  /\ ActorFields' /\ actor'[a].pc = pc
         /\ pc = "idle" => actor'[a] = Asleep
         /\ pc # "idle" => Keeps(a)
         /\ \A b \in Actors : b # a => actor'[b] = actor[b]
<1>1. CASE pc = "idle"
  BY <1>1 DEF EscTypes, ActorFields, GoOn, Asleep, Actors
<1>2. CASE pc # "idle"
  BY <1>2 DEF EscTypes, ActorFields, GoOn, Keeps, Actors
<1>3. QED  BY <1>1, <1>2

\* The main thread that goes to the poll holds nothing.
LEMMA GoPollFields ==
  ASSUME EscTypes, GoPoll
  PROVE  ActorFields' /\ Main'.pc = "poll" /\ Driver' = Driver
BY DEF EscTypes, ActorFields, GoPoll, Asleep, Actors, Main, Driver

\* A new episode has a number of its own, no notice yet, and the receipts of the earlier ones.
LEMMA HaltedFields ==
  ASSUME NEW r, HasFields(r), NEW class
  PROVE  /\ HasFields(Halted(r, class)) /\ Owing(Halted(r, class))
         /\ Halted(r, class).esc.status = "PENDING_NOTIFICATION"
         /\ Halted(r, class).esc.episode = r.esc.episode + 1
         /\ Halted(r, class).esc.receipts = r.esc.receipts
BY DEF HasFields, Owing, Halted, NewEpisode

\* A request that is marked stale is the only one that changes.
Stales(n) ==
  Episodes \subseteq DOMAIN requests' /\ \A m \in Episodes : m # n => requests'[m] = requests[m]

\* A request that goes stale (_mark_stale) is the one of the record's episode.
LEMMA StaleFields ==
  ASSUME EscTypes, NEW r, MarkStale(r)
  PROVE  Stales(r.esc.episode)
BY DEF EscTypes, MarkStale, Stales

\* A saved copy: the run of the copy, waiting, with the same episode, class and receipts.
SavesCopy(a) ==
  /\ HasFields(run') /\ AwaitsHuman(run')
  /\ run'.state = actor[a].copy.state
  /\ run'.esc.episode = actor[a].copy.esc.episode
  /\ run'.esc.receipts = actor[a].copy.esc.receipts

\* After its notice the driver lets go, and the main thread goes on with its cycle.
Rests(a) ==
  IF a = "driver" THEN actor'[a] = Asleep ELSE actor'[a].pc = "settle" /\ Keeps(a)

Reports(e, s) ==
  /\ s.status \in WaitingStatuses
  /\ s.episode = e.episode /\ s.receipts = e.receipts
  /\ {"episode", "status", "class", "remote", "cursor", "attempts", "notifiedAt", "reopens",
      "receipts"} \subseteq DOMAIN s

\* However the delivery of a notice ends, the episode and its receipts stay.
LEMMA ReportFields ==
  ASSUME NEW r, HasFields(r), Owing(r)
  PROVE  /\ Reports(r.esc, NotNotified(r.esc)) /\ Reports(r.esc, PostFailed(r.esc))
         /\ \A at : Reports(r.esc, Notified(r.esc, at))
BY DEF HasFields, Owing, Reports, NotNotified, PostFailed, Notified, WaitingStatuses

\* A notice saves the copy of its actor, whatever is stored by then
\* (deliver_escalation_notification).
LEMMA SaveCopyFields ==
  ASSUME EscTypes, NEW a \in Actors, HasFields(actor[a].copy), Owing(actor[a].copy), NEW e,
         Reports(actor[a].copy.esc, e), SaveCopy(a, e)
  PROVE  /\ ActorFields' /\ Rests(a) /\ SavesCopy(a) /\ UNCHANGED <<answers, requests>>
         /\ \A b \in Actors : b # a => actor'[b] = actor[b]
<1>1. run' = [actor[a].copy EXCEPT !.esc = e]
  BY DEF SaveCopy
<1>2. run'.esc = e /\ run'.state = actor[a].copy.state /\ {"state", "esc"} \subseteq DOMAIN run'
  BY <1>1 DEF HasFields
<1>3. HasFields(run')
  BY <1>2 DEF HasFields, Reports
<1>4. SavesCopy(a)
  BY <1>2, <1>3 DEF SavesCopy, Reports, AwaitsHuman, Owing
<1>5. GoOn(a, AfterNotice(a)) /\ UNCHANGED <<answers, requests>>
  BY DEF SaveCopy
<1>6. Rests(a) /\ ActorFields' /\ \A b \in Actors : b # a => actor'[b] = actor[b]
  BY <1>5, GoOnFields DEF AfterNotice, Rests, Actors
<1>7. QED  BY <1>4, <1>5, <1>6

\* A step of a notice goes on with the copy, gives it up, or saves it.
NoticeStep(a) ==
  /\ ActorFields' /\ BoundsKept /\ UNCHANGED <<answers, requests, job>>
  /\ \A b \in Actors : b # a => actor'[b] = actor[b]
  /\ \/ actor'[a].pc \in {"post", "posted"} /\ Keeps(a) /\ UNCHANGED run
     \/ Rests(a) /\ UNCHANGED run
     \/ Rests(a) /\ SavesCopy(a)

\* The search for an earlier notice in the thread is a step of a notice.
LEMMA LookFields ==
  ASSUME EscTypes, NEW a \in Actors, HasFields(actor[a].copy), Owing(actor[a].copy),
         LookForNotice(a)
  PROVE  NoticeStep(a)
<1>1. BoundsKept /\ UNCHANGED job
  BY SpendFields DEF LookForNotice, BoundsKept, EscTypes
<1>2. \/ GoOn(a, AfterNotice(a)) /\ UNCHANGED disk
      \/ SaveCopy(a, NotNotified(actor[a].copy.esc))
      \/ \E at : SaveCopy(a, Notified(actor[a].copy.esc, at))
      \/ GoOn(a, "post") /\ UNCHANGED disk
  BY DEF LookForNotice
<1>3. CASE GoOn(a, AfterNotice(a)) /\ UNCHANGED disk
  BY <1>1, <1>3, GoOnFields DEF NoticeStep, AfterNotice, Rests, disk, Actors
<1>4. CASE SaveCopy(a, NotNotified(actor[a].copy.esc))
  BY <1>1, <1>4, ReportFields, SaveCopyFields DEF NoticeStep
<1>5. CASE \E at : SaveCopy(a, Notified(actor[a].copy.esc, at))
  BY <1>1, <1>5, ReportFields, SaveCopyFields DEF NoticeStep
<1>6. CASE GoOn(a, "post") /\ UNCHANGED disk
  BY <1>1, <1>6, GoOnFields DEF NoticeStep, disk
<1>7. QED  BY <1>2, <1>3, <1>4, <1>5, <1>6

\* So is the post of the notice.
LEMMA PostFields ==
  ASSUME EscTypes, NEW a \in Actors, HasFields(actor[a].copy), Owing(actor[a].copy),
         PostNotice(a)
  PROVE  NoticeStep(a)
<1>1. BoundsKept /\ UNCHANGED job
  BY SpendFields DEF PostNotice, BoundsKept, EscTypes
<1>2. \/ actor' = [actor EXCEPT ![a].pc = "posted", ![a].at = now] /\ UNCHANGED disk
      \/ SaveCopy(a, PostFailed(actor[a].copy.esc))
  BY DEF PostNotice
<1>3. CASE actor' = [actor EXCEPT ![a].pc = "posted", ![a].at = now] /\ UNCHANGED disk
  BY <1>1, <1>3 DEF NoticeStep, EscTypes, ActorFields, Keeps, disk, Actors
<1>4. CASE SaveCopy(a, PostFailed(actor[a].copy.esc))
  BY <1>1, <1>4, ReportFields, SaveCopyFields DEF NoticeStep
<1>5. QED  BY <1>2, <1>3, <1>4

\* Every step of a notice, whoever delivers it, is one in these fields.
LEMMA DeliverFields ==
  ASSUME EscTypes, NEW a \in Actors, HasFields(actor[a].copy), Owing(actor[a].copy), Deliver(a)
  PROVE  NoticeStep(a) /\ actor[a].pc \in Notifying
<1>1. CASE LookForNotice(a)
  BY <1>1, LookFields DEF LookForNotice, Notifying
<1>2. CASE PostNotice(a)
  BY <1>2, PostFields DEF PostNotice, Notifying
<1>3. CASE SavePosted(a)
  <2>1. BoundsKept /\ UNCHANGED job /\ actor[a].pc = "posted"
    BY <1>3 DEF SavePosted, world, BoundsKept, EscTypes
  <2>2. QED  BY <1>3, <2>1, ReportFields, SaveCopyFields DEF SavePosted, NoticeStep, Notifying
<1>4. QED  BY <1>1, <1>2, <1>3 DEF Deliver

\* A change of the stored record that keeps whose decision it waits for.
Stays(r) ==
  /\ HasFields(run') /\ run'.state = r.state /\ run'.esc.class = r.esc.class
  /\ run'.esc.episode = r.esc.episode

\* A cycle begins with the stored record, and not before the work it waits for is over
\* when it drains.
LEMMA CycleFields ==
  ASSUME EscTypes, BeginCycle
  PROVE  /\ ActorFields' /\ Driver' = Driver /\ Main.pc = "idle" /\ Main'.copy = run
         /\ (Main'.pc = "look" /\ Owing(run)) \/ Main'.pc = "settle"
         /\ UNCHANGED <<run, answers, requests, job, bounds>>
         /\ Drains => ~job /\ (Driver.pc = "idle" \/ Driver.who = "cli")
BY DEF EscTypes, ActorFields, BeginCycle, Idle, NoticeOwed, Owing, Main, Driver, Actors, disk, world

\* Requests of decided or abandoned episodes are marked, and the record is read again.
LEMMA SettleFields ==
  ASSUME EscTypes, SettleRequests
  PROVE  /\ ActorFields' /\ Driver' = Driver /\ Main.pc = "settle"
         /\ Main'.pc = "dispatch" /\ Main'.copy = run
         /\ (Stales(run.esc.episode) /\ ~AcceptedHere(run)) \/ UNCHANGED requests
         /\ UNCHANGED <<run, answers, job, bounds>>
<1>1. (MarkStale(run) /\ Unsettled(run)) \/ UNCHANGED requests
  BY DEF SettleRequests
<1>2. (Stales(run.esc.episode) /\ ~AcceptedHere(run)) \/ UNCHANGED requests
  BY <1>1, StaleFields DEF Unsettled
<1>3. QED
  BY <1>2 DEF EscTypes, ActorFields, SettleRequests, Main, Driver, Actors, world

\* A reopened record is handed to a worker, or its reopen fails over the limit.
LEMMA DispatchFields ==
  ASSUME EscTypes, DispatchReopened
  PROVE  /\ ActorFields' /\ Driver' = Driver /\ Main.pc = "dispatch"
         /\ Main'.pc = "ingest" /\ Keeps("main")
         /\ \/ UNCHANGED <<run, job>>
            \/ UNCHANGED run /\ job' /\ Reopened(Main.copy)
                 /\ (job \/ Driver.pc = "idle" \/ Driver.who = "cli")
            \/ UNCHANGED job /\ Reopened(run) /\ run' = Halted(run, "NOT_RESUMABLE")
         /\ UNCHANGED <<answers, requests, bounds>>
<1>1. /\ ActorFields' /\ Driver' = Driver /\ Main.pc = "dispatch" /\ Main'.pc = "ingest"
      /\ Keeps("main")
  BY GoOnFields DEF DispatchReopened, Main, Driver, Actors
<1>2. QED
  BY <1>1 DEF EscTypes, DispatchReopened, FailOverLimit, Reopened, Idle, Main, Driver, world

\* A request of a waiting record is taken to the main thread, or goes stale.
LEMMA IngestFields ==
  ASSUME EscTypes, IngestRequest
  PROVE  /\ ActorFields' /\ Driver' = Driver /\ Main.pc = "ingest"
         /\ \/ /\ Main'.pc = "poll"
               /\ (Stales(run.esc.episode) /\ ~AcceptedHere(run)) \/ UNCHANGED requests
            \/ /\ Main'.pc = "accept" /\ Main'.copy = run /\ Main'.comment = 0
               /\ AwaitsHuman(Main.copy) /\ AwaitsHuman(run)
               /\ ~AcceptedHere(run) /\ Pending(run)
               /\ UNCHANGED requests
         /\ UNCHANGED <<run, answers, job, bounds>>
<1>1. UNCHANGED <<run, answers, job, bounds>> /\ Main.pc = "ingest"
  BY DEF IngestRequest, world, Main
<1>2. CASE GoPoll /\ ((MarkStale(run) /\ ~AcceptedHere(run)) \/ UNCHANGED requests)
  BY <1>1, <1>2, StaleFields, GoPollFields
<1>3. CASE /\ actor' = [actor EXCEPT !["main"].pc = "accept", !["main"].comment = 0,
                                     !["main"].copy = run]
           /\ UNCHANGED requests /\ ~AcceptedHere(run)
           /\ AwaitsHuman(Main.copy) /\ Pending(Main.copy)
           /\ Main.copy.esc.episode = run.esc.episode
           /\ \E at : ~ResumeRefused(run, at)
  <2>1. Pending(run) /\ AwaitsHuman(run)
    BY <1>3 DEF Pending, ResumeRefused
  <2>2. /\ ActorFields' /\ Driver' = Driver /\ Main'.pc = "accept" /\ Main'.copy = run
        /\ Main'.comment = 0
    BY <1>3 DEF EscTypes, ActorFields, Main, Driver, Actors
  <2>3. QED  BY <1>1, <1>3, <2>1, <2>2
<1>4. QED  BY <1>2, <1>3 DEF IngestRequest, Main

\* The answers of a plan are written for the episode of the record that waits, or nothing is.
LEMMA AnswersFields ==
  ASSUME EscTypes, AcceptAnswers
  PROVE  /\ ActorFields' /\ Driver' = Driver /\ Main.pc = "accept"
         /\ \/ /\ Main'.pc \in {"poll", "idle"} /\ UNCHANGED answers
               /\ \/ UNCHANGED requests
                  \/ /\ Stales(Main.copy.esc.episode)
                     /\ Main.comment = 0 /\ ~AcceptedHere(run)
            \/ /\ Main'.pc = "reopen" /\ Main'.copy = run /\ Main'.comment = Main.comment
               /\ AwaitsHuman(run) /\ run.esc.episode = Main.copy.esc.episode
               /\ answers' = PlanAnswers(run) /\ UNCHANGED requests
         /\ UNCHANGED <<run, job, bounds>>
<1>1. UNCHANGED <<run, job, bounds>> /\ Main.pc = "accept"
  BY DEF AcceptAnswers, world, Main
<1>2. CASE /\ \/ UNCHANGED requests
              \/ /\ Main.comment = 0 /\ ~AcceptedHere(run)
                 /\ requests' = [requests EXCEPT ![Main.copy.esc.episode].status = "stale"]
           /\ GoPoll \/ GoOn("main", "idle")
           /\ UNCHANGED answers
  <2>1. ActorFields' /\ Driver' = Driver /\ Main'.pc \in {"poll", "idle"}
    BY <1>2, GoPollFields, GoOnFields DEF Main, Driver, Actors, Asleep
  <2>2. QED  BY <1>1, <1>2, <2>1 DEF Stales, EscTypes
<1>3. CASE /\ AwaitsHuman(run) /\ run.esc.episode = Main.copy.esc.episode
           /\ answers' = PlanAnswers(run) /\ UNCHANGED requests
           /\ actor' = [actor EXCEPT !["main"].pc = "reopen", !["main"].copy = run]
  BY <1>1, <1>3 DEF EscTypes, ActorFields, Main, Driver, Actors
<1>4. QED
  BY <1>2, <1>3 DEF AcceptAnswers, ResumeRefused, Main

\* The reopened run: the record that was judged, with the receipt.
LEMMA AcceptFields ==
  ASSUME EscTypes, AcceptRun
  PROVE  /\ ActorFields' /\ Driver' = Driver /\ Main.pc = "reopen"
         /\ Stays(Main.copy) /\ run'.esc.status = "REOPENED"
         /\ run'.esc.receipts = Main.copy.esc.receipts
              \cup {[episode |-> Main.copy.esc.episode, comment |-> Main.comment]}
         /\ \/ Main.comment = 0 /\ Main'.pc = "poll" /\ job' = TRUE
            \/ Main.comment # 0 /\ Main'.pc = "displace" /\ Keeps("main") /\ UNCHANGED job
         /\ UNCHANGED <<answers, requests, bounds>>
<1>1. HasFields(Main.copy) /\ Main.pc = "reopen" /\ UNCHANGED <<answers, requests, bounds>>
  BY DEF EscTypes, AcceptRun, Main, Actors, world
<1> DEFINE receipt == [episode |-> Main.copy.esc.episode, comment |-> Main.comment]
<1>2. run' = [Main.copy EXCEPT !.esc.receipts = @ \cup {receipt}, !.esc.reopens = @ + 1,
                               !.esc.status = "REOPENED", !.esc.cursor = CursorClosed]
  BY DEF AcceptRun, Main
<1>3. /\ {"state", "esc"} \subseteq DOMAIN run' /\ run'.state = Main.copy.state
      /\ {"episode", "status", "class", "remote", "cursor", "attempts", "notifiedAt", "reopens",
          "receipts"} \subseteq DOMAIN run'.esc
      /\ run'.esc.status = "REOPENED" /\ run'.esc.class = Main.copy.esc.class
      /\ run'.esc.episode = Main.copy.esc.episode
      /\ run'.esc.receipts = Main.copy.esc.receipts \cup {receipt}
  BY <1>1, <1>2 DEF HasFields
<1>4. HasFields(run')
  BY <1>1, <1>3 DEF HasFields
<1>5. \/ Main.comment = 0 /\ job' = TRUE /\ GoPoll
      \/ Main.comment # 0 /\ GoOn("main", "displace") /\ UNCHANGED job
  BY DEF AcceptRun, Main
<1>6. /\ ActorFields' /\ Driver' = Driver
      /\ \/ Main.comment = 0 /\ Main'.pc = "poll" /\ job' = TRUE
         \/ Main.comment # 0 /\ Main'.pc = "displace" /\ Keeps("main") /\ UNCHANGED job
  BY <1>5, GoPollFields, GoOnFields DEF Main, Driver, Actors
<1>7. QED  BY <1>1, <1>3, <1>4, <1>6 DEF Stays

\* After an accepted comment, a request of the same episode goes stale.
LEMMA DisplaceFields ==
  ASSUME EscTypes, DisplaceRequest
  PROVE  /\ ActorFields' /\ Driver' = Driver /\ Main.pc = "displace" /\ Main'.pc = "idle"
         /\ Stales(Main.copy.esc.episode) \/ UNCHANGED requests
         /\ job' = TRUE /\ UNCHANGED <<run, answers, bounds>>
BY GoOnFields, StaleFields DEF DisplaceRequest, Main, Driver, Actors, Asleep, world

\* A poll changes the cursor of the stored record, or closes it for replies.
Polls ==
  /\ Stays(run) /\ run'.esc.receipts = run.esc.receipts
  /\ \/ run'.esc.status = run.esc.status
     \/ AwaitsHuman(run) /\ run'.esc.status = "EXPIRED"

\* A poll begins with the stored record, or closes it for replies.
LEMMA PollFields ==
  ASSUME EscTypes, BeginPoll
  PROVE  /\ ActorFields' /\ Driver' = Driver /\ Main.pc = "poll"
         /\ \/ Main'.pc = "idle" /\ UNCHANGED run
            \/ Main'.pc = "idle" /\ Pollable(run) /\ Polls
            \/ Main'.pc = "page" /\ Main'.copy = run /\ Pollable(run) /\ UNCHANGED run
         /\ UNCHANGED <<answers, requests, job>> /\ BoundsKept
<1>1. Main.pc = "poll" /\ UNCHANGED <<answers, requests, job>> /\ BoundsKept
  BY SpendFields DEF BeginPoll, Main, Unverified, BoundsKept, EscTypes
<1>2. CASE /\ GoOn("main", "idle")
           /\ \/ UNCHANGED run
              \/ Unpollable(run) /\ run' = [run EXCEPT !.esc.cursor = CursorClosed]
              \/ \E cause : Pollable(run) /\ run' = [run EXCEPT !.esc = GateClosed(run.esc, cause)]
  <2>1. ActorFields' /\ Driver' = Driver /\ Main'.pc = "idle"
    BY <1>2, GoOnFields DEF Main, Driver, Actors, Asleep
  <2>2. CASE Unpollable(run) /\ run' = [run EXCEPT !.esc.cursor = CursorClosed]
    <3>1. Polls /\ Pollable(run)
      BY <2>2 DEF EscTypes, HasFields, Polls, Stays, Unpollable
    <3>2. QED  BY <1>1, <2>1, <3>1
  <2>3. ASSUME NEW cause, Pollable(run), run' = [run EXCEPT !.esc = GateClosed(run.esc, cause)]
        PROVE  Polls
    <3>1. AwaitsHuman(run)
      BY <2>3 DEF Pollable, AwaitsHuman, WaitingStatuses
    <3>2. /\ run'.state = run.state /\ {"state", "esc"} \subseteq DOMAIN run'
          /\ run'.esc = GateClosed(run.esc, cause)
      BY <2>3 DEF EscTypes, HasFields
    <3>3. QED  BY <3>1, <3>2 DEF EscTypes, HasFields, Polls, Stays, GateClosed
  <2>4. QED  BY <1>1, <1>2, <2>1, <2>2, <2>3
<1>3. CASE /\ actor' = [actor EXCEPT !["main"].pc = "page", !["main"].copy = run,
                           !["main"].next = run.esc.cursor, !["main"].latest = run.esc.cursor,
                           !["main"].pages = PagesPerPoll]
           /\ Pollable(run) /\ UNCHANGED run
  BY <1>1, <1>3 DEF EscTypes, ActorFields, Main, Driver, Actors
<1>4. QED  BY <1>2, <1>3 DEF BeginPoll, Unverified

\* A page of the thread moves the cursor, or brings a comment to accept on the polled record.
LEMMA PageFields ==
  ASSUME EscTypes, ReadPage
  PROVE  /\ ActorFields' /\ Driver' = Driver /\ Main.pc = "page"
         /\ \/ Main'.pc = "idle" /\ UNCHANGED run
            \/ Main'.pc = "idle" /\ Polls /\ run'.esc.status = run.esc.status
            \/ Main'.pc = "page" /\ Keeps("main") /\ UNCHANGED run
            \/ Main'.pc = "accept" /\ Main'.copy = Main.copy /\ Main'.comment # 0 /\ UNCHANGED run
         /\ UNCHANGED <<answers, requests, job>> /\ BoundsKept
<1>1. Main.pc = "page" /\ UNCHANGED <<answers, requests, job>> /\ BoundsKept
  BY SpendFields DEF ReadPage, Main, BoundsKept, EscTypes
<1>2. \/ \E cursor : /\ SaveIfUnchanged(Main.copy.esc, [run.esc EXCEPT !.cursor = cursor])
                     /\ GoOn("main", "idle")
      \/ (\E i \in 1..Len(thread) : AcceptReply(i)) /\ UNCHANGED run
      \/ \E next, latest : /\ actor' = [actor EXCEPT !["main"].next = next,
                                                     !["main"].latest = latest,
                                                     !["main"].pages = @ - 1]
                           /\ UNCHANGED run
  BY DEF ReadPage, Main
<1>3. CASE \E cursor : /\ SaveIfUnchanged(Main.copy.esc, [run.esc EXCEPT !.cursor = cursor])
                       /\ GoOn("main", "idle")
  <2>1. ActorFields' /\ Driver' = Driver /\ Main'.pc = "idle"
    BY <1>3, GoOnFields DEF Main, Driver, Actors, Asleep
  <2>2. UNCHANGED run \/ \E cursor : run' = [run EXCEPT !.esc = [run.esc EXCEPT !.cursor = cursor]]
    BY <1>3 DEF SaveIfUnchanged
  <2>3. ASSUME NEW cursor, run' = [run EXCEPT !.esc = [run.esc EXCEPT !.cursor = cursor]]
        PROVE  Polls /\ run'.esc.status = run.esc.status
    BY <2>3 DEF EscTypes, HasFields, Polls, Stays
  <2>4. QED  BY <1>1, <2>1, <2>2, <2>3
<1>4. CASE (\E i \in 1..Len(thread) : AcceptReply(i)) /\ UNCHANGED run
  BY <1>1, <1>4 DEF EscTypes, ActorFields, Main, Driver, Actors, AcceptReply
<1>5. CASE \E next, latest : /\ actor' = [actor EXCEPT !["main"].next = next,
                                                       !["main"].latest = latest,
                                                       !["main"].pages = @ - 1]
                             /\ UNCHANGED run
  BY <1>1, <1>5 DEF EscTypes, ActorFields, Main, Driver, Actors, Keeps
<1>6. QED  BY <1>2, <1>3, <1>4, <1>5

-----------------------------------------------------------------------------
(* The steps of the driver and of the environment, in fields *)

\* A dispatched record goes to work with the receipt of its episode, or halts again.
LEMMA ReopenFields ==
  ASSUME EscTypes, Reopen
  PROVE  /\ ActorFields' /\ Main' = Main /\ job /\ job' = FALSE
         /\ \/ UNCHANGED <<run, actor>> /\ (~Reopened(run) \/ Driver.pc # "idle")
            \/ Reopened(run) /\ run' = Halted(run, "NOT_RESUMABLE") /\ UNCHANGED actor
            \/ /\ Reopened(run) /\ Driver.pc = "idle"
               /\ HasFields(run') /\ run'.state = "WORKING" /\ run'.esc.status = "RESUMED"
               /\ run'.esc.class = run.esc.class /\ run'.esc.episode = run.esc.episode
               /\ run'.esc.receipts = run.esc.receipts
               /\ \E x \in run.esc.receipts : x.episode = run.esc.episode
               /\ Driver'.pc = "work" /\ Driver'.who = "worker" /\ Driver'.copy = run'
         /\ UNCHANGED <<answers, requests>> /\ BoundsKept
<1>1. job /\ job' = FALSE /\ UNCHANGED <<answers, requests>> /\ BoundsKept
  BY SpendFields DEF Reopen, BoundsKept, EscTypes
<1>2. CASE /\ UNCHANGED actor
           /\ \/ UNCHANGED run /\ (~Reopened(run) \/ Driver.pc # "idle")
              \/ Reopened(run) /\ run' = Halted(run, "NOT_RESUMABLE")
  BY <1>1, <1>2 DEF EscTypes, Main, ActorFields
<1>3. CASE /\ run' = [run EXCEPT !.state = "WORKING", !.esc.status = "RESUMED"]
           /\ actor' = [actor EXCEPT !["driver"].pc = "work", !["driver"].who = "worker",
                                     !["driver"].copy = run']
           /\ Reopened(run) /\ Driver.pc = "idle"
           /\ \E x \in run.esc.receipts : x.episode = run.esc.episode
  <2>1. /\ ActorFields' /\ Main' = Main /\ Driver'.pc = "work" /\ Driver'.who = "worker"
        /\ Driver'.copy = run'
    BY <1>3 DEF EscTypes, ActorFields, Main, Driver, Actors
  <2>2. /\ HasFields(run') /\ run'.state = "WORKING" /\ run'.esc.status = "RESUMED"
        /\ run'.esc.class = run.esc.class /\ run'.esc.episode = run.esc.episode
        /\ run'.esc.receipts = run.esc.receipts
    BY <1>3 DEF EscTypes, HasFields
  <2>3. QED  BY <1>1, <1>3, <2>1, <2>2
<1>4. QED  BY <1>2, <1>3 DEF Reopen, Reopened, Idle, Driver

\* A worker that halts saves its own copy in a new episode and notifies from it.
LEMMA HaltFields ==
  ASSUME EscTypes, Halt
  PROVE  /\ ActorFields' /\ Main' = Main /\ Driver.pc = "work"
         /\ \E class : run' = Halted(Driver.copy, class)
         /\ Driver'.pc = "look" /\ Driver'.copy = run' /\ Driver'.who = Driver.who
         /\ UNCHANGED <<answers, requests, job>> /\ BoundsKept
<1>1. BoundsKept
  BY SpendFields DEF Halt
<1>2. /\ Driver.pc = "work" /\ UNCHANGED <<answers, requests, job>>
      /\ \E class : run' = Halted(Driver.copy, class)
      /\ actor' = [actor EXCEPT !["driver"].pc = "look", !["driver"].copy = run']
  BY DEF Halt, Driver
<1>3. /\ ActorFields' /\ Main' = Main
      /\ Driver'.pc = "look" /\ Driver'.copy = run' /\ Driver'.who = Driver.who
  BY <1>2 DEF EscTypes, ActorFields, Main, Driver, Actors
<1>4. QED  BY <1>1, <1>2, <1>3

\* A worker that finishes saves its own copy, and lets it go.
LEMMA FinishFields ==
  ASSUME EscTypes, Finish
  PROVE  /\ ActorFields' /\ Main' = Main /\ Driver.pc = "work" /\ Driver' = Asleep
         /\ HasFields(run') /\ run'.state = "DONE" /\ run'.esc = Driver.copy.esc
         /\ UNCHANGED <<answers, requests, job, bounds>>
<1>1. ActorFields' /\ Main' = Main /\ Driver.pc = "work" /\ Driver' = Asleep
  BY GoOnFields DEF Finish, Main, Driver, Actors
<1>2. QED  BY <1>1 DEF EscTypes, HasFields, Finish, Driver, Actors, world

\* An operator's escalation sets the stored record working and is counted.
LEMMA EscalateFields ==
  ASSUME EscTypes, Escalate
  PROVE  /\ ActorFields' /\ Main' = Main /\ Driver.pc = "idle" /\ bounds.escalations > 0
         /\ HasFields(run') /\ run'.state = "WORKING" /\ run'.esc = run.esc
         /\ Driver'.pc = "work" /\ Driver'.copy = run'
         /\ UNCHANGED <<answers, requests, job>> /\ "escalations" \in DOMAIN bounds'
BY DEF EscTypes, ActorFields, HasFields, Escalate, Spend, Idle, Main, Driver, Actors

\* What people, time and GitHub do beside the two actors.
Beside == CheckRequest \/ FileRequest \/ Comment \/ EditOrDelete \/ LoseThread \/ Tick

\* None of them touches the record or the actors, or takes a pending request back.
LEMMA BesideFields ==
  ASSUME EscTypes, Beside
  PROVE  /\ UNCHANGED <<run, answers, actor, job>> /\ BoundsKept
         /\ Episodes \subseteq DOMAIN requests'
         /\ \A n \in Episodes : requests[n].status = "pending" => requests'[n].status = "pending"
<1>1. CASE FileRequest
  BY <1>1 DEF FileRequest, EscTypes, BoundsKept
<1>2. CASE CheckRequest \/ Comment \/ EditOrDelete \/ LoseThread \/ Tick
  BY <1>2, SpendFields DEF CheckRequest, Comment, EditOrDelete, LoseThread, Tick, disk, world,
     EscTypes, BoundsKept
<1>3. QED  BY <1>1, <1>2 DEF Beside

\* A restart loses the copies and the job; a working record is taken up or halts
\* (recover).
LEMMA RestartFields ==
  ASSUME EscTypes, Restart
  PROVE  /\ ActorFields' /\ Main' = Asleep /\ job' = FALSE
         /\ \/ UNCHANGED run /\ ((Driver.who = "cli" /\ Driver' = Driver) \/ Driver' = Asleep)
            \/ /\ UNCHANGED run /\ run.state = "WORKING"
               /\ Driver'.pc = "work" /\ Driver'.who = "worker" /\ Driver'.copy = run
            \/ /\ run.state = "WORKING" /\ run' = Halted(run, "NOT_RESUMABLE")
               /\ Driver' = Asleep
         /\ UNCHANGED <<answers, requests>> /\ BoundsKept
<1>1. BoundsKept /\ job' = FALSE /\ UNCHANGED <<answers, requests>>
  BY SpendFields DEF Restart
<1>2. \E d : /\ actor' = [main |-> Asleep, driver |-> d]
             /\ \/ /\ UNCHANGED run
                   /\ (Driver.who = "cli" /\ d = Driver) \/ d = Asleep
                \/ /\ UNCHANGED run /\ run.state = "WORKING"
                   /\ d = [Asleep EXCEPT !.pc = "work", !.copy = run]
                \/ /\ run.state = "WORKING" /\ run' = Halted(run, "NOT_RESUMABLE")
                   /\ d = Asleep
  BY DEF Restart, Driver
<1>3. ASSUME NEW d, actor' = [main |-> Asleep, driver |-> d],
             d \in {Driver, Asleep, [Asleep EXCEPT !.pc = "work", !.copy = run]}
      PROVE  ActorFields' /\ Main' = Asleep /\ Driver' = d
  <2>1. Actors \subseteq DOMAIN actor' /\ Main' = Asleep /\ Driver' = d
    BY <1>3 DEF Actors, Main, Driver
  <2> DEFINE fields == {"pc", "who", "copy", "at", "comment", "next", "latest", "pages"}
  <2>2. fields \subseteq DOMAIN Asleep
    BY DEF Asleep
  <2>3. fields \subseteq DOMAIN [Asleep EXCEPT !.pc = "work", !.copy = run]
    BY DEF Asleep
  <2>4. fields \subseteq DOMAIN Driver
    BY DEF EscTypes, ActorFields, Driver, Actors
  <2>5. \A e \in {Asleep, d} : fields \subseteq DOMAIN e
    BY <1>3, <2>2, <2>3, <2>4
  <2>6. QED  BY <2>1, <2>5 DEF ActorFields, Actors, Main, Driver
<1>4. ASSUME NEW d, d = [Asleep EXCEPT !.pc = "work", !.copy = run]
      PROVE  d.pc = "work" /\ d.who = "worker" /\ d.copy = run
  BY <1>4 DEF Asleep
<1>5. QED  BY <1>1, <1>2, <1>3, <1>4

-----------------------------------------------------------------------------
(* The records and where the actors are with them *)

\* An actor at a notice has a record whose notice is owed, a worker has a working run, and a
\* decision is saved on a record that waited for it.
PlaceInv ==
  /\ Main.pc \in Notifying => Owing(Main.copy)
  /\ Driver.pc \in Notifying => Owing(Driver.copy)
  /\ Driver.pc = "work" => Driver.copy.state = "WORKING"
  /\ Main.pc \in {"reopen", "displace"} => AwaitsHuman(Main.copy)

Placed == EscTypes /\ PlaceInv

\* An actor at rest is idle.
LEMMA Resting == Asleep.pc = "idle"
BY DEF Asleep

\* What the steps of a notice do, for each actor.
LEMMA MainDelivers ==
  ASSUME Placed, Deliver("main")
  PROVE  /\ NoticeStep("main") /\ Main.pc \in Notifying /\ Driver' = Driver
         /\ HasFields(Main.copy) /\ Owing(Main.copy)
         /\ Main'.pc \in {"post", "posted", "settle"} /\ Keeps("main")
         /\ UNCHANGED run \/ (Main'.pc = "settle" /\ SavesCopy("main"))
<1>1. Main.pc \in Notifying
  BY DEF Deliver, LookForNotice, PostNotice, SavePosted, Notifying, Main
<1>2. HasFields(Main.copy) /\ Owing(Main.copy)
  BY <1>1 DEF Placed, EscTypes, PlaceInv, Notifying
<1>3. NoticeStep("main")
  BY <1>2, DeliverFields DEF Placed, Actors, Main
<1>4. QED  BY <1>1, <1>2, <1>3 DEF NoticeStep, Rests, Actors, Main, Driver

\* And for the driver, which then lets go.
LEMMA DriverDelivers ==
  ASSUME Placed, Deliver("driver")
  PROVE  /\ NoticeStep("driver") /\ Driver.pc \in Notifying /\ Main' = Main
         /\ HasFields(Driver.copy) /\ Owing(Driver.copy)
         /\ \/ Driver'.pc \in {"post", "posted"} /\ Keeps("driver") /\ UNCHANGED run
            \/ Driver' = Asleep /\ UNCHANGED run
            \/ Driver' = Asleep /\ SavesCopy("driver")
<1>1. Driver.pc \in Notifying
  BY DEF Deliver, LookForNotice, PostNotice, SavePosted, Notifying, Driver
<1>2. HasFields(Driver.copy) /\ Owing(Driver.copy)
  BY <1>1 DEF Placed, EscTypes, PlaceInv, Notifying
<1>3. NoticeStep("driver")
  BY <1>2, DeliverFields DEF Placed, Actors, Driver
<1>4. QED  BY <1>1, <1>2, <1>3 DEF NoticeStep, Rests, Actors, Main, Driver

\* The first halt was saved by the driver, which is to notify.
LEMMA PlacedInitially == ASSUME Init PROVE Placed
<1>1. PICK class \in HaltClasses :
        run = [state |-> "NEEDS_HUMAN",
               esc |-> NewEpisode([episode |-> 0, reopens |-> 0, receipts |-> {}], class)]
  BY DEF Init
<1>2. HasFields(run) /\ Owing(run)
  BY <1>1 DEF HasFields, Owing, NewEpisode
<1>3. actor = [main |-> Asleep, driver |-> [Asleep EXCEPT !.pc = "look", !.copy = run]]
  BY DEF Init
<1>4. Main = Asleep /\ Driver.pc = "look" /\ Driver.copy = run
  BY <1>3 DEF Main, Driver, Asleep
<1>5. ActorFields
  BY <1>3 DEF ActorFields, Actors, Asleep
<1>6. QED
  BY <1>2, <1>4, <1>5, Resting
  DEF Init, Placed, EscTypes, PlaceInv, MainPlaces, DriverPlaces, Notifying

\* Every step keeps the records and the actors in their places.
LEMMA PlacedKept ==
  ASSUME Placed, [Next]_vars
  PROVE  Placed'
<1> USE DEF Placed, EscTypes, PlaceInv, MainPlaces, DriverPlaces, Notifying
<1>t. EscTypes
  BY DEF Placed
<1>1. CASE BeginCycle
  BY <1>1, <1>t, CycleFields
<1>2. CASE Deliver("main")
  BY <1>2, MainDelivers DEF NoticeStep, SavesCopy, BoundsKept, Keeps, Main
<1>3. CASE SettleRequests
  BY <1>3, <1>t, SettleFields DEF Stales
<1>4. CASE DispatchReopened
  BY <1>4, <1>t, DispatchFields, HaltedFields DEF Keeps, Main
<1>5. CASE IngestRequest
  BY <1>5, <1>t, IngestFields DEF Stales
<1>6. CASE AcceptAnswers
  BY <1>6, <1>t, AnswersFields DEF Stales
<1>7. CASE AcceptRun
  BY <1>7, <1>t, AcceptFields DEF Stays, Keeps, Main
<1>8. CASE DisplaceRequest
  BY <1>8, <1>t, DisplaceFields DEF Stales
<1>9. CASE BeginPoll
  BY <1>9, <1>t, PollFields DEF Polls, Stays, BoundsKept
<1>10. CASE ReadPage
  BY <1>10, <1>t, PageFields DEF Polls, Stays, BoundsKept, Keeps, Main
<1>11. CASE Reopen
  <2>1. CASE UNCHANGED actor /\ (UNCHANGED run \/ run' = Halted(run, "NOT_RESUMABLE"))
    BY <1>11, <1>t, <2>1, ReopenFields, HaltedFields DEF BoundsKept, Main, Driver
  <2>2. CASE /\ HasFields(run') /\ run'.state = "WORKING"
             /\ Driver'.pc = "work" /\ Driver'.copy = run'
    BY <1>11, <1>t, <2>2, ReopenFields DEF BoundsKept
  <2>3. QED  BY <1>11, <1>t, <2>1, <2>2, ReopenFields
<1>12. CASE DriverSaves
  BY <1>12 DEF DriverSaves, world, Main, Driver, ActorFields
<1>13. CASE Halt
  BY <1>13, <1>t, HaltFields, HaltedFields DEF BoundsKept
<1>14. CASE Finish
  BY <1>14, <1>t, FinishFields, Resting
<1>15. CASE Deliver("driver")
  BY <1>15, DriverDelivers, Resting DEF NoticeStep, SavesCopy, BoundsKept, Keeps, Driver
<1>16. CASE Escalate
  BY <1>16, <1>t, EscalateFields
<1>17. CASE Beside
  BY <1>17, <1>t, BesideFields DEF BoundsKept, Main, Driver, ActorFields
<1>18. CASE Restart
  BY <1>18, <1>t, RestartFields, HaltedFields, Resting DEF BoundsKept
<1>19. CASE UNCHANGED vars
  BY <1>19 DEF vars, Main, Driver, ActorFields
<1>20. QED
  BY <1>1, <1>2, <1>3, <1>4, <1>5, <1>6, <1>7, <1>8, <1>9, <1>10, <1>11, <1>12, <1>13, <1>14,
     <1>15, <1>16, <1>17, <1>18, <1>19 DEF Next, Service, Drive, Environment, Beside

-----------------------------------------------------------------------------
(* Receipts and episodes *)

\* A record that waits has no receipt of its own episode.
Undecided(r) ==
  r.esc.status \in WaitingStatuses => \A x \in r.esc.receipts : x.episode # r.esc.episode

UndecidedInv ==
  /\ Undecided(run)
  /\ Main.pc \notin {"idle", "poll"} => Undecided(Main.copy)
  /\ Driver.pc # "idle" => Undecided(Driver.copy)

\* The receipts of a record are of earlier episodes than the one a halt opens.
LEMMA HaltUndecided ==
  ASSUME NEW r, HasFields(r), NEW class
  PROVE  Undecided(Halted(r, class))
BY HaltedFields DEF HasFields, Undecided

\* A record saved from a copy has the receipts and the episode of the copy.
LEMMA SavedUndecided ==
  ASSUME NEW a \in Actors, Owing(actor[a].copy), Undecided(actor[a].copy), SavesCopy(a)
  PROVE  Undecided(run')
BY DEF Owing, Undecided, SavesCopy, WaitingStatuses

\* No step lets a decided record wait again.
LEMMA UndecidedKept ==
  ASSUME Placed, UndecidedInv, [Next]_vars
  PROVE  UndecidedInv'
<1> USE DEF Placed, UndecidedInv, Undecided, PlaceInv, WaitingStatuses, EscTypes, Notifying
<1>t. EscTypes
  BY DEF Placed
<1>1. CASE BeginCycle
  BY <1>1, <1>t, CycleFields
<1>2. CASE Deliver("main")
  <2>1. SavesCopy("main") => Undecided(run')
    BY <1>2, MainDelivers, SavedUndecided DEF Actors, Main, Notifying
  <2>2. QED  BY <1>2, <1>t, <2>1, MainDelivers DEF Keeps, Main
<1>3. CASE SettleRequests
  BY <1>3, <1>t, SettleFields
<1>4. CASE DispatchReopened
  BY <1>4, <1>t, DispatchFields, HaltedFields, HaltUndecided DEF Keeps, Main, Reopened
<1>5. CASE IngestRequest
  BY <1>5, <1>t, IngestFields
<1>6. CASE AcceptAnswers
  BY <1>6, <1>t, AnswersFields
<1>7. CASE AcceptRun
  BY <1>7, <1>t, AcceptFields DEF Stays, Keeps, Main
<1>8. CASE DisplaceRequest
  BY <1>8, <1>t, DisplaceFields
<1>9. CASE BeginPoll
  BY <1>9, <1>t, PollFields DEF Polls, Stays, Pollable
<1>10. CASE ReadPage
  BY <1>10, <1>t, PageFields DEF Polls, Stays, Keeps, Main
<1>11. CASE Reopen
  <2>1. CASE UNCHANGED actor /\ (UNCHANGED run \/ run' = Halted(run, "NOT_RESUMABLE"))
    BY <2>1, <1>t, HaltedFields, HaltUndecided DEF Main, Driver
  <2>2. CASE /\ Main' = Main /\ Driver'.copy = run'
             /\ run'.esc.episode = run.esc.episode /\ run'.esc.status = "RESUMED"
             /\ run'.esc.receipts = run.esc.receipts
    BY <2>2, <1>t
  <2>3. QED  BY <1>11, <1>t, <2>1, <2>2, ReopenFields
<1>12. CASE DriverSaves
  BY <1>12, <1>t DEF DriverSaves, world, Main, Driver
<1>13. CASE Halt
  BY <1>13, <1>t, HaltFields, HaltedFields, HaltUndecided
<1>14. CASE Finish
  BY <1>14, <1>t, FinishFields, Resting
<1>15. CASE Deliver("driver")
  <2>1. SavesCopy("driver") => Undecided(run')
    BY <1>15, DriverDelivers, SavedUndecided DEF Actors, Driver, Notifying
  <2>2. QED  BY <1>15, <1>t, <2>1, DriverDelivers, Resting DEF Keeps, Driver
<1>16. CASE Escalate
  BY <1>16, <1>t, EscalateFields
<1>17. CASE Beside
  BY <1>17, <1>t, BesideFields DEF Main, Driver
<1>18. CASE Restart
  <2>1. CASE UNCHANGED run
    BY <1>18, <1>t, <2>1, RestartFields, Resting
  <2>2. CASE run' = Halted(run, "NOT_RESUMABLE") /\ Main' = Asleep /\ Driver' = Asleep
    BY <1>t, <2>2, Resting, HaltUndecided
  <2>3. QED  BY <1>18, <1>t, <2>1, <2>2, RestartFields
<1>19. CASE UNCHANGED vars
  BY <1>19, <1>t DEF vars, Main, Driver
<1>20. QED
  BY <1>1, <1>2, <1>3, <1>4, <1>5, <1>6, <1>7, <1>8, <1>9, <1>10, <1>11, <1>12, <1>13, <1>14,
     <1>15, <1>16, <1>17, <1>18, <1>19 DEF Next, Service, Drive, Environment, Beside

\* The receipts of the driver's copy are in the stored record, and those of the stored record
\* in the copy that the main thread may save: only the main thread adds one.
LineInv ==
  /\ Driver.pc # "idle" => Driver.copy.esc.receipts \subseteq run.esc.receipts
  /\ Main.pc \notin {"idle", "poll", "displace"} =>
       run.esc.receipts \subseteq Main.copy.esc.receipts
  /\ Main.pc = "displace" =>
       /\ Main.comment # 0
       /\ run.esc.receipts \subseteq Main.copy.esc.receipts
            \cup {[episode |-> Main.copy.esc.episode, comment |-> Main.comment]}

\* The line of copies is kept by every save.
LEMMA LineKept ==
  ASSUME Placed, LineInv, [Next]_vars
  PROVE  LineInv'
<1> USE DEF Placed, LineInv, EscTypes, PlaceInv, DriverPlaces, Notifying
<1>t. EscTypes
  BY DEF Placed
<1>1. CASE BeginCycle
  BY <1>1, <1>t, CycleFields
<1>2. CASE Deliver("main")
  BY <1>2, <1>t, MainDelivers DEF NoticeStep, SavesCopy, Keeps, Main, AwaitsHuman
<1>3. CASE SettleRequests
  BY <1>3, <1>t, SettleFields
<1>4. CASE DispatchReopened
  BY <1>4, <1>t, DispatchFields, HaltedFields DEF Keeps, Main, Reopened
<1>5. CASE IngestRequest
  BY <1>5, <1>t, IngestFields
<1>6. CASE AcceptAnswers
  BY <1>6, <1>t, AnswersFields
<1>7. CASE AcceptRun
  BY <1>7, <1>t, AcceptFields DEF Stays, Keeps, Main
<1>8. CASE DisplaceRequest
  BY <1>8, <1>t, DisplaceFields
<1>9. CASE BeginPoll
  BY <1>9, <1>t, PollFields DEF Polls, Stays, Pollable
<1>10. CASE ReadPage
  BY <1>10, <1>t, PageFields DEF Polls, Stays, Keeps, Main
<1>11. CASE Reopen
  <2>1. CASE UNCHANGED actor /\ (UNCHANGED run \/ run' = Halted(run, "NOT_RESUMABLE"))
    BY <2>1, <1>t, HaltedFields DEF Main, Driver
  <2>2. CASE /\ Main' = Main /\ Driver'.copy = run'
             /\ run'.esc.episode = run.esc.episode /\ run'.esc.status = "RESUMED"
             /\ run'.esc.receipts = run.esc.receipts
    BY <2>2, <1>t
  <2>3. QED  BY <1>11, <1>t, <2>1, <2>2, ReopenFields
<1>12. CASE DriverSaves
  BY <1>12, <1>t DEF DriverSaves, world, Main, Driver
<1>13. CASE Halt
  BY <1>13, <1>t, HaltFields, HaltedFields
<1>14. CASE Finish
  BY <1>14, <1>t, FinishFields, Resting
<1>15. CASE Deliver("driver")
  BY <1>15, <1>t, DriverDelivers, Resting DEF NoticeStep, SavesCopy, Keeps, Driver
<1>16. CASE Escalate
  BY <1>16, <1>t, EscalateFields
<1>17. CASE Beside
  BY <1>17, <1>t, BesideFields DEF Main, Driver
<1>18. CASE Restart
  BY <1>18, <1>t, RestartFields, HaltedFields, Resting
<1>19. CASE UNCHANGED vars
  BY <1>19, <1>t DEF vars, Main, Driver
<1>20. QED
  BY <1>1, <1>2, <1>3, <1>4, <1>5, <1>6, <1>7, <1>8, <1>9, <1>10, <1>11, <1>12, <1>13, <1>14,
     <1>15, <1>16, <1>17, <1>18, <1>19 DEF Next, Service, Drive, Environment, Beside

-----------------------------------------------------------------------------
(* Requests of the dashboard *)

\* The request of every decision of the dashboard that the record took is pending.
Kept(r) ==
  \A x \in r.esc.receipts :
    x.comment = 0 /\ x.episode \in Episodes => requests[x.episode].status = "pending"

\* The record has no receipt of the dashboard for an episode.
Free(r, n) == ~\E x \in r.esc.receipts : x.episode = n /\ x.comment = 0

PendingInv ==
  /\ Kept(run)
  /\ Main.pc \notin {"idle", "poll"} => Kept(Main.copy)
  /\ Driver.pc # "idle" => Kept(Driver.copy)
  /\ Main.pc \in {"accept", "reopen"} /\ Main.comment = 0
       /\ Main.copy.esc.episode \in Episodes => Pending(Main.copy)
  /\ Main.pc = "accept" /\ Main.comment = 0 => Free(Main.copy, Main.copy.esc.episode)

\* What a record keeps, a record with no other receipts keeps.
LEMMA KeptSmaller ==
  ASSUME NEW r, NEW q, Kept(q), r.esc.receipts \subseteq q.esc.receipts
  PROVE  Kept(r)
BY DEF Kept

\* A request is marked stale when no record took it.
LEMMA KeptThroughStale ==
  ASSUME NEW n, Stales(n), NEW r, Kept(r), Free(r, n)
  PROVE  \A x \in r.esc.receipts :
           x.comment = 0 /\ x.episode \in Episodes => requests'[x.episode].status = "pending"
BY DEF Stales, Kept, Free

\* A record with fewer receipts is as free.
LEMMA FreeSmaller ==
  ASSUME NEW n, NEW r, NEW q, Free(q, n), r.esc.receipts \subseteq q.esc.receipts
  PROVE  Free(r, n)
BY DEF Free

\* A request whose receipt is not found has none.
LEMMA NotAcceptedIsFree == ASSUME NEW r, ~AcceptedHere(r) PROVE Free(r, r.esc.episode)
BY DEF AcceptedHere, Free

\* A reply of GitHub displaces a request that no record took: the record that it was made on
\* waited for a decision.
LEMMA DisplacedIsFree ==
  ASSUME Placed, UndecidedInv, LineInv, Main.pc = "displace"
  PROVE  Free(run, Main.copy.esc.episode)
<1>1. Undecided(Main.copy) /\ AwaitsHuman(Main.copy)
  BY DEF UndecidedInv, Placed, PlaceInv
<1>2. \A x \in Main.copy.esc.receipts : x.episode # Main.copy.esc.episode
  BY <1>1 DEF Undecided, AwaitsHuman
<1>3. QED  BY <1>2 DEF LineInv, Free

\* No step takes a request back from a record that holds its decision.
LEMMA PendingKept ==
  ASSUME Placed, UndecidedInv, LineInv, PendingInv, [Next]_vars
  PROVE  PendingInv'
<1> USE DEF Placed, PendingInv, Kept, Pending, EscTypes, PlaceInv, Notifying
<1>t. EscTypes
  BY DEF Placed
<1>1. CASE BeginCycle
  BY <1>1, <1>t, CycleFields
<1>2. CASE Deliver("main")
  BY <1>2, <1>t, MainDelivers DEF NoticeStep, SavesCopy, Keeps, Main, AwaitsHuman
<1>3. CASE SettleRequests
  <2>1. CASE UNCHANGED requests
    BY <1>3, <1>t, <2>1, SettleFields
  <2>2. CASE Stales(run.esc.episode) /\ ~AcceptedHere(run)
    <3>1. Free(run, run.esc.episode)
      BY <2>2, NotAcceptedIsFree
    <3>2. Free(Driver.copy, run.esc.episode) \/ Driver.pc = "idle"
      BY <3>1, FreeSmaller DEF LineInv
    <3>3. QED  BY <1>3, <1>t, <2>2, <3>1, <3>2, SettleFields, KeptThroughStale
  <2>3. QED  BY <1>3, <1>t, <2>1, <2>2, SettleFields
<1>4. CASE DispatchReopened
  BY <1>4, <1>t, DispatchFields, HaltedFields DEF Keeps, Main, Reopened
<1>5. CASE IngestRequest
  <2>1. CASE UNCHANGED requests
    BY <1>5, <1>t, <2>1, IngestFields, NotAcceptedIsFree
  <2>2. CASE Stales(run.esc.episode) /\ ~AcceptedHere(run)
    <3>1. Free(run, run.esc.episode)
      BY <2>2, NotAcceptedIsFree
    <3>2. Free(Driver.copy, run.esc.episode) \/ Driver.pc = "idle"
      BY <3>1, FreeSmaller DEF LineInv
    <3>3. QED  BY <1>5, <1>t, <2>2, <3>1, <3>2, IngestFields, KeptThroughStale
  <2>3. QED  BY <1>5, <1>t, <2>1, <2>2, IngestFields
<1>6. CASE AcceptAnswers
  <2>1. CASE UNCHANGED requests /\ Main'.pc \in {"poll", "idle"}
    BY <1>6, <1>t, <2>1, AnswersFields
  <2>2. CASE Stales(Main.copy.esc.episode) /\ Main.comment = 0 /\ Main'.pc \in {"poll", "idle"}
    <3>1. Free(Main.copy, Main.copy.esc.episode) /\ Main.pc = "accept"
      BY <1>6, <1>t, <2>2, AnswersFields
    <3>2. Free(run, Main.copy.esc.episode)
      BY <3>1, FreeSmaller DEF LineInv
    <3>3. Free(Driver.copy, Main.copy.esc.episode) \/ Driver.pc = "idle"
      BY <3>2, FreeSmaller DEF LineInv
    <3>4. QED  BY <1>6, <1>t, <2>2, <3>2, <3>3, AnswersFields, KeptThroughStale
  <2>3. CASE /\ UNCHANGED requests /\ Main'.pc = "reopen" /\ Main'.copy = run
             /\ Main'.comment = Main.comment /\ run.esc.episode = Main.copy.esc.episode
    BY <1>6, <1>t, <2>3, AnswersFields
  <2>4. QED  BY <1>6, <1>t, <2>1, <2>2, <2>3, AnswersFields
<1>7. CASE AcceptRun
  <2>1. /\ Driver' = Driver /\ Main.pc = "reopen" /\ UNCHANGED requests
        /\ run'.esc.receipts = Main.copy.esc.receipts
             \cup {[episode |-> Main.copy.esc.episode, comment |-> Main.comment]}
    BY <1>7, <1>t, AcceptFields
  <2>2. Kept(run)'
    BY <2>1
  <2>3. Main'.pc = "poll" \/ (Main'.pc = "displace" /\ Main'.copy = Main.copy)
    BY <1>7, <1>t, AcceptFields DEF Keeps, Main
  <2>4. QED  BY <2>1, <2>2, <2>3
<1>8. CASE DisplaceRequest
  <2>1. Free(run, Main.copy.esc.episode)
    BY <1>8, <1>t, DisplaceFields, DisplacedIsFree
  <2>2. Free(Driver.copy, Main.copy.esc.episode) \/ Driver.pc = "idle"
    BY <2>1, FreeSmaller DEF LineInv
  <2>3. CASE UNCHANGED requests
    BY <1>8, <1>t, <2>3, DisplaceFields
  <2>4. CASE Stales(Main.copy.esc.episode)
    BY <1>8, <1>t, <2>1, <2>2, <2>4, DisplaceFields, KeptThroughStale
  <2>5. QED  BY <1>8, <1>t, <2>3, <2>4, DisplaceFields
<1>9. CASE BeginPoll
  BY <1>9, <1>t, PollFields DEF Polls, Stays, Pollable
<1>10. CASE ReadPage
  BY <1>10, <1>t, PageFields DEF Polls, Stays, Keeps, Main
<1>11. CASE Reopen
  <2>1. Main' = Main /\ UNCHANGED requests /\ run'.esc.receipts = run.esc.receipts
    BY <1>11, <1>t, ReopenFields, HaltedFields
  <2>2. Driver' = Driver \/ Driver'.copy = run'
    BY <1>11, <1>t, ReopenFields DEF Driver
  <2>3. QED  BY <2>1, <2>2
<1>12. CASE DriverSaves
  BY <1>12, <1>t DEF DriverSaves, world, Main, Driver, Kept
<1>13. CASE Halt
  BY <1>13, <1>t, HaltFields, HaltedFields
<1>14. CASE Finish
  BY <1>14, <1>t, FinishFields, Resting
<1>15. CASE Deliver("driver")
  BY <1>15, <1>t, DriverDelivers, Resting DEF NoticeStep, SavesCopy, Keeps, Driver
<1>16. CASE Escalate
  BY <1>16, <1>t, EscalateFields
<1>17. CASE Beside
  BY <1>17, <1>t, BesideFields DEF Main, Driver
<1>18. CASE Restart
  <2>1. /\ UNCHANGED requests /\ Main' = Asleep /\ run'.esc.receipts = run.esc.receipts
        /\ Driver' = Driver \/ Driver' = Asleep \/ Driver'.copy = run
    BY <1>18, <1>t, RestartFields, HaltedFields
  <2>2. QED  BY <2>1, Resting
<1>19. CASE UNCHANGED vars
  BY <1>19, <1>t DEF vars, Main, Driver
<1>20. QED
  BY <1>1, <1>2, <1>3, <1>4, <1>5, <1>6, <1>7, <1>8, <1>9, <1>10, <1>11, <1>12, <1>13, <1>14,
     <1>15, <1>16, <1>17, <1>18, <1>19 DEF Next, Service, Drive, Environment, Beside

-----------------------------------------------------------------------------
(* The answers of a plan *)

Decided == {"REOPENED", "RESUMED"}

\* The answers are those of the decision the run took.  A worker that drives a decided run has
\* the stored record, and the main thread holds a record to save only while the run is open.
AnswerInv ==
  /\ Driver.pc = "work" /\ Driver.copy.esc.status \in Decided => run = Driver.copy
  /\ Main.pc \in Notifying \cup {"accept", "reopen", "page"} => run.esc.status \notin Decided
  /\ Main.pc = "reopen" /\ Main.copy.esc.class = "PLAN_DECISION"
       => answers = Main.copy.esc.episode
  /\ ReopenedHasItsAnswers

\* No step reopens a run without the answers its plan waited for.
LEMMA AnswersKept ==
  ASSUME Placed, AnswerInv, [Next]_vars
  PROVE  AnswerInv'
<1> USE DEF Placed, AnswerInv, ReopenedHasItsAnswers, Decided, EscTypes, PlaceInv, Notifying,
          AwaitsHuman, WaitingStatuses
<1>t. EscTypes
  BY DEF Placed
<1>1. CASE BeginCycle
  BY <1>1, <1>t, CycleFields DEF Owing
<1>2. CASE Deliver("main")
  BY <1>2, <1>t, MainDelivers DEF NoticeStep, SavesCopy, Keeps, Main, AwaitsHuman, Owing
<1>3. CASE SettleRequests
  BY <1>3, <1>t, SettleFields
<1>4. CASE DispatchReopened
  BY <1>4, <1>t, DispatchFields, HaltedFields DEF Keeps, Main, Reopened
<1>5. CASE IngestRequest
  BY <1>5, <1>t, IngestFields
<1>6. CASE AcceptAnswers
  BY <1>6, <1>t, AnswersFields DEF PlanAnswers
<1>7. CASE AcceptRun
  BY <1>7, <1>t, AcceptFields DEF Stays, Keeps, Main
<1>8. CASE DisplaceRequest
  BY <1>8, <1>t, DisplaceFields
<1>9. CASE BeginPoll
  BY <1>9, <1>t, PollFields DEF Polls, Stays, Pollable
<1>10. CASE ReadPage
  BY <1>10, <1>t, PageFields DEF Polls, Stays, Keeps, Main
<1>11. CASE Reopen
  <2>1. Main.pc \in Notifying \cup {"accept", "reopen", "page"} => ~Reopened(run)
    BY DEF Reopened
  <2>2. CASE UNCHANGED <<run, actor>>
    BY <1>11, <1>t, <2>2, ReopenFields DEF Main, Driver
  <2>3. CASE Reopened(run) /\ run' = Halted(run, "NOT_RESUMABLE") /\ UNCHANGED actor
    <3>1. run'.esc.status = "PENDING_NOTIFICATION"
      BY <1>t, <2>3, HaltedFields
    <3>2. ~(Driver.pc = "work" /\ Driver.copy.esc.status \in Decided)
      BY <2>3 DEF Reopened
    <3>3. QED  BY <2>1, <2>3, <3>1, <3>2 DEF Main, Driver
  <2>4. CASE /\ Reopened(run) /\ run'.esc.class = run.esc.class
             /\ run'.esc.episode = run.esc.episode /\ UNCHANGED answers
             /\ Driver'.copy = run' /\ Main' = Main
    BY <2>1, <2>4 DEF Reopened
  <2>5. QED  BY <1>11, <1>t, <2>2, <2>3, <2>4, ReopenFields
<1>12. CASE DriverSaves
  BY <1>12, <1>t DEF DriverSaves, world, Main, Driver
<1>13. CASE Halt
  BY <1>13, <1>t, HaltFields, HaltedFields
<1>14. CASE Finish
  BY <1>14, <1>t, FinishFields, Resting
<1>15. CASE Deliver("driver")
  BY <1>15, <1>t, DriverDelivers, Resting DEF NoticeStep, SavesCopy, Keeps, Driver, Owing
<1>16. CASE Escalate
  BY <1>16, <1>t, EscalateFields
<1>17. CASE Beside
  BY <1>17, <1>t, BesideFields DEF Main, Driver
<1>18. CASE Restart
  <2>1. CASE UNCHANGED run
    BY <1>18, <1>t, <2>1, RestartFields, Resting
  <2>2. CASE run' = Halted(run, "NOT_RESUMABLE") /\ Main' = Asleep /\ Driver' = Asleep
    BY <1>t, <2>2, Resting, HaltedFields
  <2>3. QED  BY <1>18, <1>t, <2>1, <2>2, RestartFields
<1>19. CASE UNCHANGED vars
  BY <1>19, <1>t DEF vars, Main, Driver
<1>20. QED
  BY <1>1, <1>2, <1>3, <1>4, <1>5, <1>6, <1>7, <1>8, <1>9, <1>10, <1>11, <1>12, <1>13, <1>14,
     <1>15, <1>16, <1>17, <1>18, <1>19 DEF Next, Service, Drive, Environment, Beside

\* The invariants hold when the run has just halted.
LEMMA ProtocolInitially ==
  ASSUME Init
  PROVE  UndecidedInv /\ LineInv /\ PendingInv /\ AnswerInv
<1>1. PICK class \in HaltClasses :
        run = [state |-> "NEEDS_HUMAN",
               esc |-> NewEpisode([episode |-> 0, reopens |-> 0, receipts |-> {}], class)]
  BY DEF Init
<1>2. run.esc.receipts = {} /\ run.esc.status = "PENDING_NOTIFICATION"
  BY <1>1 DEF NewEpisode
<1>3. Main = Asleep /\ Driver.pc = "look" /\ Driver.copy = run
  BY DEF Init, Main, Driver, Asleep
<1>4. QED
  BY <1>2, <1>3, Resting DEF UndecidedInv, Undecided, LineInv, PendingInv, Kept, AnswerInv,
     ReopenedHasItsAnswers, Notifying, Decided

ProtocolInv == Placed /\ UndecidedInv /\ LineInv /\ PendingInv /\ AnswerInv

\* The invariant holds in every reachable state.
LEMMA ProtocolInvariant == Spec => []ProtocolInv
<1>1. Init => ProtocolInv
  BY PlacedInitially, ProtocolInitially DEF ProtocolInv
<1>2. ProtocolInv /\ [Next]_vars => ProtocolInv'
  BY PlacedKept, UndecidedKept, LineKept, PendingKept, AnswersKept DEF ProtocolInv
<1>3. QED  BY <1>1, <1>2, PTL DEF Spec

\* A run never reopens without the answers its plan waited for, whatever is saved over the run
\* between the two saves (accept_resume in resume_writes.py).
THEOREM AnswersAreThere == Spec => []ReopenedHasItsAnswers
<1>1. ProtocolInv => ReopenedHasItsAnswers
  BY DEF ProtocolInv, AnswerInv
<1>2. QED  BY <1>1, ProtocolInvariant, PTL

\* A dashboard request whose decision the run took stays pending, whichever copy of the run is
\* saved last (ingest_dashboard_request, accept_resume, _settle_requests_of_runs_not_waiting).
THEOREM TakenRequestsStay == Spec => []AcceptedRequestsStayPending
<1>1. ProtocolInv => AcceptedRequestsStayPending
  BY DEF ProtocolInv, PendingInv, Kept, AcceptedRequestsStayPending
<1>2. QED  BY <1>1, ProtocolInvariant, PTL

-----------------------------------------------------------------------------
(* The refinement of ResumeEpisodes *)

\* The service waits for the work it dispatched, and no operator escalates beside it.
Drained == Drains /\ MaxEscalations = 0

\* No driver is at work and none is called.
Alone == Driver.pc = "idle" /\ ~job

\* The driver and the main thread do not hold copies of a run at the same time.
DrainInv ==
  /\ bounds.escalations = 0
  /\ Driver.pc # "idle" => Driver.who = "worker" /\ run = Driver.copy
  /\ job => Driver.pc = "idle" /\ Reopened(run)
  /\ Main.pc \in Notifying
       \cup {"settle", "dispatch", "accept", "reopen", "page", "displace"} => Alone
  /\ Main.pc \in Notifying \cup {"dispatch", "reopen"} => run = Main.copy
  /\ Main.pc = "ingest" /\ AwaitsHuman(Main.copy) => Alone
  /\ Main.pc = "displace" => Reopened(run)

\* A poll reads a run only when nobody works on it.
LEMMA PollsAlone ==
  ASSUME Placed, DrainInv, Pollable(run)
  PROVE  Alone
BY DEF Placed, EscTypes, PlaceInv, DrainInv, Pollable, Alone, Owing, Reopened, DriverPlaces,
  Notifying

\* The copies are kept apart by every step of such a service.
LEMMA DrainKept ==
  ASSUME Drained, Placed, DrainInv, [Next]_vars
  PROVE  DrainInv'
<1> USE DEF Drained, Placed, DrainInv, EscTypes, PlaceInv, Notifying, Alone
<1>t. EscTypes
  BY DEF Placed
<1>1. CASE BeginCycle
  BY <1>1, <1>t, CycleFields DEF BoundsKept
<1>2. CASE Deliver("main")
  BY <1>2, <1>t, MainDelivers DEF NoticeStep, SavesCopy, Keeps, Main, AwaitsHuman, BoundsKept
<1>3. CASE SettleRequests
  BY <1>3, <1>t, SettleFields DEF BoundsKept
<1>4. CASE DispatchReopened
  BY <1>4, <1>t, DispatchFields, HaltedFields
   DEF Keeps, Main, Reopened, AwaitsHuman, WaitingStatuses, BoundsKept
<1>5. CASE IngestRequest
  BY <1>5, <1>t, IngestFields DEF BoundsKept
<1>6. CASE AcceptAnswers
  BY <1>6, <1>t, AnswersFields DEF BoundsKept
<1>7. CASE AcceptRun
  <2>1. Alone /\ AwaitsHuman(Main.copy)
    BY <1>7, <1>t, AcceptFields
  <2>2. Reopened(run') /\ Driver' = Driver /\ UNCHANGED bounds
    BY <1>7, <1>t, <2>1, AcceptFields DEF Stays, Reopened, AwaitsHuman
  <2>3. (Main'.pc = "poll" /\ job' = TRUE) \/ (Main'.pc = "displace" /\ UNCHANGED job)
    BY <1>7, <1>t, AcceptFields
  <2>4. QED  BY <2>1, <2>2, <2>3
<1>8. CASE DisplaceRequest
  BY <1>8, <1>t, DisplaceFields DEF BoundsKept
<1>9. CASE BeginPoll
  BY <1>9, <1>t, PollFields, PollsAlone DEF Polls, Stays, Pollable, BoundsKept
<1>10. CASE ReadPage
  BY <1>10, <1>t, PageFields, PollsAlone DEF Polls, Stays, Keeps, Main, BoundsKept
<1>11. CASE Reopen
  <2>1. Driver.pc = "idle" /\ Reopened(run) /\ job
    BY <1>11, <1>t, ReopenFields
  <2>2. CASE UNCHANGED actor
    BY <1>11, <1>t, <2>1, <2>2, ReopenFields DEF BoundsKept, Main, Driver
  <2>3. CASE Driver'.pc = "work" /\ Driver'.who = "worker" /\ Driver'.copy = run'
    BY <1>11, <1>t, <2>1, <2>3, ReopenFields DEF BoundsKept
  <2>4. QED  BY <1>11, <1>t, <2>2, <2>3, ReopenFields
<1>12. CASE DriverSaves
  BY <1>12, <1>t DEF DriverSaves, world, Main, Driver, BoundsKept
<1>13. CASE Halt
  BY <1>13, <1>t, HaltFields, HaltedFields DEF BoundsKept
<1>14. CASE Finish
  BY <1>14, <1>t, FinishFields, Resting DEF BoundsKept
<1>15. CASE Deliver("driver")
  BY <1>15, <1>t, DriverDelivers, Resting DEF NoticeStep, SavesCopy, Keeps, Driver, BoundsKept
<1>16. CASE Escalate
  BY <1>16, <1>t, EscalateFields DEF BoundsKept
<1>17. CASE Beside
  BY <1>17, <1>t, BesideFields DEF Main, Driver, BoundsKept
<1>18. CASE Restart
  <2>1. BoundsKept /\ Main' = Asleep /\ job' = FALSE
    BY <1>18, <1>t, RestartFields
  <2>2. \/ Driver' = Asleep
        \/ Driver.pc = "idle" /\ Driver' = Driver
        \/ Driver'.pc = "work" /\ Driver'.who = "worker" /\ Driver'.copy = run /\ UNCHANGED run
    BY <1>18, <1>t, RestartFields
  <2>3. QED  BY <2>1, <2>2, Resting DEF BoundsKept
<1>19. CASE UNCHANGED vars
  BY <1>19, <1>t DEF vars, Main, Driver, BoundsKept
<1>20. QED
  BY <1>1, <1>2, <1>3, <1>4, <1>5, <1>6, <1>7, <1>8, <1>9, <1>10, <1>11, <1>12, <1>13, <1>14,
     <1>15, <1>16, <1>17, <1>18, <1>19 DEF Next, Service, Drive, Environment, Beside

\* Where a record is in the protocol.
LEMMA PhaseOf ==
  ASSUME NEW r
  PROVE  /\ r.state = "WORKING" => Phase(r) = "working"
         /\ r.state = "DONE" => Phase(r) = "ended"
         /\ Reopened(r) => Phase(r) = "reopened"
         /\ AwaitsHuman(r) => Phase(r) = "waiting"
         /\ r.state = "NEEDS_HUMAN" /\ r.esc.status = "EXPIRED" => Phase(r) = "closed"
BY DEF Phase, Reopened, AwaitsHuman, WaitingStatuses

\* A save that changes neither the phase, nor the episode, nor the receipts is no step.
LEMMA SamePhase ==
  ASSUME run'.state = run.state, run'.esc.status = run.esc.status,
         run'.esc.episode = run.esc.episode, run'.esc.receipts = run.esc.receipts
  PROVE  UNCHANGED Decisions!epVars
<1>1. Phase(run') = Phase(run)
  BY DEF Phase, AwaitsHuman
<1>2. QED  BY <1>1 DEF Decisions!epVars

\* Nor is a save of a record that waited and still waits for the same decision.
LEMMA StillWaits ==
  ASSUME AwaitsHuman(run), AwaitsHuman(run'),
         run'.esc.episode = run.esc.episode, run'.esc.receipts = run.esc.receipts
  PROVE  UNCHANGED Decisions!epVars
<1>1. Phase(run') = Phase(run)
  BY PhaseOf
<1>2. QED  BY <1>1 DEF Decisions!epVars

\* A halt asks again.
LEMMA HaltAsks ==
  ASSUME NEW class, HasFields(run), Reopened(run) \/ run.state = "WORKING",
         run' = Halted(run, class)
  PROVE  Decisions!EpAsk
<1>1. Phase(run) \in {"working", "reopened"}
  BY PhaseOf
<1>2. AwaitsHuman(run') /\ run'.esc.episode = run.esc.episode + 1
      /\ run'.esc.receipts = run.esc.receipts
  BY HaltedFields DEF Owing, AwaitsHuman, WaitingStatuses
<1>3. Phase(run') = "waiting"
  BY <1>2, PhaseOf
<1>4. QED  BY <1>1, <1>2, <1>3 DEF Decisions!EpAsk

\* The episodes of a set of receipts and one more.
LEMMA EpisodesWithOneMore ==
  ASSUME NEW S, NEW y
  PROVE  {x.episode : x \in S \cup {y}} = {x.episode : x \in S} \cup {y.episode}
OBVIOUS

\* An accepted decision adds the receipt of its episode.
LEMMA AcceptAccepts ==
  ASSUME Placed, UndecidedInv, DrainInv, AcceptRun
  PROVE  Decisions!EpAccept
<1>t. EscTypes
  BY DEF Placed
<1>1. Main.pc = "reopen" /\ run = Main.copy /\ AwaitsHuman(run)
  BY <1>t, AcceptFields DEF Placed, PlaceInv, DrainInv
<1>2. Phase(run) = "waiting" /\ \A x \in run.esc.receipts : x.episode # run.esc.episode
  BY <1>1, PhaseOf DEF UndecidedInv, Undecided, AwaitsHuman
<1>3. /\ Reopened(run') /\ run'.esc.episode = run.esc.episode
      /\ run'.esc.receipts = run.esc.receipts
           \cup {[episode |-> run.esc.episode, comment |-> Main.comment]}
  BY <1>t, <1>1, AcceptFields DEF Stays, Reopened, AwaitsHuman
<1>4. Phase(run') = "reopened"
  BY <1>3, PhaseOf
<1>5. {x.episode : x \in run'.esc.receipts}
        = {x.episode : x \in run.esc.receipts} \cup {run.esc.episode}
  <2> DEFINE receipt == [episode |-> run.esc.episode, comment |-> Main.comment]
  <2>1. receipt.episode = run.esc.episode
    OBVIOUS
  <2>2. run'.esc.receipts = run.esc.receipts \cup {receipt}
    BY <1>3
  <2> HIDE DEF receipt
  <2>3. QED  BY <2>1, <2>2, EpisodesWithOneMore
<1>6. QED  BY <1>2, <1>3, <1>4, <1>5 DEF Decisions!EpAccept

\* A poll that finds the window passed closes the episode.
LEMMA PollEnds ==
  ASSUME Polls
  PROVE  UNCHANGED Decisions!epVars \/ Decisions!EpEnd
<1>1. CASE run'.esc.status = run.esc.status
  BY <1>1, SamePhase DEF Polls, Stays
<1>2. CASE AwaitsHuman(run) /\ run'.esc.status = "EXPIRED"
  <2>1. Phase(run) = "waiting" /\ Phase(run') = "closed"
    BY <1>2, PhaseOf DEF Polls, Stays, AwaitsHuman
  <2>2. QED  BY <2>1 DEF Polls, Stays, Decisions!EpEnd
<1>3. QED  BY <1>1, <1>2 DEF Polls

\* A worker takes up a decided run and no other one.
LEMMA ReopenDispatches ==
  ASSUME Placed, DrainInv, Reopen
  PROVE  [Decisions!EpNext]_Decisions!epVars
<1>t. EscTypes
  BY DEF Placed
<1>1. Reopened(run) /\ Driver.pc = "idle" /\ HasFields(run)
  BY <1>t, ReopenFields DEF DrainInv, EscTypes
<1>2. CASE run' = Halted(run, "NOT_RESUMABLE")
  BY <1>1, <1>2, HaltAsks DEF Decisions!EpNext
<1>3. CASE /\ run'.state = "WORKING" /\ run'.esc.episode = run.esc.episode
           /\ run'.esc.receipts = run.esc.receipts
           /\ \E x \in run.esc.receipts : x.episode = run.esc.episode
  <2>1. Phase(run) = "reopened" /\ Phase(run') = "working"
    BY <1>1, <1>3, PhaseOf
  <2>2. run.esc.episode \in {x.episode : x \in run.esc.receipts}
    BY <1>3
  <2>3. QED  BY <1>3, <2>1, <2>2 DEF Decisions!EpDispatch, Decisions!EpNext
<1>4. QED  BY <1>t, <1>1, <1>2, <1>3, ReopenFields

\* Each step of a drained service is a step of ResumeEpisodes or none.
LEMMA StepDecides ==
  ASSUME Drained, Placed, UndecidedInv, DrainInv, [Next]_vars
  PROVE  [Decisions!EpNext]_Decisions!epVars
<1>t. EscTypes /\ HasFields(run)
  BY DEF Placed, EscTypes
<1>s. ASSUME UNCHANGED run PROVE UNCHANGED Decisions!epVars
  BY <1>s DEF Decisions!epVars
<1>1. CASE Deliver("main")
  <2>1. run = Main.copy /\ AwaitsHuman(run)
    BY <1>1, MainDelivers DEF DrainInv, Notifying, Owing, AwaitsHuman, WaitingStatuses
  <2>2. QED  BY <1>1, <1>s, <2>1, MainDelivers, StillWaits DEF SavesCopy, Main
<1>2. CASE Deliver("driver")
  <2>1. run = Driver.copy /\ AwaitsHuman(run)
    BY <1>2, DriverDelivers DEF DrainInv, Notifying, Owing, AwaitsHuman, WaitingStatuses
  <2>2. QED  BY <1>2, <1>s, <2>1, DriverDelivers, StillWaits DEF SavesCopy, Driver
<1>3. CASE DispatchReopened
  BY <1>3, <1>t, <1>s, DispatchFields, HaltAsks DEF Decisions!EpNext
<1>4. CASE AcceptRun
  BY <1>4, AcceptAccepts DEF Decisions!EpNext
<1>5. CASE BeginPoll
  BY <1>5, <1>t, <1>s, PollFields, PollEnds DEF Decisions!EpNext
<1>6. CASE ReadPage
  BY <1>6, <1>t, <1>s, PageFields, PollEnds DEF Decisions!EpNext
<1>7. CASE Reopen
  BY <1>7, ReopenDispatches
<1>8. CASE DriverSaves
  BY <1>8, <1>s DEF DriverSaves, DrainInv, Driver
<1>9. CASE Halt
  <2>1. run = Driver.copy /\ run.state = "WORKING"
    BY <1>9, <1>t, HaltFields DEF DrainInv, Placed, PlaceInv
  <2>2. QED  BY <1>9, <1>t, <2>1, HaltFields, HaltAsks DEF Decisions!EpNext
<1>10. CASE Finish
  <2>1. run.state = "WORKING" /\ run'.state = "DONE" /\ run'.esc = run.esc
    BY <1>10, <1>t, FinishFields DEF DrainInv, Placed, PlaceInv
  <2>2. Phase(run) = "working" /\ Phase(run') = "ended"
    BY <2>1, PhaseOf
  <2>3. QED  BY <2>1, <2>2 DEF Decisions!EpEnd, Decisions!EpNext
<1>11. CASE Escalate
  BY <1>11, <1>t, EscalateFields DEF DrainInv
<1>12. CASE Restart
  BY <1>12, <1>t, <1>s, RestartFields, HaltAsks DEF Decisions!EpNext
<1>13. CASE BeginCycle \/ SettleRequests \/ IngestRequest \/ AcceptAnswers \/ DisplaceRequest
  BY <1>13, <1>t, <1>s, CycleFields, SettleFields, IngestFields, AnswersFields, DisplaceFields
<1>14. CASE Beside \/ UNCHANGED vars
  BY <1>14, <1>t, <1>s, BesideFields DEF vars
<1>15. QED
  BY <1>1, <1>2, <1>3, <1>4, <1>5, <1>6, <1>7, <1>8, <1>9, <1>10, <1>11, <1>12, <1>13, <1>14
  DEF Next, Service, Drive, Environment, Beside

\* The first halt: a waiting run without receipts, whose driver delivers the notice.
LEMMA DrainInitially ==
  ASSUME Drained, Init
  PROVE  DrainInv /\ Decisions!EpInit
<1>1. PICK class \in HaltClasses :
        run = [state |-> "NEEDS_HUMAN",
               esc |-> NewEpisode([episode |-> 0, reopens |-> 0, receipts |-> {}], class)]
  BY DEF Init
<1>2. /\ run.esc.receipts = {} /\ run.esc.status = "PENDING_NOTIFICATION"
      /\ run.state = "NEEDS_HUMAN" /\ run.esc.episode = 1
  BY <1>1 DEF NewEpisode
<1>3. Phase(run) = "waiting"
  BY <1>2, PhaseOf DEF AwaitsHuman, WaitingStatuses
<1>4. /\ Main = Asleep /\ Driver.pc = "look" /\ Driver.copy = run /\ Driver.who = "worker"
      /\ job = FALSE /\ bounds.escalations = 0
  BY DEF Init, Main, Driver, Asleep, Drained
<1>5. QED
  BY <1>2, <1>3, <1>4, Resting DEF DrainInv, Decisions!EpInit, Notifying

DrainedInv == Placed /\ UndecidedInv /\ DrainInv

\* In a service that waits for the work it dispatched, each episode is decided at most once, by a
\* receipt that stays, and only a decided episode sets the run working again.
THEOREM EpisodesAreDecidedOnce == ASSUME Drained PROVE Spec => DecidesEachEpisodeOnce
<1>1. Init => DrainedInv /\ Decisions!EpInit
  BY PlacedInitially, ProtocolInitially, DrainInitially DEF DrainedInv
<1>2. DrainedInv /\ [Next]_vars => DrainedInv' /\ [Decisions!EpNext]_Decisions!epVars
  BY PlacedKept, UndecidedKept, DrainKept, StepDecides DEF DrainedInv
<1>3. QED  BY <1>1, <1>2, PTL DEF Spec, DecidesEachEpisodeOnce, Decisions!EpSpec

\* The other instance starts as this one does, but for the escalation it has left.
LEMMA RacesInitially ==
  ASSUME Races!Init
  PROVE  Decisions!EpInit
<1>1. PICK class :
        run = [state |-> "NEEDS_HUMAN",
               esc |-> Races!NewEpisode([episode |-> 0, reopens |-> 0, receipts |-> {}], class)]
  BY DEF Races!Init
<1>2. /\ run.esc.receipts = {} /\ run.esc.status = "PENDING_NOTIFICATION"
      /\ run.state = "NEEDS_HUMAN" /\ run.esc.episode = 1
  BY <1>1 DEF Races!NewEpisode
<1>3. Phase(run) = "waiting"
  BY <1>2, PhaseOf DEF AwaitsHuman, WaitingStatuses
<1>4. QED  BY <1>2, <1>3 DEF Decisions!EpInit

\* The same in the specification that the runs check, of both instances.
THEOREM DrainedRunsDecideOnce == ASSUME Drained PROVE MCSpec => DrainedDecisions
<1> DEFINE Inv == races \in BOOLEAN /\ (races \/ DrainedInv)
<1>1. MCInit => Inv /\ Decisions!EpInit
  BY PlacedInitially, ProtocolInitially, DrainInitially, RacesInitially DEF MCInit, DrainedInv
<1>2. ASSUME Inv, [MCNext]_mcvars
      PROVE  Inv' /\ [races \/ Decisions!EpNext]_<<Decisions!epVars, races>>
  <2>1. CASE races
    BY <1>2, <2>1 DEF MCNext, mcvars
  <2>2. CASE ~races
    <3>1. [Next]_vars /\ UNCHANGED races
      BY <1>2, <2>2 DEF MCNext, mcvars
    <3>2. DrainedInv' /\ [Decisions!EpNext]_Decisions!epVars
      BY <1>2, <2>2, <3>1, PlacedKept, UndecidedKept, DrainKept, StepDecides DEF DrainedInv
    <3>3. QED  BY <1>2, <3>1, <3>2
  <2>3. QED  BY <1>2, <2>1, <2>2
<1>3. QED  BY <1>1, <1>2, PTL DEF MCSpec, DrainedDecisions

=============================================================================
