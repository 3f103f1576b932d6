---------------------------- MODULE MCWork_proofs ----------------------------
(***************************************************************************)
(* What holds of the work on an issue, for every value of the limits and   *)
(* bounds: of the sessions of Pi, of the rounds of a review, of the        *)
(* decisions of a person on a halted run, and of the route and the models  *)
(* of its attempts.  Each part has an invariant of its component, under the*)
(* guard that the behaviour is of that component.                          *)
(*                                                                         *)
(* The theorems are about MCSpec, so the components' variables are a .. i: *)
(*                                                                         *)
(*    HaltDecisions (D)  ReviewRounds (R)  PiSessions (S)  RouteRules (T)  *)
(* a  run                ledger            files           config          *)
(* b  world              work              sidecar         item            *)
(* c  esc                told              call            triage          *)
(* d  impasse            chances           unrecorded      route           *)
(* e  page                                 clock           attempts        *)
(* f  requests                             spent           grants          *)
(* g  job                                                                  *)
(* h  granted                                                              *)
(* i  spent                                                                *)
(***************************************************************************)
EXTENDS MCWork, FiniteSetTheorems, TLAPS

-----------------------------------------------------------------------------
\* THE DECISIONS.  A decision is taken at three moments: the halt snapshots the facts, the
\* ingest takes the facts that were shown, and the reopen compares the snapshot with the run.
\* The proof follows the facts through them.

RunFields == {"state", "risky", "plan", "used", "grants", "approved", "patch", "reviewed",
              "ledger", "findings", "commit", "timed"}
HaltFields(r) ==
  /\ RunFields \subseteq DOMAIN r
  /\ r.used \in [D!Budgets -> Nat] /\ r.grants \in [D!Budgets -> Nat]

Starts == {"check", "go"}

\* The records have their fields; what the person gave is what the run may use; and a reopen
\* is of a halt that was answered, holds what was shown, and after its check what the run has.
HaltInv ==
  /\ HaltFields(a)
  /\ {"status", "class", "context", "shown"} \subseteq DOMAIN c
  /\ {"step", "tree"} \subseteq DOMAIN g
  /\ h = a.grants /\ D!OneAttemptPerGrant
  /\ g.step \in Starts => a.state = "needs_human" /\ c.status = "reopened"
  /\ c.status = "reopened" => c.shown = c.context
  /\ a.state = "needs_human" /\ c.class = "scope" => a.patch = c.context.tree
  /\ g.step = "go" => D!StillShown(c.class, c.context)

\* A halt stops the run and snapshots the facts of its class from the run that halts.
Halted(r) ==
  /\ a' = [r EXCEPT !.state = "needs_human"] /\ c'.status = "waiting" /\ g'.step = "none"
  /\ {"status", "class", "context", "shown"} \subseteq DOMAIN c'
  /\ {"step", "tree"} \subseteq DOMAIN g'
  /\ c'.class = "scope" => c'.context.tree = r.patch

LEMMA HaltSnapshots ==
  ASSUME NEW reason, NEW r, D!Halt(reason, r)
  PROVE  Halted(r)
<1>1. D!Facts("scope", r).tree = r.patch
  BY DEF D!Facts, D!NoFacts
<1>2. DOMAIN D!Facts("scope", r) = {"tree", "count", "paths", "timed"}
  BY DEF D!Facts, D!NoFacts
<1>3. D!Snapshot("scope", r).tree = r.patch
  BY <1>1, <1>2 DEF D!Snapshot
<1>4. \A class, known : D!KeptClass(class, known) = "scope" => class = "scope"
  BY DEF D!KeptClass
<1>5. QED  BY <1>3, <1>4 DEF D!Halt, Halted, D!Idle

\* What a step of the work does: the run halts, or it goes on and no one decides anything.
\* An attempt is made within the limit.
Worked ==
  \E r : /\ HaltFields(r) /\ r.grants = a.grants /\ h' = h
         /\ \A x \in D!Budgets : \/ r.used[x] = a.used[x]
                                 \/ r.used[x] = a.used[x] + 1 /\ a.used[x] < D!Limit(x)
         /\ \/ Halted(r)
            \/ a' = r /\ r.state # "needs_human" /\ c' = c /\ g'.step \notin Starts
                 /\ {"step", "tree"} \subseteq DOMAIN g'

LEMMA RunGoesOn ==
  ASSUME HaltInv, NEW r, D!GoTo(r), g.step \notin Starts, h' = h,
         HaltFields(r), r.grants = a.grants, r.used = a.used, r.state # "needs_human"
  PROVE  Worked
<1>1. c' = c /\ g' = g /\ a' = r
  BY DEF D!GoTo
<1>2. {"step", "tree"} \subseteq DOMAIN g'
  BY <1>1 DEF HaltInv
<1>3. \A x \in D!Budgets : r.used[x] = a.used[x]
  OBVIOUS
<1>4. QED  BY <1>1, <1>2, <1>3 DEF Worked

LEMMA WorkSteps ==
  ASSUME HaltInv,
         \/ D!Triage \/ D!Plan \/ D!Implement \/ D!OutOfAttempts \/ D!Verify \/ D!Review
         \/ D!Publish \/ D!WatchCI \/ D!DiagnoseCI \/ D!RepairCI \/ D!Resume
  PROVE  Worked
<1> USE DEF HaltInv, HaltFields, RunFields
<1>1. CASE D!Triage
  <2>1. CASE D!GoTo([a EXCEPT !.state = "planning"])
    BY <1>1, <2>1 DEF D!Triage, D!GoTo, Worked, D!At, Starts
  <2>2. CASE D!Halts("risk")
    BY <1>1, <2>2, HaltSnapshots DEF D!Triage, D!Halts, Worked
  <2>3. QED  BY <1>1, <2>1, <2>2 DEF D!Triage
<1>2. CASE D!Plan
  <2> DEFINE r == [a EXCEPT !.plan = @ + 1]
  <2> DEFINE q == [r EXCEPT !.state = "implementing"]
  <2>1. CASE D!GoTo(q)
    <3>1. HaltFields(q) /\ q.grants = a.grants /\ q.used = a.used /\ q.state # "needs_human"
      OBVIOUS
    <3>2. g.step \notin Starts /\ h' = h
      BY <1>2 DEF D!Plan, D!At, Starts
    <3>3. QED  BY <2>1, <3>1, <3>2, RunGoesOn, Zenon
  <2>2. CASE D!Halt("plan", r)
    <3>1. Halted(r)  BY <2>2, HaltSnapshots
    <3>2. QED  BY <1>2, <3>1 DEF D!Plan, Worked
  <2>3. QED  BY <1>2, <2>1, <2>2 DEF D!Plan
<1>3. CASE D!Implement
  <2>1. PICK state \in {"verifying", "implementing"} :
          D!GoTo([a EXCEPT !.state = state, !.used[D!Budget] = @ + 1, !.patch = b'.tree])
    BY <1>3 DEF D!Implement
  <2>2. D!Budget \in D!Budgets
    BY DEF D!Budget, D!Budgets
  <2>3. a.used[D!Budget] < D!Limit(D!Budget) /\ h' = h /\ g.step \notin Starts
    BY <1>3 DEF D!Implement, D!At, Starts
  <2> DEFINE r == [a EXCEPT !.state = state, !.used[D!Budget] = @ + 1, !.patch = b'.tree]
  <2>4. r.grants = a.grants /\ r.state # "needs_human" /\ RunFields \subseteq DOMAIN r
        /\ r.used = [a.used EXCEPT ![D!Budget] = @ + 1]
    OBVIOUS
  <2>5. HaltFields(r)
    BY <2>2, <2>4
  <2>6. \A x \in D!Budgets : r.used[x] = a.used[x]
                              \/ (r.used[x] = a.used[x] + 1 /\ a.used[x] < D!Limit(x))
    BY <2>2, <2>3, <2>4
  <2>7. a' = r /\ c' = c /\ g' = g
    BY <2>1 DEF D!GoTo
  <2> HIDE DEF r
  <2>8. QED  BY <2>3, <2>4, <2>5, <2>6, <2>7 DEF Worked
<1>4. CASE D!OutOfAttempts
  <2>1. PICK reason : D!Halt(reason, a)
    BY <1>4 DEF D!OutOfAttempts, D!Halts
  <2>2. Halted(a)  BY <2>1, HaltSnapshots
  <2>3. QED  BY <1>4, <2>2 DEF D!OutOfAttempts, Worked
<1>5. CASE D!Verify
  <2>1. CASE \E state \in {"implementing", "reviewing"} : D!GoTo([a EXCEPT !.state = state])
    BY <1>5, <2>1 DEF D!Verify, D!GoTo, Worked, D!At, Starts
  <2>2. CASE D!Halts("scope")
    BY <1>5, <2>2, HaltSnapshots DEF D!Verify, D!Halts, Worked
  <2>3. QED  BY <1>5, <2>1, <2>2 DEF D!Verify
<1>6. CASE D!Review
  <2> DEFINE p == [a EXCEPT !.state = "pr_ready", !.reviewed = a.patch,
                              !.ledger = a.patch, !.findings = FALSE]
  <2>1. CASE D!GoTo(p)
    <3>1. HaltFields(p) /\ p.grants = a.grants /\ p.used = a.used /\ p.state # "needs_human"
      OBVIOUS
    <3>2. g.step \notin Starts /\ h' = h
      BY <1>6 DEF D!Review, D!At, Starts
    <3>3. QED  BY <2>1, <3>1, <3>2, RunGoesOn, Zenon
  <2> DEFINE q == [a EXCEPT !.state = "implementing", !.ledger = a.patch, !.findings = TRUE]
  <2>2. CASE D!GoTo(q)
    <3>1. HaltFields(q) /\ q.grants = a.grants /\ q.used = a.used /\ q.state # "needs_human"
      OBVIOUS
    <3>2. g.step \notin Starts /\ h' = h
      BY <1>6 DEF D!Review, D!At, Starts
    <3>3. QED  BY <2>2, <3>1, <3>2, RunGoesOn, Zenon
  <2> DEFINE r == [a EXCEPT !.ledger = a.patch, !.findings = TRUE]
  <2>3. CASE D!Halt("accept", r)
    <3>1. Halted(r)  BY <2>3, HaltSnapshots
    <3>2. QED  BY <1>6, <3>1 DEF D!Review, Worked
  <2>4. QED  BY <1>6, <2>1, <2>2, <2>3 DEF D!Review
<1>7. CASE D!Publish
  <2>1. CASE \E reason : D!Halts(reason)
    BY <1>7, <2>1, HaltSnapshots DEF D!Publish, D!Halts, Worked
  <2> DEFINE q == [a EXCEPT !.state = "ci_running", !.commit = a.reviewed, !.timed = FALSE]
  <2>2. CASE D!GoTo(q)
    <3>1. HaltFields(q) /\ q.grants = a.grants /\ q.used = a.used /\ q.state # "needs_human"
      OBVIOUS
    <3>2. g.step \notin Starts /\ h' = h
      BY <1>7 DEF D!Publish, D!At, Starts
    <3>3. QED  BY <2>2, <3>1, <3>2, RunGoesOn, Zenon
  <2>3. QED  BY <1>7, <2>1, <2>2 DEF D!Publish
<1>8. CASE D!WatchCI
  <2>1. CASE a' = [a EXCEPT !.state = "done"] /\ g' = D!Idle /\ UNCHANGED c
    BY <1>8, <2>1 DEF D!WatchCI, Worked, D!Idle, Starts
  <2> DEFINE q == [a EXCEPT !.state = "ci_diagnosis", !.timed = FALSE]
  <2>2. CASE D!GoTo(q)
    <3>1. HaltFields(q) /\ q.grants = a.grants /\ q.used = a.used /\ q.state # "needs_human"
      OBVIOUS
    <3>2. g.step \notin Starts /\ h' = h
      BY <1>8 DEF D!WatchCI, D!At, Starts
    <3>3. QED  BY <2>2, <3>1, <3>2, RunGoesOn, Zenon
  <2> DEFINE r == [a EXCEPT !.timed = TRUE]
  <2>3. CASE D!Halt("ci", r)
    <3>1. Halted(r)  BY <2>3, HaltSnapshots
    <3>2. QED  BY <1>8, <3>1 DEF D!WatchCI, Worked
  <2>4. CASE D!Halts("none")
    BY <1>8, <2>4, HaltSnapshots DEF D!WatchCI, D!Halts, Worked
  <2>5. QED  BY <1>8, <2>1, <2>2, <2>3, <2>4 DEF D!WatchCI
<1>9. CASE D!DiagnoseCI
  <2>1. CASE D!GoTo([a EXCEPT !.state = "implementing"])
    BY <1>9, <2>1 DEF D!DiagnoseCI, D!GoTo, Worked, D!At, Starts
  <2>2. CASE \E reason : D!Halts(reason)
    BY <1>9, <2>2, HaltSnapshots DEF D!DiagnoseCI, D!Halts, Worked
  <2>3. QED  BY <1>9, <2>1, <2>2 DEF D!DiagnoseCI
<1>10. CASE D!RepairCI
  BY <1>10 DEF D!RepairCI, Worked, D!Idle, Starts
<1>11. CASE D!Resume
  <2>1. CASE D!Halts("none")
    BY <1>11, <2>1, HaltSnapshots DEF D!Resume, D!Halts, Worked
  <2>2. CASE /\ a' = IF a.state = "ci_diagnosis" THEN [a EXCEPT !.state = "ci_running"] ELSE a
             /\ g' = [D!Idle EXCEPT !.step = "work"] /\ UNCHANGED c
    BY <1>11, <2>2 DEF D!Resume, Worked, D!Idle, Starts
  <2>3. QED  BY <1>11, <2>1, <2>2 DEF D!Resume
<1>12. QED
  BY <1>1, <1>2, <1>3, <1>4, <1>5, <1>6, <1>7, <1>8, <1>9, <1>10, <1>11

\* The class of a reopen is one whose facts the check compared with the run.
LEMMA CheckedIsShown ==
  ASSUME HaltInv, g.step = "check", g'.step = "go", D!CheckReopen
  PROVE  D!StillShown(c.class, c.context)'
<1>1. UNCHANGED <<a, b, c>> /\ g' = [step |-> "go", tree |-> b.tree]
      /\ D!TreeFits(c.class, c.context) /\ D!FactsFit
  BY DEF D!CheckReopen, D!FailReopen, D!Idle
<1>2. a.state = "needs_human" /\ (c.class = "scope" => a.patch = c.context.tree)
  BY DEF HaltInv, Starts
<1>3. c.class # "scope" => D!Facts(c.class, a).tree = c.context.tree
                           /\ D!Facts(c.class, a).count = c.context.count
  <2>1. ASSUME c.class # "scope" PROVE D!Facts(c.class, a) = [c.context EXCEPT !.paths = {}]
    BY <1>1, <2>1 DEF D!FactsFit
  <2>2. DOMAIN D!Facts(c.class, a) = {"tree", "count", "paths", "timed"}
    BY DEF D!Facts, D!NoFacts
  <2>3. QED  BY <2>1, <2>2
<1>4. QED
  BY <1>1, <1>2, <1>3 DEF D!StillShown, D!Facts, D!NoFacts, D!TreeFits

LEMMA DecisionsKept ==
  ASSUME HaltInv, D!HaltNext
  PROVE  HaltInv' /\ D!ResumesAsShown
<1> USE DEF D!ResumesAsShown
<1>1. CASE Worked
  <2>1. PICK r : /\ HaltFields(r) /\ r.grants = a.grants /\ h' = h
                 /\ \A x \in D!Budgets : \/ r.used[x] = a.used[x]
                                         \/ r.used[x] = a.used[x] + 1 /\ a.used[x] < D!Limit(x)
                 /\ \/ Halted(r)
                    \/ a' = r /\ r.state # "needs_human" /\ c' = c /\ g'.step \notin Starts
                         /\ {"step", "tree"} \subseteq DOMAIN g'
    BY <1>1 DEF Worked
  <2>2. HaltFields(a') /\ a'.used = r.used /\ a'.grants = a.grants /\ a'.patch = r.patch
    BY <2>1 DEF HaltFields, Halted, RunFields
  <2>3. D!OneAttemptPerGrant'
    <3>1. \A x \in D!Budgets : a.used[x] \in Nat /\ a.grants[x] \in Nat
      BY DEF HaltInv, HaltFields
    <3>2. h = a.grants /\ D!OneAttemptPerGrant
      BY DEF HaltInv
    <3>3. QED
      BY <2>1, <2>2, <3>1, <3>2, WorkAssumption DEF D!OneAttemptPerGrant, D!Limit
  <2>4. CASE Halted(r)
    BY <2>1, <2>2, <2>3, <2>4 DEF HaltInv, Halted, Starts
  <2>5. CASE a' = r /\ r.state # "needs_human" /\ c' = c /\ g'.step \notin Starts
             /\ {"step", "tree"} \subseteq DOMAIN g'
    BY <2>1, <2>2, <2>3, <2>5 DEF HaltInv, Starts
  <2>6. QED  BY <2>1, <2>4, <2>5
<1>2. CASE D!OpenPage \/ D!File
  BY <1>2 DEF D!OpenPage, D!File, HaltInv, D!StillShown, D!OneAttemptPerGrant
<1>3. CASE D!Ingest
  <2>1. PICK request : c' = [c EXCEPT !.status = "reopened", !.shown = request.print.facts]
                       /\ ~D!Refused(request)
    BY <1>3 DEF D!Ingest
  <2>2. request.print.facts = c.context
    BY <1>3, <2>1 DEF D!Refused, D!Asked, D!Ingest, D!Waits, D!ValidContext, D!Fingerprint
  <2>3. c.status = "waiting" /\ UNCHANGED <<a, g, h>>
    BY <1>3 DEF D!Ingest, D!Waits
  <2>4. c'.shown = c.context /\ c'.context = c.context /\ c'.class = c.class
        /\ {"status", "class", "context", "shown"} \subseteq DOMAIN c' /\ c'.status = "reopened"
    BY <2>1, <2>2 DEF HaltInv
  <2>5. g.step \notin Starts
    BY <2>3 DEF HaltInv
  <2>6. QED  BY <2>3, <2>4, <2>5 DEF HaltInv, Starts, D!OneAttemptPerGrant
<1>4. CASE D!StartReopen
  BY <1>4 DEF D!StartReopen, HaltInv, D!OneAttemptPerGrant, Starts
<1>5. CASE D!CheckReopen
  <2>1. UNCHANGED <<a, h>> /\ g.step = "check"
    BY <1>5 DEF D!CheckReopen
  <2>2. CASE g' = [step |-> "go", tree |-> b.tree] /\ UNCHANGED c
    <3>1. D!StillShown(c.class, c.context)'
      BY <1>5, <2>1, <2>2, CheckedIsShown
    <3>2. QED  BY <2>1, <2>2, <3>1 DEF HaltInv, D!OneAttemptPerGrant, Starts
  <2>3. CASE D!FailReopen
    BY <2>1, <2>3 DEF D!FailReopen, D!NoEpisode, D!Idle, HaltInv, D!OneAttemptPerGrant, Starts
  <2>4. QED  BY <1>5, <2>2, <2>3 DEF D!CheckReopen
<1>6. CASE D!GoReopen
  <2>1. g.step = "go" /\ c' = [c EXCEPT !.status = "resumed"]
        /\ g'.step \in {"repair", "work"} /\ {"step", "tree"} \subseteq DOMAIN g'
        /\ h' = [x \in D!Budgets |-> h[x] + D!One(x)]
    BY <1>6 DEF D!GoReopen, D!Idle
  <2>2. /\ RunFields \subseteq DOMAIN a' /\ a'.used = a.used
        /\ a'.grants = [x \in D!Budgets |-> D!Given(x)]
        /\ a'.state = D!Resumed(c.class)
    BY <1>6 DEF D!GoReopen, HaltInv, HaltFields, RunFields
  <2>3. a'.state # "needs_human"
    BY <2>2 DEF D!Resumed
  <2>4. h' = a'.grants /\ a'.grants \in [D!Budgets -> Nat]
        /\ \A x \in D!Budgets : a.grants[x] <= a'.grants[x]
    BY <2>1, <2>2 DEF HaltInv, HaltFields, D!Given, D!One
  <2>5. D!OneAttemptPerGrant'
    <3>1. \A x \in D!Budgets : a.used[x] \in Nat /\ a.grants[x] \in Nat /\ a'.grants[x] \in Nat
      BY <2>4 DEF HaltInv, HaltFields
    <3>2. h = a.grants /\ D!OneAttemptPerGrant
      BY DEF HaltInv
    <3>3. QED
      BY <2>2, <2>4, <3>1, <3>2, WorkAssumption DEF D!OneAttemptPerGrant
  <2>6. D!StillShown(c.class, c.shown)
    BY <2>1 DEF HaltInv, Starts
  <2>7. c'.status = "resumed" /\ g'.step \notin Starts
        /\ {"status", "class", "context", "shown"} \subseteq DOMAIN c'
    BY <2>1 DEF HaltInv, Starts
  <2>8. HaltFields(a')
    BY <2>2, <2>4 DEF HaltInv, HaltFields
  <2>9. QED  BY <2>1, <2>3, <2>4, <2>5, <2>6, <2>7, <2>8 DEF HaltInv, Starts
<1>7. CASE D!Escalate
  <2>1. /\ c' = c /\ h' = [x \in D!Budgets |-> 0]
        /\ g'.step = "work" /\ {"step", "tree"} \subseteq DOMAIN g'
    BY <1>7 DEF D!Escalate, D!Idle
  <2>2. /\ RunFields \subseteq DOMAIN a' /\ a'.used = [x \in D!Budgets |-> 0] /\ a'.grants = h'
        /\ a'.state = "planning"
    BY <1>7 DEF D!Escalate, HaltInv, HaltFields, RunFields
  <2>3. HaltFields(a')
    BY <2>1, <2>2 DEF HaltFields
  <2>4. D!OneAttemptPerGrant'
    BY <2>1, <2>2, WorkAssumption DEF D!OneAttemptPerGrant
  <2>5. QED  BY <2>1, <2>2, <2>3, <2>4 DEF HaltInv, Starts
<1>8. CASE D!Crash
  BY <1>8 DEF D!Crash, D!Idle, HaltInv, D!OneAttemptPerGrant, Starts
<1>9. CASE D!EditTree \/ D!ChangePull
  BY <1>9 DEF D!EditTree, D!ChangePull, HaltInv, D!StillShown, D!OneAttemptPerGrant
<1>10. QED
  BY WorkSteps, <1>1, <1>2, <1>3, <1>4, <1>5, <1>6, <1>7, <1>8, <1>9 DEF D!HaltNext

DecisionsInv == which = "decisions" => HaltInv

LEMMA DecisionsStart == MCInit => DecisionsInv
<1>1. SUFFICES ASSUME D!HaltInit PROVE HaltInv
  BY DEF MCInit, DecisionsInv
<1>2. g.step = "work" /\ {"step", "tree"} \subseteq DOMAIN g /\ c.status = "none"
      /\ {"status", "class", "context", "shown"} \subseteq DOMAIN c
  BY <1>1 DEF D!HaltInit, D!Idle, D!NoEpisode
<1>3. HaltFields(a) /\ h = a.grants /\ a.state = "triage"
      /\ a.used = [x \in D!Budgets |-> 0] /\ h = [x \in D!Budgets |-> 0]
  BY <1>1 DEF D!HaltInit, HaltFields, RunFields
<1>4. D!OneAttemptPerGrant
  BY <1>3, WorkAssumption DEF D!OneAttemptPerGrant
<1>5. QED  BY <1>2, <1>3, <1>4 DEF HaltInv, Starts

LEMMA DecisionsGoOn ==
  ASSUME DecisionsInv, [MCNext]_mcvars
  PROVE  DecisionsInv' /\ [which = "decisions" => D!ResumesAsShown]_mcvars
<1>1. which' = which
  BY DEF MCNext, Dispatching, Calling, Continuing, Checking, Reviewing, Scoping, Deciding,
         Routing, mcvars
<1>2. CASE which # "decisions"
  BY <1>1, <1>2 DEF DecisionsInv
<1>3. CASE which = "decisions" /\ D!HaltNext
  BY <1>1, <1>3, DecisionsKept DEF DecisionsInv
<1>4. CASE UNCHANGED mcvars
  BY <1>1, <1>4
  DEF DecisionsInv, HaltInv, D!StillShown, D!OneAttemptPerGrant, mcvars, shared
<1>5. CASE MCNext /\ which = "decisions"
  BY <1>3, <1>5 DEF MCNext, Dispatching, Calling, Continuing, Checking, Reviewing, Scoping,
                    Deciding, Routing
<1>6. QED  BY <1>2, <1>4, <1>5

\* Whatever halts, crashes, retries and escalations come in between, a run makes one attempt
\* beyond the budget for each decision that gave one: a reopen gives it once (resume_writes.py,
\* run_reopen.py).
THEOREM AttemptsAreGranted == MCSpec => []OneAttemptPerGrant
<1>1. DecisionsInv => OneAttemptPerGrant
  BY DEF DecisionsInv, HaltInv, OneAttemptPerGrant
<1>2. MCInit => DecisionsInv
  BY DecisionsStart
<1>3. DecisionsInv /\ [MCNext]_mcvars => DecisionsInv'
  BY DecisionsGoOn
<1>4. QED  BY <1>1, <1>2, <1>3, PTL DEF MCSpec

\* What a decision resumes is what the person had on the screen: whatever happened to the run,
\* to its worktree and to its pull request since, the facts of the class are still those
\* (_REOPEN_CHECKS of resume.py, transition_reopened).
THEOREM DecisionsAreOfWhatWasShown == MCSpec => ActsOnWhatWasShown
<1>1. MCInit => DecisionsInv
  BY DecisionsStart
<1>2. DecisionsInv /\ [MCNext]_mcvars => DecisionsInv'
  BY DecisionsGoOn
<1>3. DecisionsInv /\ [MCNext]_mcvars => [which = "decisions" => D!ResumesAsShown]_mcvars
  BY DecisionsGoOn
<1>4. QED  BY <1>1, <1>2, <1>3, PTL DEF MCSpec, ActsOnWhatWasShown

-----------------------------------------------------------------------------
\* THE REVIEW.  A blocked finding that is owed to a person is open or was accepted, up to the
\* delivery; the delivery asks the policy for what was accepted, and nothing is open then.

\* Between two finite sets there is one of every size between theirs.
LEMMA SizeBetween ==
  ASSUME NEW A, NEW B, A \subseteq B, IsFiniteSet(B), NEW n \in Nat,
         Cardinality(A) <= n, n <= Cardinality(B)
  PROVE  \E s \in SUBSET B : A \subseteq s /\ Cardinality(s) = n
<1> DEFINE k == n - Cardinality(A)
           rest == B \ A
<1>1. IsFiniteSet(A) /\ IsFiniteSet(rest) /\ Cardinality(A) \in Nat /\ Cardinality(B) \in Nat
      /\ Cardinality(rest) = Cardinality(B) - Cardinality(A)
  <2>1. B \cap A = A
    OBVIOUS
  <2>2. IsFiniteSet(A)
    BY FS_Subset
  <2>3. IsFiniteSet(rest) /\ Cardinality(rest) = Cardinality(B) - Cardinality(A)
    BY <2>1, FS_Difference
  <2>4. Cardinality(A) \in Nat /\ Cardinality(B) \in Nat
    BY <2>2, FS_CardinalityType
  <2>5. QED  BY <2>2, <2>3, <2>4
<1>2. k \in Nat /\ k <= Cardinality(rest) /\ Cardinality(rest) \in Nat
  BY <1>1
<1>3. PICK x \in Bijection(1 .. Cardinality(rest), rest) : TRUE
  BY <1>1, FS_CardinalityType DEF ExistsBijection
<1> DEFINE taken == {x[j] : j \in 1 .. k}
<1>4. taken \subseteq rest /\ IsFiniteSet(taken)
  <2>1. \A j \in 1 .. k : j \in 1 .. Cardinality(rest)
    BY <1>2
  <2>2. taken \subseteq rest
    BY <1>3, <2>1 DEF Bijection, Injection
  <2>3. QED  BY <1>1, <2>2, FS_Subset
<1>5. Cardinality(taken) = k
  <2> DEFINE y == [j \in 1 .. k |-> x[j]]
  <2>1. \A j \in 1 .. k : j \in 1 .. Cardinality(rest)
    BY <1>2
  <2>2. \A p, q \in 1 .. k : x[p] = x[q] => p = q
    BY <1>3, <2>1 DEF Bijection, Injection, IsInjective
  <2>3. y \in Bijection(1 .. k, taken)
    BY <2>2 DEF Bijection, Injection, Surjection, IsInjective
  <2>4. ExistsBijection(1 .. k, taken)
    BY <2>3 DEF ExistsBijection
  <2>5. QED  BY <1>2, <2>4, FS_CountingElements
<1> DEFINE s == A \cup taken
<1>6. A \cap taken = {} /\ s \in SUBSET B
  BY <1>4
<1> HIDE DEF rest, taken
<1>7. Cardinality(s) = Cardinality(A) + Cardinality(taken) - Cardinality({})
  BY <1>1, <1>4, <1>6, FS_Union
<1>8. Cardinality(s) = n
  BY <1>1, <1>5, <1>7, FS_EmptySet
<1>9. QED  BY <1>6, <1>8

LEMMA CardinalityOfReview == \A s : R!Cardinality(s) = Cardinality(s)
BY Zenon DEF R!Cardinality, Cardinality

\* The list operators of the ledger, as functions on ids.
LEMMA ListDomains ==
  /\ \A p, q : DOMAIN R!Deduplicated(p, q) = DOMAIN p \cup DOMAIN q
  /\ \A p, ids : DOMAIN R!Keep(p, ids) = ids
  /\ \A ids, origin : DOMAIN R!Mint(ids, origin) = ids
  /\ DOMAIN R!Nothing = {}
BY DEF R!Deduplicated, R!Keep, R!Mint, R!Nothing

LedgerFields(l) ==
  {"open", "accepted", "late", "replacements", "paths", "streaks"} \subseteq DOMAIN l

\* The ledger holds at most MaxOpen open findings.
FewOpen(l) == IsFiniteSet(DOMAIN l.open) /\ Cardinality(DOMAIN l.open) <= MaxOpen

LedgerInv == LedgerFields(a) /\ FewOpen(a) /\ IsFiniteSet(DOMAIN a.accepted)

LEMMA ReportsAreSmall ==
  ASSUME NEW report \in R!Reports
  PROVE  /\ IsFiniteSet(report.latent) /\ Cardinality(report.latent) <= 1
         /\ IsFiniteSet(report.regressions)
<1>1. report.latent \in R!AtMostOne
  BY DEF R!Reports
<1>2. report.regressions \in R!AtMostOne
  BY DEF R!Reports, R!AtMostOne
<1>3. \A s \in R!AtMostOne : IsFiniteSet(s) /\ Cardinality(s) <= 1
  <2>1. TAKE s \in R!AtMostOne
  <2>2. CASE s = {}
    BY <2>2, FS_EmptySet
  <2>3. CASE \E x : s = {x}
    <3>1. IsFiniteSet(s) /\ Cardinality(s) = 1
      BY <2>3, FS_Singleton, Zenon
    <3>2. QED  BY <3>1
  <2>4. QED  BY <2>2, <2>3 DEF R!AtMostOne
<1>4. QED  BY <1>1, <1>2, <1>3

\* A first review opens what its report finds.
LEMMA FirstReviewOpens ==
  ASSUME LedgerInv, NEW report \in R!Reports
  PROVE  LET l == R!FirstReview(report).ledger
         IN  /\ LedgerFields(l) /\ FewOpen(l) /\ l.accepted = a.accepted
             /\ DOMAIN l.open = report.latent \ report.repeated
             /\ ~R!FirstReview(report).overflow
<1> DEFINE l == R!FirstReview(report).ledger
           new == report.latent \ report.repeated
<1>1. LedgerFields(l) /\ l.accepted = a.accepted /\ l.open = R!Mint(new, "INITIAL")
      /\ R!FirstReview(report).overflow = FALSE
  BY DEF R!FirstReview, LedgerInv, LedgerFields
<1>2. DOMAIN l.open = new
  BY <1>1, ListDomains
<1>3. IsFiniteSet(new) /\ Cardinality(new) <= Cardinality(report.latent)
      /\ Cardinality(new) \in Nat /\ Cardinality(report.latent) \in Nat
  <2>1. IsFiniteSet(report.latent) /\ new \in SUBSET report.latent
    BY ReportsAreSmall
  <2>2. IsFiniteSet(new) /\ Cardinality(new) <= Cardinality(report.latent)
    BY <2>1, FS_Subset
  <2>3. QED  BY <2>1, <2>2, FS_CardinalityType
<1> HIDE DEF l, new
<1>4. FewOpen(l)
  BY <1>2, <1>3, ReportsAreSmall, WorkAssumption DEF FewOpen
<1>5. QED  BY <1>1, <1>2, <1>4 DEF l, new

\* A repair review keeps every open finding that it does not call resolved, and opens the new
\* ones of a blocked category, unless there are too many; and they are never too many.
LEMMA RepairReviewKeeps ==
  ASSUME LedgerInv, NEW report \in R!Reports
  PROVE  LET l == R!RepairReview(report).ledger
             touched == report.regressions \cup report.latent
         IN  /\ LedgerFields(l) /\ FewOpen(l) /\ l.accepted = a.accepted
             /\ ~R!RepairReview(report).overflow =>
                  DOMAIN l.open = (DOMAIN a.open \ report.resolved) \cup R!Overlapping(touched)
                                    \cup R!Fresh(report.regressions) \cup R!Adopted(report)
<1> DEFINE unresolved == (DOMAIN a.open \ report.resolved)
                            \cup R!Overlapping(report.regressions \cup report.latent)
           first == unresolved \cup R!Fresh(report.regressions)
           some == first \cup R!Adopted(report)
           regressions == R!Mint(R!Fresh(report.regressions), "REGRESSION")
           adopted == R!Mint(R!Adopted(report), "LATE_ADOPTED")
           open == R!Keep(a.open, unresolved)
           all == R!Deduplicated(open, R!Deduplicated(regressions, adopted))
           fits(s) == /\ R!Cardinality(s) = MaxOpen /\ unresolved \subseteq s
                      /\ (s \subseteq (unresolved \cup DOMAIN regressions)
                            \/ (unresolved \cup DOMAIN regressions) \subseteq s)
           kept == IF R!Cardinality(DOMAIN all) <= MaxOpen THEN DOMAIN all
                   ELSE CHOOSE s \in SUBSET DOMAIN all : fits(s)
           l == R!RepairReview(report).ledger
<1>1. DOMAIN all = some /\ unresolved \cup DOMAIN regressions = first
  <2>1. DOMAIN regressions = R!Fresh(report.regressions) /\ DOMAIN adopted = R!Adopted(report)
        /\ DOMAIN open = unresolved
    BY DEF R!Mint, R!Keep
  <2> HIDE DEF unresolved, regressions, adopted, open
  <2>2. DOMAIN all = DOMAIN open \cup (DOMAIN regressions \cup DOMAIN adopted)
    BY DEF R!Deduplicated
  <2>3. QED  BY <2>1, <2>2
<1>2. IsFiniteSet(some) /\ Cardinality(some) \in Nat
      /\ unresolved \subseteq DOMAIN a.open /\ IsFiniteSet(first) /\ Cardinality(first) \in Nat
  <2>1. unresolved \subseteq DOMAIN a.open
    BY DEF R!Overlapping
  <2>2. R!Fresh(report.regressions) \subseteq report.regressions
    BY DEF R!Fresh
  <2>3. R!Adopted(report) \subseteq report.latent
    BY DEF R!Adopted, R!Fresh
  <2>4. IsFiniteSet(DOMAIN a.open) /\ IsFiniteSet(report.regressions) /\ IsFiniteSet(report.latent)
    BY ReportsAreSmall DEF LedgerInv, FewOpen
  <2>5. IsFiniteSet(unresolved) /\ IsFiniteSet(R!Fresh(report.regressions))
        /\ IsFiniteSet(R!Adopted(report))
    BY <2>1, <2>2, <2>3, <2>4, FS_Subset
  <2> HIDE DEF unresolved
  <2>6. IsFiniteSet(first)
    BY <2>5, FS_Union
  <2>7. IsFiniteSet(some)
    BY <2>5, <2>6, FS_Union
  <2>8. QED  BY <2>1, <2>6, <2>7, FS_CardinalityType
<1>3. Cardinality(unresolved) <= MaxOpen
  <2>1. IsFiniteSet(DOMAIN a.open) /\ Cardinality(DOMAIN a.open) <= MaxOpen
    BY DEF LedgerInv, FewOpen
  <2>2. unresolved \in SUBSET DOMAIN a.open
    BY <1>2
  <2> HIDE DEF unresolved
  <2>3. IsFiniteSet(unresolved) /\ Cardinality(unresolved) <= Cardinality(DOMAIN a.open)
    BY <2>1, <2>2, FS_Subset
  <2>4. Cardinality(unresolved) \in Nat /\ Cardinality(DOMAIN a.open) \in Nat
    BY <2>1, <2>3, FS_CardinalityType
  <2>5. QED  BY <2>1, <2>3, <2>4, WorkAssumption
<1>4. kept \subseteq some /\ Cardinality(kept) <= MaxOpen
  <2> HIDE DEF all, regressions
  <2>1. CASE Cardinality(some) <= MaxOpen
    <3>1. R!Cardinality(DOMAIN all) = Cardinality(some)
      BY <1>1, CardinalityOfReview, Zenon
    <3>2. kept = some
      BY <1>1, <2>1, <3>1
    <3>3. QED  BY <2>1, <3>2
  <2>2. CASE ~(Cardinality(some) <= MaxOpen)
    <3>1. \E s \in SUBSET some : /\ Cardinality(s) = MaxOpen /\ unresolved \subseteq s
                                /\ (s \subseteq first \/ first \subseteq s)
      <4>1. CASE Cardinality(first) <= MaxOpen
        <5>1. first \subseteq some /\ MaxOpen <= Cardinality(some) /\ MaxOpen \in Nat
          BY <1>2, <2>2, WorkAssumption
        <5>2. \E s \in SUBSET some : first \subseteq s /\ Cardinality(s) = MaxOpen
          <6> HIDE DEF first, some
          <6>1. QED  BY <1>2, <4>1, <5>1, SizeBetween
        <5>3. QED  BY <5>2
      <4>2. CASE ~(Cardinality(first) <= MaxOpen)
        <5>1. unresolved \subseteq first /\ MaxOpen <= Cardinality(first) /\ MaxOpen \in Nat
          BY <1>2, <4>2, WorkAssumption
        <5>2. \E s \in SUBSET first : unresolved \subseteq s /\ Cardinality(s) = MaxOpen
          <6> HIDE DEF first, unresolved
          <6>1. QED  BY <1>2, <1>3, <5>1, SizeBetween
        <5>3. QED  BY <5>2
      <4>3. QED  BY <4>1, <4>2
    <3>2. \E s \in SUBSET DOMAIN all : fits(s)
      <4> HIDE DEF some, first, unresolved
      <4>1. QED  BY <1>1, <3>1, CardinalityOfReview, Zenon
    <3>3. ~(R!Cardinality(DOMAIN all) <= MaxOpen)
      <4>1. R!Cardinality(DOMAIN all) = Cardinality(some)
        BY <1>1, CardinalityOfReview, Zenon
      <4>2. QED  BY <2>2, <4>1
    <3>4. kept \in SUBSET DOMAIN all /\ fits(kept)
      <4> HIDE DEF fits
      <4>1. QED  BY <3>2, <3>3
    <3>5. Cardinality(kept) = MaxOpen
      <4> HIDE DEF kept
      <4>1. QED  BY <3>4, CardinalityOfReview, Zenon
    <3> HIDE DEF kept
    <3>6. QED  BY <1>1, <3>4, <3>5, WorkAssumption
  <2>3. QED  BY <2>1, <2>2
<1>5. l.open = R!Keep(all, kept) /\ l.accepted = a.accepted /\ LedgerFields(l)
      /\ (R!RepairReview(report).overflow <=> kept # some)
  <2>1. LedgerFields(a)
    BY DEF LedgerInv
  <2> DEFINE late == IF R!AdoptLate(report) THEN a.late + 1 ELSE a.late
             replacements == IF unresolved = {} /\ DOMAIN regressions \cup DOMAIN adopted # {}
                             THEN a.replacements + 1 ELSE 0
             paths == [p \in R!PathsOf(kept) |-> R!Count(a.paths, p) + 1]
             streaks == [x \in kept |-> IF x \in DOMAIN a.open
                                        THEN R!Count(a.streaks, x) + 1 ELSE 1]
  <2>2. l = [a EXCEPT !.open = R!Keep(all, kept), !.late = late, !.replacements = replacements,
                      !.paths = paths, !.streaks = streaks]
    BY DEF R!RepairReview
  <2>3. l.open = R!Keep(all, kept) /\ LedgerFields(l) /\ l.accepted = a.accepted
    <3> HIDE DEF l, kept, all, late, replacements, paths, streaks
    <3>1. QED  BY <2>1, <2>2 DEF LedgerFields
  <2>4. R!RepairReview(report).overflow = (kept # DOMAIN all)
    BY DEF R!RepairReview
  <2> HIDE DEF l, kept, all
  <2>5. QED  BY <1>1, <2>3, <2>4
<1> HIDE DEF all, kept, some, l
<1>6. DOMAIN l.open = kept
  BY <1>5, ListDomains
<1>7. IsFiniteSet(kept)
  BY <1>2, <1>4, FS_Subset
<1>8. FewOpen(l)
  BY <1>4, <1>6, <1>7 DEF FewOpen
<1>9. QED  BY <1>5, <1>6, <1>8 DEF l, some

WorkFields ==
  {"unattended", "state", "budget", "rounds", "attempts", "acceptance", "impasse", "stored",
   "report", "seen", "look", "halted", "published"}
WorkInv ==
  /\ WorkFields \subseteq DOMAIN b
  /\ {"reason", "findings"} \subseteq DOMAIN b.acceptance
  /\ {"none", "approved", "regressed", "blocked"} \subseteq DOMAIN b.report
  /\ b.report.none \in BOOLEAN /\ b.look \in BOOLEAN /\ b.unattended \in BOOLEAN

\* What is owed to a person is in the ledger.
OwedInv ==
  /\ {"owed", "persons"} \subseteq DOMAIN c
  /\ \A x \in c.owed : R!IsBlocked(x) /\ x \in DOMAIN a.open \cup DOMAIN a.accepted

\* On its way to the delivery a run has no open findings, but for those that a person has
\* accepted; and what it delivers without a look owes nothing.
DeliveryInv ==
  /\ b.state = "PR_READY" /\ ~b.report.none =>
       \/ b.acceptance.reason = "OPERATOR" /\ c.owed = {}
       \/ /\ b.acceptance.reason # "OPERATOR" /\ DOMAIN a.open = {}
          /\ b.acceptance.reason = "none" => DOMAIN a.accepted = {}
  /\ b.state = "ACCEPTING" => c.owed = {} /\ b.acceptance.reason = "OPERATOR"
  /\ b.state \in {"CI_RUNNING", "DONE"} /\ ~b.look => c.owed = {}

ReviewInv == LedgerInv /\ WorkInv /\ OwedInv /\ DeliveryInv

\* A run that is authorized to deliver and does not ask for a look owes nothing.
LEMMA DeliveryIsAuthorized ==
  ASSUME ReviewInv, b.state = "PR_READY", R!AuthorizesDelivery, ~b.look, ~R!BeyondPolicy
  PROVE  c.owed = {}
<1>1. ~b.report.none
  BY DEF R!AuthorizesDelivery, ReviewInv, WorkInv
<1>2. CASE b.acceptance.reason = "OPERATOR"
  BY <1>1, <1>2 DEF ReviewInv, DeliveryInv
<1>3. CASE b.acceptance.reason = "none"
  <2>1. DOMAIN a.open = {} /\ DOMAIN a.accepted = {}
    BY <1>1, <1>3 DEF ReviewInv, DeliveryInv
  <2>2. QED  BY <2>1 DEF ReviewInv, OwedInv
<1>4. CASE b.acceptance.reason \notin {"none", "OPERATOR"}
  <2>1. b.acceptance.findings = a.accepted /\ (b.unattended \/ R!WithinPolicy(a.accepted))
    BY <1>1, <1>4 DEF R!AuthorizesDelivery
  <2>2. R!WithinPolicy(a.accepted)
    BY <1>1, <1>4, <2>1 DEF R!BeyondPolicy
  <2>3. DOMAIN a.open = {}
    BY <1>1, <1>4 DEF ReviewInv, DeliveryInv
  <2>4. QED  BY <2>2, <2>3 DEF R!WithinPolicy, ReviewInv, OwedInv
<1>5. QED  BY <1>2, <1>3, <1>4

\* The steps that leave the ledger alone.
LEMMA QuietSteps ==
  ASSUME ReviewInv,
         \/ R!AttemptFails \/ R!BudgetExhausted \/ R!HaltOnImpasse \/ R!RepairAgain
         \/ R!Publish \/ R!CIPasses \/ R!CIFails \/ R!Escalate
  PROVE  WorkInv' /\ DeliveryInv' /\ UNCHANGED <<a, c>>
<1> USE DEF WorkInv, WorkFields, R!Halt
<1>0. WorkInv /\ DeliveryInv
  BY DEF ReviewInv
<1>1. CASE R!AttemptFails
  BY <1>0, <1>1 DEF R!AttemptFails, R!NoAcceptance, DeliveryInv
<1>2. CASE R!BudgetExhausted
  <2>1. CASE ~b.unattended
    BY <1>0, <1>2, <2>1 DEF R!BudgetExhausted, DeliveryInv
  <2>2. CASE b.unattended /\ b.published
    BY <1>0, <1>2, <2>2 DEF R!BudgetExhausted, DeliveryInv
  <2>3. CASE b.unattended /\ ~b.published
    BY <1>0, <1>2, <2>3 DEF R!BudgetExhausted, DeliveryInv
  <2>4. QED  BY <2>1, <2>2, <2>3
<1>3. CASE R!HaltOnImpasse
  BY <1>0, <1>3 DEF R!HaltOnImpasse, DeliveryInv
<1>4. CASE R!RepairAgain
  BY <1>0, <1>4 DEF R!RepairAgain, DeliveryInv
<1>5. CASE R!Publish
  <2>1. CASE R!AuthorizesDelivery
    <3>1. b' = [b EXCEPT !.state = "CI_RUNNING", !.published = TRUE, !.look = b.look \/ R!BeyondPolicy]
          /\ UNCHANGED <<a, c>> /\ b.state = "PR_READY"
      BY <1>5, <2>1 DEF R!Publish
    <3>2. WorkInv' /\ b'.state = "CI_RUNNING" /\ (b'.look <=> b.look \/ R!BeyondPolicy)
      BY <1>0, <3>1
    <3>3. ~b'.look => c.owed = {}
      BY <2>1, <3>1, <3>2, DeliveryIsAuthorized
    <3>4. QED  BY <3>1, <3>2, <3>3 DEF DeliveryInv
  <2>2. CASE ~R!AuthorizesDelivery
    BY <1>0, <1>5, <2>2 DEF R!Publish, DeliveryInv
  <2>3. QED  BY <2>1, <2>2
<1>6. CASE R!CIPasses
  BY <1>0, <1>6 DEF R!CIPasses, DeliveryInv
<1>7. CASE R!CIFails
  <2>1. CASE R!Used("ci") < CIAttempts
    BY <1>0, <1>7, <2>1 DEF R!CIFails, DeliveryInv
  <2>2. CASE ~(R!Used("ci") < CIAttempts) /\ b.unattended
    BY <1>0, <1>7, <2>2 DEF R!CIFails, DeliveryInv
  <2>3. CASE ~(R!Used("ci") < CIAttempts) /\ ~b.unattended
    BY <1>0, <1>7, <2>3 DEF R!CIFails, DeliveryInv
  <2>4. QED  BY <2>1, <2>2, <2>3
<1>8. CASE R!Escalate
  BY <1>0, <1>8 DEF R!Escalate, DeliveryInv
<1>9. QED  BY <1>1, <1>2, <1>3, <1>4, <1>5, <1>6, <1>7, <1>8

\* An acceptance takes every open finding.
LEMMA AcceptanceTakesOpen ==
  ASSUME LedgerInv
  PROVE  /\ IsFiniteSet(DOMAIN R!ToAccept)
         /\ DOMAIN a.open \ DOMAIN a.accepted \subseteq DOMAIN R!ToAccept
<1> DEFINE all == R!Deduplicated(a.accepted, a.open)
           some == DOMAIN a.accepted \cup DOMAIN a.open
           new == some \ DOMAIN a.accepted
           fits(s) == R!Cardinality(s) = MaxOpen /\ DOMAIN all \ DOMAIN a.accepted \subseteq s
           newest == IF R!Cardinality(DOMAIN all) <= MaxOpen THEN DOMAIN all
                     ELSE CHOOSE s \in SUBSET DOMAIN all : fits(s)
<1>1. DOMAIN all = some
  BY DEF R!Deduplicated
<1>2. DOMAIN R!ToAccept = newest
  BY DEF R!ToAccept, R!Keep
<1>3. IsFiniteSet(some) /\ Cardinality(some) \in Nat
  BY FS_Union, FS_CardinalityType DEF LedgerInv, FewOpen
<1>4. new \in SUBSET some /\ Cardinality(new) <= MaxOpen
  <2>1. IsFiniteSet(DOMAIN a.open) /\ Cardinality(DOMAIN a.open) <= MaxOpen
    BY DEF LedgerInv, FewOpen
  <2>2. new \in SUBSET DOMAIN a.open /\ new \in SUBSET some
    OBVIOUS
  <2> HIDE DEF new
  <2>3. IsFiniteSet(new) /\ Cardinality(new) <= Cardinality(DOMAIN a.open)
    BY <2>1, <2>2, FS_Subset
  <2>4. Cardinality(new) \in Nat /\ Cardinality(DOMAIN a.open) \in Nat
    BY <2>1, <2>3, FS_CardinalityType
  <2>5. QED  BY <2>1, <2>2, <2>3, <2>4, WorkAssumption
<1> HIDE DEF all, some
<1>5. newest \subseteq some /\ new \subseteq newest
  <2>1. R!Cardinality(DOMAIN all) = Cardinality(some)
    BY <1>1, CardinalityOfReview, Zenon
  <2>2. CASE Cardinality(some) <= MaxOpen
    BY <1>1, <2>1, <2>2
  <2>3. CASE ~(Cardinality(some) <= MaxOpen)
    <3>1. MaxOpen \in Nat /\ MaxOpen <= Cardinality(some) /\ new \subseteq some
      BY <1>3, <1>4, <2>3, WorkAssumption
    <3>2. \E s \in SUBSET some : new \subseteq s /\ Cardinality(s) = MaxOpen
      <4> HIDE DEF new
      <4>1. QED  BY <1>3, <1>4, <3>1, SizeBetween
    <3>3. \E s \in SUBSET DOMAIN all : fits(s)
      BY <1>1, <3>2, CardinalityOfReview, Zenon
    <3>4. newest \in SUBSET DOMAIN all /\ fits(newest)
      <4> HIDE DEF fits
      <4>1. QED  BY <2>1, <2>3, <3>3
    <3> HIDE DEF newest
    <3>5. QED  BY <1>1, <3>4
  <2>4. QED  BY <2>2, <2>3
<1> HIDE DEF newest
<1>6. IsFiniteSet(newest)
  BY <1>3, <1>5, FS_Subset
<1>7. QED  BY <1>2, <1>5, <1>6 DEF some

\* A review never loses a finding of a blocked category.
LEMMA ReviewStep ==
  ASSUME ReviewInv, NEW report \in R!Reports, R!Review(report)
  PROVE  ReviewInv'
<1> DEFINE applied == R!ApplyReview(report)
           new == R!Fresh((report.latent \ report.repeated) \cup report.regressions)
           settled == report.resolved \ R!Overlapping(report.latent \cup report.regressions)
<1>1. /\ a' = applied.ledger
      /\ c' = [c EXCEPT !.owed =
                 IF applied.overflow THEN {x \in @ \ settled : x \in DOMAIN a'.open}
                 ELSE (@ \ settled) \cup {x \in new : R!IsBlocked(x)}]
  BY DEF R!Review
<1>2. WorkInv' /\ b'.state = "REVIEWING"
  BY DEF R!Review, ReviewInv, WorkInv, WorkFields, R!NoAcceptance
<1>3. LedgerInv /\ OwedInv
  BY DEF ReviewInv
<1>4. LedgerFields(applied.ledger) /\ FewOpen(applied.ledger) /\ applied.ledger.accepted = a.accepted
  <2>1. CASE a.open = R!Nothing
    BY <1>3, <2>1, FirstReviewOpens DEF R!ApplyReview
  <2>2. CASE a.open # R!Nothing
    BY <1>3, <2>2, RepairReviewKeeps DEF R!ApplyReview
  <2>3. QED  BY <2>1, <2>2
<1>5. ~applied.overflow => /\ DOMAIN a.open \ settled \subseteq DOMAIN applied.ledger.open
                           /\ \A x \in new : R!IsBlocked(x) => x \in DOMAIN applied.ledger.open
  <2>1. CASE a.open = R!Nothing
    <3>1. DOMAIN a.open = {}
      BY <2>1 DEF R!Nothing
    <3>2. report.regressions = {}
      BY <2>1 DEF R!Reports
    <3>3. DOMAIN applied.ledger.open = report.latent \ report.repeated
      BY <1>3, <2>1, FirstReviewOpens DEF R!ApplyReview
    <3> HIDE DEF applied
    <3>4. QED  BY <3>1, <3>2, <3>3 DEF R!Fresh
  <2>2. CASE a.open # R!Nothing
    <3>1. ~applied.overflow =>
            DOMAIN applied.ledger.open =
              (DOMAIN a.open \ report.resolved)
                \cup R!Overlapping(report.regressions \cup report.latent)
                \cup R!Fresh(report.regressions) \cup R!Adopted(report)
      BY <1>3, <2>2, RepairReviewKeeps DEF R!ApplyReview
    <3>2. \A x \in new : x \in R!Fresh(report.latent) \/ x \in R!Fresh(report.regressions)
      BY DEF R!Fresh
    <3>3. \A x \in R!Fresh(report.latent) : R!IsBlocked(x) => x \in R!Adopted(report)
      BY DEF R!Adopted
    <3>4. R!Overlapping(report.regressions \cup report.latent)
            = R!Overlapping(report.latent \cup report.regressions)
      BY DEF R!Overlapping
    <3> HIDE DEF applied, new
    <3>5. QED  BY <3>1, <3>2, <3>3, <3>4
  <2>3. QED  BY <2>1, <2>2
<1> HIDE DEF applied, new, settled
<1>6. LedgerInv'
  BY <1>1, <1>3, <1>4 DEF LedgerInv, LedgerFields, FewOpen
<1>7. OwedInv'
  <2>1. CASE applied.overflow
    BY <1>1, <1>3, <2>1 DEF OwedInv
  <2>2. CASE ~applied.overflow
    BY <1>1, <1>3, <1>4, <1>5, <2>2 DEF OwedInv
  <2>3. QED  BY <2>1, <2>2
<1>8. DeliveryInv'
  BY <1>2 DEF DeliveryInv
<1>9. QED  BY <1>2, <1>6, <1>7, <1>8 DEF ReviewInv

LEMMA ClearedLedger ==
  ASSUME LedgerFields(a)
  PROVE  LET l == R!ClearOpen(a) IN LedgerFields(l) /\ DOMAIN l.open = {} /\ l.accepted = a.accepted
BY DEF R!ClearOpen, LedgerFields, R!Nothing

LEMMA NothingIsFew == \A l : DOMAIN l.open = {} => FewOpen(l)
BY FS_EmptySet, WorkAssumption DEF FewOpen

\* The acceptances, and the review that finds nothing.
LEMMA AcceptanceSteps ==
  ASSUME ReviewInv,
         R!AcceptFindings \/ R!ReviewPasses \/ R!PersonAccepts \/ R!AcceptanceSaved
  PROVE  ReviewInv'
<1>0. LedgerInv /\ WorkInv /\ OwedInv /\ DeliveryInv /\ LedgerFields(a)
  BY DEF ReviewInv, LedgerInv
<1>1. CASE R!AcceptFindings
  <2> DEFINE l == R!ClearOpen(a)
  <2>1. a' = [l EXCEPT !.accepted = R!ToAccept]
        /\ c' = [c EXCEPT !.owed = c.owed \ (DOMAIN a.accepted \ DOMAIN R!ToAccept)]
    BY <1>1 DEF R!AcceptFindings
  <2>2. LedgerFields(l) /\ DOMAIN l.open = {}
    BY <1>0, ClearedLedger
  <2> HIDE DEF l
  <2>3. LedgerFields(a') /\ DOMAIN a'.open = {} /\ a'.accepted = R!ToAccept
    BY <2>1, <2>2 DEF LedgerFields
  <2>4. LedgerInv'
    BY <1>0, <2>3, AcceptanceTakesOpen, NothingIsFew DEF LedgerInv
  <2>5. OwedInv'
    BY <1>0, <2>1, <2>3, AcceptanceTakesOpen DEF OwedInv
  <2>6. R!Reason \in {"IMPASSE", "ROUND_LIMIT", "BUDGET_LIMIT"}
    <3>1. R!Reason # "none"
      BY <1>1 DEF R!AcceptFindings
    <3>2. QED  BY <3>1 DEF R!Reason
  <2>7. WorkInv' /\ b'.state = "PR_READY" /\ b'.acceptance.reason = R!Reason
    BY <1>0, <1>1 DEF R!AcceptFindings, WorkInv, WorkFields
  <2>8. DeliveryInv'
    BY <2>3, <2>6, <2>7 DEF DeliveryInv
  <2>9. QED  BY <2>4, <2>5, <2>7, <2>8 DEF ReviewInv
<1>2. CASE R!ReviewPasses
  <2>1. a' = R!ClearOpen(a) /\ c' = c /\ DOMAIN a.open = {}
    BY <1>2 DEF R!ReviewPasses, R!Nothing
  <2>2. LedgerFields(a') /\ DOMAIN a'.open = {} /\ a'.accepted = a.accepted
    BY <1>0, <2>1, ClearedLedger
  <2>3. LedgerInv' /\ OwedInv'
    BY <1>0, <2>1, <2>2, NothingIsFew DEF LedgerInv, OwedInv
  <2>4. WorkInv' /\ b'.state = "PR_READY" /\ b'.acceptance.reason \in {"none", "CARRIED_FORWARD"}
        /\ (b'.acceptance.reason = "none" => DOMAIN a.accepted = {})
    <3>1. CASE a.accepted = R!Nothing
      BY <1>0, <1>2, <3>1
      DEF R!ReviewPasses, WorkInv, WorkFields, R!NoAcceptance, R!Nothing
    <3>2. CASE a.accepted # R!Nothing
      BY <1>0, <1>2, <3>2 DEF R!ReviewPasses, WorkInv, WorkFields
    <3>3. QED  BY <3>1, <3>2
  <2>5. DeliveryInv'
    BY <2>2, <2>4 DEF DeliveryInv
  <2>6. QED  BY <2>3, <2>4, <2>5 DEF ReviewInv
<1>3. CASE R!PersonAccepts
  <2>1. a' = [a EXCEPT !.accepted = R!ToAccept] /\ c'.owed = {}
        /\ {"owed", "persons"} \subseteq DOMAIN c'
    BY <1>3 DEF R!PersonAccepts
  <2>2. LedgerFields(a') /\ a'.open = a.open /\ a'.accepted = R!ToAccept
    BY <1>0, <2>1 DEF LedgerFields
  <2>3. LedgerInv'
    BY <1>0, <2>2, AcceptanceTakesOpen DEF LedgerInv, FewOpen
  <2>4. WorkInv' /\ b'.state = "ACCEPTING" /\ b'.acceptance.reason = "OPERATOR"
    BY <1>0, <1>3 DEF R!PersonAccepts, WorkInv, WorkFields
  <2>5. OwedInv' /\ DeliveryInv'
    BY <2>1, <2>4 DEF OwedInv, DeliveryInv
  <2>6. QED  BY <2>3, <2>4, <2>5 DEF ReviewInv
<1>4. CASE R!AcceptanceSaved
  <2>1. (a' = R!ClearOpen(a) \/ a' = a) /\ c' = c
    BY <1>4 DEF R!AcceptanceSaved
  <2>2. LedgerInv'
    BY <1>0, <2>1, ClearedLedger, NothingIsFew DEF LedgerInv, FewOpen
  <2>3. c.owed = {} /\ b.acceptance.reason = "OPERATOR"
    BY <1>0, <1>4 DEF R!AcceptanceSaved, DeliveryInv
  <2>4. WorkInv' /\ b'.state = "PR_READY" /\ b'.acceptance = b.acceptance
    BY <1>0, <1>4 DEF R!AcceptanceSaved, WorkInv, WorkFields
  <2>5. OwedInv' /\ DeliveryInv'
    BY <1>0, <2>1, <2>3, <2>4 DEF OwedInv, DeliveryInv
  <2>6. QED  BY <2>2, <2>4, <2>5 DEF ReviewInv
<1>5. QED  BY <1>1, <1>2, <1>3, <1>4

LEMMA ReviewKept ==
  ASSUME ReviewInv, R!ReviewNext
  PROVE  ReviewInv'
<1>1. CASE \E report \in R!Reports : R!Review(report)
  BY <1>1, ReviewStep
<1>2. CASE R!AcceptFindings \/ R!ReviewPasses \/ R!PersonAccepts \/ R!AcceptanceSaved
  BY <1>2, AcceptanceSteps
<1>3. CASE \/ R!AttemptFails \/ R!BudgetExhausted \/ R!HaltOnImpasse \/ R!RepairAgain
           \/ R!Publish \/ R!CIPasses \/ R!CIFails \/ R!Escalate
  <2>1. WorkInv' /\ DeliveryInv' /\ UNCHANGED <<a, c>>
    BY <1>3, QuietSteps
  <2>2. LedgerInv' /\ OwedInv'
    BY <2>1 DEF ReviewInv, LedgerInv, LedgerFields, FewOpen, OwedInv
  <2>3. QED  BY <2>1, <2>2 DEF ReviewInv
<1>4. QED  BY <1>1, <1>2, <1>3 DEF R!ReviewNext

ReviewsInv == which = "review" => ReviewInv

LEMMA ReviewsStart == MCInit => ReviewsInv
<1>1. SUFFICES ASSUME R!ReviewInit PROVE ReviewInv
  BY DEF MCInit, ReviewsInv
<1>2. LedgerFields(a) /\ DOMAIN a.open = {} /\ DOMAIN a.accepted = {}
  BY <1>1 DEF R!ReviewInit, LedgerFields, R!Nothing
<1>3. LedgerInv
  BY <1>2, NothingIsFew, FS_EmptySet DEF LedgerInv
<1>4. WorkInv /\ b.state = "IMPLEMENTING"
  <2> DEFINE Begun(u, why) ==
               [unattended |-> u, state |-> "IMPLEMENTING", budget |-> "implementation",
                rounds |-> [x \in R!Budgets |-> 0], attempts |-> [x \in R!Budgets |-> 0],
                acceptance |-> R!NoAcceptance, impasse |-> "none", stored |-> FALSE,
                report |-> [none |-> TRUE, approved |-> FALSE, regressed |-> FALSE,
                            blocked |-> FALSE],
                seen |-> FALSE, look |-> FALSE, halted |-> why, published |-> FALSE]
            blank == ""
  <2>1. PICK u \in BOOLEAN : b = Begun(u, blank)
    BY <1>1, Zenon DEF R!ReviewInit
  <2> HIDE DEF blank
  <2>2. QED  BY <2>1 DEF Begun, WorkInv, WorkFields, R!NoAcceptance
<1>5. OwedInv
  BY <1>1 DEF R!ReviewInit, OwedInv
<1>6. QED  BY <1>3, <1>4, <1>5 DEF ReviewInv, DeliveryInv

LEMMA ReviewsGoOn ==
  ASSUME ReviewsInv, [MCNext]_mcvars
  PROVE  ReviewsInv'
<1>1. CASE Reviewing
  BY <1>1, ReviewKept DEF Reviewing, ReviewsInv
<1>2. CASE UNCHANGED mcvars
  BY <1>2 DEF ReviewsInv, ReviewInv, LedgerInv, LedgerFields, FewOpen, WorkInv, WorkFields,
              OwedInv, DeliveryInv, mcvars, shared
<1>3. CASE MCNext /\ ~Reviewing
  BY <1>3 DEF MCNext, Dispatching, Calling, Continuing, Checking, Scoping, Deciding, Routing,
              ReviewsInv
<1>4. QED  BY <1>1, <1>2, <1>3

\* An open finding of a blocked category is never delivered without a person's look: not one
\* reported late, beside a repair, under a place that was accepted, or before an escalation
\* (review_ledger.py, _review_authorizes_delivery of workflow.py).
THEOREM BlockedFindingsAreSeen == MCSpec => []SafetyFindingsNeedPerson
<1>1. ReviewsInv => SafetyFindingsNeedPerson
  BY DEF ReviewsInv, ReviewInv, DeliveryInv, SafetyFindingsNeedPerson, R!SafetyFindingsNeedPerson
<1>2. MCInit => ReviewsInv
  BY ReviewsStart
<1>3. ReviewsInv /\ [MCNext]_mcvars => ReviewsInv'
  BY ReviewsGoOn
<1>4. QED  BY <1>1, <1>2, <1>3, PTL DEF MCSpec

-----------------------------------------------------------------------------
\* THE SESSIONS OF PI.  What a file holds is what the sidecar says it was sent, as long as its
\* calls were recorded; so a continuation of what was sent makes it what is asked for.

\* Numbers below which a set has one have a least and a greatest one.
Less == OpToRel(<, Nat)

LEMMA LeastNumber ==
  ASSUME NEW s, s \subseteq Nat, s # {}
  PROVE  \E least \in s : \A n \in s : least <= n
<1>1. \A x, y \in Nat : <<x, y>> \in Less <=> x < y
  BY DEF Less, OpToRel
<1>2. IsWellFoundedOn(Less, Nat)
  BY NatLessThanWellFounded DEF Less
<1>3. PICK least \in s : \A n \in s : ~(<<n, least>> \in Less)
  BY <1>2, WFMin, Zenon
<1>4. ASSUME NEW n \in s PROVE least <= n
  <2>1. ~(<<n, least>> \in Less) /\ n \in Nat /\ least \in Nat
    BY <1>3, <1>4
  <2>2. ~(n < least)
    BY <1>1, <2>1
  <2>3. QED  BY <2>1, <2>2
<1>5. QED  BY <1>4

LEMMA GreatestNumber ==
  ASSUME NEW s, NEW top \in Nat, s \subseteq 1 .. top, s # {}
  PROVE  \E greatest \in s : \A n \in s : n <= greatest
<1> DEFINE mirrored == {m \in 1 .. top : (top + 1) - m \in s}
<1>1. \A n \in s : n \in 1 .. top /\ (top + 1) - n \in mirrored
  <2>1. TAKE n \in s
  <2>2. n \in 1 .. top
    OBVIOUS
  <2>3. (top + 1) - n \in 1 .. top /\ (top + 1) - ((top + 1) - n) = n
    BY <2>2
  <2>4. QED  BY <2>2, <2>3
<1>2. mirrored \subseteq Nat /\ mirrored # {}
  <2>1. PICK n \in s : TRUE
    OBVIOUS
  <2>2. (top + 1) - n \in mirrored
    BY <1>1, <2>1
  <2>3. mirrored \subseteq Nat
    OBVIOUS
  <2>4. QED  BY <2>2, <2>3
<1>3. PICK least \in mirrored : \A m \in mirrored : least <= m
  <2> HIDE DEF mirrored
  <2>1. QED  BY <1>2, LeastNumber
<1>4. (top + 1) - least \in s /\ least \in 1 .. top
  OBVIOUS
<1>5. ASSUME NEW n \in s PROVE n <= (top + 1) - least
  <2>1. least <= (top + 1) - n /\ n \in 1 .. top
    BY <1>1, <1>3
  <2>2. QED  BY <1>4, <2>1
<1>6. QED  BY <1>4, <1>5

\* The rounds of a list that say something of a title, and the last of them.
About(rounds, t) ==
  {k \in 1 .. Len(rounds) : \/ rounds[k].prompt.sections[t] # S!Gone
                            \/ t \in rounds[k].prompt.ends}
Last(s) == CHOOSE k \in s : \A j \in s : j <= k

LEMMA HoldsIsLast ==
  ASSUME NEW rounds
  PROVE  S!Holds(rounds) =
           [t \in Titles |-> IF About(rounds, t) = {} THEN S!Gone
                             ELSE rounds[Last(About(rounds, t))].prompt.sections[t]]
BY DEF S!Holds, About, Last

LEMMA LastIsIn ==
  ASSUME NEW rounds, NEW t, Len(rounds) \in Nat, About(rounds, t) # {}
  PROVE  /\ Last(About(rounds, t)) \in About(rounds, t)
         /\ \A k \in About(rounds, t) : k <= Last(About(rounds, t))
<1>1. About(rounds, t) \subseteq 1 .. Len(rounds)
  BY DEF About
<1>2. \E k \in About(rounds, t) : \A j \in About(rounds, t) : j <= k
  BY <1>1, GreatestNumber
<1>3. QED  BY <1>2 DEF Last

\* A round that is added replaces, or ends, what it says something of.
LEMMA HoldsOfAppend ==
  ASSUME NEW any, NEW rounds \in Seq(any), NEW r \in any
  PROVE  S!Holds(Append(rounds, r)) =
           [t \in Titles |->
              IF r.prompt.sections[t] # S!Gone \/ t \in r.prompt.ends
              THEN r.prompt.sections[t] ELSE S!Holds(rounds)[t]]
<1> DEFINE more == Append(rounds, r)
           n == Len(rounds)
<1>1. n \in Nat /\ Len(more) = n + 1 /\ more[n + 1] = r /\ \A k \in 1 .. n : more[k] = rounds[k]
  OBVIOUS
<1> HIDE DEF more, n
<1>2. ASSUME NEW t \in Titles, r.prompt.sections[t] # S!Gone \/ t \in r.prompt.ends
      PROVE  S!Holds(more)[t] = r.prompt.sections[t]
  <2>1. n + 1 \in About(more, t) /\ About(more, t) \subseteq 1 .. n + 1
    BY <1>1, <1>2 DEF About
  <2>2. Last(About(more, t)) \in About(more, t) /\ n + 1 <= Last(About(more, t))
    BY <1>1, <2>1, LastIsIn
  <2>3. Last(About(more, t)) = n + 1
    BY <1>1, <2>1, <2>2
  <2>4. QED  BY <1>1, <2>1, <2>3, HoldsIsLast
<1>3. ASSUME NEW t \in Titles, ~(r.prompt.sections[t] # S!Gone \/ t \in r.prompt.ends)
      PROVE  S!Holds(more)[t] = S!Holds(rounds)[t]
  <2>1. About(more, t) = About(rounds, t)
    BY <1>1, <1>3 DEF About, n
  <2>2. CASE About(rounds, t) = {}
    BY <2>1, <2>2, HoldsIsLast
  <2>3. CASE About(rounds, t) # {}
    <3>1. Last(About(rounds, t)) \in 1 .. n
      BY <1>1, <2>3, LastIsIn DEF About, n
    <3>2. QED  BY <1>1, <2>1, <3>1, HoldsIsLast
  <2>4. QED  BY <2>2, <2>3
<1>4. DOMAIN S!Holds(more) = Titles /\ S!Holds(more) = [t \in Titles |-> S!Holds(more)[t]]
  BY HoldsIsLast
<1>5. QED  BY <1>2, <1>3, <1>4 DEF more

\* What a file holds is in its prompts: an answer changes nothing.
LEMMA HoldsOfPrompts ==
  ASSUME NEW one, NEW two, Len(one) \in Nat, Len(two) = Len(one),
         \A k \in 1 .. Len(one) : one[k].prompt = two[k].prompt
  PROVE  S!Holds(two) = S!Holds(one)
<1>1. ASSUME NEW t \in Titles PROVE S!Holds(two)[t] = S!Holds(one)[t]
  <2>1. About(two, t) = About(one, t)
    BY DEF About
  <2>2. CASE About(one, t) = {}
    BY <2>1, <2>2, HoldsIsLast
  <2>3. CASE About(one, t) # {}
    <3>1. Last(About(one, t)) \in 1 .. Len(one)
      BY <2>3, LastIsIn DEF About
    <3>2. QED  BY <2>1, <3>1, HoldsIsLast
  <2>4. QED  BY <2>2, <2>3
<1>2. /\ S!Holds(one) = [t \in Titles |-> S!Holds(one)[t]]
      /\ S!Holds(two) = [t \in Titles |-> S!Holds(two)[t]]
  BY HoldsIsLast
<1>3. QED  BY <1>1, <1>2

Prompts == [whole : BOOLEAN, sections : S!Sections, ends : SUBSET Titles]
RoundSet == [prompt : Prompts, answered : BOOLEAN]

\* A number of a file is one of a call that was made; a file that is not there is empty.
FilesInv ==
  /\ DOMAIN a = S!Numbers
  /\ \A n \in S!Numbers : /\ {"there", "rounds", "written"} \subseteq DOMAIN a[n]
                          /\ a[n].there \in BOOLEAN
                          /\ a[n].rounds \in Seq(RoundSet)
                          /\ ~a[n].there => a[n].rounds = <<>>
                          /\ a[n].there => n <= f.calls
  /\ {"calls", "faults"} \subseteq DOMAIN f /\ f.calls \in Nat

CallFields ==
  {"step", "file", "settings", "continued", "request", "prompt", "ok", "counted"}

\* A call starts another file with the whole request, or continues the one of the sidecar with
\* what it lacks.
PreparedInv ==
  /\ c.prompt \in Prompts
  /\ \/ ~a[c.file].there /\ c.prompt.sections = c.request /\ c.prompt.ends = {}
     \/ /\ a[c.file].there /\ c.file = b.file /\ b.ok
        /\ c.prompt.sections = S!Changed(c.request, b.sent)
        /\ c.prompt.ends = S!Stale(c.request, b.sent)

\* Once it is sent, the file holds the request, unless a call on it was not recorded.
CallInv ==
  /\ CallFields \subseteq DOMAIN c
  /\ c.step # "none" => c.file \in S!Numbers /\ c.file <= f.calls /\ c.request \in S!Sections
  /\ c.step = "prepared" => PreparedInv
  /\ c.step \in {"asked", "answered"} => a[c.file].there
  /\ c.step \in {"asked", "answered"} \/ (c.step = "ended" /\ c.ok) =>
       (c.file \notin d => S!Holds(a[c.file].rounds) = c.request)

\* What the sidecar says of a file that no call is at.
SidecarInv ==
  /\ {"file", "settings", "ended", "ok", "sent"} \subseteq DOMAIN b
  /\ b.ok => b.file \in S!Numbers
  /\ b.ok /\ b.file \notin d /\ (c.step \in {"asked", "answered", "ended"} => c.file # b.file) =>
       (a[b.file].there => S!Holds(a[b.file].rounds) = b.sent)

SessionInv == FilesInv /\ CallInv /\ SidecarInv

\* There is a number for another file.
LEMMA NextNumberIsFree ==
  ASSUME FilesInv, f.calls < MaxTurns
  PROVE  /\ S!NextNumber \in S!Numbers /\ ~a[S!NextNumber].there
         /\ S!NextNumber <= f.calls + 1
<1> DEFINE free == {n \in S!Numbers : ~a[n].there}
           fits(n) == ~a[n].there /\ \A m \in 1 .. (n - 1) : a[m].there
<1>1. f.calls + 1 \in free
  BY WorkAssumption DEF FilesInv, S!Numbers
<1>2. PICK n \in free : \A m \in free : n <= m
  <2>1. free \subseteq Nat /\ free # {}
    BY <1>1, WorkAssumption DEF S!Numbers
  <2> HIDE DEF free
  <2>2. QED  BY <2>1, LeastNumber
<1>3. fits(n) /\ n \in S!Numbers
  <2>1. n \in 1 .. MaxTurns /\ ~a[n].there
    BY <1>2 DEF S!Numbers
  <2>2. ASSUME NEW m \in 1 .. (n - 1), ~a[m].there PROVE FALSE
    <3>1. m \in free /\ m < n
      BY <2>1, <2>2, WorkAssumption DEF S!Numbers
    <3>2. QED  BY <1>2, <3>1
  <2>3. QED  BY <2>1, <2>2 DEF S!Numbers
<1>4. S!NextNumber \in S!Numbers /\ fits(S!NextNumber)
  <2>1. S!NextNumber = CHOOSE x \in S!Numbers : fits(x)
    BY DEF S!NextNumber
  <2> HIDE DEF fits
  <2>2. QED  BY <1>3, <2>1
<1>5. S!NextNumber <= f.calls + 1
  <2>1. S!NextNumber \in 1 .. MaxTurns /\ f.calls \in Nat /\ MaxTurns \in Nat
    BY <1>4, WorkAssumption DEF S!Numbers, FilesInv
  <2>2. ASSUME f.calls + 1 < S!NextNumber PROVE FALSE
    <3>1. f.calls + 1 \in 1 .. (S!NextNumber - 1)
      BY <2>1, <2>2
    <3>2. a[f.calls + 1].there
      BY <1>4, <3>1
    <3>3. QED  BY <1>1, <3>2
  <2>3. QED  BY <2>1, <2>2
<1>6. QED  BY <1>4, <1>5

\* A round of what a session lacks makes it hold the request.
LEMMA ContinuationHolds ==
  ASSUME NEW rounds \in Seq(RoundSet), NEW r \in RoundSet, NEW request \in S!Sections, NEW sent,
         S!Holds(rounds) = sent,
         r.prompt.sections = S!Changed(request, sent), r.prompt.ends = S!Stale(request, sent)
  PROVE  S!Holds(Append(rounds, r)) = request
<1>1. S!Holds(Append(rounds, r)) =
        [t \in Titles |->
           IF r.prompt.sections[t] # S!Gone \/ t \in r.prompt.ends
           THEN r.prompt.sections[t] ELSE sent[t]]
  BY HoldsOfAppend
<1>2. ASSUME NEW t \in Titles
      PROVE  (IF r.prompt.sections[t] # S!Gone \/ t \in r.prompt.ends
              THEN r.prompt.sections[t] ELSE sent[t]) = request[t]
  BY DEF S!Changed, S!Stale
<1>3. request = [t \in Titles |-> request[t]]
  BY DEF S!Sections
<1>4. QED  BY <1>1, <1>2, <1>3

LEMMA WholePromptHolds ==
  ASSUME NEW r \in RoundSet, NEW request \in S!Sections,
         r.prompt.sections = request, r.prompt.ends = {}
  PROVE  S!Holds(Append(<<>>, r)) = request
<1> DEFINE empty == <<>>
<1>1. ASSUME NEW t \in Titles PROVE S!Holds(empty)[t] = S!Gone
  <2>1. About(empty, t) = {}
    BY DEF About
  <2>2. QED  BY <2>1, HoldsIsLast
<1>2. empty \in Seq(RoundSet)
  OBVIOUS
<1> HIDE DEF empty
<1>3. S!Holds(Append(empty, r)) =
        [t \in Titles |->
           IF r.prompt.sections[t] # S!Gone \/ t \in r.prompt.ends
           THEN r.prompt.sections[t] ELSE S!Holds(empty)[t]]
  BY <1>2, HoldsOfAppend
<1>4. request = [t \in Titles |-> request[t]]
  BY DEF S!Sections
<1>5. S!Holds(Append(empty, r)) = request
  BY <1>1, <1>3, <1>4
<1>6. QED  BY <1>5 DEF empty

LEMMA PrepareKept ==
  ASSUME SessionInv, S!Prepare
  PROVE  SessionInv'
<1>1. FilesInv /\ CallInv /\ SidecarInv /\ c.step = "none" /\ f.calls < MaxTurns
  BY DEF SessionInv, S!Prepare, S!At
<1>2. f' = [f EXCEPT !.calls = @ + 1] /\ UNCHANGED <<b, d, e>>
  BY DEF S!Prepare
<1>3. {"calls", "faults"} \subseteq DOMAIN f' /\ f'.calls = f.calls + 1 /\ f'.calls \in Nat
  BY <1>1, <1>2 DEF FilesInv
<1>4. PICK settings \in Settings, request \in S!Sections \ {S!Nothing} :
        \/ /\ S!Continues(settings, request)
           /\ c' = [S!NoCall EXCEPT !.step = "prepared", !.file = b.file,
                      !.settings = settings, !.continued = TRUE, !.request = request,
                      !.prompt = [whole |-> FALSE,
                                  sections |-> S!Changed(request, b.sent),
                                  ends |-> S!Stale(request, b.sent)]]
           /\ UNCHANGED a
        \/ /\ ~S!Continues(settings, request)
           /\ c' = [S!NoCall EXCEPT !.step = "prepared", !.file = S!NextNumber,
                      !.settings = settings, !.request = request,
                      !.prompt = [S!NoPrompt EXCEPT !.sections = request]]
           /\ a' = S!Pruned
  BY DEF S!Prepare
<1>5. CASE S!Continues(settings, request) /\ UNCHANGED a
           /\ c' = [S!NoCall EXCEPT !.step = "prepared", !.file = b.file,
                      !.settings = settings, !.continued = TRUE, !.request = request,
                      !.prompt = [whole |-> FALSE,
                                  sections |-> S!Changed(request, b.sent),
                                  ends |-> S!Stale(request, b.sent)]]
  <2>1. CallFields \subseteq DOMAIN c' /\ c'.step = "prepared" /\ c'.file = b.file
        /\ c'.request = request
        /\ c'.prompt = [whole |-> FALSE, sections |-> S!Changed(request, b.sent),
                        ends |-> S!Stale(request, b.sent)]
    BY <1>5 DEF CallFields, S!NoCall
  <2>2. b.ok /\ b.file \in S!Numbers /\ a[b.file].there
    BY <1>1, <1>5 DEF S!Continues, S!Reusable, SidecarInv
  <2>3. b.file <= f'.calls
    BY <1>1, <1>3, <2>2, WorkAssumption DEF FilesInv, S!Numbers
  <2>4. c'.prompt \in Prompts
    <3>1. S!Changed(request, b.sent) \in S!Sections
      BY DEF S!Changed, S!Sections
    <3>2. S!Stale(request, b.sent) \in SUBSET Titles
      BY DEF S!Stale
    <3>3. QED  BY <2>1, <3>1, <3>2 DEF Prompts
  <2>5. PreparedInv'
    BY <1>2, <1>5, <2>1, <2>2, <2>4 DEF PreparedInv
  <2>6. CallInv'
    BY <1>2, <1>5, <2>1, <2>2, <2>3, <2>5 DEF CallInv
  <2>7. FilesInv'
    BY <1>1, <1>3, <1>5, WorkAssumption DEF FilesInv, S!Numbers
  <2>8. SidecarInv'
    BY <1>1, <1>2, <1>5, <2>1 DEF SidecarInv
  <2>9. QED  BY <2>6, <2>7, <2>8 DEF SessionInv
<1>6. CASE a' = S!Pruned
           /\ c' = [S!NoCall EXCEPT !.step = "prepared", !.file = S!NextNumber,
                      !.settings = settings, !.request = request,
                      !.prompt = [S!NoPrompt EXCEPT !.sections = request]]
  <2>1. CallFields \subseteq DOMAIN c' /\ c'.step = "prepared" /\ c'.file = S!NextNumber
        /\ c'.request = request
        /\ c'.prompt = [whole |-> TRUE, sections |-> request, ends |-> {}]
    BY <1>6 DEF CallFields, S!NoCall, S!NoPrompt
  <2>2. S!NextNumber \in S!Numbers /\ ~a[S!NextNumber].there /\ S!NextNumber <= f'.calls
    BY <1>1, <1>3, NextNumberIsFree
  <2>3. \A n \in S!Numbers : a'[n] = a[n] \/ a'[n] = S!NoFile
    BY <1>6 DEF S!Pruned
  <2>4. FilesInv'
    <3>1. DOMAIN a' = S!Numbers
      BY <1>6 DEF S!Pruned
    <3>2. ASSUME NEW n \in S!Numbers
          PROVE  /\ {"there", "rounds", "written"} \subseteq DOMAIN a'[n]
                 /\ a'[n].there \in BOOLEAN
                 /\ a'[n].rounds \in Seq(RoundSet)
                 /\ ~a'[n].there => a'[n].rounds = <<>>
                 /\ a'[n].there => n <= f'.calls
      <4>1. CASE a'[n] = a[n]
        BY <1>1, <1>3, <4>1, WorkAssumption DEF FilesInv, S!Numbers
      <4>2. CASE a'[n] = S!NoFile
        BY <4>2 DEF S!NoFile
      <4>3. QED  BY <2>3, <4>1, <4>2
    <3>3. QED  BY <1>3, <3>1, <3>2 DEF FilesInv
  <2>5. PreparedInv'
    <3>1. ~a'[S!NextNumber].there
      BY <2>2, <2>3 DEF S!NoFile
    <3>2. c'.prompt \in Prompts
      BY <2>1 DEF Prompts
    <3>3. QED  BY <2>1, <3>1, <3>2 DEF PreparedInv
  <2>6. CallInv'
    BY <2>1, <2>2, <2>5 DEF CallInv
  <2>7. SidecarInv'
    <3>1. \A n \in S!Numbers : a'[n].there => a'[n] = a[n]
      BY <2>3 DEF S!NoFile
    <3>2. QED  BY <1>1, <1>2, <2>1, <3>1 DEF SidecarInv
  <2>8. QED  BY <2>4, <2>6, <2>7 DEF SessionInv
<1>7. QED  BY <1>4, <1>5, <1>6

\* Pi writes the prompt: what the file held is what the sidecar was sent, or nothing.
LEMMA AskedKept ==
  ASSUME SessionInv, S!Asked
  PROVE  SessionInv'
<1> DEFINE n == c.file
           r == [prompt |-> c.prompt, answered |-> FALSE]
           more == Append(a[n].rounds, r)
<1>1. FilesInv /\ CallInv /\ SidecarInv /\ c.step = "prepared" /\ PreparedInv
      /\ n \in S!Numbers /\ n <= f.calls /\ c.request \in S!Sections
  BY DEF SessionInv, S!Asked, S!At, CallInv
<1>2. /\ a' = [a EXCEPT ![n] = [there |-> TRUE, written |-> e, rounds |-> more]]
      /\ d' = (IF a[n].there THEN d ELSE d \ {n})
      /\ c' = [c EXCEPT !.step = "asked"]
      /\ UNCHANGED <<b, e, f>>
  BY DEF S!Asked, S!Rounds
<1>3. a[n].rounds \in Seq(RoundSet) /\ r \in RoundSet /\ more \in Seq(RoundSet)
  <2>1. a[n].rounds \in Seq(RoundSet)
    BY <1>1 DEF FilesInv
  <2>2. r \in RoundSet
    BY <1>1 DEF RoundSet, PreparedInv
  <2>3. QED  BY <2>1, <2>2
<1>4. n \notin d' => S!Holds(more) = c.request
  <2>1. CASE ~a[n].there /\ c.prompt.sections = c.request /\ c.prompt.ends = {}
    <3>1. a[n].rounds = <<>>
      BY <1>1, <2>1 DEF FilesInv
    <3>2. S!Holds(Append(<<>>, r)) = c.request
      BY <1>1, <1>3, <2>1, WholePromptHolds
    <3>3. QED  BY <3>1, <3>2
  <2>2. CASE /\ a[n].there /\ n = b.file /\ b.ok
             /\ c.prompt.sections = S!Changed(c.request, b.sent)
             /\ c.prompt.ends = S!Stale(c.request, b.sent)
    <3>1. n \notin d => S!Holds(a[n].rounds) = b.sent
      BY <1>1, <2>2 DEF SidecarInv
    <3>2. r.prompt = c.prompt
      OBVIOUS
    <3> HIDE DEF r, n
    <3>3. S!Holds(a[n].rounds) = b.sent => S!Holds(Append(a[n].rounds, r)) = c.request
      BY <1>1, <1>3, <2>2, <3>2, ContinuationHolds
    <3>4. QED  BY <1>2, <2>2, <3>1, <3>3
  <2>3. QED  BY <1>1, <2>1, <2>2 DEF PreparedInv
<1> HIDE DEF r, more, n
<1>5. /\ DOMAIN a' = S!Numbers
      /\ a'[n] = [there |-> TRUE, written |-> e, rounds |-> more]
      /\ \A m \in S!Numbers : m # n => a'[m] = a[m]
  BY <1>1, <1>2 DEF FilesInv
<1>6. FilesInv'
  BY <1>1, <1>2, <1>3, <1>5 DEF FilesInv
<1>7. CallFields \subseteq DOMAIN c' /\ c'.step = "asked" /\ c'.file = n /\ c'.request = c.request
  BY <1>1, <1>2 DEF CallInv, CallFields, n
<1>8. CallInv'
  BY <1>1, <1>2, <1>4, <1>5, <1>7 DEF CallInv
<1>9. SidecarInv'
  BY <1>1, <1>2, <1>5, <1>7 DEF SidecarInv
<1>10. QED  BY <1>6, <1>8, <1>9 DEF SessionInv

LEMMA AnsweredKept ==
  ASSUME SessionInv, S!Answered
  PROVE  SessionInv'
<1> DEFINE n == c.file
           rounds == a[n].rounds
           answered == [rounds EXCEPT ![Len(rounds)].answered = TRUE]
<1>1. FilesInv /\ CallInv /\ SidecarInv /\ c.step = "asked" /\ a[n].there
      /\ n \in S!Numbers /\ n <= f.calls /\ c.request \in S!Sections /\ rounds \in Seq(RoundSet)
  BY DEF SessionInv, S!Answered, S!At, CallInv, FilesInv
<1>2. /\ a' = [a EXCEPT ![n].rounds[Len(rounds)].answered = TRUE, ![n].written = e]
      /\ c' = [c EXCEPT !.step = "answered"] /\ UNCHANGED <<b, d, e, f>>
  BY DEF S!Answered, S!Rounds
<1>3. /\ DOMAIN a' = S!Numbers
      /\ \A m \in S!Numbers : m # n => a'[m] = a[m]
      /\ {"there", "rounds", "written"} \subseteq DOMAIN a'[n]
      /\ a'[n].there = a[n].there /\ a'[n].rounds = answered
  BY <1>1, <1>2 DEF FilesInv
<1>4. answered \in Seq(RoundSet) /\ S!Holds(answered) = S!Holds(rounds)
  <2> HIDE DEF rounds
  <2>1. Len(answered) = Len(rounds) /\ Len(rounds) \in Nat /\ answered \in Seq(RoundSet)
        /\ \A k \in 1 .. Len(rounds) : rounds[k].prompt = answered[k].prompt
    <3>1. Len(rounds) \in Nat /\ DOMAIN rounds = 1 .. Len(rounds)
          /\ \A k \in 1 .. Len(rounds) : rounds[k] \in RoundSet
      BY <1>1
    <3>2. \A k \in 1 .. Len(rounds) :
            answered[k] = IF k = Len(rounds) THEN [rounds[k] EXCEPT !.answered = TRUE] ELSE rounds[k]
      BY <3>1
    <3>3. \A q \in RoundSet : [q EXCEPT !.answered = TRUE] \in RoundSet
                             /\ [q EXCEPT !.answered = TRUE].prompt = q.prompt
      BY DEF RoundSet
    <3>4. DOMAIN answered = 1 .. Len(rounds)
          /\ answered = [k \in 1 .. Len(rounds) |-> answered[k]]
      BY <3>1
    <3> HIDE DEF answered
    <3>5. \A k \in 1 .. Len(rounds) : answered[k] \in RoundSet /\ rounds[k].prompt = answered[k].prompt
      BY <3>1, <3>2, <3>3
    <3>6. answered \in [1 .. Len(rounds) -> RoundSet]
      BY <3>4, <3>5
    <3>7. QED  BY <3>1, <3>4, <3>5, <3>6
  <2> HIDE DEF answered
  <2>2. QED  BY <2>1, HoldsOfPrompts
<1> HIDE DEF rounds, answered, n
<1>5. a[n].rounds = rounds
  BY DEF rounds
<1>6. FilesInv'
  BY <1>1, <1>2, <1>3, <1>4 DEF FilesInv
<1>7. CallFields \subseteq DOMAIN c' /\ c'.step = "answered" /\ c'.file = n /\ c'.request = c.request
      /\ c.file = n
  BY <1>1, <1>2 DEF CallInv, CallFields, n
<1>8. CallInv'
  <2>1. n \notin d => S!Holds(a'[n].rounds) = c.request
    <3>1. c.file \notin d => S!Holds(a[c.file].rounds) = c.request
      BY <1>1 DEF CallInv
    <3>2. c.file = n
      BY DEF n
    <3>3. QED  BY <1>3, <1>4, <1>5, <3>1, <3>2
  <2>2. QED  BY <1>1, <1>2, <1>3, <1>7, <2>1 DEF CallInv
<1>9. SidecarInv'
  BY <1>1, <1>2, <1>3, <1>7 DEF SidecarInv
<1>10. QED  BY <1>6, <1>8, <1>9 DEF SessionInv

\* The steps that leave the files alone.
LEMMA RecordsKept ==
  ASSUME SessionInv,
         \/ S!NotStarted \/ S!Settles \/ S!Fails \/ S!Record \/ S!LeavesNoRecord \/ S!Tick
  PROVE  SessionInv'
<1>0. FilesInv /\ CallInv /\ SidecarInv
  BY DEF SessionInv
<1>1. FilesInv' /\ a' = a
  <2>1. a' = a /\ f'.calls = f.calls /\ {"calls", "faults"} \subseteq DOMAIN f'
    BY <1>0 DEF FilesInv, S!NotStarted, S!Settles, S!Fails, S!Ends, S!Record, S!LeavesNoRecord,
                S!Fault, S!Tick
  <2>2. QED  BY <1>0, <2>1 DEF FilesInv
<1>2. CallFields \subseteq DOMAIN S!NoCall /\ S!NoCall.step = "none"
  BY DEF CallFields, S!NoCall
<1>3. CASE S!NotStarted
  <2>1. c' = S!NoCall /\ c.step = "prepared" /\ UNCHANGED <<b, d, f>>
    BY <1>3 DEF S!NotStarted, S!At
  <2>2. CallInv' /\ SidecarInv'
    BY <1>0, <1>1, <1>2, <2>1 DEF CallInv, SidecarInv
  <2>3. QED  BY <1>1, <2>2 DEF SessionInv
<1>4. CASE S!Settles \/ S!Fails
  <2>1. PICK ok, counted :
          /\ ok \in BOOLEAN /\ (ok => c.step = "answered")
          /\ c' = [c EXCEPT !.step = "ended", !.ok = ok, !.counted = counted]
    <3>1. CASE S!Settles
      BY <3>1, Zenon DEF S!Settles, S!Ends, S!At
    <3>2. CASE S!Fails
      BY <3>2, Zenon DEF S!Fails, S!Ends
    <3>3. QED  BY <1>4, <3>1, <3>2
  <2>2. c.step # "none" /\ UNCHANGED <<b, d, f>>
    BY <1>4 DEF S!Settles, S!Fails, S!Ends, S!At
  <2>3. CallFields \subseteq DOMAIN c' /\ c'.step = "ended" /\ c'.ok = ok /\ c'.file = c.file
        /\ c'.request = c.request
    BY <1>0, <2>1 DEF CallInv, CallFields
  <2>4. CallInv'
    BY <1>0, <1>1, <2>1, <2>2, <2>3 DEF CallInv
  <2>5. SidecarInv'
    BY <1>0, <1>1, <2>2, <2>3 DEF SidecarInv
  <2>6. QED  BY <1>1, <2>4, <2>5 DEF SessionInv
<1>5. CASE S!Record
  <2>1. b' = S!Recorded /\ c' = S!NoCall /\ c.step = "ended" /\ UNCHANGED <<d, f>>
    BY <1>5 DEF S!Record, S!At
  <2>2. {"file", "settings", "ended", "ok", "sent"} \subseteq DOMAIN b' /\ b'.file = c.file
        /\ b'.ok = c.ok /\ (c.ok => b'.sent = c.request)
    BY <2>1 DEF S!Recorded
  <2>3. c.file \in S!Numbers /\ (c.ok /\ c.file \notin d => S!Holds(a[c.file].rounds) = c.request)
    BY <1>0, <2>1 DEF CallInv
  <2>4. CallInv'
    BY <1>2, <2>1 DEF CallInv
  <2>5. SidecarInv'
    BY <1>1, <2>1, <2>2, <2>3 DEF SidecarInv
  <2>6. QED  BY <1>1, <2>4, <2>5 DEF SessionInv
<1>6. CASE S!LeavesNoRecord
  <2>1. d' = d \cup {c.file} /\ c' = S!NoCall /\ UNCHANGED b
    BY <1>6 DEF S!LeavesNoRecord
  <2>2. CallInv' /\ SidecarInv'
    BY <1>0, <1>1, <1>2, <2>1 DEF CallInv, SidecarInv
  <2>3. QED  BY <1>1, <2>2 DEF SessionInv
<1>7. CASE S!Tick
  <2>1. UNCHANGED <<a, b, c, d, f>>
    BY <1>7 DEF S!Tick
  <2>2. CallInv' /\ SidecarInv'
    BY <1>0, <2>1 DEF CallInv, PreparedInv, SidecarInv
  <2>3. QED  BY <1>1, <2>2 DEF SessionInv
<1>8. QED  BY <1>3, <1>4, <1>5, <1>6, <1>7

SessionsInv == which = "sessions" => SessionInv

LEMMA SessionsStart == MCInit => SessionsInv
<1>1. SUFFICES ASSUME S!PiInit PROVE SessionInv
  BY DEF MCInit, SessionsInv
<1>2. FilesInv
  <2>1. DOMAIN a = S!Numbers /\ \A n \in S!Numbers : a[n] = S!NoFile
    BY <1>1 DEF S!PiInit
  <2>2. f.calls = 0 /\ {"calls", "faults"} \subseteq DOMAIN f
    BY <1>1 DEF S!PiInit
  <2>3. /\ {"there", "rounds", "written"} \subseteq DOMAIN S!NoFile
        /\ S!NoFile.there = FALSE /\ S!NoFile.rounds = <<>> /\ <<>> \in Seq(RoundSet)
    BY DEF S!NoFile
  <2>4. ASSUME NEW n \in S!Numbers
        PROVE  /\ {"there", "rounds", "written"} \subseteq DOMAIN a[n]
               /\ a[n].there \in BOOLEAN
               /\ a[n].rounds \in Seq(RoundSet)
               /\ ~a[n].there => a[n].rounds = <<>>
               /\ a[n].there => n <= f.calls
    <3>1. a[n] = S!NoFile
      BY <2>1
    <3>2. QED  BY <2>3, <3>1, Zenon
  <2>5. f.calls \in Nat
    BY <2>2
  <2>6. QED  BY <2>1, <2>2, <2>4, <2>5, Zenon DEF FilesInv
<1>3. CallInv
  BY <1>1 DEF S!PiInit, CallInv, CallFields, S!NoCall
<1>4. SidecarInv
  BY <1>1 DEF S!PiInit, SidecarInv, S!NoSidecar
<1>5. QED  BY <1>2, <1>3, <1>4 DEF SessionInv

LEMMA SessionsGoOn ==
  ASSUME SessionsInv, [MCNext]_mcvars
  PROVE  SessionsInv'
<1>1. CASE Continuing
  <2>1. SessionInv /\ S!PiNext
    BY <1>1 DEF Continuing, SessionsInv
  <2>2. SessionInv'
    BY <2>1, PrepareKept, AskedKept, AnsweredKept, RecordsKept DEF S!PiNext
  <2>3. QED  BY <2>2 DEF SessionsInv
<1>2. CASE UNCHANGED mcvars
  BY <1>2 DEF SessionsInv, SessionInv, FilesInv, CallInv, PreparedInv, SidecarInv, mcvars, shared
<1>3. CASE MCNext /\ ~Continuing
  BY <1>3 DEF MCNext, Dispatching, Calling, Reviewing, Checking, Scoping, Deciding, Routing,
              SessionsInv
<1>4. QED  BY <1>1, <1>2, <1>3

\* Once a call has sent its prompt, the conversation holds the request and nothing else, though
\* a continued session is only sent what the sidecar says it lacks (build_continuation_prompt
\* of prompts.py, record and _prune_expired_files of pi_sessions.py).
THEOREM SessionsHoldTheRequest == MCSpec => []HoldsTheRequest
<1>1. SessionsInv => HoldsTheRequest
  BY DEF SessionsInv, SessionInv, CallInv, HoldsTheRequest, S!HoldsTheRequest, S!Rounds
<1>2. MCInit => SessionsInv
  BY SessionsStart
<1>3. SessionsInv /\ [MCNext]_mcvars => SessionsInv'
  BY SessionsGoOn
<1>4. QED  BY <1>1, <1>2, <1>3, PTL DEF MCSpec

-----------------------------------------------------------------------------
\* THE ROUTE AND THE MODELS.  A harder triage leaves fewer legal options, of which the lightest
\* is no lighter; and the attempts go up the tiers, no two of which have the same model.

\* In a finite set of numbers each rank is that of one of them.
RankIn(s, x) == Cardinality({y \in s : y < x})

LEMMA RankGrows ==
  ASSUME NEW s, s \subseteq Nat, IsFiniteSet(s), NEW x \in s
  PROVE  /\ RankIn(s, x) \in 0 .. Cardinality(s) - 1
         /\ \A y \in s : x < y => RankIn(s, x) < RankIn(s, y)
<1>1. \A y \in s : /\ IsFiniteSet({z \in s : z < y})
                   /\ Cardinality({z \in s : z < y}) \in Nat
  <2>1. TAKE y \in s
  <2>2. {z \in s : z < y} \in SUBSET s
    OBVIOUS
  <2>3. QED  BY <2>2, FS_Subset, FS_CardinalityType
<1>2. ASSUME NEW larger, IsFiniteSet(larger), {z \in s : z < x} \subseteq larger, x \in larger
      PROVE  RankIn(s, x) < Cardinality(larger)
  <2>1. {z \in s : z < x} \in SUBSET larger /\ {z \in s : z < x} # larger
    BY <1>2
  <2>2. Cardinality({z \in s : z < x}) <= Cardinality(larger)
    BY <1>2, <2>1, FS_Subset
  <2>3. Cardinality({z \in s : z < x}) # Cardinality(larger)
    BY <1>2, <2>1, FS_Subset
  <2>4. Cardinality(larger) \in Nat
    BY <1>2, FS_CardinalityType
  <2>5. QED  BY <1>1, <2>2, <2>3, <2>4 DEF RankIn
<1>3. RankIn(s, x) < Cardinality(s)
  <2>1. {z \in s : z < x} \subseteq s
    OBVIOUS
  <2>2. QED  BY <1>2, <2>1
<1>4. ASSUME NEW y \in s, x < y PROVE RankIn(s, x) < RankIn(s, y)
  <2>1. x \in {z \in s : z < y}
    BY <1>4
  <2>2. \A z \in s : z < x => z < y
    BY <1>4
  <2>3. {z \in s : z < x} \subseteq {z \in s : z < y}
    BY <2>2
  <2>4. QED  BY <1>1, <1>2, <2>1, <2>3 DEF RankIn
<1>5. Cardinality(s) \in Nat
  BY FS_CardinalityType
<1>6. QED  BY <1>1, <1>3, <1>4, <1>5 DEF RankIn

LEMMA RankIsTaken ==
  ASSUME NEW s, s \subseteq Nat, IsFiniteSet(s), NEW r \in 0 .. Cardinality(s) - 1
  PROVE  \E x \in s : RankIn(s, x) = r
<1> DEFINE ranks == 0 .. Cardinality(s) - 1
           rankOf == [x \in s |-> RankIn(s, x)]
<1>1. Cardinality(s) \in Nat
  BY FS_CardinalityType
<1>2. IsFiniteSet(ranks) /\ Cardinality(ranks) = Cardinality(s)
  <2>1. 0 \in Int /\ Cardinality(s) - 1 \in Int
    BY <1>1
  <2>2. IsFiniteSet(ranks)
        /\ Cardinality(ranks) = IF 0 > Cardinality(s) - 1 THEN 0 ELSE Cardinality(s) - 1 - 0 + 1
    BY <2>1, FS_Interval
  <2>3. QED  BY <1>1, <2>2
<1>3. rankOf \in [s -> ranks]
  BY RankGrows
<1>4. \A x, y \in s : rankOf[x] = rankOf[y] => x = y
  <2>1. SUFFICES ASSUME NEW x \in s, NEW y \in s, rankOf[x] = rankOf[y] PROVE x = y
    OBVIOUS
  <2>2. RankIn(s, x) = RankIn(s, y)
    BY <2>1
  <2>3. ~(x < y) /\ ~(y < x)
    <3>1. RankIn(s, x) \in 0 .. Cardinality(s) - 1 /\ (x < y => RankIn(s, x) < RankIn(s, y))
      BY RankGrows, Zenon
    <3>2. y < x => RankIn(s, y) < RankIn(s, x)
      BY RankGrows, Zenon
    <3>3. QED  BY <2>2, <3>1, <3>2
  <2>4. x \in Nat /\ y \in Nat
    OBVIOUS
  <2>5. QED  BY <2>3, <2>4
<1>5. rankOf \in Injection(s, ranks)
  <2>1. DOMAIN rankOf = s
    OBVIOUS
  <2> HIDE DEF ranks, rankOf
  <2>2. QED  BY <1>3, <1>4, <2>1, Zenon DEF Injection, IsInjective
<1>6. rankOf \in Surjection(s, ranks)
  BY <1>2, <1>5, FS_Injection
<1>7. QED  BY <1>6 DEF Surjection

\* The share of a model is over after as many attempts.
LEMMA Shares ==
  ASSUME NEW share \in Nat \ {0}, NEW n \in Nat
  PROVE  /\ n \div share \in Nat
         /\ \A m \in Nat : n <= m => n \div share <= m \div share
         /\ (n + 1) \div share # n \div share
              => share <= n + 1 /\ (n + 1 - share) \div share = n \div share
<1>1. n \div share \in Nat
  OBVIOUS
<1>2. ASSUME NEW m \in Nat, n <= m PROVE n \div share <= m \div share
  BY <1>2
<1>3. ASSUME (n + 1) \div share # n \div share
      PROVE  share <= n + 1 /\ (n + 1 - share) \div share = n \div share
  BY <1>3
<1>4. QED  BY <1>1, <1>2, <1>3

Names == {"single", "critique", "full", "manual_triage"}
Models == UNION {{workers[l] : l \in Levels} \ {"none"} : workers \in WorkerMaps}

\* What the run configures and the triage says, and what the route and the attempts are.
RouteInv ==
  /\ {"enabled", "options", "approves", "workers"} \subseteq DOMAIN a
  /\ \A o \in T!Range(a.options) : o.route \in Names /\ o.complexity \in Int /\ o.risk \in Int
  /\ a.workers \in [Levels -> Models]
  /\ {"complexity", "risk"} \subseteq DOMAIN c /\ c.complexity \in Levels /\ c.risk \in Levels
  /\ d \in Names \cup {"none"} /\ (d # "none" => d = T!RouteFor(c))
  /\ e \in Seq(Models)
  /\ \A k \in 1 .. Len(e) : e[k] = T!ModelForImplementer(T!RoutingAttempt(k))

LEMMA WeightsOfNames ==
  /\ \A r \in Names : T!Weights[r] \in 0 .. 3
  /\ T!Weights["manual_triage"] = 3
BY DEF Names, T!Weights

\* Of some options one is the lightest.
LEMMA LightestExists ==
  ASSUME NEW legal, legal # {}, \A o \in legal : o.route \in Names
  PROVE  \E o \in legal : /\ T!Lightest(legal) = o.route
                          /\ \A other \in legal : T!Weights[o.route] <= T!Weights[other.route]
<1> DEFINE weights == {T!Weights[o.route] : o \in legal}
<1>1. weights \subseteq Nat /\ weights # {}
  BY WeightsOfNames
<1>2. PICK least \in weights : \A n \in weights : least <= n
  BY <1>1, LeastNumber
<1>3. PICK o \in legal : T!Weights[o.route] = least
  OBVIOUS
<1>4. \A other \in legal : T!Weights[o.route] <= T!Weights[other.route]
  BY <1>2, <1>3
<1> DEFINE Lighter(o1) == \A other \in legal : T!Weights[o1.route] <= T!Weights[other.route]
           chosen == CHOOSE o1 \in legal : Lighter(o1)
<1>5. chosen \in legal /\ Lighter(chosen)
  BY <1>4, Zenon
<1>6. T!Lightest(legal) = chosen.route
  BY Zenon DEF T!Lightest
<1>7. QED  BY <1>5, <1>6, Zenon

\* A route that a harder triage leaves legal was legal.
LEMMA LegalShrinks ==
  ASSUME RouteInv, NEW t \in T!Triages, T!NoEasier(t, c),
         NEW o \in T!Range(a.options), T!IsLegal(o, t), RouteAssumption
  PROVE  T!IsLegal(o, c)
<1>1. /\ o.complexity \in Int /\ o.risk \in Int
      /\ t.complexity \in Nat /\ t.risk \in Nat /\ c.complexity \in Nat /\ c.risk \in Nat
      /\ t.complexity >= c.complexity /\ t.risk >= c.risk
  BY DEF RouteInv, T!Triages, T!NoEasier, RouteAssumption
<1>2. T!FitsTriage(o, t) => T!FitsTriage(o, c)
  BY <1>1 DEF T!FitsTriage, T!Reaches
<1>3. ~T!NeedsApproval(t.risk) => ~T!NeedsApproval(c.risk)
  BY DEF T!NoEasier
<1>4. QED  BY <1>2, <1>3, Zenon DEF T!IsLegal

LEMMA RouteOf ==
  ASSUME RouteInv, NEW t
  PROVE  T!RouteFor(t) \in Names
<1> DEFINE options == T!Range(a.options)
           legal == {o \in options : T!IsLegal(o, t)}
<1>1. T!FullFallback(options) \in Names
  BY DEF T!FullFallback, Names
<1>2. legal # {} => T!Lightest(legal) \in Names
  <2>1. \A o \in legal : o.route \in Names
    BY DEF RouteInv
  <2> HIDE DEF legal
  <2>2. QED  BY <2>1, LightestExists
<1>3. "manual_triage" \in Names
  BY DEF Names
<1>4. QED  BY <1>1, <1>2, <1>3, Zenon DEF T!RouteFor

LEMMA HarderIsNoLighter ==
  ASSUME RouteInv, RouteAssumption
  PROVE  T!HarderIsNeverLighter
<1>1. SUFFICES ASSUME d # "none", NEW t \in T!Triages, T!NoEasier(t, c)
               PROVE  T!Weights[T!RouteFor(t)] >= T!Weights[d]
  BY DEF T!HarderIsNeverLighter
<1> DEFINE options == T!Range(a.options)
           LegalTo(x) == {o \in options : T!IsLegal(o, x)}
<1>2. d = T!RouteFor(c) /\ T!Weights[d] \in 0 .. 3 /\ T!Weights[T!RouteFor(t)] \in 0 .. 3
  BY <1>1, RouteOf, WeightsOfNames DEF RouteInv
<1>3. LegalTo(t) \subseteq LegalTo(c)
  BY <1>1, LegalShrinks
<1>4. \A x : \A o \in LegalTo(x) : o.route \in Names
  BY DEF RouteInv
<1>5. CASE ~a.enabled
  <2>1. T!RouteFor(t) = T!RouteFor(c)
    BY <1>5 DEF T!RouteFor
  <2>2. QED  BY <1>2, <2>1
<1>6. CASE a.enabled /\ LegalTo(t) = {}
  <2>1. T!RouteFor(t) = "manual_triage"
    BY <1>6, Zenon DEF T!RouteFor
  <2>2. QED  BY <1>2, <2>1, WeightsOfNames
<1>7. CASE a.enabled /\ LegalTo(t) # {}
  <2>1. T!RouteFor(t) = T!Lightest(LegalTo(t)) /\ T!RouteFor(c) = T!Lightest(LegalTo(c))
    <3>1. LegalTo(c) # {}
      BY <1>3, <1>7, Zenon
    <3>2. QED  BY <1>7, <3>1, Zenon DEF T!RouteFor
  <2> HIDE DEF LegalTo
  <2>2. PICK o \in LegalTo(t) : T!Lightest(LegalTo(t)) = o.route
    BY <1>4, <1>7, LightestExists
  <2>3. PICK o1 \in LegalTo(c) :
          /\ T!Lightest(LegalTo(c)) = o1.route
          /\ \A other \in LegalTo(c) : T!Weights[o1.route] <= T!Weights[other.route]
    BY <1>3, <1>4, <1>7, LightestExists
  <2>4. T!Weights[o1.route] <= T!Weights[o.route]
    BY <1>3, <2>2, <2>3
  <2>5. QED  BY <1>2, <2>1, <2>2, <2>3, <2>4
<1>8. QED  BY <1>5, <1>6, <1>7, Zenon

\* The tier of an attempt: each has its share of the configured attempts, and the last one the
\* rest and what a person grants.
Tier(k) ==
  LET configured == IF k <= Total THEN k ELSE Total
      due == (configured - 1) \div SameModel + 1
  IN  IF due <= Cardinality(T!Tiers) THEN due ELSE Cardinality(T!Tiers)

LEMMA MinOfTwo ==
  ASSUME NEW x \in Int, NEW y \in Int
  PROVE  T!Min({x, y}) = IF x <= y THEN x ELSE y
<1> DEFINE IsLeast(z) == \A other \in {x, y} : z =< other
           least == CHOOSE z \in {x, y} : IsLeast(z)
<1>1. T!Min({x, y}) = least
  BY Zenon DEF T!Min
<1>2. \E z \in {x, y} : IsLeast(z)
  OBVIOUS
<1>3. least \in {x, y} /\ IsLeast(least)
  BY <1>2, Zenon
<1> HIDE DEF least
<1>4. QED  BY <1>1, <1>3

LEMMA TiersThere ==
  ASSUME RouteInv, RouteAssumption
  PROVE  /\ T!Tiers \subseteq Nat /\ T!Tiers \subseteq Levels
         /\ IsFiniteSet(T!Tiers) /\ Cardinality(T!Tiers) \in Nat \ {0}
         /\ \A x, y \in T!Tiers : x # y => a.workers[x] # a.workers[y]
<1>1. T!Tiers \in SUBSET Levels
  BY DEF T!Tiers
<1>2. T!Tiers \subseteq Nat /\ T!Tiers \subseteq Levels /\ IsFiniteSet(T!Tiers)
  BY <1>1, FS_Subset DEF RouteAssumption
<1>3. c.complexity \in T!Tiers
  <2>1. c.complexity \in Levels /\ Levels \subseteq Nat
    BY DEF RouteInv, RouteAssumption
  <2>2. c.complexity <= c.complexity
        /\ \A lower \in Levels : ~(c.complexity <= lower /\ lower < c.complexity)
    <3>1. c.complexity \in Nat /\ \A lower \in Levels : lower \in Nat
      BY <2>1
    <3> DEFINE lowest == c.complexity
    <3>2. lowest \in Nat
      BY <3>1
    <3> HIDE DEF lowest
    <3>3. lowest <= lowest /\ \A lower \in Levels : ~(lowest <= lower /\ lower < lowest)
      BY <3>1, <3>2
    <3>4. QED  BY <3>3, Zenon DEF lowest
  <2>3. QED  BY <2>1, <2>2, Zenon DEF T!Tiers
<1>4. Cardinality(T!Tiers) \in Nat \ {0}
  BY <1>2, <1>3, FS_CardinalityType, FS_EmptySet
<1>5. \A x, y \in T!Tiers : x # y => a.workers[x] # a.workers[y]
  <2>1. ASSUME NEW x \in T!Tiers, NEW y \in T!Tiers, x < y
        PROVE  a.workers[x] # a.workers[y]
    BY <1>1, <2>1 DEF T!Tiers
  <2>2. \A x, y \in T!Tiers : x # y => x < y \/ y < x
    BY <1>2
  <2>3. QED  BY <2>1, <2>2, Zenon
<1>6. QED  BY <1>2, <1>4, <1>5

\* The models of the tiers are of different workers.
LEMMA ModelsDiffer ==
  ASSUME RouteInv, RouteAssumption
  PROVE  /\ \A k \in 1 .. Cardinality(T!Tiers) : T!DistinctModels[k] \in Models
         /\ \A k, j \in 1 .. Cardinality(T!Tiers) :
              T!DistinctModels[k] = T!DistinctModels[j] => k = j
<1> DEFINE Has(x, k) == T!TiersBelow(x) = k - 1
           Of(k) == CHOOSE x \in T!Tiers : Has(x, k)
<1>1. \A x \in T!Tiers : T!TiersBelow(x) = RankIn(T!Tiers, x)
  <2>1. \A s : T!Cardinality(s) = Cardinality(s)
    BY Zenon DEF T!Cardinality, Cardinality
  <2>2. QED  BY <2>1, Zenon DEF T!TiersBelow, RankIn
<1>2. ASSUME NEW k \in 1 .. Cardinality(T!Tiers)
      PROVE  Of(k) \in T!Tiers /\ Has(Of(k), k)
  <2>1. k - 1 \in 0 .. Cardinality(T!Tiers) - 1
    BY TiersThere
  <2>2. \E x \in T!Tiers : RankIn(T!Tiers, x) = k - 1
    BY <2>1, TiersThere, RankIsTaken
  <2>3. \E x \in T!Tiers : Has(x, k)
    BY <1>1, <2>2, Zenon
  <2>4. QED  BY <2>3, Zenon
<1>3. \A k \in 1 .. Cardinality(T!Tiers) : T!DistinctModels[k] = a.workers[Of(k)]
  <2>1. \A s : T!Cardinality(s) = Cardinality(s)
    BY Zenon DEF T!Cardinality, Cardinality
  <2>2. T!DistinctModels = [k \in 1 .. Cardinality(T!Tiers) |-> a.workers[Of(k)]]
    BY <2>1, Zenon DEF T!DistinctModels
  <2> HIDE DEF Of
  <2>3. QED  BY <2>2
<1> HIDE DEF Of
<1>4. ASSUME NEW k \in 1 .. Cardinality(T!Tiers)
      PROVE  T!DistinctModels[k] \in Models
  <2>1. Of(k) \in Levels
    BY <1>2, TiersThere
  <2>2. a.workers[Of(k)] \in Models
    BY <2>1 DEF RouteInv
  <2>3. QED  BY <1>3, <2>2
<1>5. ASSUME NEW k \in 1 .. Cardinality(T!Tiers), NEW j \in 1 .. Cardinality(T!Tiers),
             T!DistinctModels[k] = T!DistinctModels[j]
      PROVE  k = j
  <2>1. Of(k) = Of(j)
    BY <1>2, <1>3, <1>5, TiersThere
  <2>2. k - 1 = j - 1
    BY <1>2, <2>1
  <2>3. QED  BY <2>2
<1>6. QED  BY <1>4, <1>5

\* An attempt is on the model of its tier, and the tiers go up: not before the share of the
\* one below is over.
LEMMA ModelOfTier ==
  ASSUME RouteInv, RouteAssumption, NEW k \in Nat \ {0}
  PROVE  /\ Tier(k) \in 1 .. Cardinality(T!Tiers)
         /\ T!ModelForImplementer(T!RoutingAttempt(k)) = T!DistinctModels[Tier(k)]
<1> DEFINE configured == IF k <= Total THEN k ELSE Total
           due == (configured - 1) \div SameModel + 1
           tiers == Cardinality(T!Tiers)
<1>1. Total \in Nat \ {0} /\ SameModel \in Nat \ {0} /\ tiers \in Nat \ {0}
  BY TiersThere DEF RouteAssumption
<1>2. configured \in Nat \ {0} /\ configured <= Total
  BY <1>1
<1>3. due \in Nat \ {0}
  <2>1. configured - 1 \in Nat
    BY <1>2
  <2>2. (configured - 1) \div SameModel \in Nat
    BY <1>1, <2>1, Shares
  <2>3. QED  BY <2>2
<1>4. T!RoutingAttempt(k) = configured
  BY <1>1, MinOfTwo DEF T!RoutingAttempt
<1>5. T!Min({due, tiers}) = IF due <= tiers THEN due ELSE tiers
  BY <1>1, <1>3, MinOfTwo
<1>6. Tier(k) = IF due <= tiers THEN due ELSE tiers
  BY Zenon DEF Tier
<1>7. T!ModelForImplementer(configured) = T!DistinctModels[T!Min({due, tiers})]
  <2>1. T!Cardinality(T!Tiers) = tiers
    BY Zenon DEF T!Cardinality, Cardinality
  <2>2. ~(configured > Total)
    BY <1>1, <1>2
  <2> HIDE DEF configured
  <2>3. QED  BY <2>1, <2>2, Zenon DEF T!ModelForImplementer
<1> HIDE DEF due, tiers, configured
<1>8. Tier(k) \in 1 .. tiers
  BY <1>1, <1>3, <1>6
<1>9. QED  BY <1>4, <1>5, <1>6, <1>7, <1>8 DEF tiers

LEMMA TiersGoUp ==
  ASSUME RouteInv, RouteAssumption, NEW k \in Nat \ {0}
  PROVE  /\ \A j \in Nat \ {0} : k <= j => Tier(k) <= Tier(j)
         /\ Tier(k + 1) # Tier(k)
              => k + 1 > SameModel /\ Tier(k + 1 - SameModel) = Tier(k)
<1> DEFINE Configured(j) == IF j <= Total THEN j ELSE Total
           Due(j) == (Configured(j) - 1) \div SameModel
           tiers == Cardinality(T!Tiers)
<1>1. Total \in Nat \ {0} /\ SameModel \in Nat \ {0} /\ tiers \in Nat \ {0}
  BY TiersThere DEF RouteAssumption
<1>2. \A j : Tier(j) = IF Due(j) + 1 <= tiers THEN Due(j) + 1 ELSE tiers
  BY Zenon DEF Tier
<1>3. \A j \in Nat \ {0} : Configured(j) - 1 \in Nat /\ Due(j) \in Nat
  <2>1. TAKE j \in Nat \ {0}
  <2>2. Configured(j) - 1 \in Nat
    BY <1>1
  <2> HIDE DEF Configured
  <2>3. QED  BY <1>1, <2>2, Shares
<1>4. ASSUME NEW j \in Nat \ {0}, k <= j PROVE Tier(k) <= Tier(j)
  <2>1. Configured(k) - 1 <= Configured(j) - 1
    BY <1>1, <1>4
  <2>2. Configured(k) - 1 \in Nat /\ Configured(j) - 1 \in Nat
    BY <1>3
  <2> HIDE DEF Configured
  <2>3. Due(k) <= Due(j)
    BY <1>1, <2>1, <2>2, Shares
  <2>4. Due(k) \in Nat /\ Due(j) \in Nat
    BY <1>3
  <2> HIDE DEF Due, tiers
  <2>5. QED  BY <1>1, <1>2, <2>3, <2>4
<1>5. ASSUME Tier(k + 1) # Tier(k)
      PROVE  k + 1 > SameModel /\ Tier(k + 1 - SameModel) = Tier(k)
  <2>1. Due(k + 1) # Due(k)
    BY <1>2, <1>5, Zenon
  <2>2. k + 1 <= Total
    <3>1. SUFFICES ASSUME k >= Total PROVE Configured(k + 1) = Configured(k)
      BY <1>1, <2>1
    <3>2. QED  BY <1>1, <3>1
  <2>3. Due(k + 1) = k \div SameModel /\ Due(k) = (k - 1) \div SameModel
    <3>1. Configured(k + 1) = k + 1 /\ Configured(k) = k
      BY <1>1, <2>2
    <3>2. k + 1 - 1 = k
      OBVIOUS
    <3> HIDE DEF Configured
    <3>3. QED  BY <3>1, <3>2
  <2>4. SameModel <= k /\ (k - SameModel) \div SameModel = (k - 1) \div SameModel
    <3>1. k - 1 \in Nat /\ (k - 1) + 1 = k
      OBVIOUS
    <3>2. ((k - 1) + 1) \div SameModel # (k - 1) \div SameModel
      BY <2>1, <2>3, <3>1
    <3>3. SameModel <= (k - 1) + 1
          /\ ((k - 1) + 1 - SameModel) \div SameModel = (k - 1) \div SameModel
      BY <1>1, <3>1, <3>2, Shares
    <3>4. QED  BY <3>1, <3>3
  <2>5. Due(k + 1 - SameModel) = (k - SameModel) \div SameModel
    <3>1. Configured(k + 1 - SameModel) = k + 1 - SameModel
      BY <1>1, <2>2
    <3>2. k + 1 - SameModel - 1 = k - SameModel
      BY <1>1
    <3> HIDE DEF Configured
    <3>3. QED  BY <3>1, <3>2
  <2>6. Due(k + 1 - SameModel) = Due(k)
    BY <2>3, <2>4, <2>5, Zenon
  <2>7. Tier(k + 1 - SameModel) = Tier(k)
    <3> HIDE DEF Due, tiers
    <3>1. QED  BY <1>2, <2>6
  <2>8. QED  BY <1>1, <2>4, <2>7
<1>6. QED  BY <1>4, <1>5

LEMMA AttemptsDoClimb ==
  ASSUME RouteInv, RouteAssumption
  PROVE  T!AttemptsClimb
<1>1. Len(e) \in Nat /\ DOMAIN e = 1 .. Len(e) /\ SameModel \in Nat \ {0}
  BY DEF RouteInv, RouteAssumption
<1>2. \A k \in DOMAIN e : /\ k \in Nat \ {0} /\ Tier(k) \in 1 .. Cardinality(T!Tiers)
                          /\ e[k] = T!DistinctModels[Tier(k)]
  <2>1. TAKE k \in DOMAIN e
  <2>2. k \in Nat \ {0} /\ k \in 1 .. Len(e)
    BY <1>1
  <2>3. e[k] = T!ModelForImplementer(T!RoutingAttempt(k))
    BY <2>2 DEF RouteInv
  <2>4. QED  BY <2>2, <2>3, ModelOfTier
<1>3. \A k, j \in DOMAIN e : e[k] = e[j] <=> Tier(k) = Tier(j)
  BY <1>2, ModelsDiffer
<1>4. \A k \in DOMAIN e : e[k] # "none"
  <2>1. \A k \in DOMAIN e : e[k] \in Models
    BY <1>2, ModelsDiffer
  <2>2. QED  BY <2>1 DEF Models
<1>5. \A k, j, l \in DOMAIN e : k < j /\ j < l /\ e[k] = e[l] => e[j] = e[l]
  <2>1. SUFFICES ASSUME NEW k \in DOMAIN e, NEW j \in DOMAIN e, NEW l \in DOMAIN e,
                        k < j, j < l, e[k] = e[l]
                 PROVE  e[j] = e[l]
    BY Zenon
  <2>2. Tier(k) = Tier(l)
    BY <1>3, <2>1
  <2>3. k \in Nat \ {0} /\ j \in Nat \ {0} /\ l \in Nat \ {0}
        /\ Tier(k) \in Int /\ Tier(j) \in Int /\ Tier(l) \in Int
    BY <1>2
  <2>4. k <= j /\ j <= l
    BY <2>1, <2>3
  <2>5. Tier(k) <= Tier(j) /\ Tier(j) <= Tier(l)
    BY <2>3, <2>4, TiersGoUp
  <2>6. Tier(j) = Tier(l)
    BY <2>2, <2>3, <2>5
  <2>7. QED  BY <1>3, <2>6
<1>6. ASSUME NEW k \in DOMAIN e, k > 1, e[k] # e[k - 1]
      PROVE  k > SameModel /\ e[k - 1] = e[k - SameModel]
  <2>1. k - 1 \in DOMAIN e /\ k - 1 \in Nat \ {0} /\ (k - 1) + 1 = k
    BY <1>1, <1>6
  <2>2. Tier((k - 1) + 1) # Tier(k - 1)
    BY <1>3, <1>6, <2>1
  <2>3. k > SameModel /\ Tier(k - SameModel) = Tier(k - 1)
    BY <2>1, <2>2, TiersGoUp
  <2>4. k - SameModel \in DOMAIN e
    BY <1>1, <2>3
  <2>5. QED  BY <1>3, <2>1, <2>3, <2>4
<1>7. QED  BY <1>4, <1>5, <1>6, Zenon DEF T!AttemptsClimb

RoutingInv == which = "route" => RouteInv

LEMMA OptionsAreKnown ==
  ASSUME RouteAssumption, NEW options \in OptionLists, NEW o \in T!Range(options)
  PROVE  o.route \in Names /\ o.complexity \in Int /\ o.risk \in Int
<1>1. PICK k \in DOMAIN options : o = options[k]
  BY DEF T!Range
<1>2. /\ o.route \in {"single", "critique", "full", "manual_triage"}
      /\ o.complexity \in Levels \cup {-1} /\ o.risk \in Levels \cup {-1}
  BY <1>1, Zenon DEF RouteAssumption
<1>3. Levels \subseteq Int /\ -1 \in Int
  BY DEF RouteAssumption
<1>4. QED  BY <1>2, <1>3 DEF Names

LEMMA RoutesStart ==
  ASSUME MCInit, RouteAssumption PROVE RoutingInv
<1>1. SUFFICES ASSUME which = "route" PROVE RouteInv
  BY DEF RoutingInv
<1>2. T!RouteInit
  BY <1>1 DEF MCInit
<1>3. PICK options \in OptionLists, workers \in WorkerMaps,
           approves \in SUBSET Levels, enabled \in BOOLEAN :
        a = [enabled |-> enabled, options |-> options, workers |-> workers,
             approves |-> approves]
  BY <1>2, Zenon DEF T!RouteInit
<1>5. {"enabled", "options", "approves", "workers"} \subseteq DOMAIN a
      /\ a.options = options /\ a.workers = workers
  BY <1>3
<1>6. \A o \in T!Range(a.options) : o.route \in Names /\ o.complexity \in Int /\ o.risk \in Int
  BY <1>5, OptionsAreKnown
<1>7. a.workers \in [Levels -> Models]
  <2>1. workers \in [Levels -> {workers[l] : l \in Levels} \ {"none"}]
    BY DEF RouteAssumption
  <2> DEFINE of(w) == {w[l] : l \in Levels} \ {"none"}
  <2>2. of(workers) \subseteq UNION {of(w) : w \in WorkerMaps}
    OBVIOUS
  <2>3. of(workers) \subseteq Models
    BY <2>2 DEF Models
  <2> HIDE DEF Models
  <2>4. QED  BY <1>5, <2>1, <2>3
<1>9. /\ {"complexity", "risk"} \subseteq DOMAIN c /\ c.complexity \in Levels /\ c.risk \in Levels
      /\ d = "none" /\ e = <<>>
  BY <1>2 DEF T!RouteInit, T!Triages
<1>10. d \in Names \cup {"none"}
  BY <1>9
<1>11. e \in Seq(Models) /\ \A k \in 1 .. Len(e) : FALSE
  BY <1>9
<1>12. QED  BY <1>5, <1>6, <1>7, <1>9, <1>10, <1>11, Zenon DEF RouteInv

\* The models are those of the tiers, whatever they are.
ModelsOf(tiers, workers) ==
  [k \in 1 .. T!Cardinality(tiers) |->
     workers[CHOOSE tier \in tiers :
               T!Cardinality({lower \in tiers : lower < tier}) = k - 1]]

LEMMA ModelsAreKept ==
  ASSUME UNCHANGED <<a, c>>
  PROVE  \A number : T!ModelForImplementer(number)' = T!ModelForImplementer(number)
<1>1. T!Tiers' = T!Tiers
  BY DEF T!Tiers
<1>2. T!DistinctModels = ModelsOf(T!Tiers, a.workers)
  BY Zenon DEF T!DistinctModels, T!TiersBelow, ModelsOf
<1>3. T!DistinctModels' = ModelsOf(T!Tiers', a'.workers)
  BY Zenon DEF T!DistinctModels, T!TiersBelow, ModelsOf
<1>4. T!DistinctModels' = T!DistinctModels
  BY <1>1, <1>2, <1>3, Zenon
<1>5. QED  BY <1>1, <1>4, Zenon DEF T!ModelForImplementer

LEMMA RouteOfIsKept ==
  ASSUME UNCHANGED <<a, b, c>> PROVE T!RouteFor(c)' = T!RouteFor(c)
BY Zenon DEF T!RouteFor, T!FullFallback, T!IsLegal, T!FitsTriage, T!Reaches, T!BlocksShort,
         T!BlocksSingle, T!NeedsApproval

LEMMA RouteIsKept ==
  ASSUME RouteInv, UNCHANGED <<a, b, c, d, e>> PROVE RouteInv'
<1>1. \A number : T!ModelForImplementer(number)' = T!ModelForImplementer(number)
  BY ModelsAreKept
<1>2. T!RouteFor(c)' = T!RouteFor(c)
  BY RouteOfIsKept
<1>3. QED  BY <1>1, <1>2, Zenon DEF RouteInv, T!RoutingAttempt

LEMMA RoutesGoOn ==
  ASSUME RoutingInv, [MCNext]_mcvars, RouteAssumption PROVE RoutingInv'
<1>1. which' = which
  BY DEF MCNext, mcvars, Dispatching, Calling, Continuing, Checking, Reviewing, Scoping,
         Deciding, Routing
<1>2. SUFFICES ASSUME which = "route" PROVE RouteInv'
  BY <1>1, Zenon DEF RoutingInv
<1>3. RouteInv
  BY <1>2 DEF RoutingInv
<1>4. CASE UNCHANGED mcvars
  BY <1>3, <1>4, RouteIsKept DEF mcvars, shared
<1>5. CASE MCNext
  <2>1. T!RouteNext
    BY <1>2, <1>5 DEF MCNext, Dispatching, Calling, Continuing, Checking, Reviewing, Scoping,
                      Deciding, Routing
  <2>2. CASE T!DetermineRoute
    <3>1. UNCHANGED <<a, b, c, e>> /\ d' = T!RouteFor(c)
      BY <2>2 DEF T!DetermineRoute
    <3>2. d' \in Names
      BY <1>3, <3>1, RouteOf
    <3>3. d' = T!RouteFor(c)'
      BY <3>1, RouteOfIsKept
    <3>4. \A number : T!ModelForImplementer(number)' = T!ModelForImplementer(number)
      BY <3>1, ModelsAreKept
    <3>5. QED  BY <1>3, <3>1, <3>2, <3>3, <3>4, Zenon DEF RouteInv, T!RoutingAttempt
  <2>3. CASE T!Attempt
    <3>1. UNCHANGED <<a, b, c, d>>
          /\ e' = Append(e, T!ModelForImplementer(T!RoutingAttempt(Len(e) + 1)))
      BY <2>3 DEF T!Attempt
    <3>2. e \in Seq(Models) /\ Len(e) \in Nat
      BY <1>3 DEF RouteInv
    <3>3. T!ModelForImplementer(T!RoutingAttempt(Len(e) + 1)) \in Models
      BY <1>3, <3>2, ModelOfTier, ModelsDiffer
    <3>4. T!RouteFor(c)' = T!RouteFor(c)
      BY <3>1, RouteOfIsKept
    <3>5. \A number : T!ModelForImplementer(number)' = T!ModelForImplementer(number)
      BY <3>1, ModelsAreKept
    <3> DEFINE Model(k) == T!ModelForImplementer(T!RoutingAttempt(k))
    <3>6. \A k : Model(k)' = Model(k)
      BY <3>5, Zenon DEF T!RoutingAttempt
    <3>7. \A k \in 1 .. Len(e) : e[k] = Model(k)
      BY <1>3, Zenon DEF RouteInv
    <3>8. e' \in Seq(Models) /\ \A k \in 1 .. Len(e') : e'[k] = Model(k)
      <4>1. Model(Len(e) + 1) \in Models /\ e' = Append(e, Model(Len(e) + 1))
        BY <3>1, <3>3, Zenon
      <4> HIDE DEF Model
      <4>2. QED  BY <3>2, <3>7, <4>1
    <3>9. \A k \in 1 .. Len(e') : e'[k] = Model(k)'
      BY <3>6, <3>8, Zenon
    <3>10. QED  BY <1>3, <3>1, <3>4, <3>8, <3>9, Zenon DEF RouteInv
  <2>4. CASE T!GrantAttempt
    BY <1>3, <2>4, RouteIsKept DEF T!GrantAttempt
  <2>5. QED  BY <2>1, <2>2, <2>3, <2>4 DEF T!RouteNext
<1>6. QED  BY <1>4, <1>5

\* RoutingIsMonotone: whatever the options of the configuration, their order and the table of risks,
\* a triage that is no easier, of the approval too, does not give a lighter route; and every attempt has a model,
\* which goes up when the share of the one below is over and never comes back (routing.py).
THEOREM RoutesOnlyMoveUp == MCSpec => []RoutingIsMonotone
<1>1. RouteAssumption
  BY RouteAssumption
<1>2. RoutingInv => RoutingIsMonotone
  BY <1>1, HarderIsNoLighter, AttemptsDoClimb, Zenon
     DEF RoutingInv, RoutingIsMonotone, T!RoutingIsMonotone
<1>3. MCInit => RoutingInv
  BY <1>1, RoutesStart
<1>4. RoutingInv /\ [MCNext]_mcvars => RoutingInv'
  BY <1>1, RoutesGoOn
<1>5. QED  BY <1>2, <1>3, <1>4, PTL DEF MCSpec

=============================================================================
