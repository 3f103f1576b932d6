-------------------------------- MODULE MCWork --------------------------------
(***************************************************************************)
(* The work on an issue, in one run of TLC: its dispatch, its route and its   *)
(* models, an agent call that is stopped or steered, the sessions of Pi, the   *)
(* checks of an attempt, the rounds of its review, the files of its change,    *)
(* and the decisions of a person on its halts.  Each behaviour is of one of    *)
(* them, chosen at the start; the others stay in an initial state.  The        *)
(* dispatch, the call, the checks and the scope keep their variables; a .. i   *)
(* are those of the other components, in the order they list them.             *)
(***************************************************************************)
EXTENDS Backlog, AgentCall, AttemptChecks, ScopeRules, Sequences

CONSTANTS
  Titles, Contents, Settings, MaxAge, MaxTurns, MaxTicks,      \* of the sessions
  MaxRounds, ReviewAttempts, CIAttempts, MaxAccepted, MaxOpen,  \* of the review
  HaltAttempts, MaxEpisodes, MaxPlans,                          \* of the decisions
  Levels, OptionLists, WorkerMaps, SameModel, Total, MaxGrants, \* of the route
  Chances                                                       \* bound: what the environment does

\* The limits are counts, and the ledger keeps at least one open finding
\* (MAX_OPEN_REVIEW_FINDINGS is 24).
ASSUME WorkAssumption ==
  /\ ReviewAttempts \in Nat /\ CIAttempts \in Nat /\ HaltAttempts \in Nat
  /\ MaxOpen \in Nat \ {0}
  /\ MaxTurns \in Nat

\* The levels are in order; an option has a route, and levels or none (-1); every complexity has
\* a worker; and the limits of the retries are positive (RoutingOptionConfig, ModelsConfig and
\* RetryConfig of config.py).
ASSUME RouteAssumption ==
  /\ Levels \subseteq Nat /\ IsFiniteSet(Levels)
  /\ \A options \in OptionLists : \A k \in DOMAIN options :
       /\ options[k].route \in {"single", "critique", "full", "manual_triage"}
       /\ options[k].complexity \in Levels \cup {-1} /\ options[k].risk \in Levels \cup {-1}
  /\ \A workers \in WorkerMaps : workers \in [Levels -> {workers[l] : l \in Levels} \ {"none"}]
  /\ SameModel \in Nat \ {0} /\ Total \in Nat \ {0}

VARIABLES which, a, b, c, d, e, f, g, h, i

S == INSTANCE PiSessions WITH
       files <- a, sidecar <- b, call <- c, unrecorded <- d, clock <- e, spent <- f,
       MaxCalls <- MaxTurns, MaxFaults <- Chances
R == INSTANCE ReviewRounds WITH
       ledger <- a, work <- b, told <- c, chances <- d,
       MaxAttempts <- ReviewAttempts, MaxChances <- Chances
D == INSTANCE HaltDecisions WITH
       run <- a, world <- b, esc <- c, impasse <- d, page <- e, requests <- f, job <- g,
       granted <- h, spent <- i, MaxAttempts <- HaltAttempts,
       MaxEdits <- Chances, MaxEscalations <- Chances, MaxCrashes <- Chances

\* Values for OptionLists and WorkerMaps: a short route and a full one, or a manual one and a
\* short one; and three complexities with two models, one of which comes back.
Option(route, complexity, risk) == [route |-> route, complexity |-> complexity, risk |-> risk]
TwoOptions ==
  LET Short == {Option(r, l, k) : r \in {"single", "critique"}, l \in Levels, k \in Levels}
      Full == {Option("full", l, -1) : l \in Levels}
  IN  {<<s, x>> : s \in Short, x \in Full}
        \cup {<<Option("manual_triage", -1, -1), s>> : s \in Short}
ThreeTiers ==
  {[l \in Levels |-> IF l = 1 THEN "m2" ELSE "m1"], [l \in Levels |-> IF l < 2 THEN "m1" ELSE "m2"]}
T == INSTANCE RouteRules WITH
       config <- a, item <- b, triage <- c, route <- d, attempts <- e, grants <- f,
       Same <- SameModel

shared == <<a, b, c, d, e, f, g, h, i>>
own == <<backlogVars, acVars, checkVars, scopeVars>>
mcvars == <<which, shared, own>>

Dispatching ==
  /\ which = "backlog" /\ BacklogNext
  /\ UNCHANGED <<which, shared, acVars, checkVars, scopeVars>>
Calling ==
  /\ which = "call" /\ AcNext
  /\ UNCHANGED <<which, shared, backlogVars, checkVars, scopeVars>>
Checking ==
  /\ which = "checks" /\ CheckNext
  /\ UNCHANGED <<which, shared, backlogVars, acVars, scopeVars>>
Scoping ==
  /\ which = "scope" /\ ScopeNext
  /\ UNCHANGED <<which, shared, backlogVars, acVars, checkVars>>
Continuing == which = "sessions" /\ S!PiNext /\ UNCHANGED <<which, g, h, i, own>>
Reviewing == which = "review" /\ R!ReviewNext /\ UNCHANGED <<which, e, f, g, h, i, own>>
Deciding == which = "decisions" /\ D!HaltNext /\ UNCHANGED <<which, own>>
Routing == which = "route" /\ T!RouteNext /\ UNCHANGED <<which, g, h, i, own>>

\* A component that keeps its variables starts in any of its initial states, and in one
\* of them when the behaviour is of another.
Start ==
  /\ BacklogInit /\ (which # "backlog" => \A x \in Items : issues[x].labels = {})
  /\ AcInit /\ (which # "call" => ~disk.unattended)
  /\ CheckInit /\ (which # "checks" => base.mutants = "absent")
  /\ ScopeInit /\ (which # "scope" => allowed = {} /\ plan = [modules |-> {}, files |-> {}])

MCInit ==
  /\ \/ /\ which \in {"backlog", "call", "checks", "scope"}
        /\ a = 0 /\ b = 0 /\ c = 0 /\ d = 0 /\ e = 0 /\ f = 0 /\ g = 0 /\ h = 0 /\ i = 0
     \/ which = "sessions" /\ S!PiInit /\ g = 0 /\ h = 0 /\ i = 0
     \/ which = "review" /\ R!ReviewInit /\ e = 0 /\ f = 0 /\ g = 0 /\ h = 0 /\ i = 0
     \/ which = "decisions" /\ D!HaltInit
     \/ which = "route" /\ T!RouteInit /\ g = 0 /\ h = 0 /\ i = 0
  /\ Start

MCNext ==
  \/ Dispatching \/ Calling \/ Continuing \/ Checking \/ Reviewing \/ Scoping
  \/ Deciding \/ Routing

MCSpec == MCInit /\ [][MCNext]_mcvars

\* The properties of the dispatch, of an agent call, of the checks and of the scope are those
\* of their modules: ServiceRunsAnIssueOnce; CancelledAgentIsSignalled, StopHoldsAtNextStep and
\* NewestNoteIsKept; ReviewsWhatWasVerified; PublishesClearedFiles.

\* Of the sessions: a continued session holds the request and nothing else.
HoldsTheRequest == which = "sessions" => S!HoldsTheRequest

\* Of the review: no open finding of a blocked category is delivered unseen.
SafetyFindingsNeedPerson == which = "review" => R!SafetyFindingsNeedPerson

\* Of the decisions: one attempt for each grant, and only on the facts that were shown.
OneAttemptPerGrant == which = "decisions" => D!OneAttemptPerGrant
ActsOnWhatWasShown == [][which = "decisions" => D!ResumesAsShown]_mcvars

\* Of the route: it only moves up with the risk of the work and the attempts.
RoutingIsMonotone == which = "route" => T!RoutingIsMonotone

=============================================================================
