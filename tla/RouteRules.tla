------------------------------ MODULE RouteRules ------------------------------
(***************************************************************************)
(* Which route a work item takes, and which model makes each attempt         *)
(* (routing.py, the approvals of config.py).  The rules are pure; a           *)
(* behaviour here triages one item, decides its route, and makes attempts,     *)
(* of which a person may grant more.                                           *)
(*                                                                          *)
(* Complexities and risks are numbers, in their order.  Of the text of an      *)
(* item the module keeps what the floors ask of it.                            *)
(***************************************************************************)
EXTENDS Integers, FiniteSets, FiniteSetsExt, Functions, Sequences

CONSTANTS Levels,       \* the complexities and the risks: L0 .. and R0 ..
          OptionLists,  \* the routing.options to look at
          WorkerMaps,   \* the workers to look at: per complexity a model
          Same, Total,  \* retries.same_model_attempts, retries.max_total_attempts
          MaxGrants     \* bound: attempts a person grants

VARIABLES config,   \* [enabled, options, approves, workers]
          item,     \* what the text of the item says: [blocksShort, blocksSingle]
          triage,   \* [complexity, risk]
          route,    \* the route that was decided, "none" before
          attempts, \* the models of the attempts so far
          grants

routeVars == <<config, item, triage, route, attempts, grants>>

Weights == [single |-> 0, critique |-> 1, full |-> 2, manual_triage |-> 3]
Triages == [complexity : Levels, risk : Levels]
None == -1    \* a complexity or a risk that an option does not have

\* Any table of risks says which of them need an approval; none does in an unattended run.
RouteInit ==
  /\ \E options \in OptionLists, workers \in WorkerMaps, approves \in SUBSET Levels,
        enabled \in BOOLEAN :
       config = [enabled |-> enabled, options |-> options, workers |-> workers,
                 approves |-> approves]
  /\ item \in [blocksShort : BOOLEAN, blocksSingle : BOOLEAN]
  /\ triage \in Triages
  /\ route = "none" /\ attempts = <<>> /\ grants = 0

-----------------------------------------------------------------------------
(* determine_route *)

\* FactoryConfig.requires_human_approval
NeedsApproval(risk) == risk \in config.approves

\* _text_floors: no acceptance criteria or verify commands, a label for the full route, a
\* protected or manifest file, or a term that only FULL may touch, block the short routes; an
\* item that names no file blocks SINGLE.
BlocksShort == item.blocksShort
BlocksSingle == item.blocksSingle

\* Mutant of Reaches: an option fits what it names and nothing less.
ReachesExactly(level, needed) == level = None \/ level = needed

Reaches(level, needed) == level = None \/ level >= needed

FitsTriage(option, t) == Reaches(option.complexity, t.complexity) /\ Reaches(option.risk, t.risk)

\* assess_safety_floors
IsLegal(option, t) ==
  \/ option.route = "manual_triage"
  \/ option.route = "full" /\ FitsTriage(option, t)
  \/ /\ option.route \in {"single", "critique"} /\ FitsTriage(option, t)
     /\ ~BlocksShort /\ ~NeedsApproval(t.risk) /\ ~NeedsApproval(option.risk)
     /\ option.route = "single" => ~BlocksSingle

\* find_legal_full_fallback
FullFallback(options) ==
  IF \E o \in options : o.route = "full" THEN "full" ELSE "manual_triage"

Lightest(options) ==
  (CHOOSE o \in options : \A other \in options : Weights[o.route] <= Weights[other.route]).route

RouteFor(t) ==
  LET options == Range(config.options)
      legal == {o \in options : IsLegal(o, t)}
  IN  IF ~config.enabled THEN FullFallback(options)
      ELSE IF legal = {} THEN "manual_triage" ELSE Lightest(legal)

DetermineRoute ==
  /\ route = "none" /\ route' = RouteFor(triage)
  /\ UNCHANGED <<config, item, triage, attempts, grants>>

-----------------------------------------------------------------------------
(* The attempts: model_for_implementer and _select_worker *)

\* The complexities from that of the triage upwards that have a model of their own: a lower one
\* does not have it.
Tiers ==
  {tier \in Levels :
     /\ triage.complexity <= tier
     /\ \A lower \in Levels :
          triage.complexity <= lower /\ lower < tier
            => config.workers[lower] # config.workers[tier]}
TiersBelow(tier) == Cardinality({lower \in Tiers : lower < tier})

\* Their models, in the order of the complexities.
DistinctModels ==
  [k \in 1 .. Cardinality(Tiers) |-> config.workers[CHOOSE tier \in Tiers : TiersBelow(tier) = k - 1]]

ModelForImplementer(number) ==
  IF number > Total THEN "none"
  ELSE DistinctModels[Min({(number - 1) \div Same + 1, Cardinality(Tiers)})]

\* A granted attempt, and one that repairs CI, routes as the last configured one does.
RoutingAttempt(number) == Min({number, Total})

Attempt ==
  /\ route \in {"single", "critique", "full"} /\ Len(attempts) < Total + grants
  /\ attempts' = Append(attempts, ModelForImplementer(RoutingAttempt(Len(attempts) + 1)))
  /\ UNCHANGED <<config, item, triage, route, grants>>

GrantAttempt ==
  /\ route # "none" /\ Len(attempts) = Total + grants /\ grants < MaxGrants
  /\ grants' = grants + 1
  /\ UNCHANGED <<config, item, triage, route, attempts>>

RouteNext == DetermineRoute \/ Attempt \/ GrantAttempt
RouteSpec == RouteInit /\ [][RouteNext]_routeVars

-----------------------------------------------------------------------------
(* Properties *)

\* A triage is no easier than another one: not less complex, not less risky, and its risk needs
\* an approval if the other one's does.  The table of risks need not be in their order.
NoEasier(t, than) ==
  /\ t.complexity >= than.complexity /\ t.risk >= than.risk
  /\ NeedsApproval(than.risk) => NeedsApproval(t.risk)

\* A triage that is no easier never gives a lighter route, whatever options the configuration
\* orders and names, and whatever risks need an approval: unless the table itself lets a higher
\* risk pass, a cautious triage is never a way around the review of the full route.
HarderIsNeverLighter ==
  route # "none" => \A t \in Triages : NoEasier(t, triage) => Weights[RouteFor(t)] >= Weights[route]

\* Every attempt, also a granted one, has a model; a model that another one replaced does not
\* come back, though two complexities may share it; and none is replaced before its share of
\* the attempts.
AttemptsClimb ==
  /\ \A k \in DOMAIN attempts : attempts[k] # "none"
  /\ \A early, mid, late \in DOMAIN attempts :
       early < mid /\ mid < late /\ attempts[early] = attempts[late]
         => attempts[mid] = attempts[late]
  /\ \A k \in DOMAIN attempts :
       k > 1 /\ attempts[k] # attempts[k - 1] => k > Same /\ attempts[k - 1] = attempts[k - Same]

\* Routing only moves up: with what the triage found, and with the attempts that failed.
RoutingIsMonotone == HarderIsNeverLighter /\ AttemptsClimb

=============================================================================
