----------------------------- MODULE MCEscalation -----------------------------
(***************************************************************************)
(* Two instances of Escalation in one run of TLC, chosen at the start: the  *)
(* one of the configuration file, where comments, time, faults and a crash  *)
(* fall between the steps of a cycle; and one where an operator's           *)
(* escalation and lost threads race requests of two classes.                *)
(***************************************************************************)
EXTENDS Escalation

VARIABLE races   \* which of the two

Races == INSTANCE Escalation
           WITH Drains <- FALSE, PageSize <- 2, PagesPerPoll <- 2,
                HaltClasses <- {"DELIVERY_RETRY"}, MaxClock <- 0,
                MaxComments <- 0, MaxHalts <- 0, MaxEscalations <- 1, MaxFaults <- 0,
                MaxCrashes <- 0, MaxDeletions <- 1

mcvars == <<vars, races>>

MCInit == (races = TRUE /\ Races!Init) \/ (races = FALSE /\ Init)
MCNext == ((races /\ Races!Next) \/ (~races /\ Next)) /\ UNCHANGED races

MCService == ((races /\ Races!Service) \/ (~races /\ Service)) /\ UNCHANGED races
MCReopen == ((races /\ Races!Reopen) \/ (~races /\ Reopen)) /\ UNCHANGED races
MCDrive == ((races /\ Races!Drive) \/ (~races /\ Drive)) /\ UNCHANGED races

MCSpec == /\ MCInit /\ [][MCNext]_mcvars
          /\ WF_mcvars(MCService) /\ WF_mcvars(MCReopen) /\ WF_mcvars(MCDrive)

\* DecidesEachEpisodeOnce of the instance whose cycle waits for the work it dispatched and
\* where no operator escalates beside it.  With either, a notifier saves a copy of the run
\* that is older than the decision, and the decision is lost.
DrainedDecisions ==
  /\ Decisions!EpInit
  /\ [][races \/ Decisions!EpNext]_<<Decisions!epVars, races>>

=============================================================================
