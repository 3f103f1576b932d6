--------------------------- MODULE ResumeEpisodes ---------------------------
(***************************************************************************)
(* What the escalation protocol promises about one run.  A halt opens an   *)
(* episode, a decision that a person may take once: an accepted reply adds *)
(* a receipt for that episode and reopens the run, the reopen is            *)
(* dispatched or fails into an episode of its own, and no receipt is ever  *)
(* taken back.                                                             *)
(***************************************************************************)
EXTENDS Naturals, FiniteSets

VARIABLES
  phase,     \* working, waiting, reopened, closed (nobody is asked any more), ended
  episode,   \* the number of the episode
  receipts   \* the episodes a person decided

epVars == <<phase, episode, receipts>>

EpInit ==
  /\ phase = "waiting"
  /\ episode = 1
  /\ receipts = {}

EpAccept ==
  /\ phase = "waiting"
  /\ episode \notin receipts
  /\ receipts' = receipts \union {episode}
  /\ phase' = "reopened"
  /\ UNCHANGED episode

\* A reopened run goes on working; only a run with a receipt for its episode does.
EpDispatch ==
  /\ phase = "reopened"
  /\ episode \in receipts
  /\ phase' = "working"
  /\ UNCHANGED <<episode, receipts>>

\* A halt, or a reopen that fails, asks a person again.
EpAsk ==
  /\ phase \in {"working", "reopened"}
  /\ phase' = "waiting"
  /\ episode' = episode + 1
  /\ UNCHANGED receipts

EpEnd ==
  /\ \/ phase = "waiting" /\ phase' = "closed"
     \/ phase = "working" /\ phase' = "ended"
  /\ UNCHANGED <<episode, receipts>>

EpNext == EpAccept \/ EpDispatch \/ EpAsk \/ EpEnd

EpSpec == EpInit /\ [][EpNext]_epVars

=============================================================================
