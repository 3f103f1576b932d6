------------------------------ MODULE PiSessions ------------------------------
(***************************************************************************)
(* The session of one role on one work item with the pi runtime             *)
(* (pi_sessions.py, pi_runtime.py, pi_rpc.py, prompts.py): pi keeps a file   *)
(* of rounds, the factory keeps a sidecar that says what the file's last    *)
(* recorded call was and what it has been sent, and a call either continues *)
(* the file with what is new or starts another one with the full prompt.    *)
(*                                                                          *)
(* A prompt is the sections it carries and the titles it ends; its text is  *)
(* told apart by that.  The output contract is in every prompt and is left  *)
(* out.  Pi itself is external: it writes the prompt to the file, then the  *)
(* answer, or stops before either.                                          *)
(***************************************************************************)
EXTENDS Naturals, Sequences

CONSTANTS Titles,      \* the sections a prompt may carry
          Contents,    \* what a section may say
          Settings,    \* model, provider and reasoning of a call
          MaxAge,      \* pi.session_reuse_max_age_seconds, in ticks
          MaxCalls, MaxTicks,
          MaxFaults    \* crashes of the factory and sidecars that are not written

VARIABLES files,      \* per number: [there, rounds, written]
          sidecar,    \* [file, settings, ended, ok, sent]; file 0 when there is none
          call,       \* the call in progress
          unrecorded, \* the files whose last call left no word in the sidecar
          clock, spent

piVars == <<files, sidecar, call, unrecorded, clock, spent>>

Gone == "gone"            \* a section the prompt or the session does not have
Sections == [Titles -> Contents \cup {Gone}]
Nothing == [t \in Titles |-> Gone]
Numbers == 1..MaxCalls

NoFile == [there |-> FALSE, rounds |-> <<>>, written |-> 0]
NoSidecar == [file |-> 0, settings |-> CHOOSE s \in Settings : TRUE,
              ended |-> 0, ok |-> FALSE, sent |-> Nothing]
NoPrompt == [whole |-> TRUE, sections |-> Nothing, ends |-> {}]
NoCall == [step |-> "none", file |-> 0, settings |-> NoSidecar.settings,
           continued |-> FALSE, request |-> Nothing, prompt |-> NoPrompt,
           ok |-> FALSE, counted |-> {}]

PiInit ==
  /\ files = [n \in Numbers |-> NoFile]
  /\ sidecar = NoSidecar
  /\ call = NoCall
  /\ unrecorded = {}
  /\ clock = 0
  /\ spent = [calls |-> 0, faults |-> 0]

At(s) == call.step = s
Rounds(n) == files[n].rounds

\* What the conversation takes to be current after its rounds: a section replaces
\* the one of its title, "No longer applies" ends it.
Holds(rounds) ==
  [t \in Titles |->
    LET about == {k \in 1..Len(rounds) : \/ rounds[k].prompt.sections[t] # Gone
                                          \/ t \in rounds[k].prompt.ends}
    IN  IF about = {} THEN Gone
        ELSE rounds[CHOOSE k \in about : \A j \in about : j <= k].prompt.sections[t]]

-----------------------------------------------------------------------------
(* Which session a call uses *)

Reusable(settings) ==
  /\ sidecar.file # 0 /\ sidecar.ok
  /\ sidecar.settings = settings
  /\ clock - sidecar.ended < MaxAge
  /\ files[sidecar.file].there

\* build_continuation_prompt: what is new or changed, and the titles that end.
Changed(request, seen) ==
  [t \in Titles |-> IF seen[t] = request[t] THEN Gone ELSE request[t]]
Stale(request, seen) == {t \in Titles : seen[t] # Gone /\ request[t] = Gone}

Continues(settings, request) ==
  /\ Reusable(settings)
  /\ request # sidecar.sent

\* The number is looked for before the expired files are deleted.
NextNumber ==
  CHOOSE n \in Numbers : ~files[n].there /\ \A m \in 1..(n - 1) : files[m].there
Expired(n) == files[n].there /\ clock - files[n].written >= MaxAge
Pruned == [n \in Numbers |-> IF Expired(n) THEN NoFile ELSE files[n]]

\* PiAgentRuntime._prepare_call
Prepare ==
  /\ At("none") /\ spent.calls < MaxCalls
  /\ spent' = [spent EXCEPT !.calls = @ + 1]
  /\ \E settings \in Settings, request \in Sections \ {Nothing} :
       \/ /\ Continues(settings, request)
          /\ call' = [NoCall EXCEPT !.step = "prepared", !.file = sidecar.file,
                        !.settings = settings, !.continued = TRUE, !.request = request,
                        !.prompt = [whole |-> FALSE,
                                    sections |-> Changed(request, sidecar.sent),
                                    ends |-> Stale(request, sidecar.sent)]]
          /\ UNCHANGED files
       \/ /\ ~Continues(settings, request)
          /\ call' = [NoCall EXCEPT !.step = "prepared", !.file = NextNumber,
                        !.settings = settings, !.request = request,
                        !.prompt = [NoPrompt EXCEPT !.sections = request]]
          /\ files' = Pruned
  /\ UNCHANGED <<sidecar, unrecorded, clock>>

\* pi cannot be started, or its command filter is missing: nothing is recorded.
NotStarted ==
  /\ At("prepared") /\ call' = NoCall
  /\ UNCHANGED <<files, sidecar, unrecorded, clock, spent>>

-----------------------------------------------------------------------------
(* The conversation: PiAgentRuntime._converse *)

\* Pi writes the prompt, and with a new session the file.
Asked ==
  /\ At("prepared")
  /\ files' = [files EXCEPT ![call.file] =
                 [there |-> TRUE, written |-> clock,
                  rounds |-> Append(@.rounds, [prompt |-> call.prompt, answered |-> FALSE])]]
  /\ unrecorded' = IF files[call.file].there THEN unrecorded ELSE unrecorded \ {call.file}
  /\ call' = [call EXCEPT !.step = "asked"]
  /\ UNCHANGED <<sidecar, clock, spent>>

\* Pi settles; the answer is in the file.
Answered ==
  /\ At("asked")
  /\ files' = [files EXCEPT ![call.file].rounds[Len(Rounds(call.file))].answered = TRUE,
                            ![call.file].written = clock]
  /\ call' = [call EXCEPT !.step = "answered"]
  /\ UNCHANGED <<sidecar, unrecorded, clock, spent>>

\* messages_since_last_prompt: the rounds from the last one with this prompt on.
SinceLastPrompt ==
  LET rounds == Rounds(call.file)
      same == {k \in 1..Len(rounds) : rounds[k].prompt = call.prompt}
  IN  {k \in 1..Len(rounds) : rounds[k].answered /\ \E j \in same : j <= k}

Ends(ok, counted) ==
  /\ call' = [call EXCEPT !.step = "ended", !.ok = ok, !.counted = counted]
  /\ UNCHANGED <<files, sidecar, unrecorded, clock, spent>>

\* The answer is read, also when it does not parse as the role's artifact.
Settles == At("answered") /\ Ends(TRUE, SinceLastPrompt)

\* A timeout, an exit, a protocol error or an aborted answer; pi may still say
\* what it spent.
Fails ==
  /\ call.step \in {"prepared", "asked", "answered"}
  /\ \E counted \in {{}, SinceLastPrompt} : Ends(FALSE, counted)

-----------------------------------------------------------------------------
(* What is remembered *)

\* Mutant of Recorded: a failed call is recorded like one that settled.
AsIfSettled ==
  [file |-> call.file, settings |-> call.settings, ended |-> clock, ok |-> TRUE,
   sent |-> call.request]

Recorded ==
  [file |-> call.file, settings |-> call.settings, ended |-> clock, ok |-> call.ok,
   sent |-> IF call.ok THEN call.request ELSE Nothing]

\* PiSessionStore.record
Record ==
  /\ At("ended")
  /\ sidecar' = Recorded
  /\ call' = NoCall
  /\ UNCHANGED <<files, unrecorded, clock, spent>>

Fault == spent.faults < MaxFaults /\ spent' = [spent EXCEPT !.faults = @ + 1]

\* The factory dies during the call, and pi ends when its input does; or the
\* sidecar cannot be written, which is only logged.
LeavesNoRecord ==
  /\ ~At("none") /\ Fault
  /\ unrecorded' = unrecorded \cup {call.file}
  /\ call' = NoCall
  /\ UNCHANGED <<files, sidecar, clock>>

Tick ==
  /\ clock < MaxTicks /\ clock' = clock + 1
  /\ UNCHANGED <<files, sidecar, call, unrecorded, spent>>

PiNext ==
  \/ Prepare \/ NotStarted \/ Asked \/ Answered \/ Settles \/ Fails
  \/ Record \/ LeavesNoRecord \/ Tick

PiSpec == PiInit /\ [][PiNext]_piVars

-----------------------------------------------------------------------------
(* Properties *)

\* A continued session is only sent what the sidecar says it lacks; once it has the
\* prompt it must hold the request and nothing else: no section of an earlier round
\* that ended, none that was sent in a call that failed, none of a file that was
\* deleted and whose number was used again (build_continuation_prompt, record,
\* _prune_expired_files).  A file whose last call was not recorded is the one
\* exception.
HoldsTheRequest ==
  (call.step \in {"asked", "answered"} /\ call.file \notin unrecorded)
    => Holds(Rounds(call.file)) = call.request

(* Promises of the documentation that the code does not keep: each can be refuted. *)

\* "A failed call is never continued" (PiSessionStore.record): a round that is sent
\* into a session follows rounds that were answered.
ContinuesOnlyAnswered ==
  At("asked") => \A k \in 1..(Len(Rounds(call.file)) - 1) : Rounds(call.file)[k].answered

\* The answers of an earlier round are not counted again (messages_since_last_prompt).
CountsItsOwnRound ==
  At("ended") => call.counted \subseteq {Len(Rounds(call.file))}

=============================================================================
