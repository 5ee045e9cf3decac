--------------------------- MODULE PartialRollout ---------------------------
(***************************************************************************)
(* Interrupting and resuming generation with partial rollout: the rollout  *)
(* servers (vllm_rollout/vllm_async_server.py), the agent loop worker that *)
(* runs the trajectories of one sample with AsyncPartialToolAgentLoop      *)
(* (agent_loop/partial_tool_agent_loop.py), and pause and resume of        *)
(* rollouter, which reach servers and worker as separate calls in any      *)
(* order (agent_loop/agent_loop.py, cancel and resume).                    *)
(*                                                                         *)
(* Tokens are counted.  A turn of the model may contain one tool call; it  *)
(* is known by the position, in its turn, of its first token.  Interaction *)
(* configurations and max_user_turns are left out.                         *)
(***************************************************************************)
EXTENDS Integers, FiniteSets

CONSTANTS
  Trajectories,      \* rollout.n responses of the sample
  Servers,
  response_length,
  max_assistant_turns,
  ToolTokens,        \* bound: tokens of a formatted tool response
  MaxTurn,           \* bound: tokens of a turn
  MaxSyncs           \* bound: synchronisations

Worker == "worker"

ASSUME PartialAssumption ==
  /\ Worker \notin Servers
  /\ {response_length, max_assistant_turns, ToolTokens, MaxTurn} \subseteq Nat \ {0}
  /\ MaxSyncs \in Nat

VARIABLES
  \* rollouter: dpc in its pause/resume cycle, calls it still waits for, synchronisations
  dpc, open_calls, syncs,
  sample,             \* queued, running, or finished
  \* the worker and the servers
  cancellation_event, paused, cancel_event,
  \* trajectory t is at[t] in its coroutine, with AgentData:
  at, state, response_mask, response_logprobs, assistant_turns,
  \* the current turn: tokens kept of it, first token of its tool call or 0, over
  kept, callAt, ended,
  \* the request: its server, tokens in req_output, and what the server answered
  home, req_output, is_cancel,
  sampled             \* history: tokens the engine answered and the tools returned

driverVars == <<dpc, open_calls, syncs>>
callVars == <<cancel_event, req_output, is_cancel>>
agentVars == <<state, response_mask, response_logprobs, assistant_turns, kept>>
turnVars == <<callAt, ended>>
trajVars == <<home, callVars, at, agentVars, turnVars, sampled>>
vars == <<driverVars, sample, cancellation_event, paused, trajVars>>

TypeOK ==
  /\ dpc \in {"run", "cancel", "gather", "paused", "resume"}
  /\ open_calls \subseteq Servers \cup {Worker} /\ syncs \in 0..MaxSyncs
  /\ sample \in {"queued", "running", "finished"}
  /\ cancellation_event \in BOOLEAN
  /\ paused \in [Servers -> BOOLEAN]
  /\ cancel_event \in [Trajectories -> BOOLEAN]
  /\ home \in [Trajectories -> Servers]
  /\ at \in [Trajectories -> {"parked", "loop", "called", "open", "answered"}]
  /\ state \in [Trajectories -> {"pending", "generating", "processing_tools", "terminated"}]
  /\ response_mask \in [Trajectories -> Nat] /\ response_logprobs \in [Trajectories -> Nat]
  /\ assistant_turns \in [Trajectories -> Nat]
  /\ kept \in [Trajectories -> 0..MaxTurn] /\ callAt \in [Trajectories -> 0..MaxTurn]
  /\ ended \in [Trajectories -> BOOLEAN]
  /\ req_output \in [Trajectories -> 0..MaxTurn]
  /\ is_cancel \in [Trajectories -> BOOLEAN]
  /\ sampled \in [Trajectories -> Nat]

All(x) == [t \in Trajectories |-> x]

Init ==
  /\ dpc = "run" /\ open_calls = {} /\ syncs = 0
  /\ sample = "queued"
  /\ cancellation_event = FALSE /\ paused = [s \in Servers |-> FALSE]
  /\ cancel_event = All(FALSE)
  /\ at = All("parked") /\ state = All("pending")
  /\ response_mask = All(0) /\ response_logprobs = All(0)
  /\ assistant_turns = All(0)
  /\ home \in [Trajectories -> Servers]
  /\ kept = All(0) /\ callAt = All(0) /\ ended = All(FALSE)
  /\ req_output = All(0) /\ is_cancel = All(FALSE)
  /\ sampled = All(0)

-----------------------------------------------------------------------------
(* Rollouter: submission of the sample, pause and resume *)

\* A submission needs the lock, which pause and resume hold; the monitor may undo the
\* pause in between.  The next worker in turn gets it, whose server manager chooses the
\* servers anew.  Trajectories that are complete already return at once.
Submit ==
  /\ sample = "queued" /\ dpc \in {"run", "paused"}
  /\ sample' = "running"
  /\ at' = [t \in Trajectories |-> IF state[t] = "terminated" THEN "parked" ELSE "loop"]
  /\ home' \in [Trajectories -> Servers]
  /\ UNCHANGED <<driverVars, cancellation_event, paused, callVars, agentVars, turnVars, sampled>>

\* All trajectories have returned: one that was cancelled sends the sample back.
SampleReturns ==
  /\ sample = "running" /\ \A t \in Trajectories : at[t] = "parked"
  /\ sample' = IF \E t \in Trajectories : state[t] # "terminated" THEN "queued" ELSE "finished"
  /\ UNCHANGED <<driverVars, cancellation_event, paused, trajVars>>

\* pause calls cancel: every server and the worker, at once.
Pause ==
  /\ dpc = "run" /\ syncs < MaxSyncs
  /\ syncs' = syncs + 1
  /\ dpc' = "cancel" /\ open_calls' = Servers \cup {Worker}
  /\ UNCHANGED <<sample, cancellation_event, paused, trajVars>>

\* All calls have returned; pause then gathers the running task.
CallsReturn ==
  /\ dpc \in {"cancel", "resume"} /\ open_calls = {}
  /\ dpc' = IF dpc = "cancel" THEN "gather" ELSE "run"
  /\ UNCHANGED <<open_calls, syncs, sample, cancellation_event, paused, trajVars>>

\* A plausible fault: pause does not wait for the running task.
GatherNothing == TRUE

\* What gather waits for.
Gathered == sample # "running"

PauseGathers ==
  /\ dpc = "gather" /\ Gathered
  /\ dpc' = "paused"
  /\ UNCHANGED <<open_calls, syncs, sample, cancellation_event, paused, trajVars>>

Resume ==
  /\ dpc = "paused"
  /\ dpc' = "resume" /\ open_calls' = Servers \cup {Worker}
  /\ UNCHANGED <<syncs, sample, cancellation_event, paused, trajVars>>

\* A plausible fault: resume clears nothing.
NothingCleared == TRUE

\* What the calls under way set paused and cancellation_event to: cancel or resume.
Cancels == dpc = "cancel"

\* The worker executes cancel_agent_loops or resume_agent_loops.
WorkerCall ==
  /\ Worker \in open_calls /\ open_calls' = open_calls \ {Worker}
  /\ cancellation_event' = Cancels
  /\ UNCHANGED <<dpc, syncs, sample, paused, trajVars>>

\* A plausible fault: only paused is set, requests that are open go on.
InterruptNobody(s) == cancel_event

\* cancel sets the event of every request in the server's table: those that are open, and
\* some that were answered without output, whose event reaches nobody.
Interrupt(s) ==
  [t \in Trajectories |-> cancel_event[t] \/ (home[t] = s /\ at[t] = "open")]

\* A server executes cancel or resume.
ServerCall(s) ==
  /\ s \in open_calls /\ open_calls' = open_calls \ {s}
  /\ paused' = [paused EXCEPT ![s] = Cancels]
  /\ cancel_event' = IF Cancels THEN Interrupt(s) ELSE cancel_event
  /\ UNCHANGED <<dpc, syncs, sample, cancellation_event, home, req_output, is_cancel,
                 at, agentVars, turnVars, sampled>>

-----------------------------------------------------------------------------
(* generate_for_partial and the engine *)

ServerRest == <<driverVars, sample, cancellation_event, paused, home, agentVars, sampled>>

\* First section under the lock.
Enter(t) ==
  /\ at[t] = "called"
  /\ IF paused[home[t]]
     THEN /\ at' = [at EXCEPT ![t] = "answered"]
          /\ is_cancel' = [is_cancel EXCEPT ![t] = TRUE]
     ELSE at' = [at EXCEPT ![t] = "open"] /\ UNCHANGED is_cancel
  /\ UNCHANGED <<ServerRest, turnVars, cancel_event, req_output>>

\* The engine's next output, a token further; a tool call may begin with it, and the turn
\* may end with it, which ends the generation task too.
Generate(t) ==
  /\ at[t] = "open" /\ ~ended[t]
  /\ kept[t] + req_output[t] < MaxTurn
  /\ req_output' = [req_output EXCEPT ![t] = @ + 1]
  /\ \E begins \in BOOLEAN :
       callAt' = IF begins /\ callAt[t] = 0
                 THEN [callAt EXCEPT ![t] = kept[t] + req_output'[t]] ELSE callAt
  /\ \E ends \in BOOLEAN :
       /\ kept[t] + req_output'[t] = MaxTurn => ends
       /\ ended' = [ended EXCEPT ![t] = ends]
  /\ UNCHANGED <<ServerRest, at, cancel_event, is_cancel>>

\* A plausible fault: the answer says cancelled whenever the event is set.
InterruptedByEvent(t) == cancel_event[t]

\* generation_handle is not among the tasks that are done.
Interrupted(t) == ~ended[t]

\* One of the two tasks is done.
Answer(t) ==
  /\ at[t] = "open" /\ (ended[t] \/ cancel_event[t])
  /\ at' = [at EXCEPT ![t] = "answered"]
  /\ is_cancel' = [is_cancel EXCEPT ![t] = Interrupted(t)]
  /\ UNCHANGED <<ServerRest, turnVars, cancel_event, req_output>>

-----------------------------------------------------------------------------
(* The state machine of AsyncPartialToolAgentLoop *)

AgentRest == <<driverVars, sample, cancellation_event, paused, home>>

\* A plausible fault: the state machine does not look at the event.
NeverInterrupted == FALSE

MustReturn == cancellation_event

\* Head of the loop: terminated, or interrupted between two states.
LoopReturns(t) ==
  /\ at[t] = "loop" /\ (state[t] = "terminated" \/ MustReturn)
  /\ at' = [at EXCEPT ![t] = "parked"]
  /\ UNCHANGED <<AgentRest, callVars, agentVars, turnVars, sampled>>

Goes(t, s) == at[t] = "loop" /\ state[t] = s /\ ~MustReturn

HandlePending(t) ==
  /\ Goes(t, "pending")
  /\ state' = [state EXCEPT ![t] = "generating"]
  /\ UNCHANGED <<AgentRest, callVars, at, response_mask, response_logprobs, assistant_turns,
                 kept, turnVars, sampled>>

HandleGenerating(t) ==
  /\ Goes(t, "generating")
  /\ at' = [at EXCEPT ![t] = "called"]
  /\ UNCHANGED <<AgentRest, callVars, agentVars, turnVars, sampled>>

\* A plausible fault: the tokens of an interrupted request are thrown away.
KeptWhenComplete(t) == IF is_cancel[t] THEN 0 ELSE req_output[t]

\* Tokens of the answer that are appended to prompt_ids and response_mask.
KeptTokens(t) == req_output[t]

\* extract_tool_calls sees response_ids, the tokens of this answer only: a call that began
\* in an earlier answer of the same turn is not found.
FindsCall(t) == callAt[t] > kept[t]

\* The response is full with the tokens of this answer; a limit ends the trajectory.
Full(t) == response_mask[t] + KeptTokens(t) >= response_length
Stops(t) == Full(t) \/ assistant_turns[t] + 1 >= max_assistant_turns

\* A plausible fault: a turn without a call goes on to an interaction that there is not.
AlwaysInteracts(t) ==
  CASE is_cancel[t] /\ ~Full(t) -> "generating"
    [] ~is_cancel[t] /\ ~Stops(t) -> IF FindsCall(t) THEN "processing_tools" ELSE "interacting"
    [] OTHER -> "terminated"

NextState(t) ==
  CASE is_cancel[t] /\ ~Full(t) -> "generating"
    [] ~is_cancel[t] /\ ~Stops(t) /\ FindsCall(t) -> "processing_tools"
    [] OTHER -> "terminated"

\* The rest of the handler, when the server has answered.  The call and its event are over.
AfterAnswer(t) ==
  /\ at[t] = "answered"
  /\ at' = [at EXCEPT ![t] = "loop"]
  /\ state' = [state EXCEPT ![t] = NextState(t)]
  /\ response_mask' = [response_mask EXCEPT ![t] = @ + KeptTokens(t)]
  /\ response_logprobs' = [response_logprobs EXCEPT ![t] = @ + KeptTokens(t)]
  /\ kept' = [kept EXCEPT ![t] = @ + KeptTokens(t)]
  /\ sampled' = [sampled EXCEPT ![t] = @ + req_output[t]]
  /\ assistant_turns' =
       [assistant_turns EXCEPT ![t] = @ + IF is_cancel[t] /\ ~Full(t) THEN 0 ELSE 1]
  /\ req_output' = [req_output EXCEPT ![t] = 0]
  /\ is_cancel' = [is_cancel EXCEPT ![t] = FALSE]
  /\ cancel_event' = [cancel_event EXCEPT ![t] = FALSE]
  /\ UNCHANGED <<AgentRest, turnVars>>

\* The call is executed and its response appended, unless that fills the response.
HandleProcessingTools(t) ==
  /\ Goes(t, "processing_tools")
  /\ \E n \in 1..ToolTokens :
       IF response_mask[t] + n >= response_length
       THEN /\ state' = [state EXCEPT ![t] = "terminated"]
            /\ UNCHANGED <<response_mask, response_logprobs, sampled, kept, turnVars>>
       ELSE /\ state' = [state EXCEPT ![t] = "generating"]
            /\ response_mask' = [response_mask EXCEPT ![t] = @ + n]
            /\ response_logprobs' =
                 [response_logprobs EXCEPT ![t] = IF @ = 0 THEN @ ELSE @ + n]
            /\ sampled' = [sampled EXCEPT ![t] = @ + n]
            /\ kept' = [kept EXCEPT ![t] = 0]
            /\ callAt' = [callAt EXCEPT ![t] = 0]
            /\ ended' = [ended EXCEPT ![t] = FALSE]
  /\ UNCHANGED <<AgentRest, callVars, at, assistant_turns>>

Trajectory(t) ==
  \/ Enter(t) \/ Generate(t) \/ Answer(t)
  \/ LoopReturns(t) \/ HandlePending(t) \/ HandleGenerating(t) \/ AfterAnswer(t)
  \/ HandleProcessingTools(t)

Call == WorkerCall \/ \E s \in Servers : ServerCall(s)

Next ==
  \/ Submit \/ SampleReturns
  \/ Pause \/ CallsReturn \/ PauseGathers \/ Resume
  \/ Call
  \/ \E t \in Trajectories : Trajectory(t)

\* Everything goes on sooner or later, except that a synchronisation need not come.
Fairness ==
  /\ WF_vars(Submit) /\ WF_vars(SampleReturns)
  /\ WF_vars(CallsReturn \/ PauseGathers \/ Resume)
  /\ WF_vars(Call)
  /\ \A t \in Trajectories : WF_vars(Trajectory(t))

Spec == Init /\ [][Next]_vars /\ Fairness

-----------------------------------------------------------------------------
(* Properties *)

\* A cancelled server interrupts every request it has open, whatever the order in which
\* requests arrive and are answered: one missed would hold up pause, which gathers all
\* tasks, for as long as a whole generation.
CancelReaches ==
  \A t \in Trajectories : at[t] = "open" /\ paused[home[t]] => cancel_event[t]

\* Weights change under no request: between the end of pause and resume no engine works,
\* even if the monitor lets a submission through in between.
QuietWhilePaused == dpc = "paused" => \A t \in Trajectories : at[t] # "open"

\* A turn that the model has ended is never continued, even if its end and the
\* cancellation race: it would be generated past its end after resume.
EndedTurnsStay == \A t \in Trajectories : at[t] = "called" => ~ended[t]

\* Through any number of interruptions no token is lost or counted twice, and mask and
\* log-probabilities stay aligned with the tokens.
TokensKept ==
  \A t \in Trajectories :
    response_mask[t] = sampled[t] /\ response_logprobs[t] = sampled[t]

\* README.md:527: interrupted trajectories resume from the saved state, so a tool call
\* that the model has made is executed unless a limit ends the trajectory.
CallsExecuted ==
  \A t \in Trajectories :
    state[t] = "terminated" /\ callAt[t] # 0 =>
      \/ response_mask[t] + ToolTokens >= response_length
      \/ assistant_turns[t] >= max_assistant_turns

\* A pause ends: no request, tool or retry keeps it waiting for ever.
PauseEnds == dpc = "cancel" ~> dpc = "paused"

\* However often it is interrupted, the sample is finished in the end.
SampleFinishes == <>(sample = "finished")

=============================================================================
