----------------------- MODULE PartialRollout_proofs -----------------------
(***************************************************************************)
(* Proofs about partial rollout, for every number of trajectories, servers *)
(* and synchronisations and every bound: the types, and the four           *)
(* invariants of module PartialRollout.                                    *)
(***************************************************************************)
EXTENDS PartialRollout, TLAPS

-----------------------------------------------------------------------------
(* The inductive invariant *)

\* Pause and resume: calls are open only while they are made, a server that has been
\* called is cancelled until resume, and a sample that is not running has no coroutine.
Handshake ==
  /\ dpc \in {"run", "gather", "paused"} => open_calls = {}
  /\ dpc = "cancel" => \A s \in Servers \ open_calls : paused[s]
  /\ dpc \in {"gather", "paused"} => \A s \in Servers : paused[s]
  /\ sample # "running" => \A t \in Trajectories : at[t] = "parked"

\* A trajectory is generating while it has a request; the tokens of a turn are those kept
\* and those of the request, its call among them; and a turn that is over has not been
\* asked for again, nor answered as cancelled.
Turn(t) ==
  /\ at[t] \in {"called", "open", "answered"} => state[t] = "generating"
  /\ kept[t] + req_output[t] <= MaxTurn
  /\ callAt[t] <= kept[t] + req_output[t]
  /\ at[t] \in {"parked", "loop", "called"} /\ state[t] \in {"pending", "generating"} => ~ended[t]
  /\ at[t] = "answered" /\ is_cancel[t] => ~ended[t]

\* Tools are called after tokens only, so that log-probabilities are there to be padded.
Tokens(t) ==
  /\ response_mask[t] = sampled[t] /\ response_logprobs[t] = sampled[t]
  /\ state[t] = "processing_tools" => sampled[t] > 0

Turns == \A t \in Trajectories : Turn(t)
AllTokens == \A t \in Trajectories : Tokens(t)

IInv == TypeOK /\ Handshake /\ Turns /\ AllTokens /\ CancelReaches /\ QuietWhilePaused

LEMMA BoundsAreNat == MaxTurn \in Nat /\ ToolTokens \in Nat /\ MaxSyncs \in Nat
BY PartialAssumption

LEMMA InitIInv == Init => IInv
<1> SUFFICES ASSUME Init PROVE IInv
  OBVIOUS
<1> USE DEF Init, All
<1>1. TypeOK
  <2>1. 0 \in 0..MaxTurn /\ 0 \in 0..MaxSyncs
    BY BoundsAreNat
  <2> QED
    BY <2>1 DEF TypeOK
<1>2. Handshake /\ CancelReaches /\ QuietWhilePaused
  BY DEF Handshake, CancelReaches, QuietWhilePaused
<1>3. Turns
  BY BoundsAreNat DEF Turns, Turn
<1>4. AllTokens
  BY DEF AllTokens, Tokens
<1> QED
  BY <1>1, <1>2, <1>3, <1>4 DEF IInv

-----------------------------------------------------------------------------
(* Rollouter's steps leave the trajectories alone, except that Submit starts them *)

LEMMA DriverIInv ==
  IInv /\ (Submit \/ SampleReturns \/ Pause \/ CallsReturn \/ PauseGathers \/ Resume) => IInv'
<1> USE PartialAssumption DEF driverVars, callVars, agentVars, turnVars, trajVars
<1>1. ASSUME IInv, Submit PROVE IInv'
  <2> USE <1>1 DEF Submit
  <2>1. TypeOK'
    BY DEF IInv, TypeOK
  <2>2. Handshake' /\ CancelReaches' /\ QuietWhilePaused'
    BY DEF IInv, TypeOK, Handshake, CancelReaches, QuietWhilePaused
  <2>3. Turns'
    BY DEF IInv, TypeOK, Handshake, Turns, Turn
  <2>4. AllTokens'
    BY DEF IInv, AllTokens, Tokens
  <2> QED
    BY <2>1, <2>2, <2>3, <2>4 DEF IInv
<1>2. ASSUME IInv, SampleReturns \/ Pause \/ CallsReturn \/ PauseGathers \/ Resume PROVE IInv'
  <2> USE <1>2 DEF SampleReturns, Pause, CallsReturn, PauseGathers, Resume, Gathered
  <2>1. TypeOK'
    BY DEF IInv, TypeOK
  <2>2. Handshake'
    BY DEF IInv, TypeOK, Handshake
  <2>3. CancelReaches' /\ Turns' /\ AllTokens'
    BY DEF IInv, CancelReaches, Turns, Turn, AllTokens, Tokens
  <2>4. QuietWhilePaused'
    BY DEF IInv, TypeOK, Handshake, QuietWhilePaused
  <2> QED
    BY <2>1, <2>2, <2>3, <2>4 DEF IInv
<1> QED
  BY <1>1, <1>2

\* The calls of cancel and resume, in whatever order they arrive.
LEMMA CallIInv == IInv /\ Call => IInv'
<1> USE PartialAssumption DEF driverVars, callVars, agentVars, turnVars, trajVars, Cancels
<1>1. ASSUME IInv, WorkerCall PROVE IInv'
  <2> USE <1>1 DEF WorkerCall
  <2>1. TypeOK'
    BY DEF IInv, TypeOK
  <2>2. Handshake'
    BY DEF IInv, TypeOK, Handshake
  <2>3. CancelReaches' /\ Turns' /\ AllTokens' /\ QuietWhilePaused'
    BY DEF IInv, CancelReaches, Turns, Turn, AllTokens, Tokens, QuietWhilePaused
  <2> QED
    BY <2>1, <2>2, <2>3 DEF IInv
<1>2. ASSUME IInv, NEW s \in Servers, ServerCall(s) PROVE IInv'
  <2> USE <1>2 DEF ServerCall
  <2>1. TypeOK'
    BY DEF IInv, TypeOK, Interrupt
  <2>2. Handshake'
    BY DEF IInv, TypeOK, Handshake
  <2>3. CancelReaches'
    BY DEF IInv, TypeOK, CancelReaches, Interrupt
  <2>4. Turns' /\ AllTokens' /\ QuietWhilePaused'
    BY DEF IInv, Turns, Turn, AllTokens, Tokens, QuietWhilePaused
  <2> QED
    BY <2>1, <2>2, <2>3, <2>4 DEF IInv
<1> QED
  BY <1>1, <1>2 DEF Call

-----------------------------------------------------------------------------
(* The steps of a trajectory *)

\* The server's steps: a request enters only where the server is not cancelled.
LEMMA ServerIInv ==
  ASSUME NEW t \in Trajectories, IInv, Enter(t) \/ Generate(t) \/ Answer(t) PROVE IInv'
<1> USE PartialAssumption DEF driverVars, callVars, agentVars, turnVars, ServerRest
<1>1. CASE Enter(t)
  <2> USE <1>1 DEF Enter
  <2>1. TypeOK'
    BY DEF IInv, TypeOK
  <2>2. Handshake' /\ CancelReaches' /\ QuietWhilePaused'
    BY DEF IInv, TypeOK, Handshake, CancelReaches, QuietWhilePaused
  <2>3. Turns'
    BY DEF IInv, TypeOK, Turns, Turn
  <2>4. AllTokens'
    BY DEF IInv, AllTokens, Tokens
  <2> QED
    BY <2>1, <2>2, <2>3, <2>4 DEF IInv
<1>2. CASE Generate(t)
  <2> USE <1>2 DEF Generate
  <2>1. /\ req_output[t] \in Nat /\ kept[t] \in Nat
        /\ req_output'[t] = req_output[t] + 1
        /\ kept[t] + req_output'[t] \in 0..MaxTurn /\ req_output'[t] \in 0..MaxTurn
    BY DEF IInv, TypeOK
  <2>2. TypeOK'
    BY <2>1 DEF IInv, TypeOK
  <2>3. Handshake' /\ CancelReaches' /\ QuietWhilePaused'
    BY DEF IInv, TypeOK, Handshake, CancelReaches, QuietWhilePaused
  <2>4. Turns'
    BY <2>1 DEF IInv, TypeOK, Turns, Turn
  <2>5. AllTokens'
    BY DEF IInv, AllTokens, Tokens
  <2> QED
    BY <2>2, <2>3, <2>4, <2>5 DEF IInv
<1>3. CASE Answer(t)
  <2> USE <1>3 DEF Answer, Interrupted
  <2>1. TypeOK'
    BY DEF IInv, TypeOK
  <2>2. Handshake' /\ CancelReaches' /\ QuietWhilePaused'
    BY DEF IInv, TypeOK, Handshake, CancelReaches, QuietWhilePaused
  <2>3. Turns'
    BY DEF IInv, TypeOK, Turns, Turn
  <2>4. AllTokens'
    BY DEF IInv, AllTokens, Tokens
  <2> QED
    BY <2>1, <2>2, <2>3, <2>4 DEF IInv
<1> QED
  BY <1>1, <1>2, <1>3

\* The loop of the state machine before and after a request.
LEMMA LoopIInv ==
  ASSUME NEW t \in Trajectories, IInv, LoopReturns(t) \/ HandlePending(t) \/ HandleGenerating(t)
  PROVE  IInv'
<1> USE PartialAssumption DEF driverVars, callVars, agentVars, turnVars, AgentRest, Goes,
      LoopReturns, HandlePending, HandleGenerating
<1>1. TypeOK'
  BY DEF IInv, TypeOK
<1>2. Handshake' /\ CancelReaches' /\ QuietWhilePaused'
  BY DEF IInv, TypeOK, Handshake, CancelReaches, QuietWhilePaused
<1>3. Turns'
  BY DEF IInv, TypeOK, Turns, Turn
<1>4. AllTokens'
  BY DEF IInv, TypeOK, AllTokens, Tokens
<1> QED
  BY <1>1, <1>2, <1>3, <1>4 DEF IInv

\* The answer's tokens move from the request to the trajectory.
LEMMA AnswerIInv == ASSUME NEW t \in Trajectories, IInv, AfterAnswer(t) PROVE IInv'
<1> USE PartialAssumption DEF driverVars, callVars, agentVars, turnVars, AgentRest, AfterAnswer,
      KeptTokens
<1>1. NextState(t) \in {"generating", "processing_tools", "terminated"}
  BY DEF NextState
<1>2. /\ NextState(t) = "generating" => is_cancel[t]
      /\ NextState(t) = "processing_tools" => callAt[t] > kept[t]
  BY DEF NextState, FindsCall
<1>3. /\ kept[t] \in Nat /\ req_output[t] \in Nat /\ callAt[t] \in Nat /\ sampled[t] \in Nat
      /\ response_mask[t] \in Nat /\ response_logprobs[t] \in Nat /\ assistant_turns[t] \in Nat
      /\ kept[t] + req_output[t] \in 0..MaxTurn /\ callAt[t] <= kept[t] + req_output[t]
  BY DEF IInv, TypeOK, Turns, Turn
<1>4. TypeOK'
  BY <1>1, <1>3 DEF IInv, TypeOK
<1>5. Handshake' /\ CancelReaches' /\ QuietWhilePaused'
  BY DEF IInv, TypeOK, Handshake, CancelReaches, QuietWhilePaused
<1>6. Turns'
  BY <1>1, <1>2, <1>3 DEF IInv, TypeOK, Turns, Turn
<1>7. AllTokens'
  BY <1>1, <1>2, <1>3 DEF IInv, TypeOK, AllTokens, Tokens
<1> QED
  BY <1>4, <1>5, <1>6, <1>7 DEF IInv

\* A tool response adds the same number of tokens everywhere and begins a new turn.
LEMMA ToolsIInv == ASSUME NEW t \in Trajectories, IInv, HandleProcessingTools(t) PROVE IInv'
<1> USE PartialAssumption DEF driverVars, callVars, agentVars, turnVars, AgentRest, Goes,
      HandleProcessingTools
<1>1. PICK n \in 1..ToolTokens : HandleProcessingTools(t)!2!(n)
  OBVIOUS
<1>2. n \in Nat /\ response_mask[t] \in Nat /\ response_logprobs[t] \in Nat /\ sampled[t] \in Nat
  BY DEF IInv, TypeOK
<1>3. TypeOK'
  <2>1. response_logprobs' \in [Trajectories -> Nat] /\ response_mask' \in [Trajectories -> Nat]
    BY <1>1, <1>2 DEF IInv, TypeOK
  <2>2. 0 \in 0..MaxTurn
    BY BoundsAreNat
  <2>3. kept' \in [Trajectories -> 0..MaxTurn] /\ callAt' \in [Trajectories -> 0..MaxTurn]
    BY <1>1, <2>2 DEF IInv, TypeOK
  <2>4. sampled' \in [Trajectories -> Nat]
    BY <1>1, <1>2 DEF IInv, TypeOK
  <2>5. /\ ended' \in [Trajectories -> BOOLEAN]
        /\ state' \in [Trajectories -> {"pending", "generating", "processing_tools", "terminated"}]
    BY <1>1 DEF IInv, TypeOK
  <2> QED
    BY <2>1, <2>3, <2>4, <2>5 DEF IInv, TypeOK
<1>4. Handshake' /\ CancelReaches' /\ QuietWhilePaused'
  BY DEF IInv, TypeOK, Handshake, CancelReaches, QuietWhilePaused
<1>5. Turns'
  BY <1>1 DEF IInv, TypeOK, Turns, Turn
<1>6. AllTokens'
  BY <1>1, <1>2 DEF IInv, TypeOK, AllTokens, Tokens
<1> QED
  BY <1>3, <1>4, <1>5, <1>6 DEF IInv

LEMMA NextIInv == IInv /\ [Next]_vars => IInv'
<1> SUFFICES ASSUME IInv, [Next]_vars PROVE IInv'
  OBVIOUS
<1>1. CASE Submit \/ SampleReturns \/ Pause \/ CallsReturn \/ PauseGathers \/ Resume
  BY <1>1, DriverIInv
<1>2. CASE Call
  BY <1>2, CallIInv
<1>3. ASSUME NEW t \in Trajectories, Trajectory(t) PROVE IInv'
  BY <1>3, ServerIInv, LoopIInv, AnswerIInv, ToolsIInv DEF Trajectory
<1>4. CASE UNCHANGED vars
  BY <1>4 DEF vars, trajVars, driverVars, callVars, agentVars, turnVars, IInv, TypeOK, Handshake,
     Turns, Turn, AllTokens, Tokens, CancelReaches, QuietWhilePaused
<1> QED
  BY <1>1, <1>2, <1>3, <1>4 DEF Next

-----------------------------------------------------------------------------
(* Theorems *)

\* The inductive invariant holds in every reachable state.
THEOREM Invariance == Spec => []IInv
BY InitIInv, NextIInv, PTL DEF Spec

\* Types of the rollouter's, the servers' and the trajectories' state.
THEOREM TypeCorrect == Spec => []TypeOK
<1>1. IInv => TypeOK
  BY DEF IInv
<1> QED
  BY <1>1, Invariance, PTL

\* cancel interrupts every open request of a server.
THEOREM CancelReachesHolds == Spec => []CancelReaches
<1>1. IInv => CancelReaches
  BY DEF IInv
<1> QED
  BY <1>1, Invariance, PTL

\* No engine works between the end of pause and resume.
THEOREM QuietWhilePausedHolds == Spec => []QuietWhilePaused
<1>1. IInv => QuietWhilePaused
  BY DEF IInv
<1> QED
  BY <1>1, Invariance, PTL

\* A turn that is over is never asked for again.
THEOREM EndedTurnsStayHolds == Spec => []EndedTurnsStay
<1>1. IInv => EndedTurnsStay
  BY DEF IInv, Turns, Turn, EndedTurnsStay
<1> QED
  BY <1>1, Invariance, PTL

\* No token is lost or counted twice, and the masks stay aligned.
THEOREM TokensKeptHolds == Spec => []TokensKept
<1>1. IInv => TokensKept
  BY DEF IInv, AllTokens, Tokens, TokensKept
<1> QED
  BY <1>1, Invariance, PTL

=============================================================================
