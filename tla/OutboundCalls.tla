--------------------------- MODULE OutboundCalls ---------------------------
(* Calls that leave the server: tools through engine/tool_gateway.py, models
   through engine/llm_adapter.py.  Both ask the circuit of their target first and
   tell it how the request came out; in between lies an await, so results arrive
   when the circuit may have moved on.  A caller may be cut at any await, which
   tells the circuit nothing. *)
EXTENDS CircuitBreaker

CONSTANTS
  Callers,   \* coroutines that make calls
  Services,  \* circuits: "tool:<endpoint>", "llm:<base url>"
  NoService, \* a tool that runs inside the process
  Mixes      \* what the callers call, as functions from Callers to Kind

Kind ==
  [service  : Services \cup {NoService},
   attempts : Nat \ {0},   \* max_retries + 1; a streamed round and its plain repetition are two
   pause    : BOOLEAN,     \* back off before the next attempt
   parsed   : BOOLEAN,     \* the last attempt takes the reply apart after its success was recorded
   flaw     : {"none", "unknown", "invalid"}]

ASSUME CallsAssumption == NoService \notin Services /\ Mixes \subseteq [Callers -> Kind]

VARIABLES
  kind,     \* what each caller calls
  call,     \* where each call is, and the attempts it has left
  circuit,  \* circuit_breaker._circuits
  up,       \* whether a target answers with success
  resting   \* history: time since a circuit last opened

vars == <<kind, call, circuit, up, resting>>

Idle == [pc |-> "idle", left |-> 0]
Over == {"done", "failed", "cut"}
Place == {"idle", "ready", "sent", "backoff"} \cup Over

Init ==
  /\ kind \in Mixes
  /\ call = [r \in Callers |-> Idle]
  /\ circuit = [s \in Services |-> Fresh]
  /\ up = [s \in Services |-> TRUE]
  /\ resting = [s \in Services |-> Recovery]

Target(r) == kind[r].service
Goto(r, pc) == call' = [call EXCEPT ![r].pc = pc]

(* A failed attempt is repeated while there are attempts left. *)
NextAttempt(r) ==
  IF call[r].left > 1
  THEN call' = [call EXCEPT ![r] = [pc |-> IF kind[r].pause THEN "backoff" ELSE "ready", left |-> @.left - 1]]
  ELSE Goto(r, "failed")

(* The circuit of s becomes c. *)
Told(s, c) ==
  /\ circuit' = [circuit EXCEPT ![s] = c]
  /\ resting' = IF c.state = "open" /\ circuit[s].state # "open"
                THEN [resting EXCEPT ![s] = 0] ELSE resting

Untold == UNCHANGED <<circuit, resting>>
Frame == UNCHANGED <<kind, up>>

-----------------------------------------------------------------------------
(* get_tool, _require_configured *)
Invoke(r) ==
  /\ call[r].pc = "idle"
  /\ call' = [call EXCEPT ![r] =
       [pc |-> IF kind[r].flaw = "unknown" THEN "failed" ELSE "ready", left |-> kind[r].attempts]]
  /\ Untold /\ Frame

(* A wrong input or a missing endpoint is not worth another attempt. *)
Unusable(r) ==
  /\ call[r].pc = "ready" /\ kind[r].flaw = "invalid"
  /\ Goto(r, "failed") /\ Untold /\ Frame

(* A query of business data or a built-in tool: no circuit is asked. *)
RunInProcess(r) ==
  /\ call[r].pc = "ready" /\ kind[r].flaw = "none" /\ Target(r) = NoService
  /\ Goto(r, "done") \/ NextAttempt(r)
  /\ Untold /\ Frame

Asks(r) == call[r].pc = "ready" /\ kind[r].flaw = "none" /\ Target(r) # NoService

(* A refusal by the circuit is an attempt like another. *)
Refused(r) ==
  /\ Asks(r) /\ ~CanExecute(circuit[Target(r)])
  /\ NextAttempt(r) /\ Untold /\ Frame

Send(r) ==
  /\ Asks(r) /\ CanExecute(circuit[Target(r)])
  /\ Goto(r, "sent") /\ Told(Target(r), LetThrough(circuit[Target(r)])) /\ Frame

Answered(r) ==
  /\ call[r].pc = "sent" /\ up[Target(r)]
  /\ Goto(r, "done") /\ Told(Target(r), RecordSuccess(circuit[Target(r)])) /\ Frame

(* The reply is no use: its success has been recorded all the same. *)
Garbled(r) ==
  /\ call[r].pc = "sent" /\ up[Target(r)] /\ kind[r].parsed /\ call[r].left = 1
  /\ Goto(r, "failed") /\ Told(Target(r), RecordSuccess(circuit[Target(r)])) /\ Frame

(* A time limit, a connection that breaks, an HTTP error. *)
Fails(r) ==
  /\ call[r].pc = "sent" /\ ~up[Target(r)]
  /\ NextAttempt(r) /\ Told(Target(r), RecordFailure(circuit[Target(r)])) /\ Frame

Retry(r) == call[r].pc = "backoff" /\ Goto(r, "ready") /\ Untold /\ Frame

(* CancelledError is no Exception: neither handler sees it. *)
Cut(r) == call[r].pc \notin Over \cup {"idle"} /\ Goto(r, "cut") /\ Untold /\ Frame

(* The next call of the same kind. *)
Again(r) == call[r].pc \in Over /\ call' = [call EXCEPT ![r] = Idle] /\ Untold /\ Frame

-----------------------------------------------------------------------------
Tick ==
  /\ circuit' = [s \in Services |-> Older(circuit[s])]
  /\ resting' = [s \in Services |-> AtMost(Recovery, resting[s] + 1)]
  /\ UNCHANGED <<kind, call, up>>

TargetTurns(s) == up' = [up EXCEPT ![s] = ~@] /\ UNCHANGED <<kind, call, circuit, resting>>

Proceed(r) ==
  \/ Invoke(r) \/ Unusable(r) \/ RunInProcess(r) \/ Refused(r) \/ Send(r)
  \/ Answered(r) \/ Garbled(r) \/ Fails(r) \/ Retry(r) \/ Again(r)

Next ==
  \/ \E r \in Callers : Proceed(r) \/ Cut(r)
  \/ Tick
  \/ \E s \in Services : TargetTurns(s)

Spec == Init /\ [][Next]_vars

(* Sleeps and requests end (each request has a time limit), time passes, and
   callers call again.  Nothing makes a target come up or a caller leave. *)
FairSpec == Spec /\ WF_vars(Tick) /\ \A r \in Callers : WF_vars(Proceed(r))

-----------------------------------------------------------------------------
TypeOK ==
  /\ kind \in [Callers -> Kind]
  /\ call \in [Callers -> [pc : Place, left : Nat]]
  /\ circuit \in [Services -> Circuit]
  /\ up \in [Services -> BOOLEAN]
  /\ resting \in [Services -> 0 .. Recovery]

(* A closed circuit has not yet seen the failures that open it, so that a target
   that has recovered is not shut out again by its first failure
   (circuit_breaker.py, record_success resets, record_failure opens). *)
ClosedBelowThreshold ==
  \A s \in Services : circuit[s].state = "closed" => circuit[s].failures < Threshold

(* From the moment a circuit opens nothing is sent to its target until the
   recovery time is over, whatever late answers of earlier requests arrive
   meanwhile (circuit_breaker.py: "Service is down, reject requests fast"). *)
DeadTargetSpared ==
  [][\A r \in Callers : call[r].pc # "sent" /\ call'[r].pc = "sent" => resting[Target(r)] >= Recovery]_vars

(* A call gives up no later than after its attempts: what it has left never
   grows while it runs (tool_gateway.py, invoke; agent_runtime.py, the stream and
   its one repetition). *)
CallsEnd == \A r \in Callers : call[r].pc = "ready" ~> call[r].pc \in Over

Calls(s) == {r \in Callers : Target(r) = s /\ kind[r].flaw = "none"}

(* A target that stays up is used again: if from some time on it answers and
   callers are not cut, its circuit is closed again and again. *)
RecoveredIsUsed ==
  \A s \in Services :
    Calls(s) # {} /\ <>[]up[s] /\ <>[][\A r \in Callers : ~Cut(r)]_vars
      => []<>(circuit[s].state = "closed")
(* Neither side keeps the other waiting: a call ends whatever the circuit does, and the   *)
(* circuit of a target that is back lets calls through (tool_gateway.py, circuit_breaker.py). *)
CallsGoThrough == CallsEnd /\ RecoveredIsUsed

=============================================================================
