----------------------------- MODULE AnswerLoop -----------------------------
(* A turn answered by the model (agent_runtime.py, _invoke_conversational): what
   the agent knows before it asks, rounds of model calls and tool calls, streamed
   text that turns out to be thrown away, the answer when something fails, and
   agents that ask each other.  A delegated turn runs inside its parent's tool
   call, in a session and a transaction of its own: turns form a stack. *)
EXTENDS PromptBudget

CONSTANTS
  Agents,
  Tenant,     \* the tenant of each agent
  Skills,     \* the enabled skills bound to each agent
  Past,       \* the conversations an agent's session may bring
  Weights,    \* estimated tokens of the replies of each agent's tools
  Schema,     \* estimated tokens of a non-empty list of tool definitions
  Requests,   \* what a user or another agent may ask
  Roots,      \* agents a client may address
  MaxRounds,  \* MAX_TOOL_ROUNDS
  MaxDepth,   \* MAX_DELEGATION_DEPTH
  MaxCalls    \* bound: tool calls in one reply of each agent's model

VARIABLES
  streams,  \* the client reads progress events
  turns     \* the turn a client asked for and those delegated below it

vars == <<streams, turns>>

(* A skill: [type, to, parts]; a tool offered to the model: [kind, to]. *)
Tool == [kind : {"search", "http", "start", "delegate", "unknown"}, to : Agents \cup {"none"}]
Unknown == [kind |-> "unknown", to |-> "none"]
Words == {"none", "greeting", "workflow", "tool", "forbidden"}
Request == [words : Words, intent : {"none", "workflow", "tool", "delegate"}]
Source == {"none", "model", "tool", "tool_result", "retrieval", "workflow", "stock",
           "risk", "budget", "apology"}

Turn ==
  [agent : Agents, request : Request,
   pc : {"opening", "asking", "streaming", "plain", "calling", "waiting", "saving", "done"},
   round : 0 .. MaxRounds - 1,
   known : BOOLEAN,           \* retrieval before the model found something
   called : BOOLEAN,          \* tool_calls_log, and with it last_tool_result_text
   todo : Seq(Tool),          \* calls of the reply not yet handled
   messages : Seq(Message),
   text : BOOLEAN,            \* the client holds streamed text not withdrawn
   started : Nat,             \* history: workflows started
   failed : BOOLEAN,          \* the model could not be reached
   source : Source,           \* what the answer is made of
   recorded : BOOLEAN]        \* the turn was saved and committed

(* Only what users and agents said is loaded as history, and a skill delegates to an
   agent that exists. *)
ASSUME LoopAssumption ==
  /\ MaxRounds \in Nat \ {0} /\ MaxDepth \in Nat /\ Schema \in Nat
  /\ Roots \subseteq Agents /\ Requests \subseteq Request
  /\ \A a \in Agents :
       /\ MaxCalls[a] \in Nat \ {0} /\ Weights[a] \subseteq Nat \ {0}
       /\ \A s \in Skills[a] : s.type = "delegate" => s.to \in Agents
       /\ \A past \in Past[a] :
            /\ past \in Seq(Message)
            /\ \A i \in DOMAIN past : past[i].role \in {"user", "assistant"} /\ past[i].tag = i

-----------------------------------------------------------------------------
(* Before the model: intent, skills, tools. *)

Of(agent, type) == {s \in Skills[agent] : s.type = type}

(* An action the user clearly asked for: by the request's own field, by a
   workflow's words, or by a tool's if the agent has tools. *)
Intent(agent, request) ==
  IF request.words = "greeting" THEN "none"
  ELSE IF request.intent # "none" THEN request.intent
  ELSE IF request.words = "workflow" THEN "workflow"
  ELSE IF request.words = "tool" /\ Of(agent, "tool_call") # {} THEN "tool"
  ELSE "none"

(* What one skill offers; a target of another tenant is not offered. *)
Registered(agent, skill) ==
  CASE skill.type = "knowledge_qa" -> {[kind |-> "search", to |-> "none"]}
    [] skill.type = "tool_call" -> {[kind |-> "http", to |-> "none"]}
    [] skill.type = "workflow" -> {[kind |-> "start", to |-> "none"]}
    [] skill.type = "delegate" /\ Tenant[skill.to] = Tenant[agent] -> {[kind |-> "delegate", to |-> skill.to]}
    [] OTHER -> {}

(* A composite skill offers what its parts offer, except delegation. *)
OfParts(agent, skill) ==
  UNION {Registered(agent, part) : part \in {p \in skill.parts : p.type # "delegate"}}

Offered(agent) ==
  UNION {IF s.type = "composite" THEN OfParts(agent, s) ELSE Registered(agent, s) : s \in Skills[agent]}

SchemaOf(agent) == IF Offered(agent) = {} THEN 0 ELSE Schema

NewTurn(agent, request) ==
  [agent |-> agent, request |-> request, pc |-> "opening", round |-> 0, known |-> FALSE,
   called |-> FALSE, todo |-> <<>>, messages |-> <<>>, text |-> FALSE, started |-> 0,
   failed |-> FALSE, source |-> "none", recorded |-> FALSE]

Init ==
  /\ streams \in BOOLEAN
  /\ \E agent \in Roots, request \in Requests : turns = <<NewTurn(agent, request)>>

Depth == Len(turns)
Top == turns[Depth]
At(places) == turns # <<>> /\ Top.pc \in places
Becomes(turn) == turns' = [turns EXCEPT ![Depth] = turn] /\ UNCHANGED streams

(* An answer that is saved, and one that is given without being saved. *)
Saying(turn, source) == [turn EXCEPT !.source = source, !.pc = "saving"]
Unsaved(turn, source) == [turn EXCEPT !.source = source, !.pc = "done"]

Blocked ==
  /\ At({"opening"}) /\ Top.request.words = "forbidden"
  /\ Becomes(Unsaved(Top, "risk"))

(* The tag counts the messages of the session, the request being the last. *)
Opening(past) ==
  <<[role |-> "system", size |-> 1, tag |-> 0, calls |-> 0]>> \o past
    \o <<[role |-> "user", size |-> 1, tag |-> Len(past) + 1, calls |-> 0]>>

Open ==
  /\ At({"opening"}) /\ Top.request.words # "forbidden"
  /\ \E past \in Past[Top.agent], known \in BOOLEAN :
       /\ known => /\ Of(Top.agent, "knowledge_qa") # {}
                   /\ Top.request.words # "greeting"
                   /\ Intent(Top.agent, Top.request) = "none"
       /\ Becomes([Top EXCEPT !.messages = Opening(past), !.known = known, !.pc = "asking"])

-----------------------------------------------------------------------------
(* A round: the prompt is cut to its budget, the model is asked, by a stream if
   somebody reads it and plainly if not or if the stream fails. *)

Ask ==
  /\ At({"asking"})
  /\ \E prompt \in {Trim(Top.messages, SchemaOf(Top.agent))} :
       Becomes(IF prompt = Exceeded THEN Unsaved(Top, "budget")
               ELSE [Top EXCEPT !.messages = prompt,
                                !.pc = IF streams /\ Depth = 1 THEN "streaming" ELSE "plain"])

Delta == At({"streaming"}) /\ ~Top.text /\ Becomes([Top EXCEPT !.text = TRUE])

(* Mutant: a stream that breaks leaves its text with the client. *)
StreamFailsSilently == At({"streaming"}) /\ Becomes([Top EXCEPT !.pc = "plain"])

(* answer_reset, then the call without streaming. *)
StreamFails == At({"streaming"}) /\ Becomes([Top EXCEPT !.text = FALSE, !.pc = "plain"])

(* The guardrail for an action the model did not take: the first workflow, or a
   calculator or clock whose arguments the message has. *)
Guardrail(turn) ==
  LET wanted == Intent(turn.agent, turn.request)
      has(kind) == \E t \in Offered(turn.agent) : t.kind = kind
  IN  IF turn.called THEN {}
      ELSE IF wanted = "workflow" /\ has("start")
      THEN {[Saying(turn, "workflow") EXCEPT !.called = TRUE, !.started = @ + 1]}
      ELSE IF wanted = "tool" /\ has("http")
      THEN {[Saying(turn, "tool") EXCEPT !.called = TRUE]}
      ELSE {}

(* A workflow's start is always found, a tool's arguments are not. *)
MayDecline(turn) == Guardrail(turn) = {} \/ Intent(turn.agent, turn.request) = "tool"

(* What is said when the model said nothing. *)
WithoutText(turn) ==
  IF turn.called THEN "tool_result" ELSE IF turn.known THEN "retrieval" ELSE "stock"

(* A reply without tool calls ends the loop. *)
Answer ==
  /\ At({"streaming", "plain"})
  /\ \/ \E turn \in Guardrail(Top) : Becomes(turn)
     \/ /\ MayDecline(Top)
        /\ \E source \in {"model", WithoutText(Top)} : Becomes(Saying(Top, source))

(* Mutant: what the tools said is forgotten when the model fails. *)
WithoutModelForgetful(turn) ==
  IF turn.known THEN Saying(turn, "retrieval") ELSE Unsaved(turn, "apology")

(* A model that fails: the last tool's words, what retrieval found, or an apology
   that is not kept. *)
WithoutModel(turn) ==
  IF turn.called THEN Saying(turn, "tool_result")
  ELSE IF turn.known THEN Saying(turn, "retrieval")
  ELSE Unsaved(turn, "apology")

(* Mutant: a model that fails is asked once more, without counting. *)
ModelFailsRetried ==
  /\ At({"streaming", "plain"})
  /\ Becomes([Top EXCEPT !.text = FALSE, !.pc = "asking"])

ModelFails ==
  /\ At({"streaming", "plain"})
  /\ LET turn == [Top EXCEPT !.text = FALSE, !.failed = TRUE]
     IN  \/ \E t \in Guardrail(turn) : Becomes(t)
         \/ MayDecline(turn) /\ Becomes(WithoutModel(turn))

Calls(agent) == UNION {[1 .. n -> Offered(agent) \cup {Unknown}] : n \in 1 .. MaxCalls[agent]}

(* Text that came with tool calls was never meant for the user. *)
WantsTools ==
  /\ At({"streaming", "plain"})
  /\ Offered(Top.agent) # {}
  /\ \E calls \in Calls(Top.agent) :
       Becomes([Top EXCEPT !.text = FALSE, !.todo = calls, !.pc = "calling",
         !.messages = Append(@, [role |-> "call", size |-> 1, tag |-> Len(@), calls |-> Len(calls)])])

-----------------------------------------------------------------------------
(* The calls of a reply, one after the other. *)

Handled(turn, size) ==
  [turn EXCEPT !.todo = Tail(@), !.called = TRUE, !.pc = "calling",
     !.messages = Append(@, [role |-> "tool", size |-> size, tag |-> Len(@), calls |-> 0])]

Next1(kind) == At({"calling"}) /\ Top.todo # <<>> /\ Head(Top.todo).kind = kind

(* A name nobody offered is answered with an error and not logged as a call. *)
CallUnknown ==
  /\ Next1("unknown")
  /\ Becomes([Handled(Top, 1) EXCEPT !.called = Top.called])

(* A search or a tool, whether it succeeds or its failure is put into words. *)
CallTool ==
  /\ Next1("search") \/ Next1("http")
  /\ \E size \in Weights[Top.agent] : Becomes(Handled(Top, size))

(* Its prompt or receipt is the answer, to the letter. *)
StartWorkflow ==
  /\ Next1("start")
  /\ Becomes([Saying(Handled(Top, 1), "workflow") EXCEPT !.started = Top.started + 1])

(* Mutant: only the agent that delegates is kept, not those above it. *)
ChainOfOne == {Top.agent}

(* _delegation_ancestors and the agent itself. *)
Chain == {turns[i].agent : i \in 1 .. Depth}

MayDelegate(agent) ==
  /\ agent \notin Chain /\ Cardinality(Chain) <= MaxDepth
  /\ Tenant[agent] = Tenant[Top.agent]

Delegate ==
  /\ Next1("delegate")
  /\ LET agent == Head(Top.todo).to
     IN  IF ~MayDelegate(agent) THEN Becomes(Handled(Top, 1))
         ELSE \E request \in Requests :
                /\ turns' = Append([turns EXCEPT ![Depth].pc = "waiting"],
                                   NewTurn(agent, [request EXCEPT !.intent = "none"]))
                /\ UNCHANGED streams

Parent == turns[Depth - 1]
BackToParent(size) ==
  /\ turns' = [SubSeq(turns, 1, Depth - 1) EXCEPT ![Depth - 1] = Handled(Parent, size)]
  /\ UNCHANGED streams

(* The delegated turn's answer is the tool's reply. *)
Return == Depth > 1 /\ At({"done"}) /\ \E size \in Weights[Parent.agent] : BackToParent(size)

(* It is rolled back; the parent is told so in words. *)
DelegateFails == Depth > 1 /\ ~At({"done"}) /\ BackToParent(1)

(* After the last round the text that came with its calls must do. *)
NextRound ==
  /\ At({"calling"}) /\ Top.todo = <<>>
  /\ IF Top.round + 1 < MaxRounds
     THEN Becomes([Top EXCEPT !.round = @ + 1, !.pc = "asking"])
     ELSE \E source \in {"model", IF Top.known THEN "retrieval" ELSE "stock"} : Becomes(Saying(Top, source))

(* Both messages and the session in one commit. *)
Save == At({"saving"}) /\ Becomes([Top EXCEPT !.recorded = TRUE, !.pc = "done"])

(* A time limit, a disconnect or a failure of the database: every turn on the
   stack that was not committed is rolled back. *)
Aborted == turns # <<>> /\ ~(Depth = 1 /\ At({"done"})) /\ turns' = <<>> /\ UNCHANGED streams

-----------------------------------------------------------------------------
Work ==
  \/ Blocked \/ Open \/ Ask \/ Delta \/ StreamFails \/ Answer \/ ModelFails \/ WantsTools
  \/ CallUnknown \/ CallTool \/ StartWorkflow \/ Delegate \/ Return \/ DelegateFails
  \/ NextRound \/ Save

Next == Work \/ Aborted

Spec == Init /\ [][Next]_vars

(* The event loop resumes a coroutine that can go on, and every call it waits for
   has a time limit.  Nothing aborts a turn that goes on. *)
FairSpec == Spec /\ WF_vars(Work)

-----------------------------------------------------------------------------
TypeOK == streams \in BOOLEAN /\ turns \in Seq(Turn)

InTurns(P(_)) == \A i \in 1 .. Depth : P(turns[i])

(* A turn starts at most one workflow, asks the model no more, says what the
   workflow said and is recorded ("Workflow prompts and receipts are
   authoritative", agent_runtime.py:947). *)
WorkflowHasTheLastWord ==
  InTurns(LAMBDA t : t.started > 0 =>
    /\ t.started = 1 /\ t.source = "workflow" /\ t.pc \in {"saving", "done"}
    /\ t.pc = "done" => t.recorded)

(* What a tool did in a turn is in the conversation afterwards, unless its reply
   did not fit into the prompt (agent_runtime.py, the ways out of the loop). *)
EffectsRecorded ==
  InTurns(LAMBDA t : t.pc = "done" /\ t.called /\ ~t.recorded => t.source = "budget")

(* What was done in a turn is what the user is told of: by a workflow that was started,   *)
(* or in the conversation (process_message, the tool loop and its ways out).               *)
DeedsTold == TypeOK /\ WorkflowHasTheLastWord /\ EffectsRecorded

(* Agents that delegate to each other never come round, never go deeper than the
   limit and never leave their tenant (agent_runtime.py, _make_delegate_handler). *)
ChainBounded ==
  /\ Depth <= MaxDepth + 1
  /\ \A i, j \in 1 .. Depth :
       /\ turns[i].agent = turns[j].agent => i = j
       /\ Tenant[turns[i].agent] = Tenant[turns[j].agent]

(* When the model is asked again, or could not be reached, the client holds no
   text of an earlier attempt (agent_runtime.py, _stream_round). *)
NoStaleText ==
  InTurns(LAMBDA t : t.pc \in {"asking", "plain", "calling", "waiting"} \/ t.failed => ~t.text)

Answers(messages, i) ==
  {j \in i + 1 .. Len(messages) : \A k \in i + 1 .. j : messages[k].role = "tool"}

(* A prompt fits its budget, has the user's request, has every request of tools
   with all its replies and no reply without its request, and of the earlier
   conversation the latest part without a gap (context_budget.py, trim_messages). *)
PromptSound ==
  InTurns(LAMBDA t : t.pc \in {"streaming", "plain"} =>
    LET ms == t.messages
        tags == {ms[i].tag : i \in {j \in DOMAIN ms : ms[j].role \in {"user", "assistant"}}}
        request == CHOOSE n \in tags : \A m \in tags : m <= n
    IN  /\ Tokens(ms) + SchemaOf(t.agent) <= Budget
        /\ \A i \in DOMAIN ms : ms[i].role = "call" => Cardinality(Answers(ms, i)) = ms[i].calls
        /\ \A i \in DOMAIN ms : ms[i].role = "tool" => \E c \in 1 .. i - 1 : ms[c].role = "call" /\ i \in Answers(ms, c)
        /\ request \in {Len(past) + 1 : past \in Past[t.agent]}
        /\ tags = (CHOOSE n \in tags : \A m \in tags : n <= m) .. request)

(* A turn ends by itself: the rounds, not the time limit of the pipeline, bound it. *)
AnswerEnds == <>(turns = <<>> \/ (Depth = 1 /\ Top.pc = "done"))
=============================================================================
