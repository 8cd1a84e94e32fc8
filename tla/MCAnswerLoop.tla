----------------------------- MODULE MCAnswerLoop -----------------------------
(* Two scenes: "clerk" works alone, with a conversation behind it, tools whose
   replies weigh something and a knowledge base; "desk", "expert" and "boss" ask
   each other, and "rival" belongs to another tenant. *)
EXTENDS AnswerLoop, ModelReply

Simple(type) == [type |-> type, to |-> "none", parts |-> {}]
Asking(agent) == [type |-> "delegate", to |-> agent, parts |-> {}]
Composite(parts) == [type |-> "composite", to |-> "none", parts |-> parts]

MCAgents == {"clerk", "desk", "expert", "boss", "rival"}
MCRoots == {"clerk", "desk"}
MCTenant == [a \in MCAgents |-> IF a = "rival" THEN "t2" ELSE "t1"]
MCSkills ==
  [clerk  |-> {Simple("knowledge_qa"), Composite({Simple("tool_call"), Asking("desk")})},
   desk   |-> {Asking("expert"), Asking("rival"), Simple("workflow")},
   expert |-> {Asking("desk"), Asking("boss")},
   boss   |-> {Asking("desk"), Asking("expert"), Asking("clerk")},
   rival  |-> {Asking("desk")}]

Said(role, size, tag) == [role |-> role, size |-> size, tag |-> tag, calls |-> 0]
MCPast ==
  [a \in MCAgents |->
     IF a = "clerk"
     THEN {<<>>, <<Said("user", 1, 1), Said("assistant", 2, 2)>>,
           <<Said("user", 2, 1), Said("assistant", 3, 2), Said("user", 1, 3), Said("assistant", 1, 4)>>}
     ELSE {<<>>}]
MCWeights == [a \in MCAgents |-> IF a = "clerk" THEN {1, 4} ELSE {1}]
MCRequests ==
  {[words |-> w, intent |-> "none"] : w \in {"none", "greeting", "workflow", "forbidden"}}
    \cup {[words |-> "none", intent |-> "tool"]}
MCMaxCalls == [a \in MCAgents |-> IF a = "clerk" THEN 2 ELSE 1]

-----------------------------------------------------------------------------
Messages ==
  [content : {<<>>, <<"word", "word">>, <<"think", "word">>, <<"think">>},
   reasoning : {<<>>, <<"word">>},
   field : Field,
   calls : {NoCalls, <<Call("c1", <<"p1", "p2">>)>>,
            <<Call("c1", <<"p1", "p2">>), Call("c2", <<"q1", "q2">>)>>}]

Misread ==
  {message \in Messages : \E lines \in Sent(message) : Streamed(lines) # Whole(message)}

(* No call, no word outside <think> tags, and reasoning in the field that only
   chat_stream reads. *)
Unread ==
  {message \in Messages :
     /\ message.calls = NoCalls /\ Stripped(message.content) = <<>>
     /\ message.field = "reasoning_content" /\ message.reasoning # <<>>}

(* A reply means the same to a turn that streams it and to one that does not,
   however the provider interleaves its text, its reasoning and the fragments of
   its calls, but for the replies whose only words are reasoning that comes as
   reasoning_content (chat_stream, chat_with_tools in llm_adapter.py). *)
StreamReadsTheSame == streams => Misread = Unread
=============================================================================
