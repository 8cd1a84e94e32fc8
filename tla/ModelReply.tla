----------------------------- MODULE ModelReply -----------------------------
(* engine/llm_adapter.py: how a reply of the model is put together, from one
   message (chat_with_tools) and from the lines of a stream (chat_stream).  Text
   is a sequence of pieces; "think" is a piece inside <think> tags.  A provider
   sends reasoning beside the text in one of two fields.  Arguments are the pieces
   of their JSON, complete when all of them are there. *)
EXTENDS Naturals, FiniteSets, Sequences, SequencesExt

Piece == {"word", "think"}
Field == {"reasoning", "reasoning_content"}

(* A call as it is sent: its fragments, the first with its id and name. *)
Call(id, parts) == [id |-> id, parts |-> parts]
NoCalls == <<>>

Line(kind, index, id, part) == [kind |-> kind, index |-> index, id |-> id, part |-> part]
Text(piece) == Line("content", 0, "", piece)
Thought(field) == Line(field, 0, "", "word")
Fragment(index, id, part) == Line("call", index, id, part)
Other == Line("other", 0, "", "")      \* keep-alive, usage, what is not JSON
Finished == Line("done", 0, "", "")    \* data: [DONE]

(* _strip_think_tags *)
Stripped(text) == SelectSeq(text, LAMBDA piece : piece = "word")
Thinking(text) == SelectSeq(text, LAMBDA piece : piece = "think")

(* _extract_content_from_reasoning: some part of it that is not empty. *)
Conclusion(reasoning) == <<Last(reasoning)>>

(* The common tail of both: thinking stands in for reasoning, and reasoning for
   an answer that is empty. *)
Reply(text, reasoning, calls) ==
  LET reasons == IF reasoning = <<>> THEN Thinking(text) ELSE reasoning
      content == Stripped(text)
  IN  [content |-> IF calls = NoCalls /\ content = <<>> /\ reasons # <<>> THEN Conclusion(reasons) ELSE content,
       calls |-> calls]

(* chat and chat_with_tools: one message, with its field "reasoning" only. *)
Whole(message) ==
  Reply(message.content, IF message.field = "reasoning" THEN message.reasoning ELSE <<>>, message.calls)

-----------------------------------------------------------------------------
(* Mutant: fragments are put together as they come. *)
MergeInOrder(acc, fragment) ==
  IF fragment.id # "" THEN Append(acc, [index |-> fragment.index, id |-> fragment.id, parts |-> <<fragment.part>>])
  ELSE [acc EXCEPT ![Len(acc)].parts = Append(@, fragment.part)]

(* _merge_tool_call_deltas: by index; the first fragment of an index makes the entry. *)
Merge(acc, fragment) ==
  LET known == {k \in DOMAIN acc : acc[k].index = fragment.index}
      k == CHOOSE n \in known : TRUE
  IN  IF known = {} THEN Append(acc, [index |-> fragment.index, id |-> fragment.id, parts |-> <<fragment.part>>])
      ELSE [acc EXCEPT ![k].parts = Append(@, fragment.part),
                       ![k].id = IF fragment.id # "" THEN fragment.id ELSE @]

(* Lines up to [DONE], or all of them when the connection ends without it. *)
Read(lines) ==
  LET ends == {i \in DOMAIN lines : lines[i].kind = "done"}
  IN  IF ends = {} THEN lines ELSE SubSeq(lines, 1, (CHOOSE i \in ends : \A j \in ends : i <= j) - 1)

Parts(lines, kinds) ==
  LET chosen == SelectSeq(lines, LAMBDA line : line.kind \in kinds)
  IN  [i \in DOMAIN chosen |-> chosen[i].part]

Merged(lines) ==
  FoldLeft(Merge, <<>>, SelectSeq(lines, LAMBDA line : line.kind = "call"))

(* chat_stream: what the last chunk carries, with the reasoning of either field;
   calls in the order of their index. *)
Streamed(lines) ==
  LET read == Read(lines)
      entries == Merged(read)
      calls == [n \in DOMAIN entries |->
                  LET e == CHOOSE k \in DOMAIN entries :
                             Cardinality({j \in DOMAIN entries : entries[j].index < entries[k].index}) = n - 1
                  IN  Call(entries[e].id, entries[e].parts)]
  IN  Reply(Parts(read, {"content"}), Parts(read, Field), calls)

(* What chat_stream yields on the way. *)
Shown(lines) == Parts(Read(lines), {"content"})

-----------------------------------------------------------------------------
(* The messages a provider may send, and the ways to send one as lines: content,
   reasoning and each call in their own order, interleaved, other lines in
   between, nothing that counts after [DONE]. *)
Sources(message) ==
  <<[i \in DOMAIN message.content |-> Text(message.content[i])],
    [i \in DOMAIN message.reasoning |-> Thought(message.field)]>>
  \o [c \in DOMAIN message.calls |->
        [i \in DOMAIN message.calls[c].parts |->
           Fragment(c - 1, IF i = 1 THEN message.calls[c].id ELSE "", message.calls[c].parts[i])]]

RECURSIVE Interleaved(_)
Interleaved(sources) ==
  LET open == {s \in DOMAIN sources : sources[s] # <<>>}
  IN  IF open = {} THEN {<<>>}
      ELSE UNION {{<<Head(sources[s])>> \o rest : rest \in Interleaved([sources EXCEPT ![s] = Tail(@)])} : s \in open}

Sent(message) ==
  {<<Other>> \o lines \o <<Other, Finished, Text("word")>> : lines \in Interleaved(Sources(message))}
=============================================================================
