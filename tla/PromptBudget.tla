---------------------------- MODULE PromptBudget ----------------------------
(* engine/context_budget.py: how a prompt that is too long is cut.  A message is
   its role, its estimated tokens (one of them for the envelope), which message of
   the conversation it is, and for a request of tools how many calls it makes. *)
EXTENDS Naturals, FiniteSets, Sequences, SequencesExt

CONSTANT Budget  \* MAX_INPUT_TOKENS

ASSUME BudgetAssumption == Budget \in Nat

Message == [role : {"system", "user", "assistant", "call", "tool"}, size : Nat, tag : Nat, calls : Nat]

Total(sizes, I) ==
  LET upTo[i \in 0 .. Len(sizes)] ==
        IF i = 0 THEN 0 ELSE upTo[i - 1] + IF i \in I THEN sizes[i] ELSE 0
  IN  upTo[Len(sizes)]

SizeOf(messages, I) == Total([i \in DOMAIN messages |-> messages[i].size], I)

Tokens(messages) == SizeOf(messages, DOMAIN messages)

Picked(messages, I) ==
  LET upTo[i \in 0 .. Len(messages)] ==
        IF i = 0 THEN <<>> ELSE IF i \in I THEN Append(upTo[i - 1], messages[i]) ELSE upTo[i - 1]
  IN  upTo[Len(messages)]

(* The system messages in front, always kept. *)
Heading(messages) == {i \in DOMAIN messages : \A j \in 1 .. i : messages[j].role = "system"}

(* Mutant: every message stands for itself. *)
StartsItself(messages, i) == i

(* Where the group of a message starts: at its request, for the reply of a tool. *)
Start(messages, i) ==
  LET from == {c \in 1 .. i : messages[c].role # "tool"}
      call == CHOOSE c \in from : \A d \in from : d <= c
  IN  IF from # {} /\ messages[call].role = "call" THEN call ELSE i

(* A group is named by the index it starts at. *)
Groups(messages) == {Start(messages, i) : i \in DOMAIN messages \ Heading(messages)}

Members(messages, starts) ==
  {i \in DOMAIN messages \ Heading(messages) : Start(messages, i) \in starts}

Latest(I) == {i \in I : \A j \in I : j <= i}

Required(messages) ==
  Latest(Groups(messages)) \cup Latest({i \in Groups(messages) : messages[i].role = "user"})

-----------------------------------------------------------------------------
Beyond(n, m) == IF n > m THEN n - m ELSE 0

(* The text of a tool's reply may be shortened to nothing. *)
Spare(message) == IF message.role = "tool" THEN message.size - 1 ELSE 0

SpareOf(messages, I) == Total([i \in DOMAIN messages |-> Spare(messages[i])], I)

(* Replies among the required are shortened in their order until the excess is gone. *)
Shortened(messages, need, excess) ==
  [i \in DOMAIN messages |->
     LET still == Beyond(excess, SpareOf(messages, {j \in need : j < i}))
         cut   == IF i \notin need THEN 0
                  ELSE IF still < Spare(messages[i]) THEN still ELSE Spare(messages[i])
     IN  [messages[i] EXCEPT !.size = @ - cut]]

(* Of the rest, the newest groups that fit, without a gap. *)
Recent(messages, rest, room) ==
  {s \in rest : SizeOf(messages, Members(messages, {t \in rest : t >= s})) <= room}

Exceeded == <<>>

(* Functions of sets, where TLC shall compute the set once. *)
Cut(messages, schema, need, rest) ==
  LET excess == Beyond(SizeOf(messages, need) + schema, Budget)
      short  == Shortened(messages, need, excess)
      sent[I \in SUBSET DOMAIN messages] == Picked(short, I)
      within[room \in Nat] == sent[need \cup Members(messages, Recent(messages, rest, room))]
  IN  IF excess > SpareOf(messages, need) THEN Exceeded
      ELSE within[Beyond(Budget, SizeOf(short, need) + schema)]

(* trim_messages; schema is what the tools' definitions take. *)
Trim(messages, schema) ==
  LET keeping[need \in SUBSET DOMAIN messages] ==
        [rest \in SUBSET DOMAIN messages |-> Cut(messages, schema, need, rest)]
      required == Required(messages)
  IN  IF Tokens(messages) + schema <= Budget THEN messages
      ELSE keeping[Heading(messages) \cup Members(messages, required)][Groups(messages) \ required]
=============================================================================
