------------------------- MODULE ConversationMemory -------------------------
(* The memory of one conversation: the rows of its messages, the rolling
   summary that stands for the oldest of them, and the background fold that
   extends the summary while turns go on (engine/summary_scheduler.py and the
   turn in engine/agent_runtime.py).  A row is a number, a summary the set of
   the rows it was made from.  The database orders rows by (created_at, id), so
   a row may sort before rows that were there first. *)
EXTENDS Integers, Sequences, Functions

CONSTANTS
  Threshold,     \* SUMMARY_THRESHOLD
  RecentWindow,  \* RECENT_WINDOW
  BatchRows,     \* SUMMARY_BATCH_ROWS
  Skew,          \* how many rows a later row may sort before: equal or corrected clocks
  Reuse,         \* whether a client sends the id of a deleted session again
  MaxRows        \* bound: rows ever written

ASSUME MemoryAssumption ==
  /\ Threshold \in Nat /\ RecentWindow \in Nat /\ BatchRows \in Nat \ {0}
  /\ Skew \in Nat /\ Skew <= RecentWindow
  /\ Reuse \in BOOLEAN /\ MaxRows \in Nat

VARIABLES
  exists,  \* the session row is there
  rows,    \* its messages, in the order the database gives them
  ctx,     \* session.context: the summary and summarized_upto
  turns,   \* session.message_count
  made,    \* rows ever written
  turn,    \* the turn in progress: how far it is, and whether under the session's lock
  prompt,  \* what it gave the model: the summary, and the rows it spelled out
  fold     \* the fold in flight, and what it has read

vars == <<exists, rows, ctx, turns, made, turn, prompt, fold>>

Blank == [summary |-> {}, upto |-> 0]
NoPrompt == [memory |-> {}, told |-> <<>>]
NoFold == [pc |-> "none", base |-> 0, prior |-> {}, total |-> 0, took |-> {}, count |-> 0]
NoTurn == [pc |-> "idle", locked |-> FALSE]

Row == 1..MaxRows

Init ==
  /\ exists = FALSE /\ rows = <<>> /\ ctx = Blank /\ turns = 0 /\ made = 0
  /\ turn = NoTurn /\ prompt = NoPrompt /\ fold = NoFold

Unlocked == ~turn.locked

-----------------------------------------------------------------------------
(* Turns.  A turn on a session id the client sent holds the session's lock; the
   first turn of a session whose id the server picks holds none. *)

TurnStart(locked) ==
  /\ turn.pc = "idle" /\ made + 2 <= MaxRows
  /\ exists => locked
  /\ ~exists => made = 0 \/ (Reuse /\ locked)
  /\ exists' = TRUE
  /\ turn' = [pc |-> "loaded", locked |-> locked]
  /\ UNCHANGED <<rows, ctx, turns, made, prompt, fold>>

(* Mutant: only the recent window is spelled out, however far the fold lags. *)
TurnReadsRecent ==
  /\ turn.pc = "loaded"
  /\ turn' = [turn EXCEPT !.pc = "asking"]
  /\ LET last == IF Len(rows) > RecentWindow THEN Len(rows) - RecentWindow ELSE 0
     IN prompt' = [memory |-> ctx.summary, told |-> SubSeq(rows, last + 1, Len(rows))]
  /\ UNCHANGED <<exists, rows, ctx, turns, made, fold>>

(* The summary and every row after the watermark go into the prompt. *)
TurnReads ==
  /\ turn.pc = "loaded"
  /\ turn' = [turn EXCEPT !.pc = "asking"]
  /\ LET boundary == IF ctx.summary # {} THEN ctx.upto ELSE 0
     IN prompt' = [memory |-> ctx.summary, told |-> SubSeq(rows, boundary + 1, Len(rows))]
  /\ UNCHANGED <<exists, rows, ctx, turns, made, fold>>

(* One fold per session: a second request to schedule one is dropped. *)
Schedule == fold' = IF fold.pc = "none" THEN [NoFold EXCEPT !.pc = "context"] ELSE fold

Inserted(seq, i, x) == SubSeq(seq, 1, i - 1) \o <<x>> \o SubSeq(seq, i, Len(seq))

(* The message and its answer are added and committed; only a turn that asked
   the model schedules a fold, a workflow turn does not. *)
TurnCommits(i, j) ==
  /\ turn.pc \in {"loaded", "asking"} /\ exists
  /\ i <= Len(rows) + 1 /\ Len(rows) + 1 <= i + Skew
  /\ j <= Len(rows) + 2 /\ Len(rows) + 2 <= j + Skew
  /\ rows' = Inserted(Inserted(rows, i, made + 1), j, made + 2)
  /\ made' = made + 2 /\ turns' = turns + 1
  /\ IF turn.pc = "asking" /\ turns' * 2 >= Threshold THEN Schedule ELSE UNCHANGED fold
  /\ turn' = NoTurn /\ prompt' = NoPrompt
  /\ UNCHANGED <<exists, ctx>>

(* A failure or a cancellation; the only end when the session is gone. *)
TurnAborts ==
  /\ turn.pc # "idle"
  /\ turn' = NoTurn /\ prompt' = NoPrompt
  /\ UNCHANGED <<exists, rows, ctx, turns, made, fold>>

(* delete_session takes the session's lock. *)
Delete ==
  /\ exists /\ Unlocked
  /\ exists' = FALSE /\ rows' = <<>> /\ ctx' = Blank /\ turns' = 0
  /\ UNCHANGED <<made, turn, prompt, fold>>

-----------------------------------------------------------------------------
(* The fold: it reads and asks the model without the lock, and persists under it. *)

FoldFrame == UNCHANGED <<exists, rows, turns, made, turn, prompt>>
FoldEnds == fold' = NoFold /\ UNCHANGED ctx /\ FoldFrame

ReadContext ==
  /\ fold.pc = "context" /\ exists
  /\ fold' = [fold EXCEPT !.pc = "count", !.base = ctx.upto, !.prior = ctx.summary]
  /\ UNCHANGED ctx /\ FoldFrame

Foldable(total) == total >= Threshold /\ total > RecentWindow /\ total - RecentWindow > fold.base

Count ==
  /\ fold.pc = "count" /\ Foldable(Len(rows))
  /\ fold' = [fold EXCEPT !.pc = "rows", !.total = Len(rows)]
  /\ UNCHANGED ctx /\ FoldFrame

Limit(unfolded) == IF unfolded <= BatchRows THEN unfolded ELSE BatchRows

(* The oldest rows not yet folded, as many as the token budget admits, at least
   one; n is that many. *)
ReadRows(n) ==
  /\ fold.pc = "rows"
  /\ n >= 1 /\ n <= Limit(fold.total - RecentWindow - fold.base)
  /\ fold.base + n <= Len(rows)
  /\ fold' = [fold EXCEPT !.pc = "asking", !.count = n,
                          !.took = {rows[i] : i \in fold.base + 1..fold.base + n}]
  /\ UNCHANGED ctx /\ FoldFrame

Summarized ==
  /\ fold.pc = "asking"
  /\ fold' = [fold EXCEPT !.pc = "persist"]
  /\ UNCHANGED ctx /\ FoldFrame

Fresh == exists /\ ctx.upto = fold.base

(* Mutant: the watermark is the end of what could be folded, not of what was. *)
PersistBoundary ==
  /\ fold.pc = "persist" /\ Unlocked /\ Fresh
  /\ ctx' = [summary |-> fold.prior \cup fold.took, upto |-> fold.total - RecentWindow]
  /\ fold' = NoFold
  /\ FoldFrame

Persist ==
  /\ fold.pc = "persist" /\ Unlocked /\ Fresh
  /\ ctx' = [summary |-> fold.prior \cup fold.took, upto |-> fold.base + fold.count]
  /\ fold' = NoFold
  /\ FoldFrame

Discard == fold.pc = "persist" /\ Unlocked /\ ~Fresh /\ FoldEnds

(* Nothing to do, no session, no agent, the model fails or says nothing, the
   process stops. *)
FoldFails == fold.pc # "none" /\ FoldEnds

Next ==
  \/ \E locked \in BOOLEAN : TurnStart(locked)
  \/ TurnReads \/ TurnAborts \/ Delete
  \/ \E i, j \in 1..MaxRows : TurnCommits(i, j)
  \/ ReadContext \/ Count \/ Summarized \/ Persist \/ Discard \/ FoldFails
  \/ \E n \in 1..MaxRows : ReadRows(n)

Spec == Init /\ [][Next]_vars

-----------------------------------------------------------------------------
TypeOK ==
  /\ exists \in BOOLEAN /\ rows \in Seq(Row) /\ turns \in Nat /\ made \in 0..MaxRows
  /\ ctx \in [summary : SUBSET Row, upto : 0..MaxRows]
  /\ turn \in [pc : {"idle", "loaded", "asking"}, locked : BOOLEAN]
  /\ prompt \in [memory : SUBSET Row, told : Seq(Row)]
  /\ fold \in [pc : {"none", "context", "count", "rows", "asking", "persist"},
               base : 0..MaxRows, prior : SUBSET Row, total : 0..MaxRows,
               took : SUBSET Row, count : 0..BatchRows]

(* The watermark is an offset into an order that new rows may enter before the
   end, so it means something only if the summary was made from exactly the rows
   before it, whatever was written, folded, or discarded since. *)
Faithful == exists => ctx.summary = {rows[i] : i \in 1..ctx.upto}

(* The most recent messages of a conversation stay verbatim: a fold that read
   its count before further turns, or after a pause, never reaches into them. *)
RecentVerbatim == ctx.upto > 0 => ctx.upto + RecentWindow <= Len(rows)

(* What the summary is made of: the rows before its watermark, and none of the window. *)
SummarySound == Faithful /\ RecentVerbatim

(* However far the fold lags, the model is given every committed message once,
   summarised or spelled out in order: nothing falls between watermark and
   window, nothing is told twice ("a fixed recent window would silently lose the
   gap before its watermark"). *)
NothingForgotten ==
  turn.pc = "asking" /\ exists
    => /\ \A i \in DOMAIN rows : (rows[i] \in prompt.memory) # (rows[i] \in Range(prompt.told))
       /\ prompt.memory \cup Range(prompt.told) = Range(rows)

(* "Delete a session and all of its messages" (delete_session): nothing of what
   was deleted is in the memory of the session a client then opens. *)
DeletedIsForgotten == ctx.summary \subseteq Range(rows)
=============================================================================
