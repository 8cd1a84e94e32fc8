--------------------------- MODULE StreamDelivery ---------------------------
(* One streamed answer (api/invoke.py): a producer task runs the pipeline and
   puts events on a bounded queue, a generator takes them off and sends them, and
   the response holds the slot and the session's lock until both are done.  The
   client may stall or go, the pipeline may fail or run out of time, and the
   delivery has a deadline of its own. *)
EXTENDS Naturals, Sequences

CONSTANTS
  QueueSize,  \* sse_queue_maxsize
  MaxDeltas,  \* bound: progress events of a pipeline
  Legacies    \* which asyncio.wait_for to run on: TRUE for that of Python 3.11
              \* and earlier, which makes what it waits for a task of its own

ASSUME StreamAssumption == QueueSize \in Nat \ {0} /\ MaxDeltas \in Nat /\ Legacies \subseteq BOOLEAN

VARIABLES
  legacy,    \* the wait_for this process runs on
  guard,     \* whether the response holds its slot and lock
  queue,     \* events put and not taken
  reader,    \* where the generator is
  closed,    \* consumer_closed
  writer,    \* where the producer task is
  verdict,   \* how the pipeline came out
  cancel,    \* the producer has been cancelled and not seen it
  orphan,    \* the pipeline runs on after its producer left it
  deltas,    \* progress events so far
  sent       \* history: what the client received, the end of the stream included

vars == <<legacy, guard, queue, reader, closed, writer, verdict, cancel, orphan, deltas, sent>>

Event == {"delta", "answer", "done", "error", "end"}

Init ==
  /\ legacy \in Legacies
  /\ guard = "held" /\ queue = <<>> /\ reader = "start" /\ closed = FALSE
  /\ writer = "none" /\ verdict = "none" /\ cancel = FALSE /\ orphan = FALSE
  /\ deltas = 0 /\ sent = <<>>

Room == Len(queue) < QueueSize
Over == writer \in {"none", "over"}

-----------------------------------------------------------------------------
(* The producer: _run_pipeline around _execute_pipeline. *)

WriterFrame == UNCHANGED <<legacy, guard, reader, closed, sent>>

Goto(place) == writer' = place /\ WriterFrame

StartPipeline ==
  /\ writer = "new" /\ ~cancel
  /\ Goto("pipeline") /\ UNCHANGED <<queue, verdict, cancel, orphan, deltas>>

Put(event) == Room /\ queue' = Append(queue, event)

(* The pipeline itself waits while the queue is full. *)
Progress ==
  /\ writer = "pipeline" /\ ~cancel /\ deltas < MaxDeltas
  /\ Put("delta") /\ deltas' = deltas + 1
  /\ Goto("pipeline") /\ UNCHANGED <<verdict, cancel, orphan>>

(* The old wait_for learns of the result a little later. *)
PipelineEnds(outcome) ==
  /\ writer = "pipeline" /\ ~cancel
  /\ verdict' = outcome
  /\ Goto(IF legacy THEN "returned" ELSE outcome)
  /\ UNCHANGED <<queue, cancel, orphan, deltas>>

(* A cancellation that arrives in between is dropped for the result. *)
LearnResult ==
  /\ writer = "returned"
  /\ cancel' = FALSE
  /\ Goto(verdict) /\ UNCHANGED <<queue, verdict, orphan, deltas>>

PipelineTimeout ==
  /\ writer = "pipeline" /\ ~cancel
  /\ verdict' = "error"
  /\ Goto("unwinding") /\ UNCHANGED <<queue, cancel, orphan, deltas>>

(* Mutant: a timeout ends the stream without a word. *)
UnwoundSilently ==
  /\ writer = "unwinding" /\ ~cancel
  /\ Goto("closing") /\ UNCHANGED <<queue, verdict, cancel, orphan, deltas>>

(* The cancelled turn has rolled back; a timeout is reported, a cancellation
   goes on up. *)
Unwound ==
  /\ writer = "unwinding" /\ ~cancel
  /\ Goto(IF verdict = "error" THEN "error" ELSE "closing")
  /\ UNCHANGED <<queue, verdict, cancel, orphan, deltas>>

PutAnswer ==
  /\ writer = "answer" /\ ~cancel /\ Put("answer")
  /\ Goto("done") /\ UNCHANGED <<verdict, cancel, orphan, deltas>>

PutLast(event) ==
  /\ writer = event /\ event \in {"done", "error"} /\ ~cancel /\ Put(event)
  /\ Goto("closing") /\ UNCHANGED <<verdict, cancel, orphan, deltas>>

(* Mutant: the end is signalled to a reader that may be gone. *)
CloseAndSignal ==
  /\ writer = "closing"
  /\ cancel' = FALSE
  /\ Goto("signal") /\ UNCHANGED <<queue, verdict, orphan, deltas>>

(* The database session is closed; the end is signalled to a reader that is
   still there. *)
CloseSession ==
  /\ writer = "closing"
  /\ cancel' = FALSE
  /\ Goto(IF closed THEN "over" ELSE "signal")
  /\ UNCHANGED <<queue, verdict, orphan, deltas>>

Signal ==
  /\ writer = "signal" /\ ~cancel /\ Put("end")
  /\ Goto("over") /\ UNCHANGED <<verdict, cancel, orphan, deltas>>

(* The cancellation reaches the await the producer stands at.  The old wait_for
   leaves a pipeline that was already being cancelled for its timeout behind. *)
Interrupted ==
  /\ cancel /\ writer \notin {"returned", "closing"}
  /\ cancel' = FALSE
  /\ Goto(CASE writer = "pipeline" -> "unwinding"
            [] writer \in {"new", "signal"} -> "over"
            [] OTHER -> "closing")
  /\ orphan' = (legacy /\ writer = "unwinding")
  /\ UNCHANGED <<queue, verdict, deltas>>

OrphanEnds ==
  /\ orphan /\ orphan' = FALSE
  /\ UNCHANGED <<legacy, guard, queue, reader, closed, writer, verdict, cancel, deltas, sent>>

-----------------------------------------------------------------------------
(* The reader: _event_generator, driven by the response. *)

Serve ==
  /\ reader = "start"
  /\ reader' = "taking" /\ writer' = "new"
  /\ UNCHANGED <<legacy, guard, queue, closed, verdict, cancel, orphan, deltas, sent>>

Take ==
  /\ reader = "taking" /\ queue # <<>> /\ Head(queue) # "end"
  /\ reader' = Head(queue) /\ queue' = Tail(queue)
  /\ UNCHANGED <<legacy, guard, closed, writer, verdict, cancel, orphan, deltas, sent>>

(* Only as fast as the client reads. *)
Send ==
  /\ reader \in Event
  /\ sent' = Append(sent, reader) /\ reader' = "taking"
  /\ UNCHANGED <<legacy, guard, queue, closed, writer, verdict, cancel, orphan, deltas>>

(* The generator's finally: the reader is gone for good, the producer is
   cancelled if it still runs. *)
StopReading ==
  /\ reader' = "leaving" /\ closed' = TRUE /\ cancel' = ~Over
  /\ UNCHANGED <<legacy, guard, writer, verdict, orphan, deltas>>

EndOfStream ==
  /\ reader = "taking" /\ queue # <<>> /\ Head(queue) = "end"
  /\ queue' = Tail(queue) /\ sent' = Append(sent, "end")
  /\ StopReading

(* The client goes, a send fails, or the delivery deadline passes. *)
Broken ==
  /\ reader = "taking" \/ reader \in Event
  /\ StopReading /\ UNCHANGED <<queue, sent>>

NeverServed ==
  /\ reader = "start" /\ reader' = "leaving"
  /\ UNCHANGED <<legacy, guard, queue, closed, writer, verdict, cancel, orphan, deltas, sent>>

(* Mutant: the slot and the lock go before the producer has ended. *)
ReleaseAtOnce ==
  /\ reader = "leaving"
  /\ reader' = "gone" /\ guard' = "released"
  /\ UNCHANGED <<legacy, queue, closed, writer, verdict, cancel, orphan, deltas, sent>>

(* aclose waits for the producer, then the slot and the lock are given back. *)
Release ==
  /\ reader = "leaving" /\ Over
  /\ reader' = "gone" /\ guard' = "released"
  /\ UNCHANGED <<legacy, queue, closed, writer, verdict, cancel, orphan, deltas, sent>>

Producer ==
  \/ StartPipeline \/ LearnResult \/ Unwound \/ PutAnswer
  \/ \E event \in {"done", "error"} : PutLast(event)
  \/ CloseSession \/ Signal \/ Interrupted

Next ==
  \/ Producer \/ Progress \/ PipelineTimeout \/ OrphanEnds
  \/ \E outcome \in {"answer", "error"} : PipelineEnds(outcome)
  \/ Serve \/ Take \/ Send \/ EndOfStream \/ Broken \/ NeverServed \/ Release

Spec == Init /\ [][Next]_vars

(* A runnable coroutine runs; a pipeline and a delivery end by their time limits
   if by nothing else.  Nothing makes a client read. *)
FairSpec ==
  /\ Spec /\ WF_vars(Producer) /\ WF_vars(PipelineTimeout)
  /\ WF_vars(Serve) /\ WF_vars(Take) /\ WF_vars(EndOfStream) /\ WF_vars(Broken) /\ WF_vars(Release)

-----------------------------------------------------------------------------
TypeOK ==
  /\ legacy \in BOOLEAN /\ guard \in {"held", "released"} /\ closed \in BOOLEAN
  /\ queue \in Seq(Event) /\ Len(queue) <= QueueSize
  /\ reader \in {"start", "taking", "leaving", "gone"} \cup (Event \ {"end"})
  /\ writer \in {"none", "new", "pipeline", "returned", "unwinding", "answer", "done", "error",
                 "closing", "signal", "over"}
  /\ verdict \in {"none", "answer", "error"}
  /\ cancel \in BOOLEAN /\ orphan \in BOOLEAN /\ deltas \in 0..MaxDeltas /\ sent \in Seq(Event)

(* "Close it while the slot/lock are still held so its pipeline finishes
   cancellation before another turn enters the session"
   (_InvocationStreamingResponse.__call__): once the lock is free nothing of the
   turn runs any more, whatever ended the stream.  With the old wait_for only the
   roll-back of a turn already cancelled for its timeout may. *)
NothingOutlivesItsLock == guard = "released" => Over /\ (orphan => legacy /\ verdict = "error")

(* A client that reads to the end has a verdict: an answer and its "done", or
   one error, and nothing after it - failures, timeouts and full queues included. *)
Ended == sent # <<>> /\ sent[Len(sent)] = "end"
EndsWithVerdict ==
  Ended =>
    \E k \in 0..Len(sent) :
      /\ \A i \in 1..k : sent[i] = "delta"
      /\ SubSeq(sent, k + 1, Len(sent)) \in {<<"answer", "done", "end">>, <<"error", "end">>}

(* Every stream gives its slot and lock back, with a client that stalls or a
   queue that is full, on the wait_for of Python 3.12. *)
GivesBack == ~legacy => <>(guard = "released")
=============================================================================
