------------------------ MODULE StreamDelivery_proofs ------------------------
(***************************************************************************)
(* No turn outlives its lock and a stream carries one verdict, for every   *)
(* queue size and every pipeline.                                          *)
(***************************************************************************)
EXTENDS StreamDelivery, SequenceTheorems, TLAPS

(* The producer is cancelled only by a reader that has left, and once. *)
Cancelled ==
  /\ closed => reader \in {"leaving", "gone"}
  /\ cancel => closed /\ ~Over
  /\ writer = "unwinding" /\ verdict # "error" => ~cancel /\ closed

(* What the old wait_for leaves behind was being cancelled for its timeout. *)
Left ==
  /\ writer = "returned" => verdict # "none"
  /\ orphan => legacy /\ verdict = "error" /\ writer \in {"closing", "signal", "over"}

Guarded ==
  /\ guard = "released" <=> reader = "gone"
  /\ reader = "gone" => Over
  /\ reader = "start" => writer = "none"

IInv == TypeOK /\ Cancelled /\ Left /\ Guarded

LEMMA QueueSteps ==
  ASSUME TypeOK
  PROVE  /\ \A e \in Event : Put(e) => queue' \in Seq(Event) /\ Len(queue') <= QueueSize
         /\ queue # <<>> => /\ Head(queue) \in Event
                            /\ Tail(queue) \in Seq(Event) /\ Len(Tail(queue)) <= QueueSize
         /\ \A e \in Event : Append(sent, e) \in Seq(Event)
<1> USE StreamAssumption
<1>1. queue \in Seq(Event) /\ sent \in Seq(Event) /\ Len(queue) \in Nat /\ Len(queue) <= QueueSize
  BY LenProperties DEF TypeOK
<1>2. ASSUME NEW e \in Event, Put(e) PROVE queue' \in Seq(Event) /\ Len(queue') <= QueueSize
  <2>1. Append(queue, e) \in Seq(Event) /\ Len(Append(queue, e)) = Len(queue) + 1
    BY <1>1, AppendProperties
  <2> QED BY <1>1, <1>2, <2>1 DEF Put, Room
<1>3. ASSUME queue # <<>>
      PROVE  Head(queue) \in Event /\ Tail(queue) \in Seq(Event) /\ Len(Tail(queue)) <= QueueSize
  <2>1. Head(queue) \in Event /\ Tail(queue) \in Seq(Event) /\ Len(Tail(queue)) = Len(queue) - 1
    BY <1>1, <1>3, HeadTailProperties
  <2> QED BY <1>1, <2>1
<1>4. \A e \in Event : Append(sent, e) \in Seq(Event)
  BY <1>1, AppendProperties
<1> QED BY <1>2, <1>3, <1>4

LEMMA Initially == Init => IInv
<1> SUFFICES ASSUME Init PROVE IInv
  OBVIOUS
<1> USE StreamAssumption DEF Init
<1>1. <<>> \in Seq(Event) /\ Len(<<>>) = 0
  OBVIOUS
<1>2. TypeOK
  <2>1. queue \in Seq(Event) /\ Len(queue) <= QueueSize /\ sent \in Seq(Event)
    BY <1>1
  <2>2. legacy \in BOOLEAN
    BY Zenon
  <2>3. deltas \in 0..MaxDeltas /\ guard = "held" /\ reader = "start" /\ writer = "none" /\ verdict = "none"
    OBVIOUS
  <2>4. closed \in BOOLEAN /\ cancel \in BOOLEAN /\ orphan \in BOOLEAN
    OBVIOUS
  <2> QED BY <2>1, <2>2, <2>3, <2>4 DEF TypeOK
<1>3. Cancelled /\ Left /\ Guarded
  BY DEF Cancelled, Left, Guarded, Over
<1> QED BY <1>2, <1>3 DEF IInv

LEMMA Inductive == IInv /\ [Next]_vars => IInv'
<1> SUFFICES ASSUME IInv, [Next]_vars PROVE IInv'
  OBVIOUS
<1> USE StreamAssumption DEF IInv, Cancelled, Left, Guarded, Over
<1>0. /\ \A e \in Event : Put(e) => queue' \in Seq(Event) /\ Len(queue') <= QueueSize
      /\ queue # <<>> => /\ Head(queue) \in Event
                         /\ Tail(queue) \in Seq(Event) /\ Len(Tail(queue)) <= QueueSize
      /\ \A e \in Event : Append(sent, e) \in Seq(Event)
  BY QueueSteps
<1> USE DEF Goto, WriterFrame
<1>1. CASE StartPipeline
  BY <1>1 DEF StartPipeline, TypeOK
<1>2. CASE LearnResult
  BY <1>2 DEF LearnResult, TypeOK
<1>3. CASE Unwound
  BY <1>3 DEF Unwound, TypeOK
<1>4. CASE PutAnswer
  <2>1. queue' \in Seq(Event) /\ Len(queue') <= QueueSize
    BY <1>0, <1>4 DEF PutAnswer, Event
  <2> QED BY <1>4, <2>1 DEF PutAnswer, TypeOK
<1>5. ASSUME NEW event \in {"done", "error"}, PutLast(event) PROVE IInv'
  <2>1. queue' \in Seq(Event) /\ Len(queue') <= QueueSize
    BY <1>0, <1>5 DEF PutLast, Event
  <2> QED BY <1>5, <2>1 DEF PutLast, TypeOK
<1>6. CASE CloseSession
  BY <1>6 DEF CloseSession, TypeOK
<1>7. CASE Signal
  <2>1. queue' \in Seq(Event) /\ Len(queue') <= QueueSize
    BY <1>0, <1>7 DEF Signal, Event
  <2> QED BY <1>7, <2>1 DEF Signal, TypeOK
<1>8. CASE Interrupted
  <2>1. writer = "unwinding" => verdict = "error"
    BY <1>8 DEF Interrupted
  <2>2. /\ writer' \in {"unwinding", "over", "closing"}
        /\ writer' = "unwinding" => writer = "pipeline"
        /\ writer = "unwinding" => writer' = "closing"
        /\ cancel' = FALSE /\ closed' = closed /\ closed
    BY <1>8 DEF Interrupted, TypeOK
  <2>3. UNCHANGED <<legacy, guard, reader, closed, sent, queue, verdict, deltas>>
    BY <1>8 DEF Interrupted
  <2>4. orphan' = (legacy /\ writer = "unwinding")
    BY <1>8 DEF Interrupted
  <2>5. TypeOK'
    BY <2>2, <2>3, <2>4 DEF TypeOK
  <2>6. reader # "gone"
    BY <1>8 DEF Interrupted
  <2>7. orphan' => legacy' /\ verdict' = "error" /\ writer' = "closing"
    BY <2>1, <2>2, <2>3, <2>4
  <2>8. Cancelled'
    BY <1>8, <2>1, <2>2, <2>3 DEF TypeOK
  <2>9. Left'
    BY <2>2, <2>7
  <2>10. Guarded'
    BY <2>2, <2>3, <2>6
  <2> QED BY <2>5, <2>8, <2>9, <2>10
<1>9. CASE Progress
  <2>1. queue' \in Seq(Event) /\ Len(queue') <= QueueSize
    BY <1>0, <1>9 DEF Progress, Event
  <2> QED BY <1>9, <2>1 DEF Progress, TypeOK
<1>10. CASE PipelineTimeout
  <2>1. /\ writer = "pipeline" /\ ~cancel /\ writer' = "unwinding" /\ verdict' = "error"
        /\ UNCHANGED <<legacy, guard, reader, closed, sent, queue, cancel, orphan, deltas>>
    BY <1>10 DEF PipelineTimeout
  <2>2. TypeOK'
    BY <2>1 DEF TypeOK
  <2>3. ~orphan
    BY <2>1
  <2> QED BY <2>1, <2>2, <2>3
<1>11. CASE OrphanEnds
  BY <1>11 DEF OrphanEnds, TypeOK
<1>12. ASSUME NEW outcome \in {"answer", "error"}, PipelineEnds(outcome) PROVE IInv'
  BY <1>12 DEF PipelineEnds, TypeOK
<1>13. CASE Serve
  <2>1. /\ reader = "start" /\ reader' = "taking" /\ writer' = "new"
        /\ UNCHANGED <<legacy, guard, queue, closed, verdict, cancel, orphan, deltas, sent>>
    BY <1>13 DEF Serve
  <2>2. TypeOK'
    BY <2>1 DEF TypeOK
  <2>3. ~orphan /\ ~cancel /\ ~closed
    BY <2>1
  <2> QED BY <2>1, <2>2, <2>3
<1>14. CASE Take
  <2>1. /\ queue' \in Seq(Event) /\ Len(queue') <= QueueSize
        /\ reader' \in Event \ {"end"} /\ reader' \notin {"leaving", "gone", "start"}
    BY <1>0, <1>14 DEF Take, Event
  <2>2. reader = "taking" /\ UNCHANGED <<legacy, guard, closed, writer, verdict, cancel, orphan, deltas, sent>>
    BY <1>14 DEF Take
  <2>3. TypeOK'
    BY <2>1, <2>2 DEF TypeOK
  <2> QED BY <2>1, <2>2, <2>3
<1>15. CASE Send
  <2>1. sent' \in Seq(Event) /\ reader \notin {"leaving", "gone", "start"} /\ reader' = "taking"
    BY <1>0, <1>15 DEF Send, Event
  <2>2. UNCHANGED <<legacy, guard, queue, closed, writer, verdict, cancel, orphan, deltas>>
    BY <1>15 DEF Send
  <2>3. TypeOK'
    BY <2>1, <2>2 DEF TypeOK
  <2> QED BY <2>1, <2>2, <2>3
<1>16. CASE EndOfStream
  <2>1. queue' \in Seq(Event) /\ Len(queue') <= QueueSize /\ sent' \in Seq(Event)
    BY <1>0, <1>16 DEF EndOfStream
  <2> QED BY <1>16, <2>1 DEF EndOfStream, StopReading, TypeOK
<1>17. CASE Broken
  BY <1>17 DEF Broken, StopReading, TypeOK, Event
<1>18. CASE NeverServed
  BY <1>18 DEF NeverServed, TypeOK
<1>19. CASE Release
  BY <1>19 DEF Release, TypeOK
<1>20. CASE UNCHANGED vars
  BY <1>20 DEF vars, TypeOK
<1> QED
  BY <1>1, <1>2, <1>3, <1>4, <1>5, <1>6, <1>7, <1>8, <1>9, <1>10, <1>11, <1>12, <1>13, <1>14,
     <1>15, <1>16, <1>17, <1>18, <1>19, <1>20 DEF Next, Producer

(* A slot and a session's lock are given back only when nothing of the turn
   runs any more (_InvocationStreamingResponse.__call__), whatever the queue holds
   and wherever a disconnect, a failure or a time limit met the producer. *)
THEOREM NoTurnOutlives == Spec => []NothingOutlivesItsLock
<1>1. IInv => NothingOutlivesItsLock
  BY DEF IInv, Guarded, Left, NothingOutlivesItsLock
<1> QED BY Initially, Inductive, <1>1, PTL DEF Spec

(* The queue never holds more than its bound, a cancellation never meets a state
   the producer does not have (_run_pipeline, _event_generator). *)
THEOREM StreamTyped == Spec => []TypeOK
<1>1. IInv => TypeOK
  BY DEF IInv
<1> QED BY Initially, Inductive, <1>1, PTL DEF Spec

-----------------------------------------------------------------------------
(* What a client that reads to the end has seen. *)

(* All that was put, in order: received, in the reader's hands, and waiting. *)
Read == IF reader \in Event THEN Append(sent, reader) ELSE sent
Flow == Read \o queue

(* Progress, and then this. *)
Tells(s, n, ending) ==
  /\ Len(s) = n + Len(ending)
  /\ \A i \in 1..n : s[i] = "delta"
  /\ \A i \in 1..Len(ending) : s[n + i] = ending[i]

Endings(place) ==
  CASE place = "done" -> {<<"answer">>}
    [] place \in {"closing", "signal"} -> {<<"answer", "done">>, <<"error">>}
    [] place = "over" -> {<<"answer", "done", "end">>, <<"error", "end">>}
    [] OTHER -> {<<>>}

(* The strengthening: while the reader reads, what was put tells how far the producer *)
(* is, and the end is not yet received.                                               *)
StoryInv ==
  /\ EndsWithVerdict
  /\ ~closed => /\ \E n \in Nat, ending \in Endings(writer) : Tells(Flow, n, ending)
                /\ \A i \in 1..Len(sent) : sent[i] # "end"

(* Putting an event at the end of the queue puts it at the end of it all. *)
LEMMA PutAtEnd ==
  ASSUME NEW s \in Seq(Event), NEW q \in Seq(Event), NEW e \in Event
  PROVE  s \o Append(q, e) = Append(s \o q, e)
<1>1. Append(q, e) = q \o <<e>> /\ s \o q \in Seq(Event) /\ <<e>> \in Seq(Event)
  BY AppendIsConcat, ConcatProperties
<1>2. Append(s \o q, e) = (s \o q) \o <<e>>
  BY <1>1, AppendIsConcat
<1> QED BY <1>1, <1>2, ConcatAssociative

(* Taking one over changes nothing of it all. *)
LEMMA TakeOver ==
  ASSUME NEW s \in Seq(Event), NEW q \in Seq(Event), q # <<>>
  PROVE  Append(s, Head(q)) \o Tail(q) = s \o q
<1>1. Head(q) \in Event /\ Tail(q) \in Seq(Event) /\ <<Head(q)>> \in Seq(Event)
  BY HeadTailProperties
<1>2. q = <<Head(q)>> \o Tail(q)
  <2> DEFINE t == <<Head(q)>> \o Tail(q)
  <2>1. t \in Seq(Event) /\ Len(t) = Len(q)
    BY <1>1, ConcatProperties, HeadTailProperties, LenProperties
  <2>2. ASSUME NEW i \in 1..Len(q) PROVE q[i] = t[i]
    BY <1>1, ConcatProperties, HeadTailProperties, LenProperties
  <2> QED BY <2>1, <2>2, SeqEqual
<1>3. Append(s, Head(q)) = s \o <<Head(q)>>
  BY <1>1, AppendIsConcat
<1> QED BY <1>1, <1>2, <1>3, ConcatAssociative

(* What may follow progress so far, one event later. *)
LEMMA Continues ==
  ASSUME NEW s \in Seq(Event), NEW n \in Nat, NEW e \in Event
  PROVE  /\ Tells(s, n, <<>>) /\ e = "delta" => Tells(Append(s, e), n + 1, <<>>)
         /\ Tells(s, n, <<>>) => Tells(Append(s, e), n, <<e>>)
         /\ Tells(s, n, <<"answer">>) => Tells(Append(s, e), n, <<"answer", e>>)
         /\ Tells(s, n, <<"error">>) => Tells(Append(s, e), n, <<"error", e>>)
         /\ Tells(s, n, <<"answer", "done">>) => Tells(Append(s, e), n, <<"answer", "done", e>>)
<1>1. /\ Len(Append(s, e)) = Len(s) + 1 /\ Len(s) \in Nat
      /\ \A i \in 1..Len(s) : Append(s, e)[i] = s[i]
      /\ Append(s, e)[Len(s) + 1] = e
  BY AppendProperties, LenProperties
<1> QED BY <1>1 DEF Tells

(* An end comes last, and only from a producer that is over. *)
LEMMA EndingsTyped ==
  ASSUME NEW place, NEW e \in Endings(place)
  PROVE  /\ e \in Seq(Event) /\ Len(e) \in Nat
         /\ \A i \in 1..Len(e) : e[i] = "end" => i = Len(e) /\ place = "over"
<1>1. CASE place = "over"
  <2>1. CASE e = <<"answer", "done", "end">>
    <3>1. e \in Seq(Event) /\ Len(e) = 3
      BY <2>1 DEF Event
    <3>2. e[1] = "answer" /\ e[2] = "done"
      BY <2>1
    <3>3. \A i \in 1..3 : i # 3 => i = 1 \/ i = 2
      OBVIOUS
    <3> QED BY <1>1, <3>1, <3>2, <3>3
  <2>2. CASE e = <<"error", "end">>
    <3>1. e \in Seq(Event) /\ Len(e) = 2
      BY <2>2 DEF Event
    <3>2. e[1] = "error"
      BY <2>2
    <3>3. \A i \in 1..2 : i # 2 => i = 1
      OBVIOUS
    <3> QED BY <1>1, <3>1, <3>2, <3>3
  <2> QED BY <1>1, <2>1, <2>2 DEF Endings
<1>2. CASE place # "over"
  <2>1. e \in {<<>>, <<"answer">>, <<"answer", "done">>, <<"error">>}
    BY <1>2 DEF Endings
  <2>2. CASE e = <<"answer", "done">>
    BY <2>2 DEF Event
  <2>3. CASE e = <<>>
    BY <2>3
  <2>4. CASE e = <<"answer">>
    BY <2>4 DEF Event
  <2>5. CASE e = <<"error">>
    BY <2>5 DEF Event
  <2> QED BY <2>1, <2>2, <2>3, <2>4, <2>5
<1> QED BY <1>1, <1>2

(* The whole of a story that has come to its end, as EndsWithVerdict says it. *)
LEMMA ToldToTheEnd ==
  ASSUME NEW s \in Seq(Event), NEW n \in Nat, NEW ending \in Endings("over"), Tells(s, n, ending)
  PROVE  \E k \in 0..Len(s) :
           /\ \A i \in 1..k : s[i] = "delta"
           /\ SubSeq(s, k + 1, Len(s)) \in {<<"answer", "done", "end">>, <<"error", "end">>}
<1>1. ending \in {<<"answer", "done", "end">>, <<"error", "end">>}
  BY DEF Endings
<1>2. ending \in Seq(Event) /\ Len(ending) \in Nat
  BY EndingsTyped
<1>3. /\ Len(s) = n + Len(ending) /\ Len(s) \in Nat
      /\ \A i \in 1..n : s[i] = "delta"
      /\ \A i \in 1..Len(ending) : s[n + i] = ending[i]
  BY <1>2, LenProperties DEF Tells
<1> DEFINE rest == SubSeq(s, n + 1, Len(s))
<1>4. /\ rest \in Seq(Event) /\ Len(rest) = Len(ending)
      /\ \A i \in 1..Len(ending) : rest[i] = s[n + i]
  <2>1. \A i \in n + 1 .. Len(s) : s[i] \in Event
    BY <1>3, ElementOfSeq
  <2>2. n + 1 \in Int /\ Len(s) \in Int /\ Len(s) - (n + 1) + 1 = Len(ending)
    BY <1>2, <1>3
  <2>3. /\ rest \in Seq(Event) /\ Len(rest) = IF n + 1 <= Len(s) THEN Len(s) - (n + 1) + 1 ELSE 0
        /\ \A i \in 1..Len(s) - (n + 1) + 1 : rest[i] = s[n + 1 + i - 1]
    BY <2>1, <2>2, SubSeqProperties
  <2> QED BY <1>2, <1>3, <2>2, <2>3
<1>5. rest = ending
  BY <1>2, <1>3, <1>4, SeqEqual
<1>6. n \in 0..Len(s)
  BY <1>2, <1>3
<1> QED BY <1>1, <1>3, <1>5, <1>6

(* The reader meets the end only when it is all that is left, and everything before *)
(* it has been received.                                                            *)
LEMMA EndIsLast ==
  ASSUME IInv, StoryInv, EndOfStream
  PROVE  EndsWithVerdict'
<1>1. /\ reader = "taking" /\ queue # <<>> /\ Head(queue) = "end" /\ ~closed
      /\ sent' = Append(sent, "end") /\ sent \in Seq(Event) /\ queue \in Seq(Event)
  BY DEF EndOfStream, IInv, TypeOK, Cancelled
<1>2. Flow = sent \o queue
  BY <1>1 DEF Flow, Read, Event
<1>3. /\ Len(queue) \in Nat \ {0} /\ Len(sent) \in Nat /\ queue[1] = "end"
      /\ Flow \in Seq(Event) /\ Len(Flow) = Len(sent) + Len(queue)
      /\ \A i \in 1..Len(sent) : Flow[i] = sent[i]
      /\ Flow[Len(sent) + 1] = "end"
  BY <1>1, <1>2, ConcatProperties, LenProperties, HeadTailProperties, EmptySeq
<1>4. PICK n \in Nat, ending \in Endings(writer) : Tells(Flow, n, ending)
  BY <1>1 DEF StoryInv
<1>5. /\ \A e \in Endings(writer) : \A i \in 1..Len(e) : e[i] = "end" => writer = "over" /\ i = Len(e)
      /\ Len(ending) \in Nat
  BY EndingsTyped
<1>6. writer = "over" /\ Len(Flow) = Len(sent) + 1
  <2>1. Len(sent) + 1 \in 1..n + Len(ending) /\ Len(Flow) = n + Len(ending)
    <3>1. Len(Flow) = n + Len(ending)
      BY <1>4 DEF Tells
    <3> QED BY <1>3, <1>5, <3>1
  <2>2. Len(sent) + 1 > n
    BY <1>3, <1>4, <2>1 DEF Tells
  <2>3. Len(sent) + 1 - n \in 1..Len(ending) /\ ending[Len(sent) + 1 - n] = "end"
    <3>1. Len(sent) + 1 - n \in 1..Len(ending) /\ n + (Len(sent) + 1 - n) = Len(sent) + 1
      BY <1>3, <1>5, <2>1, <2>2
    <3> QED BY <1>3, <1>4, <3>1 DEF Tells
  <2> QED BY <1>3, <1>5, <2>1, <2>3
<1>7. sent' = Flow
  <2>1. /\ sent' \in Seq(Event) /\ Len(sent') = Len(sent) + 1
        /\ \A i \in 1..Len(sent) : sent'[i] = sent[i]
        /\ sent'[Len(sent) + 1] = "end"
    BY <1>1, AppendProperties DEF Event
  <2>2. ASSUME NEW i \in 1..Len(sent') PROVE sent'[i] = Flow[i]
    <3>1. i \in 1..Len(sent) \/ i = Len(sent) + 1
      BY <1>3, <2>1
    <3>2. CASE i \in 1..Len(sent)
      BY <1>3, <2>1, <3>2
    <3>3. CASE i = Len(sent) + 1
      BY <1>3, <2>1, <3>3
    <3> QED BY <3>1, <3>2, <3>3
  <2>3. Len(sent') = Len(Flow)
    BY <1>6, <2>1
  <2> QED BY <1>3, <2>1, <2>2, <2>3, SeqEqual
<1>8. \E k \in 0..Len(Flow) :
        /\ \A i \in 1..k : Flow[i] = "delta"
        /\ SubSeq(Flow, k + 1, Len(Flow)) \in {<<"answer", "done", "end">>, <<"error", "end">>}
  BY <1>3, <1>4, <1>6, ToldToTheEnd
<1> QED BY <1>7, <1>8 DEF EndsWithVerdict

(* Nothing has been put. *)
LEMMA StoryInit == Init => StoryInv
<1> SUFFICES ASSUME Init PROVE StoryInv
  OBVIOUS
<1>1. sent = <<>> /\ queue = <<>> /\ reader = "start" /\ writer = "none"
  BY DEF Init
<1>2. Flow = <<>>
  BY <1>1 DEF Flow, Read, Event
<1>3. Tells(Flow, 0, <<>>) /\ <<>> \in Endings(writer)
  BY <1>1, <1>2 DEF Tells, Endings
<1> QED BY <1>1, <1>3 DEF StoryInv, EndsWithVerdict, Ended

(* The producer goes on, and puts what belongs there. *)
LEMMA ProducerTells ==
  ASSUME IInv, StoryInv, Producer \/ Progress \/ PipelineTimeout
                         \/ \E outcome \in {"answer", "error"} : PipelineEnds(outcome)
  PROVE  StoryInv'
<1>1. /\ UNCHANGED <<reader, closed, sent>>
      /\ sent \in Seq(Event) /\ queue \in Seq(Event) /\ Read \in Seq(Event) /\ Flow \in Seq(Event)
  <2>1. UNCHANGED <<reader, closed, sent>>
    BY DEF Producer, StartPipeline, LearnResult, Unwound, PutAnswer, PutLast, CloseSession, Signal,
           Interrupted, Progress, PipelineTimeout, PipelineEnds, Goto, WriterFrame
  <2>2. sent \in Seq(Event) /\ queue \in Seq(Event)
    BY DEF IInv, TypeOK
  <2>3. Read \in Seq(Event)
    BY <2>2, AppendProperties DEF Read
  <2> QED BY <2>1, <2>2, <2>3, ConcatProperties DEF Flow
<1>2. EndsWithVerdict'
  BY <1>1 DEF StoryInv, EndsWithVerdict, Ended
<1> SUFFICES ASSUME ~closed PROVE \E n \in Nat, ending \in Endings(writer') : Tells(Flow', n, ending)
  BY <1>1, <1>2 DEF StoryInv
<1>3. ~cancel
  BY DEF IInv, Cancelled
<1>4. PICK n \in Nat, ending \in Endings(writer) : Tells(Flow, n, ending)
  BY DEF StoryInv
<1>5. ASSUME NEW e \in Event, queue' = Append(queue, e) PROVE Flow' = Append(Flow, e)
  BY <1>1, <1>5, PutAtEnd DEF Flow, Read
<1>6. ASSUME UNCHANGED queue PROVE Flow' = Flow
  BY <1>1, <1>6 DEF Flow, Read
<1>7. CASE StartPipeline \/ LearnResult \/ Unwound \/ PipelineTimeout
           \/ \E outcome \in {"answer", "error"} : PipelineEnds(outcome)
  <2>1. /\ UNCHANGED queue
        /\ writer \in {"new", "returned", "unwinding", "pipeline"}
        /\ writer' \in {"pipeline", "answer", "error", "unwinding", "returned"}
    BY <1>7 DEF StartPipeline, LearnResult, Unwound, PipelineTimeout, PipelineEnds, Goto, IInv, TypeOK,
                Cancelled, Left
  <2>2. ending = <<>> /\ <<>> \in Endings(writer')
    BY <2>1 DEF Endings
  <2> QED BY <1>4, <1>6, <2>1, <2>2
<1>8. CASE Progress
  <2>1. writer = "pipeline" /\ writer' = "pipeline" /\ queue' = Append(queue, "delta")
    BY <1>8 DEF Progress, Goto, Put
  <2>2. ending = <<>> /\ <<>> \in Endings(writer')
    BY <2>1 DEF Endings
  <2>3. Flow' = Append(Flow, "delta")
    BY <1>5, <2>1 DEF Event
  <2>4. Tells(Flow', n + 1, <<>>)
    BY <1>1, <1>4, <2>2, <2>3, Continues DEF Event
  <2> QED BY <2>2, <2>4
<1>9. CASE PutAnswer
  <2>1. writer = "answer" /\ writer' = "done" /\ queue' = Append(queue, "answer")
    BY <1>9 DEF PutAnswer, Goto, Put
  <2>2. ending = <<>> /\ <<"answer">> \in Endings(writer')
    BY <2>1 DEF Endings
  <2> QED BY <1>1, <1>4, <1>5, <2>1, <2>2, Continues DEF Event
<1>10. ASSUME NEW event \in {"done", "error"}, PutLast(event)
       PROVE  \E m \in Nat, e \in Endings(writer') : Tells(Flow', m, e)
  <2>1. writer = event /\ writer' = "closing" /\ queue' = Append(queue, event)
    BY <1>10 DEF PutLast, Goto, Put
  <2>2. ending = (IF event = "done" THEN <<"answer">> ELSE <<>>)
        /\ {<<"answer", "done">>, <<"error">>} \subseteq Endings(writer')
    BY <2>1 DEF Endings
  <2> QED BY <1>1, <1>4, <1>5, <2>1, <2>2, Continues DEF Event
<1>11. CASE CloseSession
  <2>1. writer = "closing" /\ writer' = "signal" /\ UNCHANGED queue
    BY <1>11 DEF CloseSession, Goto
  <2>2. Endings(writer') = Endings(writer)
    BY <2>1 DEF Endings
  <2> QED BY <1>4, <1>6, <2>1, <2>2
<1>12. CASE Signal
  <2>1. writer = "signal" /\ writer' = "over" /\ queue' = Append(queue, "end")
    BY <1>12 DEF Signal, Goto, Put
  <2>2. ending \in {<<"answer", "done">>, <<"error">>}
        /\ {<<"answer", "done", "end">>, <<"error", "end">>} \subseteq Endings(writer')
    BY <2>1 DEF Endings
  <2> QED BY <1>1, <1>4, <1>5, <2>1, <2>2, Continues DEF Event
<1>13. ~Interrupted
  BY <1>3 DEF Interrupted
<1> QED BY <1>7, <1>8, <1>9, <1>10, <1>11, <1>12, <1>13 DEF Producer

(* The reader passes on what was put, and changes nothing of it. *)
LEMMA ReaderTells ==
  ASSUME IInv, StoryInv, OrphanEnds \/ Serve \/ Take \/ Send \/ EndOfStream \/ Broken
                         \/ NeverServed \/ Release \/ UNCHANGED vars
  PROVE  StoryInv'
<1>1. sent \in Seq(Event) /\ queue \in Seq(Event)
  BY DEF IInv, TypeOK
<1>2. CASE OrphanEnds \/ UNCHANGED vars \/ NeverServed \/ Release
  <2>1. UNCHANGED <<writer, closed, sent, queue>>
    BY <1>2 DEF OrphanEnds, vars, NeverServed, Release
  <2>2. Read' = Read
    BY <1>2, <2>1 DEF OrphanEnds, vars, NeverServed, Release, Read, Event
  <2> QED BY <2>1, <2>2 DEF StoryInv, EndsWithVerdict, Ended, Flow
<1>3. CASE Serve
  <2>1. UNCHANGED <<closed, sent, queue>> /\ Read' = Read /\ writer = "none" /\ writer' = "new"
    BY <1>3 DEF Serve, Read, Event, IInv, Guarded
  <2>2. Endings(writer') = Endings(writer)
    BY <2>1 DEF Endings
  <2> QED BY <2>1, <2>2 DEF StoryInv, EndsWithVerdict, Ended, Flow
<1>4. CASE Take
  <2>1. /\ UNCHANGED <<closed, sent, writer>> /\ queue # <<>> /\ queue' = Tail(queue)
        /\ reader = "taking" /\ reader' = Head(queue)
    BY <1>4 DEF Take
  <2>2. Head(queue) \in Event
    BY <1>1, <2>1, HeadTailProperties
  <2>3. Flow' = Flow
    BY <1>1, <2>1, <2>2, TakeOver DEF Flow, Read, Event
  <2> QED BY <2>1, <2>3 DEF StoryInv, EndsWithVerdict, Ended
<1>5. CASE Send
  <2>1. /\ UNCHANGED <<closed, queue, writer>> /\ reader \in Event \ {"end"} /\ reader' = "taking"
        /\ sent' = Append(sent, reader) /\ ~closed
    BY <1>5 DEF Send, IInv, TypeOK, Event, Cancelled
  <2>2. Flow' = Flow
    BY <2>1 DEF Flow, Read, Event
  <2>3. /\ sent' \in Seq(Event) /\ Len(sent') = Len(sent) + 1 /\ Len(sent) \in Nat
        /\ \A i \in 1..Len(sent) : sent'[i] = sent[i]
        /\ sent'[Len(sent) + 1] = reader
    BY <1>1, <2>1, AppendProperties, LenProperties
  <2>4. \A i \in 1..Len(sent') : sent'[i] # "end"
    BY <2>1, <2>3 DEF StoryInv
  <2>5. EndsWithVerdict'
    BY <2>1, <2>3 DEF EndsWithVerdict, Ended
  <2> QED BY <2>1, <2>2, <2>4, <2>5 DEF StoryInv
<1>6. CASE EndOfStream
  BY <1>6, EndIsLast DEF StoryInv, EndOfStream, StopReading
<1>7. CASE Broken
  BY <1>7 DEF Broken, StopReading, StoryInv, EndsWithVerdict, Ended
<1> QED BY <1>2, <1>3, <1>4, <1>5, <1>6, <1>7

(* A client that reads to the end has exactly one verdict, an answer with its "done" or *)
(* an error, and nothing after it, for every queue size and however the pipeline came   *)
(* out (_run_pipeline, _event_generator).                                               *)
THEOREM OneVerdict == Spec => []EndsWithVerdict
<1> DEFINE Inv == IInv /\ StoryInv
<1>1. Init => Inv
  BY Initially, StoryInit
<1>2. Inv /\ [Next]_vars => Inv'
  BY Inductive, ProducerTells, ReaderTells DEF Next
<1>3. Inv => EndsWithVerdict
  BY DEF StoryInv
<1> QED BY <1>1, <1>2, <1>3, PTL DEF Spec
=============================================================================
