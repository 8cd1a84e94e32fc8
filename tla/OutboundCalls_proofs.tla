------------------------ MODULE OutboundCalls_proofs ------------------------
(* A dead target is spared and a closed circuit is below its threshold, for every
   threshold, window and recovery time, any callers and any mix of calls. *)
EXTENDS OutboundCalls, TLAPS

USE BreakerAssumption, CallsAssumption

(* What relates a circuit to the time since it opened: an open one has its age,
   any other has rested, because it was closed or half-open all along or has
   waited for its recovery. *)
Rested(c, rest) == IF c.state = "open" THEN rest = c.age ELSE rest = Recovery

BreakerInv ==
  /\ kind \in [Callers -> Kind]
  /\ call \in [Callers -> [pc : Place, left : Nat]]
  /\ circuit \in [Services -> Circuit]
  /\ up \in [Services -> BOOLEAN]
  /\ resting \in [Services -> 0 .. Recovery]
  /\ \A s \in Services : Rested(circuit[s], resting[s])
  /\ \A r \in Callers : call[r].pc = "sent" => Target(r) \in Services
  /\ ClosedBelowThreshold

(* Each method of the breaker yields a circuit. *)
LEMMA FreshCircuit == Fresh \in Circuit /\ Fresh.state = "closed" /\ Fresh.failures = 0
BY DEF Fresh, Circuit

LEMMA LetThroughCircuit ==
  ASSUME NEW c \in Circuit, CanExecute(c)
  PROVE  /\ LetThrough(c) \in Circuit
         /\ LetThrough(c).state # "open"
         /\ LetThrough(c).failures = c.failures
         /\ LetThrough(c).state = "closed" => c.state = "closed"
BY DEF CanExecute, LetThrough, Enter, Circuit

LEMMA SuccessCircuit ==
  ASSUME NEW c \in Circuit, c.state = "closed" => c.failures < Threshold
  PROVE  /\ RecordSuccess(c) \in Circuit
         /\ RecordSuccess(c).state = "open" => RecordSuccess(c) = c
         /\ c.state = "open" => RecordSuccess(c) = c
         /\ RecordSuccess(c).state = "closed" => RecordSuccess(c).failures < Threshold
BY DEF RecordSuccess, Closed, Circuit

LEMMA FailuresBounded ==
  ASSUME NEW c \in Circuit
  PROVE  FailuresWith(c) \in 0 .. Threshold
BY DEF FailuresWith, AtMost, Circuit

LEMMA FailureCircuit ==
  ASSUME NEW c \in Circuit, c.state = "closed" => c.failures < Threshold
  PROVE  /\ RecordFailure(c) \in Circuit
         /\ RecordFailure(c).state = "open" /\ c.state # "open" => RecordFailure(c).age = 0
         /\ c.state = "open" => RecordFailure(c).state = "open" /\ RecordFailure(c).age = c.age
         /\ RecordFailure(c).state = "closed" => c.state = "closed" /\ RecordFailure(c).failures < Threshold
<1>1. FailuresWith(c) \in 0 .. Threshold BY FailuresBounded
<1>2. CASE Trips(c)
  BY <1>1, <1>2 DEF RecordFailure, Trips, Circuit
<1>3. CASE ~Trips(c)
  BY <1>1, <1>3 DEF RecordFailure, Trips, Circuit
<1> QED BY <1>2, <1>3

LEMMA OlderCircuit ==
  ASSUME NEW c \in Circuit
  PROVE  /\ Older(c) \in Circuit /\ Older(c).state = c.state /\ Older(c).failures = c.failures
         /\ Older(c).age = AtMost(Recovery, c.age + 1)
BY DEF Older, AtMost, Circuit

LEMMA InitInv == Init => BreakerInv
<1> SUFFICES ASSUME Init PROVE BreakerInv OBVIOUS
<1>1. kind \in [Callers -> Kind] BY DEF Init
<1>2. circuit \in [Services -> Circuit] /\ ClosedBelowThreshold
  BY FreshCircuit DEF Init, ClosedBelowThreshold
<1>3. call \in [Callers -> [pc : Place, left : Nat]] BY DEF Init, Idle, Place
<1>4. up \in [Services -> BOOLEAN] /\ resting \in [Services -> 0 .. Recovery]
  BY DEF Init
<1>5. \A s \in Services : Rested(circuit[s], resting[s])
  BY FreshCircuit DEF Init, Rested
<1>6. \A r \in Callers : call[r].pc # "sent" BY DEF Init, Idle
<1> QED BY <1>1, <1>2, <1>3, <1>4, <1>5, <1>6 DEF BreakerInv

(* A circuit that is told something keeps its relation to the time it rested. *)
LEMMA ToldInv ==
  ASSUME BreakerInv, NEW s \in Services, NEW c \in Circuit, Told(s, c),
         c.state = "open" /\ circuit[s].state # "open" => c.age = 0,
         c.state = "open" /\ circuit[s].state = "open" => c.age = circuit[s].age,
         c.state # "open" /\ circuit[s].state = "open" => Due(circuit[s]),
         c.state = "closed" => c.failures < Threshold
  PROVE  /\ circuit' \in [Services -> Circuit]
         /\ resting' \in [Services -> 0 .. Recovery]
         /\ \A t \in Services : Rested(circuit'[t], resting'[t])
         /\ ClosedBelowThreshold'
<1>1. circuit' \in [Services -> Circuit] /\ resting' \in [Services -> 0 .. Recovery]
  BY DEF Told, BreakerInv
<1>2. ASSUME NEW t \in Services, t # s
      PROVE  circuit'[t] = circuit[t] /\ resting'[t] = resting[t]
  BY <1>2 DEF Told, BreakerInv
<1>3. circuit'[s] = c BY DEF Told, BreakerInv
<1>4. Rested(circuit'[s], resting'[s])
  <2>1. circuit[s] \in Circuit /\ Rested(circuit[s], resting[s]) BY DEF BreakerInv
  <2>2. circuit[s].age \in 0 .. Recovery BY <2>1 DEF Circuit
  <2>3. CASE c.state = "open" /\ circuit[s].state # "open"
    BY <1>3, <2>3 DEF Told, BreakerInv, Rested
  <2>4. CASE ~(c.state = "open" /\ circuit[s].state # "open")
    <3>1. resting' = resting BY <2>4 DEF Told
    <3>2. CASE c.state = "open" BY <1>3, <2>1, <2>4, <3>1, <3>2 DEF Rested
    <3>3. CASE c.state # "open" BY <1>3, <2>1, <2>2, <3>1, <3>3 DEF Rested, Due
    <3> QED BY <3>2, <3>3
  <2> QED BY <2>3, <2>4
<1>5. ClosedBelowThreshold' BY <1>2, <1>3 DEF ClosedBelowThreshold, BreakerInv
<1>6. \A t \in Services : Rested(circuit'[t], resting'[t])
  BY <1>2, <1>4 DEF BreakerInv
<1> QED BY <1>1, <1>5, <1>6

(* What a step may make of the calls while circuits are left alone or told. *)
CallsInv ==
  /\ call \in [Callers -> [pc : Place, left : Nat]]
  /\ \A r \in Callers : call[r].pc = "sent" => Target(r) \in Services

LEMMA UntoldInv == BreakerInv /\ Untold /\ Frame /\ CallsInv' => BreakerInv'
BY DEF BreakerInv, CallsInv, Untold, Frame, ClosedBelowThreshold, Target

LEMMA ToldStep ==
  ASSUME BreakerInv, Frame, CallsInv', NEW s \in Services, NEW c \in Circuit, Told(s, c),
         c.state = "open" /\ circuit[s].state # "open" => c.age = 0,
         c.state = "open" /\ circuit[s].state = "open" => c.age = circuit[s].age,
         c.state # "open" /\ circuit[s].state = "open" => Due(circuit[s]),
         c.state = "closed" => c.failures < Threshold
  PROVE  BreakerInv'
<1>1. /\ circuit' \in [Services -> Circuit] /\ resting' \in [Services -> 0 .. Recovery]
      /\ \A t \in Services : Rested(circuit'[t], resting'[t])
      /\ ClosedBelowThreshold'
  BY ToldInv
<1>2. kind' \in [Callers -> Kind] /\ up' \in [Services -> BOOLEAN] BY DEF Frame, BreakerInv
<1>3. \A r \in Callers : call'[r].pc = "sent" => Target(r)' \in Services BY DEF CallsInv
<1> QED BY <1>1, <1>2, <1>3 DEF BreakerInv, CallsInv

LEMMA PlaceMoves ==
  ASSUME BreakerInv, Frame, NEW r \in Callers, NEW pc \in Place, Goto(r, pc),
         pc = "sent" => Target(r) \in Services
  PROVE  CallsInv'
<1>1. call' \in [Callers -> [pc : Place, left : Nat]] BY DEF Goto, BreakerInv
<1>2. ASSUME NEW q \in Callers, call'[q].pc = "sent" PROVE Target(q)' \in Services
  <2>1. Target(q)' = Target(q) BY DEF Frame, Target
  <2>2. CASE q = r BY <1>2, <2>1, <2>2 DEF Goto, BreakerInv
  <2>3. CASE q # r
    <3>1. call'[q] = call[q] BY <2>3 DEF Goto, BreakerInv
    <3> QED BY <1>2, <2>1, <3>1 DEF BreakerInv
  <2> QED BY <2>2, <2>3
<1> QED BY <1>1, <1>2 DEF CallsInv

LEMMA CallMoves ==
  ASSUME BreakerInv, Frame, NEW r \in Callers, NEW pc \in Place, NEW n \in Nat, pc # "sent",
         call' = [call EXCEPT ![r] = [pc |-> pc, left |-> n]]
  PROVE  CallsInv'
<1>1. call' \in [Callers -> [pc : Place, left : Nat]] BY DEF BreakerInv
<1>2. ASSUME NEW q \in Callers, call'[q].pc = "sent" PROVE Target(q)' \in Services
  <2>1. Target(q)' = Target(q) BY DEF Frame, Target
  <2>2. q # r BY <1>2 DEF BreakerInv
  <2>3. call'[q] = call[q] BY <2>2 DEF BreakerInv
  <2> QED BY <1>2, <2>1, <2>3 DEF BreakerInv
<1> QED BY <1>1, <1>2 DEF CallsInv

LEMMA AttemptMoves ==
  ASSUME BreakerInv, Frame, NEW r \in Callers, NextAttempt(r)
  PROVE  CallsInv'
<1>0. call[r].left \in Nat BY DEF BreakerInv
<1>1. CASE call[r].left > 1
  <2>1. call' = [call EXCEPT ![r] = [pc |-> IF kind[r].pause THEN "backoff" ELSE "ready", left |-> call[r].left - 1]]
    BY <1>1 DEF NextAttempt
  <2>2. call[r].left - 1 \in Nat BY <1>0, <1>1
  <2>3. CASE kind[r].pause
    <3>1. "backoff" \in Place BY DEF Place
    <3>2. call' = [call EXCEPT ![r] = [pc |-> "backoff", left |-> call[r].left - 1]] BY <2>1, <2>3
    <3> QED BY <2>2, <3>1, <3>2, CallMoves
  <2>4. CASE ~kind[r].pause
    <3>1. "ready" \in Place BY DEF Place
    <3>2. call' = [call EXCEPT ![r] = [pc |-> "ready", left |-> call[r].left - 1]] BY <2>1, <2>4
    <3> QED BY <2>2, <3>1, <3>2, CallMoves
  <2> QED BY <2>3, <2>4
<1>2. CASE ~(call[r].left > 1)
  <2>1. Goto(r, "failed") BY <1>2 DEF NextAttempt
  <2>2. "failed" \in Place BY DEF Place, Over
  <2> QED BY <2>1, <2>2, PlaceMoves
<1> QED BY <1>1, <1>2

LEMMA StepInv == BreakerInv /\ [Next]_vars => BreakerInv'
<1> SUFFICES ASSUME BreakerInv, [Next]_vars PROVE BreakerInv' OBVIOUS
<1>0. /\ "ready" \in Place /\ "sent" \in Place /\ "done" \in Place
      /\ "failed" \in Place /\ "cut" \in Place /\ "idle" \in Place
  BY DEF Place, Over
<1>1. ASSUME NEW r \in Callers, Invoke(r) PROVE BreakerInv'
  <2>1. kind[r].attempts \in Nat BY DEF BreakerInv, Kind
  <2>2. CASE kind[r].flaw = "unknown"
    <3>1. call' = [call EXCEPT ![r] = [pc |-> "failed", left |-> kind[r].attempts]]
      BY <1>1, <2>2 DEF Invoke
    <3>2. Untold /\ Frame BY <1>1 DEF Invoke
    <3>3. CallsInv' BY <1>0, <2>1, <3>1, <3>2, CallMoves
    <3> QED BY <3>2, <3>3, UntoldInv
  <2>3. CASE kind[r].flaw # "unknown"
    <3>1. call' = [call EXCEPT ![r] = [pc |-> "ready", left |-> kind[r].attempts]]
      BY <1>1, <2>3 DEF Invoke
    <3>2. Untold /\ Frame BY <1>1 DEF Invoke
    <3>3. CallsInv' BY <1>0, <2>1, <3>1, <3>2, CallMoves
    <3> QED BY <3>2, <3>3, UntoldInv
  <2> QED BY <2>2, <2>3
<1>2. ASSUME NEW r \in Callers, Unusable(r) PROVE BreakerInv'
  BY <1>0, <1>2, PlaceMoves, UntoldInv DEF Unusable
<1>3. ASSUME NEW r \in Callers, RunInProcess(r) PROVE BreakerInv'
  BY <1>0, <1>3, PlaceMoves, AttemptMoves, UntoldInv DEF RunInProcess
<1>4. ASSUME NEW r \in Callers, Refused(r) PROVE BreakerInv'
  BY <1>4, AttemptMoves, UntoldInv DEF Refused
<1>5. ASSUME NEW r \in Callers, Send(r) PROVE BreakerInv'
  <2> DEFINE c == circuit[Target(r)]
  <2>1. Target(r) \in Services BY <1>5 DEF Send, Asks, BreakerInv, Kind, Target
  <2>2. c \in Circuit BY <2>1 DEF BreakerInv
  <2>3. CanExecute(c) BY <1>5 DEF Send
  <2>4. /\ LetThrough(c) \in Circuit /\ LetThrough(c).state # "open"
        /\ LetThrough(c).failures = c.failures /\ (LetThrough(c).state = "closed" => c.state = "closed")
    BY <2>2, <2>3, LetThroughCircuit
  <2>5. c.state = "open" => Due(c) BY <2>3 DEF CanExecute
  <2>6. c.state = "closed" => c.failures < Threshold BY <2>1 DEF BreakerInv, ClosedBelowThreshold
  <2>7. Told(Target(r), LetThrough(c)) /\ Frame BY <1>5 DEF Send
  <2>8. CallsInv' BY <1>0, <1>5, <2>1, PlaceMoves DEF Send
  <2> QED BY <2>1, <2>4, <2>5, <2>6, <2>7, <2>8, ToldStep
<1>p. ASSUME NEW r \in Callers, call[r].pc = "sent"
      PROVE  /\ Target(r) \in Services /\ circuit[Target(r)] \in Circuit
             /\ circuit[Target(r)].state = "closed" => circuit[Target(r)].failures < Threshold
  BY <1>p DEF BreakerInv, ClosedBelowThreshold
<1>s. ASSUME NEW r \in Callers, call[r].pc = "sent", Frame, CallsInv',
             Told(Target(r), RecordSuccess(circuit[Target(r)]))
      PROVE  BreakerInv'
  <2> DEFINE c == circuit[Target(r)]
  <2>1. Target(r) \in Services /\ c \in Circuit /\ (c.state = "closed" => c.failures < Threshold)
    BY <1>s, <1>p
  <2>2. /\ RecordSuccess(c) \in Circuit /\ (RecordSuccess(c).state = "open" => RecordSuccess(c) = c)
        /\ (c.state = "open" => RecordSuccess(c) = c)
        /\ (RecordSuccess(c).state = "closed" => RecordSuccess(c).failures < Threshold)
    BY <2>1, SuccessCircuit
  <2>3. Told(Target(r), RecordSuccess(c)) BY <1>s
  <2> HIDE DEF c
  <2>4. /\ RecordSuccess(c).state = "open" /\ c.state # "open" => RecordSuccess(c).age = 0
        /\ RecordSuccess(c).state = "open" /\ c.state = "open" => RecordSuccess(c).age = c.age
        /\ RecordSuccess(c).state # "open" /\ c.state = "open" => Due(c)
    BY <2>2
  <2> QED BY <1>s, <2>1, <2>2, <2>3, <2>4, ToldStep DEF c
<1>6. ASSUME NEW r \in Callers, Answered(r) PROVE BreakerInv'
  BY <1>0, <1>6, <1>s, PlaceMoves DEF Answered
<1>7. ASSUME NEW r \in Callers, Garbled(r) PROVE BreakerInv'
  BY <1>0, <1>7, <1>s, PlaceMoves DEF Garbled
<1>8. ASSUME NEW r \in Callers, Fails(r) PROVE BreakerInv'
  <2> DEFINE c == circuit[Target(r)]
  <2>1. Target(r) \in Services /\ c \in Circuit /\ (c.state = "closed" => c.failures < Threshold)
    BY <1>8, <1>p DEF Fails
  <2>2. /\ RecordFailure(c) \in Circuit
        /\ RecordFailure(c).state = "open" /\ c.state # "open" => RecordFailure(c).age = 0
        /\ c.state = "open" => RecordFailure(c).state = "open" /\ RecordFailure(c).age = c.age
        /\ RecordFailure(c).state = "closed" => c.state = "closed" /\ RecordFailure(c).failures < Threshold
    BY <2>1, FailureCircuit
  <2>3. Told(Target(r), RecordFailure(c)) /\ Frame /\ CallsInv'
    BY <1>8, AttemptMoves DEF Fails
  <2> HIDE DEF c
  <2> QED BY <2>1, <2>2, <2>3, ToldStep DEF c
<1>9. ASSUME NEW r \in Callers, Retry(r) \/ Cut(r) PROVE BreakerInv'
  BY <1>0, <1>9, PlaceMoves, UntoldInv DEF Retry, Cut
<1>10. ASSUME NEW r \in Callers, Again(r) PROVE BreakerInv'
  <2>1. CallsInv' BY <1>0, <1>10, CallMoves DEF Again, Idle
  <2> QED BY <1>10, <2>1, UntoldInv DEF Again
<1>11. CASE Tick
  <2>1. ASSUME NEW s \in Services
        PROVE  /\ circuit'[s] \in Circuit /\ resting'[s] \in 0 .. Recovery
               /\ Rested(circuit'[s], resting'[s])
               /\ circuit'[s].state = "closed" => circuit'[s].failures < Threshold
    <3>1. circuit[s] \in Circuit /\ resting[s] \in 0 .. Recovery /\ Rested(circuit[s], resting[s])
          /\ (circuit[s].state = "closed" => circuit[s].failures < Threshold)
      BY DEF BreakerInv, ClosedBelowThreshold
    <3>2. circuit'[s] = Older(circuit[s]) /\ resting'[s] = AtMost(Recovery, resting[s] + 1)
      BY <1>11 DEF Tick
    <3>3. /\ Older(circuit[s]) \in Circuit /\ Older(circuit[s]).state = circuit[s].state
          /\ Older(circuit[s]).failures = circuit[s].failures
          /\ Older(circuit[s]).age = AtMost(Recovery, circuit[s].age + 1)
      BY <3>1, OlderCircuit
    <3>4. AtMost(Recovery, resting[s] + 1) \in 0 .. Recovery
          /\ (resting[s] = Recovery => AtMost(Recovery, resting[s] + 1) = Recovery)
      BY <3>1 DEF AtMost
    <3> QED BY <3>1, <3>2, <3>3, <3>4 DEF Rested
  <2>2. circuit' \in [Services -> Circuit] /\ resting' \in [Services -> 0 .. Recovery]
    BY <1>11, <2>1 DEF Tick
  <2>3. call' = call /\ kind' = kind /\ up' = up BY <1>11 DEF Tick
  <2> QED BY <2>1, <2>2, <2>3 DEF BreakerInv, ClosedBelowThreshold, Target
<1>12. ASSUME NEW s \in Services, TargetTurns(s) PROVE BreakerInv'
  <2>1. up' \in [Services -> BOOLEAN] BY <1>12 DEF TargetTurns, BreakerInv
  <2> QED BY <1>12, <2>1 DEF TargetTurns, BreakerInv, ClosedBelowThreshold, Target
<1>13. CASE UNCHANGED vars BY <1>13 DEF vars, BreakerInv, ClosedBelowThreshold, Target
<1> QED
  BY <1>1, <1>2, <1>3, <1>4, <1>5, <1>6, <1>7, <1>8, <1>9, <1>10, <1>11, <1>12, <1>13 DEF Next, Proceed

LEMMA Invariant == Spec => []BreakerInv
BY InitInv, StepInv, PTL DEF Spec

(* Every reachable state is one the code's types allow (TypeOK). *)
THEOREM CallsTyped == Spec => []TypeOK
<1>1. BreakerInv => TypeOK BY DEF BreakerInv, TypeOK
<1> QED BY <1>1, Invariant, PTL

(* A closed circuit has seen fewer failures than open it (ClosedBelowThreshold). *)
THEOREM ClosedBelow == Spec => []ClosedBelowThreshold
<1>1. BreakerInv => ClosedBelowThreshold BY DEF BreakerInv
<1> QED BY <1>1, Invariant, PTL

(* Nothing is sent to a target in the recovery time after its circuit opened
   (DeadTargetSpared). *)
THEOREM Spared == Spec => DeadTargetSpared
<1> DEFINE Quiet == \A r \in Callers :
             call[r].pc # "sent" /\ call'[r].pc = "sent" => resting[Target(r)] >= Recovery
<1>1. BreakerInv /\ [Next]_vars => [Quiet]_vars
  <2> SUFFICES ASSUME BreakerInv, Next, NEW r \in Callers, call[r].pc # "sent", call'[r].pc = "sent"
               PROVE  resting[Target(r)] >= Recovery
    BY DEF Quiet
  <2>1. PICK q \in Callers : Proceed(q) \/ Cut(q) BY DEF Next, Tick, TargetTurns
  <2>2. Send(r)
    BY <2>1 DEF Proceed, Invoke, Unusable, RunInProcess, Refused, Send, Answered, Garbled, Fails,
                Retry, Cut, Again, Goto, NextAttempt, Idle, BreakerInv
  <2>3. Target(r) \in Services /\ CanExecute(circuit[Target(r)])
    BY <2>2 DEF Send, Asks, BreakerInv, Kind, Target
  <2>4. resting[Target(r)] \in 0 .. Recovery /\ circuit[Target(r)] \in Circuit
        /\ Rested(circuit[Target(r)], resting[Target(r)])
    BY <2>3 DEF BreakerInv
  <2> QED BY <2>3, <2>4 DEF Rested, CanExecute, Due, Circuit
<1>2. Spec => [][Quiet]_vars BY <1>1, Invariant, PTL DEF Spec
<1> QED BY <1>2 DEF DeadTargetSpared, Quiet
=============================================================================
