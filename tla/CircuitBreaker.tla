--------------------------- MODULE CircuitBreaker ---------------------------
(* One circuit of engine/circuit_breaker.py: what each method makes of it.  Every
   method holds the breaker's lock from its first line to its last, so each is
   one step.  Times are kept as ages, no longer counted once they have passed the
   limit they are compared with. *)
EXTENDS Naturals

CONSTANTS
  Threshold,  \* failure_threshold
  Window,     \* failure_window_seconds
  Recovery    \* recovery_timeout_seconds

ASSUME BreakerAssumption ==
  Threshold \in Nat \ {0} /\ Window \in Nat /\ Recovery \in Nat \ {0}

AtMost(limit, n) == IF n < limit THEN n ELSE limit

Circuit ==
  [state    : {"closed", "open", "half_open"},
   failures : 0 .. Threshold,   \* compared with the threshold, so counted up to it
   quiet    : 0 .. Window + 1,  \* time since the last failure
   age      : 0 .. Recovery]    \* time in this state

(* A service without an entry and one with a new entry are treated alike; its
   last failure lies before every window. *)
Fresh == [state |-> "closed", failures |-> 0, quiet |-> Window + 1, age |-> 0]

Enter(c, state) == [state |-> state, failures |-> c.failures, quiet |-> c.quiet, age |-> 0]
Closed(c) == [state |-> "closed", failures |-> 0, quiet |-> c.quiet, age |-> 0]

Due(c) == c.age >= Recovery

(* Mutant: a half-open circuit lets only its first request through, and waits for
   ever when that one was cut. *)
CanExecuteOnce(c) == c.state = "closed" \/ (c.state = "open" /\ Due(c))

CanExecute(c) == c.state = "open" => Due(c)

(* What can_execute leaves when it lets a request through. *)
LetThrough(c) == IF c.state = "open" THEN Enter(c, "half_open") ELSE c

(* Mutant: a success of any request closes the circuit. *)
RecordAnySuccess(c) == Closed(c)

RecordSuccess(c) ==
  IF c.state = "half_open" THEN Closed(c) ELSE c

FailuresWith(c) == AtMost(Threshold, (IF c.quiet > Window THEN 0 ELSE c.failures) + 1)

Trips(c) ==
  \/ c.state = "half_open"
  \/ c.state = "closed" /\ FailuresWith(c) >= Threshold

RecordFailure(c) ==
  [state    |-> IF Trips(c) THEN "open" ELSE c.state,
   failures |-> FailuresWith(c),
   quiet    |-> 0,
   age      |-> IF Trips(c) THEN 0 ELSE c.age]

Older(c) ==
  [state    |-> c.state,
   failures |-> c.failures,
   quiet    |-> AtMost(Window + 1, c.quiet + 1),
   age      |-> AtMost(Recovery, c.age + 1)]
=============================================================================
