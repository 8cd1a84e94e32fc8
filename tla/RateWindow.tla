----------------------------- MODULE RateWindow -----------------------------
(***************************************************************************)
(* The sliding-window rate limiter (middleware/auth.py).  A call takes the *)
(* process-wide lock for all it does, so calls are a sequence; times count *)
(* half seconds, for Retry-After counts whole ones.  The clock is read     *)
(* before the lock is taken, but by coroutines of one event loop that do   *)
(* not wait in between, so the order of the lock is that of the clock.     *)
(***************************************************************************)
EXTENDS Integers, FiniteSets, Sequences

CONSTANTS Span,       \* _RATE_LIMIT_WINDOW_SECONDS, in half seconds
          Callers,    \* keys a call is counted under
          Limits,     \* limits the code is asked to keep; none means no limiter
          Histories   \* calls in the order of the lock, which is that of the clock

ASSUME RateAssumption ==
  /\ Span \in Nat /\ Limits \subseteq Nat \ {0}
  /\ \A calls \in Histories :
       /\ calls \in Seq([key : Callers, at : Nat])
       /\ \A i, j \in DOMAIN calls : i < j => calls[i].at <= calls[j].at

(* From the front, what is old is dropped until something is not. *)
Gone(w, now) == {n \in 0..Len(w) : \A i \in 1..n : now - w[i] > Span}
Live(w, now) == LET gone == CHOOSE n \in Gone(w, now) : \A m \in Gone(w, now) : m <= n
                IN  SubSeq(w, gone + 1, Len(w))

IdleSince(w, now) == w = <<>> \/ now - w[Len(w)] > Span

(* _rate_limit_windows: the callers with a window, and their windows. *)
Kept(windows, key, now) == {k \in DOMAIN windows : k = key \/ ~IdleSince(windows[k], now)} \cup {key}
Window(windows, k) == IF k \in DOMAIN windows THEN windows[k] ELSE <<>>

(* Mutant: the seconds left are rounded down. *)
RoundedDown(own, now) == LET left == (Span - (now - own[1])) \div 2 IN IF left < 1 THEN 1 ELSE left

RetryAfter(own, now) == LET left == (Span - (now - own[1])) \div 2 + 1 IN IF left < 1 THEN 1 ELSE left

(* _consume_rate_limit: what is left of the windows and how the call ends; a call that *)
(* is refused still drops what is old.                                                 *)
Consume(windows, call, limit) ==
  LET own == Live(Window(windows, call.key), call.at)
      full == Len(own) >= limit
  IN  [windows |-> [k \in Kept(windows, call.key, call.at) |->
                      IF k # call.key THEN windows[k]
                      ELSE IF full THEN own ELSE Append(own, call.at)],
       admitted |-> ~full,
       retry |-> IF full THEN RetryAfter(own, call.at) ELSE 0]

-----------------------------------------------------------------------------
(* A history: what each call found and how it ended. *)
Replay(calls, limit) ==
  LET after[n \in 0..Len(calls)] ==
        IF n = 0 THEN [windows |-> <<>>, admitted |-> FALSE, retry |-> 0]
        ELSE Consume(after[n - 1].windows, calls[n], limit)
  IN  after

Admits(calls, limit) == LET after == Replay(calls, limit) IN {i \in DOMAIN calls : after[i].admitted}

(* Of the calls admitted before the i-th, its caller's in the span up to it. *)
Recent(calls, admits, i) ==
  {j \in admits : j < i /\ calls[j].key = calls[i].key /\ calls[i].at - calls[j].at <= Span}

(* A call is admitted exactly when fewer than "limit" of its caller's were in the span  *)
(* before it: so no span ever holds more, and nobody is turned away for what is old.    *)
Exact(calls, limit) ==
  LET admits == Admits(calls, limit)
  IN  \A i \in DOMAIN calls : i \in admits <=> Cardinality(Recent(calls, admits, i)) < limit

(* Who waits as long as a refusal says, and was the only one to call meanwhile under    *)
(* that key, is admitted.                                                               *)
Honest(calls, limit) ==
  LET after == Replay(calls, limit)
  IN  \A i \in DOMAIN calls : ~after[i].admitted =>
        Consume(after[i].windows, [key |-> calls[i].key, at |-> calls[i].at + 2 * after[i].retry],
                limit).admitted

(* After a call nobody else is remembered who has not been admitted in the last span. *)
Forgets(calls, limit) ==
  LET after == Replay(calls, limit)
  IN  \A i \in DOMAIN calls : \A k \in DOMAIN after[i].windows \ {calls[i].key} :
        \E j \in Admits(calls, limit) : j < i /\ calls[j].key = k /\ calls[i].at - calls[j].at <= Span

Misjudged == {calls \in Histories :
                \E limit \in Limits :
                  ~(Exact(calls, limit) /\ Honest(calls, limit) /\ Forgets(calls, limit))}
=============================================================================
