----------------------------- MODULE InvokeGuard -----------------------------
(***************************************************************************)
(* Admission to the pipeline: request_guard's slots, its table of          *)
(* reference-counted session locks and its idempotency cache, as           *)
(* api/invoke.py combines them.  Between two awaits a coroutine of the     *)
(* event loop runs alone, so each action below is what one of them does    *)
(* from one await to the next.                                             *)
(***************************************************************************)
EXTENDS Naturals, FiniteSets, SequencesExt

CONSTANTS Request,     \* requests, and other users of a session's lock
          Session,     \* session ids of requests that name one
          Key,         \* idempotency keys (tenant and header)
          Asks,        \* the requests clients make
          None,        \* no session id, no key, no lock, nobody
          MaxInvokes,  \* max_concurrent_invokes
          MaxEntries   \* _IDEMPOTENCY_MAX_ENTRIES

LockKey == Session \cup Key       \* a session id, or "idem:<tenant>:<key>"

(* /invoke, /invoke/stream, and upkeep: what takes a session's lock without
   a slot and without a timeout (the summary fold). *)
Ask == [kind : {"sync", "stream", "upkeep"}, session : Session \cup {None}, key : Key \cup {None}]

ASSUME GuardConstants ==
  /\ Session \cap Key = {} /\ None \notin Request \cup LockKey
  /\ MaxInvokes \in Nat \ {0} /\ MaxEntries \in Nat \ {0}
  /\ IsFiniteSet(Request)
  /\ Asks \subseteq Ask
  /\ \A a \in Asks : /\ a.kind # "sync" => a.key = None
                     /\ a.kind = "upkeep" => a.session # None

VARIABLES
  ask,      \* what each request asks
  pc,       \* where it is
  active,   \* _active_invokes
  table,    \* _session_locks: the lock of a key; a lock is named after the request that made it
  refs,     \* reference count of a lock's entry
  holder,   \* who has acquired a lock
  queue,    \* who waits for it, in order
  mine,     \* the lock a request refers to
  cache,    \* _idempotency_cache, the least recently used first
  got,      \* how a request ended
  turns,    \* history: requests whose turn was committed
  dropped   \* history: keys whose response expired or was evicted

locks == <<table, refs, holder, queue, mine>>
vars == <<ask, pc, active, table, refs, holder, queue, mine, cache, got, turns, dropped>>

Outcome == {"none", "full", "busy", "failed", "degraded", "fresh", "replayed"}
NoAsk == [kind |-> "sync", session |-> None, key |-> None]

Init ==
  /\ ask = [r \in Request |-> NoAsk]
  /\ pc = [r \in Request |-> "idle"]
  /\ active = 0
  /\ table = [k \in LockKey |-> None]
  /\ refs = [l \in Request |-> 0]
  /\ holder = [l \in Request |-> None]
  /\ queue = [l \in Request |-> <<>>]
  /\ mine = [r \in Request |-> None]
  /\ cache = <<>>
  /\ got = [r \in Request |-> "none"]
  /\ turns = {} /\ dropped = {}

-----------------------------------------------------------------------------
(* Which lock a request needs: its session's, else its idempotency key's. *)
LockOf(a) == IF a.session # None THEN a.session ELSE a.key

(* An entry is in the cache once, a waiter in the queue once: removed where it stands. *)
Without(s, e) ==
  LET at == {i \in DOMAIN s : s[i] = e}
  IN  IF at = {} THEN s ELSE RemoveAt(s, CHOOSE i \in at : TRUE)

Cached(k) == k # None /\ \E i \in DOMAIN cache : cache[i] = k
Others(k) == Without(cache, k)

(* get_idempotent_response moves a hit to the end. *)
Touch(k) == cache' = Append(Others(k), k)

(* store_idempotent_response evicts the oldest beyond the limit. *)
Store(k) ==
  LET new == Append(Others(k), k)
  IN  IF Len(new) > MaxEntries
      THEN cache' = Tail(new) /\ dropped' = dropped \cup {Head(new)}
      ELSE cache' = new /\ dropped' = dropped

Slots(a) == IF a.kind = "upkeep" THEN 0 ELSE 1

End(r, outcome) == pc' = [pc EXCEPT ![r] = "done"] /\ got' = [got EXCEPT ![r] = outcome]

(* Mutant: the entry goes with the first to leave. *)
LeaveForgetful(r) ==
  /\ active' = active - Slots(ask[r])
  /\ mine' = [mine EXCEPT ![r] = None]
  /\ \/ mine[r] = None /\ UNCHANGED <<table, refs, holder, queue>>
     \/ /\ mine[r] # None
        /\ holder' = [holder EXCEPT ![mine[r]] = IF @ = r THEN None ELSE @]
        /\ queue' = [queue EXCEPT ![mine[r]] = Without(@, r)]
        /\ refs' = [refs EXCEPT ![mine[r]] = @ - 1]
        /\ table' = [table EXCEPT ![LockOf(ask[r])] = None]

(* Mutant: who gives up keeps its place among the waiters. *)
LeaveQueued(r) ==
  /\ active' = active - Slots(ask[r])
  /\ mine' = [mine EXCEPT ![r] = None]
  /\ \/ mine[r] = None /\ UNCHANGED <<table, refs, holder, queue>>
     \/ /\ mine[r] # None
        /\ holder' = [holder EXCEPT ![mine[r]] = IF @ = r THEN None ELSE @]
        /\ refs' = [refs EXCEPT ![mine[r]] = @ - 1]
        /\ table' = [table EXCEPT ![LockOf(ask[r])] = IF refs[mine[r]] = 1 THEN None ELSE @]
        /\ UNCHANGED queue

(* The exits of session_lock and invoke_slot: release or stop waiting, drop
   the reference and the entry with the last one, give the slot back. *)
Leave(r) ==
  /\ active' = active - Slots(ask[r])
  /\ mine' = [mine EXCEPT ![r] = None]
  /\ \/ mine[r] = None /\ UNCHANGED <<table, refs, holder, queue>>
     \/ /\ mine[r] # None
        /\ holder' = [holder EXCEPT ![mine[r]] = IF @ = r THEN None ELSE @]
        /\ queue' = [queue EXCEPT ![mine[r]] = Without(@, r)]
        /\ LET k == LockOf(ask[r])
               ours == table[k] = mine[r]
           IN /\ refs' = [refs EXCEPT ![mine[r]] = IF ours THEN @ - 1 ELSE @]
              /\ table' = [table EXCEPT ![k] = IF ours /\ refs[mine[r]] = 1 THEN None ELSE @]

-----------------------------------------------------------------------------
(* The cached response of the key answers at once, without a slot. *)
ReplayEarly(r, a) ==
  /\ pc[r] = "idle" /\ Cached(a.key)
  /\ ask' = [ask EXCEPT ![r] = a]
  /\ Touch(a.key) /\ End(r, "replayed")
  /\ UNCHANGED <<active, locks, turns, dropped>>

(* invoke_slot: no capacity, no queueing. *)
TurnAway(r, a) ==
  /\ pc[r] = "idle" /\ ~Cached(a.key)
  /\ a.kind # "upkeep" /\ active >= MaxInvokes
  /\ ask' = [ask EXCEPT ![r] = a]
  /\ End(r, "full")
  /\ UNCHANGED <<active, locks, cache, turns, dropped>>

(* invoke_slot and session_lock up to the acquisition. *)
Admit(r, a) ==
  /\ pc[r] = "idle" /\ ~Cached(a.key)
  /\ a.kind = "upkeep" \/ active < MaxInvokes
  /\ ask' = [ask EXCEPT ![r] = a]
  /\ active' = active + Slots(a)
  /\ \/ /\ LockOf(a) = None
        /\ pc' = [pc EXCEPT ![r] = "holding"]
        /\ UNCHANGED locks
     \/ /\ LockOf(a) # None
        /\ LET k == LockOf(a)
               l == IF table[k] = None THEN r ELSE table[k]
           IN /\ table' = [table EXCEPT ![k] = l]
              /\ refs' = [refs EXCEPT ![l] = @ + 1]
              /\ queue' = [queue EXCEPT ![l] = Append(@, r)]
              /\ mine' = [mine EXCEPT ![r] = l]
        /\ pc' = [pc EXCEPT ![r] = "waiting"]
        /\ UNCHANGED holder
  /\ UNCHANGED <<cache, got, turns, dropped>>

(* asyncio.Lock serves its waiters in order. *)
Acquire(r) ==
  /\ pc[r] = "waiting"
  /\ holder[mine[r]] = None /\ queue[mine[r]] # <<>> /\ Head(queue[mine[r]]) = r
  /\ holder' = [holder EXCEPT ![mine[r]] = r]
  /\ queue' = [queue EXCEPT ![mine[r]] = Tail(@)]
  /\ pc' = [pc EXCEPT ![r] = "holding"]
  /\ UNCHANGED <<ask, active, table, refs, mine, cache, got, turns, dropped>>

(* Mutant: the time limit is not covered by the exits. *)
GiveUpLeaking(r) ==
  /\ pc[r] = "waiting" /\ ask[r].kind # "upkeep"
  /\ End(r, "busy")
  /\ UNCHANGED <<ask, active, locks, cache, turns, dropped>>

(* session_wait_timeout_seconds have passed, or the waiting request is cancelled. *)
GiveUp(r) ==
  /\ pc[r] = "waiting" /\ ask[r].kind # "upkeep"
  /\ End(r, "busy") /\ Leave(r)
  /\ UNCHANGED <<ask, cache, turns, dropped>>

(* The agent is another tenant's, or the request is cancelled while that is looked up. *)
Refuse(r) ==
  /\ pc[r] = "holding"
  /\ End(r, "failed") /\ Leave(r)
  /\ UNCHANGED <<ask, cache, turns, dropped>>

(* Under the lock the cache is asked again ... *)
ReplayLate(r) ==
  /\ pc[r] = "holding" /\ Cached(ask[r].key)
  /\ Touch(ask[r].key) /\ End(r, "replayed") /\ Leave(r)
  /\ UNCHANGED <<ask, turns, dropped>>

(* Mutant: ... or not. *)
BeginUnchecked(r) ==
  /\ pc[r] = "holding"
  /\ pc' = [pc EXCEPT ![r] = "running"]
  /\ UNCHANGED <<ask, active, locks, cache, got, turns, dropped>>

(* ... before the pipeline starts. *)
Begin(r) ==
  /\ pc[r] = "holding" /\ ~Cached(ask[r].key)
  /\ pc' = [pc EXCEPT ![r] = "running"]
  /\ UNCHANGED <<ask, active, locks, cache, got, turns, dropped>>

(* The pipeline commits its turn; the audit log is still to be written. *)
CommitTurn(r) ==
  /\ pc[r] = "running" /\ r \notin turns
  /\ turns' = turns \cup {r}
  /\ UNCHANGED <<ask, pc, active, locks, cache, got, dropped>>

(* The pipeline returns.  Only a genuine answer to a synchronous request is
   kept; a stream is still to be delivered, under the lock. *)
Answer(r) ==
  /\ pc[r] = "running"
  /\ \E outcome \in {"fresh", "degraded"} :
       \/ /\ ask[r].kind = "stream"
          /\ pc' = [pc EXCEPT ![r] = "closing"] /\ got' = [got EXCEPT ![r] = outcome]
          /\ UNCHANGED <<active, locks, cache, dropped>>
       \/ /\ ask[r].kind # "stream"
          /\ End(r, outcome) /\ Leave(r)
          /\ \/ outcome = "fresh" /\ ask[r].key # None /\ Store(ask[r].key)
             \/ (outcome # "fresh" \/ ask[r].key = None) /\ UNCHANGED <<cache, dropped>>
  /\ UNCHANGED <<ask, turns>>

(* The pipeline timeout, a disconnect or an error: the turn is rolled back and
   audited before the lock goes. *)
Cut(r) ==
  /\ pc[r] = "running"
  /\ pc' = [pc EXCEPT ![r] = "closing"] /\ got' = [got EXCEPT ![r] = "failed"]
  /\ UNCHANGED <<ask, active, locks, cache, turns, dropped>>

Close(r) ==
  /\ pc[r] = "closing"
  /\ pc' = [pc EXCEPT ![r] = "done"] /\ Leave(r)
  /\ UNCHANGED <<ask, cache, got, turns, dropped>>

(* idempotency_ttl_s: an entry is as good as gone once it has expired. *)
Expire(k) ==
  /\ Cached(k)
  /\ cache' = Others(k) /\ dropped' = dropped \cup {k}
  /\ UNCHANGED <<ask, pc, active, locks, got, turns>>

Arrive(r) == \E a \in Asks : ReplayEarly(r, a) \/ TurnAway(r, a) \/ Admit(r, a)
Work(r) == Acquire(r) \/ ReplayLate(r) \/ Begin(r) \/ Answer(r) \/ Close(r)
Break(r) == GiveUp(r) \/ Refuse(r) \/ Cut(r)

Next ==
  \/ \E r \in Request : Arrive(r) \/ Work(r) \/ CommitTurn(r) \/ Break(r)
  \/ \E k \in Key : Expire(k)

Spec == Init /\ [][Next]_vars

(* A coroutine that can go on does; the pipeline timeout ends the pipeline. *)
FairSpec == Spec /\ \A r \in Request : WF_vars(Work(r))
-----------------------------------------------------------------------------
(* Properties. *)

PC == {"idle", "waiting", "holding", "running", "closing", "done"}
Inside(r) == pc[r] \in {"waiting", "holding", "running", "closing"}
InTurn(r) == pc[r] \in {"holding", "running", "closing"}

TypeOK ==
  /\ ask \in [Request -> Ask] /\ pc \in [Request -> PC] /\ active \in Nat
  /\ table \in [LockKey -> Request \cup {None}]
  /\ refs \in [Request -> Nat] /\ holder \in [Request -> Request \cup {None}]
  /\ queue \in [Request -> Seq(Request)] /\ mine \in [Request -> Request \cup {None}]
  /\ cache \in Seq(Key) /\ got \in [Request -> Outcome]
  /\ turns \subseteq Request /\ dropped \subseteq Key

(* Turns of one session never overlap, from the acquisition until the last
   rollback is over, although the lock object of a session is dropped and made
   again as requests come and go (session_lock). *)
TurnsSerialized ==
  \A q, r \in Request :
    InTurn(q) /\ InTurn(r) /\ LockOf(ask[q]) = LockOf(ask[r]) /\ LockOf(ask[r]) # None => q = r

(* Whatever way requests end, they give everything back: the slots in use are
   those of the requests inside, and a lock is kept for a key exactly as long as
   somebody inside refers to it (active_invoke_count, active_session_lock_count). *)
NothingLeaks ==
  /\ active = Cardinality({r \in Request : Inside(r) /\ ask[r].kind # "upkeep"})
  /\ \A k \in LockKey : table[k] # None <=> \E r \in Request : Inside(r) /\ LockOf(ask[r]) = k

(* While the response to a key is kept, nobody who waited for the same lock
   computes a second one (the second look at the cache in invoke). *)
RunsOnce ==
  \A q, r \in Request :
    /\ got[q] = "fresh" /\ got[r] = "fresh" /\ pc[q] = "done" /\ pc[r] = "done"
    /\ ask[q] = ask[r] /\ ask[r].key # None /\ ask[r].key \notin dropped
    => q = r

(* Slots, locks and cache in their shape, and a kept answer computed once. *)
RepliesSound == TypeOK /\ RunsOnce

(* Nobody waits for a lock for ever: it passes on in order, and whoever gives
   up does not block the others (asyncio.Lock under session_lock). *)
EveryoneLeaves == \A r \in Request : pc[r] = "waiting" ~> pc[r] = "done"
=============================================================================
