---------------------------- MODULE MCInvokeGuard ----------------------------
(* Small instances of InvokeGuard. *)
EXTENDS InvokeGuard

Sync(s, k) == [kind |-> "sync", session |-> s, key |-> k]
Stream(s) == [kind |-> "stream", session |-> s, key |-> None]
Fold(s) == [kind |-> "upkeep", session |-> s, key |-> None]

(* Those that meet at one lock, one that brings its own, and a key that evicts
   the other from the cache. *)
Meeting == {Sync("s1", "k1"), Sync(None, "k2"), Stream(None), Fold("s1")}
=============================================================================
