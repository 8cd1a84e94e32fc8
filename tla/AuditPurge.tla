----------------------------- MODULE AuditPurge -----------------------------
(***************************************************************************)
(* The deletion of expired audit traces in batches (engine/retention.py):  *)
(* each batch is a transaction of its own; one may fail, which ends the    *)
(* run until the next day.                                                 *)
(***************************************************************************)
EXTENDS Naturals, FiniteSets

CONSTANTS Trace,       \* ids of rows
          Batch        \* batch_size

ASSUME PurgeAssumption == IsFiniteSet(Trace) /\ Batch \in Nat \ {0}

(* The ids a select may return: some of the expired rows, as many as the batch holds.     *)
Chosen(expired) ==
  {ids \in SUBSET expired :
     Cardinality(ids) = IF Cardinality(expired) < Batch THEN Cardinality(expired) ELSE Batch}

(* Mutant: a full batch is taken for the last one. *)
FullIsLast(ids) == Cardinality(ids) <= Batch

Last(ids) == Cardinality(ids) < Batch

(* One more transaction, before those that leave "after" of the rows they find.           *)
OneMore(traces, expired, after) ==
  [old \in SUBSET traces |->
     IF old \cap expired = {} THEN {old}
     ELSE UNION {IF Last(ids) THEN {old \ ids} ELSE after[old \ ids] : ids \in Chosen(old \cap expired)}]

(* purge_expired_audit_traces: the rows that may be left, when the database refuses from   *)
(* the transaction after "good" on.                                                        *)
Purged(traces, expired, good) ==
  LET left[n \in 0..good] ==
        IF n = 0 THEN [old \in SUBSET traces |-> {old}] ELSE OneMore(traces, expired, left[n - 1])
  IN  left[good][traces]

(* A run that is not refused leaves no expired row, and no run takes a row that is not     *)
(* expired, or more than it had transactions for.                                          *)
Sound(traces, expired) ==
  \A good \in 0..(Cardinality(traces) + 1) :
    \A left \in Purged(traces, expired, good) :
      /\ traces \ expired \subseteq left
      /\ Cardinality(traces \ left) <= good * Batch
      /\ good * Batch > Cardinality(expired) => left \cap expired = {}

Misjudged == {traces \in SUBSET Trace : \E expired \in SUBSET traces : ~Sound(traces, expired)}
=============================================================================
