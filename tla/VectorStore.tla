---------------------------- MODULE VectorStore ----------------------------
(***************************************************************************)
(* The two vector stores as values (vector_store.py, pgvector_store.py).   *)
(*                                                                         *)
(* The FAISS store keeps vectors by position and, in a sidecar of its own, *)
(* the chunk id of every position: nothing but the code's care keeps the   *)
(* two in step.  A vector is written as the chunk whose text it encodes; a *)
(* deleted position keeps its vector and loses its id.  A domain follows   *)
(* its id everywhere and is left out.  The pgvector table keys a vector by *)
(* its chunk id, so it is a store whose two halves are always equal.       *)
(***************************************************************************)
EXTENDS Integers, Sequences, FiniteSets, SequencesExt

Blank == ""
Empty == [vectors |-> <<>>, ids |-> <<>>]

Ids(st) == ToSet(st.ids) \ {Blank}
Lesser(a, b) == IF a < b THEN a ELSE b

(* What a search can find: an id that stands at the position of its own vector. *)
Found(st) == {st.ids[i] : i \in {j \in 1..Lesser(Len(st.ids), Len(st.vectors)) :
                                    st.ids[j] = st.vectors[j]}}

(* No position names a chunk other than the one its vector encodes. *)
InStep(st) == /\ Len(st.ids) = Len(st.vectors)
              /\ \A i \in DOMAIN st.ids : st.ids[i] \in {Blank, st.vectors[i]}

Grown(st, items) == [st EXCEPT !.vectors = @ \o items]
Named(st, items) == [st EXCEPT !.ids = @ \o items]

\* mutant: the entries are taken out of the sidecar instead of being blanked
TakenOut(st, gone) == [st EXCEPT !.ids = SelectSeq(@, LAMBDA id : id \notin gone)]

Blanked(st, gone) ==
  [st EXCEPT !.ids = [i \in DOMAIN @ |-> IF @[i] \in gone THEN Blank ELSE @[i]]]

(* A sidecar read beside an index of n vectors: short ones padded, long ones cut. *)
Synced(ids, n) ==
  IF Len(ids) >= n THEN SubSeq(ids, 1, n)
  ELSE ids \o [i \in 1..(n - Len(ids)) |-> Blank]

(* Rows of the pgvector table, in any order: what is there under an id is replaced. *)
Rowed(ids) == [vectors |-> SetToSeq(ids), ids |-> SetToSeq(ids)]
Upserted(st, items) == Rowed(Ids(st) \cup ToSet(items))
Removed(st, gone) == Rowed(Ids(st) \ gone)

(* The nearest k authorized positions.  Which are nearest is the model's    *)
(* affair, so any k of them; a position past the last vector is not found.  *)
Search(st, allowed, k) ==
  LET at == {i \in DOMAIN st.ids : st.ids[i] \in allowed}
      real == at \cap DOMAIN st.vectors
  IN  IF st.vectors = <<>> \/ allowed = {} \/ at = {} THEN {{}}
      ELSE {{st.ids[i] : i \in I} : I \in {J \in SUBSET real :
               Cardinality(J) = Lesser(Lesser(k, Cardinality(at)), Cardinality(real))}}
=============================================================================
