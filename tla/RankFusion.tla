----------------------------- MODULE RankFusion -----------------------------
(***************************************************************************)
(* What retrieve makes of what its channels bring (knowledge_retriever.py).*)
(*                                                                         *)
(* The vector and the keyword channel bring chunks in the order of their   *)
(* ranks; reciprocal rank fusion adds weight / (60 + rank) for every time  *)
(* a chunk comes.  The vector channel brings a chunk twice when the index  *)
(* holds it twice: from a rebuild and from the chunk's own addition.       *)
(* The fast channel brings chunks with a score of its own, and one that    *)
(* matches exactly ends the retrieval.  A channel that failed brings an    *)
(* empty list.  Scores are counted in units that make every sum exact for  *)
(* lists of up to three.  The cross-encoder, off by default, is left out.  *)
(***************************************************************************)
EXTENDS Integers, Sequences, SequencesExt, FiniteSetsExt

One == 2 * 61 * 62 * 63          \* a score of 1.0
VectorWeight == 2                \* in halves: 1.0, and keyword_weight 0.5
KeywordWeight == 1

Ranks(list, c) == {r \in DOMAIN list : list[r] = c}
Share(list, weight, c) ==
  MapThenSumSet(LAMBDA r : ((One \div 2) * weight) \div (60 + r), Ranks(list, c))

(* The dictionary of _rrf_fuse: every chunk once, in the order in which they come. *)
Found(vector, keyword) ==
  FoldLeft(LAMBDA found, c : IF c \in ToSet(found) THEN found ELSE Append(found, c), <<>>, vector \o keyword)

(* sorted(..., reverse=True) keeps the order of equal scores. *)
Sorted(hits) ==
  LET before(i, j) == \/ hits[i].score > hits[j].score
                      \/ hits[i].score = hits[j].score /\ i < j
      order == CHOOSE f \in [DOMAIN hits -> DOMAIN hits] :
                 \A a, b \in DOMAIN hits : a < b => before(f[a], f[b])
  IN  [i \in DOMAIN hits |-> hits[order[i]]]

Hit(c, score) == [chunk |-> c, score |-> score]
ChunksOf(hits) == {hits[i].chunk : i \in DOMAIN hits}
Top(hits, k) == SubSeq(hits, 1, Min({k, Len(hits)}))

\* mutant: the better of the two ranks instead of their sum
FusedByBest(vector, keyword) ==
  LET found == Found(vector, keyword)
  IN  Sorted([i \in DOMAIN found |->
               Hit(found[i], Max({Share(vector, VectorWeight, found[i]),
                                  Share(keyword, KeywordWeight, found[i])}))])

_rrf_fuse(vector, keyword) ==
  LET found == Found(vector, keyword)
  IN  Sorted([i \in DOMAIN found |->
               Hit(found[i], Share(vector, VectorWeight, found[i])
                             + Share(keyword, KeywordWeight, found[i]))])

(* fast: the hits of the fast channel, best first, at most three. *)
Merged(fast, vector, keyword, k) ==
  IF \E i \in DOMAIN fast : fast[i].score >= One THEN Top(fast, k)
  ELSE LET fused == Top(_rrf_fuse(vector, keyword), k)
           more == SelectSeq(fused, LAMBDA h : h.chunk \notin ChunksOf(fast))
       IN  Top(Sorted(fast \o more), k)

-----------------------------------------------------------------------------
(* What is asked of the merge: no chunk twice and no more than k, also where a channel  *)
(* brings one twice; an exact match comes first; a chunk both channels found comes      *)
(* before every chunk that only one of them found, and found once (one that the vector  *)
(* channel brings twice may come first), so long as the lists are short beside the 60   *)
(* of the formula; and the chunk the fast channel answers from is cited, if its score   *)
(* is above what the ranks of two such lists add up to.                                 *)
Sound(fast, vector, keyword, k) ==
  LET hits == Merged(fast, vector, keyword, k)
      at(list, c) == CHOOSE r \in DOMAIN list : list[r] = c
      fused == [i \in DOMAIN _rrf_fuse(vector, keyword) |-> _rrf_fuse(vector, keyword)[i].chunk]
      alone(c) == Cardinality(Ranks(vector, c)) + Cardinality(Ranks(keyword, c)) = 1
  IN  /\ Len(hits) <= k /\ Cardinality(ChunksOf(hits)) = Len(hits)
      /\ (fast # <<>> /\ fast[1].score >= One) => hits[1] = fast[1]
      /\ \A a \in ToSet(vector) \cap ToSet(keyword), b \in ToSet(fused) :
           alone(b) => at(fused, a) < at(fused, b)
      /\ (fast # <<>> /\ fast[1].score > One \div 10) => fast[1].chunk \in ChunksOf(hits)

Unsound(fasts, vectors, keywords, ks) ==
  {x \in fasts \X vectors \X keywords \X ks : ~Sound(x[1], x[2], x[3], x[4])}
=============================================================================
