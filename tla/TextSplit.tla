----------------------------- MODULE TextSplit -----------------------------
(***************************************************************************)
(* How an uploaded text is cut into chunks (knowledge.py,                   *)
(* _recursive_split).  A text is a sequence of paragraphs, a paragraph a    *)
(* sequence of lines, a line a sequence of characters; a character is a    *)
(* record of its identity and its kind: "." ends a sentence, "e" ends a    *)
(* word, "x" does neither, "br" is a separator the code puts in between.   *)
(* Positions count from 0 as in the code.  Extraction strips a text before *)
(* it is split, and blanks at the edges of a chunk are left out.           *)
(***************************************************************************)
EXTENDS Integers, Sequences, SequencesExt, FiniteSetsExt

CONSTANTS
  Window,    \* how far from the wanted cut a boundary is looked for: 50
  Least,     \* that distance for an overlap of less than two: 20
  Jieba      \* BOOLEAN: whether the word segmentation is installed

Break == [id |-> 0, kind |-> "br"]
From(text, start) == SubSeq(text, start + 1, Len(text))
Distance(p, q) == IF p < q THEN q - p ELSE p - q

(* The one nearest to target, the first of two equally near. *)
Nearest(S, target) ==
  CHOOSE p \in S : \A q \in S : \/ Distance(p, target) < Distance(q, target)
                                \/ Distance(p, target) = Distance(q, target) /\ p <= q

_find_sentence_boundary(text, target, window) ==
  LET start == Max({0, target - window})
      end == Min({Len(text), target + window})
      delimiters == {i \in start..(end - 1) : text[i + 1].kind = "."}
      words == {p \in (start + 1)..end : p = end \/ text[p].kind = "e"}
  IN  IF delimiters # {} THEN Nearest(delimiters, target) + 1
      ELSE IF Jieba /\ words # {} THEN Nearest(words, target)
      ELSE target

Half(overlap) == IF overlap \div 2 = 0 THEN Least ELSE overlap \div 2

(* A line longer than a chunk: each piece ends at a boundary, the next one steps back. *)
Pieces(line, size, overlap) ==
  LET piece[start \in Nat] ==
        IF start >= Len(line) THEN <<>>
        ELSE LET end == IF start + size < Len(line)
                        THEN _find_sentence_boundary(line, start + size, Window)
                        ELSE start + size
                 back == end - overlap
                 next == IF overlap > 0 /\ back > start
                         THEN _find_sentence_boundary(line, back, Half(overlap))
                         ELSE back
             IN  <<SubSeq(line, start + 1, Min({end, Len(line)}))>>
                 \o piece[Max({next, start + 1})]
  IN  piece[0]

Flushed(acc) == IF acc.current = <<>> THEN acc.chunks ELSE Append(acc.chunks, acc.current)

(* A paragraph longer than a chunk is cut by its lines. *)
ByLines(lines, size, overlap) ==
  LET take(acc, line) ==
        LET candidate == IF acc.current = <<>> THEN line ELSE acc.current \o <<Break>> \o line
        IN  IF Len(line) > size
            THEN [chunks |-> Flushed(acc) \o Pieces(line, size, overlap), current |-> <<>>]
            ELSE IF Len(candidate) > size /\ acc.current # <<>>
            THEN [chunks |-> Flushed(acc), current |-> line]
            ELSE [acc EXCEPT !.current = candidate]
  IN  Flushed(FoldLeft(take, [chunks |-> <<>>, current |-> <<>>], lines))

Joined(lines) == FoldLeft(LAMBDA text, line : IF text = <<>> THEN line ELSE text \o <<Break>> \o line,
                          <<>>, lines)

(* Short paragraphs are gathered; the next chunk begins with the end of the last one. *)
_recursive_split(paragraphs, size, overlap) ==
  LET tail(chunk) == From(chunk, _find_sentence_boundary(chunk, Len(chunk) - overlap, Half(overlap)))
      take(acc, lines) ==
        LET paragraph == Joined(lines)
            gap == <<Break, Break>>
            candidate == IF acc.current = <<>> THEN paragraph ELSE acc.current \o gap \o paragraph
        IN  IF Len(paragraph) > size
            THEN [chunks |-> Flushed(acc) \o ByLines(lines, size, overlap), current |-> <<>>]
            ELSE IF Len(candidate) <= size \/ acc.current = <<>>
            THEN [acc EXCEPT !.current = candidate]
            ELSE IF overlap > 0 /\ Len(acc.current) > overlap
            THEN [chunks |-> Flushed(acc), current |-> tail(acc.current) \o gap \o paragraph]
            ELSE [chunks |-> Flushed(acc), current |-> paragraph]
  IN  Flushed(FoldLeft(take, [chunks |-> <<>>, current |-> <<>>], paragraphs))

Lost(text, size, overlap) ==
  LET characters(t) == {t[i] : i \in DOMAIN t} \ {Break}
  IN  (UNION {characters(Joined(text[p])) : p \in DOMAIN text})
      \ (UNION {characters(c) : c \in ToSet(_recursive_split(text, size, overlap))})

(* The texts, sizes and overlaps of which a character ends up in no chunk. *)
Lossy(texts, sizes, overlaps) ==
  {x \in texts \X sizes \X overlaps : x[3] < x[2] /\ Lost(x[1], x[2], x[3]) # {}}
=============================================================================
