-------------------------- MODULE MCKnowledgeIndex --------------------------
(***************************************************************************)
(* A document is indexed, an entry is added to its source, the source may  *)
(* be deleted; a second tenant owns nothing.  The texts and the lists the  *)
(* pure parts are tried on are given here too.                             *)
(***************************************************************************)
EXTENDS Uploads

Rank == INSTANCE RankFusion

MCHome == [c \in {"c1", "c2"} |-> "manual"]
MCOwner == [s \in {"manual"} |-> "us"]
MCBatches == {<<"c2">>}
MCKept == <<"c1">>

(* Every line of seven characters, unbroken ones of five to sixteen, and texts of three *)
(* paragraphs of one or two lines, shorter and longer than a chunk.                     *)
Line(kinds, first) == [i \in DOMAIN kinds |-> [id |-> first + i, kind |-> kinds[i]]]
Lines == {Line(k, 0) : k \in [1..7 -> {"x", "e", "."}]}
           \cup {Line([i \in 1..n |-> "x"], 0) : n \in 5..16}
Sample(n, first) == Line([i \in 1..n |-> IF i % 3 = 0 THEN "." ELSE "x"], first)
Paragraphs(first) == {<<Sample(3, first)>>, <<Sample(2, first), Sample(2, first + 10)>>,
                      <<Sample(6, first)>>, <<Sample(7, first), Sample(2, first + 10)>>}
MCTexts == {<< <<l>> >> : l \in Lines}
           \cup {<<p, q, r>> : p \in Paragraphs(0), q \in Paragraphs(20), r \in Paragraphs(40)}

Cells == {"", "name", "city", "12", "long"}
Rows == [1..3 -> Cells] \cup [1..1 -> Cells]
MCTables == {<<r, q>> : r \in Rows, q \in Rows} \cup {<<r, <<"">>, q>> : r \in Rows, q \in Rows}

(* CSV files of up to five lines, with bare ones at the ends and between the others.      *)
MCMerge(texts) == FoldLeft(LAMBDA x, y : IF x = "" THEN y ELSE x \o " " \o y, "", texts)
CsvLines == {<<>>, <<"">>, <<"", "">>, <<"name">>, <<"name", "city">>, <<"", "12", "">>}
MCCsvFiles == [tabs : BOOLEAN, rows : UNION {[1..n -> CsvLines] : n \in 0..5}]

Ranked == {<<>>, <<"a">>, <<"a", "b">>, <<"b", "a">>, <<"a", "b", "c">>, <<"c", "a", "b">>,
           <<"b", "c">>, <<"d", "a">>}
Repeated == {<<"a", "a">>, <<"a", "a", "b">>, <<"b", "a", "a">>, <<"a", "b", "a">>}
Scores == {Rank!One, (98 * Rank!One) \div 100, Rank!One \div 4}
Fasts == {<<>>} \cup {<<Rank!Hit(c, s)>> : c \in {"a", "d"}, s \in Scores}
           \cup {<<Rank!Hit("a", s), Rank!Hit("d", Rank!One \div 4)>> : s \in Scores}
Unsound == Rank!Unsound(Fasts, Ranked \cup Repeated, Ranked, {1, 2, 5})

(* What retrieve makes of its channels, of a vector list that holds a chunk twice too: *)
(* see Sound in RankFusion.                                                            *)
FusionSound == rows \subseteq used => Unsound = {}
=============================================================================
