-------------------------- MODULE Background_proofs --------------------------
(***************************************************************************)
(* What runs beside the requests.  The fold of a conversation: the summary *)
(* stands for the rows before its watermark, and no prompt loses a message,*)
(* for every threshold, window, batch and skew, when the id of a deleted   *)
(* session is not used again.  The backups, the delivery of events and the *)
(* shutdown: an archive that was completed stays, every subscription is    *)
(* asked and the end is quiet, for every number of backups, archives to    *)
(* keep, subscriptions, attempts and stops.  A purge of audit rows takes   *)
(* every expired one and no other, for every size of a batch.              *)
(***************************************************************************)
EXTENDS ConversationMemory, Background, WellFoundedInduction, FiniteSetTheorems, SequenceTheorems, TLAPS

(* One row inserted: what was before it keeps its place. *)
LEMMA InsertedProperties ==
  ASSUME NEW S, NEW s \in Seq(S), NEW x \in S, NEW i \in 1..Len(s) + 1
  PROVE  /\ Inserted(s, i, x) \in Seq(S)
         /\ Len(Inserted(s, i, x)) = Len(s) + 1
         /\ \A k \in 1..Len(s) + 1 :
              Inserted(s, i, x)[k] = IF k < i THEN s[k] ELSE IF k = i THEN x ELSE s[k - 1]
<1>1. Len(s) \in Nat /\ i \in Nat /\ 1 <= i /\ i <= Len(s) + 1 /\ DOMAIN s = 1..Len(s)
  BY LenProperties
<1>2. \A k \in 1..Len(s) : s[k] \in S
  BY ElementOfSeq
<1> DEFINE a == SubSeq(s, 1, i - 1)
           b == SubSeq(s, i, Len(s))
<1>3. /\ a \in Seq(S) /\ Len(a) = i - 1
      /\ \A k \in 1..i - 1 : a[k] = s[k]
  <2>1. 1 \in Int /\ i - 1 \in Int /\ \A k \in 1..i - 1 : s[k] \in S
    BY <1>1, <1>2
  <2>2. /\ a \in Seq(S)
        /\ Len(a) = IF 1 <= i - 1 THEN i - 1 - 1 + 1 ELSE 0
        /\ \A k \in 1..(i - 1 - 1 + 1) : a[k] = s[1 + k - 1]
    BY <2>1, SubSeqProperties
  <2> QED BY <1>1, <2>2
<1>4. /\ b \in Seq(S) /\ Len(b) = Len(s) - i + 1
      /\ \A k \in 1..Len(s) - i + 1 : b[k] = s[i + k - 1]
  <2>1. \A k \in i..Len(s) : s[k] \in S
    BY <1>1, <1>2
  <2>2. /\ b \in Seq(S)
        /\ Len(b) = IF i <= Len(s) THEN Len(s) - i + 1 ELSE 0
        /\ \A k \in 1..(Len(s) - i + 1) : b[k] = s[i + k - 1]
    BY <1>1, <2>1, SubSeqProperties
  <2> QED BY <1>1, <2>2
<1> DEFINE c == a \o <<x>>
<1>5. <<x>> \in Seq(S) /\ Len(<<x>>) = 1 /\ <<x>>[1] = x
  OBVIOUS
<1> HIDE DEF a, b
<1>6. /\ c \in Seq(S) /\ Len(c) = i
      /\ \A k \in 1..i : c[k] = IF k <= i - 1 THEN a[k] ELSE <<x>>[k - (i - 1)]
  BY <1>1, <1>3, <1>5, ConcatProperties
<1> HIDE DEF c
<1>7. /\ c \o b \in Seq(S) /\ Len(c \o b) = Len(s) + 1
      /\ \A k \in 1..Len(s) + 1 : (c \o b)[k] = IF k <= i THEN c[k] ELSE b[k - i]
  <2>1. /\ c \o b \in Seq(S) /\ Len(c \o b) = Len(c) + Len(b)
        /\ \A k \in 1..Len(c) + Len(b) : (c \o b)[k] = IF k <= Len(c) THEN c[k] ELSE b[k - Len(c)]
    BY <1>4, <1>6, ConcatProperties
  <2>2. Len(c) = i /\ Len(c) + Len(b) = Len(s) + 1
    BY <1>1, <1>4, <1>6
  <2> QED BY <2>1, <2>2
<1>8. ASSUME NEW k \in 1..Len(s) + 1
      PROVE  (c \o b)[k] = IF k < i THEN s[k] ELSE IF k = i THEN x ELSE s[k - 1]
  <2>1. CASE k < i
    <3>1. k \in 1..i - 1 /\ k \in 1..i /\ k <= i - 1 /\ k <= i
      BY <1>1, <2>1
    <3>2. (c \o b)[k] = c[k] /\ c[k] = a[k] /\ a[k] = s[k]
      BY <1>3, <1>6, <1>7, <3>1
    <3> QED BY <2>1, <3>2
  <2>2. CASE k = i
    <3>1. i - (i - 1) = 1 /\ ~(i <= i - 1) /\ i \in 1..i
      BY <1>1
    <3>2. (c \o b)[i] = c[i] /\ c[i] = x
      BY <1>1, <1>5, <1>6, <1>7, <2>2, <3>1
    <3> QED BY <1>1, <2>2, <3>2
  <2>3. CASE k > i
    <3>1. k - i \in 1..Len(s) - i + 1 /\ i + (k - i) - 1 = k - 1
      BY <1>1, <2>3
    <3>2. ~(k <= i) /\ ~(k < i) /\ k # i
      BY <1>1, <2>3
    <3>3. (c \o b)[k] = b[k - i]
      BY <1>7, <3>2
    <3>4. b[k - i] = s[k - 1]
      BY <1>4, <3>1
    <3> QED BY <3>2, <3>3, <3>4
  <2>4. k < i \/ k = i \/ k > i
    BY <1>1
  <2> QED BY <2>1, <2>2, <2>3, <2>4, Zenon
<1>9. \A k \in 1..Len(s) + 1 :
        (c \o b)[k] = IF k < i THEN s[k] ELSE IF k = i THEN x ELSE s[k - 1]
  BY <1>8
<1>10. Inserted(s, i, x) = c \o b
  BY DEF Inserted, a, b, c
<1> QED BY <1>7, <1>9, <1>10

-----------------------------------------------------------------------------
(* The inductive invariant. *)

(* Rows are numbered as they are written, and each is there once. *)
Numbered ==
  /\ Len(rows) <= made
  /\ \A k \in DOMAIN rows : rows[k] <= made
  /\ \A k, l \in DOMAIN rows : rows[k] = rows[l] => k = l
  /\ turn.pc # "idle" => made + 2 <= MaxRows

Gone == ~exists => rows = <<>> /\ ctx = Blank

(* A fold whose session is still there holds what the session held when the fold
   began, and reads no further than the window allowed then. *)
FoldReads ==
  /\ fold.pc # "none" => made > 0
  /\ exists /\ fold.pc \in {"count", "rows", "asking", "persist"}
       => fold.base = ctx.upto /\ fold.prior = ctx.summary
  /\ exists /\ fold.pc \in {"rows", "asking", "persist"}
       => fold.total <= Len(rows) /\ fold.base + RecentWindow < fold.total
  /\ exists /\ fold.pc \in {"asking", "persist"}
       => /\ fold.count >= 1 /\ fold.base + fold.count + RecentWindow <= fold.total
          /\ fold.took = {rows[k] : k \in fold.base + 1..fold.base + fold.count}

MemoryInv == TypeOK /\ Numbered /\ Gone /\ Faithful /\ RecentVerbatim /\ FoldReads

(* A fresh row inserted among numbered ones. *)
LEMMA InsertedFresh ==
  ASSUME NEW s \in Seq(Row), NEW m \in Nat, NEW x \in Row, x = m + 1,
         NEW i \in 1..Len(s) + 1,
         \A k \in 1..Len(s) : s[k] <= m,
         \A k, l \in 1..Len(s) : s[k] = s[l] => k = l
  PROVE  /\ Inserted(s, i, x) \in Seq(Row)
         /\ Len(Inserted(s, i, x)) = Len(s) + 1
         /\ \A k \in 1..Len(s) + 1 : Inserted(s, i, x)[k] <= x
         /\ \A k, l \in 1..Len(s) + 1 : Inserted(s, i, x)[k] = Inserted(s, i, x)[l] => k = l
         /\ \A k \in 1..i - 1 : Inserted(s, i, x)[k] = s[k]
<1> DEFINE t == Inserted(s, i, x)
<1>1. /\ t \in Seq(Row) /\ Len(t) = Len(s) + 1
      /\ \A k \in 1..Len(s) + 1 : t[k] = IF k < i THEN s[k] ELSE IF k = i THEN x ELSE s[k - 1]
  BY InsertedProperties
<1> HIDE DEF t
<1>2. Len(s) \in Nat /\ i \in Nat /\ 1 <= i /\ i <= Len(s) + 1 /\ x \in Nat /\ Row \subseteq Nat
  BY LenProperties DEF Row
<1>3. \A k \in 1..Len(s) : s[k] \in Nat
  BY <1>2, ElementOfSeq
<1>4. \A k \in 1..Len(s) + 1 : k < i => k \in 1..Len(s) /\ t[k] = s[k]
  BY <1>1, <1>2
<1>5. \A k \in 1..Len(s) + 1 : k > i => k - 1 \in 1..Len(s) /\ t[k] = s[k - 1]
  BY <1>1, <1>2
<1>6. t[i] = x /\ i \in 1..Len(s) + 1
  BY <1>1, <1>2
<1>7. \A k \in 1..Len(s) + 1 : k # i => t[k] \in Nat /\ t[k] <= m
  BY <1>2, <1>3, <1>4, <1>5
<1>8. \A k \in 1..Len(s) + 1 : t[k] <= x
  BY <1>2, <1>6, <1>7
<1>9. ASSUME NEW k \in 1..Len(s) + 1, NEW l \in 1..Len(s) + 1, t[k] = t[l]
      PROVE  k = l
  <2>1. CASE k = i \/ l = i
    BY <1>2, <1>6, <1>7, <1>9, <2>1
  <2>2. CASE k # i /\ l # i /\ (k < i <=> l < i)
    BY <1>2, <1>4, <1>5, <1>9, <2>2
  <2>3. CASE k < i /\ l > i
    BY <1>2, <1>4, <1>5, <1>9, <2>3
  <2>4. CASE k > i /\ l < i
    BY <1>2, <1>4, <1>5, <1>9, <2>4
  <2> QED BY <1>2, <2>1, <2>2, <2>3, <2>4
<1>10. \A k \in 1..i - 1 : t[k] = s[k]
  BY <1>2, <1>4
<1> QED BY <1>1, <1>8, <1>9, <1>10 DEF t

(* What a commit does to the rows: two more, fresh, and every row that is not
   among the last Skew keeps its place. *)
LEMMA CommitRows ==
  ASSUME MemoryInv, NEW i \in 1..MaxRows, NEW j \in 1..MaxRows, TurnCommits(i, j)
  PROVE  /\ rows' \in Seq(Row) /\ Len(rows') = Len(rows) + 2
         /\ \A k \in DOMAIN rows' : rows'[k] <= made'
         /\ \A k, l \in DOMAIN rows' : rows'[k] = rows'[l] => k = l
         /\ \A k \in 1..Len(rows) - Skew : rows'[k] = rows[k]
<1> USE MemoryAssumption
<1>1. /\ rows \in Seq(Row) /\ Len(rows) \in Nat /\ DOMAIN rows = 1..Len(rows)
      /\ made \in Nat /\ made + 1 \in Row /\ made + 2 \in Row
      /\ \A k \in 1..Len(rows) : rows[k] \in Row
  <2>1. rows \in Seq(Row) /\ made \in 0..MaxRows /\ made + 2 <= MaxRows
    BY DEF MemoryInv, TypeOK, Numbered, TurnCommits
  <2> QED BY <2>1, LenProperties, ElementOfSeq DEF Row
<1>2. /\ i \in Nat /\ i \in 1..Len(rows) + 1 /\ Len(rows) + 1 <= i + Skew
      /\ j \in Nat /\ j \in 1..Len(rows) + 2 /\ Len(rows) + 2 <= j + Skew
      /\ rows' = Inserted(Inserted(rows, i, made + 1), j, made + 2) /\ made' = made + 2
  BY <1>1 DEF TurnCommits
<1>3. /\ \A k \in 1..Len(rows) : rows[k] <= made
      /\ \A k, l \in 1..Len(rows) : rows[k] = rows[l] => k = l
  BY <1>1 DEF MemoryInv, Numbered
<1>a. PICK x \in Row : x = made + 1
  BY <1>1
<1>b. PICK y \in Row : y = made + 2
  BY <1>1
<1> DEFINE r == Inserted(rows, i, x)
<1>4. /\ r \in Seq(Row) /\ Len(r) = Len(rows) + 1
      /\ \A k \in 1..Len(rows) + 1 : r[k] <= x
      /\ \A k, l \in 1..Len(rows) + 1 : r[k] = r[l] => k = l
      /\ \A k \in 1..i - 1 : r[k] = rows[k]
  <2> PICK s \in Seq(Row), m \in Nat : s = rows /\ m = made
    BY <1>1
  <2>1. /\ x = m + 1 /\ i \in 1..Len(s) + 1
        /\ \A k \in 1..Len(s) : s[k] <= m
        /\ \A k, l \in 1..Len(s) : s[k] = s[l] => k = l
    BY <1>2, <1>3, <1>a
  <2>2. r = Inserted(s, i, x)
    OBVIOUS
  <2> HIDE DEF r
  <2>3. /\ r \in Seq(Row) /\ Len(r) = Len(s) + 1
        /\ \A k \in 1..Len(s) + 1 : r[k] <= x
        /\ \A k, l \in 1..Len(s) + 1 : r[k] = r[l] => k = l
        /\ \A k \in 1..i - 1 : r[k] = s[k]
    BY <2>1, <2>2, InsertedFresh
  <2> QED BY <2>3
<1> HIDE DEF r
<1> DEFINE t == Inserted(r, j, y)
<1>5. /\ t \in Seq(Row) /\ Len(t) = Len(r) + 1
      /\ \A k \in 1..Len(r) + 1 : t[k] <= y
      /\ \A k, l \in 1..Len(r) + 1 : t[k] = t[l] => k = l
      /\ \A k \in 1..j - 1 : t[k] = r[k]
  <2>1. /\ x \in Nat /\ y = x + 1 /\ j \in 1..Len(r) + 1
        /\ \A k \in 1..Len(r) : r[k] <= x
        /\ \A k, l \in 1..Len(r) : r[k] = r[l] => k = l
    BY <1>1, <1>2, <1>4, <1>a, <1>b
  <2> QED BY <1>1, <1>4, <2>1, InsertedFresh
<1>6. rows' = t
  BY <1>2, <1>a, <1>b DEF r
<1> HIDE DEF t
<1>7. Len(rows') = Len(rows) + 2 /\ DOMAIN rows' = 1..Len(rows) + 2 /\ Len(r) + 1 = Len(rows) + 2
  BY <1>1, <1>4, <1>5, <1>6, LenProperties
<1>8. \A k \in 1..Len(rows) - Skew : k \in 1..i - 1 /\ k \in 1..j - 1
  BY <1>1, <1>2
<1> QED BY <1>2, <1>4, <1>5, <1>6, <1>7, <1>8, <1>b

LEMMA TypedSteps ==
  ASSUME MemoryInv, [Next]_vars
  PROVE  TypeOK'
<1> USE MemoryAssumption DEF MemoryInv
<1>1. ASSUME NEW locked \in BOOLEAN, TurnStart(locked) PROVE TypeOK'
  BY <1>1 DEF TurnStart, TypeOK
<1>2. CASE TurnReads
  <2>1. ctx.upto <= Len(rows) /\ ctx.upto \in Nat
    <3>1. Len(rows) \in Nat /\ ctx.upto \in Nat
      BY LenProperties DEF TypeOK
    <3> QED BY <3>1 DEF RecentVerbatim
  <2>2. ASSUME NEW b \in Nat PROVE SubSeq(rows, b + 1, Len(rows)) \in Seq(Row)
    <3>1. Len(rows) \in Nat /\ \A k \in b + 1..Len(rows) : rows[k] \in Row
      BY LenProperties, ElementOfSeq DEF TypeOK
    <3> QED BY <3>1, SubSeqProperties
  <2>3. prompt'.told \in Seq(Row)
    <3>1. PICK b \in Nat : prompt' = [memory |-> ctx.summary, told |-> SubSeq(rows, b + 1, Len(rows))]
      BY <1>2, <2>1 DEF TurnReads
    <3> QED BY <2>2, <3>1
  <2>4. prompt' = [memory |-> ctx.summary, told |-> prompt'.told]
    BY <1>2 DEF TurnReads
  <2>5. prompt' \in [memory : SUBSET Row, told : Seq(Row)]
    BY <2>3, <2>4 DEF TypeOK
  <2> QED BY <1>2, <2>5 DEF TurnReads, TypeOK
<1>3. CASE TurnAborts
  BY <1>3 DEF TurnAborts, TypeOK, NoTurn, NoPrompt
<1>4. CASE Delete
  <2>1. /\ rows' \in Seq(Row) /\ turns' \in Nat /\ exists' \in BOOLEAN
        /\ ctx' \in [summary : SUBSET Row, upto : 0..MaxRows]
    <3>1. rows' = <<>> /\ turns' = 0 /\ exists' = FALSE /\ ctx' = [summary |-> {}, upto |-> 0]
      BY <1>4 DEF Delete, Blank
    <3>2. 0 \in 0..MaxRows /\ {} \in SUBSET Row /\ <<>> \in Seq(Row)
      OBVIOUS
    <3> QED BY <3>1, <3>2
  <2> QED BY <1>4, <2>1 DEF Delete, TypeOK
<1>5. ASSUME NEW i \in 1..MaxRows, NEW j \in 1..MaxRows, TurnCommits(i, j) PROVE TypeOK'
  <2>1. rows' \in Seq(Row)
    BY <1>5, CommitRows
  <2>2. made' \in 0..MaxRows /\ turns' \in Nat
    BY <1>5 DEF TurnCommits, TypeOK, Numbered
  <2>3. fold' \in [pc : {"none", "context", "count", "rows", "asking", "persist"},
                   base : 0..MaxRows, prior : SUBSET Row, total : 0..MaxRows,
                   took : SUBSET Row, count : 0..BatchRows]
    <3>1. fold' = fold \/ fold' = [NoFold EXCEPT !.pc = "context"]
      BY <1>5 DEF TurnCommits, Schedule
    <3>2. CASE fold' = fold
      BY <3>2 DEF TypeOK
    <3>3. CASE fold' = [NoFold EXCEPT !.pc = "context"]
      BY <3>3 DEF NoFold
    <3> QED BY <3>1, <3>2, <3>3
  <2>4. turn' = NoTurn /\ prompt' = NoPrompt /\ <<>> \in Seq(Row)
    BY <1>5 DEF TurnCommits
  <2>5. /\ turn' \in [pc : {"idle", "loaded", "asking"}, locked : BOOLEAN]
        /\ prompt' \in [memory : SUBSET Row, told : Seq(Row)]
    BY <2>4 DEF NoTurn, NoPrompt
  <2>6. exists' \in BOOLEAN /\ ctx' \in [summary : SUBSET Row, upto : 0..MaxRows]
    BY <1>5 DEF TurnCommits, TypeOK
  <2> QED BY <2>1, <2>2, <2>3, <2>5, <2>6 DEF TypeOK
<1>6. CASE ReadContext
  BY <1>6 DEF ReadContext, FoldFrame, TypeOK
<1>7. CASE Count
  <2>1. Len(rows) \in 0..MaxRows
    BY LenProperties DEF TypeOK, Numbered
  <2> QED BY <1>7, <2>1 DEF Count, FoldFrame, TypeOK
<1>8. CASE Summarized
  BY <1>8 DEF Summarized, FoldFrame, TypeOK
<1>9. CASE Persist
  <2>1. fold.base + fold.count \in 0..MaxRows
    BY <1>9, LenProperties DEF Persist, Fresh, FoldReads, Numbered, TypeOK
  <2> QED BY <1>9, <2>1 DEF Persist, FoldFrame, TypeOK, NoFold
<1>10. CASE FoldEnds
  BY <1>10 DEF FoldEnds, FoldFrame, TypeOK, NoFold
<1>11. ASSUME NEW n \in 1..MaxRows, ReadRows(n) PROVE TypeOK'
  <2>1. Len(rows) \in Nat /\ \A k \in 1..Len(rows) : rows[k] \in Row
    BY LenProperties, ElementOfSeq DEF TypeOK
  <2>2. {rows[k] : k \in fold.base + 1..fold.base + n} \subseteq Row
    <3>1. fold.base \in Nat /\ fold.base + n <= Len(rows)
      BY <1>11 DEF ReadRows, TypeOK
    <3>2. ASSUME NEW k \in fold.base + 1..fold.base + n PROVE k \in 1..Len(rows)
      BY <2>1, <3>1
    <3> QED BY <2>1, <3>2
  <2>3. n \in 0..BatchRows
    BY <1>11 DEF ReadRows, Limit, TypeOK
  <2> QED BY <1>11, <2>2, <2>3 DEF ReadRows, FoldFrame, TypeOK
<1>12. CASE UNCHANGED vars
  BY <1>12 DEF vars, TypeOK
<1> QED
  BY <1>1, <1>2, <1>3, <1>4, <1>5, <1>6, <1>7, <1>8, <1>9, <1>10, <1>11, <1>12
     DEF Next, Discard, FoldFails

LEMMA NumberedSteps ==
  ASSUME MemoryInv, [Next]_vars
  PROVE  Numbered' /\ (~Reuse => Gone')
<1> USE MemoryAssumption
<1>1. made \in Nat /\ Numbered /\ Gone
  BY DEF MemoryInv, TypeOK
<1>2. ASSUME NEW locked \in BOOLEAN, TurnStart(locked) PROVE Numbered' /\ (~Reuse => Gone')
  BY <1>1, <1>2 DEF TurnStart, Numbered, Gone
<1>3. CASE TurnReads
  <2>1. turn.pc # "idle" /\ UNCHANGED <<exists, rows, ctx, made>>
    BY <1>3 DEF TurnReads
  <2> QED BY <1>1, <2>1 DEF Numbered, Gone
<1>4. CASE TurnAborts
  BY <1>1, <1>4 DEF TurnAborts, Numbered, Gone, NoTurn
<1>5. CASE Delete
  <2>1. rows' = <<>> /\ ctx' = Blank /\ UNCHANGED <<made, turn>>
    BY <1>5 DEF Delete
  <2>2. Len(rows') = 0 /\ DOMAIN rows' = {}
    BY <2>1
  <2> QED BY <1>1, <2>1, <2>2 DEF Numbered, Gone
<1>6. ASSUME NEW i \in 1..MaxRows, NEW j \in 1..MaxRows, TurnCommits(i, j)
      PROVE  Numbered' /\ (~Reuse => Gone')
  <2>1. /\ Len(rows') = Len(rows) + 2
        /\ \A k \in DOMAIN rows' : rows'[k] <= made'
        /\ \A k, l \in DOMAIN rows' : rows'[k] = rows'[l] => k = l
    BY <1>6, CommitRows
  <2>2. exists /\ exists' = exists /\ made' = made + 2 /\ turn'.pc = "idle"
    BY <1>6 DEF TurnCommits, NoTurn
  <2>3. Len(rows') <= made'
    BY <1>1, <2>1, <2>2, LenProperties DEF Numbered, MemoryInv, TypeOK
  <2> QED BY <2>1, <2>2, <2>3 DEF Numbered, Gone
<1>7. CASE Persist
  BY <1>1, <1>7 DEF Persist, Fresh, FoldFrame, Numbered, Gone
<1>8. CASE UNCHANGED <<exists, rows, ctx, made, turn>>
  BY <1>1, <1>8 DEF Numbered, Gone
<1> QED
  BY <1>2, <1>3, <1>4, <1>5, <1>6, <1>7, <1>8
     DEF Next, vars, ReadContext, Count, Summarized, Discard, FoldFails, FoldEnds, ReadRows, FoldFrame

(* A row before the watermark keeps its place, whatever is committed. *)
LEMMA FaithfulSteps ==
  ASSUME MemoryInv, [Next]_vars, ~Reuse
  PROVE  Faithful' /\ RecentVerbatim'
<1> USE MemoryAssumption
<1>1. /\ Faithful /\ RecentVerbatim /\ Gone
      /\ ctx.upto \in Nat /\ Len(rows) \in Nat /\ made \in Nat
  BY LenProperties DEF MemoryInv, TypeOK
<1>2. ASSUME NEW locked \in BOOLEAN, TurnStart(locked) PROVE Faithful' /\ RecentVerbatim'
  <2>1. UNCHANGED <<rows, ctx>>
    BY <1>2 DEF TurnStart
  <2>2. CASE exists
    BY <1>1, <2>1, <2>2 DEF Faithful, RecentVerbatim
  <2>3. CASE ~exists
    <3>1. ctx' = Blank /\ 1..0 = {}
      BY <1>1, <2>1, <2>3 DEF Gone
    <3> QED BY <3>1 DEF Faithful, RecentVerbatim, Blank
  <2> QED BY <2>2, <2>3
<1>3. CASE Delete
  BY <1>3 DEF Delete, Faithful, RecentVerbatim, Blank
<1>4. ASSUME NEW i \in 1..MaxRows, NEW j \in 1..MaxRows, TurnCommits(i, j)
      PROVE  Faithful' /\ RecentVerbatim'
  <2>1. Len(rows') = Len(rows) + 2 /\ \A k \in 1..Len(rows) - Skew : rows'[k] = rows[k]
    BY <1>4, CommitRows
  <2>2. ctx' = ctx /\ exists /\ exists'
    BY <1>4 DEF TurnCommits
  <2>3. \A k \in 1..ctx.upto : rows'[k] = rows[k]
    BY <1>1, <2>1 DEF RecentVerbatim
  <2>4. Faithful'
    BY <1>1, <2>2, <2>3 DEF Faithful
  <2>5. RecentVerbatim'
    BY <1>1, <2>1, <2>2 DEF RecentVerbatim
  <2> QED BY <2>4, <2>5
<1>5. CASE Persist
  <2> DEFINE b == fold.base
             n == fold.count
  <2>1. /\ exists /\ fold.pc = "persist" /\ UNCHANGED <<exists, rows>>
        /\ ctx'.summary = fold.prior \cup fold.took /\ ctx'.upto = b + n
    BY <1>5 DEF Persist, Fresh, FoldFrame
  <2>2. /\ b = ctx.upto /\ fold.prior = ctx.summary
        /\ n >= 1 /\ b + n + RecentWindow <= fold.total /\ fold.total <= Len(rows)
        /\ fold.took = {rows[k] : k \in b + 1..b + n}
    BY <2>1 DEF MemoryInv, FoldReads
  <2>3. b \in Nat /\ n \in Nat /\ fold.total \in Nat
    BY DEF MemoryInv, TypeOK
  <2>4. ctx.summary = {rows[k] : k \in 1..b}
    BY <1>1, <2>1, <2>2 DEF Faithful
  <2> HIDE DEF b, n
  <2>5. ctx'.summary = {rows[k] : k \in 1..b} \cup {rows[k] : k \in b + 1..b + n}
    BY <2>1, <2>2, <2>4
  <2>6. \A k : k \in 1..b + n <=> k \in 1..b \/ k \in b + 1..b + n
    BY <2>3
  <2>7. Faithful'
    BY <2>1, <2>5, <2>6 DEF Faithful
  <2>8. RecentVerbatim'
    BY <1>1, <2>1, <2>2, <2>3 DEF RecentVerbatim
  <2> QED BY <2>7, <2>8
<1>6. CASE UNCHANGED <<exists, rows, ctx>>
  BY <1>1, <1>6 DEF Faithful, RecentVerbatim
<1> QED
  BY <1>2, <1>3, <1>4, <1>5, <1>6
     DEF Next, vars, TurnReads, TurnAborts, ReadContext, Count, Summarized, Discard, FoldFails,
         FoldEnds, ReadRows, FoldFrame

(* Only a fold that persists moves the watermark, and it is the only fold. *)
LEMMA FoldSteps ==
  ASSUME MemoryInv, [Next]_vars, ~Reuse
  PROVE  FoldReads'
<1> USE MemoryAssumption
<1>1. /\ FoldReads /\ RecentVerbatim /\ Gone
      /\ Len(rows) \in Nat /\ made \in Nat /\ fold.base \in Nat /\ fold.total \in Nat
  BY LenProperties DEF MemoryInv, TypeOK
<1>2. ASSUME NEW locked \in BOOLEAN, TurnStart(locked) PROVE FoldReads'
  <2>1. UNCHANGED <<rows, ctx, made, fold>> /\ (~exists => made = 0)
    BY <1>2 DEF TurnStart
  <2>2. CASE exists
    BY <1>1, <2>1, <2>2 DEF FoldReads
  <2>3. CASE fold.pc = "none"
    BY <1>1, <2>1, <2>3 DEF FoldReads
  <2>4. fold.pc # "none" => made > 0
    BY <1>1 DEF FoldReads
  <2> QED BY <1>1, <2>1, <2>2, <2>3, <2>4
<1>3. CASE Delete
  BY <1>1, <1>3 DEF Delete, FoldReads
<1>4. ASSUME NEW i \in 1..MaxRows, NEW j \in 1..MaxRows, TurnCommits(i, j) PROVE FoldReads'
  <2>1. Len(rows') = Len(rows) + 2 /\ \A k \in 1..Len(rows) - Skew : rows'[k] = rows[k]
    BY <1>4, CommitRows
  <2>2. exists /\ exists' = exists /\ ctx' = ctx /\ made' = made + 2
    BY <1>4 DEF TurnCommits
  <2>3. fold' = fold \/ fold'.pc = "context"
    BY <1>4 DEF TurnCommits, Schedule, NoFold
  <2>4. CASE fold'.pc = "context"
    BY <1>1, <2>2, <2>4 DEF FoldReads
  <2>5. CASE fold' = fold
    <3>1. ASSUME fold.pc \in {"asking", "persist"}
          PROVE  fold.took = {rows'[k] : k \in fold.base + 1..fold.base + fold.count}
      <4>1. /\ fold.took = {rows[k] : k \in fold.base + 1..fold.base + fold.count}
            /\ fold.base + fold.count + RecentWindow <= fold.total /\ fold.total <= Len(rows)
        BY <1>1, <2>2, <3>1 DEF FoldReads
      <4>2. fold.count \in Nat
        BY DEF MemoryInv, TypeOK
      <4>3. \A k \in fold.base + 1..fold.base + fold.count : rows'[k] = rows[k]
        <5>1. \A k \in fold.base + 1..fold.base + fold.count : k \in 1..Len(rows) - Skew
          BY <1>1, <4>1, <4>2
        <5> QED BY <2>1, <5>1
      <4> QED BY <4>1, <4>3
    <3> QED BY <1>1, <2>1, <2>2, <2>5, <3>1 DEF FoldReads
  <2> QED BY <2>3, <2>4, <2>5
<1>5. CASE ReadContext
  BY <1>1, <1>5 DEF ReadContext, FoldFrame, FoldReads, MemoryInv, TypeOK
<1>6. CASE Count
  <2>1. exists
    <3>1. rows = <<>> => Len(rows) = 0
      OBVIOUS
    <3> QED BY <1>1, <1>6, <3>1 DEF Gone, Count, Foldable
  <2> QED BY <1>1, <1>6, <2>1 DEF Count, Foldable, FoldFrame, FoldReads, MemoryInv, TypeOK
<1>7. ASSUME NEW n \in 1..MaxRows, ReadRows(n) PROVE FoldReads'
  <2>1. n + RecentWindow + fold.base <= fold.total
    <3> DEFINE d == fold.total - RecentWindow - fold.base
    <3>1. n \in Nat /\ d \in Int /\ BatchRows \in Nat /\ n <= Limit(d)
      BY <1>1, <1>7 DEF ReadRows
    <3>2. d + RecentWindow + fold.base = fold.total
      BY <1>1
    <3> HIDE DEF d
    <3>3. n <= d
      BY <3>1 DEF Limit
    <3> QED BY <1>1, <3>1, <3>2, <3>3
  <2> QED BY <1>1, <1>7, <2>1 DEF ReadRows, FoldFrame, FoldReads, MemoryInv, TypeOK
<1>8. CASE Summarized
  BY <1>1, <1>8 DEF Summarized, FoldFrame, FoldReads, MemoryInv, TypeOK
<1>9. CASE fold' = NoFold
  BY <1>9 DEF FoldReads, NoFold
<1>10. CASE UNCHANGED <<exists, rows, ctx, made, fold>>
  BY <1>1, <1>10 DEF FoldReads
<1> QED
  BY <1>2, <1>3, <1>4, <1>5, <1>6, <1>7, <1>8, <1>9, <1>10
     DEF Next, vars, TurnReads, TurnAborts, Persist, Discard, FoldFails, FoldEnds

-----------------------------------------------------------------------------
LEMMA MemoryStarts == Init => MemoryInv /\ NothingForgotten
<1> SUFFICES ASSUME Init PROVE MemoryInv /\ NothingForgotten
  OBVIOUS
<1> USE MemoryAssumption DEF Init
<1>1. Len(rows) = 0 /\ DOMAIN rows = {} /\ rows \in Seq(Row) /\ <<>> \in Seq(Row)
  OBVIOUS
<1>2. TypeOK
  <2>1. 0 \in 0..MaxRows /\ 0 \in 0..BatchRows /\ 0 \in Nat /\ {} \in SUBSET Row
    OBVIOUS
  <2>2. ctx \in [summary : SUBSET Row, upto : 0..MaxRows]
    BY <2>1 DEF Blank
  <2>3. turn \in [pc : {"idle", "loaded", "asking"}, locked : BOOLEAN]
    BY DEF NoTurn
  <2>4. prompt \in [memory : SUBSET Row, told : Seq(Row)]
    BY <1>1, <2>1 DEF NoPrompt
  <2>5. fold \in [pc : {"none", "context", "count", "rows", "asking", "persist"},
                  base : 0..MaxRows, prior : SUBSET Row, total : 0..MaxRows,
                  took : SUBSET Row, count : 0..BatchRows]
    BY <2>1 DEF NoFold
  <2>6. exists \in BOOLEAN /\ turns \in Nat /\ made \in 0..MaxRows
    BY <2>1
  <2> QED BY <1>1, <2>2, <2>3, <2>4, <2>5, <2>6 DEF TypeOK
<1>3. Numbered /\ Gone /\ Faithful /\ RecentVerbatim /\ FoldReads /\ NothingForgotten
  BY <1>1 DEF Numbered, Gone, Faithful, RecentVerbatim, FoldReads, NothingForgotten, NoTurn, NoFold, Blank
<1> QED BY <1>2, <1>3 DEF MemoryInv

LEMMA MemoryGoesOn ==
  ASSUME ~Reuse PROVE MemoryInv /\ [Next]_vars => MemoryInv'
BY TypedSteps, NumberedSteps, FaithfulSteps, FoldSteps DEF MemoryInv

(* The summary a session keeps was made from exactly the rows before its
   watermark (summary_scheduler.py: summarized_upto), whatever turns committed
   and folds discarded since, as long as clocks reorder no more rows than the
   recent window holds; and no fold reaches into that window (RECENT_WINDOW),
   however stale the count it started from. *)
THEOREM SummaryHolds == ASSUME ~Reuse PROVE Spec => []SummarySound
<1>1. Init => MemoryInv
  BY MemoryStarts
<1>2. MemoryInv /\ [Next]_vars => MemoryInv'
  BY MemoryGoesOn
<1>3. MemoryInv => SummarySound
  BY DEF MemoryInv, SummarySound
<1> QED BY <1>1, <1>2, <1>3, PTL DEF Spec

(* What a turn reads: the rows before the watermark through the summary, the
   rest one by one. *)
LEMMA ReadCovers ==
  ASSUME MemoryInv, TurnReads, exists
  PROVE  /\ prompt'.memory = {rows[k] : k \in 1..ctx.upto}
         /\ Range(prompt'.told) = {rows[k] : k \in ctx.upto + 1..Len(rows)}
<1> USE MemoryAssumption
<1>1. /\ rows \in Seq(Row) /\ Len(rows) \in Nat /\ ctx.upto \in Nat /\ ctx.upto <= Len(rows)
      /\ ctx.summary = {rows[k] : k \in 1..ctx.upto}
  BY LenProperties DEF MemoryInv, TypeOK, Faithful, RecentVerbatim
<1>2. ctx.summary = {} => ctx.upto = 0
  <2>1. ctx.upto # 0 => 1 \in 1..ctx.upto
    BY <1>1
  <2>2. ctx.upto # 0 => rows[1] \in ctx.summary
    BY <1>1, <2>1
  <2> QED BY <2>2
<1>3. prompt' = [memory |-> ctx.summary, told |-> SubSeq(rows, ctx.upto + 1, Len(rows))]
  BY <1>2 DEF TurnReads
<1> DEFINE u == ctx.upto
           t == SubSeq(rows, u + 1, Len(rows))
<1>4. /\ t \in Seq(Row) /\ Len(t) = Len(rows) - u
      /\ \A k \in 1..Len(rows) - u : t[k] = rows[u + k]
  <2>1. \A k \in u + 1..Len(rows) : rows[k] \in Row
    BY <1>1, ElementOfSeq
  <2>2. /\ t \in Seq(Row) /\ Len(t) = IF u + 1 <= Len(rows) THEN Len(rows) - (u + 1) + 1 ELSE 0
        /\ \A k \in 1..Len(rows) - (u + 1) + 1 : t[k] = rows[u + 1 + k - 1]
    BY <1>1, <2>1, SubSeqProperties
  <2> QED BY <1>1, <2>2
<1>5. DOMAIN t = 1..Len(rows) - u
  BY <1>4, LenProperties
<1> HIDE DEF t
<1>6. Range(t) = {t[k] : k \in 1..Len(rows) - u}
  BY <1>5 DEF Range
<1>7. \A k \in u + 1..Len(rows) : k - u \in 1..Len(rows) - u /\ t[k - u] = rows[k]
  <2> SUFFICES ASSUME NEW k \in u + 1..Len(rows)
               PROVE  k - u \in 1..Len(rows) - u /\ t[k - u] = rows[k]
    OBVIOUS
  <2>1. k - u \in 1..Len(rows) - u /\ u + (k - u) = k
    BY <1>1
  <2>2. t[k - u] = rows[u + (k - u)]
    BY <1>4, <2>1
  <2> QED BY <2>1, <2>2
<1>8. \A k \in 1..Len(rows) - u : u + k \in u + 1..Len(rows)
  BY <1>1
<1>9. Range(t) = {rows[k] : k \in u + 1..Len(rows)}
  <2>1. \A x : x \in Range(t) <=> \E k \in 1..Len(rows) - u : x = rows[u + k]
    BY <1>4, <1>6
  <2>2. \A x : x \in Range(t) => \E k \in u + 1..Len(rows) : x = rows[k]
    BY <1>8, <2>1
  <2>3. \A x : (\E k \in u + 1..Len(rows) : x = rows[k]) => x \in Range(t)
    <3>1. \A k \in u + 1..Len(rows) : u + (k - u) = k
      BY <1>1
    <3> QED BY <1>7, <2>1, <3>1
  <2> QED BY <2>2, <2>3
<1> QED BY <1>1, <1>3, <1>9 DEF t

(* The prompt of every turn covers each committed message once
   (_get_context_history and _get_persisted_summary). *)
THEOREM PromptWhole == ASSUME ~Reuse PROVE Spec => []NothingForgotten
<1> USE MemoryAssumption
<1>1. Init => MemoryInv /\ NothingForgotten
  BY MemoryStarts
<1>2. ASSUME MemoryInv, NothingForgotten, [Next]_vars PROVE NothingForgotten'
  <2>1. CASE TurnReads
    <3> SUFFICES ASSUME exists PROVE NothingForgotten'
      BY <2>1 DEF TurnReads, NothingForgotten
    <3> DEFINE u == ctx.upto
    <3>1. /\ rows' = rows /\ prompt'.memory = {rows[k] : k \in 1..u}
          /\ Range(prompt'.told) = {rows[k] : k \in u + 1..Len(rows)}
      BY <1>2, <2>1, ReadCovers DEF TurnReads
    <3>2. /\ u \in Nat /\ Len(rows) \in Nat /\ u <= Len(rows) /\ DOMAIN rows = 1..Len(rows)
          /\ \A k, l \in DOMAIN rows : rows[k] = rows[l] => k = l
      BY <1>2, LenProperties DEF MemoryInv, TypeOK, Numbered, RecentVerbatim
    <3>3. Range(rows) = {rows[k] : k \in 1..Len(rows)}
      BY <3>2 DEF Range
    <3> HIDE DEF u
    <3>4. \A k \in 1..Len(rows) : rows[k] \in prompt'.memory <=> k <= u
      BY <3>1, <3>2
    <3>5. \A k \in 1..Len(rows) : rows[k] \in Range(prompt'.told) <=> k > u
      BY <3>1, <3>2
    <3>6. \A k \in DOMAIN rows' : (rows'[k] \in prompt'.memory) # (rows'[k] \in Range(prompt'.told))
      BY <3>1, <3>2, <3>4, <3>5
    <3>7. prompt'.memory \cup Range(prompt'.told) = Range(rows')
      BY <3>1, <3>2, <3>3
    <3> QED BY <3>6, <3>7 DEF NothingForgotten
  <2>2. CASE turn'.pc # "asking" \/ ~exists'
    BY <2>2 DEF NothingForgotten
  <2>3. CASE UNCHANGED <<exists, rows, turn, prompt>>
    BY <1>2, <2>3 DEF NothingForgotten
  <2>4. ASSUME NEW locked \in BOOLEAN, TurnStart(locked) PROVE turn'.pc # "asking"
    BY <2>4 DEF TurnStart
  <2>5. ASSUME NEW i, NEW j, TurnCommits(i, j) PROVE turn'.pc # "asking"
    BY <2>5 DEF TurnCommits, NoTurn
  <2>6. CASE TurnAborts \/ Delete
    BY <2>2, <2>6 DEF TurnAborts, Delete, NoTurn
  <2>7. CASE ReadContext \/ Count \/ Summarized \/ Persist \/ Discard \/ FoldFails
    BY <2>3, <2>7 DEF ReadContext, Count, Summarized, Persist, Discard, FoldFails, FoldEnds, FoldFrame
  <2>8. ASSUME NEW n, ReadRows(n) PROVE NothingForgotten'
    BY <2>3, <2>8 DEF ReadRows, FoldFrame
  <2>9. CASE UNCHANGED vars
    BY <2>3, <2>9 DEF vars
  <2> QED BY <1>2, <2>1, <2>2, <2>4, <2>5, <2>6, <2>7, <2>8, <2>9 DEF Next
<1>3. MemoryInv /\ [Next]_vars => MemoryInv'
  BY MemoryGoesOn
<1> QED BY <1>1, <1>2, <1>3, PTL DEF Spec

(* The watermark, the counts and the batch of a fold stay within their bounds
   (_fold_session_summary). *)
THEOREM MemoryTyped == ASSUME ~Reuse PROVE Spec => []TypeOK
<1>1. Init => MemoryInv
  BY MemoryStarts
<1>2. MemoryInv /\ [Next]_vars => MemoryInv'
  BY MemoryGoesOn
<1>3. MemoryInv => TypeOK
  BY DEF MemoryInv
<1> QED BY <1>1, <1>2, <1>3, PTL DEF Spec

-----------------------------------------------------------------------------
(* What the variables of the backups hold. *)
Made == [phase : {"open", "written"}, name : Second, by : {"clock", "admin"}, alone : BOOLEAN]
Archive == [by : {Nobody} \cup Job, state : {"partial", "whole", "torn"}]
Held == /\ jobs \in [Job -> {Absent, Ended} \cup Made]
        /\ DOMAIN files \subseteq Second /\ files \in [DOMAIN files -> Archive]
        /\ failures \in Nat

(* An archive that is being written has one writer, under the name it opened it with. *)
Writers == \A n \in DOMAIN files :
             files[n].by # Nobody => files[n].by \in Phase("open") /\ jobs[files[n].by].name = n

(* Nothing touches the archive of a backup no other one runs beside, but to remove it. *)
Lone == \A j \in Active : jobs[j].alone =>
          /\ Active = {j}
          /\ jobs[j].name \in DOMAIN files =>
               files[jobs[j].name] = IF jobs[j].phase = "open" THEN [by |-> j, state |-> "partial"]
                                     ELSE [by |-> Nobody, state |-> "whole"]

(* The archive that must stay is whole and nobody writes to it. *)
Restorable == saved # 0 =>
                saved \in DOMAIN files /\ files[saved] = [by |-> Nobody, state |-> "whole"]

(* A failure is of a backup that has ended. *)
FailuresEnded == failures <= Cardinality(Phase("ended"))

Clock == /\ life \in {"up", "closing", "closed", "down"} /\ now \in Second
         /\ saved \in 0..MaxNow /\ stops \in 0..MaxStops
         /\ sched \in {"asleep", "working", "over"} /\ (sched = "over" <=> life # "up")

(* The delivery: the subscriptions before the one it is at are settled, that one has      *)
(* attempts left and the ones after it were not asked.                                    *)
Posted == [phase : {"posting"}, to : 1..Subs, log : [1..Subs -> Seq(Outcome)]]
AtOne == /\ \A i \in 1..Subs : i < task.to => Settled(task.log[i])
         /\ Len(task.log[task.to]) < Tries
         /\ \A i \in 1..Subs : i > task.to => task.log[i] = <<>>
Delivery == /\ task \in {NoTask, Done, [phase |-> "cancelled"]} \cup Posted
            /\ task.phase = "posting" => AtOne

BackupInv == Held /\ Writers /\ Lone /\ Restorable /\ FailuresEnded /\ DiskBounded
ProcessInv == Clock /\ BackupInv /\ Delivery /\ DeliveriesDrained

-----------------------------------------------------------------------------
(* Retention leaves as many archives as it says: of those with fewer than K above them    *)
(* there are at most K.                                                                   *)
LEMMA LeastOf ==
  ASSUME NEW S \in SUBSET Nat, S # {}
  PROVE  \E n \in S : \A m \in S : n <= m
<1> DEFINE R == OpToRel(<, Nat)
<1>1. IsWellFoundedOn(R, Nat)
  BY NatLessThanWellFounded
<1> HIDE DEF R
<1>2. PICK n \in S : \A m \in S : ~(<<m, n>> \in R)
  BY <1>1, WFMin
<1>3. \A m \in S : ~(m < n)
  BY <1>2 DEF R, OpToRel
<1> QED BY <1>3

LEMMA NewestKept ==
  ASSUME NEW S \in SUBSET Nat, IsFiniteSet(S), NEW K \in Nat
  PROVE  Cardinality({n \in S : Cardinality({k \in S : k > n}) < K}) <= K
<1> DEFINE Above(n) == {k \in S : k > n}
           N == {n \in S : Cardinality(Above(n)) < K}
<1>1. N \in SUBSET S /\ N \in SUBSET Nat
  OBVIOUS
<1>2. IsFiniteSet(N) /\ Cardinality(N) \in Nat
  <2> HIDE DEF N
  <2> QED BY <1>1, FS_Subset, FS_CardinalityType
<1>3. ASSUME NEW n \in N PROVE IsFiniteSet(Above(n)) /\ Cardinality(Above(n)) \in Nat /\ Cardinality(Above(n)) < K
  <2>1. Above(n) \in SUBSET S /\ Cardinality(Above(n)) < K
    OBVIOUS
  <2> HIDE DEF Above
  <2> QED BY <2>1, FS_Subset, FS_CardinalityType
<1>4. ASSUME NEW n \in N, \A m \in N : n <= m PROVE N \ {n} \in SUBSET Above(n)
  BY <1>1, <1>4
<1> SUFFICES Cardinality(N) <= K
  OBVIOUS
<1> HIDE DEF N, Above
<1>5. CASE N = {}
  BY <1>5, FS_EmptySet
<1>6. CASE N # {}
  <2>1. PICK n \in N : \A m \in N : n <= m
    BY <1>1, <1>6, LeastOf
  <2>2. N \ {n} \in SUBSET Above(n)
    BY <1>4, <2>1
  <2>3. Cardinality(N \ {n}) = Cardinality(N) - 1
    BY <1>2, FS_RemoveElement
  <2>4. Cardinality(N \ {n}) <= Cardinality(Above(n))
    BY <1>3, <2>2, FS_Subset
  <2> QED BY <1>2, <1>3, <2>3, <2>4
<1> QED BY <1>5, <1>6

-----------------------------------------------------------------------------
(* The jobs by their phase.                                                               *)
LEMMA JobsFinite ==
  ASSUME NEW S \in SUBSET Job
  PROVE  IsFiniteSet(S) /\ Cardinality(S) \in Nat /\ Cardinality(S) <= MaxJobs
<1>1. MaxJobs \in Nat
  BY BoundsAreNatural
<1>2. IsFiniteSet(Job) /\ Cardinality(Job) = MaxJobs
  BY <1>1, FS_Interval DEF Job
<1> HIDE DEF Job
<1> QED BY <1>2, FS_Subset, FS_CardinalityType

LEMMA FilesFinite ==
  ASSUME NEW S \in SUBSET Second
  PROVE  IsFiniteSet(S) /\ Cardinality(S) \in Nat
<1>1. MaxNow \in Nat
  BY BoundsAreNatural
<1>2. IsFiniteSet(Second)
  BY <1>1, FS_Interval DEF Second
<1> HIDE DEF Second
<1> QED BY <1>2, FS_Subset, FS_CardinalityType

LEMMA JobCases ==
  ASSUME Held, NEW j \in Job
  PROVE  /\ jobs[j] \in {Absent, Ended} \cup Made
         /\ jobs[j] \in Made <=> j \in Active
         /\ jobs[j] = Absent <=> j \in Phase("new")
         /\ jobs[j] = Ended <=> j \in Phase("ended")
<1>1. jobs[j] \in {Absent, Ended} \cup Made
  BY DEF Held
<1>2. Absent.phase = "new" /\ Ended.phase = "ended"
  BY DEF Absent, Ended
<1>3. \A x \in Made : x.phase \in {"open", "written"}
  BY DEF Made
<1> QED BY <1>1, <1>2, <1>3 DEF Active, Phase

LEMMA InPhases ==
  ASSUME Held
  PROVE  /\ Phase("open") \subseteq Active /\ Phase("written") \subseteq Active /\ Active \subseteq Job
         /\ Phase("ended") \subseteq Job /\ Phase("ended") \cap Active = {}
         /\ \A j \in Active : jobs[j].name \in Second /\ jobs[j].by \in {"clock", "admin"}
<1>1. \A j \in Active : jobs[j] \in Made
  BY JobCases DEF Active, Phase
<1> QED BY <1>1 DEF Active, Phase, Made

LEMMA Ending ==
  ASSUME Held, FailuresEnded, NEW j \in Active, Ends(j)
  PROVE  /\ jobs' \in [Job -> {Absent, Ended} \cup Made]
         /\ \A i \in Job : i # j => jobs'[i] = jobs[i]
         /\ Active' = Active \ {j} /\ Phase("open")' = Phase("open") \ {j}
         /\ Cardinality(Active') = Cardinality(Active) - 1
         /\ failures + 1 <= Cardinality(Phase("ended")')
<1>1. j \in Job /\ j \notin Phase("ended")
  BY InPhases
<1>2. /\ jobs' \in [Job -> {Absent, Ended} \cup Made]
      /\ jobs'[j] = Ended
      /\ \A i \in Job : i # j => jobs'[i] = jobs[i]
  BY <1>1 DEF Held, Ends
<1>3. Ended.phase = "ended"
  BY DEF Ended
<1>4. /\ Active' = Active \ {j} /\ Phase("open")' = Phase("open") \ {j}
      /\ Phase("ended")' = Phase("ended") \cup {j}
  BY <1>1, <1>2, <1>3 DEF Active, Phase
<1>5. IsFiniteSet(Active) /\ IsFiniteSet(Phase("ended")) /\ Cardinality(Phase("ended")) \in Nat
  BY InPhases, JobsFinite
<1>6. Cardinality(Active \ {j}) = Cardinality(Active) - 1
  BY <1>5, FS_RemoveElement
<1>7. Cardinality(Phase("ended") \cup {j}) = Cardinality(Phase("ended")) + 1
  BY <1>1, <1>5, FS_AddElement
<1>8. Cardinality(Phase("ended")') = Cardinality(Phase("ended")) + 1
  BY <1>4, <1>7
<1>9. failures + 1 <= Cardinality(Phase("ended")')
  BY <1>5, <1>8 DEF FailuresEnded, Held
<1> QED BY <1>2, <1>4, <1>6, <1>9

(* When a backup ends, none that runs on was alone.                                       *)
LEMMA NoneLone ==
  ASSUME Held, Lone, NEW j \in Active,
         Active' = Active \ {j}, \A i \in Job : i # j => jobs'[i] = jobs[i]
  PROVE  Lone'
<1> SUFFICES ASSUME NEW i \in Active', jobs'[i].alone PROVE FALSE
  BY DEF Lone
<1>1. i \in Active /\ i # j /\ i \in Job
  BY InPhases
<1>2. jobs[i].alone
  BY <1>1
<1>3. Active = {i}
  BY <1>1, <1>2 DEF Lone
<1> QED BY <1>1, <1>3

(* The writer lets go of its archive; the others are as they were.                        *)
LEMMA Closing ==
  ASSUME Held, Writers, NEW j \in Active, NEW state \in {"partial", "whole"}, files' = Closed(j, state)
  PROVE  /\ DOMAIN files' = DOMAIN files /\ files' \in [DOMAIN files -> Archive]
         /\ \A n \in DOMAIN files : files[n].by # j => files'[n] = files[n]
         /\ \A n \in DOMAIN files : files'[n].by # Nobody => files'[n].by = files[n].by /\ files[n].by # j
         /\ \A n \in DOMAIN files : files[n] = [by |-> j, state |-> "partial"]
              => files'[n] = [by |-> Nobody, state |-> state]
<1>1. /\ files' = [n \in DOMAIN files |->
                     IF files[n].by # j THEN files[n]
                     ELSE [by |-> Nobody, state |-> IF files[n].state = "torn" THEN "torn" ELSE state]]
      /\ files \in [DOMAIN files -> Archive]
  BY DEF Closed, OfWriter, Held
<1> USE DEF Archive
<1> QED BY <1>1

LEMMA WritesKeeps ==
  ASSUME BackupInv, NEW j \in Job, Writes(j)
  PROVE  BackupInv'
<1> USE DEF BackupInv
<1>1. j \in Active /\ j \in Phase("open") /\ j \notin Phase("written") /\ jobs[j] \in Made
  BY JobCases DEF Writes, Active, Phase
<1>2. /\ jobs' = [jobs EXCEPT ![j] = [jobs[j] EXCEPT !.phase = "written"]]
      /\ files' = Closed(j, "whole") /\ failures' = failures /\ saved' = saved
  BY DEF Writes
<1>3. /\ jobs'[j] \in Made /\ jobs'[j].phase = "written" /\ jobs'[j].name = jobs[j].name
      /\ jobs'[j].by = jobs[j].by /\ jobs'[j].alone = jobs[j].alone
      /\ \A i \in Job : i # j => jobs'[i] = jobs[i]
      /\ jobs' \in [Job -> {Absent, Ended} \cup Made]
  BY <1>1, <1>2 DEF Held, Made
<1>4. /\ Active' = Active /\ Phase("open")' = Phase("open") \ {j}
      /\ Phase("ended")' = Phase("ended")
  BY <1>1, <1>3 DEF Active, Phase
<1>5. /\ DOMAIN files' = DOMAIN files /\ files' \in [DOMAIN files -> Archive]
      /\ \A n \in DOMAIN files : files[n].by # j => files'[n] = files[n]
      /\ \A n \in DOMAIN files : files'[n].by # Nobody => files'[n].by = files[n].by /\ files[n].by # j
      /\ \A n \in DOMAIN files : files[n] = [by |-> j, state |-> "partial"]
           => files'[n] = [by |-> Nobody, state |-> "whole"]
  BY <1>1, <1>2, Closing
<1>6. Held'
  BY <1>2, <1>3, <1>5 DEF Held
<1>7. Writers'
  BY <1>1, <1>3, <1>4, <1>5 DEF Writers, Phase
<1>8. Lone'
  <2> SUFFICES ASSUME NEW i \in Active, jobs'[i].alone
               PROVE  /\ Active = {i}
                      /\ jobs'[i].name \in DOMAIN files' =>
                           files'[jobs'[i].name] =
                             IF jobs'[i].phase = "open" THEN [by |-> i, state |-> "partial"]
                             ELSE [by |-> Nobody, state |-> "whole"]
    BY <1>4 DEF Lone
  <2>1. i \in Job /\ jobs[i].alone /\ jobs'[i].name = jobs[i].name
    BY <1>3, InPhases
  <2>2. Active = {i} /\ i = j
    BY <1>1, <2>1 DEF Lone
  <2>3. jobs[j].name \in DOMAIN files => files[jobs[j].name] = [by |-> j, state |-> "partial"]
    BY <1>1, <2>1, <2>2 DEF Lone, Phase
  <2> QED BY <1>3, <1>5, <2>1, <2>2, <2>3
<1>9. Restorable'
  <2>1. j # Nobody
    BY <1>1, InPhases DEF Job, Nobody
  <2> QED BY <1>2, <1>5, <2>1 DEF Restorable
<1>10. FailuresEnded'
  BY <1>2, <1>4 DEF FailuresEnded
<1>11. DiskBounded'
  BY <1>2, <1>4, <1>5 DEF DiskBounded
<1> QED BY <1>6, <1>7, <1>8, <1>9, <1>10, <1>11

LEMMA FailsKeeps ==
  ASSUME BackupInv, NEW j \in Job, Fails(j)
  PROVE  BackupInv'
<1> USE DEF BackupInv
<1>1. j \in Active /\ j \in Phase("open")
  BY DEF Fails, Active, Phase
<1>2. /\ Ends(j) /\ files' = Closed(j, "partial") /\ failures' = failures + 1 /\ saved' = saved
  BY DEF Fails
<1>3. /\ jobs' \in [Job -> {Absent, Ended} \cup Made]
      /\ \A i \in Job : i # j => jobs'[i] = jobs[i]
      /\ Active' = Active \ {j} /\ Phase("open")' = Phase("open") \ {j}
      /\ Cardinality(Active') = Cardinality(Active) - 1
      /\ failures + 1 <= Cardinality(Phase("ended")')
  BY <1>1, <1>2, Ending
<1>4. /\ DOMAIN files' = DOMAIN files /\ files' \in [DOMAIN files -> Archive]
      /\ \A n \in DOMAIN files : files[n].by # j => files'[n] = files[n]
      /\ \A n \in DOMAIN files : files'[n].by # Nobody => files'[n].by = files[n].by /\ files[n].by # j
  BY <1>1, <1>2, Closing
<1>5. Held'
  BY <1>2, <1>3, <1>4 DEF Held
<1>6. Writers'
  BY <1>3, <1>4, InPhases DEF Writers
<1>7. Lone'
  BY <1>1, <1>3, NoneLone
<1>8. Restorable'
  <2>1. j # Nobody
    BY <1>1, InPhases DEF Job, Nobody
  <2> QED BY <1>2, <1>4, <2>1 DEF Restorable
<1>9. FailuresEnded'
  BY <1>2, <1>3 DEF FailuresEnded
<1>10. DiskBounded'
  <2>1. Cardinality(Active) \in Nat /\ Cardinality(DOMAIN files) \in Nat
    BY JobsFinite, InPhases, FilesFinite DEF Held
  <2> QED BY <1>2, <1>3, <1>4, <2>1, BoundsAreNatural DEF DiskBounded, Held
<1> QED BY <1>5, <1>6, <1>7, <1>8, <1>9, <1>10

(* What retention leaves.                                                                 *)
LEMMA Retaining ==
  ASSUME Held
  PROVE  /\ DOMAIN Retained \subseteq DOMAIN files
         /\ \A n \in DOMAIN Retained : Retained[n] = files[n]
         /\ Retained \in [DOMAIN Retained -> Archive]
         /\ Keep > 0 => Cardinality(DOMAIN Retained) <= Keep
         /\ \A n \in DOMAIN files : (\A k \in DOMAIN files : k <= n) => n \in DOMAIN Retained
<1> DEFINE Above(n) == {k \in DOMAIN files : k > n}
           stale == {n \in DOMAIN files : Keep > 0 /\ Cardinality(Above(n)) >= Keep}
<1>1. DOMAIN files \subseteq Nat /\ IsFiniteSet(DOMAIN files) /\ Keep \in Nat
  BY FilesFinite, BoundsAreNatural DEF Held, Second
<1>2. Retained = [n \in DOMAIN files \ stale |-> files[n]]
  BY DEF Retained, Restrict
<1>3. \A n \in DOMAIN files : IsFiniteSet(Above(n)) /\ Cardinality(Above(n)) \in Nat
  BY <1>1, FS_Subset, FS_CardinalityType
<1>4. Keep > 0 => Cardinality(DOMAIN Retained) <= Keep
  <2> SUFFICES ASSUME Keep > 0 PROVE Cardinality(DOMAIN Retained) <= Keep
    OBVIOUS
  <2>1. DOMAIN Retained = {n \in DOMAIN files : Cardinality(Above(n)) < Keep}
    BY <1>1, <1>2, <1>3
  <2>2. Cardinality({n \in DOMAIN files : Cardinality(Above(n)) < Keep}) <= Keep
    BY <1>1, NewestKept
  <2> QED BY <2>1, <2>2
<1>5. ASSUME NEW n \in DOMAIN files, \A k \in DOMAIN files : k <= n PROVE n \in DOMAIN Retained
  <2>1. Above(n) = {}
    BY <1>1, <1>5
  <2>2. Cardinality(Above(n)) = 0
    BY <2>1, FS_EmptySet
  <2>3. n \notin stale
    BY <1>1, <2>2
  <2> QED BY <1>2, <2>3
<1>6. Retained \in [DOMAIN Retained -> Archive]
  BY <1>2 DEF Held
<1> HIDE DEF stale
<1> QED BY <1>2, <1>4, <1>5, <1>6

LEMMA FinishesKeeps ==
  ASSUME BackupInv, NEW j \in Job, Finishes(j)
  PROVE  BackupInv'
<1> USE DEF BackupInv
<1>1. j \in Active /\ j \in Phase("written") /\ j \notin Phase("open")
  BY DEF Finishes, Active, Phase
<1>2. /\ Ends(j) /\ files' = Retained /\ failures' = 0
      /\ saved' = IF /\ jobs[j].alone /\ jobs[j].name \in DOMAIN files
                     /\ \A n \in DOMAIN files : n <= jobs[j].name
                  THEN jobs[j].name ELSE 0
  BY DEF Finishes
<1>3. /\ jobs' \in [Job -> {Absent, Ended} \cup Made]
      /\ \A i \in Job : i # j => jobs'[i] = jobs[i]
      /\ Active' = Active \ {j} /\ Phase("open")' = Phase("open") \ {j}
      /\ Cardinality(Active') = Cardinality(Active) - 1
      /\ failures + 1 <= Cardinality(Phase("ended")')
  BY <1>1, <1>2, Ending
<1>4. /\ DOMAIN files' \subseteq DOMAIN files
      /\ \A n \in DOMAIN files' : files'[n] = files[n]
      /\ files' \in [DOMAIN files' -> Archive]
      /\ Keep > 0 => Cardinality(DOMAIN files') <= Keep
      /\ \A n \in DOMAIN files : (\A k \in DOMAIN files : k <= n) => n \in DOMAIN files'
  BY <1>2, Retaining
<1>5. Held'
  BY <1>2, <1>3, <1>4 DEF Held
<1>6. Writers'
  <2> SUFFICES ASSUME NEW n \in DOMAIN files', files'[n].by # Nobody
               PROVE  files'[n].by \in Phase("open")' /\ jobs'[files'[n].by].name = n
    BY DEF Writers
  <2>1. files[n].by \in Phase("open") /\ jobs[files[n].by].name = n /\ files'[n] = files[n]
    BY <1>4 DEF Writers
  <2> QED BY <1>1, <1>3, <2>1, InPhases
<1>7. Lone'
  BY <1>1, <1>3, NoneLone
<1>8. Restorable'
  <2> SUFFICES ASSUME saved' # 0
               PROVE  saved' \in DOMAIN files' /\ files'[saved'] = [by |-> Nobody, state |-> "whole"]
    BY DEF Restorable
  <2>1. /\ jobs[j].alone /\ jobs[j].name \in DOMAIN files /\ saved' = jobs[j].name
        /\ \A n \in DOMAIN files : n <= jobs[j].name
    BY <1>2
  <2>2. files[jobs[j].name] = [by |-> Nobody, state |-> "whole"]
    BY <1>1, <2>1 DEF Lone, Phase
  <2> QED BY <1>4, <2>1, <2>2
<1>9. FailuresEnded'
  <2>1. Cardinality(Phase("ended")') \in Nat
    <3>1. Phase("ended")' \in SUBSET Job
      BY DEF Phase
    <3> QED BY <3>1, JobsFinite
  <2> QED BY <1>2, <2>1 DEF FailuresEnded
<1>10. DiskBounded'
  <2>1. Cardinality(Active') \in Nat
    BY <1>1, <1>3, InPhases, JobsFinite
  <2>2. Cardinality(DOMAIN files') \in Nat
    BY <1>5, FilesFinite DEF Held
  <2> QED BY <1>2, <1>4, <2>1, <2>2, BoundsAreNatural DEF DiskBounded
<1> QED BY <1>5, <1>6, <1>7, <1>8, <1>9, <1>10

LEMMA RemovesKeeps ==
  ASSUME BackupInv, NEW n \in Second, Removes(n)
  PROVE  BackupInv'
<1> USE DEF BackupInv
<1>1. /\ n \in DOMAIN files /\ files' = [k \in DOMAIN files \ {n} |-> files[k]]
      /\ saved' = IF saved = n THEN 0 ELSE saved
      /\ jobs' = jobs /\ failures' = failures
  BY DEF Removes, Restrict
<1>2. Active' = Active /\ Phase("open")' = Phase("open") /\ Phase("ended")' = Phase("ended")
  BY <1>1 DEF Active, Phase
<1>3. Held'
  BY <1>1 DEF Held
<1>4. Writers'
  BY <1>1, <1>2 DEF Writers
<1>5. Lone'
  BY <1>1, <1>2 DEF Lone
<1>6. Restorable'
  BY <1>1 DEF Restorable
<1>7. FailuresEnded'
  BY <1>1, <1>2 DEF FailuresEnded
<1>8. DiskBounded'
  <2>1. /\ IsFiniteSet(DOMAIN files) /\ Cardinality(DOMAIN files) \in Nat
        /\ DOMAIN files' \in SUBSET DOMAIN files
    BY <1>1, FilesFinite DEF Held
  <2>2. Cardinality(DOMAIN files') <= Cardinality(DOMAIN files) /\ Cardinality(DOMAIN files') \in Nat
    BY <2>1, FS_Subset, FS_CardinalityType
  <2>3. Cardinality(Active) \in Nat
    BY InPhases, JobsFinite
  <2> QED BY <1>1, <1>2, <2>1, <2>2, <2>3, BoundsAreNatural DEF DiskBounded, Held
<1> QED BY <1>3, <1>4, <1>5, <1>6, <1>7, <1>8

LEMMA CrashKeeps ==
  ASSUME BackupInv, Crashes
  PROVE  BackupInv'
<1> USE DEF BackupInv
<1>1. /\ jobs' = [j \in Job |-> IF j \in Active THEN Ended ELSE jobs[j]]
      /\ files' = [n \in DOMAIN files |-> [files[n] EXCEPT !.by = Nobody]]
      /\ failures' = failures + Cardinality(Active) /\ saved' = saved
  BY DEF Crashes
<1>2. Ended.phase = "ended"
  BY DEF Ended
<1>3. jobs' \in [Job -> {Absent, Ended} \cup Made]
  BY <1>1 DEF Held
<1>4. Active' = {} /\ Phase("ended")' = Phase("ended") \cup Active
  BY <1>1, <1>2 DEF Active, Phase
<1>5. /\ DOMAIN files' = DOMAIN files /\ files' \in [DOMAIN files -> Archive]
      /\ \A n \in DOMAIN files : files'[n].by = Nobody /\ files'[n].state = files[n].state
      /\ \A n \in DOMAIN files : files[n].by = Nobody => files'[n] = files[n]
  BY <1>1 DEF Held, Archive
<1>6. /\ IsFiniteSet(Active) /\ Cardinality(Active) \in Nat
      /\ IsFiniteSet(Phase("ended")) /\ Cardinality(Phase("ended")) \in Nat
      /\ Phase("ended") \cap Active = {}
  BY InPhases, JobsFinite
<1>7. Cardinality(Phase("ended")') = Cardinality(Phase("ended")) + Cardinality(Active)
  <2>1. Cardinality(Phase("ended") \cap Active) = 0
    BY <1>6, FS_EmptySet
  <2>2. Cardinality(Phase("ended") \cup Active)
          = Cardinality(Phase("ended")) + Cardinality(Active) - Cardinality(Phase("ended") \cap Active)
    BY ONLY <1>6, FS_Union
  <2>3. Cardinality(Phase("ended") \cup Active) = Cardinality(Phase("ended")) + Cardinality(Active)
    BY <1>6, <2>1, <2>2
  <2> QED BY <1>4, <2>3
<1>8. Cardinality(Active') = 0
  BY <1>4, FS_EmptySet
<1>9. Held'
  BY <1>1, <1>3, <1>5, <1>6 DEF Held
<1>10. Writers'
  BY <1>5 DEF Writers
<1>11. Lone'
  BY <1>4 DEF Lone
<1>12. Restorable'
  BY <1>1, <1>5 DEF Restorable
<1>13. FailuresEnded'
  BY <1>1, <1>6, <1>7 DEF FailuresEnded, Held
<1>14. DiskBounded'
  BY <1>1, <1>5, <1>6, <1>8, BoundsAreNatural DEF DiskBounded, Held
<1> QED BY <1>9, <1>10, <1>11, <1>12, <1>13, <1>14

(* A backup begins: the archive it opens is its own from then on.                         *)
LEMMA Opening ==
  ASSUME Held, NEW j \in Phase("new"), NEW second \in Second
  PROVE  /\ DOMAIN Opened(j, second) = DOMAIN files \cup {second}
         /\ Opened(j, second)[second].by = j
         /\ Opened(j, second) \in [DOMAIN Opened(j, second) -> Archive]
         /\ \A n \in DOMAIN files : n # second => Opened(j, second)[n] = files[n]
         /\ Active = {} => Opened(j, second)[second] = [by |-> j, state |-> "partial"]
<1> DEFINE torn == \E i \in Phase("open") : jobs[i].name = second
           new == [by |-> j, state |-> IF torn THEN "torn" ELSE "partial"]
<1>1. Opened(j, second) = [n \in DOMAIN files \cup {second} |-> IF n # second THEN files[n] ELSE new]
  BY DEF Opened
<1>2. new \in Archive /\ new.by = j /\ (Active = {} => new = [by |-> j, state |-> "partial"])
  <2>1. j \in Job
    BY DEF Phase
  <2>2. Active = {} => ~torn
    BY InPhases
  <2> HIDE DEF torn
  <2> QED BY <2>1, <2>2 DEF Archive
<1> HIDE DEF new
<1> QED BY <1>1, <1>2 DEF Held

LEMMA OpensKeeps ==
  ASSUME BackupInv, NEW by \in {"clock", "admin"}, NEW second \in Second, Opens(by, second),
         failures' = failures
  PROVE  BackupInv'
<1> USE DEF BackupInv
<1>1. PICK j \in Phase("new") :
       \/ /\ files' = Opened(j, second)
          /\ jobs' = [i \in Job |->
               IF i = j
               THEN [phase |-> "open", name |-> second, by |-> by, alone |-> Active = {}]
               ELSE IF i \in Active THEN [jobs[i] EXCEPT !.alone = FALSE] ELSE jobs[i]]
          /\ saved' = IF saved = second THEN 0 ELSE saved
       \/ /\ jobs' = [jobs EXCEPT ![j] = Ended]
          /\ UNCHANGED <<files, saved>>
  BY DEF Opens
<1>2. j \in Job /\ j \notin Active /\ j \notin Phase("ended") /\ j # Nobody
  BY DEF Phase, Active, Job, Nobody
<1>3. CASE /\ files' = Opened(j, second)
           /\ jobs' = [i \in Job |->
                IF i = j
                THEN [phase |-> "open", name |-> second, by |-> by, alone |-> Active = {}]
                ELSE IF i \in Active THEN [jobs[i] EXCEPT !.alone = FALSE] ELSE jobs[i]]
           /\ saved' = IF saved = second THEN 0 ELSE saved
  <2>1. /\ DOMAIN files' = DOMAIN files \cup {second} /\ files'[second].by = j
        /\ files' \in [DOMAIN files' -> Archive]
        /\ \A n \in DOMAIN files : n # second => files'[n] = files[n]
        /\ Active = {} => files'[second] = [by |-> j, state |-> "partial"]
    BY <1>3, Opening
  <2>2. jobs'[j] = [phase |-> "open", name |-> second, by |-> by, alone |-> Active = {}]
    BY <1>2, <1>3
  <2>3. \A i \in Job : i # j /\ i \notin Active => jobs'[i] = jobs[i]
    BY <1>3
  <2>4. \A i \in Active : /\ jobs'[i] \in Made /\ jobs'[i].phase = jobs[i].phase
                          /\ jobs'[i].name = jobs[i].name /\ jobs'[i].alone = FALSE
    <3> SUFFICES ASSUME NEW i \in Active
                 PROVE  /\ jobs'[i] \in Made /\ jobs'[i].phase = jobs[i].phase
                        /\ jobs'[i].name = jobs[i].name /\ jobs'[i].alone = FALSE
      OBVIOUS
    <3>1. i \in Job /\ i # j /\ jobs[i] \in Made
      BY <1>2, InPhases, JobCases
    <3>2. jobs'[i] = [jobs[i] EXCEPT !.alone = FALSE]
      BY <1>3, <3>1
    <3> QED BY <3>1, <3>2 DEF Made
  <2>5. jobs'[j] \in Made /\ jobs'[j].phase = "open" /\ jobs'[j].name = second
    <3>1. (Active = {}) \in BOOLEAN
      OBVIOUS
    <3> QED BY <2>2, <3>1 DEF Made
  <2>6. jobs' \in [Job -> {Absent, Ended} \cup Made]
    <3>1. DOMAIN jobs' = Job /\ jobs' = [i \in Job |-> jobs'[i]]
      BY <1>3
    <3>2. \A i \in Job : jobs'[i] \in {Absent, Ended} \cup Made
      BY <2>3, <2>4, <2>5 DEF Held
    <3> QED BY <3>1, <3>2
  <2>7. Active' = Active \cup {j} /\ Phase("open")' = Phase("open") \cup {j}
        /\ Phase("ended")' = Phase("ended")
    <3>1. \A i \in Job : i # j => jobs'[i].phase = jobs[i].phase
      BY <2>3, <2>4
    <3> QED BY <1>2, <2>5, <3>1 DEF Active, Phase
  <2>8. Held'
    BY <2>1, <2>6 DEF Held
  <2>9. Writers'
    <3> SUFFICES ASSUME NEW n \in DOMAIN files', files'[n].by # Nobody
                 PROVE  files'[n].by \in Phase("open")' /\ jobs'[files'[n].by].name = n
      BY DEF Writers
    <3>1. CASE n = second
      BY <2>1, <2>5, <2>7, <3>1
    <3>2. CASE n # second
      <4>1. n \in DOMAIN files /\ files'[n] = files[n]
        BY <2>1, <3>2
      <4>2. files[n].by \in Phase("open") /\ jobs[files[n].by].name = n
        BY <4>1 DEF Writers
      <4>3. files[n].by \in Active
        BY <4>2, InPhases
      <4> QED BY <2>4, <2>7, <4>1, <4>2, <4>3
    <3> QED BY <3>1, <3>2
  <2>10. Lone'
    <3> SUFFICES ASSUME NEW i \in Active', jobs'[i].alone
                 PROVE  /\ Active' = {i}
                        /\ jobs'[i].name \in DOMAIN files' =>
                             files'[jobs'[i].name] =
                               IF jobs'[i].phase = "open" THEN [by |-> i, state |-> "partial"]
                               ELSE [by |-> Nobody, state |-> "whole"]
      BY DEF Lone
    <3>1. i = j
      BY <2>4, <2>7
    <3>2. Active = {}
      <4>1. jobs'[j].alone = (Active = {})
        BY <2>2
      <4> QED BY <3>1, <4>1
    <3> QED BY <2>1, <2>5, <2>7, <3>1, <3>2
  <2>11. Restorable'
    <3> SUFFICES ASSUME saved' # 0
                 PROVE  saved' \in DOMAIN files' /\ files'[saved'] = [by |-> Nobody, state |-> "whole"]
      BY DEF Restorable
    <3>1. saved' = saved /\ saved # second
      BY <1>3
    <3> QED BY <2>1, <3>1 DEF Restorable
  <2>12. FailuresEnded'
    BY <2>7 DEF FailuresEnded
  <2>13. DiskBounded'
    <3>1. /\ IsFiniteSet(Active) /\ Cardinality(Active) \in Nat
          /\ IsFiniteSet(DOMAIN files) /\ Cardinality(DOMAIN files) \in Nat
      BY InPhases, JobsFinite, FilesFinite DEF Held
    <3>2. Cardinality(Active') = Cardinality(Active) + 1
      BY <1>2, <2>7, <3>1, FS_AddElement
    <3>3. Cardinality(DOMAIN files') <= Cardinality(DOMAIN files) + 1
      <4>1. Cardinality(DOMAIN files \cup {second})
              = IF second \in DOMAIN files THEN Cardinality(DOMAIN files) ELSE Cardinality(DOMAIN files) + 1
        BY ONLY <3>1, FS_AddElement
      <4> QED BY <2>1, <3>1, <4>1
    <3>4. Cardinality(DOMAIN files') \in Nat
      BY <2>8, FilesFinite DEF Held
    <3> QED BY <3>1, <3>2, <3>3, <3>4, BoundsAreNatural DEF DiskBounded, Held
  <2> QED BY <2>8, <2>9, <2>10, <2>11, <2>12, <2>13
<1>4. CASE jobs' = [jobs EXCEPT ![j] = Ended] /\ UNCHANGED <<files, saved>>
  <2>1. /\ jobs' \in [Job -> {Absent, Ended} \cup Made] /\ jobs'[j].phase = "ended"
        /\ \A i \in Job : i # j => jobs'[i] = jobs[i]
    BY <1>2, <1>4 DEF Held, Ended
  <2>2. Active' = Active /\ Phase("open")' = Phase("open")
        /\ Phase("ended")' = Phase("ended") \cup {j}
    BY <1>2, <2>1 DEF Active, Phase
  <2>3. Held'
    BY <1>4, <2>1 DEF Held
  <2>4. Writers'
    <3>1. \A i \in Phase("open") : jobs'[i] = jobs[i]
      BY <1>2, <2>1, InPhases
    <3> QED BY <1>4, <2>2, <3>1 DEF Writers
  <2>5. Lone'
    <3>1. \A i \in Active : jobs'[i] = jobs[i]
      BY <1>2, <2>1, InPhases
    <3> QED BY <1>4, <2>2, <3>1 DEF Lone
  <2>6. Restorable'
    BY <1>4 DEF Restorable
  <2>7. FailuresEnded'
    <3>1. IsFiniteSet(Phase("ended")) /\ Cardinality(Phase("ended")) \in Nat
      BY InPhases, JobsFinite
    <3>2. Cardinality(Phase("ended")') = Cardinality(Phase("ended")) + 1
      BY <1>2, <2>2, <3>1, FS_AddElement
    <3> QED BY <3>1, <3>2 DEF FailuresEnded, Held
  <2>8. DiskBounded'
    BY <1>4, <2>2 DEF DiskBounded
  <2> QED BY <2>3, <2>4, <2>5, <2>6, <2>7, <2>8
<1> QED BY <1>1, <1>3, <1>4

-----------------------------------------------------------------------------
(* The life of the process and the clock.                                                 *)
LEMMA ClockKept ==
  ASSUME Clock, BackupInv, [ProcessNext]_processVars
  PROVE  Clock'
<1> USE BoundsAreNatural DEF Clock, Second
<1>1. CASE SchedulerWakes \/ AdminAsks
  BY <1>1 DEF SchedulerWakes, AdminAsks, Opens
<1>2. ASSUME NEW j \in Job, Writes(j) \/ Fails(j) PROVE Clock'
  BY <1>2 DEF Writes, Fails, LoopGoesOn
<1>3. ASSUME NEW j \in Job, Finishes(j) PROVE Clock'
  <2>1. jobs[j].name \in Second
    <3>1. j \in Active
      BY <1>3 DEF Finishes, Active, Phase
    <3> QED BY <3>1, InPhases DEF BackupInv
  <2>2. saved' \in 0..MaxNow
    BY <1>3, <2>1 DEF Finishes
  <2> QED BY <1>3, <2>2 DEF Finishes, LoopGoesOn
<1>4. ASSUME NEW n \in Second, Removes(n) PROVE Clock'
  BY <1>4 DEF Removes
<1>5. CASE Passes \/ StepsBack
  BY <1>5 DEF Passes, StepsBack
<1>6. ASSUME Emits \/ (\E outcome \in Outcome : Posts(outcome)) PROVE Clock'
  BY <1>6 DEF Emits, Posts, directory
<1>7. CASE Shutdown
  BY <1>7 DEF Shutdown, directory
<1>8. CASE Deadline \/ Cancelled \/ Disposes \/ Leaves
  BY <1>8 DEF Deadline, Cancelled, Disposes, Leaves, directory
<1>9. CASE Crashes \/ Starts
  BY <1>9 DEF Crashes, Starts
<1>10. CASE UNCHANGED processVars
  BY <1>10 DEF processVars
<1> QED
  BY <1>1, <1>2, <1>3, <1>4, <1>5, <1>6, <1>7, <1>8, <1>9, <1>10 DEF ProcessNext, Backs

LEMMA BackupsKept ==
  ASSUME Clock, BackupInv, [ProcessNext]_processVars
  PROVE  BackupInv'
<1>1. ASSUME UNCHANGED <<files, jobs, failures, saved>> PROVE BackupInv'
  BY <1>1 DEF BackupInv, Held, Writers, Lone, Restorable, FailuresEnded, DiskBounded, Active, Phase
<1>2. CASE SchedulerWakes
  <2>1. Opens("clock", now') /\ failures' = failures
    BY <1>2 DEF SchedulerWakes
  <2>2. now' \in Second
    BY ClockKept DEF Clock
  <2> QED BY <2>1, <2>2, OpensKeeps
<1>3. CASE AdminAsks
  <2>1. Opens("admin", now) /\ failures' = failures /\ now \in Second
    BY <1>3 DEF AdminAsks, Clock
  <2> QED BY <2>1, OpensKeeps
<1>4. ASSUME NEW j \in Job, Backs(j) PROVE BackupInv'
  BY <1>4, WritesKeeps, FailsKeeps, FinishesKeeps DEF Backs
<1>5. ASSUME NEW n \in Second, Removes(n) PROVE BackupInv'
  BY <1>5, RemovesKeeps
<1>6. CASE Crashes
  BY <1>6, CrashKeeps
<1>7. CASE Passes \/ StepsBack \/ Starts \/ UNCHANGED processVars
  BY <1>1, <1>7 DEF Passes, StepsBack, Starts, processVars
<1>8. ASSUME \/ Emits \/ \E outcome \in Outcome : Posts(outcome)
             \/ Shutdown \/ Deadline \/ Cancelled \/ Disposes \/ Leaves
      PROVE  BackupInv'
  <2>1. UNCHANGED directory
    BY <1>8 DEF Emits, Posts, Shutdown, Deadline, Cancelled, Disposes, Leaves
  <2> QED BY <1>1, <2>1 DEF directory
<1> QED BY <1>2, <1>3, <1>4, <1>5, <1>6, <1>7, <1>8 DEF ProcessNext

-----------------------------------------------------------------------------
(* The delivery.                                                                          *)

(* An attempt is added to those of the subscription the delivery is at, and to no other;  *)
(* the delivery stays with it, or it is settled.                                          *)
LEMMA Attempt ==
  ASSUME Delivery, NEW outcome \in Outcome, task.phase = "posting"
  PROVE  /\ task \in Posted /\ AtOne
         /\ Tried(outcome) \in [1..Subs -> Seq(Outcome)]
         /\ \A i \in 1..Subs : i # task.to => Tried(outcome)[i] = task.log[i]
         /\ \/ /\ NextTo(task.to, Tried(outcome)[task.to]) = task.to
               /\ Len(Tried(outcome)[task.to]) < Tries
            \/ /\ NextTo(task.to, Tried(outcome)[task.to]) = task.to + 1
               /\ Settled(Tried(outcome)[task.to])
<1>1. task \in Posted /\ AtOne
  BY DEF Delivery, NoTask, Done
<1>2. task.to \in 1..Subs /\ task.log \in [1..Subs -> Seq(Outcome)]
  BY <1>1 DEF Posted
<1> DEFINE tried == Append(task.log[task.to], outcome)
<1>3. /\ tried \in Seq(Outcome) /\ Len(tried) = Len(task.log[task.to]) + 1
      /\ Len(task.log[task.to]) \in Nat
  <2>1. task.log[task.to] \in Seq(Outcome)
    BY <1>2
  <2> QED BY <2>1, AppendProperties, LenProperties
<1>4. /\ Tried(outcome)[task.to] = tried
      /\ Tried(outcome) \in [1..Subs -> Seq(Outcome)]
      /\ \A i \in 1..Subs : i # task.to => Tried(outcome)[i] = task.log[i]
  BY <1>2, <1>3 DEF Tried
<1>5. Len(task.log[task.to]) < Tries /\ Tries \in Nat
  BY <1>1, BoundsAreNatural DEF AtOne
<1>6. tried # <<>>
  BY <1>3
<1> HIDE DEF tried
<1>7. \/ NextTo(task.to, tried) = task.to /\ Len(tried) < Tries
      \/ NextTo(task.to, tried) = task.to + 1 /\ Settled(tried)
  BY <1>3, <1>5, <1>6 DEF NextTo, Settled
<1> QED BY <1>1, <1>4, <1>7

LEMMA DeliveryKept ==
  ASSUME Delivery, [ProcessNext]_processVars
  PROVE  Delivery'
<1> USE BoundsAreNatural
<1>1. ASSUME task' \in {NoTask, Done, [phase |-> "cancelled"]} PROVE Delivery'
  BY <1>1 DEF Delivery, NoTask, Done
<1>2. ASSUME task' = task PROVE Delivery'
  BY <1>2 DEF Delivery, AtOne
<1>3. CASE Emits
  <2>1. CASE task' = Begun /\ Subs # 0
    <3>1. /\ task'.phase = "posting" /\ task'.to = 1 /\ task'.log = [i \in 1..Subs |-> <<>>]
          /\ task' = [phase |-> "posting", to |-> 1, log |-> [i \in 1..Subs |-> <<>>]]
      BY <2>1 DEF Begun
    <3>2. <<>> \in Seq(Outcome) /\ Len(<<>>) = 0 /\ Subs \in Nat \ {0} /\ Tries \in Nat \ {0}
      BY <2>1
    <3>3. task' \in Posted
      BY <3>1, <3>2 DEF Posted
    <3>4. AtOne'
      BY <3>1, <3>2 DEF AtOne
    <3> QED BY <3>3, <3>4 DEF Delivery
  <2> QED BY <1>1, <1>3, <2>1 DEF Emits
<1>4. ASSUME NEW outcome \in Outcome, Posts(outcome) PROVE Delivery'
  <2> DEFINE to == NextTo(task.to, Tried(outcome)[task.to])
  <2>1. /\ task.phase = "posting"
        /\ task' = IF to > Subs THEN Done ELSE [task EXCEPT !.to = to, !.log = Tried(outcome)]
    BY <1>4 DEF Posts
  <2>2. /\ task \in Posted /\ AtOne
        /\ Tried(outcome) \in [1..Subs -> Seq(Outcome)]
        /\ \A i \in 1..Subs : i # task.to => Tried(outcome)[i] = task.log[i]
        /\ \/ to = task.to /\ Len(Tried(outcome)[task.to]) < Tries
           \/ to = task.to + 1 /\ Settled(Tried(outcome)[task.to])
    BY <2>1, Attempt
  <2> HIDE DEF to
  <2>3. CASE to > Subs
    BY <1>1, <2>1, <2>3
  <2>4. CASE ~(to > Subs)
    <3>1. /\ task'.phase = "posting" /\ task'.to = to /\ task'.log = Tried(outcome)
          /\ task' = [phase |-> "posting", to |-> to, log |-> Tried(outcome)]
      BY <2>1, <2>2, <2>4 DEF Posted
    <3>2. task.to \in 1..Subs /\ to \in 1..Subs
      BY <2>2, <2>4 DEF Posted
    <3>3. task' \in Posted
      BY <2>2, <3>1, <3>2 DEF Posted
    <3>4. ASSUME NEW i \in 1..Subs, i < to PROVE Settled(task'.log[i])
      BY <2>2, <3>1, <3>2, <3>4 DEF AtOne
    <3>5. ASSUME NEW i \in 1..Subs, i > to PROVE task'.log[i] = <<>>
      <4>1. i > task.to /\ i # task.to
        BY <2>2, <3>2, <3>5
      <4>2. task.log[i] = <<>> /\ Tried(outcome)[i] = task.log[i]
        BY <2>2, <4>1 DEF AtOne
      <4> QED BY <3>1, <4>2
    <3>6. Len(task'.log[to]) < Tries
      <4>1. CASE to = task.to + 1
        <5>1. to > task.to /\ to # task.to
          BY <3>2, <4>1
        <5>2. task.log[to] = <<>> /\ Tried(outcome)[to] = task.log[to]
          BY <2>2, <3>2, <5>1 DEF AtOne
        <5>3. Len(<<>>) = 0
          OBVIOUS
        <5> QED BY <3>1, <5>2, <5>3
      <4> QED BY <2>2, <3>1, <3>2, <4>1
    <3>7. AtOne'
      BY <3>1, <3>4, <3>5, <3>6 DEF AtOne
    <3> QED BY <3>3, <3>7 DEF Delivery
  <2> QED BY <2>3, <2>4
<1>5. CASE Deadline \/ Cancelled
  BY <1>1, <1>5 DEF Deadline, Cancelled
<1>6. CASE Crashes
  BY <1>1, <1>2, <1>6 DEF Crashes
<1>7. CASE \/ SchedulerWakes \/ AdminAsks \/ \E j \in Job : Backs(j)
           \/ \E n \in Second : Removes(n)
           \/ Passes \/ StepsBack \/ Shutdown \/ Disposes \/ Leaves \/ Starts
           \/ UNCHANGED processVars
  <2>1. task' = task
    BY <1>7 DEF SchedulerWakes, AdminAsks, Backs, Writes, Fails, Finishes, Removes, Passes, StepsBack,
                Shutdown, Disposes, Leaves, Starts, processVars
  <2> QED BY <1>2, <2>1
<1> QED BY <1>3, <1>4, <1>5, <1>6, <1>7 DEF ProcessNext

LEMMA DrainedKept ==
  ASSUME Clock, BackupInv, Delivery, DeliveriesDrained, [ProcessNext]_processVars
  PROVE  DeliveriesDrained'
<1> USE DEF DeliveriesDrained, Delivering
<1>1. CASE SchedulerWakes \/ AdminAsks
  <2>1. life = "up" /\ life' = life
    BY <1>1 DEF SchedulerWakes, AdminAsks, Opens
  <2> QED BY <2>1
<1>2. ASSUME NEW j \in Job, Backs(j) PROVE DeliveriesDrained'
  <2>1. j \in Active /\ life' = life /\ task' = task
    BY <1>2 DEF Backs, Writes, Fails, Finishes, Active, Phase
  <2> QED BY <2>1
<1>3. ASSUME NEW n \in Second, Removes(n) PROVE DeliveriesDrained'
  BY <1>3 DEF Removes
<1>4. CASE Passes \/ StepsBack \/ UNCHANGED processVars
  BY <1>4 DEF Passes, StepsBack, processVars, Active, Phase
<1>5. ASSUME Emits \/ Shutdown PROVE DeliveriesDrained'
  BY <1>5 DEF Emits, Shutdown
<1>6. ASSUME NEW outcome \in Outcome, Posts(outcome) PROVE DeliveriesDrained'
  BY <1>6 DEF Posts, directory, Active, Phase
<1>7. CASE Deadline \/ Cancelled
  BY <1>7 DEF Deadline, Cancelled, Done, directory, Active, Phase
<1>8. CASE Disposes
  BY <1>8 DEF Disposes
<1>9. CASE Leaves
  BY <1>9 DEF Leaves, directory, Active, Phase
<1>10. CASE Crashes
  <2>1. jobs' = [j \in Job |-> IF j \in Active THEN Ended ELSE jobs[j]]
    BY <1>10 DEF Crashes
  <2>2. Active' = {}
    BY <2>1 DEF Active, Phase, Ended
  <2>3. task' = IF Delivering THEN Done ELSE task
    BY <1>10 DEF Crashes
  <2> QED BY <2>2, <2>3 DEF Done
<1>11. CASE Starts
  BY <1>11 DEF Starts
<1> QED
  BY <1>1, <1>2, <1>3, <1>4, <1>5, <1>6, <1>7, <1>8, <1>9, <1>10, <1>11 DEF ProcessNext

-----------------------------------------------------------------------------
(* The purge of audit traces.                                                               *)

(* What holds of 0 and, with a number below n, of the next one, holds up to n. *)
LEMMA CountedTo ==
  ASSUME NEW n \in Nat, NEW S, 0 \in S, \A i \in 0..n - 1 : i \in S => i + 1 \in S
  PROVE  n \in S
<1> SUFFICES ASSUME n \notin S PROVE FALSE
  OBVIOUS
<1> DEFINE T == (0..n) \ S
<1>1. PICK i \in T : \A j \in T : i <= j
  <2>1. T \in SUBSET Nat /\ T # {}
    OBVIOUS
  <2> HIDE DEF T
  <2> QED BY <2>1, LeastOf
<1>2. i # 0 /\ i - 1 \in 0..n - 1 /\ i - 1 \in S
  BY <1>1
<1> QED BY <1>1, <1>2

-----------------------------------------------------------------------------
(* The rows a purge leaves, by the transactions it is granted: the function Purged defines. *)
Rest(traces, expired, good) ==
  CHOOSE left : left = [n \in 0..good |->
    IF n = 0 THEN [old \in SUBSET traces |-> {old}] ELSE OneMore(traces, expired, left[n - 1])]

LeftBy(r, traces, expired, good) ==
  /\ Purged(traces, expired, good) = r[good][traces]
  /\ r[0] = [old \in SUBSET traces |-> {old}]
  /\ \A n \in 0..good - 1 : r[n + 1] = OneMore(traces, expired, r[n])

LEMMA RestIs ==
  ASSUME NEW traces, NEW expired, NEW good \in Nat
  PROVE  LeftBy(Rest(traces, expired, good), traces, expired, good)
<1> DEFINE None == [old \in SUBSET traces |-> {old}]
           More(f) == OneMore(traces, expired, f)
           Is(u, n) == u = [i \in 0..n |-> IF i = 0 THEN None ELSE More(u[i - 1])]
           S == {n \in Nat : \E u : Is(u, n)}
<1>1. Purged(traces, expired, good) = Rest(traces, expired, good)[good][traces]
  BY DEF Purged, Rest
<1>2. Rest(traces, expired, good) = CHOOSE u : Is(u, good)
  BY DEF Rest
<1> HIDE DEF None, More
<1>3. 0 \in S
  <2>1. Is([i \in 0..0 |-> None], 0)
    OBVIOUS
  <2> QED BY <2>1
<1>4. ASSUME NEW n \in Nat, n \in S PROVE n + 1 \in S
  <2>1. PICK u : Is(u, n)
    BY <1>4
  <2> DEFINE v == [i \in 0..n + 1 |-> IF i \in 0..n THEN u[i] ELSE More(u[n])]
  <2>2. Is(v, n + 1)
    BY <2>1
  <2> HIDE DEF v, Is
  <2> QED BY <2>2
<1>5. good \in S
  <2> HIDE DEF S
  <2>1. \A i \in 0..good - 1 : i \in S => i + 1 \in S
    BY <1>4
  <2> QED BY <1>3, <2>1, CountedTo
<1>6. Is(Rest(traces, expired, good), good)
  <2>1. \E u : Is(u, good)
    BY <1>5
  <2> HIDE DEF Is
  <2> QED BY <1>2, <2>1
<1> DEFINE r == Rest(traces, expired, good)
<1>7. r[0] = None /\ \A i \in 1..good : r[i] = More(r[i - 1])
  <2> HIDE DEF r
  <2>1. r = [i \in 0..good |-> IF i = 0 THEN None ELSE More(r[i - 1])]
    BY <1>6 DEF r
  <2> QED BY <2>1
<1>8. \A n \in 0..good - 1 : r[n + 1] = More(r[n])
  <2> HIDE DEF r
  <2>1. \A n \in 0..good - 1 : n + 1 \in 1..good /\ (n + 1) - 1 = n
    OBVIOUS
  <2> QED BY <1>7, <2>1
<1> QED BY <1>1, <1>7, <1>8 DEF None, More, LeftBy

(* What n transactions may leave of some rows. *)
LeftWell(old, expired, n, left) ==
  /\ left \subseteq old /\ old \ expired \subseteq left
  /\ Cardinality(old \ left) <= n * Batch
  /\ n * Batch > Cardinality(old \cap expired) => left \cap expired = {}

LEMMA Transaction ==
  ASSUME NEW traces, IsFiniteSet(traces), NEW expired, NEW n \in Nat, NEW after,
         \A old \in SUBSET traces : \A left \in after[old] : LeftWell(old, expired, n, left),
         NEW old \in SUBSET traces, NEW left \in OneMore(traces, expired, after)[old]
  PROVE  LeftWell(old, expired, n + 1, left)
<1> DEFINE due == old \cap expired
<1>1. n * Batch \in Nat /\ (n + 1) * Batch \in Nat /\ (n + 1) * Batch = n * Batch + Batch /\ Batch \in Nat /\ Batch > 0
  BY PurgeAssumption
<1> DEFINE most == n * Batch
           next == (n + 1) * Batch
<1>2. most \in Nat /\ next \in Nat /\ next = most + Batch /\ Batch \in Nat /\ Batch > 0
  BY <1>1
<1> HIDE DEF most, next
<1>3. IsFiniteSet(old) /\ IsFiniteSet(due) /\ Cardinality(due) \in Nat
  BY FS_Subset, FS_CardinalityType
<1>4. CASE due = {}
  <2>1. left = old
    BY <1>4 DEF OneMore
  <2>2. Cardinality(old \ left) = 0
    BY <2>1, FS_EmptySet
  <2> QED BY <1>1, <1>4, <2>1, <2>2 DEF LeftWell
<1>5. CASE due # {}
  <2>1. PICK ids \in Chosen(due) : left \in IF Last(ids) THEN {old \ ids} ELSE after[old \ ids]
    BY <1>5 DEF OneMore
  <2>2. /\ ids \subseteq due
        /\ Cardinality(ids) = IF Cardinality(due) < Batch THEN Cardinality(due) ELSE Batch
    BY <2>1 DEF Chosen
  <2> HIDE DEF due
  <2>3. IsFiniteSet(ids) /\ Cardinality(ids) \in Nat
    BY <1>3, <2>2, FS_Subset, FS_CardinalityType
  <2>4. CASE Last(ids)
    <3>1. left = old \ ids
      BY <2>1, <2>4
    <3>2. Cardinality(ids) = Cardinality(due) /\ Cardinality(due) < Batch
      BY <1>1, <2>2, <2>4 DEF Last
    <3>3. ids = due
      BY <1>3, <2>2, <3>2, FS_Subset
    <3>4. old \ left = due /\ left \cap expired = {} /\ left \subseteq old /\ old \ expired \subseteq left
      BY <3>1, <3>3 DEF due
    <3>5. Cardinality(old \ left) <= next
      BY ONLY <1>2, <1>3, <3>2, <3>4
    <3> QED BY <3>4, <3>5 DEF LeftWell, next
  <2>5. CASE ~Last(ids)
    <3> DEFINE rest == old \ ids
    <3>1. left \in after[rest] /\ rest \in SUBSET traces
      BY <2>1, <2>5
    <3>2. LeftWell(rest, expired, n, left)
      BY <3>1
    <3>3. Cardinality(ids) = Batch
      BY <1>1, <1>3, <2>2, <2>5 DEF Last
    <3>4. /\ left \subseteq rest /\ rest \ expired \subseteq left
          /\ Cardinality(rest \ left) <= n * Batch
          /\ n * Batch > Cardinality(rest \cap expired) => left \cap expired = {}
      BY <3>2 DEF LeftWell
    <3>5. rest \cap expired = due \ ids /\ due \cap ids = ids
      BY <2>2 DEF due
    <3>6. Cardinality(due \ ids) = Cardinality(due) - Batch
      <4>1. Cardinality(due \ ids) = Cardinality(due) - Cardinality(due \cap ids)
        BY ONLY <1>3, <2>3, FS_Difference
      <4> QED BY <3>3, <3>5, <4>1
    <3>7. old \ left = ids \cup (rest \ left)
      BY <2>2, <3>4 DEF due
    <3>8. IsFiniteSet(rest \ left) /\ Cardinality(rest \ left) \in Nat
      <4>1. rest \ left \in SUBSET old
        OBVIOUS
      <4> QED BY <1>3, <4>1, FS_Subset, FS_CardinalityType
    <3>9. Cardinality(old \ left) <= Cardinality(ids) + Cardinality(rest \ left)
      <4>1. ids \cap (rest \ left) \in SUBSET ids
        OBVIOUS
      <4>2. Cardinality(ids \cap (rest \ left)) \in Nat
        BY <2>3, <4>1, FS_Subset, FS_CardinalityType
      <4>3. Cardinality(ids \cup (rest \ left))
              = Cardinality(ids) + Cardinality(rest \ left) - Cardinality(ids \cap (rest \ left))
        BY ONLY <2>3, <3>8, FS_Union
      <4>4. Cardinality(ids \cup (rest \ left)) <= Cardinality(ids) + Cardinality(rest \ left)
        <5> HIDE DEF rest
        <5> QED BY ONLY <2>3, <3>8, <4>2, <4>3
      <4> QED BY <3>7, <4>4
    <3>10. Cardinality(old \ left) <= (n + 1) * Batch
      <4>1. Cardinality(old \ left) \in Nat
        <5>1. old \ left \in SUBSET old
          OBVIOUS
        <5> QED BY <1>3, <5>1, FS_Subset, FS_CardinalityType
      <4> QED BY <1>1, <3>3, <3>4, <3>8, <3>9, <4>1
    <3>11. (n + 1) * Batch > Cardinality(due) => left \cap expired = {}
      <4> HIDE DEF rest
      <4>1. most > Cardinality(rest \cap expired) => left \cap expired = {}
        BY <3>4 DEF most
      <4>2. Cardinality(rest \cap expired) = Cardinality(due) - Batch
        BY <3>5, <3>6
      <4>3. next > Cardinality(due) => left \cap expired = {}
        BY ONLY <1>2, <1>3, <4>1, <4>2
      <4> QED BY <4>3 DEF next
    <3>12. left \subseteq old /\ old \ expired \subseteq left
      BY <2>2, <3>4 DEF due
    <3> QED BY <3>10, <3>11, <3>12 DEF LeftWell, due
  <2> QED BY <2>4, <2>5
<1> QED BY <1>4, <1>5

LEMMA PurgeSound ==
  ASSUME NEW traces \in SUBSET Trace, NEW expired \in SUBSET traces
  PROVE  Sound(traces, expired)
<1>1. IsFiniteSet(traces) /\ Cardinality(traces) \in Nat
  BY PurgeAssumption, FS_Subset, FS_CardinalityType
<1> SUFFICES ASSUME NEW good \in 0..(Cardinality(traces) + 1), NEW left \in Purged(traces, expired, good)
             PROVE  /\ traces \ expired \subseteq left
                    /\ Cardinality(traces \ left) <= good * Batch
                    /\ good * Batch > Cardinality(expired) => left \cap expired = {}
  BY DEF Sound
<1>2. good \in Nat
  BY <1>1
<1> DEFINE r == Rest(traces, expired, good)
           S == {n \in Nat : \A old \in SUBSET traces : \A l \in r[n][old] : LeftWell(old, expired, n, l)}
<1>3. LeftBy(r, traces, expired, good)
  BY ONLY <1>2, RestIs
<1> HIDE DEF r
<1>4. /\ Purged(traces, expired, good) = r[good][traces]
      /\ r[0] = [old \in SUBSET traces |-> {old}]
      /\ \A n \in 0..good - 1 : r[n + 1] = OneMore(traces, expired, r[n])
  BY <1>3 DEF LeftBy
<1>5. 0 \in S
  <2> SUFFICES ASSUME NEW old \in SUBSET traces PROVE LeftWell(old, expired, 0, old)
    BY <1>4
  <2>1. Cardinality(old \ old) = 0 /\ 0 * Batch = 0
    <3>1. old \ old = {}
      OBVIOUS
    <3>2. Cardinality(old \ old) = 0
      BY <3>1, FS_EmptySet
    <3>3. 0 * Batch = 0
      BY PurgeAssumption
    <3> QED BY <3>2, <3>3
  <2>2. Cardinality(old \cap expired) \in Nat
    <3>1. old \cap expired \in SUBSET traces
      OBVIOUS
    <3> QED BY <1>1, <3>1, FS_Subset, FS_CardinalityType
  <2> QED BY <2>1, <2>2 DEF LeftWell
<1>6. ASSUME NEW n \in 0..good - 1, n \in S PROVE n + 1 \in S
  <2>1. n \in Nat /\ n + 1 \in Nat
    BY <1>2
  <2>2. \A old \in SUBSET traces : \A l \in r[n][old] : LeftWell(old, expired, n, l)
    BY <1>6
  <2>3. ASSUME NEW old \in SUBSET traces, NEW l \in r[n + 1][old] PROVE LeftWell(old, expired, n + 1, l)
    <3>1. l \in OneMore(traces, expired, r[n])[old]
      BY <1>4, <2>3
    <3> QED BY <1>1, <2>1, <2>2, <3>1, Transaction
  <2> QED BY <2>1, <2>3
<1>7. good \in S
  <2> HIDE DEF S
  <2> QED BY <1>2, <1>5, <1>6, CountedTo
<1>8. LeftWell(traces, expired, good, left)
  BY <1>4, <1>7
<1>9. traces \cap expired = expired
  OBVIOUS
<1> QED BY <1>8, <1>9 DEF LeftWell

-----------------------------------------------------------------------------
LEMMA ProcessStarts == ProcessInit => ProcessInv
<1> SUFFICES ASSUME ProcessInit PROVE ProcessInv
  OBVIOUS
<1> USE BoundsAreNatural DEF ProcessInit
<1>1. Clock
  BY DEF Clock, Second
<1>2. Active = {} /\ Phase("open") = {} /\ Phase("ended") = {}
  BY DEF Active, Phase, Absent
<1>3. DOMAIN files = {} /\ files \in [{} -> Archive]
  OBVIOUS
<1>4. Held
  BY <1>3 DEF Held
<1>5. Cardinality({}) = 0
  BY FS_EmptySet
<1>6. Writers /\ Lone /\ Restorable
  BY <1>2, <1>3 DEF Writers, Lone, Restorable
<1>7. FailuresEnded /\ DiskBounded
  <2>1. Cardinality(Phase("ended")) = 0 /\ Cardinality(Active) = 0 /\ Cardinality(DOMAIN files) = 0
    BY ONLY <1>2, <1>3, <1>5
  <2>2. failures = 0 /\ Keep \in Nat
    OBVIOUS
  <2> QED BY ONLY <2>1, <2>2 DEF FailuresEnded, DiskBounded
<1>8. Delivery
  BY DEF Delivery, NoTask
<1>9. DeliveriesDrained
  BY DEF DeliveriesDrained
<1> QED BY <1>1, <1>4, <1>6, <1>7, <1>8, <1>9 DEF ProcessInv, BackupInv

LEMMA ProcessGoesOn == ProcessInv /\ [ProcessNext]_processVars => ProcessInv'
BY ClockKept, BackupsKept, DeliveryKept, DrainedKept DEF ProcessInv

(* Whatever fails or is cut, the last backup that was completed alone and under the newest *)
(* name stays, whole, and the directory holds no more than retention says and the backups  *)
(* begun since (create_backup, _enforce_retention).                                        *)
THEOREM Retention == ProcessSpec => []RetentionSound
<1>1. ProcessInv => RetentionSound
  <2> SUFFICES ASSUME ProcessInv PROVE RetentionSound
    OBVIOUS
  <2>1. Clock /\ Held /\ Restorable /\ FailuresEnded /\ DiskBounded /\ Delivery
    BY DEF ProcessInv, BackupInv
  <2>2. RestorePoint
    BY <2>1 DEF Restorable, RestorePoint
  <2>3. failures \in 0..MaxJobs
    <3>1. Cardinality(Phase("ended")) \in Nat /\ Cardinality(Phase("ended")) <= MaxJobs
      BY <2>1, InPhases, JobsFinite
    <3> QED BY <2>1, <3>1, BoundsAreNatural DEF FailuresEnded, Held
  <2>4. \A j \in Job : jobs[j].phase \in Phases
    <3>1. \A j \in Job : jobs[j] \in {Absent, Ended} \cup Made
      BY <2>1 DEF Held
    <3> QED BY <3>1 DEF Absent, Ended, Made, Phases
  <2>5. \A n \in DOMAIN files : files[n].by \in {Nobody} \cup Job /\ files[n].state \in {"partial", "whole", "torn"}
    BY <2>1 DEF Held, Archive
  <2>6. task.phase \in {"none", "posting", "cancelled", "done"}
    BY <2>1 DEF Delivery, NoTask, Done, Posted
  <2>7. ProcessTypeOK
    BY <2>1, <2>3, <2>4, <2>5, <2>6 DEF ProcessTypeOK, Clock, Held
  <2> QED BY <2>1, <2>2, <2>7 DEF RetentionSound
<1> QED BY <1>1, ProcessStarts, ProcessGoesOn, PTL DEF ProcessSpec

(* Once the application has closed the database no delivery is under way, whatever its    *)
(* subscribers do, and no thread writes an archive once the process has left (lifespan,   *)
(* shutdown_event_tasks).                                                                 *)
THEOREM Drained == ProcessSpec => []DeliveriesDrained
<1>1. ProcessInv => DeliveriesDrained
  BY DEF ProcessInv
<1> QED BY <1>1, ProcessStarts, ProcessGoesOn, PTL DEF ProcessSpec

(* A delivery that ends by itself has asked every subscription until it accepted, was     *)
(* blocked or had all its attempts (dispatch_event, _deliver_one).                        *)
THEOREM Asking == ProcessSpec => EveryoneAsked
<1>1. ASSUME ProcessInv, NEW outcome \in Outcome, Posts(outcome), task' = Done
      PROVE  \A i \in 1..Subs : Settled(Tried(outcome)[i])
  <2> DEFINE to == NextTo(task.to, Tried(outcome)[task.to])
  <2>1. /\ task.phase = "posting"
        /\ task' = IF to > Subs THEN Done ELSE [task EXCEPT !.to = to, !.log = Tried(outcome)]
    BY <1>1 DEF Posts
  <2>2. /\ task \in Posted /\ AtOne
        /\ \A i \in 1..Subs : i # task.to => Tried(outcome)[i] = task.log[i]
        /\ \/ to = task.to
           \/ to = task.to + 1 /\ Settled(Tried(outcome)[task.to])
    BY <1>1, <2>1, Attempt DEF ProcessInv
  <2> HIDE DEF to
  <2>3. to > Subs
    <3>1. [task EXCEPT !.to = to, !.log = Tried(outcome)].phase = "posting" /\ Done.phase = "done"
      BY <2>1, <2>2 DEF Posted, Done
    <3> QED BY <1>1, <2>1, <3>1
  <2>4. task.to \in 1..Subs /\ Subs \in Nat
    BY <2>2, BoundsAreNatural DEF Posted
  <2>5. task.to = Subs /\ Settled(Tried(outcome)[task.to])
    BY <2>2, <2>3, <2>4
  <2> QED BY <2>2, <2>4, <2>5 DEF AtOne
<1>2. ProcessInv => \A outcome \in Outcome :
                      Posts(outcome) /\ task' = Done => \A i \in 1..Subs : Settled(Tried(outcome)[i])
  BY <1>1
<1> QED BY <1>2, ProcessStarts, ProcessGoesOn, PTL DEF ProcessSpec, EveryoneAsked

(* A purge takes every expired row and no other one, however the database picks the rows  *)
(* of a batch, whatever the size of a batch and wherever it is refused                    *)
(* (purge_expired_audit_traces).                                                          *)
THEOREM Purging == ProcessSpec => []PurgeComplete
<1>1. Misjudged = {}
  BY PurgeSound DEF Misjudged
<1>2. PurgeComplete
  BY <1>1 DEF PurgeComplete
<1> QED BY <1>2, PTL
=============================================================================
