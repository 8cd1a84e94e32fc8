------------------------ MODULE KnowledgeIndex_proofs ------------------------
(***************************************************************************)
(* What holds of the knowledge index for every set of chunks, every batch, *)
(* every number of jobs at work together and any number of restarts: the   *)
(* positions of the index name what they encode, an answer cites only what *)
(* the tenant owns and nobody deleted, and no committed row is lost to the *)
(* index but by what the history variables tell.  And of what is uploaded, *)
(* for every text and table: it comes into the chunks whole.               *)
(***************************************************************************)
EXTENDS Uploads, FiniteSetTheorems, SequenceTheorems, WellFoundedInduction, TLAPS

-----------------------------------------------------------------------------
(* The inductive invariant. *)

(* A store of chunks of the set U, and the files or the table of one: only a stop or a  *)
(* failure in the middle of a save leaves a file torn.                                   *)
Real(U) == [vectors : Seq(U), ids : Seq(U \cup {Blank})]
Files(U) == [dim : Nat, vectors : Seq(U) \cup {Torn}, ids : Seq(U \cup {Blank}) \cup {Torn}]
Jobs(U) == [does : {"add", "delete", "manual", "auto"}, items : Seq(U),
            at : {"read", "reset", "clear", "start", "name", "save", "sidecar"}]

TypeInv ==
  /\ sources \subseteq Sources /\ rows \subseteq used /\ used \subseteq Chunks
  /\ IsFiniteSet(used)
  /\ \A s \in DOMAIN deleting : deleting[s] \subseteq used
  /\ backend \in Backends /\ model \in Models
  /\ store \in Real(used) \cup {NoStore} /\ disk \in Files(used)
  /\ jobs \subseteq Jobs(used)

(* One mismatch is one flag, one task not begun, or one automatic rebuild. *)
OneRebuild == \A j, k \in jobs : Rebuilds(j) /\ Rebuilds(k) => j = k
NoAuto == \A j \in jobs : j.does # "auto"
Token ==
  /\ tasks \in {0, 1} /\ flag \in BOOLEAN
  /\ flag => tasks = 0 /\ NoAuto
  /\ tasks = 1 => NoAuto
  /\ store = NoStore => tasks = 0 /\ ~flag /\ NoAuto
  /\ retries \in 0 .. MaxAutoRetries
  /\ tasks = 1 \/ ~NoAuto => retries < MaxAutoRetries

(* What the stage of a job says of it and of the others. *)
OneWriter == \A j, k \in jobs : {j.at, k.at} \subseteq {"name", "sidecar"} => j = k
Staged(j) ==
  /\ j.items = <<>> => j.at = "read"
  /\ j.at \in {"read", "reset", "clear"} => Rebuilds(j)
  /\ j.at \in {"reset", "clear", "name", "save", "sidecar"} => store # NoStore
  /\ j.at = "clear" => unsaved
  /\ j.at = "sidecar" => disk.dim # 0 /\ disk.vectors # Torn
  /\ backend # "faiss" => j.at \in {"read", "reset", "start"}
Shape ==
  /\ OneWriter
  /\ \A j \in jobs : Staged(j)
  /\ backend # "faiss" => store.vectors = store.ids /\ disk.vectors = disk.ids

Fits(ids, vectors) == Len(ids) <= Len(vectors)
                      /\ \A i \in DOMAIN ids : ids[i] \in {Blank, vectors[i]}
Intact == disk.vectors # Torn /\ disk.ids # Torn
Agreed == \A j \in jobs : j.at \notin {"name", "clear"}
Sure == store # NoStore /\ ~cut /\ ~Writing("clear")
Steady ==
  /\ Sure /\ ~Writing("name") => InStep(store)
  /\ Sure => \A j \in jobs : j.at = "name" => InStep(Named(store, j.items))
  /\ Sure /\ Writing("sidecar") => disk.vectors = store.vectors \/ store.ids = <<>>
  /\ store # NoStore /\ ~cut /\ ~unsaved /\ disk.ids # Torn => Fits(disk.ids, store.vectors)
  /\ (store = NoStore \/ ~unsaved) /\ ~cut /\ Intact => Fits(disk.ids, disk.vectors)

AskType == ask \in [at : {"idle", "allowed", "answered"}, tenant : Tenants \cup {"nobody"},
                   gone : SUBSET Chunks, allowed : SUBSET Chunks, hits : SUBSET Chunks]
GoneInv == \A c \in ask.gone : c \in used /\ (c \notin rows \/ Home[c] \notin sources)

Reload == [vectors |-> disk.vectors, ids |-> Synced(disk.ids, Len(disk.vectors))]
Of(js) == UNION {ToSet(j.items) : j \in js}
Coming == Of({j \in jobs : j.does # "delete" /\ j.at \in {"start", "name"}})
Waiting == Of({j \in jobs : j.does = "add" /\ j.at = "start"})
Pending == flag \/ tasks > 0 \/ \E j \in jobs : Rebuilds(j) /\ j.at \in {"read", "reset"}
Busy == \E j \in jobs : j.at \in {"name", "save", "sidecar"}
Filed == Intact /\ (disk.dim = 0 => disk = NoFile)
Deleted == \A j \in jobs : j.does = "delete" => ToSet(j.items) \cap rows = {}
Gathered == ~excused /\ store.vectors = <<>> =>
              \A j \in jobs : j.at = "clear" => rows \subseteq ToSet(j.items) \cup Waiting
Indexed == Pending \/ rows \subseteq Found(store) \cup Coming
Restorable == Filed /\ (Pending \/ rows \subseteq Found(Reload) \cup Coming)
Saved == Filed /\ (~Busy => Found(Reload) = Found(store))
MissInv ==
  /\ Deleted /\ Gathered
  /\ ~excused /\ Sure => Indexed
  /\ ~excused /\ ~cut /\ store = NoStore => Restorable
  /\ store # NoStore /\ ~cut /\ ~unsaved /\ ~lagging => Saved
Inv == TypeInv /\ OneRebuild /\ Token /\ Shape /\ Steady /\ AskType /\ GoneInv /\ AnswersOwnAndLive /\ MissInv
-----------------------------------------------------------------------------
(* Stores as values. *)

LEMMA NotAChunk ==
  /\ Blank \notin Chunks /\ "torn" \notin Chunks
BY IndexAssumption

(* Sequences over a set: of its members, at the positions up to the length. *)
LEMMA OverSet ==
  ASSUME NEW U, NEW s, s \in Seq(U)
  PROVE  /\ Len(s) \in Nat /\ DOMAIN s = 1 .. Len(s)
         /\ \A i \in 1 .. Len(s) : s[i] \in U
         /\ ToSet(s) = {s[i] : i \in 1 .. Len(s)} /\ ToSet(s) \subseteq U
BY DEF ToSet

LEMMA Wider ==
  ASSUME NEW U, NEW V, U \subseteq V, NEW s, s \in Seq(U)
  PROVE  s \in Seq(V)
<1>1. \A i \in 1 .. Len(s) : s[i] \in V  BY OverSet
<1>2. s = [i \in 1 .. Len(s) |-> s[i]]  BY OverSet
<1>3. PICK n \in Nat : n = Len(s)  BY OverSet
<1>4. [i \in 1 .. n |-> s[i]] \in Seq(V)  BY <1>1, <1>3
<1> QED BY <1>2, <1>3, <1>4

LEMMA JoinedSeqs ==
  ASSUME NEW U, NEW s, NEW t, s \in Seq(U), t \in Seq(U)
  PROVE  /\ s \o t \in Seq(U) /\ Len(s \o t) = Len(s) + Len(t)
         /\ \A i \in 1 .. Len(s) : (s \o t)[i] = s[i]
         /\ \A i \in 1 .. Len(t) : (s \o t)[Len(s) + i] = t[i]
         /\ \A i \in 1 .. Len(s \o t) : i \notin 1 .. Len(s) =>
              i - Len(s) \in 1 .. Len(t) /\ (s \o t)[i] = t[i - Len(s)]
OBVIOUS

LEMMA Few ==
  ASSUME NEW U, NEW s, s \in Seq(U)
  PROVE  IsFiniteSet(ToSet(s))
<1>1. PICK n \in Nat : n = Len(s)  BY OverSet
<1>2. IsFiniteSet(1 .. n)  BY <1>1, FS_Interval
<1> DEFINE f == [i \in 1 .. n |-> s[i]]
<1>3. f \in Surjection(1 .. n, ToSet(s))
  <2>1. f \in [1 .. n -> ToSet(s)]  BY <1>1, OverSet
  <2>2. \A x \in ToSet(s) : \E i \in 1 .. n : f[i] = x  BY <1>1, OverSet
  <2> QED BY <2>1, <2>2 DEF Surjection
<1> QED BY <1>2, <1>3, FS_Surjection

(* The members of a finite set in some order. *)
LEMMA InAnyOrder ==
  ASSUME NEW S, IsFiniteSet(S)
  PROVE  SetToSeq(S) \in Seq(S) /\ ToSet(SetToSeq(S)) = S
<1>1. PICK n \in Nat : n = Cardinality(S)  BY FS_CardinalityType
<1>2. PICK f \in Bijection(1 .. n, S) : TRUE  BY <1>1, FS_CardinalityType DEF ExistsBijection
<1>3. f \in [1 .. n -> S] /\ IsInjective(f)  BY <1>2 DEF Bijection, Injection
<1> DEFINE g == SetToSeq(S)
<1>4. g \in [1 .. n -> S] /\ IsInjective(g)  BY <1>1, <1>3 DEF SetToSeq
<1>5. IsFiniteSet(1 .. n) /\ Cardinality(1 .. n) = n  BY FS_Interval
<1>6. g \in Injection(1 .. n, S)  BY <1>4 DEF Injection
<1>7. g \in Surjection(1 .. n, S)  BY <1>1, <1>5, <1>6, FS_Injection
<1>8. g \in Seq(S) /\ DOMAIN g = 1 .. n  BY <1>4
<1>9. \A x \in S : \E i \in 1 .. n : g[i] = x  BY <1>7 DEF Surjection
<1> QED BY <1>4, <1>8, <1>9 DEF ToSet

LEMMA Opened ==
  ASSUME NEW U, U \subseteq Chunks, NEW st, st \in Real(U)
  PROVE  /\ st # NoStore /\ st.vectors \in Seq(U) /\ st.vectors # Torn
         /\ st.ids \in Seq(U \cup {Blank}) /\ st = [vectors |-> st.vectors, ids |-> st.ids]
         /\ Ids(st) \subseteq U
<1>1. st.vectors \in Seq(U) /\ st.ids \in Seq(U \cup {Blank})
      /\ st = [vectors |-> st.vectors, ids |-> st.ids]
  BY DEF Real
<1>2. st.vectors # Torn
  <2>1. SUFFICES ASSUME st.vectors = Torn PROVE FALSE  OBVIOUS
  <2>2. Len(Torn) = 1 /\ Torn[1] = "torn"  BY DEF Torn
  <2>3. Torn[1] \in U  BY <1>1, <2>1, <2>2, OverSet
  <2> QED BY <2>2, <2>3, NotAChunk
<1>3. st # NoStore  BY <1>2 DEF NoStore
<1>4. Ids(st) \subseteq U  BY <1>1, OverSet DEF Ids
<1> QED BY <1>1, <1>2, <1>3, <1>4

LEMMA EmptyStore ==
  ASSUME NEW U
  PROVE  Empty \in Real(U) /\ InStep(Empty) /\ Found(Empty) = {} /\ Ids(Empty) = {}
<1>1. Empty \in Real(U)  BY DEF Empty, Real
<1>2. Len(Empty.ids) = 0 /\ Len(Empty.vectors) = 0 /\ DOMAIN Empty.ids = {}  BY DEF Empty
<1>3. Lesser(0, 0) = 0  BY DEF Lesser
<1> QED BY <1>1, <1>2, <1>3 DEF InStep, Found, Ids, ToSet

(* In a store in step every id that is there can be found. *)
LEMMA InStepFinds ==
  ASSUME NEW U, U \subseteq Chunks, NEW st, st \in Real(U), InStep(st)
  PROVE  Found(st) \ {Blank} = Ids(st)
<1>1. st.ids \in Seq(U \cup {Blank}) /\ Len(st.ids) = Len(st.vectors)  BY Opened DEF InStep
<1>2. Lesser(Len(st.ids), Len(st.vectors)) = Len(st.ids)  BY <1>1, OverSet DEF Lesser
<1>3. DOMAIN st.ids = 1 .. Len(st.ids)  BY <1>1, OverSet
<1>4. \A i \in 1 .. Len(st.ids) : st.ids[i] \in {Blank, st.vectors[i]}  BY <1>3 DEF InStep
<1>5. Found(st) = {st.ids[i] : i \in {j \in 1 .. Len(st.ids) : st.ids[j] = st.vectors[j]}}
  BY <1>2 DEF Found
<1>6. ToSet(st.ids) = {st.ids[i] : i \in 1 .. Len(st.ids)}  BY <1>1, OverSet
<1> QED BY <1>4, <1>5, <1>6 DEF Ids

LEMMA GrownFields ==
  ASSUME NEW v, NEW s, NEW x
  PROVE  Grown([vectors |-> v, ids |-> s], x) = [vectors |-> v \o x, ids |-> s]
<1>1. PICK y : y = v \o x  OBVIOUS
<1>2. [vectors |-> v, ids |-> s].vectors = v  OBVIOUS
<1>3. Grown([vectors |-> v, ids |-> s], x) = [[vectors |-> v, ids |-> s] EXCEPT !.vectors = y]
  BY <1>1, <1>2, Zenon DEF Grown
<1> QED BY <1>1, <1>3

LEMMA NamedFields ==
  ASSUME NEW v, NEW s, NEW x
  PROVE  Named([vectors |-> v, ids |-> s], x) = [vectors |-> v, ids |-> s \o x]
<1>1. PICK y : y = s \o x  OBVIOUS
<1>2. [vectors |-> v, ids |-> s].ids = s  OBVIOUS
<1>3. Named([vectors |-> v, ids |-> s], x) = [[vectors |-> v, ids |-> s] EXCEPT !.ids = y]
  BY <1>1, <1>2, Zenon DEF Named
<1> QED BY <1>1, <1>3

LEMMA BlankedFields ==
  ASSUME NEW v, NEW s, NEW x
  PROVE  Blanked([vectors |-> v, ids |-> s], x)
           = [vectors |-> v, ids |-> [i \in DOMAIN s |-> IF s[i] \in x THEN Blank ELSE s[i]]]
<1>1. PICK y : y = [i \in DOMAIN s |-> IF s[i] \in x THEN Blank ELSE s[i]]  OBVIOUS
<1>2. [vectors |-> v, ids |-> s].ids = s  OBVIOUS
<1>3. Blanked([vectors |-> v, ids |-> s], x) = [[vectors |-> v, ids |-> s] EXCEPT !.ids = y]
  BY <1>1, <1>2, Zenon DEF Blanked
<1> QED BY <1>1, <1>3

LEMMA GrownStore ==
  ASSUME NEW U, U \subseteq Chunks, NEW st, st \in Real(U), NEW items, items \in Seq(U)
  PROVE  /\ Grown(st, items) \in Real(U)
         /\ Grown(st, items).ids = st.ids /\ Grown(st, items).vectors = st.vectors \o items
         /\ InStep(st) => InStep(Named(Grown(st, items), items)) /\ Found(st) \subseteq Found(Grown(st, items))
         /\ items # <<>> => Grown(st, items).vectors # <<>>
<1> DEFINE gr == Grown(st, items)
<1> DEFINE nm == Named(gr, items)
<1>1. /\ st.vectors \in Seq(U) /\ st.ids \in Seq(U \cup {Blank}) /\ items \in Seq(U) /\ items \in Seq(U \cup {Blank})
      /\ st = [vectors |-> st.vectors, ids |-> st.ids]
  BY Opened, Wider
<1>2. gr = [vectors |-> st.vectors \o items, ids |-> st.ids]  BY <1>1, GrownFields
<1>a. gr.vectors = st.vectors \o items /\ gr.ids = st.ids  BY <1>2
<1>3. st.vectors \o items \in Seq(U)  BY <1>1
<1>4. gr \in Real(U)  BY <1>1, <1>2, <1>3 DEF Real
<1>5. nm = [vectors |-> st.vectors \o items, ids |-> st.ids \o items]  BY <1>2, NamedFields
<1>6. ASSUME InStep(st) PROVE InStep(nm) /\ Found(st) \subseteq Found(gr)
  <2>1. PICK n \in Nat : n = Len(st.ids) /\ n = Len(st.vectors)  BY <1>1, <1>6, OverSet DEF InStep
  <2>2. PICK m \in Nat : m = Len(items)  BY OverSet
  <2>3. \A i \in 1 .. n : st.ids[i] \in {Blank, st.vectors[i]}
    BY <1>1, <1>6, <2>1, OverSet DEF InStep
  <2> DEFINE v == st.vectors
  <2> DEFINE s == st.ids
  <2> HIDE DEF v, s
  <2>a. v \in Seq(U) /\ n = Len(v) /\ s \in Seq(U \cup {Blank}) /\ n = Len(s)  BY <1>1, <2>1 DEF v, s
  <2>b. Len(v \o items) = n + m /\ \A i \in 1 .. n : (v \o items)[i] = v[i]
    <3>1. v \in Seq(U) /\ items \in Seq(U)  BY <2>a
    <3>2. Len(v \o items) = Len(v) + Len(items) /\ \A i \in 1 .. Len(v) : (v \o items)[i] = v[i]
      BY ONLY <3>1, JoinedSeqs
    <3> QED BY <2>a, <2>2, <3>2
  <2>c. \A i \in 1 .. (n + m) : i \notin 1 .. n => (v \o items)[i] = items[i - n]
    BY <1>1, <2>a, <2>b, <2>2, JoinedSeqs
  <2>d. Len(s \o items) = n + m /\ \A i \in 1 .. n : (s \o items)[i] = s[i]
    BY <1>1, <2>a, <2>2, JoinedSeqs
  <2>e. \A i \in 1 .. (n + m) : i \notin 1 .. n => (s \o items)[i] = items[i - n]
    BY <1>1, <2>a, <2>d, <2>2, JoinedSeqs
  <2>4. Len(st.vectors \o items) = n + m /\ Len(st.ids \o items) = n + m
    BY <2>b, <2>d DEF v, s
  <2>5. \A i \in 1 .. n : (st.vectors \o items)[i] = st.vectors[i] /\ (st.ids \o items)[i] = st.ids[i]
    BY <2>b, <2>d DEF v, s
  <2>6. \A i \in 1 .. (n + m) : i \notin 1 .. n =>
           (st.vectors \o items)[i] = items[i - n] /\ (st.ids \o items)[i] = items[i - n]
    BY <2>c, <2>e DEF v, s
  <2>7. DOMAIN (st.ids \o items) = 1 .. (n + m)  BY <1>1, <2>4, JoinedSeqs, OverSet
  <2>8. \A i \in 1 .. (n + m) : (st.ids \o items)[i] \in {Blank, (st.vectors \o items)[i]}
    BY <2>3, <2>5, <2>6
  <2>9. InStep(nm)  BY <1>5, <2>4, <2>7, <2>8 DEF InStep
  <2>10. Lesser(Len(st.ids), Len(st.vectors)) = n /\ Lesser(Len(gr.ids), Len(gr.vectors)) = n
    BY <1>2, <2>1, <2>2, <2>4 DEF Lesser
  <2>11. \A i \in 1 .. n : gr.ids[i] = st.ids[i] /\ gr.vectors[i] = st.vectors[i]
    BY <1>a, <2>5
  <2>12. Found(st) \subseteq Found(gr)  BY <2>10, <2>11 DEF Found
  <2> QED BY <2>9, <2>12
<1>7. ASSUME items # <<>> PROVE gr.vectors # <<>>
  <2>1. Len(items) # 0 /\ Len(items) \in Nat /\ Len(st.vectors) \in Nat  BY <1>1, <1>7, OverSet
  <2>2. Len(gr.vectors) # 0  BY <1>1, <1>a, <2>1, JoinedSeqs
  <2> QED BY <2>2
<1> QED BY <1>a, <1>4, <1>6, <1>7

LEMMA GrownVectors ==
  ASSUME NEW U, U \subseteq Chunks, NEW st, st \in Real(U), NEW items, items \in Seq(U)
  PROVE  Grown(st, items).vectors = st.vectors \o items
BY GrownStore

LEMMA NotTorn ==
  ASSUME NEW U, U \subseteq Chunks, NEW s, s \in Seq(U \cup {Blank})
  PROVE  s # Torn
<1>1. SUFFICES ASSUME s = Torn PROVE FALSE  OBVIOUS
<1>2. Len(Torn) = 1 /\ Torn[1] = "torn"  BY DEF Torn
<1>3. Torn[1] \in U \cup {Blank}  BY <1>1, <1>2, OverSet
<1>4. "torn" # Blank  BY DEF Blank
<1> QED BY <1>2, <1>3, <1>4, NotAChunk

LEMMA NamedStore ==
  ASSUME NEW U, U \subseteq Chunks, NEW st, st \in Real(U), NEW items, items \in Seq(U)
  PROVE  /\ Named(st, items) \in Real(U) /\ Named(st, items).vectors = st.vectors
         /\ InStep(Named(st, items)) =>
              (Found(st) \cup ToSet(items)) \ {Blank} \subseteq Found(Named(st, items))
<1> DEFINE nm == Named(st, items)
<1>1. /\ st.vectors \in Seq(U) /\ st.ids \in Seq(U \cup {Blank}) /\ items \in Seq(U) /\ items \in Seq(U \cup {Blank})
      /\ st = [vectors |-> st.vectors, ids |-> st.ids]
  BY Opened, Wider
<1>2. nm = [vectors |-> st.vectors, ids |-> st.ids \o items]  BY <1>1, NamedFields
<1>a. nm.vectors = st.vectors /\ nm.ids = st.ids \o items  BY <1>2
<1>3. st.ids \o items \in Seq(U \cup {Blank})  BY <1>1
<1>4. nm \in Real(U)  BY <1>1, <1>2, <1>3 DEF Real
<1>5. ASSUME InStep(nm) PROVE (Found(st) \cup ToSet(items)) \ {Blank} \subseteq Found(nm)
  <2>1. PICK n \in Nat : n = Len(st.ids)  BY <1>1, OverSet
  <2>2. PICK m \in Nat : m = Len(items)  BY OverSet
  <2>3. Len(st.vectors) \in Nat  BY <1>1, OverSet
  <2>4. Lesser(n, Len(st.vectors)) <= n  BY <2>3 DEF Lesser
  <2>5. Found(st) \subseteq {st.ids[i] : i \in 1 .. n}
    <3>1. Lesser(n, Len(st.vectors)) \in Nat  BY <2>3 DEF Lesser
    <3> QED BY <2>1, <2>4, <3>1 DEF Found
  <2>6. \A i \in 1 .. n : (st.ids \o items)[i] = st.ids[i]  BY <1>1, <2>1, JoinedSeqs
  <2>7. \A i \in 1 .. m : (st.ids \o items)[n + i] = items[i]  BY <1>1, <2>1, <2>2, JoinedSeqs
  <2>8. Len(st.ids \o items) = n + m  BY <1>1, <2>1, <2>2, JoinedSeqs
  <2>9. ToSet(nm.ids) = {(st.ids \o items)[i] : i \in 1 .. (n + m)}
    <3>1. ToSet(st.ids \o items) = {(st.ids \o items)[i] : i \in 1 .. Len(st.ids \o items)}
      BY ONLY <1>3, OverSet
    <3> QED BY ONLY <1>a, <2>8, <3>1
  <2>10. Found(st) \subseteq ToSet(nm.ids)
    <3>1. \A i \in 1 .. n : i \in 1 .. (n + m) /\ (st.ids \o items)[i] = st.ids[i]
      <4>1. \A i \in 1 .. n : i \in 1 .. (n + m)  BY <2>2
      <4> QED BY <2>6, <4>1
    <3> QED BY ONLY <2>5, <2>9, <3>1
  <2>11. ToSet(items) = {items[i] : i \in 1 .. m}  BY <2>2, OverSet
  <2>12. \A i \in 1 .. m : n + i \in 1 .. (n + m)  BY <2>1, <2>2
  <2>13. ToSet(items) \subseteq ToSet(nm.ids)  BY <2>7, <2>9, <2>11, <2>12
  <2>14. Found(nm) \ {Blank} = ToSet(nm.ids) \ {Blank}  BY <1>4, <1>5, InStepFinds DEF Ids
  <2> QED BY <2>10, <2>13, <2>14
<1> QED BY <1>a, <1>4, <1>5

LEMMA BlankedStore ==
  ASSUME NEW U, U \subseteq Chunks, NEW st, st \in Real(U), NEW gone
  PROVE  /\ Blanked(st, gone) \in Real(U) /\ Blanked(st, gone).vectors = st.vectors
         /\ InStep(st) => InStep(Blanked(st, gone)) /\ Found(st) \ gone \subseteq Found(Blanked(st, gone))
         /\ gone \cap Ids(st) = {} /\ Blank \notin gone => Blanked(st, gone) = st
         /\ st.ids = <<>> => Blanked(st, gone).ids = <<>>
<1> DEFINE bl == Blanked(st, gone)
<1>1. st.vectors \in Seq(U) /\ st.ids \in Seq(U \cup {Blank})
      /\ st = [vectors |-> st.vectors, ids |-> st.ids]
  BY Opened
<1>2. PICK n \in Nat : n = Len(st.ids)  BY <1>1, OverSet
<1> DEFINE new == [i \in 1 .. n |-> IF st.ids[i] \in gone THEN Blank ELSE st.ids[i]]
<1>3. DOMAIN st.ids = 1 .. n /\ \A i \in 1 .. n : st.ids[i] \in U \cup {Blank}  BY <1>1, <1>2, OverSet
<1>a. Blanked([vectors |-> st.vectors, ids |-> st.ids], gone)
        = [vectors |-> st.vectors,
           ids |-> [i \in DOMAIN st.ids |-> IF st.ids[i] \in gone THEN Blank ELSE st.ids[i]]]
  BY BlankedFields
<1>b. new = [i \in DOMAIN st.ids |-> IF st.ids[i] \in gone THEN Blank ELSE st.ids[i]]  BY <1>3
<1>4. bl = [vectors |-> st.vectors, ids |-> new]  BY ONLY <1>1, <1>a, <1>b
<1>5. new \in Seq(U \cup {Blank}) /\ Len(new) = n /\ DOMAIN new = 1 .. n  BY <1>3
<1>6. bl \in Real(U)  BY <1>1, <1>4, <1>5 DEF Real
<1>7. ASSUME InStep(st) PROVE InStep(bl) /\ Found(st) \ gone \subseteq Found(bl)
  <2>1. Len(st.vectors) = n /\ \A i \in 1 .. n : st.ids[i] \in {Blank, st.vectors[i]}
    BY <1>2, <1>3, <1>7 DEF InStep
  <2>2. InStep(bl)  BY <1>4, <1>5, <2>1 DEF InStep
  <2>3. Lesser(n, n) = n  BY DEF Lesser
  <2>4. \A i \in 1 .. n : st.ids[i] \notin gone => bl.ids[i] = st.ids[i] /\ bl.vectors[i] = st.vectors[i]
    BY <1>4
  <2>5. Found(st) \ gone \subseteq Found(bl)  BY <1>2, <1>4, <1>5, <2>1, <2>3, <2>4 DEF Found
  <2> QED BY <2>2, <2>5
<1>8. ASSUME gone \cap Ids(st) = {}, Blank \notin gone PROVE bl = st
  <2>1. \A i \in 1 .. n : st.ids[i] \notin gone
    BY <1>1, <1>2, <1>8, OverSet DEF Ids
  <2>2. new = st.ids  BY <1>1, <1>2, <1>3, <2>1
  <2> QED BY <1>1, <1>4, <2>2
<1>9. ASSUME st.ids = <<>> PROVE bl.ids = <<>>
  BY <1>2, <1>4, <1>5, <1>9
<1> QED BY <1>4, <1>6, <1>7, <1>8, <1>9

(* A table row for every chunk of a finite set. *)
LEMMA RowedStore ==
  ASSUME NEW U, U \subseteq Chunks, NEW S, S \subseteq U, IsFiniteSet(S)
  PROVE  /\ Rowed(S) \in Real(U) /\ Rowed(S).vectors = Rowed(S).ids
         /\ InStep(Rowed(S)) /\ Ids(Rowed(S)) = S /\ S \subseteq Found(Rowed(S))
<1> DEFINE q == SetToSeq(S)
<1>1. q \in Seq(S) /\ ToSet(q) = S  BY InAnyOrder
<1>2. q \in Seq(U) /\ q \in Seq(U \cup {Blank})  BY <1>1, Wider
<1>3. Rowed(S) = [vectors |-> q, ids |-> q]  BY DEF Rowed
<1>4. Rowed(S) \in Real(U)  BY <1>2, <1>3 DEF Real
<1>5. InStep(Rowed(S))  BY <1>3 DEF InStep
<1>6. Ids(Rowed(S)) = S  BY <1>1, <1>3, NotAChunk DEF Ids
<1>7. Found(Rowed(S)) \ {Blank} = S  BY <1>4, <1>5, <1>6, InStepFinds
<1> QED BY <1>3, <1>4, <1>5, <1>6, <1>7

-----------------------------------------------------------------------------
(* Files read back. *)

PaddedTo(n, s) == \A i \in 1 .. n : Synced(s, n)[i] = IF i <= Len(s) THEN s[i] ELSE Blank

LEMMA SyncedIds ==
  ASSUME NEW U, NEW s, s \in Seq(U \cup {Blank}), NEW n \in Nat
  PROVE  /\ Synced(s, n) \in Seq(U \cup {Blank}) /\ Len(Synced(s, n)) = n
         /\ PaddedTo(n, s)
         /\ Len(s) = n => Synced(s, n) = s
<1>1. PICK m \in Nat : m = Len(s)  BY OverSet
<1>2. \A i \in 1 .. m : s[i] \in U \cup {Blank}  BY <1>1, OverSet
<1>3. s = [i \in 1 .. m |-> s[i]]  BY <1>1, OverSet
<1> USE DEF PaddedTo
<1>4. CASE m >= n
  <2>1. Synced(s, n) = SubSeq(s, 1, n)  BY <1>1, <1>4 DEF Synced
  <2>2. SubSeq(s, 1, n) = [i \in 1 .. n |-> s[i]]  BY <1>1, <1>4
  <2>3. \A i \in 1 .. n : s[i] \in U \cup {Blank} /\ i <= m  BY <1>2, <1>4
  <2>4. [i \in 1 .. n |-> s[i]] \in Seq(U \cup {Blank}) /\ Len([i \in 1 .. n |-> s[i]]) = n
    BY <2>3
  <2> QED BY <1>1, <1>3, <2>1, <2>2, <2>3, <2>4
<1>5. CASE m < n
  <2> DEFINE pad == [i \in 1 .. (n - m) |-> Blank]
  <2>1. Synced(s, n) = s \o pad  BY <1>1, <1>5 DEF Synced
  <2>2. PICK k \in Nat : k = n - m /\ n = m + k  BY <1>5
  <2>3. pad \in Seq(U \cup {Blank}) /\ Len(pad) = k /\ \A i \in 1 .. k : pad[i] = Blank
    BY <2>2
  <2> HIDE DEF pad
  <2>4. s \o pad \in Seq(U \cup {Blank}) /\ Len(s \o pad) = n
    <3>1. s \in Seq(U \cup {Blank})  OBVIOUS
    <3>2. s \o pad \in Seq(U \cup {Blank}) /\ Len(s \o pad) = Len(s) + Len(pad)
      BY ONLY <2>3, <3>1, JoinedSeqs
    <3> QED BY <1>1, <2>2, <2>3, <3>2
  <2>5. \A i \in 1 .. m : (s \o pad)[i] = s[i]  BY <1>1, <2>3, JoinedSeqs
  <2>6. \A i \in 1 .. Len(s \o pad) : i \notin 1 .. m => i - m \in 1 .. Len(pad) /\ (s \o pad)[i] = pad[i - m]
    BY <1>1, <2>3, JoinedSeqs
  <2>7. \A i \in 1 .. n : ~(i <= m) => (s \o pad)[i] = Blank
    BY <2>2, <2>3, <2>4, <2>6
  <2>8. \A i \in 1 .. n : i <= m => (s \o pad)[i] = s[i]
    <3>1. \A i \in 1 .. n : i <= m => i \in 1 .. m  OBVIOUS
    <3> QED BY <2>5, <3>1
  <2> QED BY <1>1, <1>5, <2>1, <2>4, <2>7, <2>8
<1> QED BY <1>1, <1>4, <1>5

LEMMA ReadBack ==
  ASSUME NEW U, U \subseteq Chunks, NEW v, v \in Seq(U), NEW s, s \in Seq(U \cup {Blank})
  PROVE  LET st == [vectors |-> v, ids |-> Synced(s, Len(v))]
         IN  /\ st \in Real(U)
             /\ Fits(s, v) => InStep(st)
             /\ Len(s) = Len(v) => st = [vectors |-> v, ids |-> s]
             /\ s = <<>> => Found(st) = {}
<1> DEFINE st == [vectors |-> v, ids |-> Synced(s, Len(v))]
<1>1. PICK n \in Nat : n = Len(v)  BY OverSet
<1>2. PICK m \in Nat : m = Len(s)  BY OverSet
<1>3. Synced(s, n) \in Seq(U \cup {Blank}) /\ Len(Synced(s, n)) = n  BY SyncedIds
<1>4. \A i \in 1 .. n : Synced(s, n)[i] = IF i <= m THEN s[i] ELSE Blank
  <2>1. s \in Seq(U \cup {Blank}) /\ n \in Nat  OBVIOUS
  <2>2. PaddedTo(n, s)  BY ONLY <2>1, SyncedIds
  <2> QED BY ONLY <1>2, <2>2 DEF PaddedTo
<1>5. st \in Real(U)  BY <1>1, <1>3 DEF Real
<1>6. ASSUME Fits(s, v) PROVE InStep(st)
  <2>1. \A i \in 1 .. m : s[i] \in {Blank, v[i]}  BY <1>2, <1>6, OverSet DEF Fits
  <2>2. DOMAIN Synced(s, n) = 1 .. n  BY <1>3, OverSet
  <2>3. \A i \in 1 .. n : Synced(s, n)[i] \in {Blank, v[i]}  BY <1>4, <2>1
  <2> QED BY <1>1, <1>3, <2>2, <2>3 DEF InStep
<1>7. Len(s) = Len(v) => st = [vectors |-> v, ids |-> s]  BY <1>1, SyncedIds
<1>8. ASSUME s = <<>> PROVE Found(st) = {}
  <2>1. m = 0  BY <1>2, <1>8
  <2>2. \A i \in 1 .. n : st.ids[i] = Blank  BY <1>1, <1>4, <2>1
  <2>3. \A i \in 1 .. n : st.vectors[i] \in Chunks  BY <1>1, OverSet
  <2>4. Lesser(n, n) = n  BY DEF Lesser
  <2>5. {i \in 1 .. n : st.ids[i] = st.vectors[i]} = {}  BY <2>2, <2>3, NotAChunk
  <2>6. Len(st.ids) = n /\ Len(st.vectors) = n  BY <1>1, <1>3
  <2> QED BY <2>4, <2>5, <2>6 DEF Found
<1> QED BY <1>5, <1>6, <1>7, <1>8

LEMMA FitsLonger ==
  ASSUME NEW U, NEW s, NEW v, NEW t, s \in Seq(U \cup {Blank}), v \in Seq(U), t \in Seq(U), Fits(s, v)
  PROVE  Fits(s, v \o t)
<1>1. PICK n \in Nat : n = Len(v)  BY OverSet
<1>2. PICK m \in Nat : m = Len(s)  BY OverSet
<1>3. PICK k \in Nat : k = Len(t)  BY OverSet
<1>4. m <= n /\ \A i \in 1 .. m : s[i] \in {Blank, v[i]}  BY <1>1, <1>2, OverSet DEF Fits
<1>5. Len(v \o t) = n + k /\ \A i \in 1 .. n : (v \o t)[i] = v[i]  BY <1>1, <1>3, JoinedSeqs
<1>6. DOMAIN s = 1 .. m  BY <1>2, OverSet
<1> QED BY <1>2, <1>4, <1>5, <1>6 DEF Fits

LEMMA FitsEmpty ==
  ASSUME NEW U, NEW v, v \in Seq(U)
  PROVE  Fits(<<>>, v)
<1>1. Len(v) \in Nat  BY OverSet
<1>2. Len(<<>>) = 0 /\ DOMAIN <<>> = {}  OBVIOUS
<1> QED BY <1>1, <1>2 DEF Fits

LEMMA InStepFits ==
  ASSUME NEW U, NEW st, st \in Real(U), InStep(st)
  PROVE  Fits(st.ids, st.vectors)
<1>1. Len(st.ids) = Len(st.vectors) /\ Len(st.ids) \in Nat  BY OverSet DEF InStep, Real
<1> QED BY <1>1 DEF Fits, InStep

-----------------------------------------------------------------------------
(* Types. *)

Stages == {"read", "reset", "clear", "start", "name", "save", "sidecar"}

LEMMA Stage ==
  ASSUME NEW U, NEW j, j \in Jobs(U), NEW where, where \in Stages
  PROVE  /\ [j EXCEPT !.at = where] \in Jobs(U)
         /\ [j EXCEPT !.at = where].does = j.does /\ [j EXCEPT !.at = where].items = j.items
         /\ [j EXCEPT !.at = where].at = where
BY DEF Jobs, Stages

LEMMA JobFields ==
  ASSUME NEW U, NEW j, j \in Jobs(U)
  PROVE  /\ j.does \in {"add", "delete", "manual", "auto"} /\ j.items \in Seq(U) /\ j.at \in Stages
BY DEF Jobs, Stages

LEMMA ModelIsNatural == ASSUME TypeInv PROVE model \in Nat /\ model # 0
BY IndexAssumption DEF TypeInv

LEMMA FileFields ==
  ASSUME NEW U, NEW d, d \in Files(U)
  PROVE  /\ d.dim \in Nat /\ d.vectors \in Seq(U) \cup {Torn} /\ d.ids \in Seq(U \cup {Blank}) \cup {Torn}
         /\ d = [dim |-> d.dim, vectors |-> d.vectors, ids |-> d.ids]
BY DEF Files

LEMMA AFile ==
  ASSUME NEW U, NEW n, NEW v, NEW s, n \in Nat, v \in Seq(U) \cup {Torn}, s \in Seq(U \cup {Blank}) \cup {Torn}
  PROVE  [dim |-> n, vectors |-> v, ids |-> s] \in Files(U)
BY DEF Files

(* A store read back from the files. *)
LEMMA Reloaded ==
  ASSUME TypeInv, Intact
  PROVE  /\ Reload \in Real(used)
         /\ Fits(disk.ids, disk.vectors) => InStep(Reload)
         /\ Len(disk.ids) = Len(disk.vectors) => Reload = [vectors |-> disk.vectors, ids |-> disk.ids]
         /\ disk.ids = <<>> => Found(Reload) = {}
         /\ Reload.vectors = disk.vectors
<1>1. used \subseteq Chunks /\ disk \in Files(used)  BY DEF TypeInv
<1>2. disk.vectors \in Seq(used) /\ disk.ids \in Seq(used \cup {Blank})  BY <1>1, FileFields DEF Intact
<1>3. Reload = [vectors |-> disk.vectors, ids |-> Synced(disk.ids, Len(disk.vectors))]  BY DEF Reload
<1> DEFINE v == disk.vectors
<1> DEFINE s == disk.ids
<1> DEFINE st == [vectors |-> v, ids |-> Synced(s, Len(v))]
<1>4. /\ st \in Real(used) /\ (Fits(s, v) => InStep(st))
      /\ (Len(s) = Len(v) => st = [vectors |-> v, ids |-> s]) /\ (s = <<>> => Found(st) = {})
  <2> HIDE DEF v, s
  <2>1. v \in Seq(used) /\ s \in Seq(used \cup {Blank})  BY <1>2 DEF v, s
  <2> QED BY ONLY <1>1, <2>1, ReadBack
<1> QED BY <1>3, <1>4

(* A transaction of the table. *)
LEMMA Transacted ==
  ASSUME TypeInv, store # NoStore, NEW items, items \in Seq(used), NEW gone
  PROVE  /\ Upserted(store, items) \in Real(used) /\ Upserted(store, items).vectors = Upserted(store, items).ids
         /\ InStep(Upserted(store, items)) /\ Ids(store) \cup ToSet(items) \subseteq Found(Upserted(store, items))
         /\ Removed(store, gone) \in Real(used) /\ Removed(store, gone).vectors = Removed(store, gone).ids
         /\ InStep(Removed(store, gone)) /\ Ids(store) \ gone \subseteq Found(Removed(store, gone))
<1>1. store \in Real(used) /\ used \subseteq Chunks /\ IsFiniteSet(used)  BY DEF TypeInv
<1>2. Ids(store) \subseteq used  BY <1>1, Opened
<1>3. ToSet(items) \subseteq used  BY OverSet
<1>4. Ids(store) \cup ToSet(items) \subseteq used /\ Ids(store) \ gone \subseteq used  BY <1>2, <1>3
<1>5. IsFiniteSet(Ids(store) \cup ToSet(items)) /\ IsFiniteSet(Ids(store) \ gone)  BY <1>1, <1>4, FS_Subset
<1>6. Upserted(store, items) = Rowed(Ids(store) \cup ToSet(items))  BY DEF Upserted
<1>7. Removed(store, gone) = Rowed(Ids(store) \ gone)  BY DEF Removed
<1>8. /\ Rowed(Ids(store) \cup ToSet(items)) \in Real(used)
      /\ Rowed(Ids(store) \cup ToSet(items)).vectors = Rowed(Ids(store) \cup ToSet(items)).ids
      /\ InStep(Rowed(Ids(store) \cup ToSet(items)))
      /\ Ids(store) \cup ToSet(items) \subseteq Found(Rowed(Ids(store) \cup ToSet(items)))
  BY ONLY <1>1, <1>4, <1>5, RowedStore
<1>9. /\ Rowed(Ids(store) \ gone) \in Real(used)
      /\ Rowed(Ids(store) \ gone).vectors = Rowed(Ids(store) \ gone).ids
      /\ InStep(Rowed(Ids(store) \ gone)) /\ Ids(store) \ gone \subseteq Found(Rowed(Ids(store) \ gone))
  BY ONLY <1>1, <1>4, <1>5, RowedStore
<1> QED BY <1>6, <1>7, <1>8, <1>9

LEMMA RealOf == ASSUME TypeInv, store # NoStore PROVE store \in Real(used) /\ used \subseteq Chunks
BY DEF TypeInv

(* What is written to the files or the table. *)
LEMMA TableFile ==
  ASSUME TypeInv, NEW st, st \in Real(used)
  PROVE  [dim |-> model, vectors |-> st.vectors, ids |-> st.ids] \in Files(used)
<1>1. st.vectors \in Seq(used) /\ st.ids \in Seq(used \cup {Blank})  BY Opened DEF TypeInv
<1> QED BY <1>1, ModelIsNatural, AFile

LEMMA JobOf ==
  ASSUME TypeInv, NEW j \in jobs
  PROVE  /\ j \in Jobs(used) /\ j.items \in Seq(used) /\ ToSet(j.items) \subseteq used /\ j.at \in Stages
         /\ j.does \in {"add", "delete", "manual", "auto"}
BY JobFields, OverSet DEF TypeInv

LEMMA NewJob ==
  ASSUME NEW U, NEW s, s \in Seq(U), NEW does, does \in {"add", "delete", "manual", "auto"},
         NEW where, where \in Stages
  PROVE  Job(does, s, where) \in Jobs(U)
BY DEF Job, Jobs, Stages

LEMMA NoItems == ASSUME NEW U PROVE <<>> \in Seq(U)
OBVIOUS

(* The jobs a step leaves. *)
LEMMA JobsTyped ==
  ASSUME TypeInv, NEW j \in jobs, NEW where, where \in Stages
  PROVE  Goes(j, where) \subseteq Jobs(used) /\ jobs \ {j} \subseteq Jobs(used)
BY JobOf, Stage DEF Goes, TypeInv

LEMMA JobTypes ==
  ASSUME TypeInv, NEW j \in jobs, JobStep(j) \/ JobFails(j) \/ SaveFails(j)
  PROVE  jobs' \subseteq Jobs(used)
<1> USE JobsTyped DEF Stages
<1>1. CASE JobFails(j)  BY <1>1 DEF JobFails
<1>2. CASE ReadRows(j)
  <2>1. CASE rows = {}  BY <1>2, <2>1 DEF ReadRows, Ends
  <2>2. CASE rows # {}
    <3>1. IsFiniteSet(rows) /\ rows \subseteq used  BY FS_Subset DEF TypeInv
    <3>2. SetToSeq(rows) \in Seq(used)  BY <3>1, InAnyOrder, Wider
    <3>3. [j EXCEPT !.items = SetToSeq(rows), !.at = "reset"] \in Jobs(used)
      <4>1. PICK s : s = SetToSeq(rows)  OBVIOUS
      <4>2. s \in Seq(used) /\ j \in Jobs(used)  BY <3>2, <4>1, JobOf
      <4>3. [j EXCEPT !.items = s, !.at = "reset"] \in Jobs(used)  BY ONLY <4>2 DEF Jobs
      <4> QED BY <4>1, <4>3
    <3> QED BY <1>2, <2>2, <3>3 DEF ReadRows, TypeInv
  <2> QED BY <2>1, <2>2
<1>3. CASE Reset(j)  BY <1>3 DEF Reset
<1>4. CASE Clear(j)  BY <1>4 DEF Clear
<1>5. CASE Grow(j)  BY <1>5 DEF Grow
<1>6. CASE Name(j)  BY <1>6 DEF Name
<1>7. CASE Blot(j)  BY <1>7 DEF Blot
<1>8. CASE WriteIndex(j)  BY <1>8 DEF WriteIndex
<1>9. CASE WriteIds(j)  BY <1>9 DEF WriteIds, Ends
<1>10. CASE Upsert(j)  BY <1>10 DEF Upsert, Ends
<1>11. CASE SaveFails(j)  BY <1>11 DEF SaveFails
<1> QED BY <1>1, <1>2, <1>3, <1>4, <1>5, <1>6, <1>7, <1>8, <1>9, <1>10, <1>11 DEF JobStep

(* A save that fails: what it leaves of the files, and all it leaves alone. *)
LEMMA SaveFailed ==
  ASSUME TypeInv, NEW j \in jobs, SaveFails(j)
  PROVE  /\ j.at \in {"save", "sidecar"} /\ jobs' = jobs \ {j} /\ lagging'
         /\ UNCHANGED <<sources, rows, used, deleting, backend, model, store, tasks, ask, cut, unsaved, excused>>
         /\ disk' \in Files(used) /\ disk'.dim = disk.dim
         /\ disk'.vectors \in {disk.vectors, Torn} /\ disk'.ids \in {disk.ids, Torn}
         /\ j.at = "sidecar" \/ WriteLocked => disk'.vectors = disk.vectors
         /\ IF j.does = "auto" THEN flag' /\ retries' = retries + 1 ELSE UNCHANGED <<flag, retries>>
<1>1. /\ j.at \in {"save", "sidecar"} /\ jobs' = jobs \ {j} /\ lagging'
      /\ UNCHANGED <<sources, rows, used, deleting, backend, model, store, tasks, ask, cut, unsaved, excused>>
      /\ IF j.does = "auto" THEN flag' /\ retries' = retries + 1 ELSE UNCHANGED <<flag, retries>>
  BY DEF SaveFails, database, fixed, auto
<1>2. disk \in Files(used)  BY DEF TypeInv
<1>3. CASE disk' = disk  BY <1>1, <1>2, <1>3
<1>4. CASE j.at = "save" /\ ~WriteLocked /\ disk' = [disk EXCEPT !.vectors = Torn]
  BY <1>1, <1>2, <1>4 DEF Files
<1>5. CASE j.at = "sidecar" /\ disk' = [disk EXCEPT !.ids = Torn]
  BY <1>1, <1>2, <1>5 DEF Files
<1> QED BY <1>3, <1>4, <1>5 DEF SaveFails

(* A job needs an open store from its reset or its vectors on. *)
Served == \A j \in jobs : j.at \in {"reset", "clear", "name", "save", "sidecar"} => store # NoStore

(* The store and the files a job leaves; an open store stays open. *)
LEMMA StoreTypes ==
  ASSUME TypeInv, Served, NEW j \in jobs, JobStep(j) \/ JobFails(j) \/ SaveFails(j)
  PROVE  /\ store' \in Real(used) \cup {NoStore} /\ disk' \in Files(used)
         /\ store # NoStore => store' \in Real(used)
         /\ store = NoStore => store' = NoStore
<1>0. /\ store \in Real(used) \cup {NoStore} /\ disk \in Files(used) /\ used \subseteq Chunks
      /\ j.items \in Seq(used)
  BY JobOf DEF TypeInv
<1>1. CASE JobFails(j)  BY <1>0, <1>1 DEF JobFails
<1>2. CASE ReadRows(j)  BY <1>0, <1>2 DEF ReadRows
<1>3. CASE Reset(j)
  <2>1. store # NoStore  BY <1>3 DEF Reset, Served
  <2>2. store \in Real(used)  BY <2>1, RealOf
  <2>3. CASE backend = "faiss"
    <3>1. store' = [store EXCEPT !.vectors = <<>>] /\ disk' = disk  BY <1>3, <2>3 DEF Reset
    <3>2. store' \in Real(used)  BY <2>2, <3>1, NoItems DEF Real
    <3> QED BY <1>0, <2>1, <3>1, <3>2
  <2>4. CASE backend # "faiss"
    <3>1. /\ store' = Removed(store, ToSet(j.items))
          /\ disk' = [dim |-> model, vectors |-> store'.vectors, ids |-> store'.ids]
      BY <1>3, <2>4 DEF Reset
    <3>2. store' \in Real(used)  BY <1>0, <2>1, <3>1, Transacted
    <3>3. disk' \in Files(used)  BY <3>1, <3>2, TableFile
    <3> QED BY <2>1, <3>2, <3>3
  <2> QED BY <2>3, <2>4
<1>4. CASE Clear(j)
  <2>1. store # NoStore  BY <1>4 DEF Clear, Served
  <2>2. store \in Real(used)  BY <2>1, RealOf
  <2>3. store' = [store EXCEPT !.ids = <<>>] /\ disk' = disk  BY <1>4 DEF Clear
  <2>4. store' \in Real(used)  BY <2>2, <2>3, NoItems DEF Real
  <2> QED BY <1>0, <2>1, <2>3, <2>4
<1>5. CASE Grow(j)
  <2>1. store # NoStore /\ store' = Grown(store, j.items) /\ disk' = disk  BY <1>5 DEF Grow
  <2>2. store' \in Real(used)  BY <1>0, <2>1, RealOf, GrownStore
  <2> QED BY <1>0, <2>1, <2>2
<1>6. CASE Name(j)
  <2>1. store # NoStore /\ store' = Named(store, j.items) /\ disk' = disk  BY <1>6 DEF Name, Served
  <2>2. store' \in Real(used)  BY <1>0, <2>1, RealOf, NamedStore
  <2> QED BY <1>0, <2>1, <2>2
<1>7. CASE Blot(j)
  <2>1. store # NoStore /\ store' = Blanked(store, ToSet(j.items)) /\ disk' = disk  BY <1>7 DEF Blot
  <2>2. store' \in Real(used)  BY <1>0, <2>1, RealOf, BlankedStore
  <2> QED BY <1>0, <2>1, <2>2
<1>8. CASE WriteIndex(j)
  <2>1. /\ store # NoStore /\ store' = store
        /\ disk' = [disk EXCEPT !.dim = model, !.vectors = store.vectors]
    BY <1>8 DEF WriteIndex, Served
  <2>2. store.vectors \in Seq(used)  BY <2>1, RealOf, Opened
  <2>3. disk' \in Files(used)  BY <1>0, <2>1, <2>2, ModelIsNatural DEF Files
  <2> QED BY <1>0, <2>1, <2>3
<1>9. CASE WriteIds(j)
  <2>1. store # NoStore /\ store' = store /\ disk' = [disk EXCEPT !.ids = store.ids]
    BY <1>9 DEF WriteIds, Served
  <2>2. store.ids \in Seq(used \cup {Blank})  BY <2>1, RealOf, Opened
  <2>3. disk' \in Files(used)  BY <1>0, <2>1, <2>2 DEF Files
  <2> QED BY <1>0, <2>1, <2>3
<1>10. CASE Upsert(j)
  <2>1. /\ store # NoStore
        /\ store' = IF j.does = "delete" THEN Removed(store, ToSet(j.items)) ELSE Upserted(store, j.items)
        /\ disk' = [dim |-> model, vectors |-> store'.vectors, ids |-> store'.ids]
    BY <1>10 DEF Upsert
  <2>2. store' \in Real(used)  BY <1>0, <2>1, Transacted
  <2>3. disk' \in Files(used)  BY <2>1, <2>2, TableFile
  <2> QED BY <2>1, <2>2, <2>3
<1>11. CASE SaveFails(j)  BY <1>0, <1>11, SaveFailed
<1> QED BY <1>1, <1>2, <1>3, <1>4, <1>5, <1>6, <1>7, <1>8, <1>9, <1>10, <1>11 DEF JobStep

LEMMA JobFrame ==
  ASSUME TypeInv, NEW j \in jobs, JobStep(j) \/ JobFails(j) \/ SaveFails(j)
  PROVE  UNCHANGED <<sources, rows, used, deleting, backend, model, tasks, ask>>
<1> USE DEF database, fixed, auto, history
<1>1. CASE JobFails(j)  BY <1>1, JobOf DEF JobFails, Loses
<1>2. CASE ReadRows(j)  BY <1>2 DEF ReadRows
<1>3. CASE Reset(j)  BY <1>3 DEF Reset
<1>4. CASE Clear(j)  BY <1>4 DEF Clear
<1>5. CASE Grow(j)  BY <1>5 DEF Grow
<1>6. CASE Name(j)  BY <1>6 DEF Name
<1>7. CASE Blot(j)  BY <1>7 DEF Blot
<1>8. CASE WriteIndex(j)  BY <1>8 DEF WriteIndex
<1>9. CASE WriteIds(j)  BY <1>9 DEF WriteIds
<1>10. CASE Upsert(j)  BY <1>10 DEF Upsert
<1>11. CASE SaveFails(j)  BY <1>11, SaveFailed
<1> QED BY <1>1, <1>2, <1>3, <1>4, <1>5, <1>6, <1>7, <1>8, <1>9, <1>10, <1>11 DEF JobStep

(* Requests, questions and the starts of rebuilds touch no store. *)
LEMMA CalmFrame ==
  ASSUME \/ \E b \in Batches : Upload(b) \/ AddEntry(b)
         \/ \E s \in Sources : DeleteRead(s) \/ DeleteCommit(s)
         \/ Rebuild \/ AutoRebuild \/ OtherAsk \/ (\E t \in Tenants : Ask(t)) \/ Answer
  PROVE  UNCHANGED <<backend, model, store, disk, cut, unsaved>> /\ LoopFree
BY DEF Upload, AddEntry, Committed, DeleteRead, DeleteCommit, Rebuild, AutoRebuild, OtherAsk, Ask, Answer,
       MaybeAutoRebuild, database, fixed, auto, history

LEMMA WiderStore ==
  ASSUME NEW U, NEW V, U \subseteq V
  PROVE  /\ \A st \in Real(U) : st \in Real(V)
         /\ \A d \in Files(U) : d \in Files(V)
         /\ \A j \in Jobs(U) : j \in Jobs(V)
<1>0. U \cup {Blank} \subseteq V \cup {Blank}  OBVIOUS
<1>1. ASSUME NEW st \in Real(U) PROVE st \in Real(V)
  <2>1. st.vectors \in Seq(V) /\ st.ids \in Seq(V \cup {Blank})  BY <1>0, Wider DEF Real
  <2> QED BY <2>1 DEF Real
<1>2. ASSUME NEW d \in Files(U) PROVE d \in Files(V)
  <2>1. d.vectors \in Seq(V) \cup {Torn} /\ d.ids \in Seq(V \cup {Blank}) \cup {Torn}
    BY <1>0, Wider DEF Files
  <2> QED BY <2>1 DEF Files
<1>3. ASSUME NEW j \in Jobs(U) PROVE j \in Jobs(V)
  <2>1. j.items \in Seq(V)  BY Wider DEF Jobs
  <2> QED BY <2>1 DEF Jobs
<1> QED BY <1>1, <1>2, <1>3

LEMMA CommittedTypes ==
  ASSUME TypeInv, NEW b \in Batches, Committed(b)
  PROVE  TypeInv'
<1>1. b \in Seq(Chunks) /\ b # <<>>  BY IndexAssumption
<1>2. ToSet(b) \subseteq Chunks /\ IsFiniteSet(ToSet(b))  BY <1>1, OverSet, Few
<1>3. b[1] \in Chunks
  <2>1. Len(b) # 0 /\ Len(b) \in Nat  BY <1>1, OverSet
  <2>2. 1 \in 1 .. Len(b)  BY <2>1
  <2> QED BY <1>1, <2>2, OverSet
<1>4. /\ sources' = sources \cup {Home[b[1]]} /\ rows' = rows \cup ToSet(b) /\ used' = used \cup ToSet(b)
      /\ jobs' = jobs \cup {Job("add", b, "start")}
      /\ UNCHANGED <<deleting, backend, model, store, disk>>
  BY DEF Committed, fixed, auto, history
<1>5. sources' \subseteq Sources  BY <1>3, <1>4, IndexAssumption DEF TypeInv
<1>6. rows' \subseteq used' /\ used' \subseteq Chunks /\ used \subseteq used'  BY <1>2, <1>4 DEF TypeInv
<1>7. IsFiniteSet(used')  BY <1>2, <1>4, FS_Union DEF TypeInv
<1>8. \A s \in DOMAIN deleting' : deleting'[s] \subseteq used'  BY <1>4, <1>6 DEF TypeInv
<1>9. store' \in Real(used') \cup {NoStore} /\ disk' \in Files(used')
  BY <1>4, <1>6, WiderStore DEF TypeInv
<1>10. b \in Seq(used')
  <2>1. b \in Seq(ToSet(b))
    <3>1. PICK n \in Nat : n = Len(b)  BY <1>1, OverSet
    <3>2. b = [i \in 1 .. n |-> b[i]]  BY <1>1, <3>1, OverSet
    <3>3. \A i \in 1 .. n : b[i] \in ToSet(b)  BY <1>1, <3>1, OverSet
    <3>4. [i \in 1 .. n |-> b[i]] \in Seq(ToSet(b))  BY <3>3
    <3> QED BY <3>2, <3>4
  <2>2. ToSet(b) \subseteq used'  BY <1>4
  <2> QED BY <2>1, <2>2, Wider
<1>11. Job("add", b, "start") \in Jobs(used')  BY <1>10, NewJob DEF Stages
<1>12. jobs' \subseteq Jobs(used')  BY <1>4, <1>6, <1>11, WiderStore DEF TypeInv
<1> QED BY <1>4, <1>5, <1>6, <1>7, <1>8, <1>9, <1>12 DEF TypeInv

LEMMA TypeStep ==
  ASSUME TypeInv, Served, Next
  PROVE  TypeInv'
<1>1. ASSUME NEW b \in Batches, Upload(b) \/ AddEntry(b) PROVE TypeInv'
  BY <1>1, CommittedTypes DEF Upload, AddEntry
<1>2. ASSUME NEW s \in Sources, DeleteRead(s) PROVE TypeInv'
  <2>1. UNCHANGED <<sources, rows, used, backend, model, store, disk, jobs>>
    BY <1>2 DEF DeleteRead, fixed
  <2>2. deleting' = [x \in DOMAIN deleting \cup {s} |->
                       IF x = s THEN {c \in rows : Home[c] = s} ELSE deleting[x]]
    BY <1>2 DEF DeleteRead
  <2>3. \A x \in DOMAIN deleting' : deleting'[x] \subseteq used  BY <2>2 DEF TypeInv
  <2> QED BY <2>1, <2>3 DEF TypeInv
<1>3. ASSUME NEW s \in Sources, DeleteCommit(s) PROVE TypeInv'
  <2>1. /\ UNCHANGED <<used, backend, model, store, disk>> /\ sources' \subseteq sources /\ rows' \subseteq rows
        /\ s \in DOMAIN deleting
    BY <1>3 DEF DeleteCommit, fixed
  <2>2. \A x \in DOMAIN deleting' : deleting'[x] \subseteq used  BY <1>3 DEF DeleteCommit, TypeInv
  <2>3. IsFiniteSet(deleting[s]) /\ deleting[s] \subseteq used  BY <2>1, FS_Subset DEF TypeInv
  <2>4. SetToSeq(deleting[s]) \in Seq(used)  BY <2>3, InAnyOrder, Wider
  <2>5. Job("delete", SetToSeq(deleting[s]), "start") \in Jobs(used)  BY <2>4, NewJob DEF Stages
  <2>6. jobs' \subseteq jobs \cup {Job("delete", SetToSeq(deleting[s]), "start")}
    BY <1>3 DEF DeleteCommit
  <2>7. jobs' \subseteq Jobs(used)  BY <2>5, <2>6 DEF TypeInv
  <2> QED BY <2>1, <2>2, <2>7 DEF TypeInv
<1>4. ASSUME OpenStore PROVE TypeInv'
  <2>1. UNCHANGED <<sources, rows, used, deleting, backend, model, disk, jobs>>
    BY <1>4 DEF OpenStore, database, fixed
  <2>2. store' = (IF Readable /\ ~Mismatch THEN Reload ELSE Empty)  BY <1>4 DEF OpenStore, Reload
  <2>3. store' \in Real(used)  BY <2>2, EmptyStore, Reloaded DEF Readable, Intact
  <2> QED BY <2>1, <2>3 DEF TypeInv
<1>5. ASSUME NEW j \in jobs, JobStep(j) \/ JobFails(j) \/ SaveFails(j) PROVE TypeInv'
  <2>1. UNCHANGED <<sources, rows, used, deleting, backend, model>>  BY <1>5, JobFrame
  <2>2. store' \in Real(used) \cup {NoStore} /\ disk' \in Files(used)  BY <1>5, StoreTypes
  <2>3. jobs' \subseteq Jobs(used)  BY <1>5, JobTypes
  <2> QED BY <2>1, <2>2, <2>3 DEF TypeInv
<1>6. ASSUME Rebuild \/ AutoRebuild \/ OtherAsk \/ (\E t \in Tenants : Ask(t)) \/ Answer PROVE TypeInv'
  <2>1. UNCHANGED <<sources, rows, used, deleting, backend, model, store, disk>>
    BY <1>6 DEF Rebuild, AutoRebuild, OtherAsk, Ask, Answer, database, fixed
  <2>2. jobs' \subseteq jobs \cup {Job("manual", <<>>, "read"), Job("auto", <<>>, "read")}
    BY <1>6 DEF Rebuild, AutoRebuild, OtherAsk, Ask, Answer
  <2>3. jobs' \subseteq Jobs(used)  BY <2>2, NoItems, NewJob DEF TypeInv, Stages
  <2> QED BY <2>1, <2>3 DEF TypeInv
<1>7. ASSUME NEW m \in Models, Restart(m) PROVE TypeInv'
  <2>1. /\ UNCHANGED <<sources, rows, used, backend>> /\ deleting' = <<>> /\ model' \in {m, model}
        /\ store' = NoStore /\ jobs' = {}
        /\ disk' \in {disk, [disk EXCEPT !.vectors = Torn], [disk EXCEPT !.ids = Torn]}
    BY <1>7 DEF Restart
  <2>2. disk' \in Files(used)  BY <2>1 DEF TypeInv, Files
  <2>3. DOMAIN deleting' = {}  BY <2>1
  <2> QED BY <2>1, <2>2, <2>3 DEF TypeInv
<1> QED BY <1>1, <1>2, <1>3, <1>4, <1>5, <1>6, <1>7 DEF Next

-----------------------------------------------------------------------------
(* One rebuild at a time, and few automatic ones. *)

(* A job moves on to its next stage, or is over. *)
Onward(j, k) == /\ k \in Jobs(used) /\ k.does = j.does
                /\ jobs' = (jobs \ {j}) \cup {k} \/ jobs' = jobs \ {j}

LEMMA JobMoves ==
  ASSUME TypeInv, NEW j \in jobs, JobStep(j)
  PROVE  \E k : Onward(j, k)
<1>a. ASSUME NEW where \in Stages, jobs' = Goes(j, where) PROVE \E k : Onward(j, k)
  <2>1. j \in Jobs(used)  BY JobOf
  <2>2. [j EXCEPT !.at = where] \in Jobs(used) /\ [j EXCEPT !.at = where].does = j.does
    BY <2>1, Stage
  <2>3. Onward(j, [j EXCEPT !.at = where])  BY <1>a, <2>2 DEF Onward, Goes
  <2> QED BY <2>3
<1>b. ASSUME jobs' = jobs \ {j} PROVE \E k : Onward(j, k)
  <2>1. Onward(j, j)  BY <1>b, JobOf DEF Onward
  <2> QED BY <2>1
<1> USE <1>a, <1>b DEF Stages
<1>1. CASE ReadRows(j)
  <2>1. CASE rows = {}  BY <1>1, <2>1 DEF ReadRows, Ends
  <2>2. CASE rows # {}
    <3>1. PICK s : s = SetToSeq(rows)  OBVIOUS
    <3>2. IsFiniteSet(rows) /\ rows \subseteq used  BY FS_Subset DEF TypeInv
    <3>3. s \in Seq(used)  BY <3>1, <3>2, InAnyOrder, Wider
    <3>4. j \in Jobs(used)  BY JobOf
    <3>5. [j EXCEPT !.items = s, !.at = "reset"] \in Jobs(used)
          /\ [j EXCEPT !.items = s, !.at = "reset"].does = j.does
      BY ONLY <3>3, <3>4 DEF Jobs
    <3>6. jobs' = (jobs \ {j}) \cup {[j EXCEPT !.items = s, !.at = "reset"]}
      BY <1>1, <2>2, <3>1 DEF ReadRows
    <3> QED BY <3>5, <3>6 DEF Onward
  <2> QED BY <2>1, <2>2
<1>2. CASE Reset(j)  BY <1>2 DEF Reset
<1>3. CASE Clear(j)  BY <1>3 DEF Clear
<1>4. CASE Grow(j)  BY <1>4 DEF Grow
<1>5. CASE Name(j)  BY <1>5 DEF Name
<1>6. CASE Blot(j)  BY <1>6 DEF Blot
<1>7. CASE WriteIndex(j)  BY <1>7 DEF WriteIndex
<1>8. CASE WriteIds(j)  BY <1>8 DEF WriteIds, Ends
<1>9. CASE Upsert(j)  BY <1>9 DEF Upsert, Ends
<1> QED BY <1>1, <1>2, <1>3, <1>4, <1>5, <1>6, <1>7, <1>8, <1>9 DEF JobStep

LEMMA JobTokens ==
  ASSUME TypeInv, NEW j \in jobs, JobStep(j)
  PROVE  /\ UNCHANGED <<flag, tasks>>
         /\ \/ retries' = retries
            \/ retries' = 0 /\ j.does = "auto" /\ jobs' = jobs \ {j}
<1> USE DEF auto, Ends
<1>1. CASE ReadRows(j)  BY <1>1 DEF ReadRows
<1>2. CASE Reset(j)  BY <1>2 DEF Reset
<1>3. CASE Clear(j)  BY <1>3 DEF Clear
<1>4. CASE Grow(j)  BY <1>4 DEF Grow
<1>5. CASE Name(j)  BY <1>5 DEF Name
<1>6. CASE Blot(j)  BY <1>6 DEF Blot
<1>7. CASE WriteIndex(j)  BY <1>7 DEF WriteIndex
<1>8. CASE WriteIds(j)  BY <1>8 DEF WriteIds
<1>9. CASE Upsert(j)  BY <1>9 DEF Upsert
<1> QED BY <1>1, <1>2, <1>3, <1>4, <1>5, <1>6, <1>7, <1>8, <1>9 DEF JobStep

LEMMA StaysOpen ==
  ASSUME TypeInv, Served, NEW j \in jobs, JobStep(j) \/ JobFails(j) \/ SaveFails(j), store # NoStore
  PROVE  store' # NoStore
<1>1. store' \in Real(used) /\ used \subseteq Chunks  BY StoreTypes DEF TypeInv
<1> QED BY ONLY <1>1, Opened

LEMMA TokenStep ==
  ASSUME TypeInv, Served, OneRebuild, Token, Next
  PROVE  OneRebuild' /\ Token'
<1>0. MaxAutoRetries \in Nat  BY IndexAssumption
<1>1. ASSUME NEW b \in Batches, Upload(b) \/ AddEntry(b) PROVE OneRebuild' /\ Token'
  <2>1. /\ UNCHANGED <<store, flag, retries, tasks>>
        /\ jobs' = jobs \cup {Job("add", b, "start")}
    BY <1>1 DEF Upload, AddEntry, Committed, auto
  <2>2. Job("add", b, "start").does = "add"  BY DEF Job
  <2> QED BY <2>1, <2>2 DEF OneRebuild, Token, NoAuto, Rebuilds
<1>2. ASSUME NEW s \in Sources, DeleteRead(s) PROVE OneRebuild' /\ Token'
  <2>1. UNCHANGED <<store, flag, retries, tasks, jobs>>  BY <1>2 DEF DeleteRead, auto
  <2> QED BY <2>1 DEF OneRebuild, Token, NoAuto
<1>3. ASSUME NEW s \in Sources, DeleteCommit(s) PROVE OneRebuild' /\ Token'
  <2>1. /\ UNCHANGED <<store, flag, retries, tasks>>
        /\ jobs' \subseteq jobs \cup {Job("delete", SetToSeq(deleting[s]), "start")} /\ jobs \subseteq jobs'
    BY <1>3 DEF DeleteCommit, auto
  <2>2. Job("delete", SetToSeq(deleting[s]), "start").does = "delete"  BY DEF Job
  <2> QED BY <2>1, <2>2 DEF OneRebuild, Token, NoAuto, Rebuilds
<1>4. ASSUME OpenStore PROVE OneRebuild' /\ Token'
  <2>1. UNCHANGED <<jobs, retries, tasks>> /\ store = NoStore /\ flag' = (flag \/ Mismatch)
    BY <1>4 DEF OpenStore
  <2>2. store' = (IF Readable /\ ~Mismatch THEN Reload ELSE Empty)  BY <1>4 DEF OpenStore, Reload
  <2>3. store' \in Real(used) /\ used \subseteq Chunks
    BY <2>2, EmptyStore, Reloaded DEF Readable, Intact, TypeInv
  <2>4. store' # NoStore  BY ONLY <2>3, Opened
  <2>5. Mismatch \in BOOLEAN  BY DEF Mismatch
  <2>6. flag' \in BOOLEAN /\ tasks = 0 /\ NoAuto  BY <2>1, <2>5 DEF Token
  <2> QED BY <2>1, <2>4, <2>6 DEF OneRebuild, Token, NoAuto
<1>5. ASSUME NEW j \in jobs, JobStep(j) PROVE OneRebuild' /\ Token'
  <2>1. PICK k : /\ k \in Jobs(used) /\ k.does = j.does
                 /\ jobs' = (jobs \ {j}) \cup {k} \/ jobs' = jobs \ {j}
    BY <1>5, JobMoves DEF Onward
  <2>2. OneRebuild'  BY <2>1 DEF OneRebuild, Rebuilds
  <2>3. NoAuto => NoAuto'  BY <2>1 DEF NoAuto
  <2>4. store' = NoStore => store = NoStore  BY <1>5, StaysOpen
  <2>5. UNCHANGED <<flag, tasks>>  BY <1>5, JobTokens
  <2>6. CASE retries' = retries  BY <2>2, <2>3, <2>4, <2>5, <2>6 DEF Token
  <2>7. CASE retries' = 0 /\ j.does = "auto" /\ jobs' = jobs \ {j}
    <3>1. NoAuto'  BY <2>7 DEF NoAuto, OneRebuild, Rebuilds
    <3>2. ~NoAuto  BY <2>7 DEF NoAuto
    <3> QED BY <1>0, <2>2, <2>3, <2>4, <2>5, <2>7, <3>1, <3>2 DEF Token
  <2> QED BY <1>5, <2>6, <2>7, JobTokens
<1>6. ASSUME NEW j \in jobs, JobFails(j) \/ SaveFails(j) PROVE OneRebuild' /\ Token'
  <2>1. jobs' = jobs \ {j} /\ store' = store /\ tasks' = tasks
    BY <1>6, JobFrame, SaveFailed DEF JobFails
  <2>2. OneRebuild' /\ (NoAuto => NoAuto')  BY <2>1 DEF OneRebuild, NoAuto
  <2>3. CASE j.does = "auto"
    <3>1. flag' = TRUE /\ retries' = retries + 1  BY <1>6, <2>3 DEF JobFails, SaveFails, Loses
    <3>2. NoAuto' /\ ~NoAuto  BY <2>1, <2>3 DEF NoAuto, OneRebuild, Rebuilds
    <3>3. retries < MaxAutoRetries /\ retries \in 0 .. MaxAutoRetries /\ tasks = 0 /\ store # NoStore
      BY <3>2 DEF Token
    <3>4. retries' \in 0 .. MaxAutoRetries  BY <1>0, <3>1, <3>3
    <3> QED BY <2>1, <2>2, <3>1, <3>2, <3>3, <3>4 DEF Token
  <2>4. CASE j.does # "auto"
    <3>1. flag' = flag /\ retries' = retries  BY <1>6, <2>4, JobOf DEF JobFails, SaveFails, Loses, auto
    <3> QED BY <2>1, <2>2, <3>1 DEF Token
  <2> QED BY <2>3, <2>4
<1>7. ASSUME Rebuild PROVE OneRebuild' /\ Token'
  <2>1. /\ UNCHANGED <<store, flag, retries, tasks>> /\ ~Rebuilding
        /\ jobs' = jobs \cup {Job("manual", <<>>, "read")}
    BY <1>7 DEF Rebuild, auto
  <2>2. Job("manual", <<>>, "read").does = "manual"  BY DEF Job
  <2>3. OneRebuild'  BY <2>1, <2>2 DEF OneRebuild, Rebuilding
  <2>4. NoAuto => NoAuto'  BY <2>1, <2>2 DEF NoAuto
  <2> QED BY <2>1, <2>3, <2>4 DEF Token
<1>8. ASSUME AutoRebuild PROVE OneRebuild' /\ Token'
  <2>1. /\ UNCHANGED <<store, flag, retries>> /\ tasks > 0 /\ tasks' = tasks - 1
        /\ jobs' = IF Rebuilding THEN jobs ELSE jobs \cup {Job("auto", <<>>, "read")}
    BY <1>8 DEF AutoRebuild
  <2>2. tasks = 1 /\ ~flag /\ NoAuto /\ retries < MaxAutoRetries /\ store # NoStore  BY <2>1 DEF Token
  <2>3. OneRebuild'  BY <2>1 DEF OneRebuild, Rebuilding
  <2> QED BY <2>1, <2>2, <2>3 DEF Token
<1>9. ASSUME MaybeAutoRebuild, UNCHANGED <<store, jobs>> PROVE OneRebuild' /\ Token'
  <2>1. OneRebuild' /\ (NoAuto' <=> NoAuto)  BY <1>9 DEF OneRebuild, NoAuto
  <2>2. CASE ~flag  BY <1>9, <2>1, <2>2 DEF MaybeAutoRebuild, auto, Token
  <2>3. CASE flag
    <3>1. flag' = FALSE /\ tasks = 0 /\ NoAuto /\ store # NoStore
      BY <1>9, <2>3 DEF MaybeAutoRebuild, Token
    <3>2. CASE retries >= MaxAutoRetries
      <4>1. retries' = 0 /\ tasks' = 0  BY <1>9, <2>3, <3>1, <3>2 DEF MaybeAutoRebuild
      <4>2. retries' \in 0 .. MaxAutoRetries /\ tasks' \in {0, 1}
        BY <1>0, <3>1, <4>1
      <4>a. flag' \in BOOLEAN  BY ONLY <3>1
      <4>3. store' # NoStore /\ NoAuto'  BY <1>9, <2>1, <3>1
      <4> QED BY <2>1, <3>1, <4>a, <4>1, <4>2, <4>3 DEF Token
    <3>3. CASE ~(retries >= MaxAutoRetries)
      <4>1. retries' = retries /\ tasks' = 1  BY <1>9, <2>3, <3>1, <3>3 DEF MaybeAutoRebuild
      <4>2. /\ retries' \in 0 .. MaxAutoRetries /\ retries' < MaxAutoRetries
            /\ tasks' \in {0, 1}
        BY <1>0, <3>1, <3>3, <4>1 DEF Token
      <4>a. flag' \in BOOLEAN  BY ONLY <3>1
      <4>3. store' # NoStore /\ NoAuto'  BY <1>9, <2>1, <3>1
      <4> QED BY <2>1, <3>1, <4>a, <4>1, <4>2, <4>3 DEF Token
    <3> QED BY <3>2, <3>3
  <2> QED BY <2>2, <2>3 DEF Token
<1>10. ASSUME OtherAsk \/ (\E t \in Tenants : Ask(t)) PROVE OneRebuild' /\ Token'
  BY <1>9, <1>10 DEF OtherAsk, Ask
<1>11. ASSUME Answer PROVE OneRebuild' /\ Token'
  <2>1. UNCHANGED <<store, flag, retries, tasks, jobs>>  BY <1>11 DEF Answer, auto
  <2> QED BY <2>1 DEF OneRebuild, Token, NoAuto
<1>12. ASSUME NEW m \in Models, Restart(m) PROVE OneRebuild' /\ Token'
  <2>1. jobs' = {} /\ flag' = FALSE /\ retries' = 0 /\ tasks' = 0  BY <1>12 DEF Restart
  <2>2. OneRebuild' /\ NoAuto'  BY <2>1 DEF OneRebuild, NoAuto
  <2>3. retries' \in 0 .. MaxAutoRetries /\ tasks' \in {0, 1}
    BY <1>0, <2>1
  <2>4. flag' \in BOOLEAN  BY ONLY <2>1
  <2> QED BY <2>1, <2>2, <2>3, <2>4 DEF Token
<1> QED BY <1>1, <1>2, <1>3, <1>4, <1>5, <1>6, <1>7, <1>8, <1>10, <1>11, <1>12 DEF Next

-----------------------------------------------------------------------------
(* The stages of the jobs. *)

LEMMA ServedOf == ASSUME Shape PROVE Served
BY DEF Shape, Staged, Served

LEMMA StageOf == ASSUME Shape, NEW j \in jobs PROVE Staged(j)
BY DEF Shape

(* From its first stage to its reset or its clearing a job is the one rebuild. *)
LEMMA TheRebuild ==
  ASSUME Shape, OneRebuild, NEW j \in jobs, j.at \in {"read", "reset", "clear"}, NEW k \in jobs \ {j}
  PROVE  Rebuilds(j) /\ ~Rebuilds(k) /\ k.at \notin {"read", "reset", "clear"}
BY StageOf DEF Staged, OneRebuild

LEMMA WriterMoves ==
  ASSUME OneWriter, NEW j \in jobs, NEW k, jobs' = (jobs \ {j}) \cup {k} \/ jobs' = jobs \ {j},
         k.at \notin {"name", "sidecar"} \/ ~WriteLocked
  PROVE  OneWriter'
BY DEF OneWriter, WriteLocked

LEMMA Reset1 ==
  ASSUME NEW j \in jobs, Reset(j)
  PROVE  IF backend = "faiss"
         THEN unsaved' /\ store' = [store EXCEPT !.vectors = <<>>] /\ disk' = disk /\ jobs' = Goes(j, "clear")
         ELSE /\ ~unsaved' /\ store' = Removed(store, ToSet(j.items)) /\ jobs' = Goes(j, "start")
              /\ disk' = [dim |-> model, vectors |-> store'.vectors, ids |-> store'.ids]
BY DEF Reset

(* The jobs that do not move keep what is said of them. *)
LEMMA OthersStay ==
  ASSUME TypeInv, OneRebuild, Shape, NEW j \in jobs, JobStep(j) \/ JobFails(j) \/ SaveFails(j), NEW k \in jobs \ {j}
  PROVE  Staged(k)'
<1>0. Staged(k) /\ Served /\ backend' = backend  BY StageOf, ServedOf, JobFrame
<1>1. store # NoStore => store' # NoStore  BY <1>0, StaysOpen
<1>2. k.at = "clear" => unsaved'
  <2>1. SUFFICES ASSUME k.at = "clear" PROVE unsaved'  OBVIOUS
  <2>2. unsaved /\ j.at \notin {"read", "reset", "clear"} /\ Writing("clear")
    BY <1>0, <2>1, TheRebuild DEF Staged, Writing
  <2>3. CASE JobFails(j) \/ SaveFails(j)  BY <2>2, <2>3, SaveFailed DEF JobFails
  <2>4. CASE Grow(j) \/ Name(j) \/ Blot(j)  BY <2>2, <2>4 DEF Grow, Name, Blot, history
  <2>5. CASE WriteIndex(j) \/ Upsert(j)  BY <2>2, <2>5 DEF WriteIndex, Upsert, history
  <2>6. CASE WriteIds(j)  BY <2>2, <2>6 DEF WriteIds
  <2> QED BY <2>2, <2>3, <2>4, <2>5, <2>6 DEF JobStep, ReadRows, Reset, Clear
<1>3. k.at = "sidecar" => disk'.dim # 0 /\ disk'.vectors # Torn
  <2>1. SUFFICES ASSUME k.at = "sidecar" PROVE disk'.dim # 0 /\ disk'.vectors # Torn  OBVIOUS
  <2>2. disk.dim # 0 /\ disk.vectors # Torn /\ backend = "faiss" /\ WriteLocked /\ store # NoStore
    BY <1>0, <2>1 DEF Staged, WriteLocked
  <2>3. CASE JobFails(j) \/ ReadRows(j)  BY <2>2, <2>3 DEF JobFails, ReadRows
  <2>4. CASE Reset(j)  BY <2>2, <2>4, Reset1
  <2>5. CASE Clear(j)  BY <2>2, <2>5 DEF Clear
  <2>6. CASE Name(j) \/ Blot(j)  BY <2>2, <2>6 DEF Name, Blot
  <2>7. CASE WriteIds(j)
    <3>1. disk \in Files(used) /\ disk' = [disk EXCEPT !.ids = store.ids]  BY <2>7 DEF WriteIds, TypeInv
    <3>2. disk'.dim = disk.dim /\ disk'.vectors = disk.vectors  BY <3>1 DEF Files
    <3> QED BY <2>2, <3>2
  <2>8. CASE SaveFails(j)  BY <2>2, <2>8, SaveFailed
  <2> QED BY <2>2, <2>3, <2>4, <2>5, <2>6, <2>7, <2>8 DEF JobStep, Grow, WriteIndex, Upsert
<1> QED BY <1>0, <1>1, <1>2, <1>3 DEF Staged, Rebuilds

(* The job that moves. *)
LEMMA MoverStays ==
  ASSUME TypeInv, OneRebuild, Shape, NEW j \in jobs, JobStep(j)
  PROVE  OneWriter' /\ \A k \in jobs' \ (jobs \ {j}) : Staged(k)'
<1>0. /\ j \in Jobs(used) /\ Staged(j) /\ Served /\ OneWriter /\ backend' = backend
      /\ store # NoStore => store' # NoStore
  BY JobOf, StageOf, ServedOf, JobFrame, StaysOpen DEF Shape
<1>a. ASSUME NEW where \in Stages, jobs' = Goes(j, where), where \notin {"name", "sidecar"} \/ ~WriteLocked,
             where \notin {"read", "reset"}, j.at # "read",
             backend = "faiss" \/ where = "start",
             where # "start" => store # NoStore,
             where = "clear" => unsaved' /\ j.at = "reset",
             where = "sidecar" => disk'.dim # 0 /\ disk'.vectors # Torn
      PROVE  OneWriter' /\ \A k \in jobs' \ (jobs \ {j}) : Staged(k)'
  <2> DEFINE k == [j EXCEPT !.at = where]
  <2>1. k.does = j.does /\ k.items = j.items /\ k.at = where  BY <1>0, Stage
  <2> HIDE DEF k
  <2>2. jobs' = (jobs \ {j}) \cup {k}  BY <1>a DEF Goes, k
  <2>3. OneWriter'  BY <1>0, <1>a, <2>1, <2>2, WriterMoves
  <2>4. Staged(k)'  BY <1>0, <1>a, <2>1 DEF Staged, Rebuilds
  <2> QED BY <2>2, <2>3, <2>4
<1>b. ASSUME jobs' = jobs \ {j} PROVE OneWriter' /\ \A k \in jobs' \ (jobs \ {j}) : Staged(k)'
  BY <1>0, <1>b DEF OneWriter
<1>1. CASE ReadRows(j)
  <2>1. CASE rows = {}  BY <1>1, <1>b, <2>1 DEF ReadRows, Ends
  <2>2. CASE rows # {}
    <3>1. PICK s : s = SetToSeq(rows)  OBVIOUS
    <3>2. IsFiniteSet(rows) /\ rows \subseteq used  BY FS_Subset DEF TypeInv
    <3>3. s \in Seq(rows) /\ ToSet(s) = rows  BY <3>1, <3>2, InAnyOrder
    <3>4. s # <<>>
      <4>1. ToSet(<<>>) = {}  BY DEF ToSet
      <4> QED BY <2>2, <3>3, <4>1
    <3> DEFINE k == [j EXCEPT !.items = s, !.at = "reset"]
    <3>5. k.does = j.does /\ k.items = s /\ k.at = "reset"  BY ONLY <1>0 DEF Jobs
    <3> HIDE DEF k
    <3>6. jobs' = (jobs \ {j}) \cup {k} /\ store' = store /\ store # NoStore /\ j.at = "read"
      BY <1>1, <2>2, <3>1 DEF ReadRows, k
    <3>7. OneWriter'  BY <1>0, <3>5, <3>6, WriterMoves
    <3>8. Staged(k)'  BY <1>0, <3>4, <3>5, <3>6 DEF Staged, Rebuilds
    <3> QED BY <3>6, <3>7, <3>8
  <2> QED BY <2>1, <2>2
<1>2. CASE Reset(j)
  <2>1. j.at = "reset" /\ store # NoStore  BY <1>0, <1>2 DEF Reset, Staged
  <2>2. CASE backend = "faiss"
    <3>1. unsaved' /\ jobs' = Goes(j, "clear")  BY <1>2, <2>2, Reset1
    <3> QED BY <1>a, <2>1, <2>2, <3>1 DEF Stages
  <2>3. CASE backend # "faiss"
    <3>1. jobs' = Goes(j, "start")  BY <1>2, <2>3, Reset1
    <3> QED BY <1>a, <2>1, <3>1 DEF Stages
  <2> QED BY <2>2, <2>3
<1>3. CASE Clear(j)
  <2>1. j.at = "clear" /\ jobs' = Goes(j, "start")  BY <1>3 DEF Clear
  <2> QED BY <1>a, <2>1 DEF Stages
<1>4. CASE Grow(j)
  <2>1. j.at = "start" /\ jobs' = Goes(j, "name") /\ ~WriteLocked /\ backend = "faiss" /\ store # NoStore
    BY <1>4 DEF Grow
  <2> QED BY <1>a, <2>1 DEF Stages
<1>5. CASE Name(j)
  <2>1. j.at = "name" /\ jobs' = Goes(j, "save")  BY <1>5 DEF Name
  <2>2. store # NoStore /\ backend = "faiss"  BY <1>0, <2>1 DEF Staged
  <2> QED BY <1>a, <2>1, <2>2 DEF Stages
<1>6. CASE Blot(j)
  <2>1. j.at = "start" /\ backend = "faiss" /\ store # NoStore /\ (jobs' = Goes(j, "save") \/ jobs' = jobs \ {j})
    BY <1>6 DEF Blot
  <2> QED BY <1>a, <1>b, <2>1 DEF Stages
<1>7. CASE WriteIndex(j)
  <2>1. /\ j.at = "save" /\ jobs' = Goes(j, "sidecar") /\ ~WriteLocked
        /\ disk' = [disk EXCEPT !.dim = model, !.vectors = store.vectors]
    BY <1>7 DEF WriteIndex
  <2>2. store # NoStore /\ backend = "faiss"  BY <1>0, <2>1 DEF Staged
  <2>3. store.vectors # Torn  BY <2>2, RealOf, Opened
  <2>4. disk'.dim = model /\ disk'.vectors = store.vectors  BY <2>1 DEF TypeInv, Files
  <2> QED BY <1>a, <2>1, <2>2, <2>3, <2>4, ModelIsNatural DEF Stages
<1>8. CASE WriteIds(j)  BY <1>8, <1>b DEF WriteIds, Ends
<1>9. CASE Upsert(j)  BY <1>9, <1>b DEF Upsert, Ends
<1> QED BY <1>1, <1>2, <1>3, <1>4, <1>5, <1>6, <1>7, <1>8, <1>9 DEF JobStep

Even == backend # "faiss" => store.vectors = store.ids /\ disk.vectors = disk.ids

LEMMA EvenStays ==
  ASSUME TypeInv, Shape, NEW j \in jobs, JobStep(j) \/ JobFails(j) \/ SaveFails(j)
  PROVE  Even'
<1>1. SUFFICES ASSUME backend # "faiss" PROVE store'.vectors = store'.ids /\ disk'.vectors = disk'.ids
  BY JobFrame DEF Even
<1>2. store.vectors = store.ids /\ disk.vectors = disk.ids /\ j.at \in {"read", "reset", "start"}
  BY <1>1, StageOf DEF Shape, Staged
<1>3. CASE JobFails(j) \/ ReadRows(j)  BY <1>2, <1>3 DEF JobFails, ReadRows
<1>4. CASE Reset(j)
  <2>1. /\ store' = Removed(store, ToSet(j.items)) /\ store # NoStore /\ j.items \in Seq(used)
        /\ disk' = [dim |-> model, vectors |-> store'.vectors, ids |-> store'.ids]
    BY <1>1, <1>4, Reset1, StageOf, JobOf DEF Reset, Staged
  <2>2. store'.vectors = store'.ids  BY <2>1, Transacted
  <2> QED BY <2>1, <2>2
<1>5. CASE Upsert(j)
  <2>1. /\ store # NoStore /\ j.items \in Seq(used)
        /\ store' = IF j.does = "delete" THEN Removed(store, ToSet(j.items)) ELSE Upserted(store, j.items)
        /\ disk' = [dim |-> model, vectors |-> store'.vectors, ids |-> store'.ids]
    BY <1>5, JobOf DEF Upsert
  <2>2. store'.vectors = store'.ids  BY <2>1, Transacted
  <2> QED BY <2>1, <2>2
<1> QED BY <1>1, <1>2, <1>3, <1>4, <1>5 DEF JobStep, SaveFails, Clear, Grow, Name, Blot, WriteIndex, WriteIds

LEMMA ShapeStep ==
  ASSUME TypeInv, OneRebuild, Shape, Next
  PROVE  Shape'
<1>1. ASSUME NEW j \in jobs, JobStep(j) PROVE Shape'
  <2>1. \A k \in jobs \ {j} : Staged(k)'  BY <1>1, OthersStay
  <2>2. OneWriter' /\ \A k \in jobs' \ (jobs \ {j}) : Staged(k)'  BY <1>1, MoverStays
  <2>3. Even'  BY <1>1, EvenStays
  <2>4. \A k \in jobs' : Staged(k)'  BY <2>1, <2>2
  <2> QED BY <2>2, <2>3, <2>4 DEF Shape, Even
<1>2. ASSUME NEW j \in jobs, JobFails(j) \/ SaveFails(j) PROVE Shape'
  <2>1. \A k \in jobs \ {j} : Staged(k)'  BY <1>2, OthersStay
  <2>2. jobs' = jobs \ {j}  BY <1>2 DEF JobFails, SaveFails
  <2>3. Even'  BY <1>2, EvenStays
  <2>4. OneWriter'  BY <2>2 DEF OneWriter, Shape
  <2> QED BY <2>1, <2>2, <2>3, <2>4 DEF Shape, Even
<1>3. ASSUME UNCHANGED <<backend, store, disk, unsaved>>,
             \A k \in jobs' \ jobs : k.at \in {"read", "start"} /\ (k.items = <<>> => k.at = "read")
                                       /\ (k.at = "read" => Rebuilds(k))
      PROVE  Shape'
  <2>1. OneWriter'  BY <1>3 DEF OneWriter, Shape
  <2>2. \A k \in jobs' : Staged(k)'  BY <1>3 DEF Staged, Shape
  <2> QED BY <1>3, <2>1, <2>2 DEF Shape
<1>4. ASSUME NEW b \in Batches, Upload(b) \/ AddEntry(b) PROVE Shape'
  <2>1. UNCHANGED <<backend, store, disk, unsaved>> /\ jobs' = jobs \cup {Job("add", b, "start")}
    BY <1>4 DEF Upload, AddEntry, Committed, fixed, history
  <2>2. Job("add", b, "start").at = "start" /\ Job("add", b, "start").items # <<>>
    BY IndexAssumption DEF Job
  <2> QED BY <1>3, <2>1, <2>2
<1>5. ASSUME NEW s \in Sources, DeleteRead(s) PROVE Shape'
  BY <1>3, <1>5 DEF DeleteRead, fixed, history
<1>6. ASSUME NEW s \in Sources, DeleteCommit(s) PROVE Shape'
  <2>1. UNCHANGED <<backend, store, disk, unsaved>> /\ s \in DOMAIN deleting
    BY <1>6 DEF DeleteCommit, fixed, history
  <2>2. CASE deleting[s] = {}  BY <1>3, <1>6, <2>1, <2>2 DEF DeleteCommit
  <2>3. CASE deleting[s] # {}
    <3>1. PICK q : q = SetToSeq(deleting[s])  OBVIOUS
    <3>2. IsFiniteSet(deleting[s])  BY <2>1, FS_Subset DEF TypeInv
    <3>3. ToSet(q) = deleting[s]  BY <3>1, <3>2, InAnyOrder
    <3>4. q # <<>>
      <4>1. ToSet(<<>>) = {}  BY DEF ToSet
      <4> QED BY <2>3, <3>3, <4>1
    <3>5. jobs' = jobs \cup {Job("delete", q, "start")}  BY <1>6, <2>3, <3>1 DEF DeleteCommit
    <3>6. Job("delete", q, "start").at = "start" /\ Job("delete", q, "start").items = q  BY DEF Job
    <3> QED BY <1>3, <2>1, <3>4, <3>5, <3>6
  <2> QED BY <2>2, <2>3
<1>7. ASSUME OpenStore PROVE Shape'
  <2>1. UNCHANGED <<backend, disk, jobs>> /\ store = NoStore  BY <1>7 DEF OpenStore, fixed
  <2>2. store' = (IF Readable /\ ~Mismatch THEN Reload ELSE Empty)  BY <1>7 DEF OpenStore, Reload
  <2>3. \A k \in jobs : k.at \notin {"reset", "clear", "name", "save", "sidecar"}
    BY <2>1, StageOf DEF Staged
  <2>4. \A k \in jobs : Staged(k)'  BY <2>1, <2>3, StageOf DEF Staged
  <2>5. ASSUME backend # "faiss" PROVE store'.vectors = store'.ids
    <3>1. CASE Readable
      <4>1. disk.vectors = disk.ids  BY <2>5 DEF Shape
      <4>2. Reload = [vectors |-> disk.vectors, ids |-> disk.ids]
        BY <3>1, <4>1, Reloaded DEF Readable, Intact
      <4>3. store' = Reload \/ store' = Empty  BY <2>2
      <4> QED BY <4>1, <4>2, <4>3 DEF Empty
    <3>2. CASE ~Readable  BY <2>2, <3>2 DEF Empty
    <3> QED BY <3>1, <3>2
  <2> QED BY <2>1, <2>4, <2>5 DEF Shape, OneWriter
<1>8. ASSUME Rebuild PROVE Shape'
  <2>1. UNCHANGED <<backend, store, disk, unsaved>> /\ jobs' = jobs \cup {Job("manual", <<>>, "read")}
    BY <1>8 DEF Rebuild, fixed, history
  <2> QED BY <1>3, <2>1 DEF Job, Rebuilds
<1>9. ASSUME AutoRebuild PROVE Shape'
  <2>1. UNCHANGED <<backend, store, disk, unsaved>> /\ jobs' \subseteq jobs \cup {Job("auto", <<>>, "read")}
    BY <1>9 DEF AutoRebuild, fixed, history
  <2>2. OneWriter'
    <3>1. Job("auto", <<>>, "read").at = "read"  BY DEF Job
    <3> QED BY <2>1, <3>1 DEF OneWriter, Shape
  <2> QED BY <1>3, <2>1 DEF Job, Rebuilds
<1>10. ASSUME OtherAsk \/ (\E t \in Tenants : Ask(t)) \/ Answer PROVE Shape'
  BY <1>3, <1>10 DEF OtherAsk, Ask, Answer, fixed, history
<1>11. ASSUME NEW m \in Models, Restart(m) PROVE Shape'
  <2>1. /\ jobs' = {} /\ store' = NoStore /\ backend' = backend
        /\ disk' \in {disk}
             \cup (IF Writing("save") /\ ~WriteLocked THEN {[disk EXCEPT !.vectors = Torn]} ELSE {})
             \cup (IF Writing("sidecar") THEN {[disk EXCEPT !.ids = Torn]} ELSE {})
    BY <1>11 DEF Restart
  <2>2. backend # "faiss" => ~Writing("save") /\ ~Writing("sidecar")  BY StageOf DEF Staged, Writing
  <2>3. backend # "faiss" => disk' = disk  BY <2>1, <2>2
  <2> QED BY <2>1, <2>3 DEF Shape, OneWriter, NoStore
<1> QED BY <1>1, <1>2, <1>4, <1>5, <1>6, <1>7, <1>8, <1>9, <1>10, <1>11 DEF Next

-----------------------------------------------------------------------------
(* Positions and files keep in step. *)

Acting == {j \in jobs : j.at \in {"name", "clear", "sidecar"}}

LEMMA SteadyFrame ==
  ASSUME Steady, UNCHANGED <<store, disk, cut, unsaved>>, Acting' = Acting
  PROVE  Steady'
<1>1. \A k \in jobs' : k.at = "name" => k \in jobs  BY DEF Acting
<1>2. /\ Writing("name")' <=> Writing("name")
      /\ Writing("clear")' <=> Writing("clear")
      /\ Writing("sidecar")' <=> Writing("sidecar")
  BY DEF Acting, Writing
<1>3. Sure' <=> Sure  BY <1>2 DEF Sure
<1>4. Intact' <=> Intact  BY DEF Intact
<1> QED BY <1>1, <1>2, <1>3, <1>4 DEF Steady

(* The one that holds the lock. *)
LEMMA TheWriter ==
  ASSUME Shape, NEW j \in jobs, j.at \in {"name", "sidecar"}, NEW k \in jobs \ {j}
  PROVE  k.at \notin {"name", "sidecar"}
<1>1. OneWriter  BY DEF Shape
<1> QED BY <1>1 DEF OneWriter

(* The stages after a job moved. *)
LEMMA WritingMoves ==
  ASSUME TypeInv, NEW j \in jobs, NEW where, where \in Stages, jobs' = Goes(j, where)
  PROVE  /\ \A x : Writing(x)' <=> x = where \/ \E k \in jobs \ {j} : k.at = x
         /\ \A k \in jobs' : k \in jobs \ {j} \/ (k.at = where /\ k.items = j.items /\ k.does = j.does)
<1>1. j \in Jobs(used)  BY JobOf
<1> DEFINE k == [j EXCEPT !.at = where]
<1>2. k.at = where /\ k.items = j.items /\ k.does = j.does  BY <1>1, Stage
<1>3. jobs' = (jobs \ {j}) \cup {k}  BY DEF Goes
<1> HIDE DEF k
<1> QED BY <1>2, <1>3 DEF Writing

LEMMA OpenAt ==
  ASSUME TypeInv, Shape, NEW j \in jobs, j.at \in {"reset", "clear", "name", "save", "sidecar"}
  PROVE  store # NoStore /\ store \in Real(used) /\ used \subseteq Chunks
BY StageOf, RealOf DEF Staged

LEMMA SteadyReset ==
  ASSUME TypeInv, Shape, Steady, NEW j \in jobs, Reset(j)
  PROVE  Steady'
<1>1. j.at = "reset" /\ store # NoStore /\ store \in Real(used) /\ used \subseteq Chunks /\ j.items \in Seq(used)
  BY OpenAt, JobOf DEF Reset
<1>2. store' # NoStore  BY <1>1, ServedOf, StaysOpen DEF JobStep
<1>3. CASE backend = "faiss"
  <2>1. unsaved' /\ jobs' = Goes(j, "clear")  BY <1>3, Reset1
  <2>2. Writing("clear")'  BY <2>1, WritingMoves DEF Stages
  <2> QED BY <1>2, <2>1, <2>2 DEF Steady, Sure
<1>4. CASE backend # "faiss"
  <2>1. /\ store' = Removed(store, ToSet(j.items)) /\ jobs' = Goes(j, "start")
        /\ disk' = [dim |-> model, vectors |-> store'.vectors, ids |-> store'.ids]
    BY <1>4, Reset1
  <2>2. InStep(store') /\ store' \in Real(used) /\ store'.vectors = store'.ids  BY <1>1, <2>1, Transacted
  <2>3. disk'.vectors = store'.vectors /\ disk'.ids = store'.ids  BY <2>1
  <2>4. store'.vectors # Torn  BY <1>1, <2>2, Opened
  <2>5. Fits(store'.ids, store'.vectors)  BY <2>2, InStepFits
  <2>6. \A k \in jobs \ {j} : k.at \notin {"name", "sidecar"}  BY <1>4, StageOf DEF Staged
  <2>7. \A k \in jobs' : k.at \notin {"name", "sidecar"}  BY <2>1, <2>6, WritingMoves DEF Stages
  <2>8. ~Writing("name")' /\ ~Writing("sidecar")'  BY <2>7 DEF Writing
  <2>9. Intact'  BY <2>2, <2>3, <2>4 DEF Intact
  <2> QED BY <1>2, <2>2, <2>3, <2>5, <2>7, <2>8, <2>9 DEF Steady
<1> QED BY <1>3, <1>4

LEMMA SteadyClear ==
  ASSUME TypeInv, OneRebuild, Shape, Steady, NEW j \in jobs, Clear(j)
  PROVE  Steady'
<1>1. j.at = "clear" /\ store # NoStore /\ store \in Real(used) /\ used \subseteq Chunks
  BY OpenAt DEF Clear
<1>2. store' # NoStore  BY <1>1, ServedOf, StaysOpen DEF JobStep
<1>3. /\ store' = [store EXCEPT !.ids = <<>>] /\ cut' = (store.vectors # <<>> \/ \E k \in jobs : k.at = "name")
      /\ jobs' = Goes(j, "start") /\ unsaved' = unsaved
  BY DEF Clear, history
<1>4. unsaved  BY <1>1, StageOf DEF Staged
<1>5. store'.ids = <<>> /\ store'.vectors = store.vectors  BY <1>1, <1>3 DEF Real
<1>6. ASSUME ~cut' PROVE InStep(store') /\ \A k \in jobs' : k.at # "name"
  <2>1. store.vectors = <<>> /\ \A k \in jobs : k.at # "name"  BY <1>3, <1>6
  <2>2. store' = Empty  BY <1>1, <1>3, <2>1 DEF Real, Empty
  <2>3. InStep(store')  BY <2>2, EmptyStore
  <2>4. \A k \in jobs' : k.at # "name"  BY <1>3, <2>1, WritingMoves DEF Stages
  <2> QED BY <2>3, <2>4
<1>7. Sure' => InStep(store') /\ \A k \in jobs' : k.at # "name"  BY <1>6 DEF Sure
<1> QED BY <1>2, <1>3, <1>4, <1>5, <1>7 DEF Steady

LEMMA SteadyGrow ==
  ASSUME TypeInv, Shape, Steady, NEW j \in jobs, Grow(j)
  PROVE  Steady'
<1>1. /\ store # NoStore /\ ~WriteLocked /\ store' = Grown(store, j.items) /\ jobs' = Goes(j, "name")
      /\ j.at = "start" /\ UNCHANGED <<disk, cut, unsaved>>
  BY DEF Grow, history
<1>2. store \in Real(used) /\ used \subseteq Chunks /\ j.items \in Seq(used) /\ disk \in Files(used)
  BY <1>1, RealOf, JobOf DEF TypeInv
<1>3. store' # NoStore  BY <1>1, ServedOf, StaysOpen DEF JobStep
<1>4. \A k \in jobs : k.at \notin {"name", "sidecar"}  BY <1>1 DEF WriteLocked
<1>5. /\ Writing("name")' /\ ~Writing("sidecar")' /\ (Writing("clear")' <=> Writing("clear"))
      /\ \A k \in jobs' : k.at = "name" => k.items = j.items
  BY <1>1, <1>4, WritingMoves DEF Stages, Writing
<1>6. Sure' => Sure  BY <1>1, <1>5 DEF Sure
<1>7. Sure => InStep(store)  BY <1>4 DEF Steady, Writing
<1>8. Sure' => InStep(Named(store', j.items))
  <2>1. InStep(store) => InStep(Named(Grown(store, j.items), j.items))  BY ONLY <1>2, GrownStore
  <2> QED BY <1>1, <1>6, <1>7, <2>1
<1>9. store'.vectors = store.vectors \o j.items
  <2>1. PICK U, st, items : U = used /\ st = store /\ items = j.items  OBVIOUS
  <2>2. U \subseteq Chunks /\ st \in Real(U) /\ items \in Seq(U)  BY <1>2, <2>1
  <2>3. Grown(st, items).vectors = st.vectors \o items  BY ONLY <2>2, GrownVectors
  <2> QED BY <1>1, <2>1, <2>3
<1>10. ASSUME ~cut, ~unsaved, disk.ids # Torn PROVE Fits(disk.ids, store'.vectors)
  <2>1. Fits(disk.ids, store.vectors)  BY <1>1, <1>10 DEF Steady
  <2>2. disk.ids \in Seq(used \cup {Blank})  BY <1>2, <1>10, FileFields
  <2>3. store.vectors \in Seq(used)  BY <1>2, Opened
  <2>4. Fits(disk.ids, store.vectors \o j.items)  BY ONLY <1>2, <2>1, <2>2, <2>3, FitsLonger
  <2> QED BY <1>9, <2>1, <2>4
<1>11. Intact' <=> Intact  BY <1>1 DEF Intact
<1> QED BY <1>1, <1>3, <1>5, <1>8, <1>10, <1>11 DEF Steady

LEMMA SteadyName ==
  ASSUME TypeInv, Shape, Steady, NEW j \in jobs, Name(j)
  PROVE  Steady'
<1>1. /\ store' = Named(store, j.items) /\ jobs' = Goes(j, "save")
      /\ j.at = "name" /\ UNCHANGED <<disk, cut, unsaved>>
  BY DEF Name, history
<1>2. /\ store # NoStore /\ store \in Real(used) /\ used \subseteq Chunks /\ j.items \in Seq(used)
  BY <1>1, OpenAt, JobOf
<1>3. store' # NoStore  BY <1>2, ServedOf, StaysOpen DEF JobStep
<1>4. \A k \in jobs \ {j} : k.at \notin {"name", "sidecar"}  BY <1>1, TheWriter
<1>5. /\ ~Writing("name")' /\ ~Writing("sidecar")' /\ (Writing("clear")' <=> Writing("clear"))
      /\ \A k \in jobs' : k.at # "name"
  BY <1>1, <1>4, WritingMoves DEF Stages, Writing
<1>6. Sure' => InStep(store')  BY <1>1, <1>2, <1>5 DEF Sure, Steady
<1>7. store'.vectors = store.vectors  BY <1>1, <1>2, NamedStore
<1>8. Intact' <=> Intact  BY <1>1 DEF Intact
<1> QED BY <1>1, <1>2, <1>3, <1>5, <1>6, <1>7, <1>8 DEF Steady

LEMMA SteadyBlot ==
  ASSUME TypeInv, Shape, Steady, NEW j \in jobs, Blot(j)
  PROVE  Steady'
<1>1. /\ store' = Blanked(store, ToSet(j.items)) /\ (jobs' = Goes(j, "save") \/ jobs' = jobs \ {j})
      /\ j.at = "start" /\ ~WriteLocked /\ store # NoStore /\ UNCHANGED <<disk, cut, unsaved>>
  BY DEF Blot, history
<1>2. store \in Real(used) /\ used \subseteq Chunks  BY <1>1, RealOf
<1>3. store' # NoStore  BY <1>1, ServedOf, StaysOpen DEF JobStep
<1>4. \A k \in jobs : k.at \notin {"name", "sidecar"}  BY <1>1 DEF WriteLocked
<1>5. /\ ~Writing("name")' /\ ~Writing("sidecar")' /\ (Writing("clear")' <=> Writing("clear"))
      /\ \A k \in jobs' : k.at # "name"
  <2>1. CASE jobs' = Goes(j, "save")  BY <1>1, <1>4, <2>1, WritingMoves DEF Stages, Writing
  <2>2. CASE jobs' = jobs \ {j}  BY <1>1, <1>4, <2>2 DEF Writing
  <2> QED BY <1>1, <2>1, <2>2
<1>6. Sure => InStep(store)  BY <1>4 DEF Steady, Writing
<1>7. store'.vectors = store.vectors /\ (InStep(store) => InStep(store'))  BY <1>1, <1>2, BlankedStore
<1>8. Sure' => InStep(store')  BY <1>1, <1>5, <1>6, <1>7 DEF Sure
<1>9. Intact' <=> Intact  BY <1>1 DEF Intact
<1> QED BY <1>1, <1>3, <1>5, <1>7, <1>8, <1>9 DEF Steady

LEMMA SteadyWriteIndex ==
  ASSUME TypeInv, Shape, Steady, NEW j \in jobs, WriteIndex(j)
  PROVE  Steady'
<1>1. /\ disk' = [disk EXCEPT !.dim = model, !.vectors = store.vectors] /\ jobs' = Goes(j, "sidecar")
      /\ j.at = "save" /\ ~WriteLocked /\ UNCHANGED <<store, cut, unsaved>>
  BY DEF WriteIndex, history
<1>2. store # NoStore /\ store \in Real(used) /\ used \subseteq Chunks  BY <1>1, OpenAt
<1>3. \A k \in jobs : k.at \notin {"name", "sidecar"}  BY <1>1 DEF WriteLocked
<1>4. /\ ~Writing("name")' /\ (Writing("clear")' <=> Writing("clear")) /\ \A k \in jobs' : k.at # "name"
  BY <1>1, <1>3, WritingMoves DEF Stages, Writing
<1>5. Sure => InStep(store)  BY <1>3 DEF Steady, Writing
<1>6. disk'.vectors = store.vectors /\ disk'.ids = disk.ids  BY <1>1 DEF TypeInv, Files
<1>7. Sure' => InStep(store')  BY <1>1, <1>4, <1>5 DEF Sure
<1>8. store.vectors # Torn  BY <1>2, Opened
<1> QED BY <1>1, <1>2, <1>4, <1>6, <1>7 DEF Steady, Intact

LEMMA SteadyWriteIds ==
  ASSUME TypeInv, Shape, Steady, NEW j \in jobs, WriteIds(j)
  PROVE  Steady'
<1>1. /\ disk' = [disk EXCEPT !.ids = store.ids] /\ jobs' = jobs \ {j}
      /\ j.at = "sidecar" /\ UNCHANGED <<store, cut>> /\ unsaved' = (unsaved /\ Writing("clear"))
  BY DEF WriteIds, Ends
<1>2. store # NoStore /\ store \in Real(used) /\ used \subseteq Chunks  BY <1>1, OpenAt
<1>3. \A k \in jobs \ {j} : k.at \notin {"name", "sidecar"}  BY <1>1, TheWriter
<1>4. /\ ~Writing("name")' /\ ~Writing("name") /\ ~Writing("sidecar")' /\ Writing("sidecar")
      /\ (Writing("clear")' <=> Writing("clear")) /\ \A k \in jobs' : k.at # "name"
  BY <1>1, <1>3 DEF Writing
<1>5. disk'.vectors = disk.vectors /\ disk'.ids = store.ids  BY <1>1 DEF TypeInv, Files
<1>6. Sure' => InStep(store')  BY <1>1, <1>4 DEF Sure, Steady
<1>7. ASSUME ~cut, ~unsaved' PROVE Fits(disk'.ids, disk'.vectors) /\ Fits(disk'.ids, store'.vectors)
  <2>1. ~Writing("clear")  BY <1>1, <1>7, StageOf DEF Staged, Writing
  <2>2. Sure  BY <1>2, <1>7, <2>1 DEF Sure
  <2>3. InStep(store) /\ (disk.vectors = store.vectors \/ store.ids = <<>>)  BY <1>4, <2>2 DEF Steady
  <2>4. disk.vectors # Torn  BY <1>1, StageOf DEF Staged
  <2>5. store.ids \in Seq(used \cup {Blank}) /\ store.vectors \in Seq(used)  BY <1>2, Opened
  <2>6. Fits(store.ids, store.vectors)  BY <1>2, <2>3, InStepFits
  <2>7. Fits(store.ids, disk.vectors)
    <3>1. CASE disk.vectors = store.vectors  BY <2>6, <3>1
    <3>2. CASE store.ids = <<>>
      <4>1. disk.vectors \in Seq(used)  BY <2>4, FileFields DEF TypeInv
      <4> QED BY <3>2, <4>1, FitsEmpty
    <3> QED BY <2>3, <3>1, <3>2
  <2> QED BY <1>1, <1>5, <2>6, <2>7
<1> QED BY <1>1, <1>2, <1>4, <1>6, <1>7 DEF Steady

LEMMA SteadyUpsert ==
  ASSUME TypeInv, Shape, Steady, NEW j \in jobs, Upsert(j)
  PROVE  Steady'
<1>1. /\ store # NoStore /\ j.items \in Seq(used) /\ backend # "faiss" /\ jobs' = jobs \ {j}
      /\ store' = IF j.does = "delete" THEN Removed(store, ToSet(j.items)) ELSE Upserted(store, j.items)
      /\ disk' = [dim |-> model, vectors |-> store'.vectors, ids |-> store'.ids]
  BY JobOf DEF Upsert, Ends
<1>2. InStep(store') /\ store' \in Real(used) /\ store'.vectors = store'.ids  BY <1>1, Transacted
<1>3. store' # NoStore /\ store'.vectors # Torn  BY <1>2, Opened DEF TypeInv
<1>4. disk'.vectors = store'.vectors /\ disk'.ids = store'.ids  BY <1>1
<1>5. Fits(store'.ids, store'.vectors)  BY <1>2, InStepFits
<1>6. \A k \in jobs' : k.at \notin {"name", "sidecar"}  BY <1>1, StageOf DEF Staged
<1>7. ~Writing("name")' /\ ~Writing("sidecar")'  BY <1>6 DEF Writing
<1>8. Intact'  BY <1>2, <1>3, <1>4 DEF Intact
<1> QED BY <1>2, <1>3, <1>4, <1>5, <1>6, <1>7, <1>8 DEF Steady

LEMMA SteadyOpen ==
  ASSUME TypeInv, Shape, Steady, OpenStore
  PROVE  Steady'
<1>1. /\ store = NoStore /\ UNCHANGED <<disk, jobs, cut>> /\ unsaved' = (store' = Empty /\ disk # NoFile)
      /\ store' = (IF Readable /\ ~Mismatch THEN Reload ELSE Empty)
  BY DEF OpenStore, Reload
<1>2. \A k \in jobs' : k.at \notin {"name", "sidecar"}  BY <1>1, StageOf DEF Staged
<1>3. ~Writing("name")' /\ ~Writing("sidecar")'  BY <1>2 DEF Writing
<1>4. Intact' <=> Intact  BY <1>1 DEF Intact
<1>5. store' \in Real(used)  BY <1>1, EmptyStore, Reloaded DEF Readable, Intact
<1>6. store' # NoStore  BY <1>5, Opened DEF TypeInv
<1>7. CASE Readable /\ ~Mismatch
  <2>1. Intact /\ store' = Reload  BY <1>1, <1>7 DEF Readable, Intact
  <2>2. store'.vectors = disk.vectors /\ (Fits(disk.ids, disk.vectors) => InStep(store'))
    BY <2>1, Reloaded
  <2>3. ~cut => Fits(disk.ids, disk.vectors)  BY <1>1, <2>1 DEF Steady
  <2> QED BY <1>1, <1>2, <1>3, <1>4, <1>6, <2>1, <2>2, <2>3 DEF Steady, Sure
<1>8. CASE ~(Readable /\ ~Mismatch)
  <2>1. store' = Empty /\ InStep(store')  BY <1>1, <1>8, EmptyStore
  <2>2. ~unsaved' => disk = NoFile  BY <1>1, <2>1
  <2>3. disk = NoFile => Intact /\ disk.ids = <<>> /\ disk.vectors = <<>>
    <3>1. <<>> # Torn
      <4>1. Len(Torn) = 1 /\ Len(<<>>) = 0  BY DEF Torn
      <4> QED BY <4>1
    <3> QED BY <3>1 DEF NoFile, Intact
  <2>4. store'.vectors = <<>>  BY <2>1 DEF Empty
  <2>5. Fits(<<>>, <<>>)  BY NoItems, FitsEmpty
  <2> QED BY <1>1, <1>2, <1>3, <1>4, <1>6, <2>1, <2>2, <2>3, <2>4, <2>5 DEF Steady
<1> QED BY <1>7, <1>8

LEMMA SteadyRestart ==
  ASSUME TypeInv, Shape, Steady, NEW m \in Models, Restart(m)
  PROVE  Steady'
<1>1. /\ store' = NoStore /\ cut' = (cut \/ unsaved)
      /\ disk' \in {disk, [disk EXCEPT !.vectors = Torn], [disk EXCEPT !.ids = Torn]}
  BY DEF Restart
<1>2. ASSUME ~cut', Intact' PROVE Fits(disk'.ids, disk'.vectors)
  <2>1. disk' = disk
    <3>1. disk' = [disk EXCEPT !.vectors = Torn] => disk'.vectors = Torn  BY DEF TypeInv, Files
    <3>2. disk' = [disk EXCEPT !.ids = Torn] => disk'.ids = Torn  BY DEF TypeInv, Files
    <3> QED BY <1>1, <1>2, <3>1, <3>2 DEF Intact
  <2>2. Intact  BY <1>2, <2>1 DEF Intact
  <2> QED BY <1>1, <1>2, <2>1, <2>2 DEF Steady
<1>3. ~Sure'  BY <1>1 DEF Sure
<1> QED BY <1>1, <1>2, <1>3 DEF Steady

LEMMA SteadySaveFails ==
  ASSUME TypeInv, Shape, Steady, NEW j \in jobs, SaveFails(j)
  PROVE  Steady'
<1>1. /\ jobs' = jobs \ {j} /\ j.at \in {"save", "sidecar"} /\ UNCHANGED <<store, cut, unsaved>>
      /\ disk'.vectors \in {disk.vectors, Torn} /\ disk'.ids \in {disk.ids, Torn}
      /\ WriteLocked => disk'.vectors = disk.vectors
  BY SaveFailed
<1>2. /\ Writing("name")' <=> Writing("name")
      /\ Writing("clear")' <=> Writing("clear")
      /\ Writing("sidecar")' => Writing("sidecar")
  BY <1>1 DEF Writing
<1>3. Sure' <=> Sure  BY <1>1, <1>2 DEF Sure
<1>4. Writing("sidecar") => disk'.vectors = disk.vectors  BY <1>1 DEF Writing, WriteLocked
<1>5. Intact' => disk'.vectors = disk.vectors /\ disk'.ids = disk.ids /\ Intact  BY <1>1 DEF Intact
<1>6. disk'.ids # Torn => disk'.ids = disk.ids  BY <1>1
<1> QED BY <1>1, <1>2, <1>3, <1>4, <1>5, <1>6 DEF Steady

LEMMA SteadyStep ==
  ASSUME TypeInv, OneRebuild, Shape, Steady, Next
  PROVE  Steady'
<1>1. ASSUME NEW j \in jobs, JobStep(j) PROVE Steady'
  <2>1. CASE ReadRows(j)
    <3>1. UNCHANGED <<store, disk, cut, unsaved>> /\ j.at = "read"  BY <2>1 DEF ReadRows, history
    <3>2. Acting' = Acting
      <4>1. CASE rows = {}  BY <2>1, <3>1, <4>1 DEF ReadRows, Ends, Acting
      <4>2. CASE rows # {}
        <5>1. PICK s : s = SetToSeq(rows)  OBVIOUS
        <5> DEFINE k == [j EXCEPT !.items = s, !.at = "reset"]
        <5>2. j \in Jobs(used)  BY JobOf
        <5>3. k.at = "reset"  BY ONLY <5>2 DEF Jobs
        <5> HIDE DEF k
        <5>4. jobs' = (jobs \ {j}) \cup {k}  BY <2>1, <4>2, <5>1 DEF ReadRows, k
        <5> QED BY <3>1, <5>3, <5>4 DEF Acting
      <4> QED BY <4>1, <4>2
    <3> QED BY <3>1, <3>2, SteadyFrame
  <2> QED BY <1>1, <2>1, SteadyReset, SteadyClear, SteadyGrow, SteadyName, SteadyBlot, SteadyWriteIndex,
             SteadyWriteIds, SteadyUpsert DEF JobStep
<1>2. ASSUME NEW j \in jobs, JobFails(j) PROVE Steady'
  <2>1. UNCHANGED <<store, disk, cut, unsaved>> /\ jobs' = jobs \ {j} /\ j.at \in {"read", "reset", "start"}
    BY <1>2 DEF JobFails
  <2> QED BY <2>1, SteadyFrame DEF Acting
<1>3. ASSUME UNCHANGED <<store, disk, cut, unsaved>>, jobs \subseteq jobs',
             \A k \in jobs' \ jobs : k.at \in {"read", "start"}
      PROVE  Steady'
  BY <1>3, SteadyFrame DEF Acting
<1>4. ASSUME NEW b \in Batches, Upload(b) \/ AddEntry(b) PROVE Steady'
  BY <1>3, <1>4 DEF Upload, AddEntry, Committed, history, Job
<1>5. ASSUME NEW s \in Sources, DeleteRead(s) \/ DeleteCommit(s) PROVE Steady'
  BY <1>3, <1>5 DEF DeleteRead, DeleteCommit, history, Job
<1>6. ASSUME Rebuild \/ AutoRebuild PROVE Steady'
  BY <1>3, <1>6 DEF Rebuild, AutoRebuild, history, Job
<1>7. ASSUME OtherAsk \/ (\E t \in Tenants : Ask(t)) \/ Answer PROVE Steady'
  BY <1>3, <1>7 DEF OtherAsk, Ask, Answer, history
<1> QED BY <1>1, <1>2, <1>4, <1>5, <1>6, <1>7, SteadySaveFails, SteadyOpen, SteadyRestart DEF Next

-----------------------------------------------------------------------------
(* Questions. *)

AskInv == AskType /\ GoneInv /\ AnswersOwnAndLive

LEMMA AskFrame ==
  ASSUME AskInv, ask' = ask, used \subseteq used',
         \A c \in used : c \in rows' /\ Home[c] \in sources' => c \in rows /\ Home[c] \in sources
  PROVE  AskInv'
BY DEF AskInv, AskType, GoneInv, AnswersOwnAndLive

LEMMA AskStep ==
  ASSUME TypeInv, AskInv, Next
  PROVE  AskInv'
<1>1. ASSUME NEW b \in Batches, Upload(b) \/ AddEntry(b) PROVE AskInv'
  <2>1. /\ sources' = sources \cup {Home[b[1]]} /\ rows' = rows \cup ToSet(b) /\ used' = used \cup ToSet(b)
        /\ ToSet(b) \cap used = {} /\ ask' = ask
    BY <1>1 DEF Upload, AddEntry, Committed
  <2>2. Home[b[1]] \in sources \/ \A c \in used : Home[c] # Home[b[1]]
    BY <1>1 DEF Upload, AddEntry
  <2> QED BY <2>1, <2>2, AskFrame
<1>2. ASSUME NEW s \in Sources, DeleteRead(s) \/ DeleteCommit(s) PROVE AskInv'
  <2>1. sources' \subseteq sources /\ rows' \subseteq rows /\ used' = used /\ ask' = ask
    BY <1>2 DEF DeleteRead, DeleteCommit
  <2> QED BY <2>1, AskFrame
<1>3. ASSUME UNCHANGED <<sources, rows, used, ask>> PROVE AskInv'
  BY <1>3, AskFrame
<1>4. ASSUME NEW j \in jobs, JobStep(j) \/ JobFails(j) \/ SaveFails(j) PROVE AskInv'
  BY <1>3, <1>4, JobFrame
<1>5. ASSUME OpenStore \/ Rebuild \/ AutoRebuild \/ OtherAsk PROVE AskInv'
  BY <1>3, <1>5 DEF OpenStore, Rebuild, AutoRebuild, OtherAsk, database
<1>6. ASSUME NEW t \in Tenants, Ask(t) PROVE AskInv'
  <2>1. /\ ask' = [at |-> "allowed", tenant |-> t, gone |-> Gone, allowed |-> OwnRows(t), hits |-> {}]
        /\ UNCHANGED <<sources, rows, used>>
    BY <1>6 DEF Ask, NoAsk, database
  <2>2. Gone \subseteq used /\ OwnRows(t) \subseteq rows /\ used \subseteq Chunks /\ rows \subseteq used
    BY DEF Gone, OwnRows, TypeInv
  <2>3. AskType'  BY <2>1, <2>2 DEF AskType
  <2>4. GoneInv'  BY <2>1 DEF GoneInv, Gone
  <2> QED BY <2>1, <2>3, <2>4 DEF AskInv, AnswersOwnAndLive
<1>7. ASSUME Answer PROVE AskInv'
  <2>1. UNCHANGED <<sources, rows, used>>  BY <1>7 DEF Answer, database
  <2>2. PICK hits : /\ hits \subseteq OwnRows(ask.tenant)
                    /\ ask' = NoAsk \/ ask' = [ask EXCEPT !.at = "answered", !.allowed = {}, !.hits = hits]
    <3>1. PICK found : \E vector \in {found \cap OwnRows(ask.tenant), {}},
                         others \in SUBSET (FastRows(ask.tenant) \cup Lexical(ask.tenant)) :
            ask' = IF vector \cup others = {} THEN NoAsk
                   ELSE [ask EXCEPT !.at = "answered", !.allowed = {}, !.hits = vector \cup others]
      BY <1>7 DEF Answer
    <3>2. PICK vector \in {found \cap OwnRows(ask.tenant), {}},
               others \in SUBSET (FastRows(ask.tenant) \cup Lexical(ask.tenant)) :
            ask' = IF vector \cup others = {} THEN NoAsk
                   ELSE [ask EXCEPT !.at = "answered", !.allowed = {}, !.hits = vector \cup others]
      BY <3>1
    <3>3. vector \cup others \subseteq OwnRows(ask.tenant)  BY <3>2 DEF FastRows, Lexical
    <3> QED BY <3>2, <3>3
  <2>3. CASE ask' = NoAsk
    BY <2>3 DEF AskInv, AskType, GoneInv, AnswersOwnAndLive, NoAsk
  <2>4. CASE ask' = [ask EXCEPT !.at = "answered", !.allowed = {}, !.hits = hits]
    <3>1. ask'.hits = hits /\ ask'.gone = ask.gone /\ ask'.tenant = ask.tenant
      BY <2>4 DEF AskInv, AskType
    <3>2. hits \subseteq Chunks  BY <2>2 DEF OwnRows, TypeInv
    <3>3. AskType'  BY <2>4, <3>2 DEF AskInv, AskType
    <3>4. GoneInv'  BY <2>1, <3>1 DEF AskInv, GoneInv
    <3>5. \A c \in hits : c \in rows /\ Home[c] \in sources /\ Owner[Home[c]] = ask.tenant
      BY <2>2 DEF OwnRows
    <3>6. AnswersOwnAndLive'  BY <3>1, <3>5 DEF AskInv, GoneInv, AnswersOwnAndLive
    <3> QED BY <3>3, <3>4, <3>6 DEF AskInv
  <2> QED BY <2>2, <2>3, <2>4
<1>8. ASSUME NEW m \in Models, Restart(m) PROVE AskInv'
  <2>1. ask' = NoAsk  BY <1>8 DEF Restart
  <2> QED BY <2>1 DEF AskInv, AskType, GoneInv, AnswersOwnAndLive, NoAsk
<1> QED BY <1>1, <1>2, <1>4, <1>5, <1>6, <1>7, <1>8 DEF Next

-----------------------------------------------------------------------------
(* Nothing is lost. *)

LEMMA InComing ==
  /\ \A c : c \in Coming <=> \E k \in jobs : k.does # "delete" /\ k.at \in {"start", "name"} /\ c \in ToSet(k.items)
  /\ \A c : c \in Coming' <=> \E k \in jobs' : k.does # "delete" /\ k.at \in {"start", "name"} /\ c \in ToSet(k.items)
BY DEF Coming, Of

LEMMA InWaiting ==
  /\ \A c : c \in Waiting <=> \E k \in jobs : k.does = "add" /\ k.at = "start" /\ c \in ToSet(k.items)
  /\ \A c : c \in Waiting' <=> \E k \in jobs' : k.does = "add" /\ k.at = "start" /\ c \in ToSet(k.items)
BY DEF Waiting, Of

(* A step that leaves the store and the files alone. *)
NoLoss == \/ Pending' \/ rows' = {}
          \/ ~Pending /\ Coming \subseteq Coming' /\ rows' \subseteq rows \cup Coming'

LEMMA MissFrame ==
  ASSUME MissInv, UNCHANGED <<store, disk, cut, unsaved, lagging>>, excused => excused', Deleted', Gathered',
         Writing("clear") => Writing("clear")', Busy => Busy', ~excused' => NoLoss
  PROVE  MissInv'
<1>1. Filed' <=> Filed  BY DEF Filed, Intact
<1>2. Reload' = Reload  BY DEF Reload
<1>3. Sure' => Sure  BY DEF Sure
<1>4. ~excused' /\ Sure' => Indexed'
  <2>1. SUFFICES ASSUME ~excused', Sure' PROVE Indexed'  OBVIOUS
  <2>2. Indexed /\ NoLoss  BY <1>3, <2>1 DEF MissInv
  <2> QED BY <2>2 DEF Indexed, NoLoss
<1>5. ~excused' /\ ~cut' /\ store' = NoStore => Restorable'
  <2>1. SUFFICES ASSUME ~excused', ~cut', store' = NoStore PROVE Restorable'  OBVIOUS
  <2>2. Restorable /\ NoLoss  BY <2>1 DEF MissInv
  <2> QED BY <1>1, <1>2, <2>2 DEF Restorable, NoLoss
<1>6. store' # NoStore /\ ~cut' /\ ~unsaved' /\ ~lagging' => Saved'  BY <1>1, <1>2 DEF MissInv, Saved
<1> QED BY <1>4, <1>5, <1>6 DEF MissInv

(* A step of the loop: it commits, deletes, asks or begins a rebuild. *)
LEMMA MissAdd ==
  ASSUME TypeInv, Shape, MissInv, UNCHANGED <<store, disk, cut, unsaved, lagging>>, excused => excused', jobs \subseteq jobs',
         LoopFree, \A k \in jobs' \ jobs : k.at \in {"read", "start"},
         \A k \in jobs' \ jobs : k.does = "delete" => ToSet(k.items) \cap rows' = {},
         rows' \cap used \subseteq rows, ~excused' /\ Pending => Pending', rows' \subseteq rows \cup Coming'
  PROVE  MissInv'
<1>1. \A k \in jobs' : k.at # "clear"
  <2>1. \A k \in jobs : k.at # "clear"  BY StageOf DEF LoopFree, Staged
  <2> QED BY <2>1
<1>2. Gathered'  BY <1>1 DEF Gathered
<1>3. Deleted'
  <2>1. SUFFICES ASSUME NEW k \in jobs', k.does = "delete" PROVE ToSet(k.items) \cap rows' = {}
    BY DEF Deleted
  <2>2. CASE k \in jobs
    <3>1. ToSet(k.items) \subseteq used /\ ToSet(k.items) \cap rows = {}
      BY <2>1, <2>2, JobOf DEF MissInv, Deleted
    <3> QED BY <3>1
  <2> QED BY <2>1, <2>2
<1>4. Busy => Busy'  BY DEF Busy
<1>5. Writing("clear") => Writing("clear")'  BY DEF Writing
<1>6. Coming \subseteq Coming'  BY InComing
<1>7. ~excused' => NoLoss  BY <1>6 DEF NoLoss
<1> QED BY <1>2, <1>3, <1>4, <1>5, <1>7, MissFrame

LEMMA DeletedMoves ==
  ASSUME TypeInv, Deleted, rows' = rows, NEW j \in jobs,
         jobs' = jobs \ {j} \/ \E where \in Stages : jobs' = Goes(j, where)
  PROVE  Deleted'
<1>1. CASE jobs' = jobs \ {j}  BY <1>1 DEF Deleted
<1>2. ASSUME NEW where \in Stages, jobs' = Goes(j, where) PROVE Deleted'
  BY <1>2, WritingMoves DEF Deleted
<1> QED BY <1>1, <1>2

(* What is kept when a job that is no upload, or is past its start, moves. *)
LEMMA WaitingMoves ==
  ASSUME TypeInv, NEW j \in jobs, j.does # "add" \/ j.at # "start",
         jobs' = jobs \ {j} \/ \E where \in Stages \ {"start"} : jobs' = Goes(j, where)
  PROVE  Waiting' = Waiting
<1>1. CASE jobs' = jobs \ {j}
  <2>1. \A c : c \in Waiting' <=> c \in Waiting  BY <1>1, InWaiting
  <2> QED BY <2>1
<1>2. ASSUME NEW where \in Stages \ {"start"}, jobs' = Goes(j, where) PROVE Waiting' = Waiting
  <2>1. /\ \A k \in jobs' : k \in jobs \ {j} \/ (k.at = where /\ k.items = j.items /\ k.does = j.does)
        /\ \A k \in jobs \ {j} : k \in jobs'
    BY <1>2, WritingMoves DEF Goes
  <2>2. \A c : c \in Waiting' <=> c \in Waiting  BY <2>1, InWaiting
  <2> QED BY <2>2
<1> QED BY <1>1, <1>2

LEMMA ReadSame ==
  ASSUME NEW U, U \subseteq Chunks, NEW st, st \in Real(U), InStep(st)
  PROVE  [vectors |-> st.vectors, ids |-> Synced(st.ids, Len(st.vectors))] = st
<1>1. PICK v, s : v = st.vectors /\ s = st.ids  OBVIOUS
<1>2. v \in Seq(U) /\ s \in Seq(U \cup {Blank}) /\ st = [vectors |-> v, ids |-> s] /\ Len(s) = Len(v)
  BY <1>1, Opened DEF InStep
<1>3. [vectors |-> v, ids |-> Synced(s, Len(v))] = [vectors |-> v, ids |-> s]
  <2>1. PICK n \in Nat : n = Len(v) /\ n = Len(s)  BY <1>2, OverSet
  <2>2. Synced(s, n) = s  BY <1>2, <2>1, SyncedIds
  <2> QED BY <2>1, <2>2
<1> QED BY <1>1, <1>2, <1>3

LEMMA ReadNothing ==
  ASSUME NEW U, U \subseteq Chunks, NEW v, v \in Seq(U), NEW s, s = <<>>
  PROVE  Found([vectors |-> v, ids |-> Synced(s, Len(v))]) = {}
<1>1. s \in Seq(U \cup {Blank})  BY NoItems
<1> QED BY <1>1, ReadBack

LEMMA FilesRead == Reload' = [vectors |-> disk'.vectors, ids |-> Synced(disk'.ids, Len(disk'.vectors))]
BY DEF Reload

LEMMA MissReset ==
  ASSUME TypeInv, OneRebuild, Shape, MissInv, NEW j \in jobs, Reset(j)
  PROVE  MissInv'
<1>1. /\ j.at = "reset" /\ store # NoStore /\ store \in Real(used) /\ used \subseteq Chunks /\ j.items \in Seq(used)
      /\ excused' = (Unread(j) # {}) /\ rows' = rows /\ Rebuilds(j)
  BY OpenAt, JobOf, JobFrame, StageOf DEF Reset, JobStep, Staged
<1>2. store' # NoStore  BY <1>1, ServedOf, StaysOpen DEF JobStep
<1>3. jobs' = Goes(j, "clear") \/ jobs' = Goes(j, "start")  BY Reset1
<1>4. Deleted'  BY <1>1, <1>3, DeletedMoves DEF MissInv, Stages
<1>5. ~excused' => rows \subseteq ToSet(j.items) \cup Waiting
  BY <1>1 DEF Unread, Waiting, Of
<1>6. CASE backend = "faiss"
  <2>1. unsaved' /\ jobs' = Goes(j, "clear")  BY <1>6, Reset1
  <2>2. \A k \in jobs' : k \in jobs \ {j} \/ (k.at = "clear" /\ k.items = j.items)
    BY <2>1, WritingMoves DEF Stages
  <2>3. \A k \in jobs' : k.at = "clear" => k.items = j.items  BY <1>1, <2>2, TheRebuild
  <2>4. Waiting' = Waiting  BY <1>1, <2>1, WaitingMoves DEF Stages
  <2>5. Gathered'  BY <1>1, <1>5, <2>3, <2>4 DEF Gathered
  <2>6. Writing("clear")'  BY <2>1, WritingMoves DEF Stages
  <2> QED BY <1>2, <1>4, <2>1, <2>5, <2>6 DEF MissInv, Sure
<1>7. CASE backend # "faiss"
  <2>1. /\ store' = Removed(store, ToSet(j.items)) /\ jobs' = Goes(j, "start")
        /\ disk' = [dim |-> model, vectors |-> store'.vectors, ids |-> store'.ids]
    BY <1>7, Reset1
  <2>2. /\ \A k \in jobs \ {j} : k \in jobs' /\ k.at # "clear"
        /\ \A k \in jobs' : k \in jobs \ {j} \/ k.at = "start"
        /\ \E k \in jobs' : k.at = "start" /\ k.items = j.items /\ k.does = j.does
    <3>1. \A k \in jobs \ {j} : k \in jobs' /\ k.at # "clear"
      BY <1>1, <2>1, TheRebuild DEF Goes
    <3>2. \A k \in jobs' : k \in jobs \ {j} \/ k.at = "start"  BY <2>1, WritingMoves DEF Stages
    <3>3. j \in Jobs(used)  BY JobOf
    <3>4. [j EXCEPT !.at = "start"].at = "start" /\ [j EXCEPT !.at = "start"].items = j.items
          /\ [j EXCEPT !.at = "start"].does = j.does
      BY <3>3, Stage DEF Stages
    <3> QED BY <2>1, <3>1, <3>2, <3>4 DEF Goes
  <2>3. Gathered'  BY <2>2 DEF Gathered
  <2>4. ToSet(j.items) \cup Waiting \subseteq Coming'
    <3>1. ToSet(j.items) \subseteq Coming'  BY <1>1, <2>2, InComing DEF Rebuilds
    <3>2. Waiting \subseteq Coming'
      <4>1. \A k \in jobs : k.does = "add" => k \in jobs'  BY <1>1, <2>2 DEF Rebuilds
      <4> QED BY <4>1, InComing, InWaiting
    <3> QED BY <3>1, <3>2
  <2>5. ~excused' => Indexed'  BY <1>1, <1>5, <2>4 DEF Indexed
  <2>6. InStep(store') /\ store' \in Real(used)  BY <1>1, <2>1, Transacted
  <2>7. disk'.vectors = store'.vectors /\ disk'.ids = store'.ids /\ disk'.dim # 0
    BY <2>1, ModelIsNatural
  <2>8. Reload' = store'  BY <1>1, <2>6, <2>7, FilesRead, ReadSame
  <2>9. store'.vectors # Torn /\ store'.ids # Torn
    BY <1>1, <2>6, Opened, NotTorn
  <2>10. Saved'  BY <2>7, <2>8, <2>9 DEF Saved, Filed, Intact
  <2> QED BY <1>2, <1>4, <2>3, <2>5, <2>10 DEF MissInv
<1> QED BY <1>6, <1>7

LEMMA MissClear ==
  ASSUME TypeInv, OneRebuild, Shape, MissInv, NEW j \in jobs, Clear(j)
  PROVE  MissInv'
<1>1. /\ j.at = "clear" /\ store # NoStore /\ unsaved /\ UNCHANGED <<excused, unsaved, rows>>
      /\ cut' = (store.vectors # <<>> \/ \E k \in jobs : k.at = "name")
      /\ jobs' = Goes(j, "start") /\ Rebuilds(j)
  BY OpenAt, StageOf DEF Clear, Staged, database
<1>2. store' # NoStore  BY <1>1, ServedOf, StaysOpen DEF JobStep
<1>3. Deleted'  BY <1>1, DeletedMoves DEF MissInv, Stages
<1>4. /\ \A k \in jobs \ {j} : k \in jobs' /\ k.at # "clear"
      /\ \A k \in jobs' : k \in jobs \ {j} \/ k.at = "start"
      /\ \E k \in jobs' : k.at = "start" /\ k.items = j.items /\ k.does = j.does
  <2>1. \A k \in jobs \ {j} : k \in jobs' /\ k.at # "clear"
    BY <1>1, TheRebuild DEF Goes
  <2>2. \A k \in jobs' : k \in jobs \ {j} \/ k.at = "start"  BY <1>1, WritingMoves DEF Stages
  <2>3. j \in Jobs(used)  BY JobOf
  <2>4. [j EXCEPT !.at = "start"].at = "start" /\ [j EXCEPT !.at = "start"].items = j.items
        /\ [j EXCEPT !.at = "start"].does = j.does
    BY <2>3, Stage DEF Stages
  <2> QED BY <1>1, <2>1, <2>2, <2>4 DEF Goes
<1>5. Gathered'  BY <1>4 DEF Gathered
<1>6. ~excused' /\ Sure' => Indexed'
  <2>1. SUFFICES ASSUME ~excused', ~cut' PROVE Indexed'  BY DEF Sure
  <2>2. rows \subseteq ToSet(j.items) \cup Waiting  BY <1>1, <2>1 DEF MissInv, Gathered
  <2>3. ToSet(j.items) \subseteq Coming'  BY <1>1, <1>4, InComing DEF Rebuilds
  <2>4. Waiting \subseteq Coming'
    <3>1. \A k \in jobs : k.does = "add" => k \in jobs'  BY <1>1, <1>4 DEF Rebuilds
    <3> QED BY <3>1, InComing, InWaiting
  <2> QED BY <1>1, <2>2, <2>3, <2>4 DEF Indexed
<1> QED BY <1>1, <1>2, <1>3, <1>5, <1>6 DEF MissInv

LEMMA RowsAreChunks == ASSUME TypeInv PROVE Blank \notin rows /\ rows \subseteq used /\ used \subseteq Chunks
BY NotAChunk DEF TypeInv

LEMMA MissGrow ==
  ASSUME TypeInv, Shape, Steady, MissInv, NEW j \in jobs, Grow(j)
  PROVE  MissInv'
<1>1. /\ store # NoStore /\ ~WriteLocked /\ store' = Grown(store, j.items) /\ jobs' = Goes(j, "name")
      /\ j.at = "start" /\ j.does # "delete" /\ UNCHANGED <<disk, cut, unsaved, lagging, excused, rows, flag, tasks>>
  BY DEF Grow, history, database, auto
<1>2. store \in Real(used) /\ used \subseteq Chunks /\ j.items \in Seq(used) /\ j.items # <<>>
  BY <1>1, RealOf, JobOf, StageOf DEF Staged
<1>3. store' # NoStore  BY <1>1, ServedOf, StaysOpen DEF JobStep
<1>4. /\ store'.vectors # <<>> /\ (InStep(store) => Found(store) \subseteq Found(store'))
  <2>1. PICK U, st, items : U = used /\ st = store /\ items = j.items  OBVIOUS
  <2>2. U \subseteq Chunks /\ st \in Real(U) /\ items \in Seq(U) /\ items # <<>>  BY <1>2, <2>1
  <2>3. /\ Grown(st, items).vectors # <<>>
        /\ (InStep(st) => Found(st) \subseteq Found(Grown(st, items)))
    BY ONLY <2>2, GrownStore
  <2> QED BY <1>1, <2>1, <2>3
<1>5. Deleted'  BY <1>1, DeletedMoves DEF MissInv, Stages
<1>6. Gathered'  BY <1>4 DEF Gathered
<1>7. /\ \A k \in jobs \ {j} : k \in jobs'
      /\ \E k \in jobs' : k.at = "name" /\ k.items = j.items /\ k.does = j.does
  <2>1. j \in Jobs(used)  BY JobOf
  <2>2. [j EXCEPT !.at = "name"].at = "name" /\ [j EXCEPT !.at = "name"].items = j.items
        /\ [j EXCEPT !.at = "name"].does = j.does
    BY <2>1, Stage DEF Stages
  <2> QED BY <1>1, <2>2 DEF Goes
<1>8. Coming \subseteq Coming'  BY <1>1, <1>7, InComing
<1>9. Pending => Pending'  BY <1>1, <1>7 DEF Pending
<1>10. ~excused' /\ Sure' => Indexed'
  <2>1. SUFFICES ASSUME ~excused, Sure' PROVE Indexed'  BY <1>1
  <2>2. Sure  BY <1>1, <2>1, WritingMoves DEF Sure, Stages, Writing
  <2>3. InStep(store)  BY <1>1, <2>2 DEF Steady, WriteLocked, Writing
  <2>4. Indexed  BY <2>1, <2>2 DEF MissInv
  <2> QED BY <1>1, <1>4, <1>8, <1>9, <2>3, <2>4 DEF Indexed
<1>11. Busy'  BY <1>7 DEF Busy
<1>12. Filed' <=> Filed  BY <1>1 DEF Filed, Intact
<1> QED BY <1>1, <1>3, <1>5, <1>6, <1>10, <1>11, <1>12 DEF MissInv, Saved

LEMMA MissName ==
  ASSUME TypeInv, Shape, Steady, MissInv, NEW j \in jobs, Name(j)
  PROVE  MissInv'
<1>1. /\ store' = Named(store, j.items) /\ jobs' = Goes(j, "save") /\ j.at = "name"
      /\ UNCHANGED <<disk, cut, unsaved, lagging, excused, rows, flag, tasks>>
  BY DEF Name, history, database, auto
<1>2. store # NoStore /\ store \in Real(used) /\ used \subseteq Chunks /\ j.items \in Seq(used)
  BY <1>1, OpenAt, JobOf
<1>3. store' # NoStore  BY <1>2, ServedOf, StaysOpen DEF JobStep
<1>4. /\ store'.vectors = store.vectors
      /\ (InStep(Named(store, j.items)) =>
            (Found(store) \cup ToSet(j.items)) \ {Blank} \subseteq Found(store'))
  BY <1>1, <1>2, NamedStore
<1>5. Deleted'  BY <1>1, DeletedMoves DEF MissInv, Stages
<1>6. Waiting' = Waiting  BY <1>1, WaitingMoves DEF Stages
<1>7. /\ \A k \in jobs \ {j} : k \in jobs'
      /\ \A k \in jobs' : k \in jobs \ {j} \/ (k.at = "save" /\ k.items = j.items /\ k.does = j.does)
      /\ Busy'
  <2>1. j \in Jobs(used)  BY JobOf
  <2>2. [j EXCEPT !.at = "save"].at = "save"  BY <2>1, Stage DEF Stages
  <2> QED BY <1>1, <2>2, WritingMoves DEF Goes, Busy, Stages
<1>8. Gathered'  BY <1>1, <1>4, <1>6, <1>7 DEF MissInv, Gathered
<1>9. Coming \subseteq Coming' \cup ToSet(j.items)  BY <1>1, <1>7, InComing
<1>10. Pending => Pending'  BY <1>1, <1>7 DEF Pending
<1>11. ~excused' /\ Sure' => Indexed'
  <2>1. SUFFICES ASSUME ~excused, Sure' PROVE Indexed'  BY <1>1
  <2>2. Sure  BY <1>1, <1>2, <1>7, <2>1 DEF Sure, Writing
  <2>3. InStep(Named(store, j.items))  BY <1>1, <2>2 DEF Steady
  <2>4. Indexed  BY <2>1, <2>2 DEF MissInv
  <2> QED BY <1>1, <1>4, <1>9, <1>10, <2>3, <2>4, RowsAreChunks DEF Indexed
<1>12. Filed' <=> Filed  BY <1>1 DEF Filed, Intact
<1> QED BY <1>1, <1>2, <1>3, <1>5, <1>7, <1>8, <1>11, <1>12 DEF MissInv, Saved

LEMMA MissBlot ==
  ASSUME TypeInv, Shape, Steady, MissInv, NEW j \in jobs, Blot(j)
  PROVE  MissInv'
<1>1. /\ store' = Blanked(store, ToSet(j.items))
      /\ jobs' = (IF ToSet(j.items) \cap Ids(store) = {} THEN jobs \ {j} ELSE Goes(j, "save"))
      /\ j.at = "start" /\ j.does = "delete" /\ ~WriteLocked /\ store # NoStore
      /\ UNCHANGED <<disk, cut, unsaved, lagging, excused, rows, flag, tasks>>
  BY DEF Blot, history, database, auto
<1>2. store \in Real(used) /\ used \subseteq Chunks /\ ToSet(j.items) \subseteq used
  BY <1>1, RealOf, JobOf
<1>3. store' # NoStore  BY <1>1, ServedOf, StaysOpen DEF JobStep
<1>4. /\ store'.vectors = store.vectors
      /\ (InStep(store) => Found(store) \ ToSet(j.items) \subseteq Found(store'))
      /\ (ToSet(j.items) \cap Ids(store) = {} /\ Blank \notin ToSet(j.items) => store' = store)
  BY <1>1, <1>2, BlankedStore
<1>5. Deleted'  BY <1>1, DeletedMoves DEF MissInv, Stages
<1>6. Waiting' = Waiting  BY <1>1, WaitingMoves DEF Stages
<1>7. /\ \A k \in jobs \ {j} : k \in jobs'
      /\ \A k \in jobs' : k \in jobs \ {j} \/ (k.at = "save" /\ k.items = j.items /\ k.does = j.does)
  BY <1>1, WritingMoves DEF Goes, Stages
<1>8. Gathered'  BY <1>1, <1>4, <1>6, <1>7 DEF MissInv, Gathered
<1>9. Coming \subseteq Coming'  BY <1>1, <1>7, InComing
<1>10. Pending => Pending'  BY <1>1, <1>7 DEF Pending
<1>11. ~excused' /\ Sure' => Indexed'
  <2>1. SUFFICES ASSUME ~excused, Sure' PROVE Indexed'  BY <1>1
  <2>2. Sure  BY <1>1, <1>7, <2>1 DEF Sure, Writing
  <2>3. InStep(store)  BY <1>1, <2>2 DEF Steady, WriteLocked, Writing
  <2>4. Indexed  BY <2>1, <2>2 DEF MissInv
  <2>5. ToSet(j.items) \cap rows = {}  BY <1>1 DEF MissInv, Deleted
  <2> QED BY <1>1, <1>4, <1>9, <1>10, <2>3, <2>4, <2>5 DEF Indexed
<1>12. Filed' <=> Filed  BY <1>1 DEF Filed, Intact
<1>13. ~Busy' => ~Busy /\ store' = store
  <2>1. CASE ToSet(j.items) \cap Ids(store) = {}
    <3>1. store' = store  BY <1>2, <1>4, <2>1, NotAChunk
    <3> QED BY <1>1, <1>7, <3>1 DEF Busy
  <2>2. CASE ToSet(j.items) \cap Ids(store) # {}
    <3>1. jobs' = Goes(j, "save") /\ j \in Jobs(used)  BY <1>1, <2>2, JobOf
    <3>2. [j EXCEPT !.at = "save"].at = "save"  BY <3>1, Stage DEF Stages
    <3> QED BY <3>1, <3>2 DEF Busy, Goes
  <2> QED BY <2>1, <2>2
<1>14. Reload' = Reload  BY <1>1 DEF Reload
<1> QED BY <1>1, <1>3, <1>5, <1>8, <1>11, <1>12, <1>13, <1>14 DEF MissInv, Saved

LEMMA MissWriteIndex ==
  ASSUME TypeInv, Shape, MissInv, NEW j \in jobs, WriteIndex(j)
  PROVE  MissInv'
<1>1. /\ disk' = [disk EXCEPT !.dim = model, !.vectors = store.vectors] /\ jobs' = Goes(j, "sidecar")
      /\ j.at = "save" /\ UNCHANGED <<store, cut, unsaved, lagging, excused, rows, flag, tasks>>
  BY DEF WriteIndex, history, database, auto
<1>2. store # NoStore /\ store \in Real(used) /\ used \subseteq Chunks  BY <1>1, OpenAt
<1>3. disk'.vectors = store.vectors /\ disk'.ids = disk.ids /\ disk'.dim # 0
  BY <1>1, ModelIsNatural DEF TypeInv, Files
<1>4. store.vectors # Torn  BY <1>2, Opened
<1>5. Deleted'  BY <1>1, DeletedMoves DEF MissInv, Stages
<1>6. Waiting' = Waiting  BY <1>1, WaitingMoves DEF Stages
<1>7. /\ \A k \in jobs \ {j} : k \in jobs'
      /\ \A k \in jobs' : k \in jobs \ {j} \/ (k.at = "sidecar" /\ k.items = j.items /\ k.does = j.does)
      /\ Busy'
  <2>1. j \in Jobs(used)  BY JobOf
  <2>2. [j EXCEPT !.at = "sidecar"].at = "sidecar"  BY <2>1, Stage DEF Stages
  <2> QED BY <1>1, <2>2, WritingMoves DEF Goes, Busy, Stages
<1>8. Gathered'  BY <1>1, <1>6, <1>7 DEF MissInv, Gathered
<1>9. Coming \subseteq Coming'  BY <1>1, <1>7, InComing
<1>10. Pending => Pending'  BY <1>1, <1>7 DEF Pending
<1>11. ~excused' /\ Sure' => Indexed'
  <2>1. Sure' => Sure  BY <1>1, <1>7 DEF Sure, Writing
  <2> QED BY <1>1, <1>9, <1>10, <2>1 DEF MissInv, Indexed
<1>12. Filed => Filed'  BY <1>3, <1>4 DEF Filed, Intact
<1> QED BY <1>1, <1>2, <1>5, <1>7, <1>8, <1>11, <1>12 DEF MissInv, Saved

LEMMA MissWriteIds ==
  ASSUME TypeInv, Shape, Steady, Steady', MissInv, NEW j \in jobs, WriteIds(j)
  PROVE  MissInv'
<1>1. /\ disk' = [disk EXCEPT !.ids = store.ids] /\ jobs' = jobs \ {j} /\ j.at = "sidecar"
      /\ UNCHANGED <<store, cut, excused, rows, flag, tasks>> /\ unsaved' = (unsaved /\ Writing("clear"))
  BY DEF WriteIds, Ends, database
<1>2. store # NoStore /\ store \in Real(used) /\ used \subseteq Chunks  BY <1>1, OpenAt
<1>3. disk'.vectors = disk.vectors /\ disk'.ids = store.ids /\ disk'.dim = disk.dim
  BY <1>1 DEF TypeInv, Files
<1>4. Deleted'  BY <1>1, DeletedMoves DEF MissInv
<1>5. Waiting' = Waiting  BY <1>1, WaitingMoves
<1>6. Gathered'  BY <1>1, <1>5 DEF MissInv, Gathered
<1>7. Coming \subseteq Coming'  BY <1>1, InComing
<1>8. Pending => Pending'  BY <1>1 DEF Pending
<1>9. ~excused' /\ Sure' => Indexed'
  <2>1. Sure' => Sure  BY <1>1 DEF Sure, Writing
  <2> QED BY <1>1, <1>7, <1>8, <2>1 DEF MissInv, Indexed
<1>10. ASSUME ~cut, ~unsaved' PROVE Filed' /\ Found(Reload') = Found(store')
  <2>1. ~Writing("clear")  BY <1>1, <1>10, StageOf DEF Staged, Writing
  <2>2. Sure /\ Writing("sidecar") /\ ~Writing("name")
    BY <1>1, <1>2, <1>10, <2>1, TheWriter DEF Sure, Writing
  <2>3. InStep(store) /\ (disk.vectors = store.vectors \/ store.ids = <<>>)  BY <2>2 DEF Steady
  <2>4. disk.vectors # Torn /\ disk.dim # 0  BY <1>1, StageOf DEF Staged
  <2>5. Intact'
    <3>1. store.ids \in Seq(used \cup {Blank})  BY <1>2, Opened
    <3>2. store.ids # Torn  BY <1>2, <3>1, NotTorn
    <3> QED BY <1>3, <2>4, <3>2 DEF Intact
  <2>6. Filed'  BY <1>3, <2>4, <2>5 DEF Filed
  <2>7. CASE disk.vectors = store.vectors
    <3>1. Reload' = store  BY <1>2, <1>3, <2>3, <2>7, FilesRead, ReadSame
    <3> QED BY <1>1, <2>6, <3>1
  <2>8. CASE store.ids = <<>>
    <3>1. disk.vectors \in Seq(used)  BY <2>4, FileFields DEF TypeInv
    <3>2. PICK v, s : v = disk'.vectors /\ s = disk'.ids  OBVIOUS
    <3>3. v \in Seq(used) /\ s = <<>>  BY <1>3, <2>8, <3>1, <3>2
    <3>4. Found([vectors |-> v, ids |-> Synced(s, Len(v))]) = {}  BY <1>2, <3>3, ReadNothing
    <3>5. Found(Reload') = {}  BY <3>2, <3>4, FilesRead
    <3>6. Len(store.ids) = 0 /\ Len(store.vectors) = 0  BY <2>3, <2>8 DEF InStep
    <3>7. Found(store) = {}
      <4>1. Lesser(0, 0) = 0 /\ 1 .. 0 = {}  BY DEF Lesser
      <4> QED BY <3>6, <4>1 DEF Found
    <3> QED BY <1>1, <2>6, <3>5, <3>7
  <2> QED BY <2>3, <2>7, <2>8
<1> QED BY <1>1, <1>2, <1>4, <1>6, <1>9, <1>10 DEF MissInv, Saved

LEMMA MissUpsert ==
  ASSUME TypeInv, Shape, Steady, MissInv, NEW j \in jobs, Upsert(j)
  PROVE  MissInv'
<1>1. /\ store # NoStore /\ j.items \in Seq(used) /\ backend # "faiss" /\ jobs' = jobs \ {j} /\ j.at = "start"
      /\ store' = IF j.does = "delete" THEN Removed(store, ToSet(j.items)) ELSE Upserted(store, j.items)
      /\ disk' = [dim |-> model, vectors |-> store'.vectors, ids |-> store'.ids]
      /\ UNCHANGED <<cut, unsaved, lagging, excused, rows, flag, tasks>>
  BY JobOf DEF Upsert, Ends, history, database
<1>2. InStep(store') /\ store' \in Real(used) /\ used \subseteq Chunks  BY <1>1, Transacted DEF TypeInv
<1>3. store' # NoStore /\ store'.vectors # Torn /\ store'.ids # Torn  BY <1>2, Opened, NotTorn
<1>4. disk'.vectors = store'.vectors /\ disk'.ids = store'.ids /\ disk'.dim # 0  BY <1>1, ModelIsNatural
<1>5. Deleted'  BY <1>1, DeletedMoves DEF MissInv
<1>6. \A k \in jobs : k.at \notin {"name", "clear", "sidecar"}  BY <1>1, StageOf DEF Staged
<1>7. Gathered'  BY <1>1, <1>6 DEF Gathered
<1>8. ~excused' /\ Sure' => Indexed'
  <2>1. SUFFICES ASSUME ~excused, ~cut PROVE Indexed'  BY <1>1 DEF Sure
  <2>2. Sure /\ ~Writing("name")  BY <1>1, <1>6, <2>1 DEF Sure, Writing
  <2>3. InStep(store) /\ Indexed  BY <2>1, <2>2 DEF Steady, MissInv
  <2>4. Found(store) \ {Blank} \subseteq Ids(store)  BY <1>1, <2>3, RealOf, InStepFinds
  <2>5. Pending => Pending'  BY <1>1 DEF Pending
  <2>6. CASE j.does = "delete"
    <3>1. Ids(store) \ ToSet(j.items) \subseteq Found(store')  BY <1>1, <2>6, Transacted
    <3>2. Coming \subseteq Coming'  BY <1>1, <2>6, InComing
    <3>3. ToSet(j.items) \cap rows = {}  BY <2>6 DEF MissInv, Deleted
    <3> QED BY <1>1, <2>3, <2>4, <2>5, <3>1, <3>2, <3>3, RowsAreChunks DEF Indexed
  <2>7. CASE j.does # "delete"
    <3>1. Ids(store) \cup ToSet(j.items) \subseteq Found(store')  BY <1>1, <2>7, Transacted
    <3>2. Coming \subseteq Coming' \cup ToSet(j.items)  BY <1>1, InComing
    <3> QED BY <1>1, <2>3, <2>4, <2>5, <3>1, <3>2, RowsAreChunks DEF Indexed
  <2> QED BY <2>6, <2>7
<1>9. Reload' = store'  BY <1>2, <1>4, FilesRead, ReadSame
<1>10. Saved'  BY <1>3, <1>4, <1>9 DEF Saved, Filed, Intact
<1> QED BY <1>3, <1>5, <1>7, <1>8, <1>10 DEF MissInv

LEMMA MissReadRows ==
  ASSUME TypeInv, OneRebuild, Shape, MissInv, NEW j \in jobs, ReadRows(j)
  PROVE  MissInv'
<1>1. /\ UNCHANGED <<store, disk, cut, unsaved, lagging, excused, flag, tasks>> /\ rows' = rows
      /\ j.at = "read" /\ Rebuilds(j) /\ j \in Jobs(used)
  BY StageOf, JobOf DEF ReadRows, Staged, history, database
<1>2. \A k \in jobs : k.at # "clear"  BY <1>1, TheRebuild
<1>3. CASE rows = {}
  <2>1. jobs' = jobs \ {j}  BY <1>1, <1>3 DEF ReadRows, Ends
  <2>2. Gathered'  BY <1>2, <2>1 DEF Gathered
  <2>3. Deleted'  BY <1>1, <2>1, DeletedMoves DEF MissInv
  <2>4. Busy => Busy'  BY <1>1, <2>1 DEF Busy
  <2>5. ~Writing("clear")  BY <1>2 DEF Writing
  <2>6. NoLoss  BY <1>1, <1>3 DEF NoLoss
  <2> QED BY <1>1, <2>2, <2>3, <2>4, <2>5, <2>6, MissFrame
<1>4. CASE rows # {}
  <2>1. PICK s : s = SetToSeq(rows)  OBVIOUS
  <2> DEFINE k == [j EXCEPT !.items = s, !.at = "reset"]
  <2>2. k.does = j.does /\ k.at = "reset"  BY ONLY <1>1 DEF Jobs
  <2> HIDE DEF k
  <2>3. jobs' = (jobs \ {j}) \cup {k}  BY <1>1, <1>4, <2>1 DEF ReadRows, k
  <2>4. Gathered'  BY <1>2, <2>2, <2>3 DEF Gathered
  <2>5. Deleted'  BY <1>1, <2>2, <2>3 DEF Deleted, MissInv, Rebuilds
  <2>6. Busy => Busy'  BY <1>1, <2>3 DEF Busy
  <2>7. ~Writing("clear")  BY <1>2 DEF Writing
  <2>8. Pending'  BY <1>1, <2>2, <2>3 DEF Pending, Rebuilds
  <2>9. NoLoss  BY <2>8 DEF NoLoss
  <2> QED BY <1>1, <2>4, <2>5, <2>6, <2>7, <2>9, MissFrame
<1> QED BY <1>3, <1>4

LEMMA MissFails ==
  ASSUME TypeInv, OneRebuild, Shape, MissInv, NEW j \in jobs, JobFails(j)
  PROVE  MissInv'
<1>1. /\ UNCHANGED <<store, disk, cut, unsaved, lagging, tasks>> /\ rows' = rows
      /\ j.at \in {"read", "reset", "start"} /\ jobs' = jobs \ {j}
      /\ j.does \in {"add", "delete", "manual", "auto"} /\ Loses(j)
  BY JobOf, JobFrame DEF JobFails
<1>2. /\ j.does \in {"add", "manual"} => excused'
      /\ j.does = "delete" => excused' = excused /\ flag' = flag
      /\ j.does = "auto" => excused' = excused /\ flag'
  BY <1>1 DEF Loses, auto
<1>3. Deleted'  BY <1>1, DeletedMoves DEF MissInv
<1>4. Gathered'
  <2>1. CASE j.does = "delete" \/ j.does = "auto"
    <3>1. Waiting' = Waiting  BY <1>1, <2>1, WaitingMoves
    <3> QED BY <1>1, <1>2, <2>1, <3>1 DEF MissInv, Gathered
  <2>2. CASE j.does \in {"add", "manual"}  BY <1>2, <2>2 DEF Gathered
  <2> QED BY <1>1, <2>1, <2>2
<1>5. Busy => Busy'  BY <1>1 DEF Busy
<1>6. Writing("clear") => Writing("clear")'  BY <1>1 DEF Writing
<1>7. ~excused' => NoLoss
  <2>1. CASE j.does = "delete"
    <3>1. Coming \subseteq Coming'  BY <1>1, <2>1, InComing
    <3>2. Pending => Pending'  BY <1>1, <1>2, <2>1 DEF Pending, Rebuilds
    <3> QED BY <1>1, <3>1, <3>2 DEF NoLoss
  <2>2. CASE j.does = "auto"  BY <1>2, <2>2 DEF NoLoss, Pending
  <2> QED BY <1>1, <1>2, <2>1, <2>2
<1>8. excused => excused'  BY <1>1, <1>2
<1> QED BY <1>1, <1>3, <1>4, <1>5, <1>6, <1>7, <1>8, MissFrame

LEMMA MissOpen ==
  ASSUME TypeInv, Shape, MissInv, OpenStore
  PROVE  MissInv'
<1>1. /\ store = NoStore /\ UNCHANGED <<disk, jobs, cut, excused, rows, tasks>> /\ flag' = (flag \/ Mismatch)
      /\ unsaved' = (store' = Empty /\ disk # NoFile)
      /\ store' = (IF Readable /\ ~Mismatch THEN Reload ELSE Empty)
  BY DEF OpenStore, Reload, database
<1>2. \A k \in jobs : k.at # "clear"  BY <1>1, StageOf DEF Staged
<1>3. Gathered'  BY <1>1, <1>2 DEF Gathered
<1>4. Deleted'  BY <1>1 DEF MissInv, Deleted
<1>5. store' \in Real(used) /\ used \subseteq Chunks
  BY <1>1, EmptyStore, Reloaded DEF Readable, Intact, TypeInv
<1>6. store' # NoStore  BY ONLY <1>5, Opened
<1>7. Coming' = Coming /\ Reload' = Reload /\ (Filed' <=> Filed)
  BY <1>1 DEF Coming, Reload, Filed, Intact
<1>8. Pending => Pending'  BY <1>1 DEF Pending
<1>9. disk = NoFile => Intact /\ Reload = Empty /\ disk.dim = 0
  <2>1. <<>> # Torn
    <3>1. Len(Torn) = 1 /\ Len(<<>>) = 0  BY DEF Torn
    <3> QED BY <3>1
  <2>2. SUFFICES ASSUME disk = NoFile PROVE Intact /\ Reload = Empty /\ disk.dim = 0  OBVIOUS
  <2>3. Intact  BY <2>1, <2>2 DEF NoFile, Intact
  <2>4. disk.ids = <<>> /\ disk.vectors = <<>>  BY <2>2 DEF NoFile
  <2>5. Reload = [vectors |-> <<>>, ids |-> <<>>]  BY <2>3, <2>4, Reloaded
  <2> QED BY <2>2, <2>3, <2>5 DEF Empty, NoFile
<1>10. ~excused' /\ Sure' => Indexed'
  <2>1. SUFFICES ASSUME ~excused, ~cut PROVE Indexed'  BY <1>1 DEF Sure
  <2>2. Restorable  BY <1>1, <2>1 DEF MissInv
  <2>3. CASE Readable /\ ~Mismatch  BY <1>1, <1>7, <1>8, <2>2, <2>3 DEF Restorable, Indexed
  <2>4. CASE Mismatch  BY <1>1, <2>4 DEF Indexed, Pending
  <2>5. CASE ~Readable
    <3>1. disk = NoFile  BY <2>2, <2>5 DEF Restorable, Filed, Intact, Readable
    <3>2. Reload = store'  BY <1>1, <1>9, <2>5, <3>1
    <3> QED BY <1>1, <1>7, <1>8, <2>2, <3>2 DEF Restorable, Indexed
  <2> QED BY <2>3, <2>4, <2>5
<1>11. ~cut' /\ ~unsaved' => Saved'
  <2>1. SUFFICES ASSUME ~unsaved' PROVE Saved'  OBVIOUS
  <2>2. CASE disk = NoFile
    <3>1. Filed /\ Reload = Empty  BY <1>9, <2>2 DEF Filed
    <3>2. store' = Empty  BY <1>1, <3>1
    <3> QED BY <1>7, <3>1, <3>2 DEF Saved
  <2>3. CASE disk # NoFile
    <3>1. store' # Empty  BY <1>1, <2>1, <2>3
    <3>2. Readable /\ store' = Reload  BY <1>1, <3>1
    <3>3. Filed  BY <3>2 DEF Filed, Intact, Readable
    <3> QED BY <1>7, <3>2, <3>3 DEF Saved
  <2> QED BY <2>2, <2>3
<1> QED BY <1>3, <1>4, <1>6, <1>10, <1>11 DEF MissInv

LEMMA MissRestart ==
  ASSUME TypeInv, Shape, MissInv, NEW m \in Models, Restart(m)
  PROVE  MissInv'
<1>1. /\ store' = NoStore /\ jobs' = {} /\ rows' = rows
      /\ cut' = (cut \/ unsaved) /\ excused' = (excused \/ ~Quiet \/ lagging)
      /\ disk' \in {disk}
           \cup (IF Writing("save") /\ ~WriteLocked THEN {[disk EXCEPT !.vectors = Torn]} ELSE {})
           \cup (IF Writing("sidecar") THEN {[disk EXCEPT !.ids = Torn]} ELSE {})
  BY DEF Restart
<1>2. Deleted' /\ Gathered'  BY <1>1 DEF Deleted, Gathered
<1>3. ASSUME ~excused', ~cut' PROVE Restorable'
  <2>1. jobs = {} /\ tasks = 0 /\ ~flag /\ ~excused /\ ~cut /\ ~unsaved /\ ~lagging  BY <1>1, <1>3 DEF Quiet
  <2>2. disk' = disk  BY <1>1, <2>1 DEF Writing
  <2>3. Reload' = Reload /\ (Filed' <=> Filed)  BY <2>2 DEF Reload, Filed, Intact
  <2>4. ~Pending /\ Coming = {} /\ ~Busy /\ ~Writing("clear")
    BY <2>1, InComing DEF Pending, Busy, Writing
  <2>5. Filed /\ rows \subseteq Found(Reload)
    <3>1. CASE store = NoStore  BY <2>1, <2>4, <3>1 DEF MissInv, Restorable
    <3>2. CASE store # NoStore
      <4>1. Indexed /\ Saved  BY <2>1, <2>4, <3>2 DEF MissInv, Sure
      <4> QED BY <2>4, <4>1 DEF Indexed, Saved
    <3> QED BY <3>1, <3>2
  <2> QED BY <1>1, <2>3, <2>5 DEF Restorable
<1>4. ~Sure'  BY <1>1 DEF Sure
<1> QED BY <1>1, <1>2, <1>3, <1>4 DEF MissInv

LEMMA MissSaveFails ==
  ASSUME TypeInv, OneRebuild, Shape, MissInv, NEW j \in jobs, SaveFails(j)
  PROVE  MissInv'
<1>1. /\ j.at \in {"save", "sidecar"} /\ jobs' = jobs \ {j} /\ lagging' /\ rows' = rows
      /\ UNCHANGED <<store, tasks, cut, unsaved, excused>> /\ (flag => flag')
  BY SaveFailed
<1>2. store' # NoStore  BY <1>1, OpenAt
<1>3. Deleted'  BY <1>1, DeletedMoves DEF MissInv
<1>4. Waiting' = Waiting  BY <1>1, WaitingMoves
<1>5. Gathered'  BY <1>1, <1>4 DEF MissInv, Gathered
<1>6. ~excused' /\ Sure' => Indexed'
  <2>1. Sure' => Sure  BY <1>1 DEF Sure, Writing
  <2>2. Coming \subseteq Coming'  BY <1>1, InComing
  <2>3. Pending => Pending'  BY <1>1 DEF Pending
  <2> QED BY <1>1, <2>1, <2>2, <2>3 DEF MissInv, Indexed
<1> QED BY <1>1, <1>2, <1>3, <1>5, <1>6 DEF MissInv

LEMMA DeletingOf ==
  ASSUME TypeInv, NEW s \in DOMAIN deleting
  PROVE  ToSet(SetToSeq(deleting[s])) = deleting[s]
<1>1. IsFiniteSet(deleting[s])  BY FS_Subset DEF TypeInv
<1> QED BY <1>1, InAnyOrder

LEMMA MissStep ==
  ASSUME TypeInv, OneRebuild, Token, Shape, Steady, Steady', MissInv, Next
  PROVE  MissInv'
<1>1. ASSUME NEW j \in jobs, JobStep(j) PROVE MissInv'
  BY <1>1, MissReadRows, MissReset, MissClear, MissGrow, MissName, MissBlot, MissWriteIndex,
     MissWriteIds, MissUpsert DEF JobStep
<1>2. ASSUME NEW b \in Batches, Upload(b) \/ AddEntry(b) PROVE MissInv'
  <2>1. /\ UNCHANGED <<store, disk, cut, unsaved, lagging, excused, flag, tasks>> /\ LoopFree
        /\ jobs' = jobs \cup {Job("add", b, "start")} /\ rows' = rows \cup ToSet(b) /\ ToSet(b) \cap used = {}
    BY <1>2 DEF Upload, AddEntry, Committed, history, auto
  <2>2. /\ Job("add", b, "start").at = "start" /\ Job("add", b, "start").does = "add"
        /\ Job("add", b, "start").items = b
    BY DEF Job
  <2>3. ToSet(b) \subseteq Coming'  BY <2>1, <2>2, InComing
  <2>4. Pending => Pending'  BY <2>1 DEF Pending
  <2>5. rows' \cap used \subseteq rows  BY <2>1
  <2>6. \A k \in jobs' \ jobs : k.at \in {"read", "start"} /\ k.does # "delete"  BY <2>1, <2>2
  <2> QED BY <2>1, <2>3, <2>4, <2>5, <2>6, MissAdd
<1>3. ASSUME NEW s \in Sources, DeleteRead(s) PROVE MissInv'
  <2>1. /\ UNCHANGED <<store, disk, cut, unsaved, lagging, excused, flag, tasks, jobs, rows>> /\ LoopFree
    BY <1>3 DEF DeleteRead, history, auto
  <2>2. Pending => Pending'  BY <2>1 DEF Pending
  <2> QED BY <2>1, <2>2, MissAdd
<1>4. ASSUME NEW s \in Sources, DeleteCommit(s) PROVE MissInv'
  <2>1. /\ UNCHANGED <<store, disk, cut, unsaved, lagging, excused, flag, tasks>> /\ LoopFree /\ s \in DOMAIN deleting
        /\ jobs \subseteq jobs' /\ jobs' \subseteq jobs \cup {Job("delete", SetToSeq(deleting[s]), "start")}
        /\ rows' = rows \ deleting[s]
    BY <1>4 DEF DeleteCommit, history, auto
  <2>2. /\ Job("delete", SetToSeq(deleting[s]), "start").at = "start"
        /\ Job("delete", SetToSeq(deleting[s]), "start").items = SetToSeq(deleting[s])
    BY DEF Job
  <2>3. ToSet(SetToSeq(deleting[s])) \cap rows' = {}  BY <2>1, DeletingOf
  <2>4. Pending => Pending'  BY <2>1 DEF Pending
  <2>5. \A k \in jobs' \ jobs : k.at \in {"read", "start"} /\ ToSet(k.items) \cap rows' = {}
    BY <2>1, <2>2, <2>3
  <2> QED BY <2>1, <2>4, <2>5, MissAdd
<1>5. ASSUME Rebuild PROVE MissInv'
  <2>1. /\ UNCHANGED <<store, disk, cut, unsaved, lagging, excused, flag, tasks, rows>> /\ LoopFree
        /\ jobs' = jobs \cup {Job("manual", <<>>, "read")}
    BY <1>5 DEF Rebuild, history, auto, database
  <2>2. Job("manual", <<>>, "read").at = "read" /\ Job("manual", <<>>, "read").does = "manual"  BY DEF Job
  <2>3. Pending => Pending'  BY <2>1 DEF Pending
  <2> QED BY <2>1, <2>2, <2>3, MissAdd
<1>6. ASSUME AutoRebuild PROVE MissInv'
  <2>1. /\ UNCHANGED <<store, disk, cut, unsaved, lagging, excused, flag, rows>> /\ LoopFree /\ tasks > 0
        /\ jobs' = IF Rebuilding THEN jobs ELSE jobs \cup {Job("auto", <<>>, "read")}
    BY <1>6 DEF AutoRebuild, history, database
  <2>2. Job("auto", <<>>, "read").at = "read" /\ Job("auto", <<>>, "read").does = "auto"  BY DEF Job
  <2>3. Pending'
    <3>1. CASE Rebuilding
      <4>1. PICK k \in jobs : Rebuilds(k)  BY <3>1 DEF Rebuilding
      <4>2. k.at \in {"read", "reset"} /\ k \in jobs'  BY <2>1, <3>1, <4>1 DEF LoopFree
      <4> QED BY <4>1, <4>2 DEF Pending, Rebuilds
    <3>2. CASE ~Rebuilding  BY <2>1, <2>2, <3>2 DEF Pending, Rebuilds
    <3> QED BY <3>1, <3>2
  <2> QED BY <2>1, <2>2, <2>3, MissAdd
<1>7. ASSUME MaybeAutoRebuild, LoopFree, UNCHANGED <<store, disk, cut, unsaved, lagging, jobs, rows>> PROVE MissInv'
  <2>1. tasks \in {0, 1}  BY DEF Token
  <2>2. (excused => excused') /\ (~excused' /\ Pending => Pending')
    BY <1>7, <2>1 DEF MaybeAutoRebuild, Pending, auto
  <2> QED BY <1>7, <2>2, MissAdd
<1>8. ASSUME OtherAsk \/ (\E t \in Tenants : Ask(t)) PROVE MissInv'
  BY <1>7, <1>8 DEF OtherAsk, Ask, database
<1>9. ASSUME Answer PROVE MissInv'
  <2>1. UNCHANGED <<store, disk, cut, unsaved, lagging, excused, flag, tasks, jobs, rows>> /\ LoopFree
    BY <1>9 DEF Answer, history, auto, database
  <2>2. Pending => Pending'  BY <2>1 DEF Pending
  <2> QED BY <2>1, <2>2, MissAdd
<1> QED BY <1>1, <1>2, <1>3, <1>4, <1>5, <1>6, <1>8, <1>9, MissFails, MissSaveFails, MissOpen, MissRestart DEF Next

-----------------------------------------------------------------------------
(* The invariant. *)

LEMMA KeptStore ==
  ASSUME NEW U, U \subseteq Chunks, NEW v, v \in Seq(U)
  PROVE  LET st == [vectors |-> v, ids |-> v]
         IN  st \in Real(U) /\ InStep(st) /\ Found(st) \ {Blank} = ToSet(v) /\ Fits(v, v)
<1>1. PICK st : st = [vectors |-> v, ids |-> v]  OBVIOUS
<1>2. v \in Seq(U \cup {Blank})  BY Wider
<1>3. st \in Real(U) /\ st.vectors = v /\ st.ids = v  BY <1>1, <1>2 DEF Real
<1>4. InStep(st)  BY <1>3 DEF InStep
<1>5. Found(st) \ {Blank} = Ids(st)  BY <1>3, <1>4, InStepFinds
<1>6. ToSet(v) \subseteq Chunks  BY OverSet
<1>7. Ids(st) = ToSet(v)  BY <1>3, <1>6, NotAChunk DEF Ids
<1>8. Fits(v, v)  BY <1>3, <1>4, InStepFits
<1> QED BY <1>1, <1>3, <1>4, <1>5, <1>7, <1>8

LEMMA Begins ==
  ASSUME Init
  PROVE  Inv
<1>1. Kept \in Seq(Chunks) /\ MaxAutoRetries \in Nat  BY IndexAssumption
<1>2. /\ rows = ToSet(Kept) /\ used = rows /\ sources = {Home[c] : c \in rows} /\ deleting = <<>>
      /\ backend \in Backends /\ model = CHOOSE m \in Models : TRUE
      /\ store = NoStore /\ jobs = {} /\ flag = FALSE /\ retries = 0 /\ tasks = 0 /\ ask = NoAsk
      /\ cut = FALSE /\ unsaved = FALSE /\ excused = FALSE
  BY DEF Init
<1>3. model \in Models  BY <1>2, IndexAssumption
<1>4. model \in Nat /\ model # 0  BY <1>3, IndexAssumption
<1>5. used \subseteq Chunks /\ IsFiniteSet(used)  BY <1>1, <1>2, OverSet, Few
<1>6. Kept \in Seq(used)
  <2>1. PICK n \in Nat : n = Len(Kept)  BY <1>1, OverSet
  <2>2. Kept = [i \in 1 .. n |-> Kept[i]]  BY <1>1, <2>1, OverSet
  <2>3. \A i \in 1 .. n : Kept[i] \in used  BY <1>1, <1>2, <2>1, OverSet
  <2>4. [i \in 1 .. n |-> Kept[i]] \in Seq(used)  BY <2>3
  <2> QED BY <2>2, <2>4
<1>7. Kept \in Seq(used \cup {Blank}) /\ Kept # Torn  BY <1>5, <1>6, Wider, NotTorn
<1>8. PICK n \in Nat \ {0} : disk = IF Kept = <<>> THEN NoFile ELSE [dim |-> n, vectors |-> Kept, ids |-> Kept]
  <2>1. PICK dim \in Models : disk = IF Kept = <<>> THEN NoFile
              ELSE [dim |-> IF backend = "faiss" THEN dim ELSE model, vectors |-> Kept, ids |-> Kept]
    BY DEF Init
  <2>2. (IF backend = "faiss" THEN dim ELSE model) \in Nat \ {0}  BY <1>4, IndexAssumption
  <2> QED BY <2>1, <2>2
<1>9. disk.vectors = Kept /\ disk.ids = Kept /\ disk \in Files(used) /\ (disk.dim = 0 => disk = NoFile)
  BY <1>6, <1>7, <1>8 DEF NoFile, Files
<1>10. sources \subseteq Sources  BY <1>2, <1>5, IndexAssumption
<1>11. TypeInv  BY <1>2, <1>3, <1>5, <1>9, <1>10 DEF TypeInv
<1>12. OneRebuild /\ NoAuto  BY <1>2 DEF OneRebuild, NoAuto
<1>13. Token
  <2>1. retries \in 0 .. MaxAutoRetries /\ tasks \in {0, 1}  BY <1>1, <1>2
  <2>2. flag \in BOOLEAN /\ ~flag  BY <1>2
  <2>3. ~(tasks = 1)  BY <1>2
  <2> QED BY <1>2, <1>12, <2>1, <2>2, <2>3 DEF Token
<1>14. Shape  BY <1>2, <1>9 DEF Shape, OneWriter, NoStore
<1>15. Intact /\ Fits(disk.ids, disk.vectors)
  BY <1>5, <1>6, <1>7, <1>9, KeptStore DEF Intact
<1>16. Steady  BY <1>2, <1>15 DEF Steady, Sure
<1>17. AskType /\ GoneInv /\ AnswersOwnAndLive
  BY <1>2 DEF AskType, GoneInv, AnswersOwnAndLive, NoAsk
<1>18. MissInv
  <2>1. Deleted /\ Gathered  BY <1>2 DEF Deleted, Gathered
  <2>2. Reload = [vectors |-> Kept, ids |-> Kept]  BY <1>9, <1>11, <1>15, Reloaded
  <2>3. rows \subseteq Found(Reload)  BY <1>2, <1>5, <1>6, <2>2, KeptStore
  <2>4. Restorable  BY <1>9, <1>15, <2>3 DEF Restorable, Filed
  <2> QED BY <1>2, <2>1, <2>4 DEF MissInv, Sure
<1> QED BY <1>11, <1>12, <1>13, <1>14, <1>16, <1>17, <1>18 DEF Inv

LEMMA Continues ==
  ASSUME Inv, [Next]_vars
  PROVE  Inv'
<1>1. CASE Next
  <2>1. TypeInv /\ OneRebuild /\ Token /\ Shape /\ Steady /\ AskInv /\ MissInv  BY DEF Inv, AskInv
  <2>2. TypeInv'  BY <1>1, <2>1, ServedOf, TypeStep
  <2>3. OneRebuild' /\ Token'  BY <1>1, <2>1, ServedOf, TokenStep
  <2>4. Shape'  BY <1>1, <2>1, ShapeStep
  <2>5. Steady'  BY <1>1, <2>1, SteadyStep
  <2>6. AskInv'  BY <1>1, <2>1, AskStep
  <2>7. MissInv'  BY <1>1, <2>1, <2>5, MissStep
  <2> QED BY <2>2, <2>3, <2>4, <2>5, <2>6, <2>7 DEF Inv, AskInv
<1>2. CASE UNCHANGED vars
  <2>1. UNCHANGED <<sources, rows, used, deleting, backend, model, store, disk, jobs, flag, retries, tasks, ask,
                    cut, unsaved, lagging, excused>>
    BY <1>2 DEF vars
  <2>2. TypeInv' /\ OneRebuild'  BY <2>1 DEF Inv, TypeInv, OneRebuild
  <2>3. Token'  BY <2>1 DEF Inv, Token, NoAuto
  <2>4. Shape'  BY <2>1 DEF Inv, Shape, OneWriter, Staged
  <2>5. Steady'  BY <2>1, SteadyFrame DEF Inv, Acting
  <2>6. AskInv'  BY <2>1, AskFrame DEF Inv, AskInv
  <2>7. Coming' = Coming /\ Waiting' = Waiting /\ (Busy' <=> Busy) /\ (Pending' <=> Pending)
    BY <2>1 DEF Coming, Waiting, Busy, Pending
  <2>8. Reload' = Reload /\ (Filed' <=> Filed) /\ (Sure' <=> Sure)
    BY <2>1 DEF Reload, Filed, Intact, Sure, Writing
  <2>9. MissInv'  BY <2>1, <2>7, <2>8 DEF Inv, MissInv, Deleted, Gathered, Indexed, Restorable, Saved
  <2> QED BY <2>2, <2>3, <2>4, <2>5, <2>6, <2>9 DEF Inv, AskInv
<1> QED BY <1>1, <1>2

THEOREM Invariance == Spec => []Inv
<1>1. Init => Inv  BY Begins
<1>2. Inv /\ [Next]_vars => Inv'  BY Continues
<1> QED BY <1>1, <1>2, PTL DEF Spec

(* The variables keep their values' sets, at most one rebuild runs, and every position of *)
(* an index that no reset was torn into names what its vector encodes, or nothing         *)
(* (vector_store.py add, add_batch, delete, save, load; vector_rebuild.py).               *)
THEOREM IndexHolds == Spec => []IndexSound
<1>1. Inv => IndexSound
  <2>1. SUFFICES ASSUME Inv PROVE IndexSound  OBVIOUS
  <2>2. TypeInv /\ OneRebuild /\ Token /\ Shape /\ Steady  BY <2>1 DEF Inv
  <2>3. TypeOK
    <3>1. store = NoStore \/ Ids(store) \subseteq used  BY <2>2, Opened DEF TypeInv
    <3>2. \A j \in jobs : /\ ToSet(j.items) \subseteq used
                          /\ j.at \in {"read", "reset", "clear", "start", "name", "save", "sidecar"}
      BY <2>2, JobOf DEF Stages
    <3>3. tasks \in Nat  BY <2>2 DEF Token
    <3> QED BY <2>2, <3>1, <3>2, <3>3 DEF TypeOK, TypeInv, OneRebuild, Token
  <2>4. Aligned
    <3>1. SUFFICES ASSUME store # NoStore, ~cut, \A j \in jobs : j.at \notin {"name", "clear"}
                   PROVE  InStep(store)
      BY DEF Aligned
    <3> QED BY <2>2, <3>1 DEF Steady, Sure, Writing
  <2> QED BY <2>3, <2>4 DEF IndexSound
<1> QED BY <1>1, Invariance, PTL

(* An answer cites only rows of the asking tenant's sources, and none whose source was *)
(* deleted before the question, whatever the index still names (retrieve).             *)
THEOREM OwnAndLive == Spec => []AnswersOwnAndLive
<1>1. Inv => AnswersOwnAndLive  BY DEF Inv
<1> QED BY <1>1, Invariance, PTL

(* When nothing is under way every committed row is found through the index, but for   *)
(* what the history variables tell: a failed embedding, a rebuild's reset over rows it  *)
(* had not read, automatic rebuilds that gave up, a stop while work was under way or    *)
(* after a save that failed and was not made good.                                      *)
THEOREM NothingLost == Spec => []NothingMissed
<1>1. Inv => NothingMissed
  <2>1. SUFFICES ASSUME Inv, store # NoStore, Quiet, ~cut, ~excused PROVE rows \subseteq Found(store)
    BY DEF NothingMissed
  <2>2. jobs = {} /\ tasks = 0 /\ ~flag  BY <2>1 DEF Quiet
  <2>3. Sure /\ ~Pending /\ Coming = {}  BY <2>1, <2>2, InComing DEF Sure, Writing, Pending
  <2>4. Indexed  BY <2>1, <2>3 DEF Inv, MissInv
  <2> QED BY <2>3, <2>4 DEF Indexed
<1> QED BY <1>1, Invariance, PTL
-----------------------------------------------------------------------------
(* Tables.  Numbers in order: the position of one is the count of those up to it. *)
UpTo(S, m) == {q \in S : q <= m}

LEMMA InOrderIs ==
  ASSUME NEW n \in Nat, NEW S \in SUBSET (1..n)
  PROVE  /\ IsFiniteSet(S) /\ Cardinality(S) \in Nat
         /\ DOMAIN InOrder(S) = 1..Cardinality(S)
         /\ InOrder(S) \in [1..Cardinality(S) -> S]
         /\ \A m \in S : \E k \in 1..Cardinality(S) : InOrder(S)[k] = m
         /\ \A j, k \in 1..Cardinality(S) : InOrder(S)[j] = InOrder(S)[k] => j = k
         /\ \A j, k \in 1..Cardinality(S) : j < k => InOrder(S)[j] < InOrder(S)[k]
<1>0. \A m \in S : m \in Nat
  OBVIOUS
<1>1. IsFiniteSet(S) /\ Cardinality(S) \in Nat
  <2>1. IsFiniteSet(1..n)
    BY FS_Interval
  <2> QED BY <2>1, FS_Subset, FS_CardinalityType
<1> DEFINE N == Cardinality(S)
           at == [m \in S |-> Cardinality(UpTo(S, m))]
<1>2. \A m \in S : UpTo(S, m) \in SUBSET S /\ IsFiniteSet(UpTo(S, m)) /\ Cardinality(UpTo(S, m)) \in 1..N
  <2> TAKE m \in S
  <2>1. UpTo(S, m) \in SUBSET S /\ m \in UpTo(S, m)
    BY DEF UpTo
  <2>2. IsFiniteSet(UpTo(S, m)) /\ Cardinality(UpTo(S, m)) <= N /\ Cardinality(UpTo(S, m)) \in Nat
    BY <1>1, <2>1, FS_Subset, FS_CardinalityType
  <2>3. Cardinality(UpTo(S, m)) # 0
    <3>1. UpTo(S, m) # {}
      BY <2>1
    <3> QED BY <2>2, <3>1, FS_EmptySet
  <2> QED BY <1>1, <2>1, <2>2, <2>3
<1>3. \A l, m \in S : l < m => at[l] < at[m]
  <2> TAKE l, m \in S
  <2> HAVE l < m
  <2>1. UpTo(S, l) \in SUBSET UpTo(S, m) /\ m \in UpTo(S, m) /\ m \notin UpTo(S, l)
    <3>1. l \in Nat /\ m \in Nat
      BY <1>0
    <3>2. \A q \in S : q <= l => q <= m
      BY <1>0, <3>1
    <3>3. UpTo(S, l) \in SUBSET UpTo(S, m)
      BY <3>2 DEF UpTo
    <3>4. m <= m /\ ~(m <= l)
      BY <3>1
    <3> QED BY <3>3, <3>4 DEF UpTo
  <2>2. Cardinality(UpTo(S, l)) <= Cardinality(UpTo(S, m)) /\ Cardinality(UpTo(S, l)) # Cardinality(UpTo(S, m))
    BY <1>2, <2>1, FS_Subset
  <2> QED BY <1>2, <2>2
<1>4. at \in Bijection(S, 1..N)
  <2>1. at \in [S -> 1..N]
    BY <1>2
  <2>2. \A l, m \in S : at[l] = at[m] => l = m
    <3> TAKE l, m \in S
    <3>1. l \in Nat /\ m \in Nat
      OBVIOUS
    <3>2. at[l] \in Nat /\ at[m] \in Nat
      BY <2>1
    <3> QED BY <1>3, <3>1, <3>2
  <2> HIDE DEF at
  <2>3. at \in Injection(S, 1..N)
    BY <2>1, <2>2 DEF Injection, IsInjective
  <2>4. IsFiniteSet(1..N) /\ Cardinality(1..N) = N
    BY <1>1, FS_Interval
  <2>5. at \in Surjection(S, 1..N)
    BY <2>3, <2>4, FS_Injection
  <2> QED BY <2>3, <2>5 DEF Bijection
<1>5. \A k \in 1..N : InOrder(S)[k] \in S /\ at[InOrder(S)[k]] = k
  <2> TAKE k \in 1..N
  <2>1. \E m \in S : Cardinality({q \in S : q <= m}) = k
    BY <1>4 DEF Bijection, Surjection, UpTo
  <2>2. InOrder(S)[k] = CHOOSE m \in S : Cardinality({q \in S : q <= m}) = k
    BY DEF InOrder
  <2> QED BY <2>1, <2>2 DEF UpTo
<1>6. DOMAIN InOrder(S) = 1..N /\ InOrder(S) = [k \in 1..N |-> InOrder(S)[k]]
  BY DEF InOrder
<1>7. InOrder(S) \in [1..N -> S]
  BY <1>5, <1>6
<1>8. \A m \in S : at[m] \in 1..N /\ InOrder(S)[at[m]] = m
  <2> TAKE m \in S
  <2>1. at[m] \in 1..N
    BY <1>2
  <2>2. at[InOrder(S)[at[m]]] = at[m] /\ InOrder(S)[at[m]] \in S
    BY <1>5, <2>1
  <2> HIDE DEF at
  <2>3. at \in Injection(S, 1..N)
    BY <1>4 DEF Bijection
  <2>4. \A l \in S : at[l] = at[m] => l = m
    BY <2>3 DEF Injection, IsInjective
  <2> QED BY <2>1, <2>2, <2>4
<1>9. \A j, k \in 1..N : j < k => InOrder(S)[j] < InOrder(S)[k]
  <2> TAKE j, k \in 1..N
  <2> HAVE j < k
  <2> DEFINE l == InOrder(S)[j]
             m == InOrder(S)[k]
  <2>1. l \in S /\ m \in S /\ at[l] = j /\ at[m] = k
    BY <1>5
  <2>2. l \in Nat /\ m \in Nat
    BY <1>0, <2>1
  <2>3. m < l => at[m] < at[l]
    BY <1>3, <2>1
  <2> HIDE DEF at, l, m
  <2>4. l # m /\ ~(m < l)
    BY <2>1, <2>3
  <2> QED BY <2>2, <2>4 DEF l, m
<1> HIDE DEF at
<1>10. \A j, k \in 1..N : InOrder(S)[j] = InOrder(S)[k] => j = k
  BY <1>5
<1> QED BY <1>1, <1>6, <1>7, <1>8, <1>9, <1>10

-----------------------------------------------------------------------------
(* A row is its cells up to the last one that is filled. *)
FilledAt(cells) == {n \in DOMAIN cells : cells[n] # NoText}

LEMMA RowIs ==
  ASSUME NEW row \in Seq(STRING)
  PROVE  \E n \in 0..Len(row) :
           /\ _normalize_table_row(row) = SubSeq(row, 1, n)
           /\ Len(_normalize_table_row(row)) = n
           /\ \A i \in 1..n : _normalize_table_row(row)[i] = row[i]
           /\ FilledAt(_normalize_table_row(row)) = FilledAt(row)
           /\ n = 0 <=> FilledAt(row) = {}
           /\ n = 0 <=> _normalize_table_row(row) = <<>>
<1> DEFINE last == {n \in 1..Len(row) : row[n] # NoText /\ \A k \in (n + 1)..Len(row) : row[k] = NoText}
<1>1. DOMAIN row = 1..Len(row) /\ Len(row) \in Nat
  OBVIOUS
<1>2. CASE last = {}
  <2>1. FilledAt(row) = {}
    <3> SUFFICES ASSUME FilledAt(row) # {} PROVE FALSE
      OBVIOUS
    <3> DEFINE F == FilledAt(row)
    <3>1. F # {} /\ F \in SUBSET (1..Len(row))
      BY <1>1 DEF FilledAt
    <3>2. \E n \in F : \A m \in F : m <= n
      <4>1. IsFiniteSet(F) /\ Cardinality(F) \in Nat /\ Cardinality(F) # 0
        <5>1. IsFiniteSet(1..Len(row))
          BY <1>1, FS_Interval
        <5>2. IsFiniteSet(F)
          BY <3>1, <5>1, FS_Subset
        <5> QED BY <3>1, <5>2, FS_CardinalityType, FS_EmptySet
      <4>2. /\ InOrder(F) \in [1..Cardinality(F) -> F]
            /\ \A m \in F : \E k \in 1..Cardinality(F) : InOrder(F)[k] = m
            /\ \A j, k \in 1..Cardinality(F) : j < k => InOrder(F)[j] < InOrder(F)[k]
        <5> HIDE DEF F
        <5> QED BY <1>1, <3>1, InOrderIs
      <4> HIDE DEF F
      <4>3. InOrder(F)[Cardinality(F)] \in F /\ Cardinality(F) \in 1..Cardinality(F)
        BY <4>1, <4>2
      <4>4. \A m \in F : m <= InOrder(F)[Cardinality(F)]
        <5> TAKE m \in F
        <5>1. PICK k \in 1..Cardinality(F) : InOrder(F)[k] = m
          BY <4>2
        <5>2. k < Cardinality(F) => m < InOrder(F)[Cardinality(F)]
          BY <4>2, <4>3, <5>1
        <5>3. k = Cardinality(F) \/ k < Cardinality(F)
          BY <4>1
        <5>4. \A q \in F : q \in Nat
          BY <3>1
        <5>5. m \in Nat /\ InOrder(F)[Cardinality(F)] \in Nat
          BY <4>3, <5>4
        <5> QED BY <5>1, <5>2, <5>3, <5>5
      <4> QED BY <4>3, <4>4
    <3>3. PICK n \in F : \A m \in F : m <= n
      BY <3>2
    <3>4. n \in last
      BY <1>1, <3>3 DEF FilledAt
    <3> QED BY <1>2, <3>4
  <2>2. _normalize_table_row(row) = <<>>
    BY <1>2 DEF _normalize_table_row
  <2>3. SubSeq(row, 1, 0) = <<>> /\ Len(<<>>) = 0 /\ FilledAt(<<>>) = {}
    BY DEF FilledAt
  <2>4. 0 \in 0..Len(row)
    BY <1>1
  <2> QED BY <2>1, <2>2, <2>3, <2>4
<1>3. CASE last # {}
  <2>1. PICK n \in last : _normalize_table_row(row) = SubSeq(row, 1, n)
    BY <1>3 DEF _normalize_table_row
  <2>2. n \in 1..Len(row) /\ row[n] # NoText /\ \A k \in (n + 1)..Len(row) : row[k] = NoText
    OBVIOUS
  <2> HIDE DEF last
  <2>4. Len(SubSeq(row, 1, n)) = n /\ \A i \in 1..n : SubSeq(row, 1, n)[i] = row[i]
    BY <1>1, <2>2
  <2>5. DOMAIN SubSeq(row, 1, n) = 1..n
    BY <1>1, <2>2
  <2>6. FilledAt(SubSeq(row, 1, n)) = FilledAt(row)
    BY <1>1, <2>2, <2>4, <2>5 DEF FilledAt
  <2>7. n \in FilledAt(row) /\ n # 0 /\ SubSeq(row, 1, n) # <<>>
    BY <1>1, <2>2, <2>4 DEF FilledAt
  <2>8. n \in 0..Len(row)
    BY <2>2
  <2> QED BY <2>1, <2>4, <2>6, <2>7, <2>8
<1> QED BY <1>2, <1>3

LEMMA ColumnsAre ==
  ASSUME NEW row \in Seq(STRING)
  PROVE  /\ Columns(row) = InOrder(FilledAt(row))
         /\ FilledAt(row) \in SUBSET (1..Len(row)) /\ Len(row) \in Nat
         /\ Cardinality(FilledAt(row)) \in Nat
         /\ DOMAIN Columns(row) = 1..Cardinality(FilledAt(row))
         /\ \A k \in DOMAIN Columns(row) : Columns(row)[k] \in FilledAt(row)
         /\ Filled(row) # <<>> <=> FilledAt(row) # {}
<1>1. Columns(row) = InOrder(FilledAt(row))
  BY DEF Columns, FilledAt
<1>2. DOMAIN row = 1..Len(row) /\ Len(row) \in Nat
  OBVIOUS
<1>3. FilledAt(row) \in SUBSET (1..Len(row))
  BY <1>2 DEF FilledAt
<1>4. /\ IsFiniteSet(FilledAt(row)) /\ Cardinality(FilledAt(row)) \in Nat
      /\ DOMAIN Columns(row) = 1..Cardinality(FilledAt(row))
      /\ Columns(row) \in [1..Cardinality(FilledAt(row)) -> FilledAt(row)]
  BY <1>1, <1>2, <1>3, InOrderIs
<1>5. Filled(row) = [k \in 1..Cardinality(FilledAt(row)) |-> row[Columns(row)[k]]]
  BY <1>4 DEF Filled
<1>6. ASSUME FilledAt(row) = {} PROVE Filled(row) = <<>>
  <2>1. Cardinality(FilledAt(row)) = 0
    BY <1>6, FS_EmptySet
  <2> QED BY <1>5, <2>1
<1>7. ASSUME FilledAt(row) # {} PROVE Filled(row) # <<>>
  <2>1. Cardinality(FilledAt(row)) # 0
    BY <1>4, <1>7, FS_EmptySet
  <2>2. 1 \in DOMAIN Filled(row)
    BY <1>4, <1>5, <2>1
  <2> QED BY <2>2
<1> QED BY <1>1, <1>2, <1>3, <1>4, <1>6, <1>7

(* A line says each filled cell of its row, beside its column and the header over it. *)
LEMMA LineIs ==
  ASSUME NEW row \in Seq(STRING), NEW headers \in Seq(STRING)
  PROVE  LET pairs == _format_table_row(_normalize_table_row(row), headers)
         IN  /\ [k \in DOMAIN pairs |-> pairs[k].cell] = Filled(row)
             /\ \A k \in DOMAIN pairs :
                  /\ pairs[k].column \in 1..Len(row)
                  /\ row[pairs[k].column] = pairs[k].cell
                  /\ pairs[k].column <= Len(headers) => pairs[k].header = headers[pairs[k].column]
<1> DEFINE cells == _normalize_table_row(row)
           at == Columns(row)
           pairs == _format_table_row(cells, headers)
<1>1. PICK n \in 0..Len(row) :
        /\ cells = SubSeq(row, 1, n)
        /\ Len(cells) = n
        /\ \A i \in 1..n : cells[i] = row[i]
        /\ FilledAt(cells) = FilledAt(row)
  BY RowIs
<1>2. cells \in Seq(STRING)
  BY <1>1
<1>3. Columns(cells) = at /\ FilledAt(row) \in SUBSET (1..n)
  BY <1>1, <1>2, ColumnsAre
<1>4. DOMAIN at = 1..Cardinality(FilledAt(row)) /\ \A k \in DOMAIN at : at[k] \in FilledAt(row)
  BY ColumnsAre
<1>5. \A k \in DOMAIN at : at[k] \in 1..n /\ cells[at[k]] = row[at[k]]
  BY <1>1, <1>3, <1>4
<1>6. pairs = [k \in DOMAIN at |->
                 Pair(at[k], IF at[k] <= Len(headers) THEN headers[at[k]] ELSE NoText, cells[at[k]])]
  BY <1>3 DEF _format_table_row
<1> HIDE DEF pairs, cells
<1>7. \A k \in DOMAIN at : /\ pairs[k].column = at[k] /\ pairs[k].cell = cells[at[k]]
                           /\ pairs[k].header = IF at[k] <= Len(headers) THEN headers[at[k]] ELSE NoText
  BY <1>6 DEF Pair
<1>8. DOMAIN pairs = DOMAIN at
  BY <1>6
<1>9. [k \in DOMAIN pairs |-> pairs[k].cell] = [k \in DOMAIN at |-> row[at[k]]]
  BY <1>5, <1>7, <1>8
<1>10. [k \in DOMAIN pairs |-> pairs[k].cell] = Filled(row)
  BY <1>9 DEF Filled
<1>11. \A k \in DOMAIN pairs : pairs[k].column \in 1..Len(row) /\ row[pairs[k].column] = pairs[k].cell
  BY <1>5, <1>7, <1>8
<1>12. \A k \in DOMAIN pairs : pairs[k].column <= Len(headers) => pairs[k].header = headers[pairs[k].column]
  BY <1>7, <1>8
<1> QED BY <1>10, <1>11, <1>12 DEF pairs, cells

(* The rows that are not empty, in the order of the file. *)
RowsAt(table) == {n \in DOMAIN table : FilledAt(table[n]) # {}}

LEMMA ParsedIs ==
  ASSUME NEW table \in Seq(Seq(STRING))
  PROVE  \E N \in Nat :
           /\ IsFiniteSet(RowsAt(table)) /\ N = Cardinality(RowsAt(table))
           /\ Parsed(table) \in Seq([number : Nat, cells : Seq(STRING)]) /\ Len(Parsed(table)) = N
           /\ \A k \in 1..N : /\ Parsed(table)[k].number \in RowsAt(table)
                              /\ Parsed(table)[k].cells = _normalize_table_row(table[Parsed(table)[k].number])
           /\ \A n \in RowsAt(table) : \E k \in 1..N : Parsed(table)[k].number = n
           /\ \A j, k \in 1..N : Parsed(table)[j].number = Parsed(table)[k].number => j = k
<1> DEFINE F == RowsAt(table)
           N == Cardinality(F)
           at == InOrder(F)
<1>1. DOMAIN table = 1..Len(table) /\ Len(table) \in Nat /\ \A n \in DOMAIN table : table[n] \in Seq(STRING)
  OBVIOUS
<1>2. F \in SUBSET (1..Len(table))
  BY <1>1 DEF RowsAt
<1>3. F = {n \in DOMAIN table : _normalize_table_row(table[n]) # <<>>}
  <2>1. \A n \in DOMAIN table : _normalize_table_row(table[n]) # <<>> <=> FilledAt(table[n]) # {}
    <3> TAKE n \in DOMAIN table
    <3>1. table[n] \in Seq(STRING)
      BY <1>1
    <3> QED BY <3>1, RowIs
  <2> QED BY <2>1 DEF RowsAt
<1>4. \A n \in F : _normalize_table_row(table[n]) \in Seq(STRING)
  <2> TAKE n \in F
  <2>1. table[n] \in Seq(STRING)
    BY <1>1, <1>2
  <2>2. PICK m \in 0..Len(table[n]) : _normalize_table_row(table[n]) = SubSeq(table[n], 1, m)
    BY <2>1, RowIs
  <2> QED BY <2>1, <2>2
<1>5. Parsed(table) = [k \in DOMAIN at |-> [number |-> at[k], cells |-> _normalize_table_row(table[at[k]])]]
  BY <1>3 DEF Parsed
<1> HIDE DEF F
<1>6. /\ IsFiniteSet(F) /\ N \in Nat /\ DOMAIN at = 1..N /\ at \in [1..N -> F]
      /\ \A m \in F : \E k \in 1..N : at[k] = m
      /\ \A j, k \in 1..N : at[j] = at[k] => j = k
  BY <1>1, <1>2, InOrderIs
<1> HIDE DEF N, at
<1>7. \A k \in 1..N : Parsed(table)[k] = [number |-> at[k], cells |-> _normalize_table_row(table[at[k]])]
  BY <1>5, <1>6
<1>8. \A k \in 1..N : at[k] \in F /\ at[k] \in Nat
  <2>1. \A n \in F : n \in Nat
    BY <1>1, <1>2
  <2> QED BY <1>6, <2>1
<1>9. \A k \in 1..N : Parsed(table)[k].number = at[k] /\ Parsed(table)[k].cells = _normalize_table_row(table[at[k]])
  <2> TAKE k \in 1..N
  <2>1. Parsed(table)[k] = [number |-> at[k], cells |-> _normalize_table_row(table[at[k]])]
    BY <1>7
  <2> QED BY <2>1
<1>10. Parsed(table) \in [1..N -> [number : Nat, cells : Seq(STRING)]]
  BY <1>4, <1>5, <1>6, <1>8
<1>11. Parsed(table) \in Seq([number : Nat, cells : Seq(STRING)]) /\ Len(Parsed(table)) = N
  <2> DEFINE R == [number : Nat, cells : Seq(STRING)]
             P == Parsed(table)
  <2>1. N \in Nat /\ P \in [1..N -> R]
    BY <1>6, <1>10
  <2> HIDE DEF P, R
  <2>2. P \in Seq(R) /\ Len(P) = N
    BY <2>1, SeqDef, LenProperties
  <2> QED BY <2>2 DEF P, R
<1>12. N = Cardinality(RowsAt(table)) /\ F = RowsAt(table)
  BY DEF N, F
<1>13. \A k \in 1..N : /\ Parsed(table)[k].number \in F
                        /\ Parsed(table)[k].cells = _normalize_table_row(table[Parsed(table)[k].number])
  BY <1>8, <1>9
<1>14. \A n \in F : \E k \in 1..N : Parsed(table)[k].number = n
  BY <1>6, <1>9
<1>15. \A j, k \in 1..N : Parsed(table)[j].number = Parsed(table)[k].number => j = k
  BY <1>6, <1>9
<1>16. N \in Nat /\ IsFiniteSet(F)
  BY <1>6
<1> QED BY <1>11, <1>12, <1>13, <1>14, <1>15, <1>16

(* For every sheet, table of a document or cleaned CSV text: each filled cell is in the   *)
(* lines once, in a line that carries its own row's number, beside its own column or the  *)
(* header over it; a row is left out only if it is empty or gives the headers             *)
(* (_format_table_rows).                                                                  *)
THEOREM TableWhole ==
  ASSUME NEW table \in Seq(Seq(STRING))
  PROVE  CellsKept(table)
<1> DEFINE P == Parsed(table)
           F == RowsAt(table)
           headed == P # <<>> /\ _looks_like_header_row(P[1].cells)
           headers == IF headed THEN P[1].cells ELSE <<>>
           body == IF headers = <<>> THEN P ELSE Tail(P)
           lines == [i \in DOMAIN body |-> [number |-> body[i].number,
                                            pairs |-> _format_table_row(body[i].cells, headers)]]
           first == IF headers = <<>> THEN {} ELSE {P[1].number}
           numbers == {lines[i].number : i \in DOMAIN lines}
           R == [number : Nat, cells : Seq(STRING)]
<1>1. PICK N \in Nat :
        /\ IsFiniteSet(F) /\ N = Cardinality(F)
        /\ P \in Seq(R) /\ Len(P) = N
        /\ \A k \in 1..N : P[k].number \in F /\ P[k].cells = _normalize_table_row(table[P[k].number])
        /\ \A n \in F : \E k \in 1..N : P[k].number = n
        /\ \A j, k \in 1..N : P[j].number = P[k].number => j = k
  BY ParsedIs
<1>2. F = {n \in DOMAIN table : Filled(table[n]) # <<>>}
  <2>1. \A n \in DOMAIN table : FilledAt(table[n]) # {} <=> Filled(table[n]) # <<>>
    <3> TAKE n \in DOMAIN table
    <3>1. table[n] \in Seq(STRING)
      OBVIOUS
    <3> QED BY <3>1, ColumnsAre
  <2> QED BY <2>1 DEF RowsAt
<1>3. \A n \in F : table[n] \in Seq(STRING)
  <2>1. F \subseteq DOMAIN table
    BY DEF RowsAt
  <2> QED BY <2>1
<1>4. _format_table_rows(P) = [headers |-> headers, lines |-> lines]
  BY DEF _format_table_rows
<1> HIDE DEF P, F, R
<1>5. headers # <<>> => N # 0 /\ headers = P[1].cells
  <2> HAVE headers # <<>>
  <2>1. P # <<>> /\ headers = P[1].cells
    OBVIOUS
  <2> QED BY <1>1, <2>1, EmptySeq
<1>6. headers \in Seq(STRING)
  <2>1. CASE headers = <<>>
    BY <2>1, EmptySeq
  <2>2. CASE headers # <<>>
    <3>1. 1 \in 1..N
      BY <1>1, <1>5, <2>2
    <3>2. P[1] \in R
      BY <1>1, <3>1, ElementOfSeq
    <3>3. P[1].cells \in Seq(STRING)
      BY <3>2 DEF R
    <3> QED BY <1>5, <2>2, <3>3
  <2> QED BY <2>1, <2>2
(* Which rows have a line. *)
<1> HIDE DEF headers
<1>7. \E from \in {0, 1} :
        /\ from <= N /\ (from = 1 <=> headers # <<>>)
        /\ Len(body) = N - from /\ DOMAIN body = 1..(N - from)
        /\ \A i \in 1..(N - from) : body[i] = P[i + from]
  <2>1. CASE headers = <<>>
    <3>1. body = P
      BY <2>1
    <3>2. Len(P) = N /\ DOMAIN P = 1..N
      BY <1>1, LenProperties
    <3> HIDE DEF body
    <3>3. 0 <= N /\ Len(body) = N - 0 /\ DOMAIN body = 1..(N - 0) /\ \A i \in 1..(N - 0) : body[i] = P[i + 0]
      BY <1>1, <3>1, <3>2
    <3> QED BY <2>1, <3>3
  <2>2. CASE headers # <<>>
    <3>1. body = Tail(P)
      BY <2>2
    <3>2. /\ N \in Nat /\ N # 0 /\ Len(Tail(P)) = N - 1 /\ DOMAIN Tail(P) = 1..(N - 1)
          /\ \A i \in 1..(N - 1) : Tail(P)[i] = P[i + 1]
      <4>1. N # 0 /\ P # <<>> /\ P \in Seq(R) /\ Len(P) = N
        BY <1>1, <1>5, <2>2, EmptySeq
      <4>2. Tail(P) \in Seq(R) /\ Len(Tail(P)) = N - 1 /\ \A i \in 1..(N - 1) : Tail(P)[i] = P[i + 1]
        BY <4>1, HeadTailProperties
      <4>3. DOMAIN Tail(P) = 1..(N - 1)
        BY <4>2, LenProperties
      <4> QED BY <4>1, <4>2, <4>3
    <3> HIDE DEF body
    <3>3. 1 <= N /\ Len(body) = N - 1 /\ DOMAIN body = 1..(N - 1) /\ \A i \in 1..(N - 1) : body[i] = P[i + 1]
      BY <3>1, <3>2
    <3> QED BY <2>2, <3>3
  <2> QED BY <2>1, <2>2
<1>8. PICK from \in {0, 1} :
        /\ from <= N /\ (from = 1 <=> headers # <<>>)
        /\ Len(body) = N - from /\ DOMAIN body = 1..(N - from)
        /\ \A i \in 1..(N - from) : body[i] = P[i + from]
  BY <1>7
<1>9. /\ DOMAIN lines = 1..(N - from)
      /\ \A i \in 1..(N - from) :
           /\ lines[i].number = P[i + from].number
           /\ lines[i].pairs = _format_table_row(P[i + from].cells, headers)
  BY <1>8
<1>10. Len(lines) = N - from
  BY <1>1, <1>8
<1> HIDE DEF body
<1>11. \A i \in 1..(N - from) : i + from \in 1..N
  BY <1>1, <1>8
<1> HIDE DEF lines
<1>12. numbers \cup first = F /\ numbers \cap first = {}
  <2>1. numbers = {P[i + from].number : i \in 1..(N - from)}
    BY <1>9
  <2>2. CASE from = 0
    <3>1. first = {}
      BY <1>8, <2>2
    <3>2. \A k \in 1..N : k \in 1..(N - from) /\ k + from = k
      BY <1>1, <2>2
    <3>3. \A i \in 1..(N - from) : P[i + from].number \in F
      BY <1>1, <1>11
    <3>4. \A n \in F : n \in numbers
      <4> TAKE n \in F
      <4>1. PICK k \in 1..N : P[k].number = n
        BY <1>1
      <4> QED BY <2>1, <3>2, <4>1
    <3> HIDE DEF numbers, first
    <3>5. numbers \subseteq F
      BY <2>1, <3>3
    <3> QED BY <3>1, <3>4, <3>5
  <2>3. CASE from = 1
    <3>1. first = {P[1].number} /\ 1 \in 1..N
      BY <1>1, <1>8, <2>3
    <3>2. \A k \in 1..N : k = 1 \/ (k - 1 \in 1..(N - from) /\ (k - 1) + from = k)
      BY <1>1, <2>3
    <3>3. \A i \in 1..(N - from) : P[i + from].number \in F /\ i + from # 1
      BY <1>1, <1>11, <2>3
    <3>4. \A n \in F : n \in numbers \cup {P[1].number}
      <4> TAKE n \in F
      <4>1. PICK k \in 1..N : P[k].number = n
        BY <1>1
      <4> QED BY <2>1, <3>2, <4>1
    <3>5. \A i \in 1..(N - from) : P[i + from].number # P[1].number
      BY <1>1, <1>11, <3>1, <3>3
    <3>6. P[1].number \in F
      BY <1>1, <3>1
    <3> HIDE DEF numbers, first
    <3>7. numbers \subseteq F /\ P[1].number \notin numbers
      BY <2>1, <3>3, <3>5
    <3> QED BY <3>1, <3>4, <3>6, <3>7
  <2> QED BY <2>2, <2>3
<1>13. Cardinality(numbers) = Len(lines)
  <2> HIDE DEF numbers
  <2>1. numbers = F \ first
    BY <1>12
  <2>2. CASE from = 0
    <3>1. first = {} /\ N - from = N
      BY <1>1, <1>8, <2>2
    <3>2. numbers = F
      BY <2>1, <3>1
    <3> QED BY <1>1, <1>10, <3>1, <3>2
  <2>3. CASE from = 1
    <3>1. first = {P[1].number} /\ 1 \in 1..N
      BY <1>1, <1>8, <2>3
    <3>2. P[1].number \in F
      BY <1>1, <3>1
    <3>3. Cardinality(F \ {P[1].number}) = N - 1
      <4>1. Cardinality(F \ {P[1].number}) = Cardinality(F) - 1
        BY <1>1, <3>2, FS_RemoveElement
      <4> QED BY <1>1, <4>1
    <3> HIDE DEF first
    <3> QED BY <1>10, <2>1, <2>3, <3>1, <3>3
  <2> QED BY <2>2, <2>3
<1>14. ASSUME NEW i \in DOMAIN lines
       PROVE  LET row == table[lines[i].number]
                  pairs == lines[i].pairs
              IN  /\ [k \in DOMAIN pairs |-> pairs[k].cell] = Filled(row)
                  /\ \A k \in DOMAIN pairs :
                       /\ row[pairs[k].column] = pairs[k].cell
                       /\ \A n \in first : pairs[k].column <= Len(headers) =>
                            pairs[k].header = table[n][pairs[k].column]
  <2> DEFINE row == table[lines[i].number]
             pairs == lines[i].pairs
  <2>1. i \in 1..(N - from) /\ i + from \in 1..N
    BY <1>9, <1>11, <1>14
  <2>2. lines[i].number \in F /\ P[i + from].cells = _normalize_table_row(row)
    BY <1>1, <1>9, <2>1
  <2>3. row \in Seq(STRING)
    BY <1>3, <2>2
  <2>4. pairs = _format_table_row(_normalize_table_row(row), headers)
    BY <1>9, <2>1, <2>2
  <2> HIDE DEF row
  <2>5. /\ [k \in DOMAIN pairs |-> pairs[k].cell] = Filled(row)
        /\ \A k \in DOMAIN pairs :
             /\ pairs[k].column \in 1..Len(row)
             /\ row[pairs[k].column] = pairs[k].cell
             /\ pairs[k].column <= Len(headers) => pairs[k].header = headers[pairs[k].column]
    <3> HIDE DEF pairs
    <3> QED BY <1>6, <2>3, <2>4, LineIs
  <2> HIDE DEF pairs
  <2>6. ASSUME NEW n \in first, NEW c \in 1..Len(headers) PROVE headers[c] = table[n][c]
    <3>1. headers # <<>> /\ n = P[1].number /\ 1 \in 1..N
      BY <1>1, <1>5, <2>6
    <3>2. headers = _normalize_table_row(table[n]) /\ table[n] \in Seq(STRING)
      BY <1>1, <1>3, <1>5, <3>1
    <3>3. \E m \in 0..Len(table[n]) :
            /\ Len(_normalize_table_row(table[n])) = m
            /\ \A j \in 1..m : _normalize_table_row(table[n])[j] = table[n][j]
      BY <3>2, RowIs
    <3> QED BY <2>6, <3>2, <3>3
  <2>7. ASSUME NEW k \in DOMAIN pairs, NEW n \in first, pairs[k].column <= Len(headers)
        PROVE  pairs[k].header = table[n][pairs[k].column]
    <3>1. pairs[k].column \in 1..Len(headers)
      <4>1. pairs[k].column \in Nat /\ pairs[k].column # 0 /\ Len(headers) \in Nat
        BY <1>6, <2>3, <2>5
      <4> QED BY <2>7, <4>1
    <3> QED BY <2>5, <2>6, <2>7, <3>1
  <2>8. \A k \in DOMAIN pairs : \A n \in first : pairs[k].column <= Len(headers) =>
          pairs[k].header = table[n][pairs[k].column]
    BY <2>7
  <2> QED BY <2>5, <2>8 DEF row, pairs
<1> DEFINE text == _format_table_rows(Parsed(table))
<1>15. text.headers = headers /\ text.lines = lines
  BY <1>4 DEF P
<1> HIDE DEF text
<1>16. /\ {text.lines[i].number : i \in DOMAIN text.lines} = numbers
       /\ (IF text.headers = <<>> THEN {} ELSE {Parsed(table)[1].number}) = first
  BY <1>15 DEF P
<1> HIDE DEF first, numbers
<1>17. \A i \in DOMAIN text.lines :
         LET row == table[text.lines[i].number]
             pairs == text.lines[i].pairs
         IN  /\ [k \in DOMAIN pairs |-> pairs[k].cell] = Filled(row)
             /\ \A k \in DOMAIN pairs :
                  /\ row[pairs[k].column] = pairs[k].cell
                  /\ \A n \in first : pairs[k].column <= Len(text.headers) =>
                       pairs[k].header = table[n][pairs[k].column]
  BY <1>14, <1>15
<1>18. /\ numbers \cup first = {n \in DOMAIN table : Filled(table[n]) # <<>>}
       /\ numbers \cap first = {} /\ Cardinality(numbers) = Len(text.lines)
  BY <1>2, <1>12, <1>13, <1>15
<1> QED BY <1>16, <1>17, <1>18 DEF CellsKept, text

(* A list of one. *)
LEMMA OneItem ==
  ASSUME NEW U, NEW x \in U
  PROVE  /\ <<x>> \in Seq(U) /\ DOMAIN <<x>> = {1} /\ <<x>>[1] = x
         /\ \A f : f = [k \in {1} |-> x] => f = <<x>>
  OBVIOUS

(* One cell that is not empty is a line of one filled cell. *)
LEMMA OneCell ==
  ASSUME NEW U, U = STRING, NEW cell \in U, cell # NoText
  PROVE  Filled(<<cell>>) = <<cell>>
<1> DEFINE row == <<cell>>
<1>1. row \in Seq(U) /\ DOMAIN row = {1} /\ row[1] = cell
  BY OneItem
<1> HIDE DEF row
<1>2. row \in Seq(STRING)
  BY <1>1
<1>3. FilledAt(row) = {1}
  BY <1>1 DEF FilledAt
<1>4. Cardinality({1}) = 1
  BY FS_Singleton
<1>5. DOMAIN Columns(row) = {1} /\ Columns(row)[1] = 1
  <2>1. 1..1 = {1}
    OBVIOUS
  <2> QED BY <1>2, <1>3, <1>4, <2>1, ColumnsAre
<1>6. Filled(row) = [k \in {1} |-> cell]
  BY <1>1, <1>5 DEF Filled
<1> DEFINE F == Filled(row)
<1>7. F = [k \in {1} |-> cell]
  BY <1>6
<1> HIDE DEF F
<1>8. F = <<cell>>
  BY <1>7, OneItem
<1> QED BY <1>8 DEF F, row

(* A line with a filled cell is not bare. *)
LEMMA SaidIsNotBare ==
  ASSUME NEW file \in [tabs : BOOLEAN, rows : Seq(Seq(STRING))], NEW n \in DOMAIN file.rows,
         Filled(file.rows[n]) # <<>>
  PROVE  ~Bare(file, n)
<1>1. file.rows[n] \in Seq(STRING)
  OBVIOUS
<1>2. FilledAt(file.rows[n]) # {}
  BY <1>1, ColumnsAre
<1>3. FilledAt(<<>>) = {} /\ FilledAt(<<NoText>>) = {}
  BY DEF FilledAt
<1> QED BY <1>2, <1>3 DEF Bare

(* For every CSV file, its cells separated by tabs or otherwise: the cleaned text has     *)
(* every line that says something, in the order of the file and with all its cells, those *)
(* between tabs as one; what is made of the cleaned text keeps each of these with its row *)
(* and column in that text (_clean_extracted_text, _extract_text_from_csv).               *)
THEOREM CsvWhole ==
  ASSUME NEW file \in [tabs : BOOLEAN, rows : Seq(Seq(STRING))],
         \A n \in DOMAIN file.rows :
           LET texts == Filled(file.rows[n])
           IN  Merge(texts) \in STRING /\ (Merge(texts) = NoText <=> texts = <<>>)
  PROVE  CsvKept(file)
<1> DEFINE rws == file.rows
           S == {n \in DOMAIN rws : ~Bare(file, n)}
           B == {n \in DOMAIN rws \ S : n - 1 \in S /\ \E m \in S : n < m}
           T == S \cup B
           at == InOrder(T)
           N == Cardinality(T)
           text == _clean_extracted_text(file)
           said(row) == IF file.tabs THEN <<Merge(Filled(row))>> ELSE Filled(row)
<1>1. /\ rws \in Seq(Seq(STRING)) /\ DOMAIN rws = 1..Len(rws) /\ Len(rws) \in Nat
      /\ \A n \in DOMAIN rws : rws[n] \in Seq(STRING)
  OBVIOUS
<1>2. CleanLines(file) = at
  BY DEF CleanLines
<1>3. S \subseteq T /\ T \in SUBSET (1..Len(rws))
  BY <1>1
<1>4. \A n \in DOMAIN rws : Filled(rws[n]) # <<>> => n \in S
  BY SaidIsNotBare
<1> HIDE DEF S, T
<1>5. /\ N \in Nat /\ DOMAIN at = 1..N /\ at \in [1..N -> T]
      /\ \A m \in T : \E k \in 1..N : at[k] = m
      /\ \A j, k \in 1..N : j < k => at[j] < at[k]
  BY <1>1, <1>3, InOrderIs
<1> HIDE DEF at, N
<1>6. text = [k \in 1..N |-> IF file.tabs THEN <<Merge(Filled(rws[at[k]]))>> ELSE rws[at[k]]]
  BY <1>2, <1>5 DEF _clean_extracted_text
<1> HIDE DEF text
<1>7. \A k \in 1..N : at[k] \in DOMAIN rws
  BY <1>1, <1>3, <1>5
<1>8. \A n \in DOMAIN rws : Merge(Filled(rws[n])) \in STRING /\ (Merge(Filled(rws[n])) = NoText <=> Filled(rws[n]) = <<>>)
  OBVIOUS
<1> HIDE DEF rws
<1>9. \A n \in DOMAIN rws : <<Merge(Filled(rws[n]))>> \in Seq(STRING)
  BY <1>8
<1>10. text \in [1..N -> Seq(STRING)]
  BY <1>1, <1>6, <1>7, <1>9
<1>11. text \in Seq(Seq(STRING)) /\ DOMAIN text = 1..N
  <2> DEFINE R == Seq(STRING)
  <2> HIDE DEF R
  <2>1. text \in [1..N -> R]
    BY <1>10 DEF R
  <2>2. text \in Seq(R) /\ DOMAIN text = 1..N
    BY <1>5, <2>1, SeqDef
  <2> QED BY <2>2 DEF R
<1>12. CellsKept(text)
  BY <1>11, TableWhole
<1>13. ASSUME NEW n \in DOMAIN rws, Filled(rws[n]) # <<>>
       PROVE  \E k \in DOMAIN text : at[k] = n /\ Filled(text[k]) = said(rws[n])
  <2>1. PICK k \in 1..N : at[k] = n
    BY <1>3, <1>4, <1>5, <1>13
  <2>2. CASE file.tabs
    <3>1. text[k] = <<Merge(Filled(rws[n]))>>
      BY <1>6, <2>1, <2>2
    <3>2. Merge(Filled(rws[n])) \in STRING /\ Merge(Filled(rws[n])) # NoText
      BY <1>8, <1>13
    <3>3. Filled(text[k]) = said(rws[n])
      BY <2>2, <3>1, <3>2, OneCell
    <3> QED BY <1>11, <2>1, <3>3
  <2>3. CASE ~file.tabs
    <3>1. text[k] = rws[n]
      BY <1>6, <2>1, <2>3
    <3> QED BY <1>11, <2>1, <2>3, <3>1
  <2> QED BY <2>2, <2>3
<1>14. \A j, k \in DOMAIN text : j < k => at[j] < at[k]
  BY <1>5, <1>11
<1> QED BY <1>2, <1>12, <1>13, <1>14 DEF CsvKept, text, rws

-----------------------------------------------------------------------------
(* Texts.  Least numbers and induction over them, by the order of the natural numbers. *)
LEMMA LeastNumber ==
  ASSUME NEW S \in SUBSET Nat, S # {}
  PROVE  \E n \in S : \A m \in S : n <= m
<1> DEFINE R == OpToRel(<, Nat)
<1>1. IsWellFoundedOn(R, Nat)
  BY NatLessThanWellFounded
<1> HIDE DEF R
<1>2. PICK n \in S : \A m \in S : ~(<<m, n>> \in R)
  BY <1>1, WFMin
<1>3. \A m \in S : ~(m < n)
  BY <1>2 DEF R, OpToRel
<1> QED BY <1>3

LEMMA Counted ==
  ASSUME NEW S, 0 \in S, \A n \in Nat : n \in S => n + 1 \in S
  PROVE  Nat \subseteq S
<1> SUFFICES ASSUME Nat \ S # {} PROVE FALSE
  OBVIOUS
<1> DEFINE T == Nat \ S
<1>1. PICK n \in T : \A m \in T : n <= m
  <2>1. T \in SUBSET Nat /\ T # {}
    OBVIOUS
  <2> HIDE DEF T
  <2> QED BY <2>1, LeastNumber
<1>2. n # 0 /\ n - 1 \in Nat /\ n - 1 \in S
  BY <1>1
<1> QED BY <1>1, <1>2

LEMMA LargestOf ==
  ASSUME NEW n \in Nat, NEW S \in SUBSET (1..n), S # {}
  PROVE  Max(S) \in S /\ \A m \in S : m <= Max(S)
<1> DEFINE T == {k \in Nat : \E m \in S : n - m = k}
<1>0. \A m \in S : m \in 1..n
  OBVIOUS
<1>1. PICK k \in T : \A l \in T : k <= l
  <2>1. PICK m \in S : TRUE
    OBVIOUS
  <2>2. n - m \in T
    BY <1>0, <2>1
  <2>3. T \in SUBSET Nat /\ T # {}
    BY <2>2
  <2> HIDE DEF T
  <2> QED BY <2>3, LeastNumber
<1>2. PICK m \in S : n - m = k
  OBVIOUS
<1>3. \A l \in S : m >= l
  <2> TAKE l \in S
  <2>1. n - l \in T
    BY <1>0
  <2> HIDE DEF T
  <2> QED BY <1>0, <1>1, <1>2, <2>1
<1>4. Max(S) = CHOOSE x \in S : \A y \in S : x >= y
  BY DEF Max
<1>5. Max(S) \in S /\ \A y \in S : Max(S) >= y
  <2> HIDE DEF T
  <2> QED BY <1>3, <1>4
<1>6. \A y \in S : y <= Max(S)
  BY <1>0, <1>5
<1> QED BY <1>5, <1>6

LEMMA LargerOf ==
  ASSUME NEW a \in Int, NEW b \in Int
  PROVE  Max({a, b}) = IF a >= b THEN a ELSE b
<1>1. Max({a, b}) = CHOOSE x \in {a, b} : \A y \in {a, b} : x >= y
  BY DEF Max
<1>2. \E x \in {a, b} : \A y \in {a, b} : x >= y
  OBVIOUS
<1>3. Max({a, b}) \in {a, b} /\ Max({a, b}) >= a /\ Max({a, b}) >= b
  BY <1>1, <1>2
<1> QED BY <1>3

LEMMA SmallerOf ==
  ASSUME NEW a \in Int, NEW b \in Int
  PROVE  Min({a, b}) = IF a <= b THEN a ELSE b
<1>1. Min({a, b}) = CHOOSE x \in {a, b} : \A y \in {a, b} : x <= y
  BY DEF Min
<1>2. \E x \in {a, b} : \A y \in {a, b} : x <= y
  OBVIOUS
<1>3. Min({a, b}) \in {a, b} /\ Min({a, b}) <= a /\ Min({a, b}) <= b
  BY <1>1, <1>2
<1> QED BY <1>3

-----------------------------------------------------------------------------
(* A fold is a function of the set of positions it has taken in; there is one. *)
Folding(n, base, T, iter) ==
  \A s \in SUBSET (1..n) : iter[s] = IF s = {} THEN base ELSE T[<<iter[s \ {Max(s)}], Max(s)>>]

LEMMA FoldExists ==
  ASSUME NEW n \in Nat, NEW W, NEW base \in W, NEW T \in [W \X (1..n) -> W]
  PROVE  \E iter \in [SUBSET (1..n) -> W] : Folding(n, base, T, iter)
<1> DEFINE D == SUBSET (1..n)
           U == [D -> W]
           G(f, s) == IF s = {} THEN base ELSE T[<<f[s \ {Max(s)}], Max(s)>>]
           S == {k \in Nat : \E f \in U : \A s \in D : Cardinality(s) <= k => f[s] = G(f, s)}
<1>1. \A s \in D : IsFiniteSet(s) /\ Cardinality(s) \in Nat /\ Cardinality(s) <= n
  <2>1. IsFiniteSet(1..n) /\ Cardinality(1..n) = n
    BY FS_Interval
  <2> TAKE s \in D
  <2>2. IsFiniteSet(s) /\ Cardinality(s) <= Cardinality(1..n)
    BY <2>1, FS_Subset
  <2> QED BY <2>1, <2>2, FS_CardinalityType
<1>2. \A s \in D : s # {} => /\ Max(s) \in s /\ Max(s) \in 1..n /\ s \ {Max(s)} \in D
                             /\ Cardinality(s \ {Max(s)}) = Cardinality(s) - 1
  <2> TAKE s \in D
  <2> HAVE s # {}
  <2>1. Max(s) \in s
    BY LargestOf
  <2>2. Cardinality(s \ {Max(s)}) = Cardinality(s) - 1
    BY <1>1, <2>1, FS_RemoveElement
  <2> QED BY <2>1, <2>2
<1>3. \A f \in U : \A s \in D : G(f, s) \in W
  <2> TAKE f \in U
  <2> TAKE s \in D
  <2>1. CASE s = {}
    BY <2>1
  <2>2. CASE s # {}
    <3>1. f[s \ {Max(s)}] \in W /\ Max(s) \in 1..n
      BY <1>2, <2>2
    <3> QED BY <2>2, <3>1
  <2> QED BY <2>1, <2>2
<1>4. 0 \in S
  <2> DEFINE f == [s \in D |-> base]
  <2>1. f \in U
    OBVIOUS
  <2>2. \A s \in D : Cardinality(s) <= 0 => s = {}
    BY <1>1, FS_EmptySet
  <2>3. \A s \in D : Cardinality(s) <= 0 => f[s] = G(f, s)
    BY <2>2
  <2> HIDE DEF f, G, U, D
  <2> QED BY <2>1, <2>3
<1>5. ASSUME NEW k \in Nat, k \in S PROVE k + 1 \in S
  <2>1. PICK f \in U : \A s \in D : Cardinality(s) <= k => f[s] = G(f, s)
    BY <1>5
  <2> DEFINE g == [s \in D |-> G(f, s)]
  <2>2. g \in U
    BY <1>3
  <2>3. \A s \in D : Cardinality(s) <= k => g[s] = f[s]
    BY <2>1
  <2>4. \A s \in D : Cardinality(s) <= k + 1 => G(g, s) = G(f, s)
    <3> TAKE s \in D
    <3> HAVE Cardinality(s) <= k + 1
    <3>1. CASE s = {}
      BY <3>1
    <3>2. CASE s # {}
      <4>1. s \ {Max(s)} \in D /\ Cardinality(s \ {Max(s)}) <= k
        BY <1>1, <1>2, <3>2
      <4>2. g[s \ {Max(s)}] = f[s \ {Max(s)}]
        BY <2>3, <4>1
      <4> HIDE DEF g, D
      <4> QED BY <4>2
    <3> QED BY <3>1, <3>2
  <2>5. \A s \in D : Cardinality(s) <= k + 1 => g[s] = G(g, s)
    <3> HIDE DEF G
    <3> QED BY <2>4
  <2> HIDE DEF g, G, U, D
  <2> QED BY <2>2, <2>5
<1>6. n \in S
  <2> HIDE DEF S
  <2> QED BY <1>4, <1>5, Counted
<1>7. PICK iter \in U : \A s \in D : Cardinality(s) <= n => iter[s] = G(iter, s)
  BY <1>6
<1>8. \A s \in D : iter[s] = G(iter, s)
  BY <1>1, <1>7
<1> QED BY <1>8 DEF Folding

LEMMA FoldStep ==
  ASSUME NEW n \in Nat, NEW k \in 1..n
  PROVE  /\ (1..k) \in SUBSET (1..n) /\ (1..(k - 1)) \in SUBSET (1..n)
         /\ (1..k) # {} /\ Max(1..k) = k /\ (1..k) \ {k} = 1..(k - 1)
<1>1. k \in 1..k /\ (1..k) # {} /\ k \in Nat
  OBVIOUS
<1>2. Max(1..k) \in 1..k /\ \A m \in 1..k : m <= Max(1..k)
  BY <1>1, LargestOf
<1>3. Max(1..k) = k
  BY <1>1, <1>2
<1>4. (1..k) \ {k} = 1..(k - 1)
  OBVIOUS
<1> QED BY <1>1, <1>3, <1>4

-----------------------------------------------------------------------------
(* The boundary nearest to where a text should be cut. *)
LEMMA NearestIs ==
  ASSUME NEW S \in SUBSET Nat, S # {}, NEW target \in Int
  PROVE  Nearest(S, target) \in S
<1> DEFINE T == {Distance(p, target) : p \in S}
<1>0. \A p \in S : p \in Nat /\ Distance(p, target) \in Nat
  BY DEF Distance
<1>1. PICK d \in T : \A e \in T : d <= e
  <2>1. T \in SUBSET Nat /\ T # {}
    BY <1>0
  <2> HIDE DEF T
  <2> QED BY <2>1, LeastNumber
<1> DEFINE V == {p \in S : Distance(p, target) = d}
<1>2. PICK p \in V : \A q \in V : p <= q
  <2>1. V \in SUBSET Nat /\ V # {}
    OBVIOUS
  <2> HIDE DEF V
  <2> QED BY <2>1, LeastNumber
<1>3. \A q \in S : \/ Distance(p, target) < Distance(q, target)
                   \/ Distance(p, target) = Distance(q, target) /\ p <= q
  <2> TAKE q \in S
  <2>1. d <= Distance(q, target) /\ d = Distance(p, target) /\ d \in Nat /\ Distance(q, target) \in Nat
    BY <1>0, <1>1, <1>2
  <2>2. d = Distance(q, target) => p <= q
    BY <1>2
  <2> QED BY <2>1, <2>2
<1>4. p \in S
  OBVIOUS
<1> HIDE DEF T, V
<1> QED BY <1>3, <1>4 DEF Nearest

LEMMA BoundaryIs ==
  ASSUME NEW C, NEW text \in Seq(C), NEW target \in Nat, NEW window \in Nat \ {0}
  PROVE  LET b == _find_sentence_boundary(text, target, window)
         IN  b \in Nat /\ target - window < b /\ b <= target + window /\ (b <= Len(text) \/ b = target)
<1> DEFINE start == Max({0, target - window})
           end == Min({Len(text), target + window})
           delimiters == {i \in start..(end - 1) : text[i + 1].kind = "."}
           words == {p \in (start + 1)..end : p = end \/ text[p].kind = "e"}
           b == _find_sentence_boundary(text, target, window)
<1>1. b = IF delimiters # {} THEN Nearest(delimiters, target) + 1
          ELSE IF Jieba /\ words # {} THEN Nearest(words, target)
          ELSE target
  BY DEF _find_sentence_boundary
<1>2. /\ start \in Nat /\ target - window <= start
      /\ end \in Nat /\ end <= Len(text) /\ end <= target + window
      /\ Len(text) \in Nat /\ target \in Nat
  BY LargerOf, SmallerOf
<1>3. delimiters \in SUBSET (start..(end - 1)) /\ words \in SUBSET ((start + 1)..end)
  OBVIOUS
<1> HIDE DEF start, end, delimiters, words, b
<1>4. CASE delimiters # {}
  <2>1. Nearest(delimiters, target) \in start..(end - 1)
    <3>1. delimiters \in SUBSET Nat
      BY <1>2, <1>3
    <3>2. Nearest(delimiters, target) \in delimiters
      BY <1>2, <1>4, <3>1, NearestIs
    <3> QED BY <1>3, <3>2
  <2>2. b = Nearest(delimiters, target) + 1
    BY <1>1, <1>4
  <2> QED BY <1>2, <2>1, <2>2 DEF b
<1>5. CASE delimiters = {} /\ Jieba /\ words # {}
  <2>1. Nearest(words, target) \in (start + 1)..end
    <3>1. words \in SUBSET Nat
      BY <1>2, <1>3
    <3>2. Nearest(words, target) \in words
      BY <1>2, <1>5, <3>1, NearestIs
    <3> QED BY <1>3, <3>2
  <2>2. b = Nearest(words, target)
    BY <1>1, <1>5
  <2> QED BY <1>2, <2>1, <2>2 DEF b
<1>6. CASE delimiters = {} /\ ~(Jieba /\ words # {})
  <2>1. b = target
    BY <1>1, <1>6
  <2> QED BY <1>2, <2>1 DEF b
<1> QED BY <1>4, <1>5, <1>6

-----------------------------------------------------------------------------
(* The characters of a text, and of a sequence of texts. *)
Letters(t) == {t[i] : i \in DOMAIN t}
Held(chunks) == UNION {Letters(chunks[j]) : j \in DOMAIN chunks}

LEMMA LettersJoin ==
  ASSUME NEW C, NEW s \in Seq(C), NEW t \in Seq(C)
  PROVE  s \o t \in Seq(C) /\ Letters(s \o t) = Letters(s) \cup Letters(t)
<1>1. /\ Len(s) \in Nat /\ Len(t) \in Nat /\ DOMAIN s = 1..Len(s) /\ DOMAIN t = 1..Len(t)
      /\ s \o t \in Seq(C) /\ DOMAIN (s \o t) = 1..(Len(s) + Len(t))
      /\ \A i \in 1..(Len(s) + Len(t)) : (s \o t)[i] = IF i <= Len(s) THEN s[i] ELSE t[i - Len(s)]
  BY LenProperties, ConcatProperties
<1>2. Letters(s \o t) \subseteq Letters(s) \cup Letters(t)
  <2> SUFFICES ASSUME NEW i \in DOMAIN (s \o t) PROVE (s \o t)[i] \in Letters(s) \cup Letters(t)
    BY DEF Letters
  <2>1. CASE i <= Len(s)
    <3>1. i \in DOMAIN s /\ (s \o t)[i] = s[i]
      BY <1>1, <2>1
    <3> QED BY <3>1 DEF Letters
  <2>2. CASE ~(i <= Len(s))
    <3>1. i - Len(s) \in DOMAIN t /\ (s \o t)[i] = t[i - Len(s)]
      BY <1>1, <2>2
    <3> QED BY <3>1 DEF Letters
  <2> QED BY <2>1, <2>2
<1>3. \A i \in DOMAIN s : i \in DOMAIN (s \o t) /\ (s \o t)[i] = s[i]
  BY <1>1
<1>4. \A i \in DOMAIN t : Len(s) + i \in DOMAIN (s \o t) /\ (s \o t)[Len(s) + i] = t[i]
  BY <1>1
<1>5. Letters(s) \subseteq Letters(s \o t) /\ Letters(t) \subseteq Letters(s \o t)
  BY <1>3, <1>4 DEF Letters
<1> QED BY <1>1, <1>2, <1>5

LEMMA HeldJoin ==
  ASSUME NEW C, NEW more \in Seq(Seq(C)), NEW chunks \in Seq(Seq(C))
  PROVE  chunks \o more \in Seq(Seq(C)) /\ Held(chunks \o more) = Held(chunks) \cup Held(more)
<1>1. chunks \o more \in Seq(Seq(C)) /\ Letters(chunks \o more) = Letters(chunks) \cup Letters(more)
  BY LettersJoin
<1>2. \A s : Held(s) = UNION {Letters(t) : t \in Letters(s)}
  BY DEF Held, Letters
<1> QED BY <1>1, <1>2

LEMMA HeldOne ==
  ASSUME NEW C, NEW t \in Seq(C)
  PROVE  <<t>> \in Seq(Seq(C)) /\ Held(<<t>>) = Letters(t)
<1>1. DOMAIN <<t>> = {1} /\ <<t>>[1] = t
  OBVIOUS
<1> QED BY <1>1 DEF Held

LEMMA HeldAppend ==
  ASSUME NEW C, NEW t \in Seq(C), NEW chunks \in Seq(Seq(C))
  PROVE  Append(chunks, t) \in Seq(Seq(C)) /\ Held(Append(chunks, t)) = Held(chunks) \cup Letters(t)
<1>1. Append(chunks, t) = chunks \o <<t>>
  BY AppendIsConcat
<1>2. <<t>> \in Seq(Seq(C)) /\ Held(<<t>>) = Letters(t)
  BY HeldOne
<1>3. chunks \o <<t>> \in Seq(Seq(C)) /\ Held(chunks \o <<t>>) = Held(chunks) \cup Held(<<t>>)
  BY <1>2, HeldJoin
<1> QED BY <1>1, <1>2, <1>3

LEMMA HeldNone ==
  /\ Letters(<<>>) = {} /\ Held(<<>>) = {}
  /\ \A C : <<>> \in Seq(C) /\ <<>> \in Seq(Seq(C))
BY DEF Letters, Held

LEMMA LettersPart ==
  ASSUME NEW C, NEW t \in Seq(C), NEW m \in 1..(Len(t) + 1), NEW n \in 0..Len(t)
  PROVE  SubSeq(t, m, n) \in Seq(C) /\ \A i \in m..n : t[i] \in Letters(SubSeq(t, m, n))
<1>1. /\ SubSeq(t, m, n) \in Seq(C)
      /\ DOMAIN SubSeq(t, m, n) = 1..(n - m + 1) /\ \A i \in 1..(n - m + 1) : SubSeq(t, m, n)[i] = t[m + i - 1]
  OBVIOUS
<1>2. \A i \in m..n : i - m + 1 \in 1..(n - m + 1) /\ m + (i - m + 1) - 1 = i
  OBVIOUS
<1> QED BY <1>1, <1>2 DEF Letters

-----------------------------------------------------------------------------
(* What the sizes have to be: UploadAssumption. *)
Sized(size, overlap) ==
  /\ Window \in Nat \ {0} /\ Least \in Nat \ {0}
  /\ size \in Nat /\ Window <= size /\ overlap \in Nat \ {1}

(* A piece of a long line, and where the next one starts. *)
PieceEnd(line, size, start) ==
  IF start + size < Len(line) THEN _find_sentence_boundary(line, start + size, Window) ELSE start + size
Piece(line, size, start) == SubSeq(line, start + 1, Min({PieceEnd(line, size, start), Len(line)}))
NextStart(line, size, overlap, start) ==
  LET back == PieceEnd(line, size, start) - overlap
      next == IF overlap > 0 /\ back > start
              THEN _find_sentence_boundary(line, back, Half(overlap))
              ELSE back
  IN  Max({next, start + 1})

LEMMA PieceIs ==
  ASSUME NEW C, NEW line \in Seq(C), NEW size, NEW overlap, Sized(size, overlap),
         NEW start \in Nat, start < Len(line)
  PROVE  \E end \in 0..Len(line) :
           /\ Piece(line, size, start) \in Seq(C)
           /\ \A i \in (start + 1)..end : line[i] \in Letters(Piece(line, size, start))
           /\ NextStart(line, size, overlap, start) \in Nat
           /\ start < NextStart(line, size, overlap, start)
           /\ NextStart(line, size, overlap, start) <= end \/ end = Len(line)
<1> DEFINE end == PieceEnd(line, size, start)
           last == Min({end, Len(line)})
           back == end - overlap
           next == IF overlap > 0 /\ back > start
                   THEN _find_sentence_boundary(line, back, Half(overlap))
                   ELSE back
<1>1. size \in Nat \ {0} /\ Window \in Nat \ {0} /\ Window <= size /\ overlap \in Nat \ {1} /\ Len(line) \in Nat
  BY DEF Sized
<1>2. end \in Nat /\ start < end /\ (end <= Len(line) \/ end > Len(line))
  <2>1. CASE start + size < Len(line)
    <3>1. start + size \in 0..Len(line)
      BY <1>1, <2>1
    <3>2. end = _find_sentence_boundary(line, start + size, Window)
      BY <2>1 DEF PieceEnd
    <3> HIDE DEF end
    <3>3. end \in Nat /\ start + size - Window < end
      BY <1>1, <3>1, <3>2, BoundaryIs
    <3> QED BY <1>1, <3>3
  <2>2. CASE ~(start + size < Len(line))
    <3>1. end = start + size
      BY <2>2 DEF PieceEnd
    <3> HIDE DEF end
    <3> QED BY <1>1, <3>1
  <2> QED BY <2>1, <2>2
<1> HIDE DEF end
<1>3. last \in 0..Len(line) /\ start < last /\ last <= end /\ (last = end \/ last = Len(line))
  BY <1>1, <1>2, SmallerOf
<1>4. Piece(line, size, start) = SubSeq(line, start + 1, last)
  BY DEF Piece, end
<1> HIDE DEF last
<1>5. start + 1 \in 1..(Len(line) + 1)
  BY <1>1
<1>6. Piece(line, size, start) \in Seq(C) /\ \A i \in (start + 1)..last : line[i] \in Letters(Piece(line, size, start))
  BY <1>3, <1>4, <1>5, LettersPart
<1>7. back \in Int
  BY <1>1, <1>2
<1>8. next \in Int /\ (next <= end \/ last = Len(line))
  <2>1. CASE overlap > 0 /\ back > start
    <3>1. Half(overlap) \in Nat \ {0} /\ Half(overlap) <= overlap
      BY <1>1, <2>1 DEF Half
    <3>2. back \in Nat /\ back + overlap = end
      BY <1>1, <1>2, <1>7, <2>1
    <3>3. next = _find_sentence_boundary(line, back, Half(overlap))
      BY <2>1
    <3> HIDE DEF next, back
    <3>4. next \in Nat /\ next <= back + Half(overlap)
      BY <3>1, <3>2, <3>3, BoundaryIs
    <3> QED BY <1>1, <1>2, <3>1, <3>2, <3>4
  <2>2. CASE ~(overlap > 0 /\ back > start)
    <3>1. next = back
      BY <2>2
    <3> QED BY <1>1, <1>2, <1>7, <3>1
  <2> QED BY <2>1, <2>2
<1>9. NextStart(line, size, overlap, start) = Max({next, start + 1})
  BY DEF NextStart, end
<1> HIDE DEF next, back
<1>10. /\ NextStart(line, size, overlap, start) \in Nat /\ start < NextStart(line, size, overlap, start)
       /\ NextStart(line, size, overlap, start) <= last \/ last = Len(line)
  BY <1>1, <1>2, <1>3, <1>8, <1>9, LargerOf
<1> QED BY <1>3, <1>6, <1>10

-----------------------------------------------------------------------------
(* The pieces of a line as a function of where they start. *)
Cutting(line, size, overlap, piece) ==
  piece = [start \in Nat |->
             IF start >= Len(line) THEN <<>>
             ELSE <<Piece(line, size, start)>> \o piece[NextStart(line, size, overlap, start)]]

LEMMA PiecesExist ==
  ASSUME NEW C, NEW line \in Seq(C), NEW size, NEW overlap, Sized(size, overlap)
  PROVE  \E piece : Cutting(line, size, overlap, piece)
<1> DEFINE G(f, s) == IF s >= Len(line) THEN <<>>
                      ELSE <<Piece(line, size, s)>> \o f[NextStart(line, size, overlap, s)]
           S == {n \in Nat : \E f : f = [s \in Nat |-> f[s]] /\ \A s \in Nat : s + n >= Len(line) => f[s] = G(f, s)}
<1>1. Len(line) \in Nat
  OBVIOUS
<1>2. \A s \in Nat : s < Len(line) => NextStart(line, size, overlap, s) \in Nat /\ s < NextStart(line, size, overlap, s)
  BY PieceIs
<1>3. 0 \in S
  <2> DEFINE f == [s \in Nat |-> <<>>]
  <2>1. f = [s \in Nat |-> f[s]] /\ \A s \in Nat : s + 0 >= Len(line) => f[s] = G(f, s)
    BY <1>1
  <2> HIDE DEF f, G
  <2> QED BY <2>1
<1>4. ASSUME NEW n \in Nat, n \in S PROVE n + 1 \in S
  <2>1. PICK f : f = [s \in Nat |-> f[s]] /\ \A s \in Nat : s + n >= Len(line) => f[s] = G(f, s)
    BY <1>4
  <2> DEFINE g == [s \in Nat |-> IF s + (n + 1) >= Len(line) THEN G(f, s) ELSE f[s]]
  <2>2. \A s \in Nat : s + n >= Len(line) => g[s] = f[s]
    <3> HIDE DEF G
    <3> QED BY <1>1, <2>1
  <2>3. \A s \in Nat : s + (n + 1) >= Len(line) => G(g, s) = G(f, s)
    <3> TAKE s \in Nat
    <3> HAVE s + (n + 1) >= Len(line)
    <3>1. CASE s >= Len(line)
      BY <3>1
    <3>2. CASE ~(s >= Len(line))
      <4>1. NextStart(line, size, overlap, s) \in Nat /\ NextStart(line, size, overlap, s) + n >= Len(line)
        BY <1>1, <1>2, <3>2
      <4>2. g[NextStart(line, size, overlap, s)] = f[NextStart(line, size, overlap, s)]
        BY <2>2, <4>1
      <4> HIDE DEF g
      <4> QED BY <4>2
    <3> QED BY <3>1, <3>2
  <2>4. \A s \in Nat : s + (n + 1) >= Len(line) => g[s] = G(g, s)
    <3> HIDE DEF G
    <3> QED BY <2>3
  <2>5. g = [s \in Nat |-> g[s]]
    OBVIOUS
  <2> HIDE DEF g, G
  <2> QED BY <2>4, <2>5
<1>5. Len(line) \in S
  <2> HIDE DEF S
  <2> QED BY <1>1, <1>3, <1>4, Counted
<1>6. PICK f : f = [s \in Nat |-> f[s]] /\ \A s \in Nat : s + Len(line) >= Len(line) => f[s] = G(f, s)
  BY <1>5
<1>7. \A s \in Nat : f[s] = G(f, s)
  <2> HIDE DEF G
  <2>1. \A s \in Nat : s + Len(line) >= Len(line)
    BY <1>1
  <2> QED BY <1>6, <2>1
<1>8. f = [s \in Nat |-> G(f, s)]
  <2> HIDE DEF G
  <2> QED BY <1>6, <1>7
<1> QED BY <1>8 DEF Cutting

LEMMA PiecesAre ==
  ASSUME NEW C, NEW line \in Seq(C), NEW size, NEW overlap, Sized(size, overlap)
  PROVE  Pieces(line, size, overlap) \in Seq(Seq(C)) /\ Letters(line) \subseteq Held(Pieces(line, size, overlap))
<1> DEFINE piece == CHOOSE piece : Cutting(line, size, overlap, piece)
           Rest(s) == {line[i] : i \in (s + 1)..Len(line)}
           Good(s) == piece[s] \in Seq(Seq(C)) /\ Rest(s) \subseteq Held(piece[s])
           S == {n \in Nat : \A s \in Nat : s + n >= Len(line) => Good(s)}
<1>1. Cutting(line, size, overlap, piece)
  BY PiecesExist
<1>2. Pieces(line, size, overlap) = piece[0]
  BY DEF Pieces, Cutting, Piece, NextStart, PieceEnd
<1> HIDE DEF piece
<1>3. Len(line) \in Nat /\ DOMAIN line = 1..Len(line)
  OBVIOUS
<1>4. \A s \in Nat : piece[s] = IF s >= Len(line) THEN <<>>
                                 ELSE <<Piece(line, size, s)>> \o piece[NextStart(line, size, overlap, s)]
  BY <1>1 DEF Cutting
<1>5. \A s \in Nat : s >= Len(line) => Good(s)
  <2> TAKE s \in Nat
  <2> HAVE s >= Len(line)
  <2>1. piece[s] = <<>>
    BY <1>4
  <2>2. Rest(s) = {}
    <3>1. \A i \in (s + 1)..Len(line) : FALSE
      BY <1>3
    <3> QED BY <3>1
  <2> QED BY <2>1, <2>2, HeldNone
<1>6. 0 \in S
  <2> HIDE DEF Good
  <2> QED BY <1>3, <1>5
<1>7. ASSUME NEW n \in Nat, n \in S PROVE n + 1 \in S
  <2>0. \A s \in Nat : s + n >= Len(line) => Good(s)
    BY <1>7
  <2> SUFFICES ASSUME NEW s \in Nat, s + (n + 1) >= Len(line), ~(s >= Len(line)) PROVE Good(s)
    <3> HIDE DEF Good
    <3> QED BY <1>5
  <2> DEFINE this == Piece(line, size, s)
             next == NextStart(line, size, overlap, s)
  <2>1. PICK end \in 0..Len(line) :
          /\ this \in Seq(C)
          /\ \A i \in (s + 1)..end : line[i] \in Letters(this)
          /\ next \in Nat
          /\ s < next
          /\ next <= end \/ end = Len(line)
    <3>1. s < Len(line)
      BY <1>3
    <3> QED BY <3>1, PieceIs
  <2>2. piece[s] = <<this>> \o piece[next]
    BY <1>4
  <2> HIDE DEF this, next
  <2>3. piece[next] \in Seq(Seq(C)) /\ Rest(next) \subseteq Held(piece[next])
    <3>1. next + n >= Len(line)
      <4>1. s \in Nat /\ n \in Nat /\ s + (n + 1) >= Len(line) /\ next \in Nat /\ s < next
        BY <2>1
      <4> HIDE DEF S, Good
      <4> QED BY <1>3, <4>1
    <3>2. Good(next)
      <4> HIDE DEF Good
      <4> QED BY <2>0, <2>1, <3>1
    <3> QED BY <3>2
  <2>4. piece[s] \in Seq(Seq(C)) /\ Held(piece[s]) = Letters(this) \cup Held(piece[next])
    <3>1. this \in Seq(C) /\ piece[next] \in Seq(Seq(C))
      BY <2>1, <2>3
    <3>2. <<this>> \in Seq(Seq(C)) /\ Held(<<this>>) = Letters(this)
      BY <3>1, HeldOne
    <3>3. /\ <<this>> \o piece[next] \in Seq(Seq(C))
          /\ Held(<<this>> \o piece[next]) = Held(<<this>>) \cup Held(piece[next])
      BY <3>1, <3>2, HeldJoin
    <3> QED BY <2>2, <3>2, <3>3
  <2>5. \A i \in (s + 1)..Len(line) : i \in (s + 1)..end \/ i \in (next + 1)..Len(line)
    <3> HIDE DEF S, Good, Rest
    <3>1. end \in 0..Len(line)
      OBVIOUS
    <3>2. end \in Nat
      BY <1>3, <3>1
    <3>3. next \in Nat /\ (next <= end \/ end = Len(line))
      BY <2>1
    <3> SUFFICES ASSUME NEW i \in (s + 1)..Len(line) PROVE i \in (s + 1)..end \/ i \in (next + 1)..Len(line)
      OBVIOUS
    <3>4. i \in Int /\ s + 1 <= i /\ i <= Len(line)
      BY <1>3
    <3>5. CASE i <= end
      BY <3>2, <3>4, <3>5
    <3>6. CASE ~(i <= end)
      <4>1. Len(line) \in Nat
        BY <1>3
      <4>2. next <= end
        BY <3>2, <3>3, <3>4, <3>6, <4>1
      <4>3. next + 1 <= i
        BY <3>2, <3>3, <3>4, <3>6, <4>2
      <4>4. i \in (next + 1)..Len(line)
        BY <3>3, <3>4, <4>1, <4>3
      <4> QED BY <4>4
    <3> QED BY <3>5, <3>6
  <2>6. \A i \in (next + 1)..Len(line) : line[i] \in Held(piece[next])
    BY <2>3
  <2> QED BY <2>1, <2>4, <2>5, <2>6
<1>8. Len(line) \in S
  <2> HIDE DEF S
  <2> QED BY <1>3, <1>6, <1>7, Counted
<1>9. piece[0] \in Seq(Seq(C)) /\ Rest(0) \subseteq Held(piece[0])
  <2>1. 0 + Len(line) >= Len(line)
    BY <1>3
  <2>2. Good(0)
    <3> HIDE DEF Good
    <3> QED BY <1>8, <2>1
  <2> QED BY <2>2
<1>10. Rest(0) = Letters(line)
  BY <1>3 DEF Letters
<1> QED BY <1>2, <1>9, <1>10

-----------------------------------------------------------------------------
(* What has been taken in so far, and what it holds. *)
Taken(C) == [chunks : Seq(Seq(C)), current : Seq(C)]
Cover(acc) == Held(acc.chunks) \cup Letters(acc.current)

LEMMA FlushedIs ==
  ASSUME NEW C, NEW acc \in Taken(C)
  PROVE  Flushed(acc) \in Seq(Seq(C)) /\ Held(Flushed(acc)) = Cover(acc)
<1>1. acc.chunks \in Seq(Seq(C)) /\ acc.current \in Seq(C)
  BY DEF Taken
<1>2. CASE acc.current = <<>>
  <2>1. Flushed(acc) = acc.chunks
    BY <1>2 DEF Flushed
  <2> QED BY <1>1, <1>2, <2>1, HeldNone DEF Cover
<1>3. CASE acc.current # <<>>
  <2>1. Flushed(acc) = Append(acc.chunks, acc.current)
    BY <1>3 DEF Flushed
  <2>2. /\ Append(acc.chunks, acc.current) \in Seq(Seq(C))
        /\ Held(Append(acc.chunks, acc.current)) = Held(acc.chunks) \cup Letters(acc.current)
    BY <1>1, HeldAppend
  <2> QED BY <2>1, <2>2 DEF Cover
<1> QED BY <1>2, <1>3

LEMMA TakenIs ==
  ASSUME NEW C, NEW chunks \in Seq(Seq(C)), NEW current \in Seq(C)
  PROVE  /\ [chunks |-> chunks, current |-> current] \in Taken(C)
         /\ Cover([chunks |-> chunks, current |-> current]) = Held(chunks) \cup Letters(current)
BY DEF Taken, Cover

LEMMA GapJoins ==
  ASSUME NEW C, NEW s \in Seq(C), NEW gap \in Seq(C), NEW t \in Seq(C)
  PROVE  /\ s \o gap \o t \in Seq(C)
         /\ Letters(s \o gap \o t) = Letters(s) \cup Letters(gap) \cup Letters(t)
<1>1. s \o gap \in Seq(C) /\ Letters(s \o gap) = Letters(s) \cup Letters(gap)
  BY LettersJoin
<1> DEFINE u == s \o gap
<1>2. u \in Seq(C) /\ s \o gap \o t = u \o t /\ Letters(u) = Letters(s) \cup Letters(gap)
  BY <1>1
<1> HIDE DEF u
<1>3. u \o t \in Seq(C) /\ Letters(u \o t) = Letters(u) \cup Letters(t)
  BY <1>2, LettersJoin
<1> QED BY <1>2, <1>3

(* One line of a long paragraph, as ByLines takes it in. *)
TakeLine(acc, line, size, overlap) ==
  LET candidate == IF acc.current = <<>> THEN line ELSE acc.current \o <<Break>> \o line
  IN  IF Len(line) > size
      THEN [chunks |-> Flushed(acc) \o Pieces(line, size, overlap), current |-> <<>>]
      ELSE IF Len(candidate) > size /\ acc.current # <<>>
      THEN [chunks |-> Flushed(acc), current |-> line]
      ELSE [acc EXCEPT !.current = candidate]

LEMMA LineTaken ==
  ASSUME NEW C, Break \in C, NEW size, NEW overlap, Sized(size, overlap),
         NEW acc \in Taken(C), NEW line \in Seq(C)
  PROVE  /\ TakeLine(acc, line, size, overlap) \in Taken(C)
         /\ Cover(acc) \cup Letters(line) \subseteq Cover(TakeLine(acc, line, size, overlap))
<1> DEFINE candidate == IF acc.current = <<>> THEN line ELSE acc.current \o <<Break>> \o line
<1>1. acc.chunks \in Seq(Seq(C)) /\ acc.current \in Seq(C)
  BY DEF Taken
<1>2. Flushed(acc) \in Seq(Seq(C)) /\ Held(Flushed(acc)) = Cover(acc)
  BY FlushedIs
<1>3. candidate \in Seq(C) /\ Letters(acc.current) \cup Letters(line) \subseteq Letters(candidate)
  <2>1. CASE acc.current = <<>>
    BY <2>1, HeldNone
  <2>2. CASE acc.current # <<>>
    <3>1. candidate = acc.current \o <<Break>> \o line
      BY <2>2
    <3> DEFINE gap == <<Break>>
               current == acc.current
    <3>2. gap \in Seq(C) /\ current \in Seq(C)
      BY <1>1
    <3> HIDE DEF gap, current
    <3>3. /\ current \o gap \o line \in Seq(C)
          /\ Letters(current \o gap \o line) = Letters(current) \cup Letters(gap) \cup Letters(line)
      BY <3>2, GapJoins
    <3> USE DEF gap, current
    <3> HIDE DEF candidate
    <3> QED BY <3>1, <3>3
  <2> QED BY <2>1, <2>2
<1>4. CASE Len(line) > size
  <2>1. TakeLine(acc, line, size, overlap)
          = [chunks |-> Flushed(acc) \o Pieces(line, size, overlap), current |-> <<>>]
    BY <1>4 DEF TakeLine
  <2>2. Pieces(line, size, overlap) \in Seq(Seq(C)) /\ Letters(line) \subseteq Held(Pieces(line, size, overlap))
    BY PiecesAre
  <2>3. /\ Flushed(acc) \o Pieces(line, size, overlap) \in Seq(Seq(C))
        /\ Held(Flushed(acc) \o Pieces(line, size, overlap)) = Cover(acc) \cup Held(Pieces(line, size, overlap))
    BY <1>2, <2>2, HeldJoin
  <2>4. /\ TakeLine(acc, line, size, overlap) \in Taken(C)
        /\ Cover(TakeLine(acc, line, size, overlap))
             = Held(Flushed(acc) \o Pieces(line, size, overlap)) \cup Letters(<<>>)
    <3> DEFINE all == Flushed(acc) \o Pieces(line, size, overlap)
               none == <<>>
    <3>1. none \in Seq(C) /\ all \in Seq(Seq(C))
      BY <2>3
    <3> HIDE DEF all, none
    <3>2. /\ [chunks |-> all, current |-> none] \in Taken(C)
          /\ Cover([chunks |-> all, current |-> none]) = Held(all) \cup Letters(none)
      BY <3>1, TakenIs
    <3> QED BY <2>1, <3>2 DEF all, none
  <2> QED BY <2>2, <2>3, <2>4
<1>5. CASE ~(Len(line) > size) /\ Len(candidate) > size /\ acc.current # <<>>
  <2>1. TakeLine(acc, line, size, overlap) = [chunks |-> Flushed(acc), current |-> line]
    BY <1>5 DEF TakeLine
  <2>2. /\ TakeLine(acc, line, size, overlap) \in Taken(C)
        /\ Cover(TakeLine(acc, line, size, overlap)) = Held(Flushed(acc)) \cup Letters(line)
    BY <1>2, <2>1, TakenIs
  <2> QED BY <1>2, <2>2
<1>6. CASE ~(Len(line) > size) /\ ~(Len(candidate) > size /\ acc.current # <<>>)
  <2>1. TakeLine(acc, line, size, overlap) = [chunks |-> acc.chunks, current |-> candidate]
    BY <1>6 DEF TakeLine, Taken
  <2> HIDE DEF candidate
  <2>2. /\ TakeLine(acc, line, size, overlap) \in Taken(C)
        /\ Cover(TakeLine(acc, line, size, overlap)) = Held(acc.chunks) \cup Letters(candidate)
    BY <1>1, <1>3, <2>1, TakenIs
  <2> QED BY <1>3, <2>2 DEF Cover
<1> QED BY <1>4, <1>5, <1>6

-----------------------------------------------------------------------------
(* The lines of a long paragraph. *)
LEMMA ByLinesIs ==
  ASSUME NEW C, Break \in C, NEW size, NEW overlap, Sized(size, overlap), NEW lines \in Seq(Seq(C))
  PROVE  /\ ByLines(lines, size, overlap) \in Seq(Seq(C))
         /\ Held(lines) \subseteq Held(ByLines(lines, size, overlap))
<1> DEFINE n == Len(lines)
           base == [chunks |-> <<>>, current |-> <<>>]
           take(acc, line) == TakeLine(acc, line, size, overlap)
           T == [x \in Taken(C) \X (1..n) |-> take(x[1], lines[x[2]])]
           fold == CHOOSE f : f = [s \in SUBSET DOMAIN lines |->
                     IF s = {} THEN base ELSE take(f[s \ {Max(s)}], lines[Max(s)])]
<1>1. n \in Nat /\ DOMAIN lines = 1..n /\ \A i \in 1..n : lines[i] \in Seq(C)
  OBVIOUS
<1>2. base \in Taken(C)
  BY TakenIs, HeldNone
<1>3. \A acc \in Taken(C) : \A i \in 1..n :
         /\ take(acc, lines[i]) \in Taken(C)
         /\ Cover(acc) \cup Letters(lines[i]) \subseteq Cover(take(acc, lines[i]))
  BY <1>1, LineTaken
<1>4. fold = [s \in SUBSET DOMAIN lines |->
                IF s = {} THEN base ELSE take(fold[s \ {Max(s)}], lines[Max(s)])]
  <2>0. \A acc \in Taken(C) : \A i \in 1..n : T[<<acc, i>>] = take(acc, lines[i])
    <3> HIDE DEF take, n
    <3> QED OBVIOUS
  <2>1. T \in [Taken(C) \X (1..n) -> Taken(C)]
    <3> HIDE DEF take, n
    <3> QED BY <1>3
  <2> HIDE DEF T, take, base, n
  <2>2. PICK iter \in [SUBSET (1..n) -> Taken(C)] :
           \A s \in SUBSET (1..n) : iter[s] = IF s = {} THEN base ELSE T[<<iter[s \ {Max(s)}], Max(s)>>]
    <3>1. n \in Nat
      BY <1>1
    <3> DEFINE W == Taken(C)
    <3>2. base \in W /\ T \in [W \X (1..n) -> W]
      BY <1>2, <2>1
    <3> HIDE DEF W, fold
    <3>3. \E iter \in [SUBSET (1..n) -> W] : Folding(n, base, T, iter)
      BY <3>1, <3>2, FoldExists
    <3> QED BY <3>3 DEF W, Folding
  <2>3. \A s \in SUBSET (1..n) : s # {} => Max(s) \in 1..n /\ s \ {Max(s)} \in SUBSET (1..n)
    BY <1>1, LargestOf
  <2>4. \A s \in SUBSET (1..n) : s # {} => T[<<iter[s \ {Max(s)}], Max(s)>>] = take(iter[s \ {Max(s)}], lines[Max(s)])
    BY <2>0, <2>2, <2>3
  <2>5. iter = [s \in SUBSET DOMAIN lines |-> IF s = {} THEN base ELSE take(iter[s \ {Max(s)}], lines[Max(s)])]
    <3>1. iter = [s \in SUBSET DOMAIN lines |-> iter[s]]
      BY <1>1, <2>2
    <3>2. \A s \in SUBSET DOMAIN lines : iter[s] = IF s = {} THEN base ELSE take(iter[s \ {Max(s)}], lines[Max(s)])
      BY <1>1, <2>2, <2>4
    <3> QED BY <3>1, <3>2
  <2> QED BY <2>5
<1>5. ByLines(lines, size, overlap) = Flushed(fold[DOMAIN lines])
  BY DEF ByLines, FoldLeft, MapThenFoldSet, TakeLine
<1> HIDE DEF fold, take
<1>6. fold[1..0] = base
  <2>1. 1..0 = {}
    OBVIOUS
  <2> QED BY <1>4, <2>1
<1>7. \A k \in 1..n : fold[1..k] = take(fold[1..(k - 1)], lines[k])
  <2> TAKE k \in 1..n
  <2>1. (1..k) \in SUBSET DOMAIN lines /\ (1..k) # {} /\ Max(1..k) = k /\ (1..k) \ {k} = 1..(k - 1)
    BY <1>1, FoldStep
  <2> HIDE DEF n
  <2> QED BY <1>4, <2>1
<1> DEFINE Good(k) == fold[1..k] \in Taken(C) /\ \A i \in 1..k : Letters(lines[i]) \subseteq Cover(fold[1..k])
           S == {k \in Nat : k <= n => Good(k)}
<1>8. 0 \in S
  BY <1>2, <1>6
<1>9. ASSUME NEW k \in Nat, k \in S PROVE k + 1 \in S
  <2> SUFFICES ASSUME k + 1 <= n PROVE Good(k + 1)
    <3> HIDE DEF Good
    <3> QED OBVIOUS
  <2>1. k <= n /\ k + 1 \in 1..n /\ (k + 1) - 1 = k
    BY <1>1
  <2>2. Good(k)
    <3> HIDE DEF Good
    <3> QED BY <1>9, <2>1
  <2>3. fold[1..(k + 1)] = take(fold[1..k], lines[k + 1])
    BY <1>7, <2>1
  <2>4. /\ fold[1..(k + 1)] \in Taken(C)
        /\ Cover(fold[1..k]) \cup Letters(lines[k + 1]) \subseteq Cover(fold[1..(k + 1)])
    BY <1>3, <2>1, <2>2, <2>3
  <2>5. \A i \in 1..(k + 1) : i \in 1..k \/ i = k + 1
    OBVIOUS
  <2> QED BY <2>2, <2>4, <2>5
<1>10. n \in S
  <2> HIDE DEF S
  <2> QED BY <1>1, <1>8, <1>9, Counted
<1>11. fold[DOMAIN lines] \in Taken(C) /\ Held(lines) \subseteq Cover(fold[DOMAIN lines])
  <2>1. Good(n)
    <3> HIDE DEF Good
    <3> QED BY <1>1, <1>10
  <2> HIDE DEF n
  <2> QED BY <1>1, <2>1 DEF Held
<1> QED BY <1>5, <1>11, FlushedIs

-----------------------------------------------------------------------------
(* The lines of a paragraph put together. *)
AddLine(text, line) == IF text = <<>> THEN line ELSE text \o <<Break>> \o line

LEMMA LineAdded ==
  ASSUME NEW C, Break \in C, NEW text \in Seq(C), NEW line \in Seq(C)
  PROVE  AddLine(text, line) \in Seq(C) /\ Letters(AddLine(text, line)) \subseteq Letters(text) \cup Letters(line) \cup {Break}
<1>1. CASE text = <<>>
  BY <1>1 DEF AddLine
<1>2. CASE text # <<>>
  <2>1. AddLine(text, line) = text \o <<Break>> \o line
    BY <1>2 DEF AddLine
  <2> DEFINE gap == <<Break>>
  <2>2. gap \in Seq(C) /\ Letters(gap) = {Break}
    <3>1. DOMAIN gap = {1} /\ gap[1] = Break
      OBVIOUS
    <3> QED BY <3>1 DEF Letters
  <2> HIDE DEF gap
  <2>3. /\ text \o gap \o line \in Seq(C)
        /\ Letters(text \o gap \o line) = Letters(text) \cup Letters(gap) \cup Letters(line)
    BY <2>2, GapJoins
  <2> QED BY <2>1, <2>2, <2>3 DEF gap
<1> QED BY <1>1, <1>2

LEMMA JoinedIs ==
  ASSUME NEW C, Break \in C, NEW lines \in Seq(Seq(C))
  PROVE  Joined(lines) \in Seq(C) /\ Letters(Joined(lines)) \subseteq Held(lines) \cup {Break}
<1> DEFINE n == Len(lines)
           base == <<>>
           T == [x \in Seq(C) \X (1..n) |-> AddLine(x[1], lines[x[2]])]
           fold == CHOOSE f : f = [s \in SUBSET DOMAIN lines |->
                     IF s = {} THEN base ELSE AddLine(f[s \ {Max(s)}], lines[Max(s)])]
<1>1. n \in Nat /\ DOMAIN lines = 1..n /\ \A i \in 1..n : lines[i] \in Seq(C)
  OBVIOUS
<1>2. base \in Seq(C) /\ Letters(base) = {}
  BY HeldNone
<1>3. \A text \in Seq(C) : \A i \in 1..n :
         /\ AddLine(text, lines[i]) \in Seq(C)
         /\ Letters(AddLine(text, lines[i])) \subseteq Letters(text) \cup Letters(lines[i]) \cup {Break}
  BY <1>1, LineAdded
<1>4. fold = [s \in SUBSET DOMAIN lines |->
                IF s = {} THEN base ELSE AddLine(fold[s \ {Max(s)}], lines[Max(s)])]
  <2>0. \A text \in Seq(C) : \A i \in 1..n : T[<<text, i>>] = AddLine(text, lines[i])
    <3> HIDE DEF n
    <3> QED OBVIOUS
  <2>1. T \in [Seq(C) \X (1..n) -> Seq(C)]
    <3> HIDE DEF n
    <3> QED BY <1>3
  <2> HIDE DEF T, base, n
  <2>2. PICK iter \in [SUBSET (1..n) -> Seq(C)] : Folding(n, base, T, iter)
    <3>1. n \in Nat
      BY <1>1
    <3> DEFINE W == Seq(C)
    <3>2. base \in W /\ T \in [W \X (1..n) -> W]
      BY <1>2, <2>1
    <3> HIDE DEF W, fold
    <3>3. \E iter \in [SUBSET (1..n) -> W] : Folding(n, base, T, iter)
      BY <3>1, <3>2, FoldExists
    <3> QED BY <3>3 DEF W
  <2>3. \A s \in SUBSET (1..n) : s # {} => Max(s) \in 1..n /\ s \ {Max(s)} \in SUBSET (1..n)
    BY <1>1, LargestOf
  <2>4. \A s \in SUBSET (1..n) : s # {} => T[<<iter[s \ {Max(s)}], Max(s)>>] = AddLine(iter[s \ {Max(s)}], lines[Max(s)])
    BY <2>0, <2>2, <2>3
  <2>5. iter = [s \in SUBSET DOMAIN lines |-> IF s = {} THEN base ELSE AddLine(iter[s \ {Max(s)}], lines[Max(s)])]
    <3>1. iter = [s \in SUBSET DOMAIN lines |-> iter[s]]
      BY <1>1, <2>2
    <3>2. \A s \in SUBSET DOMAIN lines : iter[s] = IF s = {} THEN base ELSE AddLine(iter[s \ {Max(s)}], lines[Max(s)])
      BY <1>1, <2>2, <2>4 DEF Folding
    <3> QED BY <3>1, <3>2
  <2> QED BY <2>5
<1>5. Joined(lines) = fold[DOMAIN lines]
  BY DEF Joined, FoldLeft, MapThenFoldSet, AddLine
<1> HIDE DEF fold
<1>6. fold[1..0] = base
  <2>1. 1..0 = {}
    OBVIOUS
  <2> QED BY <1>4, <2>1
<1>7. \A k \in 1..n : fold[1..k] = AddLine(fold[1..(k - 1)], lines[k])
  <2> TAKE k \in 1..n
  <2>1. (1..k) \in SUBSET DOMAIN lines /\ (1..k) # {} /\ Max(1..k) = k /\ (1..k) \ {k} = 1..(k - 1)
    BY <1>1, FoldStep
  <2> HIDE DEF n
  <2> QED BY <1>4, <2>1
<1> DEFINE Good(k) == fold[1..k] \in Seq(C) /\ Letters(fold[1..k]) \subseteq Held(lines) \cup {Break}
           S == {k \in Nat : k <= n => Good(k)}
<1>8. 0 \in S
  BY <1>2, <1>6
<1>9. ASSUME NEW k \in Nat, k \in S PROVE k + 1 \in S
  <2> SUFFICES ASSUME k + 1 <= n PROVE Good(k + 1)
    <3> HIDE DEF Good
    <3> QED OBVIOUS
  <2>1. k <= n /\ k + 1 \in 1..n /\ (k + 1) - 1 = k
    BY <1>1
  <2>2. Good(k)
    <3> HIDE DEF Good
    <3> QED BY <1>9, <2>1
  <2>3. fold[1..(k + 1)] = AddLine(fold[1..k], lines[k + 1])
    BY <1>7, <2>1
  <2>4. /\ fold[1..(k + 1)] \in Seq(C)
        /\ Letters(fold[1..(k + 1)]) \subseteq Letters(fold[1..k]) \cup Letters(lines[k + 1]) \cup {Break}
    BY <1>3, <2>1, <2>2, <2>3
  <2>5. Letters(lines[k + 1]) \subseteq Held(lines)
    BY <1>1, <2>1 DEF Held
  <2> QED BY <2>2, <2>4, <2>5
<1>10. n \in S
  <2> HIDE DEF S
  <2> QED BY <1>1, <1>8, <1>9, Counted
<1>11. Good(n)
  <2> HIDE DEF Good
  <2> QED BY <1>1, <1>10
<1> QED BY <1>1, <1>5, <1>11

-----------------------------------------------------------------------------
(* One paragraph, as _recursive_split takes it in. *)
TailOf(chunk, overlap) ==
  From(chunk, _find_sentence_boundary(chunk, Len(chunk) - overlap, Half(overlap)))
TakeParagraph(acc, lines, size, overlap) ==
  LET paragraph == Joined(lines)
      gap == <<Break, Break>>
      candidate == IF acc.current = <<>> THEN paragraph ELSE acc.current \o gap \o paragraph
  IN  IF Len(paragraph) > size
      THEN [chunks |-> Flushed(acc) \o ByLines(lines, size, overlap), current |-> <<>>]
      ELSE IF Len(candidate) <= size \/ acc.current = <<>>
      THEN [acc EXCEPT !.current = candidate]
      ELSE IF overlap > 0 /\ Len(acc.current) > overlap
      THEN [chunks |-> Flushed(acc), current |-> TailOf(acc.current, overlap) \o gap \o paragraph]
      ELSE [chunks |-> Flushed(acc), current |-> paragraph]

LEMMA TailIs ==
  ASSUME NEW C, NEW chunk \in Seq(C), NEW overlap \in Nat \ {1}, overlap > 0, Len(chunk) > overlap,
         Least \in Nat \ {0}
  PROVE  TailOf(chunk, overlap) \in Seq(C)
<1> DEFINE target == Len(chunk) - overlap
           b == _find_sentence_boundary(chunk, target, Half(overlap))
<1>1. Len(chunk) \in Nat /\ target \in Nat /\ target <= Len(chunk)
  OBVIOUS
<1>2. Half(overlap) \in Nat \ {0}
  BY DEF Half
<1>3. TailOf(chunk, overlap) = SubSeq(chunk, b + 1, Len(chunk))
  BY DEF TailOf, From
<1> HIDE DEF target
<1>4. b \in Nat /\ (b <= Len(chunk) \/ b = target)
  BY <1>1, <1>2, BoundaryIs
<1> HIDE DEF b
<1>5. b + 1 \in 1..(Len(chunk) + 1) /\ Len(chunk) \in 0..Len(chunk)
  BY <1>1, <1>4
<1> QED BY <1>3, <1>5, LettersPart

LEMMA ParagraphTaken ==
  ASSUME NEW C, Break \in C, NEW size, NEW overlap, Sized(size, overlap),
         NEW acc \in Taken(C), NEW lines \in Seq(Seq(C))
  PROVE  /\ TakeParagraph(acc, lines, size, overlap) \in Taken(C)
         /\ Cover(acc) \subseteq Cover(TakeParagraph(acc, lines, size, overlap))
         /\ Letters(Joined(lines)) \ {Break} \subseteq Cover(TakeParagraph(acc, lines, size, overlap))
<1> DEFINE paragraph == Joined(lines)
           gap == <<Break, Break>>
           candidate == IF acc.current = <<>> THEN paragraph ELSE acc.current \o gap \o paragraph
           current == acc.current
           flushed == Flushed(acc)
           pieces == ByLines(lines, size, overlap)
           tail == TailOf(acc.current, overlap)
<1>1. acc.chunks \in Seq(Seq(C)) /\ current \in Seq(C)
  BY DEF Taken
<1>2. flushed \in Seq(Seq(C)) /\ Held(flushed) = Cover(acc)
  BY FlushedIs
<1>3. gap \in Seq(C)
  OBVIOUS
<1>4. paragraph \in Seq(C) /\ Letters(paragraph) \subseteq Held(lines) \cup {Break}
  BY JoinedIs
<1>5. TakeParagraph(acc, lines, size, overlap)
        = IF Len(paragraph) > size
          THEN [chunks |-> flushed \o pieces, current |-> <<>>]
          ELSE IF Len(candidate) <= size \/ current = <<>>
          THEN [chunks |-> acc.chunks, current |-> candidate]
          ELSE IF overlap > 0 /\ Len(current) > overlap
          THEN [chunks |-> flushed, current |-> tail \o gap \o paragraph]
          ELSE [chunks |-> flushed, current |-> paragraph]
  <2>1. TakeParagraph(acc, lines, size, overlap)
          = IF Len(paragraph) > size
            THEN [chunks |-> flushed \o pieces, current |-> <<>>]
            ELSE IF Len(candidate) <= size \/ current = <<>>
            THEN [acc EXCEPT !.current = candidate]
            ELSE IF overlap > 0 /\ Len(current) > overlap
            THEN [chunks |-> flushed, current |-> tail \o gap \o paragraph]
            ELSE [chunks |-> flushed, current |-> paragraph]
    BY DEF TakeParagraph
  <2> HIDE DEF paragraph, gap, candidate, current, flushed, pieces, tail
  <2>2. [acc EXCEPT !.current = candidate] = [chunks |-> acc.chunks, current |-> candidate]
    BY DEF Taken
  <2> QED BY <2>1, <2>2
<1>6. candidate = IF current = <<>> THEN paragraph ELSE current \o gap \o paragraph
  OBVIOUS
<1>7. current = acc.current /\ pieces = ByLines(lines, size, overlap) /\ tail = TailOf(current, overlap) /\ paragraph = Joined(lines)
  OBVIOUS
<1> HIDE DEF paragraph, gap, candidate, current, flushed, pieces, tail
<1>8. candidate \in Seq(C) /\ Letters(current) \cup Letters(paragraph) \subseteq Letters(candidate)
  <2>1. CASE current = <<>>
    BY <1>4, <1>6, <2>1, HeldNone
  <2>2. CASE current # <<>>
    <3>1. /\ current \o gap \o paragraph \in Seq(C)
          /\ Letters(current \o gap \o paragraph) = Letters(current) \cup Letters(gap) \cup Letters(paragraph)
      BY <1>1, <1>3, <1>4, GapJoins
    <3> QED BY <1>6, <2>2, <3>1
  <2> QED BY <2>1, <2>2
<1>9. CASE Len(paragraph) > size
  <2>1. pieces \in Seq(Seq(C)) /\ Held(lines) \subseteq Held(pieces)
    BY <1>7, ByLinesIs
  <2> DEFINE all == flushed \o pieces
             none == <<>>
  <2>2. all \in Seq(Seq(C)) /\ Held(all) = Held(flushed) \cup Held(pieces)
    BY <1>2, <2>1, HeldJoin
  <2>3. none \in Seq(C) /\ TakeParagraph(acc, lines, size, overlap) = [chunks |-> all, current |-> none]
    BY <1>5, <1>9
  <2> HIDE DEF all, none
  <2>4. /\ [chunks |-> all, current |-> none] \in Taken(C)
        /\ Cover([chunks |-> all, current |-> none]) = Held(all) \cup Letters(none)
    BY <2>2, <2>3, TakenIs
  <2> QED BY <1>2, <1>4, <1>7, <2>1, <2>2, <2>3, <2>4
<1>10. CASE ~(Len(paragraph) > size) /\ (Len(candidate) <= size \/ current = <<>>)
  <2>1. TakeParagraph(acc, lines, size, overlap) = [chunks |-> acc.chunks, current |-> candidate]
    BY <1>5, <1>10
  <2>2. /\ [chunks |-> acc.chunks, current |-> candidate] \in Taken(C)
        /\ Cover([chunks |-> acc.chunks, current |-> candidate]) = Held(acc.chunks) \cup Letters(candidate)
    BY <1>1, <1>8, TakenIs
  <2>3. Cover(acc) = Held(acc.chunks) \cup Letters(current)
    BY <1>7 DEF Cover
  <2> QED BY <1>7, <1>8, <2>1, <2>2, <2>3
<1>11. CASE ~(Len(paragraph) > size) /\ ~(Len(candidate) <= size \/ current = <<>>)
            /\ overlap > 0 /\ Len(current) > overlap
  <2>1. tail \in Seq(C)
    <3>1. overlap \in Nat \ {1} /\ Least \in Nat \ {0}
      BY DEF Sized
    <3> QED BY <1>1, <1>7, <1>11, <3>1, TailIs
  <2> DEFINE more == tail \o gap \o paragraph
  <2>2. more \in Seq(C) /\ Letters(more) = Letters(tail) \cup Letters(gap) \cup Letters(paragraph)
    BY <1>3, <1>4, <2>1, GapJoins
  <2>3. TakeParagraph(acc, lines, size, overlap) = [chunks |-> flushed, current |-> more]
    BY <1>5, <1>11
  <2> HIDE DEF more
  <2>4. /\ [chunks |-> flushed, current |-> more] \in Taken(C)
        /\ Cover([chunks |-> flushed, current |-> more]) = Held(flushed) \cup Letters(more)
    BY <1>2, <2>2, TakenIs
  <2> QED BY <1>2, <1>7, <2>2, <2>3, <2>4
<1>12. CASE ~(Len(paragraph) > size) /\ ~(Len(candidate) <= size \/ current = <<>>)
            /\ ~(overlap > 0 /\ Len(current) > overlap)
  <2>1. TakeParagraph(acc, lines, size, overlap) = [chunks |-> flushed, current |-> paragraph]
    BY <1>5, <1>12
  <2>2. /\ [chunks |-> flushed, current |-> paragraph] \in Taken(C)
        /\ Cover([chunks |-> flushed, current |-> paragraph]) = Held(flushed) \cup Letters(paragraph)
    BY <1>2, <1>4, TakenIs
  <2> QED BY <1>2, <1>7, <2>1, <2>2
<1> QED BY <1>9, <1>10, <1>11, <1>12

-----------------------------------------------------------------------------
(* The whole text, paragraph by paragraph. *)
LEMMA SplitIs ==
  ASSUME NEW C, Break \in C, NEW size, NEW overlap, Sized(size, overlap), NEW text \in Seq(Seq(Seq(C)))
  PROVE  /\ _recursive_split(text, size, overlap) \in Seq(Seq(C))
         /\ \A p \in DOMAIN text :
              Letters(Joined(text[p])) \ {Break} \subseteq Held(_recursive_split(text, size, overlap))
<1> DEFINE n == Len(text)
           base == [chunks |-> <<>>, current |-> <<>>]
           take(acc, lines) == TakeParagraph(acc, lines, size, overlap)
           T == [x \in Taken(C) \X (1..n) |-> take(x[1], text[x[2]])]
           fold == CHOOSE f : f = [s \in SUBSET DOMAIN text |->
                     IF s = {} THEN base ELSE take(f[s \ {Max(s)}], text[Max(s)])]
<1>1. n \in Nat /\ DOMAIN text = 1..n /\ \A i \in 1..n : text[i] \in Seq(Seq(C))
  OBVIOUS
<1>2. base \in Taken(C)
  BY TakenIs, HeldNone
<1>3. \A acc \in Taken(C) : \A i \in 1..n :
         /\ take(acc, text[i]) \in Taken(C)
         /\ Cover(acc) \subseteq Cover(take(acc, text[i]))
         /\ Letters(Joined(text[i])) \ {Break} \subseteq Cover(take(acc, text[i]))
  BY <1>1, ParagraphTaken
<1>4. fold = [s \in SUBSET DOMAIN text |->
                IF s = {} THEN base ELSE take(fold[s \ {Max(s)}], text[Max(s)])]
  <2>0. \A acc \in Taken(C) : \A i \in 1..n : T[<<acc, i>>] = take(acc, text[i])
    <3> HIDE DEF take, n
    <3> QED OBVIOUS
  <2>1. T \in [Taken(C) \X (1..n) -> Taken(C)]
    <3> HIDE DEF take, n
    <3> QED BY <1>3
  <2> HIDE DEF T, take, base, n
  <2>2. PICK iter \in [SUBSET (1..n) -> Taken(C)] : Folding(n, base, T, iter)
    <3>1. n \in Nat
      BY <1>1
    <3> DEFINE W == Taken(C)
    <3>2. base \in W /\ T \in [W \X (1..n) -> W]
      BY <1>2, <2>1
    <3> HIDE DEF W, fold
    <3>3. \E iter \in [SUBSET (1..n) -> W] : Folding(n, base, T, iter)
      BY <3>1, <3>2, FoldExists
    <3> QED BY <3>3 DEF W
  <2>3. \A s \in SUBSET (1..n) : s # {} => Max(s) \in 1..n /\ s \ {Max(s)} \in SUBSET (1..n)
    BY <1>1, LargestOf
  <2>4. \A s \in SUBSET (1..n) : s # {} => T[<<iter[s \ {Max(s)}], Max(s)>>] = take(iter[s \ {Max(s)}], text[Max(s)])
    BY <2>0, <2>2, <2>3
  <2>5. iter = [s \in SUBSET DOMAIN text |-> IF s = {} THEN base ELSE take(iter[s \ {Max(s)}], text[Max(s)])]
    <3>1. iter = [s \in SUBSET DOMAIN text |-> iter[s]]
      BY <1>1, <2>2
    <3>2. \A s \in SUBSET DOMAIN text : iter[s] = IF s = {} THEN base ELSE take(iter[s \ {Max(s)}], text[Max(s)])
      BY <1>1, <2>2, <2>4 DEF Folding
    <3> QED BY <3>1, <3>2
  <2> QED BY <2>5
<1>5. _recursive_split(text, size, overlap) = Flushed(fold[DOMAIN text])
  BY DEF _recursive_split, FoldLeft, MapThenFoldSet, TakeParagraph, TailOf
<1> HIDE DEF fold, take
<1>6. fold[1..0] = base
  <2>1. 1..0 = {}
    OBVIOUS
  <2> QED BY <1>4, <2>1
<1>7. \A k \in 1..n : fold[1..k] = take(fold[1..(k - 1)], text[k])
  <2> TAKE k \in 1..n
  <2>1. (1..k) \in SUBSET DOMAIN text /\ (1..k) # {} /\ Max(1..k) = k /\ (1..k) \ {k} = 1..(k - 1)
    BY <1>1, FoldStep
  <2> HIDE DEF n
  <2> QED BY <1>4, <2>1
<1> DEFINE Good(k) == /\ fold[1..k] \in Taken(C)
                      /\ \A i \in 1..k : Letters(Joined(text[i])) \ {Break} \subseteq Cover(fold[1..k])
           S == {k \in Nat : k <= n => Good(k)}
<1>8. 0 \in S
  BY <1>2, <1>6
<1>9. ASSUME NEW k \in Nat, k \in S PROVE k + 1 \in S
  <2> SUFFICES ASSUME k + 1 <= n PROVE Good(k + 1)
    <3> HIDE DEF Good
    <3> QED OBVIOUS
  <2>1. k <= n /\ k + 1 \in 1..n /\ (k + 1) - 1 = k
    BY <1>1
  <2>2. Good(k)
    <3> HIDE DEF Good
    <3> QED BY <1>9, <2>1
  <2>3. fold[1..(k + 1)] = take(fold[1..k], text[k + 1])
    BY <1>7, <2>1
  <2>4. /\ fold[1..(k + 1)] \in Taken(C)
        /\ Cover(fold[1..k]) \subseteq Cover(fold[1..(k + 1)])
        /\ Letters(Joined(text[k + 1])) \ {Break} \subseteq Cover(fold[1..(k + 1)])
    BY <1>3, <2>1, <2>2, <2>3
  <2>5. \A i \in 1..(k + 1) : i \in 1..k \/ i = k + 1
    OBVIOUS
  <2> QED BY <2>2, <2>4, <2>5
<1>10. n \in S
  <2> HIDE DEF S
  <2> QED BY <1>1, <1>8, <1>9, Counted
<1>11. Good(n)
  <2> HIDE DEF Good
  <2> QED BY <1>1, <1>10
<1>12. /\ Flushed(fold[DOMAIN text]) \in Seq(Seq(C))
       /\ Held(Flushed(fold[DOMAIN text])) = Cover(fold[DOMAIN text])
  BY <1>1, <1>11, FlushedIs
<1> QED BY <1>1, <1>5, <1>11, <1>12

(* For every text, every size the window fits in and every overlap but one of a single   *)
(* character: no character of the text is left out of the chunks, wherever the           *)
(* boundaries lie and with or without the word segmentation (_recursive_split).          *)
THEOREM TextWhole ==
  ASSUME NEW C, Break \in C, NEW text \in Seq(Seq(Seq(C))),
         NEW size, NEW overlap, Sized(size, overlap)
  PROVE  Lost(text, size, overlap) = {}
<1> DEFINE split == _recursive_split(text, size, overlap)
           put == UNION {Letters(Joined(text[p])) \ {Break} : p \in DOMAIN text}
           kept == UNION {Letters(c) \ {Break} : c \in ToSet(split)}
<1>1. split \in Seq(Seq(C)) /\ \A p \in DOMAIN text : Letters(Joined(text[p])) \ {Break} \subseteq Held(split)
  BY SplitIs
<1>2. Lost(text, size, overlap) = put \ kept
  BY DEF Lost, Letters
<1> HIDE DEF split
<1>3. Held(split) \ {Break} \subseteq kept
  BY DEF Held, ToSet
<1>4. put \subseteq Held(split) \ {Break}
  BY <1>1
<1> QED BY <1>2, <1>3, <1>4

(* What is uploaded comes into the chunks whole, for any set of texts, sizes, overlaps   *)
(* and tables that upload_document takes.                                                *)
THEOREM UploadHolds == Spec => []UploadWhole
<1>1. LostTexts = {}
  <2>1. Break \in Character
    BY DEF Break, Character
  <2> SUFFICES ASSUME NEW x \in Texts \X Sizes \X Overlaps PROVE Lost(x[1], x[2], x[3]) = {}
    BY DEF LostTexts, Lossy
  <2>2. x[1] \in Seq(Seq(Seq(Character))) /\ Sized(x[2], x[3])
    BY UploadAssumption DEF Sized
  <2> QED BY <2>1, <2>2, TextWhole
<1>2. GarbledTables = {}
  <2> SUFFICES ASSUME NEW table \in Tables PROVE CellsKept(table)
    BY DEF GarbledTables, Garbled
  <2>1. table \in Seq(Seq(STRING))
    BY UploadAssumption
  <2> QED BY <2>1, TableWhole
<1>3. GarbledFiles = {}
  <2> SUFFICES ASSUME NEW file \in CsvFiles PROVE CsvKept(file)
    BY DEF GarbledFiles, GarbledCsv
  <2>1. file \in [tabs : BOOLEAN, rows : Seq(Seq(STRING))]
    BY UploadAssumption
  <2>2. \A n \in DOMAIN file.rows :
          LET texts == Filled(file.rows[n])
          IN  Merge(texts) \in STRING /\ (Merge(texts) = NoText <=> texts = <<>>)
    BY UploadAssumption
  <2> QED BY <2>1, <2>2, CsvWhole
<1>4. UploadWhole
  BY <1>1, <1>2, <1>3 DEF UploadWhole, NoTextLost, NoCellLost
<1> QED BY <1>4, PTL
=============================================================================
