--------------------------- MODULE KnowledgeIndex ---------------------------
(***************************************************************************)
(* Knowledge: rows in the database and the vectors made from them.         *)
(*                                                                         *)
(* An upload, a key/value entry or a deletion commits its rows and leaves   *)
(* the vector store to a background job that runs in a worker thread       *)
(* (knowledge.py).  A rebuild (vector_rebuild.py) runs on the event loop:  *)
(* it reads every row, and from the reset of the index on it awaits        *)
(* nothing, so no request runs beside it, but the worker threads do: the   *)
(* reset takes no lock.  The store is opened by whoever needs it first.    *)
(* A restart drops every job, the mismatch flag and the retry count, and   *)
(* may come up with an embedding model of another dimension.               *)
(***************************************************************************)
EXTENDS Integers, Sequences, FiniteSets, VectorStore, SequencesExt

CONSTANTS
  Chunks, Sources, Tenants,
  Home,        \* the source a chunk belongs to
  Owner,       \* the tenant a source belongs to
  Batches,     \* the sequences of chunks one request commits
  Backends,    \* "faiss", "pgvector"
  Models,      \* dimensions an embedding model may have
  Kept,        \* the chunks an earlier process left behind, indexed
  TopK,
  MaxAutoRetries,  \* _MAX_AUTO_RETRIES, 3 in the code
  MaxEvents    \* bound: questions, manual rebuilds, failures and restarts

ASSUME IndexAssumption ==
  /\ Home \in [Chunks -> Sources] /\ Owner \in [Sources -> Tenants]
  /\ Batches \subseteq Seq(Chunks) \ {<<>>} /\ Kept \in Seq(Chunks)
  /\ Blank \notin Chunks /\ "torn" \notin Chunks   \* the id of a chunk is a generated one
  /\ Backends \subseteq {"faiss", "pgvector"} /\ Models \subseteq Nat \ {0} /\ Models # {}
  /\ TopK \in Nat \ {0} /\ MaxAutoRetries \in Nat

Torn == <<"torn">>
NoStore == [vectors |-> Torn, ids |-> Torn]

VARIABLES
  sources,     \* knowledge_sources
  rows,        \* knowledge_chunks
  used,        \* chunks ever committed: an id is never used twice
  deleting,    \* delete_source between its read and its commit: source -> chunks read
  backend, model,
  store,       \* the open store, or NoStore
  disk,        \* index file and sidecar file, or the table of pgvector
  jobs,        \* background jobs, and the rebuild in progress
  flag, retries, tasks,   \* _dimension_mismatch, _auto_retry_count, auto tasks not begun
  ask,         \* the retrieval under way
  cut,         \* history: a reset or a stop came between a vector and its id
  unsaved,     \* history: the index began anew and the files are still of the old one
  lagging,     \* history: a save failed, and none has ended well since
  excused,     \* history: something happened after which the index may miss a row
  left         \* what the bounds still allow

database == <<sources, rows, used, deleting>>
auto == <<flag, retries, tasks>>
fixed == <<backend, model>>
history == <<cut, unsaved, lagging, excused>>
vars == <<sources, rows, used, deleting, backend, model, store, disk, jobs,
          flag, retries, tasks, ask, cut, unsaved, lagging, excused, left>>

Job(does, items, where) == [does |-> does, items |-> items, at |-> where]
NoAsk == [at |-> "idle", tenant |-> "nobody", gone |-> {}, allowed |-> {}, hits |-> {}]
NoFile == [dim |-> 0, vectors |-> <<>>, ids |-> <<>>]

(* A process starts on what an earlier one committed, indexed and saved. *)
Init ==
  /\ rows = ToSet(Kept) /\ used = rows /\ sources = {Home[c] : c \in rows}
  /\ deleting = <<>>
  /\ backend \in Backends /\ model = CHOOSE m \in Models : TRUE
  /\ \E dim \in Models :
       disk = IF Kept = <<>> THEN NoFile
              ELSE [dim |-> IF backend = "faiss" THEN dim ELSE model,
                    vectors |-> Kept, ids |-> Kept]
  /\ store = NoStore /\ jobs = {}
  /\ flag = FALSE /\ retries = 0 /\ tasks = 0 /\ ask = NoAsk
  /\ cut = FALSE /\ unsaved = FALSE /\ lagging = FALSE /\ excused = FALSE
  /\ left = MaxEvents

(* _rebuild_in_progress *)
Rebuilds(j) == j.does \in {"manual", "auto"}
Rebuilding == \E j \in jobs : Rebuilds(j)
(* From its reset on the rebuild holds the event loop. *)
LoopFree == \A j \in jobs : Rebuilds(j) => j.at \in {"read", "reset"}
(* _write_lock is held between the vectors and the ids of a batch, and between the *)
(* two files of a save.                                                            *)
WriteLocked == \E j \in jobs : j.at \in {"name", "sidecar"}
Writing(where) == \E j \in jobs : j.at = where
Goes(j, where) == (jobs \ {j}) \cup {[j EXCEPT !.at = where]}
Spend == left > 0 /\ left' = left - 1

\* mutant: the chunks are not joined with their source
Unjoined(t) == {c \in rows : Owner[Home[c]] = t}

(* Rows a tenant owns: ownership is that of the source, which must still be there. *)
OwnRows(t) == {c \in rows : Home[c] \in sources /\ Owner[Home[c]] = t}

-----------------------------------------------------------------------------
(* Requests that change the database. *)

Committed(b) ==
  /\ LoopFree /\ ToSet(b) \cap used = {}
  /\ sources' = sources \cup {Home[b[1]]}
  /\ rows' = rows \cup ToSet(b)
  /\ used' = used \cup ToSet(b)
  /\ jobs' = jobs \cup {Job("add", b, "start")}
  /\ UNCHANGED <<deleting, fixed, store, disk, auto, ask, history, left>>

(* upload_document: to a source of its own, or to one that still exists when the rows   *)
(* are committed, for the update of its chunk_count matches no row otherwise.           *)
Upload(b) ==
  /\ Home[b[1]] \in sources \/ \A c \in used : Home[c] # Home[b[1]]
  /\ Committed(b)

(* add_kv_entity, add_faq: one chunk, to a source that exists. *)
AddEntry(b) == Len(b) = 1 /\ Home[b[1]] \in sources /\ Committed(b)

(* delete_source reads the rows of the source ... *)
DeleteRead(s) ==
  /\ LoopFree /\ s \in sources /\ s \notin DOMAIN deleting
  /\ deleting' = [x \in DOMAIN deleting \cup {s} |->
                    IF x = s THEN {c \in rows : Home[c] = s} ELSE deleting[x]]
  /\ UNCHANGED <<sources, rows, used, fixed, store, disk, jobs, auto, ask, history, left>>

(* ... and deletes those and the source: a row committed in between stays. *)
DeleteCommit(s) ==
  /\ LoopFree /\ s \in DOMAIN deleting
  /\ sources' = sources \ {s}
  /\ rows' = rows \ deleting[s]
  /\ jobs' = jobs \cup (IF deleting[s] = {} THEN {}
                        ELSE {Job("delete", SetToSeq(deleting[s]), "start")})
  /\ deleting' = [x \in DOMAIN deleting \ {s} |-> deleting[x]]
  /\ UNCHANGED <<used, fixed, store, disk, auto, ask, history, left>>

-----------------------------------------------------------------------------
(* Opening the store. *)

Readable == disk.dim # 0 /\ disk.vectors # Torn /\ disk.ids # Torn
Mismatch == backend = "faiss" /\ Readable /\ disk.dim # model

\* mutant: the new, empty index does not flag the mismatch
OpenStoreSilently ==
  /\ store = NoStore
  /\ store' = IF Readable /\ ~Mismatch
              THEN [vectors |-> disk.vectors, ids |-> Synced(disk.ids, Len(disk.vectors))]
              ELSE Empty
  /\ unsaved' = (store' = Empty /\ disk # NoFile)
  /\ UNCHANGED <<database, fixed, disk, jobs, auto, ask, cut, lagging, excused, left>>

(* get_vector_store, by the first job, rebuild, warmup or statistic that needs it. *)
OpenStore ==
  /\ store = NoStore
  /\ store' = IF Readable /\ ~Mismatch
              THEN [vectors |-> disk.vectors, ids |-> Synced(disk.ids, Len(disk.vectors))]
              ELSE Empty
  /\ flag' = (flag \/ Mismatch)
  /\ unsaved' = (store' = Empty /\ disk # NoFile)
  /\ UNCHANGED <<database, fixed, disk, jobs, retries, tasks, ask, cut, lagging, excused, left>>

-----------------------------------------------------------------------------
(* Jobs and the rebuild. *)

\* mutant: a failed attempt is not counted
LosesUncounted(j) ==
  CASE j.does = "add" -> excused' = TRUE /\ UNCHANGED auto
    [] j.does = "delete" -> UNCHANGED <<excused, auto>>
    [] j.does = "manual" -> excused' = TRUE /\ UNCHANGED auto
    [] j.does = "auto" -> flag' = TRUE /\ UNCHANGED <<retries, tasks, excused>>

Loses(j) ==   \* what a job that fails before its vectors are in leaves behind
  CASE j.does = "add" -> excused' = TRUE /\ UNCHANGED auto
    [] j.does = "delete" -> UNCHANGED <<excused, auto>>
    [] j.does = "manual" -> excused' = TRUE /\ UNCHANGED auto
    [] j.does = "auto" -> flag' = TRUE /\ retries' = retries + 1 /\ UNCHANGED <<tasks, excused>>

(* No store to be had, or the reset or the embedding raised. *)
JobFails(j) ==
  /\ j.at \in {"read", "reset", "start"}
  /\ IF j.does = "auto" THEN UNCHANGED left ELSE Spend
  /\ Loses(j)
  /\ jobs' = jobs \ {j}
  /\ UNCHANGED <<database, fixed, store, disk, ask, cut, unsaved, lagging>>

(* A rebuild that ends well gives the automatic ones their budget back. *)
Ends(j) ==
  /\ jobs' = jobs \ {j}
  /\ retries' = IF j.does = "auto" THEN 0 ELSE retries

ReadRows(j) ==
  /\ j.at = "read" /\ store # NoStore
  /\ IF rows = {} THEN Ends(j)
     ELSE /\ jobs' = (jobs \ {j}) \cup {[j EXCEPT !.items = SetToSeq(rows), !.at = "reset"]}
          /\ UNCHANGED retries
  /\ UNCHANGED <<database, fixed, store, disk, flag, tasks, ask, history, left>>

(* A row that was committed after the read and is past waiting for its job is lost. *)
Unread(j) == LET toCome == {k \in jobs : k.does = "add" /\ k.at = "start"}
             IN  rows \ (ToSet(j.items) \cup UNION {ToSet(k.items) : k \in toCome})

(* _create_hnsw_index drops the vectors, then the ids, and takes no lock. *)
Reset(j) ==
  /\ j.at = "reset"
  /\ excused' = (Unread(j) # {}) /\ unsaved' = (backend = "faiss")
  /\ IF backend = "faiss"
     THEN /\ store' = [store EXCEPT !.vectors = <<>>]
          /\ jobs' = Goes(j, "clear")
          /\ UNCHANGED disk
     ELSE /\ store' = Removed(store, ToSet(j.items))
          /\ disk' = [dim |-> model, vectors |-> store'.vectors, ids |-> store'.ids]
          /\ jobs' = Goes(j, "start")
  /\ UNCHANGED <<database, fixed, auto, ask, cut, lagging, left>>

Clear(j) ==
  /\ j.at = "clear"
  /\ store' = [store EXCEPT !.ids = <<>>]
  /\ cut' = (store.vectors # <<>> \/ \E k \in jobs : k.at = "name")
  /\ jobs' = Goes(j, "start")
  /\ UNCHANGED <<database, fixed, disk, auto, ask, unsaved, lagging, excused, left>>

(* add, add_batch: the vectors, then the ids, under the lock. *)
Grow(j) ==
  /\ backend = "faiss" /\ j.at = "start" /\ j.does # "delete"
  /\ store # NoStore /\ ~WriteLocked
  /\ store' = Grown(store, j.items)
  /\ jobs' = Goes(j, "name")
  /\ UNCHANGED <<database, fixed, disk, auto, ask, history, left>>

Name(j) ==
  /\ j.at = "name"
  /\ store' = Named(store, j.items)
  /\ jobs' = Goes(j, "save")
  /\ UNCHANGED <<database, fixed, disk, auto, ask, history, left>>

(* delete: nothing is saved when nothing was there to blank. *)
Blot(j) ==
  /\ backend = "faiss" /\ j.at = "start" /\ j.does = "delete"
  /\ store # NoStore /\ ~WriteLocked
  /\ store' = Blanked(store, ToSet(j.items))
  /\ jobs' = IF ToSet(j.items) \cap Ids(store) = {} THEN jobs \ {j} ELSE Goes(j, "save")
  /\ UNCHANGED <<database, fixed, disk, auto, ask, history, left>>

(* save: the index file, then the sidecar, under the lock. *)
WriteIndex(j) ==
  /\ j.at = "save" /\ ~WriteLocked
  /\ disk' = [disk EXCEPT !.dim = model, !.vectors = store.vectors]
  /\ jobs' = Goes(j, "sidecar")
  /\ UNCHANGED <<database, fixed, store, auto, ask, history, left>>

WriteIds(j) ==
  /\ j.at = "sidecar"
  /\ disk' = [disk EXCEPT !.ids = store.ids]
  /\ unsaved' = (unsaved /\ Writing("clear")) /\ lagging' = FALSE
  /\ Ends(j)
  /\ UNCHANGED <<database, fixed, store, flag, tasks, ask, cut, excused, left>>

(* save raises: the file it was writing is torn or as it was, the lock is given back, and *)
(* the open store keeps what the file lacks.  Only an automatic rebuild is tried again.   *)
SaveFails(j) ==
  /\ \/ j.at = "save" /\ ~WriteLocked /\ disk' \in {disk, [disk EXCEPT !.vectors = Torn]}
     \/ j.at = "sidecar" /\ disk' \in {disk, [disk EXCEPT !.ids = Torn]}
  /\ IF j.does = "auto" THEN flag' = TRUE /\ retries' = retries + 1 /\ UNCHANGED <<tasks, left>>
     ELSE Spend /\ UNCHANGED auto
  /\ lagging' = TRUE
  /\ jobs' = jobs \ {j}
  /\ UNCHANGED <<database, fixed, store, ask, cut, unsaved, excused>>

(* pgvector: one transaction, and nothing to save. *)
Upsert(j) ==
  /\ backend = "pgvector" /\ j.at = "start" /\ store # NoStore
  /\ disk.dim \in {0, model}
  /\ store' = IF j.does = "delete" THEN Removed(store, ToSet(j.items))
              ELSE Upserted(store, j.items)
  /\ disk' = [dim |-> model, vectors |-> store'.vectors, ids |-> store'.ids]
  /\ Ends(j)
  /\ UNCHANGED <<database, fixed, flag, tasks, ask, history, left>>

-----------------------------------------------------------------------------
(* Rebuilding on demand and by itself. *)

(* POST /rebuild; the one that finds another running changes nothing. *)
Rebuild ==
  /\ LoopFree /\ ~Rebuilding /\ Spend
  /\ jobs' = jobs \cup {Job("manual", <<>>, "read")}
  /\ UNCHANGED <<database, fixed, store, disk, auto, ask, history>>

(* maybe_auto_rebuild, called by every retrieval. *)
MaybeAutoRebuild ==
  IF ~flag THEN UNCHANGED <<auto, excused>>
  ELSE /\ flag' = FALSE
       /\ IF retries >= MaxAutoRetries
          THEN retries' = 0 /\ excused' = TRUE /\ UNCHANGED tasks
          ELSE tasks' = tasks + 1 /\ UNCHANGED <<retries, excused>>

(* _run_auto_rebuild begins: it returns when another rebuild is running. *)
AutoRebuild ==
  /\ LoopFree /\ tasks > 0
  /\ tasks' = tasks - 1
  /\ jobs' = IF Rebuilding THEN jobs ELSE jobs \cup {Job("auto", <<>>, "read")}
  /\ UNCHANGED <<database, fixed, store, disk, flag, retries, ask, history, left>>

(* A retrieval whose answer the model does not follow. *)
OtherAsk ==
  /\ LoopFree /\ flag /\ MaybeAutoRebuild
  /\ UNCHANGED <<database, fixed, store, disk, jobs, ask, cut, unsaved, lagging, left>>

-----------------------------------------------------------------------------
(* retrieve: the ids the tenant may see, the index, then the rows themselves. *)

Gone == {c \in used : c \notin rows \/ Home[c] \notin sources}

Ask(t) ==
  /\ LoopFree /\ ask.at \in {"idle", "answered"} /\ Spend
  /\ MaybeAutoRebuild
  /\ ask' = [NoAsk EXCEPT !.at = "allowed", !.tenant = t, !.gone = Gone, !.allowed = OwnRows(t)]
  /\ UNCHANGED <<database, fixed, store, disk, jobs, cut, unsaved, lagging>>

FastRows(t) == OwnRows(t)   \* fast_lookup and the keyword channel read the rows by what
Lexical(t) == OwnRows(t)    \* they say, so either may bring any of the tenant's own

(* The index is searched if it is open, and what it finds is read again.  A channel that *)
(* fails brings nothing, and a retrieval that times out has no hits: such an answer      *)
(* cites nothing, and nothing of it is kept.                                             *)
Answer ==
  /\ LoopFree /\ ask.at = "allowed"
  /\ \E found \in (IF store = NoStore THEN {{}} ELSE Search(store, ask.allowed, TopK)) :
     \E vector \in {found \cap OwnRows(ask.tenant), {}},
        others \in SUBSET (FastRows(ask.tenant) \cup Lexical(ask.tenant)) :
       ask' = IF vector \cup others = {} THEN NoAsk
              ELSE [ask EXCEPT !.at = "answered", !.allowed = {}, !.hits = vector \cup others]
  /\ UNCHANGED <<database, fixed, store, disk, jobs, auto, history, left>>

-----------------------------------------------------------------------------
(* The process stops and comes up again; a file that was being written may be torn. *)

Quiet == jobs = {} /\ tasks = 0 /\ ~flag

Restart(m) ==
  /\ Spend
  /\ disk' \in {disk}
       \cup (IF Writing("save") /\ ~WriteLocked THEN {[disk EXCEPT !.vectors = Torn]} ELSE {})
       \cup (IF Writing("sidecar") THEN {[disk EXCEPT !.ids = Torn]} ELSE {})
  /\ cut' = (cut \/ unsaved) /\ unsaved' = FALSE
  /\ excused' = (excused \/ ~Quiet \/ lagging) /\ lagging' = FALSE
  /\ model' = IF backend = "faiss" THEN m ELSE model
  /\ store' = NoStore /\ jobs' = {} /\ deleting' = <<>>
  /\ flag' = FALSE /\ retries' = 0 /\ tasks' = 0 /\ ask' = NoAsk
  /\ UNCHANGED <<sources, rows, used, backend>>

-----------------------------------------------------------------------------
JobStep(j) ==
  \/ ReadRows(j) \/ Reset(j) \/ Clear(j) \/ Grow(j) \/ Name(j) \/ Blot(j)
  \/ WriteIndex(j) \/ WriteIds(j) \/ Upsert(j)

Next ==
  \/ \E b \in Batches : Upload(b) \/ AddEntry(b)
  \/ \E s \in Sources : DeleteRead(s) \/ DeleteCommit(s)
  \/ OpenStore
  \/ \E j \in jobs : JobStep(j) \/ JobFails(j) \/ SaveFails(j)
  \/ Rebuild \/ AutoRebuild \/ OtherAsk
  \/ \E t \in Tenants : Ask(t)
  \/ Answer
  \/ \E m \in Models : Restart(m)

Spec == Init /\ [][Next]_vars

(* Worker threads and tasks are run to their end, and questions keep coming. *)
FairSpec ==
  /\ Spec
  /\ WF_vars(\E j \in jobs : JobStep(j))
  /\ WF_vars(OpenStore)
  /\ WF_vars(AutoRebuild) /\ WF_vars(OtherAsk)

-----------------------------------------------------------------------------
(* The values of the variables, and that at most one rebuild runs at a time. *)
TypeOK ==
  /\ sources \subseteq Sources /\ rows \subseteq used /\ used \subseteq Chunks
  /\ \A s \in DOMAIN deleting : deleting[s] \subseteq used
  /\ store = NoStore \/ Ids(store) \subseteq used
  /\ \A j \in jobs : /\ ToSet(j.items) \subseteq used
                     /\ j.at \in {"read", "reset", "clear", "start", "name", "save", "sidecar"}
  /\ \A j, k \in jobs : Rebuilds(j) /\ Rebuilds(k) => j = k
  /\ retries \in 0..MaxAutoRetries /\ tasks \in Nat

(* Every position of the index names the chunk its vector encodes, or nothing, through  *)
(* every add, delete, rebuild and reload, unless the unlocked reset of a rebuild met an  *)
(* add half done, or the process stopped while the two files of a rebuild were not both  *)
(* written, be it that their save had failed.                                            *)
Aligned ==
  (store # NoStore /\ ~cut /\ \A j \in jobs : j.at \notin {"name", "clear"}) => InStep(store)

(* The index in memory is one the store can work on, job by job. *)
IndexSound == TypeOK /\ Aligned

(* When nothing is under way, every committed row can be found through the index, unless *)
(* an embedding failed, a rebuild reset what it had not read, the automatic rebuilds     *)
(* gave up, or the process stopped while work was under way or after a save that failed, *)
(* with none after it that ended well.                                                   *)
NothingMissed ==
  (store # NoStore /\ Quiet /\ ~cut /\ ~excused) => rows \subseteq Found(store)

(* An answer cites only chunks of the asking tenant's own sources, and none whose source *)
(* was deleted before the question, whatever ids the index still carries.                *)
AnswersOwnAndLive ==
  ask.at = "answered" =>
    /\ ask.hits \cap ask.gone = {}
    /\ \A c \in ask.hits : Owner[Home[c]] = ask.tenant

(* Jobs and automatic rebuilds come to an end: failed rebuilds do not call for each      *)
(* other for ever (maybe_auto_rebuild, _MAX_AUTO_RETRIES).                               *)
Settles == <>[](Quiet)
=============================================================================
