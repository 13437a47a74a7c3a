---------------------------- MODULE IndexContent -----------------------------
(***************************************************************************)
(* What the worker leaves in the database: the files, chunks and           *)
(* symbol_relationships rows of one repository, as FULL and INCREMENTAL    *)
(* attempts write them transaction by transaction, are interrupted and     *)
(* retried, while commits are pushed. The question is when an INDEXED      *)
(* repository holds the index of the commit it names, and nothing else.    *)
(*                                                                         *)
(* A file has one chunk; its symbol is named by its path. Who may start an *)
(* attempt, and how often, is the subject of IndexJobs: here one runs at a *)
(* time unless a job lock is lost, and it is retried or given up freely.   *)
(***************************************************************************)
EXTENDS Naturals, FiniteSets

CONSTANTS
  Paths,       (* paths a file of the repository may have                  *)
  Sources,     (* texts of files that qualify for indexing                 *)
  Absent,      (* no file at the path                                      *)
  Excluded,    (* a file should_exclude or LANGUAGE_BY_EXT turns down      *)
  Link,        (* a symbolic link to some file                             *)
  Calls,       (* Calls[v]: the paths whose symbol the text v calls        *)
  Slots,       (* worker slots                                             *)
  None,        (* "no chunk": the call is kept as an external target       *)
  MaxCommits,  (* bound on the commits of the repository                   *)
  JobTypes,    (* the kinds of job that are triggered after the first      *)
  Pushes,      (* what a push may do: "rename", "link", "force"            *)
  Faults       (* "stage": an attempt fails anywhere; "doubleRun": a lost  *)
               (* job lock starts a second attempt beside the first        *)

Contents == Sources \cup {Absent, Excluded, Link}
Commits  == 1..MaxCommits
Trees    == [Paths -> Contents]

ASSUME ContentAssumption ==
  /\ Absent \notin Sources /\ Excluded \notin Sources /\ Link \notin Sources
  /\ Calls \in [Sources -> SUBSET Paths]
  /\ MaxCommits \in Nat \ {0}
  /\ IsFiniteSet(Sources)
ASSUME SlotAssumption == None \notin Slots
ASSUME JobTypesAssumption == JobTypes \subseteq {"FULL", "INCREMENTAL"}

VARIABLES
  tree,     (* the tree of each commit                                     *)
  head,     (* the newest commit                                           *)
  lost,     (* commits that can no longer be fetched                       *)
  status,   (* repositories.status: "busy", "INDEXED" or "FAILED"          *)
  sha,      (* repositories.current_commit_sha, 0 for NULL                 *)
  cost,     (* repositories.embedding_cost_usd, in embeddings              *)
  job,      (* the type of the accepted job                                *)
  files,    (* files.last_indexed_sha of the row of a path, 0 without one  *)
  chunks,   (* the chunk rows of a path: text and the slot that wrote it   *)
  edges,    (* the symbol_relationships rows                               *)
  cached,   (* the embeddings rows                                         *)
  run       (* the attempt in each slot                                    *)

upstream == <<tree, head, lost>>
rows     == <<files, chunks, edges>>
vars == <<tree, head, lost, status, sha, cost, job, files, chunks, edges, cached, run>>

NoRun == [pc |-> "idle", type |-> "FULL", base |-> 0, at |-> 1, todo |-> {},
          batch |-> {}, dangling |-> FALSE, paid |-> 0]

Chunk == [src: Sources, by: Slots]
Edge  == [from: Paths, by: Slots, to: Paths, callee: Slots \cup {None}]
Run   == [pc: {"idle", "clone", "diff", "walk", "store"}, type: {"FULL", "INCREMENTAL"},
          base: Commits \cup {0}, at: Commits, todo: SUBSET Paths, batch: SUBSET Paths,
          dangling: BOOLEAN, paid: Nat]

(* Every variable has its type.                                            *)
TypeOK ==
  /\ tree \in [Commits -> Trees]
  /\ head \in Commits
  /\ lost \subseteq Commits
  /\ status \in {"busy", "INDEXED", "FAILED"}
  /\ sha \in Commits \cup {0}
  /\ cost \in Nat
  /\ job \in {"FULL", "INCREMENTAL"}
  /\ files \in [Paths -> Commits \cup {0}]
  /\ chunks \in [Paths -> SUBSET Chunk]
  /\ edges \subseteq Edge
  /\ cached \subseteq Sources
  /\ run \in [Slots -> Run]

(* What a commit may hold, and what the next may hold after it.            *)
Allowed(t) == "link" \notin Pushes => \A f \in Paths : t[f] # Link

(* git pairs a vanished path with an appeared one of the same text, and    *)
(* --name-only then names the new path alone.                              *)
RenamedAway(old, new, f) ==
  /\ old[f] # Absent /\ new[f] = Absent
  /\ \E g \in Paths : old[g] = Absent /\ new[g] = old[f]

Init ==
  /\ tree \in {[c \in Commits |-> IF c = 1 THEN t ELSE [f \in Paths |-> Absent]] :
                 t \in {u \in Trees : Allowed(u)}}
  /\ head = 1 /\ lost = {}
  /\ status = "busy" /\ sha = 0 /\ cost = 0 /\ job = "FULL"
  /\ files = [f \in Paths |-> 0]
  /\ chunks = [f \in Paths |-> {}]
  /\ edges = {} /\ cached = {}
  /\ run = [s \in Slots |-> NoRun]

-----------------------------------------------------------------------------
(* GitHub and the backend.                                                 *)

Push(t) ==
  /\ head < MaxCommits
  /\ Allowed(t)
  /\ \/ "rename" \in Pushes
     \/ \A c \in 1..head : \A f \in Paths : ~RenamedAway(tree[c], t, f)
  /\ head' = head + 1
  /\ tree' = [tree EXCEPT ![head + 1] = t]
  /\ \/ UNCHANGED lost
     \/ "force" \in Pushes /\ lost' = 1..head
  /\ UNCHANGED <<status, sha, cost, job, rows, cached, run>>

(* createAndEnqueueIndexJob, for a trigger (FULL) or a push (INCREMENTAL). *)
AcceptJob(type) ==
  /\ status # "busy"
  /\ status' = "busy"
  /\ job' = type
  /\ UNCHANGED <<upstream, sha, cost, rows, cached, run>>

-----------------------------------------------------------------------------
(* The worker.                                                             *)

Idle(s) == run[s].pc = "idle"

Begin(s, base) ==
  run' = [run EXCEPT ![s] = [NoRun EXCEPT !.pc = "clone", !.type = job, !.base = base]]

(* An attempt starts; an incremental one reads current_commit_sha.         *)
StartAttempt(s) ==
  /\ Idle(s) /\ status = "busy"
  /\ (\A x \in Slots : Idle(x)) \/ "doubleRun" \in Faults
  /\ \/ job = "FULL" /\ Begin(s, 0)
     \/ job = "INCREMENTAL" /\ Begin(s, sha)
  /\ UNCHANGED <<upstream, status, sha, cost, job, rows, cached>>

OnDisk(c) == {f \in Paths : tree[c][f] # Absent}

(* git diff base HEAD --name-only; empty when base cannot be fetched.      *)
Listed(base, c) ==
  {f \in Paths : /\ base # 0 /\ base \notin lost
                 /\ tree[base][f] # tree[c][f]
                 /\ ~RenamedAway(tree[base], tree[c], f)}

WalkTargets_Modified(base, c) ==
  {f \in OnDisk(c) : Listed(base, c) # {} => f \in Listed(base, c) \cap OnDisk(base)}

(* No changed path means every path.                                       *)
WalkTargets(base, c) == {f \in OnDisk(c) : Listed(base, c) # {} => f \in Listed(base, c)}

CloneRepository(s) ==
  /\ run[s].pc = "clone"
  /\ status' = "busy"
  /\ run' = [run EXCEPT ![s].pc = "diff", ![s].at = head,
                        ![s].todo = WalkTargets(run[s].base, head)]
  /\ UNCHANGED <<upstream, sha, cost, job, rows, cached>>

(* A deleted files row takes its chunks and their edges along, and leaves  *)
(* what another attempt still has to store for it without a file.          *)
WithoutChunks(D) ==
  /\ chunks' = [f \in Paths |-> IF f \in D THEN {} ELSE chunks[f]]
  /\ edges' = {e \in edges : e.from \notin D /\ (e.callee # None => e.to \notin D)}

DeleteFiles(D) ==
  /\ files' = [f \in Paths |-> IF f \in D THEN 0 ELSE files[f]]
  /\ WithoutChunks(D)

Dangles_ByPath(x, D) == run[x]
Dangles(x, D) == [run[x] EXCEPT !.dangling = @ \/ run[x].batch \cap D # {}]

(* The changed files that are gone from the clone; a full index has none.  *)
DeleteRemoved(s) ==
  /\ run[s].pc = "diff"
  /\ LET D == Listed(run[s].base, run[s].at) \ OnDisk(run[s].at)
     IN /\ DeleteFiles(D)
        /\ run' = [x \in Slots |-> IF x = s THEN [run[s] EXCEPT !.pc = "walk"]
                                   ELSE Dangles(x, D)]
  /\ UNCHANGED <<upstream, status, sha, cost, job, cached>>

Read(s, f) == tree[run[s].at][f]
Visited(s, f) == [run[s] EXCEPT !.todo = @ \ {f}]

(* The walk, one file at a time: links are left alone.                     *)
SkipLink(s, f) ==
  /\ Read(s, f) = Link
  /\ run' = [run EXCEPT ![s] = Visited(s, f)]
  /\ UNCHANGED rows

SkipExcluded_Kept(s, f) ==
  /\ Read(s, f) = Excluded
  /\ run' = [run EXCEPT ![s] = Visited(s, f)]
  /\ UNCHANGED rows

(* An excluded file is deleted by an incremental index, skipped by a full. *)
SkipExcluded(s, f) ==
  /\ Read(s, f) = Excluded
  /\ \/ /\ run[s].type = "INCREMENTAL"
        /\ DeleteFiles({f})
        /\ run' = [x \in Slots |-> IF x = s THEN Visited(s, f) ELSE Dangles(x, {f})]
     \/ /\ run[s].type = "FULL"
        /\ run' = [run EXCEPT ![s] = Visited(s, f)]
        /\ UNCHANGED rows

UpsertFile_ChunksKept(s, f) ==
  /\ Read(s, f) \in Sources
  /\ files' = [files EXCEPT ![f] = run[s].at]
  /\ run' = [run EXCEPT ![s] = [Visited(s, f) EXCEPT !.batch = @ \cup {f}]]
  /\ UNCHANGED <<chunks, edges>>

(* One transaction: the row is there, stamped, and has no chunks.          *)
UpsertFile(s, f) ==
  /\ Read(s, f) \in Sources
  /\ files' = [files EXCEPT ![f] = run[s].at]
  /\ WithoutChunks({f})
  /\ run' = [run EXCEPT ![s] = [Visited(s, f) EXCEPT !.batch = @ \cup {f}]]

WalkFile(s, f) ==
  /\ run[s].pc = "walk"
  /\ f \in run[s].todo
  /\ SkipLink(s, f) \/ SkipExcluded(s, f) \/ UpsertFile(s, f)
  /\ UNCHANGED <<upstream, status, sha, cost, job, cached>>

Texts(s) == {Read(s, f) : f \in run[s].batch}

EmbedChunks_NoCache(s) ==
  /\ run[s].pc = "walk" /\ run[s].todo = {}
  /\ status' = "busy"
  /\ cached' = cached \cup Texts(s)
  /\ run' = [run EXCEPT ![s].pc = "store", ![s].paid = Cardinality(Texts(s))]
  /\ UNCHANGED <<upstream, sha, cost, job, rows>>

(* embed_and_store_batch: only what the cache lacks is paid for.           *)
EmbedChunks(s) ==
  /\ run[s].pc = "walk" /\ run[s].todo = {}
  /\ status' = "busy"
  /\ cached' = cached \cup Texts(s)
  /\ run' = [run EXCEPT ![s].pc = "store", ![s].paid = Cardinality(Texts(s) \ cached)]
  /\ UNCHANGED <<upstream, sha, cost, job, rows>>

NewEdges_Symbol(s) ==
  [from: run[s].batch, by: {s}, to: Paths, callee: run[s].batch]

(* A call resolves to a chunk of the same attempt, or stays external.      *)
NewEdges(s) ==
  {e \in [from: run[s].batch, by: {s}, to: Paths, callee: {s, None}] :
     /\ e.to \in Calls[Read(s, e.from)]
     /\ e.callee = s <=> e.to \in run[s].batch}

(* DELETE FROM files WHERE last_indexed_sha != :sha, by a full index only. *)
Stale_Older(s) == {f \in Paths : run[s].type = "FULL" /\ files[f] \notin {0, sha, run[s].at}}
Stale(s) == {f \in Paths : run[s].type = "FULL" /\ files[f] \notin {0, run[s].at}}

Stored(s) == [f \in Paths |->
  IF f \in run[s].batch THEN chunks[f] \cup {[src |-> Read(s, f), by |-> s]} ELSE chunks[f]]

(* embedding_cost_usd: a full index sets it, an incremental one adds to it.*)
Total(s) == IF run[s].type = "FULL" THEN run[s].paid ELSE cost + run[s].paid

(* The transaction that inserts the chunks and edges, sweeps (a full index)*)
(* and marks the repository INDEXED. A chunk without its file violates the *)
(* foreign key: see AttemptFails.                                          *)
StoreIndex(s) ==
  /\ run[s].pc = "store"
  /\ ~run[s].dangling
  /\ LET D == Stale(s)
     IN /\ files' = [f \in Paths |-> IF f \in D THEN 0 ELSE files[f]]
        /\ chunks' = [f \in Paths |-> IF f \in D THEN {} ELSE Stored(s)[f]]
        /\ edges' = {e \in edges \cup NewEdges(s) :
                       e.from \notin D /\ (e.callee # None => e.to \notin D)}
        /\ run' = [x \in Slots |-> IF x = s THEN NoRun ELSE Dangles(x, D)]
  /\ status' = "INDEXED"
  /\ sha' = run[s].at
  /\ cost' = Total(s)
  /\ UNCHANGED <<upstream, job, cached>>

(* An attempt raises or dies between two of its transactions; it will be   *)
(* retried, or it was the last one. Embeddings are cached one by one.      *)
AttemptFails(s) ==
  /\ ~Idle(s)
  /\ "stage" \in Faults \/ run[s].dangling
  /\ \/ UNCHANGED cached
     \/ /\ run[s].pc = "walk" /\ run[s].todo = {}
        /\ \E T \in SUBSET Texts(s) : cached' = cached \cup T
  /\ status' \in {status, "FAILED"}
  /\ run' = [run EXCEPT ![s] = NoRun]
  /\ UNCHANGED <<upstream, sha, cost, job, rows>>

Next ==
  \/ \E t \in Trees : Push(t)
  \/ \E type \in JobTypes : AcceptJob(type)
  \/ \E s \in Slots :
       \/ StartAttempt(s) \/ CloneRepository(s) \/ DeleteRemoved(s)
       \/ \E f \in Paths : WalkFile(s, f)
       \/ EmbedChunks(s) \/ StoreIndex(s) \/ AttemptFails(s)

Spec == Init /\ [][Next]_vars

-----------------------------------------------------------------------------
(* Properties.                                                             *)

Indexable(f) == tree[sha][f] \in Sources

(* An indexed repository has no row of a file its commit does not index    *)
(* (incremental_index.py 118-125 and 173-184: "never leave stale rows").   *)
NoStaleRows ==
  status = "INDEXED" => \A f \in Paths : files[f] # 0 => Indexable(f)

(* ... it has the chunk of every file the commit does,                     *)
NothingMissing ==
  status = "INDEXED" => \A f \in Paths :
    Indexable(f) => files[f] # 0 /\ \E c \in chunks[f] : c.src = tree[sha][f]

(* ... no chunk twice (full_index.py 144-147), at any time,                *)
NoDuplicates == \A f \in Paths : Cardinality(chunks[f]) <= 1

(* ... and the edges of its code, each call that can be resolved resolved. *)
EdgesExact ==
  status = "INDEXED" =>
    /\ \A e \in edges :
         /\ Indexable(e.from) /\ e.to \in Calls[tree[sha][e.from]]
         /\ e.callee # None <=> Indexable(e.to)
    /\ \A f \in Paths : Indexable(f) =>
         \A g \in Calls[tree[sha][f]] : \E e \in edges : e.from = f /\ e.to = g
    /\ \A d, e \in edges : d.from = e.from /\ d.to = e.to => d = e

(* The row of a file is stamped with the commit its chunk was cut from,    *)
(* whatever attempt failed after stamping it and wherever the head moved:  *)
(* the stamp is what the sweep of a full index goes by.                    *)
ChunksOfRecordedCommit ==
  \A f \in Paths : \A c \in chunks[f] :
    files[f] # 0 /\ c.src = tree[files[f]][f]

(* A chunk has its file and an edge its chunks, even when two attempts     *)
(* interleave and one deletes the file the other is about to store for.    *)
ReferencesHold ==
  /\ \A f \in Paths : chunks[f] # {} => files[f] # 0
  /\ \A e \in edges :
       /\ \E c \in chunks[e.from] : c.by = e.by
       /\ e.callee # None => \E c \in chunks[e.to] : c.by = e.callee

ExactIndex == NoStaleRows /\ NothingMissing /\ NoDuplicates /\ EdgesExact

(* "A full index is authoritative over the whole tree": it leaves the      *)
(* exact index of the commit it cloned, after whatever failed attempts,    *)
(* incremental indexes, renames, links and rewritten histories.            *)
FullIndexIsExact ==
  [][\A s \in Slots :
       run[s].type = "FULL" /\ StoreIndex(s) => ExactIndex']_vars

(* The repository is never charged twice for one embedding, whatever is    *)
(* retried or indexed again: batcher.py pays for what the cache lacks.     *)
ChargedOnce == cost <= Cardinality(cached)
=============================================================================
