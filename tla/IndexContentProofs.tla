------------------------ MODULE IndexContentProofs ---------------------------
(* What one repository's rows are worth, for any set of files and texts,    *)
(* any calls between them, any number of commits and attempts: references   *)
(* hold under every interleaving of attempts, and with one attempt at a     *)
(* time a stamp is true, no embedding is charged twice and a full index     *)
(* leaves the exact index of the commit it cloned.                          *)
EXTENDS MCIndexContent, FiniteSetTheorems, TLAPS

(* Types, and where an attempt stands: it reads a commit that was pushed,   *)
(* it collects files that qualify there, and none of them is still to do.   *)
Reads ==
  \A s \in Slots :
    /\ run[s].at <= head
    /\ \A p \in run[s].batch : Read(s, p) \in Sources /\ p \notin run[s].todo
    /\ run[s].pc \notin {"walk", "store"} => run[s].batch = {} /\ run[s].paid = 0
    /\ run[s].pc = "walk" => run[s].paid = 0
    /\ run[s].pc = "store" => run[s].todo = {}

TypedInv == TypeOK /\ Reads

(* A file an attempt is about to store for has a row, or the attempt has    *)
(* been told that it lost one.                                              *)
BatchHasFiles ==
  \A s \in Slots : \A p \in run[s].batch : files[p] # 0 \/ run[s].dangling

RefInv == TypedInv /\ ReferencesHold /\ BatchHasFiles

(* One attempt at a time: true until a job lock is lost.                    *)
OneAttempt == \A s, x \in Slots : run[s].pc # "idle" /\ run[x].pc # "idle" => s = x

(* A row is stamped with a pushed commit in which its file qualifies.       *)
Stamped ==
  \A p \in Paths : files[p] # 0 => files[p] <= head /\ tree[files[p]][p] \in Sources

(* What the attempt has collected is stamped with its commit and empty.     *)
Collected ==
  \A s \in Slots : \A p \in run[s].batch : files[p] = run[s].at /\ chunks[p] = {}

(* A full attempt passes over nothing that qualifies.                       *)
WalksAll ==
  \A s \in Slots : run[s].type = "FULL" /\ run[s].pc # "idle" =>
    /\ run[s].base = 0
    /\ run[s].pc # "clone" =>
         \A p \in Paths : Read(s, p) \in Sources => p \in run[s].todo \cup run[s].batch

(* What the attempts in progress will charge is for what they have cached.  *)
Charged ==
  /\ cost <= Cardinality(cached)
  /\ \A s \in Slots : cost + run[s].paid <= Cardinality(cached)

ContentInv ==
  /\ RefInv /\ OneAttempt /\ Stamped /\ Collected /\ WalksAll /\ Charged
  /\ ChunksOfRecordedCommit

-----------------------------------------------------------------------------
(* The attempt of a slot becomes row; another loses files, and is told.     *)
SlotBecomes(s, row)    == run' = [run EXCEPT ![s] = row]
SlotDeletes(s, row, D) == run' = [x \in Slots |-> IF x = s THEN row ELSE Dangles(x, D)]

(* What every step of an attempt leaves of the others.                      *)
OthersStand(s) ==
  \A x \in Slots \ {s} :
    /\ run'[x].pc = run[x].pc /\ run'[x].type = run[x].type
    /\ run'[x].base = run[x].base /\ run'[x].at = run[x].at
    /\ run'[x].todo = run[x].todo /\ run'[x].batch = run[x].batch
    /\ run'[x].paid = run[x].paid
    /\ run[x].dangling => run'[x].dangling

LEMMA SlotStep ==
  ASSUME TypeOK, NEW s \in Slots, NEW row \in Run, SlotBecomes(s, row)
  PROVE  /\ run' \in [Slots -> Run] /\ run'[s] = row
         /\ \A x \in Slots \ {s} : run'[x] = run[x]
         /\ OthersStand(s)
BY DEF TypeOK, SlotBecomes, OthersStand

LEMMA DeleteStep ==
  ASSUME TypeOK, NEW s \in Slots, NEW row \in Run, NEW D, SlotDeletes(s, row, D)
  PROVE  /\ run' \in [Slots -> Run] /\ run'[s] = row
         /\ OthersStand(s)
         /\ \A x \in Slots \ {s} : run[x].batch \cap D # {} => run'[x].dangling
<1>1. \A x \in Slots : run[x] \in Run
  BY DEF TypeOK
<1>2. run'[s] = row /\ \A x \in Slots \ {s} : run'[x] = Dangles(x, D)
  BY DEF SlotDeletes
<1>3. ASSUME NEW x \in Slots \ {s}
      PROVE  /\ run'[x] \in Run
             /\ run'[x].pc = run[x].pc /\ run'[x].type = run[x].type
             /\ run'[x].base = run[x].base /\ run'[x].at = run[x].at
             /\ run'[x].todo = run[x].todo /\ run'[x].batch = run[x].batch
             /\ run'[x].paid = run[x].paid
             /\ run[x].dangling => run'[x].dangling
             /\ run[x].batch \cap D # {} => run'[x].dangling
  <2> PICK b \in BOOLEAN : b = (run[x].dangling \/ run[x].batch \cap D # {})
    OBVIOUS
  <2> PICK old \in Run : old = run[x]
    BY <1>1
  <2>1. run'[x] = [old EXCEPT !.dangling = b]
    BY <1>2 DEF Dangles
  <2>2. /\ run'[x] \in Run /\ run'[x].dangling = b
        /\ run'[x].pc = old.pc /\ run'[x].type = old.type
        /\ run'[x].base = old.base /\ run'[x].at = old.at
        /\ run'[x].todo = old.todo /\ run'[x].batch = old.batch
        /\ run'[x].paid = old.paid
    BY <2>1 DEF Run
  <2> QED
    BY <2>2
<1>4. run' \in [Slots -> Run]
  <2>1. \A x \in Slots : run'[x] \in Run
    BY <1>2, <1>3
  <2>2. run' = [x \in Slots |-> run'[x]]
    BY DEF SlotDeletes
  <2> QED
    BY <2>1, <2>2
<1> QED
  BY <1>2, <1>3, <1>4 DEF OthersStand

(* The types of what a step of slot s leaves, once that of its row is known.*)
LEMMA ReadsStep ==
  ASSUME TypedInv, NEW s \in Slots, UNCHANGED upstream, OthersStand(s),
         run'[s].at <= head,
         \A p \in run'[s].batch : tree[run'[s].at][p] \in Sources /\ p \notin run'[s].todo,
         run'[s].pc \notin {"walk", "store"} => run'[s].batch = {} /\ run'[s].paid = 0,
         run'[s].pc = "walk" => run'[s].paid = 0,
         run'[s].pc = "store" => run'[s].todo = {}
  PROVE  Reads'
<1>1. \A x \in Slots : x # s => x \in Slots \ {s}
  OBVIOUS
<1> QED
  BY <1>1 DEF Reads, Read, TypedInv, OthersStand, upstream

(* Rows: files may go, or one may be stamped, and chunks and edges with it. *)
LEMMA RowsTyped ==
  ASSUME TypeOK, NEW D, WithoutChunks(D)
  PROVE  /\ chunks' \in [Paths -> SUBSET Chunk] /\ edges' \subseteq Edge
         /\ \A p \in Paths : chunks'[p] = IF p \in D THEN {} ELSE chunks[p]
BY DEF TypeOK, WithoutChunks

LEMMA FilesTyped ==
  ASSUME TypeOK, NEW D, DeleteFiles(D)
  PROVE  /\ files' \in [Paths -> Commits \cup {0}]
         /\ \A p \in Paths : files'[p] = IF p \in D THEN 0 ELSE files[p]
         /\ WithoutChunks(D)
BY DEF TypeOK, DeleteFiles

(* References survive a deletion, if the batches that lose a file are told. *)
LEMMA DeletionKeepsReferences ==
  ASSUME TypeOK, ReferencesHold, NEW D, WithoutChunks(D),
         \A p \in Paths \ D : files'[p] # 0 <=> files[p] # 0
  PROVE  ReferencesHold'
<1>1. \A p \in Paths : chunks'[p] = IF p \in D THEN {} ELSE chunks[p]
  BY RowsTyped
<1>2. ASSUME NEW p \in Paths, chunks'[p] # {}
      PROVE  files'[p] # 0
  BY <1>1, <1>2 DEF ReferencesHold
<1>3. ASSUME NEW e \in edges'
      PROVE  /\ \E c \in chunks'[e.from] : c.by = e.by
             /\ e.callee # None => \E c \in chunks'[e.to] : c.by = e.callee
  <2>1. /\ e \in edges /\ e.from \notin D /\ (e.callee # None => e.to \notin D)
        /\ e.from \in Paths /\ e.to \in Paths
    BY <1>3 DEF WithoutChunks, TypeOK, Edge
  <2> QED
    BY <1>1, <2>1 DEF ReferencesHold
<1> QED
  BY <1>2, <1>3 DEF ReferencesHold

-----------------------------------------------------------------------------
(* Types and references, under every interleaving of attempts.              *)
LEMMA RunRows ==
  ASSUME TypeOK
  PROVE  /\ NoRun \in Run /\ NoRun.at = 1 /\ NoRun.pc = "idle" /\ NoRun.batch = {}
         /\ NoRun.todo = {} /\ NoRun.paid = 0 /\ NoRun.type = "FULL"
         /\ \A s \in Slots : run[s] \in Run
         /\ head \in Nat /\ 1 <= head
BY ContentAssumption DEF TypeOK, NoRun, Run, Commits

(* A step that leaves the rows alone and collects nothing.                  *)
LEMMA RowsStand ==
  ASSUME RefInv, TypedInv', UNCHANGED rows,
         \A s \in Slots : \/ run'[s].batch = {}
                          \/ run'[s].batch = run[s].batch /\ (run[s].dangling => run'[s].dangling)
  PROVE  RefInv'
<1>1. ReferencesHold'
  BY DEF RefInv, ReferencesHold, rows
<1>2. BatchHasFiles'
  BY DEF RefInv, BatchHasFiles, rows
<1> QED
  BY <1>1, <1>2 DEF RefInv

LEMMA PushRefs ==
  ASSUME RefInv, NEW t \in Trees, Push(t)
  PROVE  RefInv'
<1>1. /\ head \in Nat /\ head + 1 \in Commits /\ head' = head + 1 /\ MaxCommits \in Nat
      /\ lost \subseteq Commits /\ tree \in [Commits -> Trees]
      /\ tree' = [tree EXCEPT ![head + 1] = t]
  BY ContentAssumption DEF Push, RefInv, TypedInv, TypeOK, Commits
<1>2. \A c \in Commits : c <= head => tree'[c] = tree[c]
  BY <1>1 DEF Commits
<1>3. lost' \subseteq Commits
  <2>1. 1..head \subseteq Commits
    BY <1>1 DEF Commits
  <2>2. lost' = lost \/ lost' = 1..head
    BY DEF Push
  <2> QED
    BY <1>1, <2>1, <2>2
<1>4. TypeOK'
  BY <1>1, <1>3 DEF Push, RefInv, TypedInv, TypeOK, rows
<1>5. Reads'
  <2>1. \A s \in Slots : run[s].at \in Commits /\ run[s].at \in Nat /\ run[s].at <= head /\ run[s].at <= head'
    BY <1>1 DEF RefInv, TypedInv, TypeOK, Reads, Run, Commits
  <2>2. \A s \in Slots : tree'[run[s].at] = tree[run[s].at]
    BY <1>2, <2>1
  <2> QED
    BY <2>1, <2>2 DEF Push, RefInv, TypedInv, Reads, Read
<1> QED
  BY <1>4, <1>5, RowsStand DEF Push, TypedInv

LEMMA AcceptRefs ==
  ASSUME RefInv, NEW type \in JobTypes, AcceptJob(type)
  PROVE  RefInv'
<1>1. TypeOK' /\ UNCHANGED <<run, upstream, rows>>
  BY JobTypesAssumption DEF AcceptJob, RefInv, TypedInv, TypeOK, upstream, rows
<1>2. Reads'
  BY <1>1 DEF RefInv, TypedInv, Reads, Read, upstream
<1> QED
  BY <1>1, <1>2, RowsStand DEF TypedInv

(* A step of an attempt that writes neither tree nor rows.                  *)
LEMMA SlotRefs ==
  ASSUME RefInv, NEW s \in Slots, NEW row \in Run, SlotBecomes(s, row),
         UNCHANGED <<upstream, rows, job>>,
         status' \in {"busy", "INDEXED", "FAILED"}, cost' \in Nat, sha' = sha, cached' \subseteq Sources,
         row.at <= head, row.batch = {} \/ (row.batch = run[s].batch /\ row.at = run[s].at),
         row.dangling = run[s].dangling \/ row.batch = {},
         row.todo \cap row.batch = {},
         row.pc \notin {"walk", "store"} => row.batch = {} /\ row.paid = 0,
         row.pc = "walk" => row.paid = 0,
         row.pc = "store" => row.todo = {}
  PROVE  RefInv'
<1>1. /\ run' \in [Slots -> Run] /\ run'[s] = row
      /\ \A x \in Slots \ {s} : run'[x] = run[x]
      /\ OthersStand(s)
  BY SlotStep DEF RefInv, TypedInv
<1>2. TypeOK'
  BY <1>1 DEF RefInv, TypedInv, TypeOK, upstream, rows
<1>3. \A p \in row.batch : tree[row.at][p] \in Sources /\ p \notin row.todo
  BY DEF RefInv, TypedInv, Reads, Read
<1>4. Reads'
  BY <1>1, <1>3, ReadsStep DEF RefInv
<1>5. \A x \in Slots : \/ run'[x].batch = {}
                       \/ run'[x].batch = run[x].batch /\ (run[x].dangling => run'[x].dangling)
  BY <1>1
<1> QED
  BY <1>2, <1>4, <1>5, RowsStand DEF TypedInv

LEMMA StartRefs ==
  ASSUME RefInv, NEW s \in Slots, StartAttempt(s)
  PROVE  RefInv'
<1> PICK base \in Commits \cup {0} : Begin(s, base)
  BY DEF StartAttempt, RefInv, TypedInv, TypeOK
<1> DEFINE row == [NoRun EXCEPT !.pc = "clone", !.type = job, !.base = base]
<1>1. /\ row \in Run /\ row.pc = "clone" /\ row.batch = {} /\ row.todo = {}
      /\ row.paid = 0 /\ row.at = 1
  <2>1. job \in {"FULL", "INCREMENTAL"} /\ 1 \in Commits
    BY ContentAssumption DEF Commits, RefInv, TypedInv, TypeOK
  <2> QED
    BY <2>1 DEF NoRun, Run
<1>2. SlotBecomes(s, row)
  BY DEF Begin, SlotBecomes
<1> HIDE DEF row
<1>3. /\ UNCHANGED <<upstream, rows, job>> /\ sha' = sha /\ status' \in {"busy", "INDEXED", "FAILED"}
      /\ cost' \in Nat /\ cached' \subseteq Sources
  BY DEF StartAttempt, RefInv, TypedInv, TypeOK
<1>4. 1 <= head
  BY RunRows DEF RefInv, TypedInv
<1> QED
  BY <1>1, <1>2, <1>3, <1>4, SlotRefs

LEMMA CloneRefs ==
  ASSUME RefInv, NEW s \in Slots, CloneRepository(s)
  PROVE  RefInv'
<1>1. /\ run[s] \in Run /\ run[s].batch = {} /\ run[s].paid = 0 /\ head \in Commits /\ head <= head
  BY RunRows DEF CloneRepository, RefInv, TypedInv, TypeOK, Reads, Commits
<1> PICK T \in SUBSET Paths : T = WalkTargets(run[s].base, head)
  BY DEF WalkTargets, OnDisk
<1> DEFINE row == [run[s] EXCEPT !.pc = "diff", !.at = head, !.todo = T]
<1>2. /\ row \in Run /\ row.pc = "diff" /\ row.batch = {} /\ row.paid = 0 /\ row.at = head
  BY <1>1 DEF Run
<1>3. SlotBecomes(s, row)
  BY <1>1 DEF CloneRepository, SlotBecomes, RefInv, TypedInv, TypeOK, Run
<1> HIDE DEF row
<1>4. /\ UNCHANGED <<upstream, rows, job>> /\ sha' = sha /\ status' \in {"busy", "INDEXED", "FAILED"}
      /\ cost' \in Nat /\ cached' \subseteq Sources
  BY DEF CloneRepository, RefInv, TypedInv, TypeOK
<1> QED
  BY <1>1, <1>2, <1>3, <1>4, SlotRefs

(* What the texts of an attempt are, and that they can be counted.          *)
LEMMA TextsFinite ==
  ASSUME TypedInv, NEW s \in Slots
  PROVE  /\ Texts(s) \subseteq Sources /\ cached \subseteq Sources
         /\ IsFiniteSet(Texts(s)) /\ IsFiniteSet(cached)
<1>1. Texts(s) \subseteq Sources /\ cached \subseteq Sources
  BY DEF Texts, TypedInv, Reads, TypeOK
<1>2. IsFiniteSet(Sources)
  BY ContentAssumption
<1> QED
  BY <1>1, <1>2, FS_Subset

LEMMA EmbedRefs ==
  ASSUME RefInv, NEW s \in Slots, EmbedChunks(s)
  PROVE  RefInv'
<1>1. /\ run[s] \in Run /\ run[s].todo = {} /\ run[s].at <= head /\ run[s].pc = "walk"
  BY RunRows DEF EmbedChunks, RefInv, TypedInv, Reads
<1>2. Cardinality(Texts(s) \ cached) \in Nat
  <2>1. IsFiniteSet(Texts(s) \ cached)
    BY TextsFinite, FS_Difference DEF RefInv
  <2> QED
    BY <2>1, FS_CardinalityType
<1> PICK n \in Nat : n = Cardinality(Texts(s) \ cached)
  BY <1>2
<1> DEFINE row == [run[s] EXCEPT !.pc = "store", !.paid = n]
<1>3. /\ row \in Run /\ row.pc = "store" /\ row.batch = run[s].batch /\ row.todo = {}
      /\ row.at = run[s].at /\ row.dangling = run[s].dangling
  BY <1>1 DEF Run
<1>4. SlotBecomes(s, row)
  BY <1>1 DEF EmbedChunks, SlotBecomes, RefInv, TypedInv, TypeOK, Run
<1> HIDE DEF row
<1>5. /\ UNCHANGED <<upstream, rows, job>> /\ sha' = sha /\ status' \in {"busy", "INDEXED", "FAILED"}
      /\ cost' \in Nat /\ cached' \subseteq Sources
  BY TextsFinite DEF EmbedChunks, RefInv, TypedInv, TypeOK
<1> QED
  BY <1>1, <1>3, <1>4, <1>5, SlotRefs

LEMMA FailRefs ==
  ASSUME RefInv, NEW s \in Slots, AttemptFails(s)
  PROVE  RefInv'
<1>1. NoRun \in Run /\ NoRun.at <= head /\ NoRun.pc = "idle" /\ NoRun.batch = {} /\ NoRun.paid = 0
  BY RunRows DEF RefInv, TypedInv
<1>2. SlotBecomes(s, NoRun)
  BY DEF AttemptFails, SlotBecomes
<1>3. cached' \subseteq Sources
  BY TextsFinite DEF AttemptFails, RefInv
<1>4. /\ UNCHANGED <<upstream, rows, job>> /\ sha' = sha /\ status' \in {"busy", "INDEXED", "FAILED"}
      /\ cost' \in Nat
  BY DEF AttemptFails, RefInv, TypedInv, TypeOK
<1> QED
  BY <1>1, <1>2, <1>3, <1>4, SlotRefs

LEMMA VisitedRow ==
  ASSUME TypedInv, NEW s \in Slots, NEW p \in run[s].todo, run[s].pc = "walk"
  PROVE  LET row == Visited(s, p)
         IN  /\ row \in Run /\ row.pc = "walk" /\ row.at = run[s].at /\ row.type = run[s].type
             /\ row.base = run[s].base /\ row.todo = run[s].todo \ {p}
             /\ row.batch = run[s].batch /\ row.dangling = run[s].dangling
             /\ row.paid = 0 /\ p \notin run[s].batch /\ p \in Paths
             /\ row.at <= head /\ row.todo \cap row.batch = {}
BY DEF Visited, Run, TypedInv, TypeOK, Reads

(* A step of an attempt that deletes, or stamps what it has just deleted.   *)
LEMMA DeletingRefs ==
  ASSUME RefInv, NEW s \in Slots, NEW row \in Run, NEW D \in SUBSET Paths,
         SlotDeletes(s, row, D), WithoutChunks(D),
         files' \in [Paths -> Commits \cup {0}],
         \A p \in Paths \ D : files'[p] = files[p],
         UNCHANGED <<upstream, status, sha, cost, job, cached>>,
         row.at = run[s].at, row.pc = "walk", row.paid = 0,
         row.batch = run[s].batch, row.todo \subseteq run[s].todo,
         row.dangling = run[s].dangling, row.batch \cap D = {}
  PROVE  RefInv'
<1>1. /\ run' \in [Slots -> Run] /\ run'[s] = row
      /\ OthersStand(s)
      /\ \A x \in Slots \ {s} : run[x].batch \cap D # {} => run'[x].dangling
  BY DeleteStep DEF RefInv, TypedInv
<1>2. TypeOK'
  BY <1>1, RowsTyped DEF RefInv, TypedInv, TypeOK, upstream
<1>3. /\ row.at <= head
      /\ \A p \in row.batch : tree[row.at][p] \in Sources /\ p \notin row.todo
  BY DEF RefInv, TypedInv, Reads, Read
<1>4. Reads'
  BY <1>1, <1>3, ReadsStep DEF RefInv
<1>5. ReferencesHold'
  BY DeletionKeepsReferences DEF RefInv, TypedInv
<1>6. BatchHasFiles'
  <2> SUFFICES ASSUME NEW x \in Slots, NEW p \in run'[x].batch
               PROVE  files'[p] # 0 \/ run'[x].dangling
    BY DEF BatchHasFiles
  <2>1. p \in Paths /\ p \in run[x].batch /\ run[x] \in Run
    BY <1>1, RunRows DEF OthersStand, Run, RefInv, TypedInv
  <2>2. files[p] # 0 \/ run[x].dangling
    BY <2>1 DEF RefInv, BatchHasFiles
  <2>3. CASE x = s
    BY <1>1, <2>1, <2>2, <2>3
  <2>4. CASE x # s
    BY <1>1, <2>1, <2>2, <2>4 DEF OthersStand
  <2> QED
    BY <2>3, <2>4
<1> QED
  BY <1>2, <1>4, <1>5, <1>6 DEF RefInv, TypedInv

LEMMA RemovedRefs ==
  ASSUME RefInv, NEW s \in Slots, DeleteRemoved(s)
  PROVE  RefInv'
<1> PICK D \in SUBSET Paths : D = Listed(run[s].base, run[s].at) \ OnDisk(run[s].at)
  BY DEF Listed
<1> DEFINE row == [run[s] EXCEPT !.pc = "walk"]
<1>1. run[s] \in Run /\ run[s].batch = {} /\ run[s].paid = 0
  BY RunRows DEF DeleteRemoved, RefInv, TypedInv, Reads
<1>2. /\ row \in Run /\ row.pc = "walk" /\ row.at = run[s].at /\ row.batch = run[s].batch
      /\ row.todo = run[s].todo /\ row.dangling = run[s].dangling /\ row.paid = 0
  BY <1>1 DEF Run
<1>3. DeleteFiles(D) /\ SlotDeletes(s, row, D)
  BY DEF DeleteRemoved, SlotDeletes
<1> HIDE DEF row
<1>4. /\ files' \in [Paths -> Commits \cup {0}] /\ WithoutChunks(D)
      /\ \A p \in Paths \ D : files'[p] = files[p]
  BY <1>3, FilesTyped DEF RefInv, TypedInv
<1> QED
  BY <1>1, <1>2, <1>3, <1>4, DeletingRefs DEF DeleteRemoved

(* The three ways of the walk.                                              *)
LEMMA SkipRefs ==
  ASSUME RefInv, NEW s \in Slots, NEW p \in run[s].todo, run[s].pc = "walk",
         run' = [run EXCEPT ![s] = Visited(s, p)],
         UNCHANGED <<upstream, status, sha, cost, job, cached, rows>>
  PROVE  RefInv'
<1> PICK row \in Run : row = Visited(s, p)
  BY VisitedRow DEF RefInv
<1>1. /\ row.pc = "walk" /\ row.at = run[s].at /\ row.batch = run[s].batch
      /\ row.dangling = run[s].dangling /\ row.paid = 0
      /\ row.at <= head /\ row.todo \cap row.batch = {}
  BY VisitedRow DEF RefInv
<1>2. SlotBecomes(s, row)
  BY DEF SlotBecomes
<1>3. status' \in {"busy", "INDEXED", "FAILED"} /\ cost' \in Nat /\ cached' \subseteq Sources
  BY DEF RefInv, TypedInv, TypeOK
<1> QED
  BY <1>1, <1>2, <1>3, SlotRefs

LEMMA ExcludeRefs ==
  ASSUME RefInv, NEW s \in Slots, NEW p \in run[s].todo, run[s].pc = "walk",
         DeleteFiles({p}), SlotDeletes(s, Visited(s, p), {p}),
         UNCHANGED <<upstream, status, sha, cost, job, cached>>
  PROVE  RefInv'
<1> PICK row \in Run : row = Visited(s, p)
  BY VisitedRow DEF RefInv
<1>1. /\ row.pc = "walk" /\ row.at = run[s].at /\ row.batch = run[s].batch
      /\ row.dangling = run[s].dangling /\ row.paid = 0 /\ row.todo \subseteq run[s].todo
      /\ p \notin row.batch /\ p \in Paths
  BY VisitedRow DEF RefInv
<1>2. /\ files' \in [Paths -> Commits \cup {0}] /\ WithoutChunks({p})
      /\ \A q \in Paths \ {p} : files'[q] = files[q]
  BY FilesTyped DEF RefInv, TypedInv
<1> QED
  BY <1>1, <1>2, DeletingRefs

(* The file of an upsert joins the batch.                                   *)
UpsertRow(s, p) == [Visited(s, p) EXCEPT !.batch = @ \cup {p}]

LEMMA UpsertedRow ==
  ASSUME TypedInv, NEW s \in Slots, NEW p \in run[s].todo, run[s].pc = "walk"
  PROVE  LET row == UpsertRow(s, p)
         IN  /\ row \in Run /\ row.pc = "walk" /\ row.at = run[s].at /\ row.type = run[s].type
             /\ row.base = run[s].base /\ row.todo = run[s].todo \ {p}
             /\ row.batch = run[s].batch \cup {p} /\ row.dangling = run[s].dangling
             /\ row.paid = 0 /\ p \notin run[s].batch /\ p \in Paths
             /\ row.at <= head /\ row.todo \cap row.batch = {}
<1>1. PICK old \in Run : old = Visited(s, p)
  BY VisitedRow
<1>2. /\ old.pc = "walk" /\ old.at = run[s].at /\ old.type = run[s].type /\ old.base = run[s].base
      /\ old.todo = run[s].todo \ {p} /\ old.batch = run[s].batch /\ old.dangling = run[s].dangling
      /\ old.paid = 0 /\ p \notin run[s].batch /\ p \in Paths /\ old.at <= head
      /\ old.todo \cap old.batch = {}
  BY <1>1, VisitedRow
<1>3. PICK row : row = [old EXCEPT !.batch = old.batch \cup {p}]
  OBVIOUS
<1>4. row \in Run /\ row.batch = old.batch \cup {p}
  BY <1>2, <1>3 DEF Run
<1>5. /\ row.pc = old.pc /\ row.at = old.at /\ row.type = old.type /\ row.base = old.base
      /\ row.todo = old.todo /\ row.dangling = old.dangling /\ row.paid = old.paid
  BY <1>3 DEF Run
<1>6. UpsertRow(s, p) = row
  BY <1>1, <1>3 DEF UpsertRow
<1>7. row.todo \cap row.batch = {}
  BY <1>2, <1>4, <1>5
<1> QED BY <1>2, <1>4, <1>5, <1>6, <1>7

LEMMA UpsertRefs ==
  ASSUME RefInv, NEW s \in Slots, NEW p \in run[s].todo, run[s].pc = "walk", UpsertFile(s, p),
         UNCHANGED <<upstream, status, sha, cost, job, cached>>
  PROVE  RefInv'
<1> PICK row \in Run : row = UpsertRow(s, p)
  BY UpsertedRow DEF RefInv
<1>1. /\ row.pc = "walk" /\ row.at = run[s].at /\ row.todo = run[s].todo \ {p}
      /\ row.batch = run[s].batch \cup {p} /\ row.dangling = run[s].dangling
      /\ row.paid = 0 /\ p \in Paths /\ row.at <= head /\ row.todo \cap row.batch = {}
  BY UpsertedRow DEF RefInv
<1>2. /\ run' \in [Slots -> Run] /\ run'[s] = row
      /\ \A x \in Slots \ {s} : run'[x] = run[x]
      /\ OthersStand(s)
  <2>1. SlotBecomes(s, row)
    BY DEF UpsertFile, UpsertRow, SlotBecomes
  <2> QED
    BY <2>1, SlotStep DEF RefInv, TypedInv
<1>3. /\ files' \in [Paths -> Commits \cup {0}] /\ files'[p] # 0
      /\ \A q \in Paths \ {p} : files'[q] = files[q]
  <2>1. run[s].at \in Commits /\ run[s].at # 0
    BY RunRows DEF Run, Commits, RefInv, TypedInv
  <2>2. files' = [files EXCEPT ![p] = run[s].at]
    BY DEF UpsertFile
  <2>3. files \in [Paths -> Commits \cup {0}]
    BY DEF RefInv, TypedInv, TypeOK
  <2> QED
    BY <1>1, <2>1, <2>2, <2>3
<1>4. TypeOK'
  BY <1>2, <1>3, RowsTyped DEF UpsertFile, RefInv, TypedInv, TypeOK, upstream
<1>5. Reads'
  <2>1. \A q \in row.batch : tree[row.at][q] \in Sources /\ q \notin row.todo
    BY <1>1 DEF UpsertFile, RefInv, TypedInv, Reads, Read
  <2> QED
    BY <1>1, <1>2, <2>1, ReadsStep DEF RefInv
<1>6. ReferencesHold'
  <2>1. \A q \in Paths : chunks'[q] = IF q \in {p} THEN {} ELSE chunks[q]
    BY RowsTyped DEF UpsertFile, RefInv, TypedInv
  <2>2. \A q \in Paths : chunks'[q] # {} => files'[q] # 0
    BY <1>3, <2>1 DEF RefInv, ReferencesHold
  <2>3. ASSUME NEW e \in edges'
        PROVE  /\ \E c \in chunks'[e.from] : c.by = e.by
               /\ e.callee # None => \E c \in chunks'[e.to] : c.by = e.callee
    <3>1. /\ e \in edges /\ e.from # p /\ (e.callee # None => e.to # p)
          /\ e.from \in Paths /\ e.to \in Paths
      BY <2>3 DEF UpsertFile, WithoutChunks, RefInv, TypedInv, TypeOK, Edge
    <3> QED
      BY <2>1, <3>1 DEF RefInv, ReferencesHold
  <2> QED
    BY <2>2, <2>3 DEF ReferencesHold
<1>7. BatchHasFiles'
  <2> SUFFICES ASSUME NEW x \in Slots, NEW q \in run'[x].batch
               PROVE  files'[q] # 0 \/ run'[x].dangling
    BY DEF BatchHasFiles
  <2>1. CASE q = p
    BY <1>3, <2>1
  <2>2. CASE q # p
    <3>1. q \in run[x].batch /\ run'[x].dangling = run[x].dangling
      BY <1>1, <1>2, <2>2
    <3>2. q \in Paths
      BY <3>1, RunRows DEF Run, RefInv, TypedInv
    <3> QED
      BY <1>3, <2>2, <3>1, <3>2 DEF RefInv, BatchHasFiles
  <2> QED
    BY <2>1, <2>2
<1> QED
  BY <1>4, <1>5, <1>6, <1>7 DEF RefInv, TypedInv

LEMMA WalkRefs ==
  ASSUME RefInv, NEW s \in Slots, NEW p \in Paths, WalkFile(s, p)
  PROVE  RefInv'
<1>1. /\ run[s].pc = "walk" /\ p \in run[s].todo
      /\ UNCHANGED <<upstream, status, sha, cost, job, cached>>
  BY DEF WalkFile
<1>2. CASE SkipLink(s, p)
  BY <1>1, <1>2, SkipRefs DEF SkipLink
<1>3. CASE SkipExcluded(s, p)
  <2>1. CASE run' = [run EXCEPT ![s] = Visited(s, p)] /\ UNCHANGED rows
    BY <1>1, <2>1, SkipRefs
  <2>2. CASE DeleteFiles({p}) /\ SlotDeletes(s, Visited(s, p), {p})
    BY <1>1, <2>2, ExcludeRefs
  <2> QED
    BY <1>3, <2>1, <2>2 DEF SkipExcluded, SlotDeletes
<1>4. CASE UpsertFile(s, p)
  BY <1>1, <1>4, UpsertRefs
<1> QED
  BY <1>2, <1>3, <1>4 DEF WalkFile

(* What the storing transaction leaves of each row.                         *)
LEMMA StoredRows ==
  ASSUME RefInv, NEW s \in Slots, StoreIndex(s)
  PROVE  /\ \A p \in Paths : files'[p] = IF p \in Stale(s) THEN 0 ELSE files[p]
         /\ \A p \in Paths : chunks'[p] = IF p \in Stale(s) THEN {} ELSE Stored(s)[p]
         /\ \A e \in edges' : /\ e \in edges \cup NewEdges(s)
                              /\ e.from \notin Stale(s)
                              /\ e.callee # None => e.to \notin Stale(s)
BY DEF StoreIndex

(* An edge of the attempt starts in its batch and, when resolved, ends there. *)
LEMMA NewEdgeRow ==
  ASSUME TypedInv, NEW s \in Slots, NEW e \in NewEdges(s)
  PROVE  /\ e \in Edge /\ e.from \in run[s].batch /\ e.by = s /\ e.to \in Paths
         /\ e.callee \in {s, None} /\ e.to \in Calls[Read(s, e.from)]
         /\ e.callee = s <=> e.to \in run[s].batch
<1>1. run[s].batch \subseteq Paths
  BY RunRows DEF Run, TypedInv
<1> QED
  BY <1>1 DEF NewEdges, Edge

LEMMA StoreTyped ==
  ASSUME RefInv, NEW s \in Slots, StoreIndex(s)
  PROVE  /\ TypedInv' /\ OthersStand(s) /\ run'[s] = NoRun
         /\ \A x \in Slots \ {s} : run[x].batch \cap Stale(s) # {} => run'[x].dangling
<1> PICK D : D = Stale(s)
  OBVIOUS
<1>1. /\ run[s] \in Run /\ NoRun \in Run /\ NoRun.at = 1 /\ 1 <= head /\ NoRun.batch = {}
      /\ NoRun.todo = {} /\ NoRun.paid = 0 /\ NoRun.pc = "idle"
  BY RunRows DEF RefInv, TypedInv
<1>2. SlotDeletes(s, NoRun, D)
  BY DEF StoreIndex, SlotDeletes
<1>3. /\ run' \in [Slots -> Run] /\ run'[s] = NoRun
      /\ OthersStand(s)
      /\ \A x \in Slots \ {s} : run[x].batch \cap D # {} => run'[x].dangling
  BY <1>1, <1>2, DeleteStep DEF RefInv, TypedInv
<1>4. files' \in [Paths -> Commits \cup {0}]
  <2>1. files \in [Paths -> Commits \cup {0}]
    BY DEF RefInv, TypedInv, TypeOK
  <2>2. files' = [p \in Paths |-> IF p \in D THEN 0 ELSE files[p]]
    BY DEF StoreIndex
  <2> QED
    BY <2>1, <2>2
<1>5. chunks' \in [Paths -> SUBSET Chunk]
  <2>1. \A p \in Paths : Stored(s)[p] \subseteq Chunk
    <3> TAKE p \in Paths
    <3>1. chunks[p] \subseteq Chunk
      BY DEF RefInv, TypedInv, TypeOK
    <3>2. CASE p \in run[s].batch
      <4>1. [src |-> Read(s, p), by |-> s] \in Chunk
        BY <3>2 DEF Chunk, RefInv, TypedInv, Reads
      <4> QED
        BY <3>1, <3>2, <4>1 DEF Stored
    <3>3. CASE p \notin run[s].batch
      BY <3>1, <3>3 DEF Stored
    <3> QED
      BY <3>2, <3>3
  <2>2. chunks' = [p \in Paths |-> IF p \in D THEN {} ELSE Stored(s)[p]]
    BY DEF StoreIndex
  <2> QED
    BY <2>1, <2>2
<1>6. edges' \subseteq Edge
  BY StoredRows, NewEdgeRow DEF RefInv, TypedInv, TypeOK
<1>7. cost' \in Nat
  <2>1. cost \in Nat /\ run[s].paid \in Nat
    BY <1>1 DEF Run, RefInv, TypedInv, TypeOK
  <2>2. cost' = run[s].paid \/ cost' = cost + run[s].paid
    BY DEF StoreIndex, Total
  <2> QED
    BY <2>1, <2>2
<1>8. sha' \in Commits \cup {0} /\ status' = "INDEXED" /\ UNCHANGED <<upstream, job, cached>>
  BY <1>1 DEF StoreIndex, Run
<1>9. TypeOK'
  BY <1>3, <1>4, <1>5, <1>6, <1>7, <1>8 DEF RefInv, TypedInv, TypeOK, upstream
<1>10. Reads'
  BY <1>1, <1>3, <1>8, ReadsStep DEF RefInv
<1> QED
  BY <1>3, <1>9, <1>10 DEF TypedInv

LEMMA StoreRefs ==
  ASSUME RefInv, NEW s \in Slots, StoreIndex(s)
  PROVE  RefInv'
<1>1. TypedInv' /\ OthersStand(s) /\ run'[s].batch = {}
      /\ \A x \in Slots \ {s} : run[x].batch \cap Stale(s) # {} => run'[x].dangling
  BY StoreTyped, RunRows DEF RefInv, TypedInv
<1>2. \A p \in run[s].batch : p \in Paths /\ files[p] # 0
  BY RunRows DEF StoreIndex, RefInv, TypedInv, BatchHasFiles, Run
<1>3. ASSUME NEW p \in Paths, chunks'[p] # {}
      PROVE  files'[p] # 0
  <2>1. p \notin Stale(s) /\ files'[p] = files[p] /\ Stored(s)[p] # {}
    BY <1>3, StoredRows
  <2>2. chunks[p] # {} \/ p \in run[s].batch
    BY <2>1 DEF Stored
  <2> QED
    BY <1>2, <2>1, <2>2 DEF RefInv, ReferencesHold
<1>4. ASSUME NEW p \in Paths, p \notin Stale(s)
      PROVE  /\ chunks[p] \subseteq chunks'[p]
             /\ p \in run[s].batch => \E c \in chunks'[p] : c.by = s
  <2>1. chunks'[p] = Stored(s)[p]
    BY <1>4, StoredRows
  <2>2. CASE p \in run[s].batch
    <3> PICK c : c = [src |-> Read(s, p), by |-> s]
      OBVIOUS
    <3>1. chunks'[p] = chunks[p] \cup {c}
      BY <2>1, <2>2 DEF Stored
    <3>2. c.by = s
      OBVIOUS
    <3> QED
      BY <3>1, <3>2
  <2>3. CASE p \notin run[s].batch
    BY <2>1, <2>3 DEF Stored
  <2> QED
    BY <2>2, <2>3
<1>5. ASSUME NEW e \in edges'
      PROVE  /\ \E c \in chunks'[e.from] : c.by = e.by
             /\ e.callee # None => \E c \in chunks'[e.to] : c.by = e.callee
  <2>1. /\ e \in edges \cup NewEdges(s) /\ e.from \notin Stale(s)
        /\ e.callee # None => e.to \notin Stale(s)
    BY StoredRows
  <2>2. CASE e \in edges
    <3>1. e.from \in Paths /\ e.to \in Paths
      BY <2>2 DEF RefInv, TypedInv, TypeOK, Edge
    <3>2. /\ \E c \in chunks[e.from] : c.by = e.by
          /\ e.callee # None => \E c \in chunks[e.to] : c.by = e.callee
      BY <2>2 DEF RefInv, ReferencesHold
    <3> QED
      BY <1>4, <2>1, <3>1, <3>2
  <2>3. CASE e \in NewEdges(s)
    <3>1. /\ e.from \in run[s].batch /\ e.by = s /\ e.callee \in {s, None}
          /\ e.callee = s <=> e.to \in run[s].batch
      BY <2>3, NewEdgeRow DEF RefInv
    <3> QED
      BY <1>2, <1>4, <2>1, <3>1
  <2> QED
    BY <2>1, <2>2, <2>3
<1>6. BatchHasFiles'
  <2> SUFFICES ASSUME NEW x \in Slots, NEW p \in run'[x].batch
               PROVE  files'[p] # 0 \/ run'[x].dangling
    BY DEF BatchHasFiles
  <2>1. /\ x # s /\ run'[x].batch = run[x].batch /\ (run[x].dangling => run'[x].dangling)
        /\ p \in Paths
    BY <1>1, RunRows DEF OthersStand, RefInv, TypedInv, Run
  <2>2. CASE p \in Stale(s)
    BY <1>1, <2>1, <2>2
  <2>3. CASE p \notin Stale(s)
    BY <2>1, <2>3, StoredRows DEF RefInv, BatchHasFiles
  <2> QED
    BY <2>2, <2>3
<1> QED
  BY <1>1, <1>3, <1>5, <1>6 DEF RefInv, ReferencesHold

LEMMA RefInvInit ==
  ASSUME Init
  PROVE  RefInv
<1> DEFINE Empty == [p \in Paths |-> Absent]
<1>1. PICK t \in Trees : tree = [c \in Commits |-> IF c = 1 THEN t ELSE Empty]
  BY DEF Init
<1>2. /\ NoRun \in Run /\ NoRun.at = 1 /\ NoRun.batch = {} /\ NoRun.paid = 0
      /\ NoRun.todo = {} /\ NoRun.pc = "idle"
  BY ContentAssumption DEF NoRun, Run, Commits
<1>3. Empty \in Trees
  BY DEF Trees, Contents
<1>4. TypeOK
  <2>1. tree \in [Commits -> Trees]
    BY <1>1, <1>3
  <2>2. 1 \in Commits
    BY ContentAssumption DEF Commits
  <2> QED
    BY <1>2, <2>1, <2>2 DEF Init, TypeOK
<1>5. \A s \in Slots : run[s] = NoRun
  BY DEF Init
<1>6. Reads /\ BatchHasFiles
  BY <1>2, <1>5 DEF Reads, BatchHasFiles, Init
<1>7. ReferencesHold
  BY DEF Init, ReferencesHold
<1> QED
  BY <1>4, <1>6, <1>7 DEF RefInv, TypedInv

LEMMA RefInvStep ==
  ASSUME RefInv, [Next]_vars
  PROVE  RefInv'
<1>1. CASE UNCHANGED vars
  BY <1>1 DEF vars, rows, RefInv, TypedInv, TypeOK, Reads, Read, ReferencesHold, BatchHasFiles
<1>2. CASE \E t \in Trees : Push(t)
  BY <1>2, PushRefs
<1>3. CASE \E type \in JobTypes : AcceptJob(type)
  BY <1>3, AcceptRefs
<1>4. CASE \E s \in Slots :
             \/ StartAttempt(s) \/ CloneRepository(s) \/ DeleteRemoved(s)
             \/ \E p \in Paths : WalkFile(s, p)
             \/ EmbedChunks(s) \/ StoreIndex(s) \/ AttemptFails(s)
  BY <1>4, StartRefs, CloneRefs, RemovedRefs, WalkRefs, EmbedRefs, StoreRefs, FailRefs
<1> QED
  BY <1>1, <1>2, <1>3, <1>4 DEF Next

(* Whatever attempts interleave, and whatever one deletes under another,    *)
(* every chunk has its file and every edge its chunks.                      *)
THEOREM NothingDangles == Spec => []ReferencesHold
<1>1. Init => RefInv
  BY RefInvInit
<1>2. RefInv /\ [Next]_vars => RefInv'
  BY RefInvStep
<1>3. RefInv => ReferencesHold
  BY DEF RefInv
<1> QED
  BY <1>1, <1>2, <1>3, PTL DEF Spec

-----------------------------------------------------------------------------
(* One attempt at a time: stamps, charges and the full index.               *)

(* While one slot is at work the others have nothing.                       *)
LEMMA Alone ==
  ASSUME RefInv, OneAttempt, NEW s \in Slots, run[s].pc # "idle", NEW x \in Slots \ {s}
  PROVE  run[x].pc = "idle" /\ run[x].batch = {} /\ run[x].paid = 0
BY DEF OneAttempt, RefInv, TypedInv, Reads

(* A step of the only attempt is judged by what it leaves of that attempt.  *)
LEMMA OwnStep ==
  ASSUME ContentInv, NEW s \in Slots, RefInv', OthersStand(s),
         \A x \in Slots \ {s} : run[x].pc = "idle",
         Stamped', ChunksOfRecordedCommit',
         \A p \in run'[s].batch : files'[p] = run'[s].at /\ chunks'[p] = {},
         run'[s].type = "FULL" /\ run'[s].pc # "idle" => run'[s].base = 0,
         run'[s].type = "FULL" /\ run'[s].pc \notin {"idle", "clone"} =>
           \A p \in Paths : tree'[run'[s].at][p] \in Sources =>
                              p \in run'[s].todo \cup run'[s].batch,
         cost' + run'[s].paid <= Cardinality(cached')
  PROVE  ContentInv'
<1>1. \A x \in Slots : x # s => x \in Slots \ {s}
  OBVIOUS
<1>2. \A x \in Slots \ {s} : run'[x].pc = "idle" /\ run'[x].batch = {} /\ run'[x].paid = 0
  BY DEF OthersStand, ContentInv, RefInv, TypedInv, Reads
<1>3. OneAttempt' /\ Collected' /\ WalksAll'
  BY <1>1, <1>2 DEF OneAttempt, Collected, WalksAll, Read
<1>4. Charged'
  <2>1. cost' \in Nat /\ run'[s].paid \in Nat /\ IsFiniteSet(cached')
    <3>1. cost' \in Nat /\ run'[s] \in Run /\ cached' \subseteq Sources
      BY DEF RefInv, TypedInv, TypeOK
    <3> QED
      BY <3>1, ContentAssumption, FS_Subset DEF Run
  <2>2. Cardinality(cached') \in Nat
    BY <2>1, FS_CardinalityType
  <2>3. cost' + 0 <= Cardinality(cached') /\ cost' <= Cardinality(cached')
    BY <2>1, <2>2
  <2> QED
    BY <1>1, <1>2, <2>3 DEF Charged
<1> QED
  BY <1>3, <1>4 DEF ContentInv

(* Stamps and their chunks survive where no row changes but by deletion.    *)
LEMMA DeletionKeepsStamps ==
  ASSUME Stamped, ChunksOfRecordedCommit, NEW D, UNCHANGED upstream,
         \A p \in Paths : files'[p] = IF p \in D THEN 0 ELSE files[p],
         \A p \in Paths : chunks'[p] = IF p \in D THEN {} ELSE chunks[p]
  PROVE  Stamped' /\ ChunksOfRecordedCommit'
BY DEF Stamped, ChunksOfRecordedCommit, upstream

LEMMA RowsKeepStamps ==
  ASSUME Stamped, ChunksOfRecordedCommit, UNCHANGED <<upstream, rows>>
  PROVE  Stamped' /\ ChunksOfRecordedCommit'
BY DEF Stamped, ChunksOfRecordedCommit, upstream, rows

LEMMA PushContent ==
  ASSUME ContentInv, NEW t \in Trees, Push(t)
  PROVE  ContentInv'
<1>1. RefInv'
  BY PushRefs DEF ContentInv
<1>2. /\ UNCHANGED <<run, cost, cached>> /\ UNCHANGED files /\ UNCHANGED chunks
      /\ head' = head + 1 /\ head \in Nat
      /\ \A c \in Commits : c <= head => tree'[c] = tree[c]
  BY ContentAssumption DEF Push, rows, ContentInv, RefInv, TypedInv, TypeOK, Commits
<1>3. \A s \in Slots : run[s].at \in Commits /\ run[s].at <= head
  BY RunRows DEF Run, ContentInv, RefInv, TypedInv, Reads
<1>4. \A p \in Paths : files[p] # 0 => files[p] \in Commits /\ files[p] \in Nat /\ files[p] <= head
  BY ContentAssumption DEF ContentInv, Stamped, RefInv, TypedInv, TypeOK, Commits
<1>5. Stamped' /\ ChunksOfRecordedCommit'
  <2>1. Stamped'
    BY <1>2, <1>4 DEF ContentInv, Stamped
  <2>2. ChunksOfRecordedCommit'
    BY <1>2, <1>4 DEF ContentInv, ChunksOfRecordedCommit
  <2> QED
    BY <2>1, <2>2
<1>6. OneAttempt' /\ Collected' /\ Charged'
  BY <1>2 DEF ContentInv, OneAttempt, Collected, Charged
<1>7. WalksAll'
  BY <1>2, <1>3 DEF ContentInv, WalksAll, Read
<1> QED
  BY <1>1, <1>5, <1>6, <1>7 DEF ContentInv

LEMMA AcceptContent ==
  ASSUME ContentInv, NEW type \in JobTypes, AcceptJob(type)
  PROVE  ContentInv'
<1>1. RefInv'
  BY AcceptRefs DEF ContentInv
<1>2. UNCHANGED <<upstream, rows, run, cost, cached>>
  BY DEF AcceptJob
<1>3. Stamped' /\ ChunksOfRecordedCommit'
  BY <1>2, RowsKeepStamps DEF ContentInv
<1>4. OneAttempt' /\ Collected' /\ Charged' /\ WalksAll'
  BY <1>2 DEF ContentInv, OneAttempt, Collected, Charged, WalksAll, Read, upstream, rows
<1> QED
  BY <1>1, <1>3, <1>4 DEF ContentInv

(* What is charged so far is covered by what is cached.                     *)
LEMMA CostCovered ==
  ASSUME ContentInv, NEW s \in Slots
  PROVE  /\ cost \in Nat /\ run[s].paid \in Nat /\ Cardinality(cached) \in Nat
         /\ cost <= Cardinality(cached) /\ cost + run[s].paid <= Cardinality(cached)
<1>1. cost \in Nat /\ run[s].paid \in Nat
  BY RunRows DEF ContentInv, RefInv, TypedInv, TypeOK, Run
<1>2. Cardinality(cached) \in Nat
  BY TextsFinite, FS_CardinalityType DEF ContentInv, RefInv
<1>3. cost + run[s].paid <= Cardinality(cached)
  BY DEF ContentInv, Charged
<1> QED
  BY <1>1, <1>2, <1>3

LEMMA StartContent ==
  ASSUME ContentInv, "doubleRun" \notin Faults, NEW s \in Slots, StartAttempt(s)
  PROVE  ContentInv'
<1> PICK base \in Commits \cup {0} : Begin(s, base) /\ (job = "FULL" => base = 0)
  BY DEF StartAttempt, ContentInv, RefInv, TypedInv, TypeOK
<1> DEFINE row == [NoRun EXCEPT !.pc = "clone", !.type = job, !.base = base]
<1>1. /\ row \in Run /\ row.pc = "clone" /\ row.batch = {} /\ row.paid = 0
      /\ row.type = job /\ row.base = base
  <2>1. job \in {"FULL", "INCREMENTAL"} /\ 1 \in Commits
    BY ContentAssumption DEF Commits, ContentInv, RefInv, TypedInv, TypeOK
  <2> QED
    BY <2>1 DEF NoRun, Run
<1>2. SlotBecomes(s, row)
  BY DEF Begin, SlotBecomes
<1> HIDE DEF row
<1>3. run'[s] = row /\ OthersStand(s)
  BY <1>1, <1>2, SlotStep DEF ContentInv, RefInv, TypedInv
<1>4. /\ \A x \in Slots \ {s} : run[x].pc = "idle"
      /\ UNCHANGED <<upstream, rows>> /\ cost' = cost /\ cached' = cached
  BY DEF StartAttempt, Idle
<1>5. RefInv'
  BY StartRefs DEF ContentInv
<1>6. Stamped' /\ ChunksOfRecordedCommit'
  BY <1>4, RowsKeepStamps DEF ContentInv
<1>7. cost' + run'[s].paid <= Cardinality(cached')
  BY <1>1, <1>3, <1>4, CostCovered
<1> QED
  BY <1>1, <1>3, <1>4, <1>5, <1>6, <1>7, OwnStep

LEMMA CloneContent ==
  ASSUME ContentInv, NEW s \in Slots, CloneRepository(s)
  PROVE  ContentInv'
<1>1. run[s] \in Run /\ run[s].batch = {} /\ run[s].paid = 0 /\ head \in Commits /\ run[s].pc = "clone"
  BY RunRows DEF CloneRepository, ContentInv, RefInv, TypedInv, TypeOK, Reads
<1> PICK T \in SUBSET Paths : T = WalkTargets(run[s].base, head)
  BY DEF WalkTargets, OnDisk
<1> DEFINE row == [run[s] EXCEPT !.pc = "diff", !.at = head, !.todo = T]
<1>2. /\ row \in Run /\ row.pc = "diff" /\ row.batch = {} /\ row.paid = 0 /\ row.at = head
      /\ row.type = run[s].type /\ row.base = run[s].base /\ row.todo = T
  BY <1>1 DEF Run
<1>3. SlotBecomes(s, row)
  BY <1>1 DEF CloneRepository, SlotBecomes, ContentInv, RefInv, TypedInv, TypeOK, Run
<1> HIDE DEF row
<1>4. run'[s] = row /\ OthersStand(s)
  BY <1>2, <1>3, SlotStep DEF ContentInv, RefInv, TypedInv
<1>5. UNCHANGED <<upstream, rows>> /\ cost' = cost /\ cached' = cached /\ tree' = tree
  BY DEF CloneRepository, upstream
<1>6. \A x \in Slots \ {s} : run[x].pc = "idle"
  BY <1>1, Alone DEF ContentInv
<1>7. RefInv'
  BY CloneRefs DEF ContentInv
<1>8. Stamped' /\ ChunksOfRecordedCommit'
  BY <1>5, RowsKeepStamps DEF ContentInv
<1>9. run[s].type = "FULL" => run[s].base = 0
  BY <1>1 DEF ContentInv, WalksAll
<1>10. ASSUME run[s].type = "FULL", NEW p \in Paths, tree[head][p] \in Sources
       PROVE  p \in T
  <2>1. Listed(run[s].base, head) = {}
    BY <1>9, <1>10 DEF Listed
  <2>2. tree[head][p] # Absent
    BY <1>10, ContentAssumption
  <2> QED
    BY <2>1, <2>2 DEF WalkTargets, OnDisk
<1>11. cost' + run'[s].paid <= Cardinality(cached')
  BY <1>2, <1>4, <1>5, CostCovered
<1> QED
  BY <1>2, <1>4, <1>5, <1>6, <1>7, <1>8, <1>9, <1>10, <1>11, OwnStep

LEMMA RemovedContent ==
  ASSUME ContentInv, NEW s \in Slots, DeleteRemoved(s)
  PROVE  ContentInv'
<1> PICK D \in SUBSET Paths : D = Listed(run[s].base, run[s].at) \ OnDisk(run[s].at)
  BY DEF Listed
<1> DEFINE row == [run[s] EXCEPT !.pc = "walk"]
<1>1. run[s] \in Run /\ run[s].batch = {} /\ run[s].paid = 0 /\ run[s].pc = "diff"
  BY RunRows DEF DeleteRemoved, ContentInv, RefInv, TypedInv, Reads
<1>2. /\ row \in Run /\ row.pc = "walk" /\ row.at = run[s].at /\ row.batch = {}
      /\ row.todo = run[s].todo /\ row.paid = 0 /\ row.type = run[s].type
      /\ row.base = run[s].base
  BY <1>1 DEF Run
<1>3. DeleteFiles(D) /\ SlotDeletes(s, row, D)
  BY DEF DeleteRemoved, SlotDeletes
<1> HIDE DEF row
<1>4. /\ \A p \in Paths : files'[p] = IF p \in D THEN 0 ELSE files[p]
      /\ \A p \in Paths : chunks'[p] = IF p \in D THEN {} ELSE chunks[p]
  BY <1>3, FilesTyped, RowsTyped DEF ContentInv, RefInv, TypedInv
<1>5. run'[s] = row /\ OthersStand(s)
  BY <1>2, <1>3, DeleteStep DEF ContentInv, RefInv, TypedInv
<1>6. UNCHANGED upstream /\ cost' = cost /\ cached' = cached /\ tree' = tree
  BY DEF DeleteRemoved, upstream
<1>7. RefInv' /\ \A x \in Slots \ {s} : run[x].pc = "idle"
  BY <1>1, RemovedRefs, Alone DEF ContentInv
<1>8. Stamped' /\ ChunksOfRecordedCommit'
  BY <1>4, <1>6, DeletionKeepsStamps DEF ContentInv
<1>9. /\ run[s].type = "FULL" => run[s].base = 0
      /\ run[s].type = "FULL" =>
           \A p \in Paths : tree[run[s].at][p] \in Sources => p \in run[s].todo \cup run[s].batch
  BY <1>1 DEF ContentInv, WalksAll, Read
<1>10. cost' + run'[s].paid <= Cardinality(cached')
  BY <1>2, <1>5, <1>6, CostCovered
<1> QED
  BY <1>1, <1>2, <1>5, <1>6, <1>7, <1>8, <1>9, <1>10, OwnStep

(* A file the walk passes over: it does not qualify, and its rows stay or go.*)
LEMMA PassedContent ==
  ASSUME ContentInv, NEW s \in Slots, NEW p \in run[s].todo, run[s].pc = "walk",
         Read(s, p) \notin Sources,
         RefInv', run'[s] = Visited(s, p), OthersStand(s),
         UNCHANGED <<upstream, cost, cached>>,
         \A q \in Paths \ {p} : files'[q] = files[q] /\ chunks'[q] = chunks[q],
         \/ UNCHANGED <<files, chunks>>
         \/ files'[p] = 0 /\ chunks'[p] = {}
  PROVE  ContentInv'
<1> PICK row \in Run : row = Visited(s, p)
  BY VisitedRow DEF ContentInv, RefInv
<1>1. /\ row.pc = "walk" /\ row.at = run[s].at /\ row.type = run[s].type
      /\ row.base = run[s].base /\ row.todo = run[s].todo \ {p}
      /\ row.batch = run[s].batch /\ row.paid = 0 /\ p \notin run[s].batch /\ p \in Paths
  BY VisitedRow DEF ContentInv, RefInv
<1>2. run[s].batch \subseteq Paths /\ tree' = tree
  BY RunRows DEF Run, ContentInv, RefInv, TypedInv, upstream
<1>3. \A x \in Slots \ {s} : run[x].pc = "idle"
  BY Alone DEF ContentInv
<1>4. Stamped' /\ ChunksOfRecordedCommit'
  <2>1. CASE UNCHANGED <<files, chunks>>
    BY <2>1 DEF ContentInv, Stamped, ChunksOfRecordedCommit, upstream
  <2>2. CASE files'[p] = 0 /\ chunks'[p] = {}
    <3>1. /\ \A q \in Paths : files'[q] = IF q \in {p} THEN 0 ELSE files[q]
          /\ \A q \in Paths : chunks'[q] = IF q \in {p} THEN {} ELSE chunks[q]
      BY <2>2
    <3> QED
      BY <3>1, DeletionKeepsStamps DEF ContentInv
  <2> QED
    BY <2>1, <2>2
<1>5. \A q \in row.batch : files'[q] = row.at /\ chunks'[q] = {}
  BY <1>1, <1>2 DEF ContentInv, Collected
<1>6. /\ run[s].type = "FULL" => run[s].base = 0
      /\ run[s].type = "FULL" =>
           \A q \in Paths : tree[run[s].at][q] \in Sources => q \in run[s].todo \cup run[s].batch
  BY DEF ContentInv, WalksAll, Read
<1>7. row.type = "FULL" =>
        \A q \in Paths : tree[row.at][q] \in Sources => q \in row.todo \cup row.batch
  BY <1>1, <1>6 DEF Read
<1>8. cost' + row.paid <= Cardinality(cached')
  BY <1>1, CostCovered
<1> QED
  BY <1>1, <1>2, <1>3, <1>4, <1>5, <1>6, <1>7, <1>8, OwnStep

LEMMA UpsertContent ==
  ASSUME ContentInv, NEW s \in Slots, NEW p \in run[s].todo, run[s].pc = "walk", UpsertFile(s, p),
         RefInv', UNCHANGED <<upstream, cost, cached>>
  PROVE  ContentInv'
<1> PICK row \in Run : row = UpsertRow(s, p)
  BY UpsertedRow DEF ContentInv, RefInv
<1>1. /\ row.pc = "walk" /\ row.at = run[s].at /\ row.type = run[s].type
      /\ row.base = run[s].base /\ row.todo = run[s].todo \ {p}
      /\ row.batch = run[s].batch \cup {p} /\ row.paid = 0 /\ p \in Paths
  BY UpsertedRow DEF ContentInv, RefInv
<1>2. run'[s] = row /\ OthersStand(s)
  <2>1. SlotBecomes(s, row)
    BY DEF UpsertFile, UpsertRow, SlotBecomes
  <2> QED
    BY <2>1, SlotStep DEF ContentInv, RefInv, TypedInv
<1>3. /\ run[s].batch \subseteq Paths /\ tree' = tree /\ head' = head
      /\ run[s].at \in Commits /\ run[s].at # 0 /\ run[s].at <= head
  BY RunRows DEF Run, Commits, ContentInv, RefInv, TypedInv, Reads, upstream
<1>4. \A x \in Slots \ {s} : run[x].pc = "idle"
  BY Alone DEF ContentInv
<1>5. /\ files'[p] = run[s].at /\ \A q \in Paths \ {p} : files'[q] = files[q]
      /\ chunks'[p] = {} /\ \A q \in Paths \ {p} : chunks'[q] = chunks[q]
  <2>1. files' = [files EXCEPT ![p] = run[s].at] /\ WithoutChunks({p})
    BY DEF UpsertFile
  <2>2. files \in [Paths -> Commits \cup {0}]
    BY DEF ContentInv, RefInv, TypedInv, TypeOK
  <2>3. \A q \in Paths : chunks'[q] = IF q \in {p} THEN {} ELSE chunks[q]
    BY <2>1, RowsTyped DEF ContentInv, RefInv, TypedInv
  <2> QED
    BY <1>1, <2>1, <2>2, <2>3
<1>6. tree[run[s].at][p] \in Sources
  BY DEF UpsertFile, Read
<1>7. Stamped'
  BY <1>3, <1>5, <1>6 DEF ContentInv, Stamped
<1>8. ChunksOfRecordedCommit'
  <2>1. \A q \in Paths : chunks'[q] # {} => q # p /\ chunks'[q] = chunks[q] /\ files'[q] = files[q]
    BY <1>5
  <2> QED
    BY <1>3, <2>1 DEF ContentInv, ChunksOfRecordedCommit
<1>9. \A q \in row.batch : files'[q] = row.at /\ chunks'[q] = {}
  BY <1>1, <1>3, <1>5 DEF ContentInv, Collected
<1>10. /\ run[s].type = "FULL" => run[s].base = 0
       /\ run[s].type = "FULL" =>
            \A q \in Paths : tree[run[s].at][q] \in Sources => q \in run[s].todo \cup run[s].batch
  BY DEF ContentInv, WalksAll, Read
<1>11. row.type = "FULL" =>
         \A q \in Paths : tree[row.at][q] \in Sources => q \in row.todo \cup row.batch
  BY <1>1, <1>10
<1>12. cost' + row.paid <= Cardinality(cached')
  BY <1>1, CostCovered
<1> QED
  BY <1>1, <1>2, <1>3, <1>4, <1>7, <1>8, <1>9, <1>10, <1>11, <1>12, OwnStep

LEMMA WalkContent ==
  ASSUME ContentInv, NEW s \in Slots, NEW p \in Paths, WalkFile(s, p)
  PROVE  ContentInv'
<1>1. /\ run[s].pc = "walk" /\ p \in run[s].todo /\ UNCHANGED <<upstream, cost, cached>>
      /\ RefInv'
  BY WalkRefs DEF WalkFile, ContentInv
<1>2. PICK row \in Run : row = Visited(s, p)
  BY <1>1, VisitedRow DEF ContentInv, RefInv
<1>3. ASSUME run' = [run EXCEPT ![s] = Visited(s, p)], UNCHANGED rows, Read(s, p) \notin Sources
      PROVE  ContentInv'
  <2>1. SlotBecomes(s, row)
    BY <1>2, <1>3 DEF SlotBecomes
  <2>2. run'[s] = row /\ OthersStand(s)
    BY <2>1, SlotStep DEF ContentInv, RefInv, TypedInv
  <2>3. UNCHANGED <<files, chunks>>
    BY <1>3 DEF rows
  <2> QED
    BY <1>1, <1>2, <1>3, <2>2, <2>3, PassedContent
<1>4. ASSUME DeleteFiles({p}), SlotDeletes(s, Visited(s, p), {p}), Read(s, p) \notin Sources
      PROVE  ContentInv'
  <2>1. run'[s] = row /\ OthersStand(s)
    BY <1>2, <1>4, DeleteStep DEF ContentInv, RefInv, TypedInv
  <2>2. /\ \A q \in Paths : files'[q] = IF q \in {p} THEN 0 ELSE files[q]
        /\ \A q \in Paths : chunks'[q] = IF q \in {p} THEN {} ELSE chunks[q]
    BY <1>4, FilesTyped, RowsTyped DEF ContentInv, RefInv, TypedInv
  <2> QED
    BY <1>1, <1>2, <1>4, <2>1, <2>2, PassedContent
<1>5. CASE SkipLink(s, p)
  <2>1. Read(s, p) \notin Sources
    BY <1>5, ContentAssumption DEF SkipLink
  <2> QED
    BY <1>3, <1>5, <2>1 DEF SkipLink
<1>6. CASE SkipExcluded(s, p)
  <2>1. Read(s, p) \notin Sources
    BY <1>6, ContentAssumption DEF SkipExcluded
  <2>2. \/ run' = [run EXCEPT ![s] = Visited(s, p)] /\ UNCHANGED rows
        \/ DeleteFiles({p}) /\ SlotDeletes(s, Visited(s, p), {p})
    BY <1>6 DEF SkipExcluded, SlotDeletes
  <2> QED
    BY <1>3, <1>4, <2>1, <2>2
<1>7. CASE UpsertFile(s, p)
  BY <1>1, <1>7, UpsertContent
<1> QED
  BY <1>5, <1>6, <1>7 DEF WalkFile

(* Caching texts adds to the count of the cache what it did not hold.       *)
LEMMA CacheGrows ==
  ASSUME NEW A, NEW T, IsFiniteSet(A), IsFiniteSet(T)
  PROVE  /\ Cardinality(A \cup T) = Cardinality(A) + Cardinality(T \ A)
         /\ Cardinality(A) \in Nat /\ Cardinality(T \ A) \in Nat
<1> PICK B : B = T \ A
  OBVIOUS
<1>1. A \cup T = A \cup B
  OBVIOUS
<1>2. A \cap B = {}
  OBVIOUS
<1>3. IsFiniteSet(B)
  BY FS_Difference
<1>4. Cardinality(A) \in Nat /\ Cardinality(B) \in Nat /\ Cardinality({}) = 0
  BY <1>3, FS_CardinalityType, FS_EmptySet
<1>5. Cardinality(A \cup B) = Cardinality(A) + Cardinality(B) - Cardinality(A \cap B)
  BY <1>3, FS_Union
<1>6. Cardinality(A \cup B) = Cardinality(A) + Cardinality(B) - Cardinality({})
  BY <1>2, <1>5, Zenon
<1>7. Cardinality(A \cup B) = Cardinality(A) + Cardinality(B)
  BY <1>4, <1>6
<1>8. Cardinality(A \cup T) = Cardinality(A) + Cardinality(B)
  BY <1>1, <1>7, Zenon
<1> QED
  BY <1>4, <1>8, Zenon

LEMMA EmbedContent ==
  ASSUME ContentInv, NEW s \in Slots, EmbedChunks(s)
  PROVE  ContentInv'
<1>1. /\ run[s] \in Run /\ run[s].pc = "walk" /\ run[s].todo = {}
  BY RunRows DEF EmbedChunks, ContentInv, RefInv, TypedInv
<1>2. /\ Cardinality(cached \cup Texts(s)) = Cardinality(cached) + Cardinality(Texts(s) \ cached)
      /\ Cardinality(cached) \in Nat /\ Cardinality(Texts(s) \ cached) \in Nat
  BY TextsFinite, CacheGrows DEF ContentInv, RefInv
<1> PICK n \in Nat : n = Cardinality(Texts(s) \ cached)
  BY <1>2
<1> DEFINE row == [run[s] EXCEPT !.pc = "store", !.paid = n]
<1>3. /\ row \in Run /\ row.pc = "store" /\ row.batch = run[s].batch /\ row.todo = run[s].todo
      /\ row.at = run[s].at /\ row.type = run[s].type /\ row.base = run[s].base /\ row.paid = n
  BY <1>1 DEF Run
<1>4. SlotBecomes(s, row)
  BY <1>1 DEF EmbedChunks, SlotBecomes, ContentInv, RefInv, TypedInv, TypeOK, Run
<1> HIDE DEF row
<1>5. run'[s] = row /\ OthersStand(s)
  BY <1>3, <1>4, SlotStep DEF ContentInv, RefInv, TypedInv
<1>6. /\ UNCHANGED <<upstream, rows>> /\ cost' = cost /\ cached' = cached \cup Texts(s)
      /\ UNCHANGED <<files, chunks, tree>>
  BY DEF EmbedChunks, upstream, rows
<1>7. RefInv' /\ \A x \in Slots \ {s} : run[x].pc = "idle"
  BY <1>1, EmbedRefs, Alone DEF ContentInv
<1>8. Stamped' /\ ChunksOfRecordedCommit'
  BY <1>6, RowsKeepStamps DEF ContentInv
<1>9. \A q \in row.batch : files'[q] = row.at /\ chunks'[q] = {}
  BY <1>3, <1>6 DEF ContentInv, Collected
<1>10. /\ run[s].type = "FULL" => run[s].base = 0
       /\ run[s].type = "FULL" =>
            \A q \in Paths : tree[run[s].at][q] \in Sources => q \in run[s].todo \cup run[s].batch
  BY <1>1 DEF ContentInv, WalksAll, Read
<1>11. cost' + row.paid <= Cardinality(cached')
  <2>1. cost \in Nat /\ cost <= Cardinality(cached)
    BY CostCovered
  <2> QED
    BY <1>2, <1>3, <1>6, <2>1
<1> QED
  BY <1>3, <1>5, <1>6, <1>7, <1>8, <1>9, <1>10, <1>11, OwnStep

LEMMA FailContent ==
  ASSUME ContentInv, NEW s \in Slots, AttemptFails(s)
  PROVE  ContentInv'
<1>1. NoRun \in Run /\ NoRun.pc = "idle" /\ NoRun.batch = {} /\ NoRun.paid = 0
  BY RunRows DEF ContentInv, RefInv, TypedInv
<1>2. SlotBecomes(s, NoRun)
  BY DEF AttemptFails, SlotBecomes
<1>3. run'[s] = NoRun /\ OthersStand(s)
  BY <1>1, <1>2, SlotStep DEF ContentInv, RefInv, TypedInv
<1>4. UNCHANGED <<upstream, rows>> /\ cost' = cost /\ run[s].pc # "idle"
  BY DEF AttemptFails, Idle
<1>5. RefInv' /\ \A x \in Slots \ {s} : run[x].pc = "idle"
  BY <1>4, FailRefs, Alone DEF ContentInv
<1>6. Stamped' /\ ChunksOfRecordedCommit'
  BY <1>4, RowsKeepStamps DEF ContentInv
<1>7. PICK T \in SUBSET Texts(s) : cached' = cached \cup T
  <2>1. cached' = cached \/ \E T \in SUBSET Texts(s) : cached' = cached \cup T
    BY DEF AttemptFails
  <2>2. cached \cup {} = cached /\ {} \in SUBSET Texts(s)
    OBVIOUS
  <2> QED
    BY <2>1, <2>2, Zenon
<1>8. /\ cost \in Nat /\ cost <= Cardinality(cached)
      /\ IsFiniteSet(cached) /\ IsFiniteSet(Texts(s))
  BY CostCovered, TextsFinite DEF ContentInv, RefInv
<1>9. IsFiniteSet(T)
  BY <1>8, FS_Subset
<1>10. Cardinality(cached) <= Cardinality(cached') /\ Cardinality(cached) \in Nat
       /\ Cardinality(cached') \in Nat
  <2>1. /\ Cardinality(cached \cup T) = Cardinality(cached) + Cardinality(T \ cached)
        /\ Cardinality(cached) \in Nat /\ Cardinality(T \ cached) \in Nat
    BY <1>8, <1>9, CacheGrows
  <2>2. Cardinality(cached') = Cardinality(cached) + Cardinality(T \ cached)
    BY <1>7, <2>1, Zenon
  <2> QED
    BY <2>1, <2>2
<1>11. cost' + run'[s].paid <= Cardinality(cached')
  BY <1>1, <1>3, <1>4, <1>8, <1>10
<1> QED
  BY <1>1, <1>3, <1>5, <1>6, <1>11, OwnStep

LEMMA StoreContent ==
  ASSUME ContentInv, NEW s \in Slots, StoreIndex(s)
  PROVE  ContentInv'
<1>1. /\ run[s].pc = "store" /\ run[s].batch \subseteq Paths /\ run[s].at \in Commits
      /\ run[s].at # 0 /\ UNCHANGED upstream /\ tree' = tree /\ head' = head /\ cached' = cached
  BY RunRows DEF StoreIndex, ContentInv, RefInv, TypedInv, Run, Commits, upstream
<1>2. RefInv' /\ OthersStand(s) /\ run'[s] = NoRun
  BY StoreRefs, StoreTyped DEF ContentInv
<1>3. NoRun.pc = "idle" /\ NoRun.batch = {} /\ NoRun.paid = 0
  BY RunRows DEF ContentInv, RefInv, TypedInv
<1>4. \A x \in Slots \ {s} : run[x].pc = "idle"
  BY <1>1, Alone DEF ContentInv
<1>5. \A p \in Paths : files'[p] = IF p \in Stale(s) THEN 0 ELSE files[p]
  BY StoredRows DEF ContentInv
<1>6. Stamped'
  BY <1>1, <1>5 DEF ContentInv, Stamped
<1>7. ChunksOfRecordedCommit'
  <2> SUFFICES ASSUME NEW p \in Paths, NEW c \in chunks'[p]
               PROVE  files'[p] # 0 /\ c.src = tree'[files'[p]][p]
    BY DEF ChunksOfRecordedCommit
  <2>1. p \notin Stale(s) /\ c \in Stored(s)[p] /\ files'[p] = files[p]
    BY <1>5, StoredRows DEF ContentInv
  <2>2. CASE c \in chunks[p]
    BY <1>1, <2>1, <2>2 DEF ContentInv, ChunksOfRecordedCommit
  <2>3. CASE c \notin chunks[p]
    <3>1. p \in run[s].batch /\ c = [src |-> Read(s, p), by |-> s]
      BY <2>1, <2>3 DEF Stored
    <3>2. c.src = tree[run[s].at][p]
      BY <3>1 DEF Read
    <3>3. files[p] = run[s].at
      BY <3>1 DEF ContentInv, Collected
    <3> QED
      BY <1>1, <2>1, <3>2, <3>3
  <2> QED
    BY <2>2, <2>3
<1>8. cost' + run'[s].paid <= Cardinality(cached')
  <2>1. cost' = run[s].paid \/ cost' = cost + run[s].paid
    BY DEF StoreIndex, Total
  <2> QED
    BY <1>1, <1>2, <1>3, <2>1, CostCovered
<1> QED
  BY <1>2, <1>3, <1>4, <1>6, <1>7, <1>8, OwnStep

LEMMA ContentInvInit ==
  ASSUME Init
  PROVE  ContentInv
<1>1. RefInv
  BY RefInvInit
<1>2. \A s \in Slots : run[s].pc = "idle" /\ run[s].batch = {} /\ run[s].paid = 0
  BY DEF Init, NoRun
<1>3. OneAttempt /\ Stamped /\ Collected /\ WalksAll /\ ChunksOfRecordedCommit
  BY <1>2 DEF Init, OneAttempt, Stamped, Collected, WalksAll, ChunksOfRecordedCommit
<1>4. Charged
  BY <1>2, FS_EmptySet DEF Init, Charged
<1> QED
  BY <1>1, <1>3, <1>4 DEF ContentInv

LEMMA ContentInvStutter ==
  ASSUME ContentInv, UNCHANGED vars
  PROVE  ContentInv'
<1>1. RefInv'
  BY RefInvStep DEF ContentInv
<1>2. UNCHANGED <<upstream, rows, run, cost, cached>>
  BY DEF vars, rows, upstream
<1>3. Stamped' /\ ChunksOfRecordedCommit'
  BY <1>2, RowsKeepStamps DEF ContentInv
<1>4. OneAttempt' /\ Collected' /\ Charged' /\ WalksAll'
  BY <1>2 DEF ContentInv, OneAttempt, Collected, Charged, WalksAll, Read, upstream, rows
<1> QED
  BY <1>1, <1>3, <1>4 DEF ContentInv

LEMMA ContentInvStep ==
  ASSUME ContentInv, "doubleRun" \notin Faults, [Next]_vars
  PROVE  ContentInv'
<1>1. CASE UNCHANGED vars
  BY <1>1, ContentInvStutter
<1>2. CASE \E t \in Trees : Push(t)
  BY <1>2, PushContent
<1>3. CASE \E type \in JobTypes : AcceptJob(type)
  BY <1>3, AcceptContent
<1>4. CASE \E s \in Slots :
             \/ StartAttempt(s) \/ CloneRepository(s) \/ DeleteRemoved(s)
             \/ \E p \in Paths : WalkFile(s, p)
             \/ EmbedChunks(s) \/ StoreIndex(s) \/ AttemptFails(s)
  BY <1>4, StartContent, CloneContent, RemovedContent, WalkContent, EmbedContent,
     StoreContent, FailContent
<1> QED
  BY <1>1, <1>2, <1>3, <1>4 DEF Next

(* What a full attempt stores: exactly the files that qualify in its commit *)
(* have a row, each with the one chunk it was just given, and the edges are *)
(* the calls the attempt found.                                             *)
LEMMA FullStores ==
  ASSUME ContentInv, NEW s \in Slots, run[s].type = "FULL", StoreIndex(s)
  PROVE  /\ \A p \in Paths : /\ p \in run[s].batch <=> Read(s, p) \in Sources
                             /\ files'[p] # 0 <=> p \in run[s].batch
                             /\ p \in run[s].batch => chunks'[p] = {[src |-> Read(s, p), by |-> s]}
                             /\ p \notin run[s].batch => chunks'[p] = {}
         /\ edges' = NewEdges(s)
<1>1. /\ run[s].pc = "store" /\ run[s].todo = {} /\ run[s].at # 0 /\ run[s].batch \subseteq Paths
  BY RunRows DEF StoreIndex, ContentInv, RefInv, TypedInv, Reads, Run, Commits
<1>2. \A p \in Paths : p \in run[s].batch <=> Read(s, p) \in Sources
  BY <1>1 DEF ContentInv, WalksAll, RefInv, TypedInv, Reads
<1>3. \A p \in run[s].batch : files[p] = run[s].at /\ chunks[p] = {}
  BY DEF ContentInv, Collected
<1>4. \A p \in Paths : p \notin Stale(s) <=> files[p] = 0 \/ files[p] = run[s].at
  BY DEF Stale
<1>5. \A p \in Paths : p \notin Stale(s) /\ files[p] # 0 <=> p \in run[s].batch
  BY <1>1, <1>2, <1>3, <1>4 DEF ContentInv, Stamped, Read
<1>6. ASSUME NEW p \in Paths
      PROVE  /\ files'[p] # 0 <=> p \in run[s].batch
             /\ p \in run[s].batch => chunks'[p] = {[src |-> Read(s, p), by |-> s]}
             /\ p \notin run[s].batch => chunks'[p] = {}
  <2>1. /\ files'[p] = IF p \in Stale(s) THEN 0 ELSE files[p]
        /\ chunks'[p] = IF p \in Stale(s) THEN {} ELSE Stored(s)[p]
    BY StoredRows DEF ContentInv
  <2>2. files'[p] # 0 <=> p \in run[s].batch
    BY <1>5, <2>1
  <2>3. ASSUME p \in run[s].batch
        PROVE  chunks'[p] = {[src |-> Read(s, p), by |-> s]}
    <3>1. p \notin Stale(s) /\ chunks[p] = {}
      BY <1>3, <1>5, <2>3
    <3>2. Stored(s)[p] = chunks[p] \cup {[src |-> Read(s, p), by |-> s]}
      BY <2>3 DEF Stored
    <3> QED
      BY <2>1, <3>1, <3>2
  <2>4. ASSUME p \notin run[s].batch
        PROVE  chunks'[p] = {}
    <3>1. p \in Stale(s) \/ files[p] = 0
      BY <1>5, <2>4
    <3>2. files[p] = 0 => chunks[p] = {}
      BY DEF ContentInv, RefInv, ReferencesHold
    <3>3. Stored(s)[p] = chunks[p]
      BY <2>4 DEF Stored
    <3> QED
      BY <2>1, <3>1, <3>2, <3>3
  <2> QED
    BY <2>2, <2>3, <2>4
<1>7. edges' = NewEdges(s)
  <2>1. ASSUME NEW e \in edges'
        PROVE  e \in NewEdges(s)
    <3>1. e \in edges \cup NewEdges(s) /\ e.from \notin Stale(s)
      BY StoredRows DEF ContentInv
    <3>2. ASSUME e \in edges
          PROVE  FALSE
      <4>1. e.from \in Paths /\ chunks[e.from] # {}
        BY <3>2 DEF ContentInv, RefInv, TypedInv, TypeOK, Edge, ReferencesHold
      <4>2. files[e.from] # 0
        BY <4>1 DEF ContentInv, RefInv, ReferencesHold
      <4> QED
        BY <1>3, <1>5, <3>1, <4>1, <4>2
    <3> QED
      BY <3>1, <3>2
  <2>2. ASSUME NEW e \in NewEdges(s)
        PROVE  e \in edges'
    <3>1. /\ e.from \in run[s].batch /\ e.callee \in {s, None}
          /\ e.callee = s <=> e.to \in run[s].batch
      BY NewEdgeRow DEF ContentInv, RefInv
    <3>2. e.from \notin Stale(s) /\ (e.callee # None => e.to \notin Stale(s))
      BY <1>1, <1>5, <3>1
    <3>3. edges' = {d \in edges \cup NewEdges(s) :
                      d.from \notin Stale(s) /\ (d.callee # None => d.to \notin Stale(s))}
      BY DEF StoreIndex
    <3> QED
      BY <3>2, <3>3
  <2> QED
    BY <2>1, <2>2
<1> QED
  BY <1>2, <1>6, <1>7

LEMMA FullLeavesExact ==
  ASSUME ContentInv, NEW s \in Slots, run[s].type = "FULL", StoreIndex(s)
  PROVE  ExactIndex'
<1> DEFINE c == run[s].at
<1>1. sha' = c /\ tree' = tree
  BY DEF StoreIndex, upstream
<1>2. \A p \in Paths : Indexable(p)' <=> p \in run[s].batch
  BY <1>1, FullStores DEF Indexable, Read
<1>3. NoStaleRows'
  BY <1>2, FullStores DEF NoStaleRows
<1>4. NothingMissing'
  <2> SUFFICES ASSUME NEW p \in Paths, p \in run[s].batch
               PROVE  files'[p] # 0 /\ \E k \in chunks'[p] : k.src = tree'[sha'][p]
    BY <1>2 DEF NothingMissing
  <2> PICK k : k = [src |-> Read(s, p), by |-> s]
    OBVIOUS
  <2>1. chunks'[p] = {k} /\ files'[p] # 0
    BY FullStores
  <2>2. k.src = Read(s, p)
    OBVIOUS
  <2> QED
    BY <1>1, <2>1, <2>2 DEF Read
<1>5. NoDuplicates'
  <2> SUFFICES ASSUME NEW p \in Paths
               PROVE  Cardinality(chunks'[p]) <= 1
    BY DEF NoDuplicates
  <2>1. CASE p \in run[s].batch
    <3> PICK k : k = [src |-> Read(s, p), by |-> s]
      OBVIOUS
    <3>1. chunks'[p] = {k}
      BY <2>1, FullStores
    <3>2. Cardinality({k}) = 1
      BY FS_Singleton
    <3> QED
      BY <3>1, <3>2
  <2>2. CASE p \notin run[s].batch
    <3>1. chunks'[p] = {}
      BY <2>2, FullStores
    <3>2. Cardinality({}) = 0
      BY FS_EmptySet
    <3> QED
      BY <3>1, <3>2
  <2> QED
    BY <2>1, <2>2
<1>6. EdgesExact'
  <2>1. \A e \in edges' :
          /\ e.from \in run[s].batch /\ e.from \in Paths /\ e.to \in Paths /\ e.by = s
          /\ e.to \in Calls[Read(s, e.from)] /\ e.callee \in {s, None} /\ e \in Edge
          /\ e.callee = s <=> e.to \in run[s].batch
    BY FullStores, NewEdgeRow DEF ContentInv, RefInv, Edge
  <2>2. s # None
    BY SlotAssumption
  <2>3. \A e \in edges' :
          /\ Indexable(e.from)' /\ e.to \in Calls[tree'[sha'][e.from]]
          /\ e.callee # None <=> Indexable(e.to)'
    BY <1>1, <1>2, <2>1, <2>2 DEF Read
  <2>4. ASSUME NEW p \in Paths, p \in run[s].batch, NEW q \in Calls[Read(s, p)]
        PROVE  \E e \in edges' : e.from = p /\ e.to = q
    <3>1. q \in Paths
      <4>1. Read(s, p) \in Sources
        BY <2>4, FullStores
      <4> QED
        BY <4>1, ContentAssumption
    <3> PICK k \in {s, None} : k = s <=> q \in run[s].batch
      BY <2>2
    <3> PICK e : e = [from |-> p, by |-> s, to |-> q, callee |-> k]
      OBVIOUS
    <3>2. e \in [from: run[s].batch, by: {s}, to: Paths, callee: {s, None}]
      BY <2>4, <3>1
    <3>3. e.from = p /\ e.to = q /\ e.callee = k
      OBVIOUS
    <3>4. e \in NewEdges(s)
      BY <3>2, <3>3 DEF NewEdges
    <3> QED
      BY <3>3, <3>4, FullStores
  <2>5. ASSUME NEW d \in edges', NEW e \in edges', d.from = e.from, d.to = e.to
        PROVE  d = e
    <3>1. d.by = e.by /\ d.callee = e.callee /\ d \in Edge /\ e \in Edge
      BY <2>1, <2>2, <2>5
    <3> QED
      BY <2>5, <3>1 DEF Edge
  <2>6. \A p \in Paths : Indexable(p)' =>
          \A q \in Calls[tree'[sha'][p]] : \E e \in edges' : e.from = p /\ e.to = q
    BY <1>1, <1>2, <2>4 DEF Read
  <2> QED
    BY <2>3, <2>5, <2>6 DEF EdgesExact
<1> QED
  BY <1>3, <1>4, <1>5, <1>6 DEF ExactIndex

-----------------------------------------------------------------------------
(* The properties of MCIndexContent: a step of the turn "full" is a step of *)
(* the specification with these constants.                                  *)
LEMMA FullTurn ==
  ASSUME [SumNext]_<<turn, vars>>, turn = "full"
  PROVE  turn' = "full" /\ [Next]_vars
BY DEF SumNext

LEMMA TurnStays ==
  ASSUME [SumNext]_<<turn, vars>>
  PROVE  turn' = turn
BY DEF SumNext

LEMMA SumContent ==
  ASSUME "doubleRun" \notin Faults
  PROVE  SumSpec => [](turn = "full" => ContentInv)
<1>1. SumInit => (turn = "full" => ContentInv)
  BY ContentInvInit DEF SumInit
<1>2. (turn = "full" => ContentInv) /\ [SumNext]_<<turn, vars>> => (turn = "full" => ContentInv)'
  BY FullTurn, TurnStays, ContentInvStep
<1> QED
  BY <1>1, <1>2, PTL DEF SumSpec

(* Every variable has its type, whatever attempts interleave.               *)
THEOREM RowsTypedAlways == SumSpec => []TypesHold
<1> DEFINE Inv == turn = "full" => RefInv
<1>1. SumInit => Inv
  BY RefInvInit DEF SumInit
<1>2. Inv /\ [SumNext]_<<turn, vars>> => Inv'
  BY FullTurn, TurnStays, RefInvStep
<1>3. Inv => TypesHold
  BY DEF TypesHold, RefInv, TypedInv
<1> QED
  BY <1>1, <1>2, <1>3, PTL DEF SumSpec

(* No embedding is charged twice, however often attempts fail and indexes   *)
(* are repeated.                                                            *)
THEOREM ChargedOnceForEach ==
  ASSUME "doubleRun" \notin Faults
  PROVE  SumSpec => []NoDoubleCharge
<1>1. (turn = "full" => ContentInv) => NoDoubleCharge
  BY DEF NoDoubleCharge, ChargedOnce, ContentInv, Charged
<1> QED
  BY <1>1, SumContent, PTL

(* The stamp of a file's row is the commit its chunk was cut from, whatever *)
(* attempt failed after stamping it and wherever the head has moved.        *)
THEOREM StampsAreTrue ==
  ASSUME "doubleRun" \notin Faults
  PROVE  SumSpec => []StampIsTrue
<1>1. (turn = "full" => ContentInv) => StampIsTrue
  BY DEF StampIsTrue, ContentInv
<1> QED
  BY <1>1, SumContent, PTL

(* A full index leaves the exact index of the commit it cloned: no row too  *)
(* many, no file missed, no chunk twice, every call resolved that can be.   *)
THEOREM FullIndexLeavesExact ==
  ASSUME "doubleRun" \notin Faults
  PROVE  SumSpec => FullIsExact
<1>1. (turn = "full" => ContentInv) /\ [SumNext]_<<turn, vars>> =>
        [turn = "full" => \A s \in Slots :
           run[s].type = "FULL" /\ StoreIndex(s) => ExactIndex']_<<turn, vars>>
  BY FullLeavesExact
<1> QED
  BY <1>1, SumContent, PTL DEF SumSpec, FullIsExact

-----------------------------------------------------------------------------
(* The turn "incremental": indexes that do not fail, of pushes that neither *)
(* rename, nor link, nor rewrite history.                                   *)

(* The commits are what smooth pushes make.                                 *)
SmoothHistory ==
  /\ lost = {}
  /\ \A c \in 1..head : PlainTree(tree[c])
  /\ \A c, d \in 1..head : c <= d => \A p \in Paths : ~RenamedAway(tree[c], tree[d], p)

(* The row of a path is what commit c makes of it.                          *)
Matches(p, c) ==
  /\ files[p] # 0 <=> tree[c][p] \in Sources
  /\ tree[c][p] \in Sources => \E k \in chunks[p] : k.src = tree[c][p]

(* The rows are the index of the commit the repository names.               *)
AsIndexed ==
  /\ sha = 0 => \A p \in Paths : files[p] = 0
  /\ sha # 0 => \A p \in Paths : Matches(p, sha)

Incremental(s) == run[s].type = "INCREMENTAL"

(* An attempt that has not written yet leaves the rows as they were indexed.*)
Untouched(s) == Idle(s) \/ (Incremental(s) /\ run[s].pc \in {"clone", "diff"})

(* The worker holds the status, and an incremental attempt goes from the    *)
(* commit the repository names.                                             *)
Working ==
  /\ status = "INDEXED" => sha # 0
  /\ \A s \in Slots : ~Idle(s) =>
       /\ status = "busy"
       /\ Incremental(s) => run[s].base = sha
  /\ \A s \in Slots : Incremental(s) /\ run[s].pc \notin {"idle", "clone"} =>
       sha <= run[s].at

(* It has still to do all that differs between the two,                     *)
ListsAll ==
  \A s \in Slots : Incremental(s) /\ run[s].pc = "diff" =>
    run[s].todo = WalkTargets(run[s].base, run[s].at)

(* ... and what is not to do, nor collected, is as the new commit has it.   *)
WalkedMatches ==
  \A s \in Slots : Incremental(s) /\ run[s].pc \in {"walk", "store"} =>
    \A p \in Paths : p \in run[s].todo \cup run[s].batch \/ Matches(p, run[s].at)

SmoothInv ==
  /\ ContentInv /\ SmoothHistory /\ Working /\ ListsAll /\ WalkedMatches
  /\ sha <= head
  /\ (\A s \in Slots : Untouched(s)) => AsIndexed

(* A step of the only attempt is judged by what it leaves of that attempt.  *)
LEMMA SmoothOwn ==
  ASSUME SmoothInv, NEW s \in Slots, ContentInv', OthersStand(s), UNCHANGED upstream,
         \A x \in Slots \ {s} : run[x].pc = "idle",
         sha' <= head, status' = "INDEXED" => sha' # 0,
         run'[s].pc # "idle" => status' = "busy",
         run'[s].type = "INCREMENTAL" /\ run'[s].pc # "idle" => run'[s].base = sha',
         run'[s].type = "INCREMENTAL" /\ run'[s].pc \notin {"idle", "clone"} => sha' <= run'[s].at,
         run'[s].type = "INCREMENTAL" /\ run'[s].pc = "diff" =>
           run'[s].todo = WalkTargets(run'[s].base, run'[s].at),
         run'[s].type = "INCREMENTAL" /\ run'[s].pc \in {"walk", "store"} =>
           \A p \in Paths : p \in run'[s].todo \cup run'[s].batch \/ Matches(p, run[s].at)',
         Untouched(s)' => AsIndexed'
  PROVE  SmoothInv'
<1>1. \A x \in Slots : x # s => x \in Slots \ {s}
  OBVIOUS
<1>2. \A x \in Slots \ {s} : run'[x].pc = "idle"
  BY DEF OthersStand
<1>3. tree' = tree /\ head' = head /\ lost' = lost
  BY DEF upstream
<1>4. SmoothHistory'
  BY <1>3 DEF SmoothInv, SmoothHistory, PlainTree, RenamedAway
<1>5. Working'
  BY <1>1, <1>2 DEF Working, Idle, Incremental
<1>6. ListsAll'
  BY <1>1, <1>2, <1>3 DEF ListsAll, Incremental, WalkTargets, OnDisk, Listed, RenamedAway
<1>7. WalkedMatches'
  BY <1>1, <1>2 DEF WalkedMatches, Incremental
<1>8. (\A x \in Slots : Untouched(x)') => AsIndexed'
  OBVIOUS
<1> QED
  BY <1>3, <1>4, <1>5, <1>6, <1>7, <1>8 DEF SmoothInv

(* Rows that stand, or gain a chunk, match what they matched.               *)
LEMMA RowsMatch ==
  ASSUME SmoothInv, UNCHANGED <<upstream, rows, sha>>, AsIndexed
  PROVE  AsIndexed'
BY DEF AsIndexed, Matches, upstream, rows

(* What a smooth state says of its commits.                                 *)
LEMMA SmoothCommits ==
  ASSUME SmoothInv
  PROVE  /\ head \in Nat /\ head \in Commits /\ sha \in Nat /\ sha <= head
         /\ sha # 0 => sha \in 1..head
         /\ \A s \in Slots : /\ run[s] \in Run /\ run[s].at \in 1..head /\ run[s].at \in Nat
                             /\ run[s].at # 0 /\ run[s].todo \subseteq Paths
                             /\ run[s].batch \subseteq Paths
         /\ \A c \in 1..head : c \in Commits /\ c \in Nat /\ c <= head
<1>1. head \in Commits /\ sha \in Commits \cup {0} /\ sha <= head /\ \A s \in Slots : run[s] \in Run
  BY DEF SmoothInv, ContentInv, RefInv, TypedInv, TypeOK
<1>2. MaxCommits \in Nat /\ \A s \in Slots : run[s].at <= head
  BY ContentAssumption DEF SmoothInv, ContentInv, RefInv, TypedInv, Reads
<1> QED
  BY <1>1, <1>2 DEF Commits, Run

LEMMA SmoothPushStep ==
  ASSUME SmoothInv, NEW t \in Trees, SmoothPush(t), "doubleRun" \notin Faults
  PROVE  SmoothInv'
<1>1. ContentInv'
  BY PushContent DEF SmoothPush, SmoothInv
<1>2. /\ head' = head + 1 /\ lost' = lost /\ tree' = [tree EXCEPT ![head + 1] = t]
      /\ UNCHANGED <<files, chunks, sha, status, run>> /\ PlainTree(t)
      /\ \A c \in 1..head : \A p \in Paths : ~RenamedAway(tree[c], t, p)
  BY DEF SmoothPush, Push, rows
<1>3. /\ head + 1 \in Commits /\ tree \in [Commits -> Trees] /\ MaxCommits \in Nat /\ head \in Nat
  BY ContentAssumption, SmoothCommits
     DEF SmoothPush, Push, SmoothInv, ContentInv, RefInv, TypedInv, TypeOK, Commits
<1>4. tree'[head + 1] = t /\ \A c \in 1..head : tree'[c] = tree[c]
  BY <1>2, <1>3, SmoothCommits
<1>5. SmoothHistory'
  <2>1. lost' = {}
    BY <1>2 DEF SmoothInv, SmoothHistory
  <2>2. \A c \in 1..head' : c \in 1..head \/ c = head + 1
    BY <1>2, <1>3
  <2>3. \A c \in 1..head' : PlainTree(tree'[c])
    BY <1>2, <1>4, <2>2 DEF SmoothInv, SmoothHistory
  <2>4. ASSUME NEW c \in 1..head', NEW d \in 1..head', c <= d, NEW p \in Paths
        PROVE  ~RenamedAway(tree'[c], tree'[d], p)
    <3>1. CASE d \in 1..head
      <4>1. c \in 1..head
        BY <1>3, <2>2, <2>4, <3>1
      <4> QED
        BY <1>4, <2>4, <3>1, <4>1 DEF SmoothInv, SmoothHistory
    <3>2. CASE d = head + 1 /\ c \in 1..head
      BY <1>2, <1>4, <3>2
    <3>3. CASE d = head + 1 /\ c = head + 1
      BY <3>3 DEF RenamedAway
    <3> QED
      BY <2>2, <3>1, <3>2, <3>3
  <2> QED
    BY <2>1, <2>3, <2>4 DEF SmoothHistory, PlainTree, RenamedAway
<1>6. Working' /\ sha' <= head'
  BY <1>2, <1>3, SmoothCommits DEF SmoothInv, Working, Idle, Incremental
<1>7. ListsAll'
  <2> SUFFICES ASSUME NEW s \in Slots, run[s].type = "INCREMENTAL", run[s].pc = "diff"
               PROVE  run[s].todo = WalkTargets(run[s].base, run[s].at)'
    BY <1>2 DEF ListsAll, Incremental
  <2>1. run[s].base = sha /\ run[s].todo = WalkTargets(run[s].base, run[s].at)
    BY DEF SmoothInv, Working, ListsAll, Idle, Incremental
  <2>2. tree'[run[s].at] = tree[run[s].at] /\ (run[s].base # 0 => tree'[run[s].base] = tree[run[s].base])
    BY <1>4, <2>1, SmoothCommits
  <2>3. Listed(run[s].base, run[s].at)' = Listed(run[s].base, run[s].at)
    BY <1>2, <2>2 DEF Listed, RenamedAway
  <2>4. OnDisk(run[s].at)' = OnDisk(run[s].at)
    BY <1>2, <2>2 DEF OnDisk
  <2> QED
    BY <2>1, <2>3, <2>4 DEF WalkTargets
<1>8. WalkedMatches'
  BY <1>2, <1>4, SmoothCommits DEF SmoothInv, WalkedMatches, Matches, Incremental
<1>9. AsIndexed => AsIndexed'
  BY <1>2, <1>4, SmoothCommits DEF AsIndexed, Matches
<1>10. (\A s \in Slots : Untouched(s)') => \A s \in Slots : Untouched(s)
  BY <1>2 DEF Untouched, Idle, Incremental
<1> QED
  BY <1>1, <1>5, <1>6, <1>7, <1>8, <1>9, <1>10 DEF SmoothInv

LEMMA SmoothAccept ==
  ASSUME SmoothInv, NEW type \in JobTypes, AcceptJob(type)
  PROVE  SmoothInv'
<1>1. ContentInv'
  BY AcceptContent DEF SmoothInv
<1>2. /\ UNCHANGED <<upstream, rows, sha, run>> /\ status # "busy" /\ status' = "busy"
      /\ tree' = tree /\ head' = head /\ lost' = lost
  BY DEF AcceptJob, upstream
<1>3. SmoothHistory'
  BY <1>2 DEF SmoothInv, SmoothHistory, PlainTree, RenamedAway
<1>4. Working'
  BY <1>2 DEF SmoothInv, Working, Idle, Incremental
<1>5. ListsAll'
  BY <1>2 DEF SmoothInv, ListsAll, Incremental, WalkTargets, OnDisk, Listed, RenamedAway
<1>6. WalkedMatches'
  BY <1>2 DEF SmoothInv, WalkedMatches, Incremental, Matches, rows
<1>7. AsIndexed => AsIndexed'
  BY <1>2, RowsMatch
<1>8. (\A s \in Slots : Untouched(s)') => \A s \in Slots : Untouched(s)
  BY <1>2 DEF Untouched, Idle, Incremental
<1> QED
  BY <1>1, <1>2, <1>3, <1>4, <1>5, <1>6, <1>7, <1>8 DEF SmoothInv

LEMMA SmoothStart ==
  ASSUME SmoothInv, "doubleRun" \notin Faults, NEW s \in Slots, StartAttempt(s)
  PROVE  SmoothInv'
<1> PICK base \in Commits \cup {0} : Begin(s, base) /\ (job = "INCREMENTAL" => base = sha)
  BY DEF StartAttempt, SmoothInv, ContentInv, RefInv, TypedInv, TypeOK
<1> DEFINE row == [NoRun EXCEPT !.pc = "clone", !.type = job, !.base = base]
<1>1. row \in Run /\ row.pc = "clone" /\ row.type = job /\ row.base = base
  <2>1. job \in {"FULL", "INCREMENTAL"} /\ 1 \in Commits
    BY ContentAssumption DEF Commits, SmoothInv, ContentInv, RefInv, TypedInv, TypeOK
  <2> QED
    BY <2>1 DEF NoRun, Run
<1>2. SlotBecomes(s, row)
  BY DEF Begin, SlotBecomes
<1> HIDE DEF row
<1>3. run'[s] = row /\ OthersStand(s)
  BY <1>1, <1>2, SlotStep DEF SmoothInv, ContentInv, RefInv, TypedInv
<1>4. /\ \A x \in Slots : run[x].pc = "idle"
      /\ UNCHANGED <<upstream, rows, sha>> /\ status = "busy" /\ status' = "busy" /\ sha' = sha
  BY DEF StartAttempt, Idle
<1>5. ContentInv'
  BY StartContent DEF SmoothInv
<1>6. AsIndexed'
  BY <1>4, RowsMatch DEF SmoothInv, Untouched, Idle
<1> QED
  BY <1>1, <1>3, <1>4, <1>5, <1>6, SmoothOwn, SmoothCommits

LEMMA SmoothClone ==
  ASSUME SmoothInv, NEW s \in Slots, CloneRepository(s)
  PROVE  SmoothInv'
<1>1. run[s] \in Run /\ run[s].pc = "clone" /\ head \in Commits
  BY SmoothCommits DEF CloneRepository
<1> PICK T \in SUBSET Paths : T = WalkTargets(run[s].base, head)
  BY DEF WalkTargets, OnDisk
<1> DEFINE row == [run[s] EXCEPT !.pc = "diff", !.at = head, !.todo = T]
<1>2. /\ row \in Run /\ row.pc = "diff" /\ row.at = head
      /\ row.type = run[s].type /\ row.base = run[s].base /\ row.todo = T
  BY <1>1 DEF Run
<1>3. SlotBecomes(s, row)
  BY <1>1 DEF CloneRepository, SlotBecomes, SmoothInv, ContentInv, RefInv, TypedInv, TypeOK, Run
<1> HIDE DEF row
<1>4. run'[s] = row /\ OthersStand(s)
  BY <1>2, <1>3, SlotStep DEF SmoothInv, ContentInv, RefInv, TypedInv
<1>5. UNCHANGED <<upstream, rows, sha>> /\ status' = "busy" /\ sha' = sha
  BY DEF CloneRepository
<1>6. \A x \in Slots \ {s} : run[x].pc = "idle"
  BY <1>1, Alone DEF SmoothInv, ContentInv
<1>7. ContentInv'
  BY CloneContent DEF SmoothInv
<1>8. run[s].type = "INCREMENTAL" => run[s].base = sha
  BY <1>1 DEF SmoothInv, Working, Idle, Incremental
<1>9. Untouched(s)' => AsIndexed'
  <2> SUFFICES ASSUME run[s].type = "INCREMENTAL"
               PROVE  AsIndexed'
    BY <1>2, <1>4 DEF Untouched, Idle, Incremental
  <2>1. \A x \in Slots : Untouched(x)
    BY <1>1, <1>6 DEF Untouched, Idle, Incremental
  <2> QED
    BY <1>5, <2>1, RowsMatch DEF SmoothInv
<1> QED
  BY <1>2, <1>4, <1>5, <1>6, <1>7, <1>8, <1>9, SmoothOwn, SmoothCommits

(* The diff from the indexed commit to the cloned one names all that there  *)
(* is to do: after the deletions a path it does not name is as it should be.*)
LEMMA RemovedMatches ==
  ASSUME SmoothInv, NEW s \in Slots, run[s].type = "INCREMENTAL", run[s].pc = "diff", UNCHANGED upstream,
         DeleteFiles(Listed(run[s].base, run[s].at) \ OnDisk(run[s].at)),
         \A x \in Slots \ {s} : run[x].pc = "idle",
         NEW p \in Paths, p \notin run[s].todo, NEW c, c = run[s].at
  PROVE  Matches(p, c)'
<1> PICK b : b = run[s].base
  OBVIOUS
<1> PICK D : D = Listed(b, c) \ OnDisk(c)
  OBVIOUS
<1>1. AsIndexed
  <2>1. \A x \in Slots : Untouched(x)
    BY DEF Untouched, Idle, Incremental
  <2> QED
    BY <2>1 DEF SmoothInv
<1>2. b = sha /\ sha <= c /\ c \in 1..head /\ run[s].todo = WalkTargets(b, c)
  BY SmoothCommits DEF SmoothInv, Working, ListsAll, Idle, Incremental
<1>3. /\ files'[p] = IF p \in D THEN 0 ELSE files[p]
      /\ chunks'[p] = IF p \in D THEN {} ELSE chunks[p]
      /\ tree' = tree
  BY FilesTyped, RowsTyped DEF SmoothInv, ContentInv, RefInv, TypedInv, upstream
<1>4. b # 0 => ~RenamedAway(tree[b], tree[c], p) /\ b \notin lost /\ Matches(p, b)
  BY <1>1, <1>2, SmoothCommits DEF SmoothInv, SmoothHistory, AsIndexed
<1>5. p \in Listed(b, c) <=> b # 0 /\ tree[b][p] # tree[c][p]
  BY <1>4 DEF Listed
<1>6. CASE tree[c][p] = Absent
  <2>1. tree[c][p] \notin Sources
    BY <1>6, ContentAssumption
  <2>2. p \in Listed(b, c) => p \in D
    BY <1>6 DEF OnDisk
  <2>3. p \notin Listed(b, c) => files[p] = 0
    BY <1>1, <1>2, <1>4, <1>5, <2>1 DEF AsIndexed, Matches
  <2> QED
    BY <1>3, <2>1, <2>2, <2>3 DEF Matches
<1>7. CASE tree[c][p] # Absent
  <2>1. p \in OnDisk(c) /\ p \notin D
    BY <1>7 DEF OnDisk
  <2>2. p \notin Listed(b, c) /\ Listed(b, c) # {}
    BY <1>2, <2>1 DEF WalkTargets
  <2>3. b # 0
    BY <2>2 DEF Listed
  <2> QED
    BY <1>3, <1>4, <1>5, <2>1, <2>2, <2>3 DEF Matches
<1> QED
  BY <1>6, <1>7

LEMMA SmoothRemoved ==
  ASSUME SmoothInv, NEW s \in Slots, DeleteRemoved(s)
  PROVE  SmoothInv'
<1> DEFINE row == [run[s] EXCEPT !.pc = "walk"]
<1> PICK D \in SUBSET Paths : D = Listed(run[s].base, run[s].at) \ OnDisk(run[s].at)
  BY DEF Listed
<1> PICK c : c = run[s].at
  OBVIOUS
<1>1. run[s] \in Run /\ run[s].pc = "diff"
  BY SmoothCommits DEF DeleteRemoved
<1>2. /\ row \in Run /\ row.pc = "walk" /\ row.at = c /\ row.todo = run[s].todo
      /\ row.type = run[s].type /\ row.base = run[s].base
  BY <1>1 DEF Run
<1>3. DeleteFiles(D) /\ SlotDeletes(s, row, D)
  BY DEF DeleteRemoved, SlotDeletes
<1> HIDE DEF row
<1>4. run'[s] = row /\ OthersStand(s)
  BY <1>2, <1>3, DeleteStep DEF SmoothInv, ContentInv, RefInv, TypedInv
<1>5. UNCHANGED <<upstream, sha, status>> /\ sha' = sha /\ status' = status
  BY DEF DeleteRemoved
<1>6. ContentInv' /\ \A x \in Slots \ {s} : run[x].pc = "idle"
  BY <1>1, RemovedContent, Alone DEF SmoothInv, ContentInv
<1>7. /\ status = "busy"
      /\ run[s].type = "INCREMENTAL" => run[s].base = sha /\ sha <= c
  BY <1>1 DEF SmoothInv, Working, Idle, Incremental
<1>8. ASSUME run[s].type = "INCREMENTAL", NEW p \in Paths, p \notin run[s].todo
      PROVE  Matches(p, run[s].at)'
  <2>1. Matches(p, c)'
    BY <1>1, <1>3, <1>5, <1>6, <1>8, RemovedMatches
  <2> QED
    BY <1>2, <1>4, <2>1 DEF Matches
<1>9. ~Untouched(s)'
  BY <1>2, <1>4 DEF Untouched, Idle
<1> QED
  BY <1>2, <1>4, <1>5, <1>6, <1>7, <1>8, <1>9, SmoothOwn, SmoothCommits

LEMMA SmoothWalk ==
  ASSUME SmoothInv, NEW s \in Slots, NEW p \in Paths, WalkFile(s, p)
  PROVE  SmoothInv'
<1>1. /\ run[s].pc = "walk" /\ p \in run[s].todo
      /\ UNCHANGED <<upstream, status, sha>> /\ tree' = tree /\ sha' = sha /\ status' = status
      /\ Read(s, p) \in Sources \/ Read(s, p) \in {Link, Excluded}
  BY DEF WalkFile, SkipLink, SkipExcluded, UpsertFile, upstream
<1> PICK c : c = run[s].at
  OBVIOUS
<1> PICK visited \in Run : visited = Visited(s, p)
  BY <1>1, VisitedRow DEF SmoothInv, ContentInv, RefInv
<1> PICK upserted \in Run : upserted = UpsertRow(s, p)
  BY <1>1, UpsertedRow DEF SmoothInv, ContentInv, RefInv
<1>2. /\ visited.pc = "walk" /\ visited.at = c /\ visited.type = run[s].type
      /\ visited.base = run[s].base /\ visited.todo = run[s].todo \ {p}
      /\ visited.batch = run[s].batch
  BY <1>1, VisitedRow DEF SmoothInv, ContentInv, RefInv
<1>3. /\ upserted.pc = "walk" /\ upserted.at = c /\ upserted.type = run[s].type
      /\ upserted.base = run[s].base /\ upserted.todo = run[s].todo \ {p}
      /\ upserted.batch = run[s].batch \cup {p}
  BY <1>1, UpsertedRow DEF SmoothInv, ContentInv, RefInv
<1>4. ContentInv' /\ \A x \in Slots \ {s} : run[x].pc = "idle"
  BY <1>1, WalkContent, Alone DEF SmoothInv, ContentInv
<1>5. /\ status = "busy"
      /\ run[s].type = "INCREMENTAL" => run[s].base = sha /\ sha <= c
  BY <1>1 DEF SmoothInv, Working, Idle, Incremental
<1>6. \A q \in Paths : run[s].type = "INCREMENTAL" =>
        q \in run[s].todo \cup run[s].batch \/ Matches(q, c)
  BY <1>1 DEF SmoothInv, WalkedMatches, Incremental
<1>7. ASSUME NEW row \in {visited, upserted}, run'[s] = row, OthersStand(s),
             \A q \in Paths \ {p} : files'[q] = files[q] /\ chunks'[q] = chunks[q],
             run[s].type = "INCREMENTAL" => p \in row.batch \/ Matches(p, c)'
      PROVE  SmoothInv'
  <2>1. /\ row.pc = "walk" /\ row.at = c /\ row.type = run[s].type /\ row.base = run[s].base
        /\ \A q \in run[s].todo \cup run[s].batch : q # p => q \in row.todo \cup row.batch
    BY <1>2, <1>3
  <2>2. ASSUME run[s].type = "INCREMENTAL", NEW q \in Paths
        PROVE  q \in row.todo \cup row.batch \/ Matches(q, c)'
    <3>1. CASE q = p
      BY <1>7, <2>2, <3>1
    <3>2. CASE q # p
      BY <1>1, <1>6, <1>7, <2>1, <2>2, <3>2 DEF Matches
    <3> QED
      BY <3>1, <3>2
  <2>3. \A q \in Paths : Matches(q, c)' => Matches(q, run[s].at)'
    BY <1>7, <2>1 DEF Matches
  <2>4. ~Untouched(s)'
    BY <1>7, <2>1 DEF Untouched, Idle
  <2> QED
    BY <1>1, <1>4, <1>5, <1>7, <2>1, <2>2, <2>3, <2>4, SmoothOwn, SmoothCommits
<1>8. CASE SkipLink(s, p)
  <2>1. PlainTree(tree[c])
    BY SmoothCommits DEF SmoothInv, SmoothHistory
  <2> QED
    BY <1>8, <2>1 DEF SkipLink, PlainTree, Read
<1>9. CASE SkipExcluded(s, p)
  <2>1. tree[c][p] \notin Sources
    BY <1>9, ContentAssumption DEF SkipExcluded, Read
  <2>2. CASE DeleteFiles({p}) /\ SlotDeletes(s, Visited(s, p), {p})
    <3>1. run'[s] = visited /\ OthersStand(s)
      BY <2>2, DeleteStep DEF SmoothInv, ContentInv, RefInv, TypedInv
    <3>2. /\ \A q \in Paths : files'[q] = IF q \in {p} THEN 0 ELSE files[q]
          /\ \A q \in Paths : chunks'[q] = IF q \in {p} THEN {} ELSE chunks[q]
      BY <2>2, FilesTyped, RowsTyped DEF SmoothInv, ContentInv, RefInv, TypedInv
    <3>3. Matches(p, c)'
      BY <1>1, <2>1, <3>2 DEF Matches
    <3> QED
      BY <1>7, <3>1, <3>2, <3>3
  <2>3. CASE /\ run[s].type = "FULL"
             /\ run' = [run EXCEPT ![s] = Visited(s, p)]
             /\ UNCHANGED rows
    <3>1. SlotBecomes(s, visited)
      BY <2>3 DEF SlotBecomes
    <3>2. run'[s] = visited /\ OthersStand(s)
      BY <3>1, SlotStep DEF SmoothInv, ContentInv, RefInv, TypedInv
    <3>3. files' = files /\ chunks' = chunks
      BY <2>3 DEF rows
    <3> QED
      BY <1>7, <2>3, <3>2, <3>3
  <2> QED
    BY <1>9, <2>2, <2>3 DEF SkipExcluded, SlotDeletes
<1>10. CASE UpsertFile(s, p)
  <2>1. SlotBecomes(s, upserted)
    BY <1>10 DEF UpsertFile, UpsertRow, SlotBecomes
  <2>2. run'[s] = upserted /\ OthersStand(s)
    BY <2>1, SlotStep DEF SmoothInv, ContentInv, RefInv, TypedInv
  <2>3. \A q \in Paths \ {p} : files'[q] = files[q] /\ chunks'[q] = chunks[q]
    <3>1. files' = [files EXCEPT ![p] = run[s].at] /\ WithoutChunks({p})
      BY <1>10 DEF UpsertFile
    <3>2. files \in [Paths -> Commits \cup {0}]
      BY DEF SmoothInv, ContentInv, RefInv, TypedInv, TypeOK
    <3>3. \A q \in Paths : chunks'[q] = IF q \in {p} THEN {} ELSE chunks[q]
      BY <3>1, RowsTyped DEF SmoothInv, ContentInv, RefInv, TypedInv
    <3> QED
      BY <3>1, <3>2, <3>3
  <2>4. p \in upserted.batch
    BY <1>3
  <2> QED
    BY <1>7, <2>2, <2>3, <2>4
<1> QED
  BY <1>8, <1>9, <1>10 DEF WalkFile

LEMMA SmoothEmbed ==
  ASSUME SmoothInv, NEW s \in Slots, EmbedChunks(s)
  PROVE  SmoothInv'
<1> PICK c : c = run[s].at
  OBVIOUS
<1>1. run[s] \in Run /\ run[s].pc = "walk" /\ run[s].todo = {}
  BY SmoothCommits DEF EmbedChunks
<1>2. Cardinality(Texts(s) \ cached) \in Nat
  BY TextsFinite, CacheGrows DEF SmoothInv, ContentInv, RefInv
<1> PICK n \in Nat : n = Cardinality(Texts(s) \ cached)
  BY <1>2
<1> DEFINE row == [run[s] EXCEPT !.pc = "store", !.paid = n]
<1>3. /\ row \in Run /\ row.pc = "store" /\ row.batch = run[s].batch /\ row.todo = run[s].todo
      /\ row.at = c /\ row.type = run[s].type /\ row.base = run[s].base
  BY <1>1 DEF Run
<1>4. SlotBecomes(s, row)
  BY <1>1 DEF EmbedChunks, SlotBecomes, SmoothInv, ContentInv, RefInv, TypedInv, TypeOK, Run
<1> HIDE DEF row
<1>5. run'[s] = row /\ OthersStand(s)
  BY <1>3, <1>4, SlotStep DEF SmoothInv, ContentInv, RefInv, TypedInv
<1>6. /\ UNCHANGED <<upstream, sha>> /\ status' = "busy" /\ sha' = sha
      /\ files' = files /\ chunks' = chunks /\ tree' = tree
  BY DEF EmbedChunks, upstream, rows
<1>7. ContentInv' /\ \A x \in Slots \ {s} : run[x].pc = "idle"
  BY <1>1, EmbedContent, Alone DEF SmoothInv, ContentInv
<1>8. run[s].type = "INCREMENTAL" => run[s].base = sha /\ sha <= c
  BY <1>1 DEF SmoothInv, Working, Idle, Incremental
<1>9. ASSUME run[s].type = "INCREMENTAL", NEW p \in Paths
      PROVE  p \in row.todo \cup row.batch \/ Matches(p, run[s].at)'
  <2>1. p \in run[s].todo \cup run[s].batch \/ Matches(p, c)
    BY <1>1, <1>9 DEF SmoothInv, WalkedMatches, Incremental
  <2>2. Matches(p, c) => Matches(p, run[s].at)'
    BY <1>3, <1>5, <1>6 DEF Matches
  <2> QED
    BY <1>3, <2>1, <2>2
<1>10. ~Untouched(s)'
  BY <1>3, <1>5 DEF Untouched, Idle
<1> QED
  BY <1>3, <1>5, <1>6, <1>7, <1>8, <1>9, <1>10, SmoothOwn, SmoothCommits

(* What the storing transaction makes of a path, of either type of job.     *)
LEMMA StoredMatches ==
  ASSUME SmoothInv, NEW s \in Slots, StoreIndex(s), NEW p \in Paths, NEW c, c = run[s].at
  PROVE  Matches(p, c)'
<1>1. /\ run[s].pc = "store" /\ run[s].todo = {} /\ tree' = tree /\ sha' = c /\ status' = "INDEXED"
      /\ c # 0
  BY SmoothCommits DEF StoreIndex, SmoothInv, ContentInv, RefInv, TypedInv, Reads, upstream
<1>2. CASE run[s].type = "FULL"
  <2>1. NoStaleRows' /\ NothingMissing'
    BY <1>2, FullLeavesExact DEF SmoothInv, ExactIndex
  <2> QED
    BY <1>1, <2>1 DEF NoStaleRows, NothingMissing, Indexable, Matches
<1>3. CASE run[s].type # "FULL"
  <2>1. run[s].type = "INCREMENTAL"
    BY <1>3, SmoothCommits DEF Run
  <2>2. files'[p] = files[p] /\ chunks'[p] = Stored(s)[p]
    BY <1>3, StoredRows DEF Stale, SmoothInv, ContentInv
  <2>3. CASE p \in run[s].batch
    <3> PICK k : k = [src |-> Read(s, p), by |-> s]
      OBVIOUS
    <3>1. chunks'[p] = chunks[p] \cup {k}
      BY <2>2, <2>3 DEF Stored
    <3>2. k.src = tree[c][p]
      BY DEF Read
    <3>3. files[p] = c /\ tree[c][p] \in Sources
      BY <2>3 DEF SmoothInv, ContentInv, Collected, RefInv, TypedInv, Reads, Read
    <3> QED
      BY <1>1, <2>2, <3>1, <3>2, <3>3 DEF Matches
  <2>4. CASE p \notin run[s].batch
    <3>1. Matches(p, c)
      BY <1>1, <2>1, <2>4 DEF SmoothInv, WalkedMatches, Incremental
    <3>2. chunks'[p] = chunks[p]
      BY <2>2, <2>4 DEF Stored
    <3> QED
      BY <1>1, <2>2, <3>1, <3>2 DEF Matches
  <2> QED
    BY <2>3, <2>4
<1> QED
  BY <1>2, <1>3

LEMMA SmoothStore ==
  ASSUME SmoothInv, NEW s \in Slots, StoreIndex(s)
  PROVE  SmoothInv'
<1> PICK c : c = run[s].at
  OBVIOUS
<1>1. /\ run[s].pc = "store" /\ UNCHANGED upstream /\ sha' = c /\ status' = "INDEXED"
      /\ c # 0 /\ c <= head
  BY SmoothCommits DEF StoreIndex, upstream
<1>2. OthersStand(s) /\ run'[s] = NoRun /\ NoRun.pc = "idle"
  BY StoreTyped, RunRows DEF SmoothInv, ContentInv, RefInv, TypedInv
<1>3. ContentInv' /\ \A x \in Slots \ {s} : run[x].pc = "idle"
  BY <1>1, StoreContent, Alone DEF SmoothInv, ContentInv
<1>4. AsIndexed'
  <2>1. \A p \in Paths : Matches(p, c)'
    BY StoredMatches
  <2> QED
    BY <1>1, <2>1 DEF AsIndexed, Matches
<1> QED
  BY <1>1, <1>2, <1>3, <1>4, SmoothOwn

LEMMA SmoothInvInit ==
  ASSUME Init, PlainTree(tree[1])
  PROVE  SmoothInv
<1>1. ContentInv
  BY ContentInvInit
<1>2. /\ head = 1 /\ lost = {} /\ sha = 0 /\ status = "busy"
      /\ \A p \in Paths : files[p] = 0
      /\ \A s \in Slots : run[s].pc = "idle"
  BY DEF Init, NoRun
<1>3. SmoothHistory
  BY <1>2 DEF SmoothHistory, RenamedAway
<1>4. Working /\ ListsAll /\ WalkedMatches /\ AsIndexed
  BY <1>2 DEF Working, ListsAll, WalkedMatches, AsIndexed, Idle
<1> QED
  BY <1>1, <1>2, <1>3, <1>4 DEF SmoothInv

LEMMA SmoothInvStep ==
  ASSUME SmoothInv, "doubleRun" \notin Faults, SmoothNext
  PROVE  SmoothInv'
<1>1. CASE \E t \in Trees : SmoothPush(t)
  BY <1>1, SmoothPushStep
<1>2. CASE \E type \in JobTypes : AcceptJob(type)
  BY <1>2, SmoothAccept
<1>3. CASE \E s \in Slots : SmoothStep(s)
  BY <1>3, SmoothStart, SmoothClone, SmoothRemoved, SmoothWalk, SmoothEmbed, SmoothStore
     DEF SmoothStep
<1> QED
  BY <1>1, <1>2, <1>3 DEF SmoothNext

LEMMA SmoothStutter ==
  ASSUME SmoothInv, UNCHANGED vars
  PROVE  SmoothInv'
<1>1. UNCHANGED <<upstream, rows, sha>> /\ status' = status /\ sha' = sha /\ run' = run
  BY DEF vars, upstream, rows
<1>2. ContentInv'
  BY ContentInvStutter DEF SmoothInv
<1>3. tree' = tree /\ head' = head /\ lost' = lost /\ files' = files /\ chunks' = chunks
  BY DEF vars, rows
<1>4. SmoothHistory' /\ Working'
  BY <1>1, <1>3 DEF SmoothInv, SmoothHistory, PlainTree, RenamedAway, Working, Idle, Incremental
<1>5. ListsAll'
  BY <1>1, <1>3 DEF SmoothInv, ListsAll, Incremental, WalkTargets, OnDisk, Listed, RenamedAway
<1>6. WalkedMatches'
  BY <1>1, <1>3 DEF SmoothInv, WalkedMatches, Incremental, Matches
<1>7. AsIndexed => AsIndexed'
  BY <1>1, RowsMatch
<1>8. (\A s \in Slots : Untouched(s)') => \A s \in Slots : Untouched(s)
  BY <1>1 DEF Untouched, Idle, Incremental
<1> QED
  BY <1>1, <1>2, <1>3, <1>4, <1>5, <1>6, <1>7, <1>8 DEF SmoothInv

(* Between attempts the rows are those of the commit the repository names.  *)
LEMMA SmoothIndexed ==
  ASSUME SmoothInv
  PROVE  NoStaleRows /\ NothingMissing
<1> SUFFICES ASSUME status = "INDEXED"
             PROVE  \A p \in Paths : Matches(p, sha)
  BY DEF NoStaleRows, NothingMissing, Indexable, Matches
<1>1. sha # 0 /\ \A s \in Slots : Idle(s)
  BY DEF SmoothInv, Working
<1> QED
  BY <1>1 DEF SmoothInv, AsIndexed, Untouched

LEMMA SumSmooth ==
  ASSUME "doubleRun" \notin Faults
  PROVE  SumSpec => [](turn = "incremental" => SmoothInv)
<1> DEFINE Inv == turn = "incremental" => SmoothInv
<1>1. SumInit => Inv
  BY SmoothInvInit DEF SumInit
<1>2. ASSUME Inv, [SumNext]_<<turn, vars>>
      PROVE  Inv'
  <2> SUFFICES ASSUME turn = "incremental"
               PROVE  SmoothInv'
    BY <1>2, TurnStays
  <2>1. SmoothNext \/ UNCHANGED vars
    BY <1>2 DEF SumNext
  <2> QED
    BY <1>2, <2>1, SmoothInvStep, SmoothStutter
<1> QED
  BY <1>1, <1>2, PTL DEF SumSpec

(* As long as no index fails and no push renames, links or rewrites, an     *)
(* INDEXED repository has the rows of the files its commit indexes and of   *)
(* no other, through whatever sequence of full and incremental indexes it   *)
(* got there.                                                               *)
THEOREM SmoothIndexesAreExact ==
  ASSUME "doubleRun" \notin Faults
  PROVE  SumSpec => []IncrementalIsExact
<1>1. (turn = "incremental" => SmoothInv) => IncrementalIsExact
  BY SmoothIndexed DEF IncrementalIsExact
<1> QED
  BY <1>1, SumSmooth, PTL
=============================================================================
