--------------------------- MODULE RepositoryGraph ----------------------------
(***************************************************************************)
(* The architecture page: the graph of a repository's files, the graph     *)
(* around one symbol, and the page that asks for them. Each is built from  *)
(* several reads, between which an indexing job may delete the rows of a   *)
(* file it indexes anew.                                                   *)
(***************************************************************************)
EXTENDS Naturals, Sequences, FiniteSets, FiniteSetsExt, SequencesExt

CONSTANTS
  FileIds,    (* File rows; numbers, for their order                       *)
  PathOf,     (* the path of each, separators normalized: the rows of one  *)
              (* file indexed under / and under \ have the same            *)
  Chunks,     (* numbers: the order of the symbols' names                  *)
  FileOf,
  Types,      (* CALLS, IMPORTS, ...                                       *)
  Rows,       (* the relationships the indexed code may have               *)
  MaxTop      (* topSymbols: 5                                             *)

External == 0     (* the target of a call out of the repository             *)

GraphAssumption ==
  /\ FileIds \subseteq Nat /\ Chunks \subseteq Nat \ {External}
  /\ FileOf \in [Chunks -> FileIds] /\ FileIds \subseteq DOMAIN PathOf
  /\ Rows \subseteq [from : Chunks, to : Chunks \cup {External}, type : Types] /\ IsFiniteSet(Rows)
  /\ MaxTop \in Nat

VARIABLES
  chunks,       (* the chunks of the repository, in the database           *)
  relations,    (* the symbol_relationships between them                   *)
  reading,      (* a request between its reads                             *)
  page          (* what RepositoryArchitecture keeps                       *)

vars == <<chunks, relations, reading, page>>

NoGraph  == [nodes |-> {}, edges |-> {}]
NoSymbol == [root |-> 0, nodes |-> {}, edges |-> {}]
NoFile   == [id |-> 0, path |-> "", symbolCount |-> 0, top |-> {}]
Idle     == [scope |-> "none", read |-> {}, root |-> 0]

Init ==
  /\ chunks = Chunks
  /\ relations \in SUBSET Rows
  /\ reading = Idle
  /\ page = [loading |-> TRUE, drilling |-> FALSE, error |-> FALSE,
             files |-> NoGraph, symbol |-> NoSymbol, popover |-> NoFile]

-----------------------------------------------------------------------------
(* aggregateFileGraph: one node per path, under the smallest id of the rows*)
(* it has chunks in.                                                       *)
FilesAt(path, cs) == {FileOf[c] : c \in {d \in cs : PathOf[FileOf[d]] = path}}

Canonical(f, cs) ==
  IF f \in {FileOf[c] : c \in cs} THEN Min(FilesAt(PathOf[f], cs)) ELSE f

(* How many relationships a chunk is an end of; one to itself counts twice.*)
Weight(c, rs) == Cardinality({r \in rs : r.from = c}) + Cardinality({r \in rs : r.to = c})

TopSymbols(cs, rs) ==
  LET ranked == SetToSortSeq(cs, LAMBDA c, d :
                  Weight(c, rs) > Weight(d, rs) \/ (Weight(c, rs) = Weight(d, rs) /\ c < d))
  IN  {ranked[i] : i \in {n \in DOMAIN ranked : n <= MaxTop}}

FileNodes(rs, cs) ==
  {LET here == {c \in cs : PathOf[FileOf[c]] = p}
   IN  [id |-> Min({FileOf[c] : c \in here}), path |-> p,
        symbolCount |-> Cardinality(here), top |-> TopSymbols(here, rs)] :
     p \in {PathOf[FileOf[c]] : c \in cs}}

(* The relationships behind an edge: none to the outside, none within a    *)
(* node.                                                                   *)
Between(rs, cs, s, t) ==
  {r \in rs : r.to # External /\ Canonical(FileOf[r.from], cs) = s
                              /\ Canonical(FileOf[r.to], cs) = t}

FileEdges(rs, cs) ==
  LET ends == {<<Canonical(FileOf[r.from], cs), Canonical(FileOf[r.to], cs)>> :
                 r \in {q \in rs : q.to # External}}
  IN  {[source |-> e[1], target |-> e[2],
        counts |-> [t \in Types |->
          Cardinality({r \in Between(rs, cs, e[1], e[2]) : r.type = t})]] :
         e \in {d \in ends : d[1] # d[2]}}

AggregateFileGraph(rs, cs) == [nodes |-> FileNodes(rs, cs), edges |-> FileEdges(rs, cs)]

(* buildSymbolGraph: a chunk that calls itself is a caller and a callee.   *)
SymbolGraph(root, rs) ==
  LET outgoing == {r \in rs : r.from = root}
      incoming == {r \in rs : r.to = root}
  IN  [root  |-> root,
       nodes |-> {root} \cup {r.to : r \in outgoing} \cup {r.from : r \in incoming},
       edges |-> {<<r.from, r.to, r.type>> : r \in outgoing \cup incoming}]

-----------------------------------------------------------------------------
(* An indexing job replaces a file: its chunks go, with the relationships  *)
(* they are an end of; those stored in their place have new ids.           *)
Reindex(f) ==
  LET kept == {c \in chunks : FileOf[c] # f} IN
  /\ kept # chunks
  /\ chunks' = kept
  /\ relations' = {r \in relations : r.from \in kept /\ (r.to = External \/ r.to \in kept)}
  /\ UNCHANGED <<reading, page>>

(* getRepositoryGraph reads the relationships with the files of their      *)
(* chunks, then the chunks, in two queries.                                *)
ReadRelations ==
  /\ page.loading /\ reading = Idle
  /\ reading' = [scope |-> "file", read |-> relations, root |-> 0]
  /\ UNCHANGED <<chunks, relations, page>>

(* The answer is shown; the page starts at the file view.                  *)
LoadFileGraph ==
  /\ reading.scope = "file"
  /\ page' = [page EXCEPT !.files = AggregateFileGraph(reading.read, chunks), !.loading = FALSE]
  /\ reading' = Idle
  /\ UNCHANGED <<chunks, relations>>

(* The root is looked up, or the symbol is not found.                      *)
ReadRoot(c) ==
  /\ page.drilling /\ reading = [Idle EXCEPT !.root = c]
  /\ \/ /\ c \in chunks
        /\ reading' = [scope |-> "symbol", read |-> {}, root |-> c]
        /\ UNCHANGED page
     \/ /\ c \notin chunks
        /\ page' = [page EXCEPT !.error = TRUE, !.drilling = FALSE]
        /\ reading' = Idle
  /\ UNCHANGED <<chunks, relations>>

(* Its relationships, in one read here: the two queries share no row but   *)
(* that of a call to itself.                                               *)
LoadSymbolGraph ==
  /\ reading.scope = "symbol"
  /\ page' = [page EXCEPT !.symbol = SymbolGraph(reading.root, relations), !.drilling = FALSE]
  /\ reading' = Idle
  /\ UNCHANGED <<chunks, relations>>

(* A request fails, and the page shows that and nothing else from then on. *)
RequestFails ==
  /\ page.loading \/ page.drilling
  /\ page' = [page EXCEPT !.error = TRUE, !.loading = FALSE, !.drilling = FALSE]
  /\ reading' = Idle
  /\ UNCHANGED <<chunks, relations>>

-----------------------------------------------------------------------------
(* fileGraphToFlow: the files in a square grid, those with most symbols    *)
(* first; the colour of an edge is that of its most frequent type.         *)
FileFlow(graph) ==
  [ids   |-> {n.id : n \in graph.nodes},
   edges |-> {[source |-> e.source, target |-> e.target,
               total |-> MapThenSumSet(LAMBDA t : e.counts[t], Types),
               dominant |-> {t \in Types : \A u \in Types : e.counts[u] <= e.counts[t]}] :
                e \in graph.edges}]

(* symbolGraphToFlow: the root in the middle, its callers to the left, its *)
(* callees to the right.                                                   *)
SymbolFlow(graph) ==
  [ids   |-> {graph.root} \cup {e[1] : e \in {d \in graph.edges : d[2] = graph.root}}
                          \cup {e[2] : e \in {d \in graph.edges : d[1] = graph.root}},
   edges |-> {[source |-> e[1], target |-> e[2], total |-> 1, dominant |-> {e[3]}] :
                e \in graph.edges}]

(* What the page is: a message, or the graph it draws.                     *)
Message ==
  IF page.loading THEN "loading"
  ELSE IF page.error THEN "error"
  ELSE IF page.files.nodes = {} THEN "no relationships"
  ELSE "none"

Drawn ==
  IF page.symbol # NoSymbol THEN SymbolFlow(page.symbol) ELSE FileFlow(page.files)

(* A click on a file opens the list of its top symbols.                    *)
ClickFile ==
  /\ Message = "none" /\ page.symbol = NoSymbol /\ ~page.drilling
  /\ \E n \in page.files.nodes : page' = [page EXCEPT !.popover = n]
  /\ UNCHANGED <<chunks, relations, reading>>

ClosePopover ==
  /\ Message = "none" /\ page.popover # NoFile
  /\ page' = [page EXCEPT !.popover = NoFile]
  /\ UNCHANGED <<chunks, relations, reading>>

(* A click on a symbol of the list.                                        *)
DrillIntoSymbol(c) ==
  /\ Message = "none" /\ page.popover # NoFile /\ reading = Idle
  /\ c \in page.popover.top
  /\ page' = [page EXCEPT !.popover = NoFile, !.drilling = TRUE, !.error = FALSE]
  /\ reading' = [Idle EXCEPT !.root = c]
  /\ UNCHANGED <<chunks, relations>>

BackToFileView ==
  /\ Message = "none" /\ page.symbol # NoSymbol
  /\ page' = [page EXCEPT !.symbol = NoSymbol]
  /\ UNCHANGED <<chunks, relations, reading>>

-----------------------------------------------------------------------------
Next ==
  \/ \E f \in FileIds : Reindex(f)
  \/ ReadRelations \/ LoadFileGraph
  \/ \E c \in Chunks : ReadRoot(c) \/ DrillIntoSymbol(c)
  \/ LoadSymbolGraph \/ RequestFails
  \/ ClickFile \/ ClosePopover \/ BackToFileView

Spec == Init /\ [][Next]_vars

-----------------------------------------------------------------------------
(* Rows only go: what is in the database now was there at every read.      *)
Lasting(s, t) ==
  {r \in relations : r.to # External /\ PathOf[FileOf[r.from]] = PathOf[s]
                                     /\ PathOf[FileOf[r.to]] = PathOf[t]}

(* The file graph is the quotient of the relationships by the paths of     *)
(* their chunks, however the reads fell between the writes: no file is     *)
(* drawn twice and no edge returns to it, an edge without a node leads to  *)
(* a file that has been indexed anew, and every relationship that outlived *)
(* the reads between two files is in the count of its edge                 *)
(* (graph.service.ts, graph.controller.ts).                                *)
FileGraphIsQuotient ==
  page.files # NoGraph =>
    LET nodes == page.files.nodes
        edges == page.files.edges
        node(f) == CHOOSE n \in nodes : n.path = PathOf[f]
    IN  /\ \A n, m \in nodes : n.path = m.path => n = m
        /\ \A e \in edges :
             /\ e.source # e.target
             /\ \A f \in {e.source, e.target} :
                  f \in {n.id : n \in nodes} \/ \A c \in chunks : FileOf[c] # f
        /\ \A r \in relations :
             r.to # External /\ PathOf[FileOf[r.from]] # PathOf[FileOf[r.to]] =>
               \E e \in edges :
                 /\ e.source = node(FileOf[r.from]).id /\ e.target = node(FileOf[r.to]).id
                 /\ \A t \in Types :
                      e.counts[t] >= Cardinality({q \in Lasting(e.source, e.target) : q.type = t})

(* Every end of an edge around a symbol is drawn.                          *)
SymbolGraphIsClosed ==
  page.symbol # NoSymbol =>
    \A e \in Drawn.edges : {e.source, e.target} \subseteq Drawn.ids

(* Both graphs of the page.                                                *)
GraphHolds == FileGraphIsQuotient /\ SymbolGraphIsClosed
=============================================================================
