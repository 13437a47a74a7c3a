-------------------------------- MODULE Library --------------------------------
(***************************************************************************)
(* What is read from an index, what is made of it, and the pages that show *)
(* it: a behaviour is one of the component named by turn, the others rest  *)
(* in an initial state.                                                    *)
(***************************************************************************)
EXTENDS Naturals, Sequences, FiniteSets, TLC

CONSTANTS
  FoundChunks, FoundLabels, FoundLabelOf, TopK, FinalK,                   (* Retrieval       *)
  FileIds, PathOf, GraphChunks, FileOf, Types, Rows, MaxTop,              (* RepositoryGraph *)
  Files, Hunks, MaxHunks, Lines, ReviewChunks, ChunkAt, Calls, Tests,
  NamedAfter, Touching, LargeChange,                                      (* ReviewInput     *)
  CitedChunks, CitedLabels, CitedLabelOf, MaxLength, MaxClicks,           (* CitationPanel   *)
  FindingsOf, Large, MaxFetches, MaxDiffs,                                (* ReviewPage      *)
  PullRequests, MaxPolls, MaxTicks,                                       (* PullRequestList *)
  Logs, RangeOptions, MaxLoads                                            (* UsagePage       *)

VARIABLES turn,
          present, query, vector, keyword, context, cited, asking,
          chunks, relations, reading, architecture,
          patch, gone, changed, related, citable, findings, comments, summary, stage,
          stored, answer, revealed, active, current, contents, opening, unopened, gets,
          newest, refetches, shown, blank, broken, expanded, diffCache, diffLoading, diffErrors, diffs,
          latest, pollTimer, pollCount, polls, prs, listing, unlisted, restarted, overtaken,
          logs, range, loads, data, adding, unadded, outrun

retrieval == <<present, query, vector, keyword, context, cited, asking>>
graph     == <<chunks, relations, reading, architecture>>
review    == <<patch, gone, changed, related, citable, findings, comments, summary, stage>>
panel     == <<stored, answer, revealed, active, current, contents, opening, unopened, gets>>
page      == <<newest, refetches, shown, blank, broken, expanded, diffCache, diffLoading, diffErrors, diffs>>
list      == <<latest, pollTimer, pollCount, polls, prs, listing, unlisted, restarted, overtaken>>
usage     == <<logs, range, loads, data, adding, unadded, outrun>>

R == INSTANCE Retrieval WITH
       Chunks <- FoundChunks, Labels <- FoundLabels, LabelOf <- FoundLabelOf, step <- asking
G == INSTANCE RepositoryGraph WITH Chunks <- GraphChunks, page <- architecture
I == INSTANCE ReviewInput WITH Chunks <- ReviewChunks, step <- stage
C == INSTANCE CitationPanel WITH
       Chunks <- CitedChunks, Labels <- CitedLabels, LabelOf <- CitedLabelOf,
       cache <- contents, loading <- opening, error <- unopened, requests <- gets
V == INSTANCE ReviewPage WITH
       fetches <- refetches, loading <- blank, error <- broken, cache <- diffCache
L == INSTANCE PullRequestList WITH fetches <- polls, loading <- listing, error <- unlisted
U == INSTANCE UsagePage WITH loading <- adding, error <- unadded

ASSUME LibraryAssumption ==
  /\ R!RetrievalAssumption /\ G!GraphAssumption /\ I!ReviewAssumption /\ C!PanelAssumption
  /\ V!ReviewPageAssumption /\ L!ListAssumption /\ U!UsageAssumption

LibraryInit ==
  /\ turn \in {"retrieval", "graph", "review", "panel", "page", "list", "usage"}
  /\ I!Init /\ (turn # "review" => \A f \in Files : patch[f] = I!NoPatch)
  /\ R!Init /\ (turn # "retrieval" => query = "semantic")
  /\ G!Init /\ (turn # "graph" => relations = {})
  /\ C!Init /\ (turn # "panel" => answer.markers = {} /\ revealed = 0)
  /\ V!Init /\ (turn # "page" => newest.n = 0)
  /\ L!Init /\ (turn # "list" => \A p \in PullRequests : latest[p] = "none")
  /\ U!Init /\ (turn # "usage" => logs = {})

LibraryNext ==
  /\ UNCHANGED turn
  /\ \/ turn = "retrieval" /\ R!Next /\ UNCHANGED <<graph, review, panel, page, list, usage>>
     \/ turn = "graph"     /\ G!Next /\ UNCHANGED <<retrieval, review, panel, page, list, usage>>
     \/ turn = "review"    /\ I!Next /\ UNCHANGED <<retrieval, graph, panel, page, list, usage>>
     \/ turn = "panel"     /\ C!Next /\ UNCHANGED <<retrieval, graph, review, page, list, usage>>
     \/ turn = "page"      /\ V!Next /\ UNCHANGED <<retrieval, graph, review, panel, list, usage>>
     \/ turn = "list"      /\ L!Next /\ UNCHANGED <<retrieval, graph, review, panel, page, usage>>
     \/ turn = "usage"     /\ U!Next /\ UNCHANGED <<retrieval, graph, review, panel, page, list>>

LibrarySpec ==
  LibraryInit /\ [][LibraryNext]_<<turn, retrieval, graph, review, panel, page, list, usage>>

-----------------------------------------------------------------------------
(* The evidence of an answer: fusion keeps the order both searches agree   *)
(* on, a question is refused for want of evidence only, and a citation     *)
(* opens a chunk the model was shown (Retrieval).                          *)
EvidenceHolds == R!EvidenceHolds

(* What a review says arrives: each comment on the line it is about, every *)
(* finding somewhere, and the chunks of the diff's lines are those         *)
(* reviewed (ReviewInput).                                                 *)
FindingsArrive == I!FindingsArrive

(* The pages show what there is: the graph is the quotient of its rows,    *)
(* and the citation panel and the diff are of what was clicked last,       *)
(* whatever came between two reads, clicks or answers (RepositoryGraph,    *)
(* CitationPanel, ReviewPage).                                             *)
PagesShowWhatIs == G!GraphHolds /\ C!PanelIsCurrent /\ V!DiffIsOfItsFinding

(* Two pages without such a guard end with what was asked for, as long as  *)
(* no answer overtakes another, failures in any order: a list that stops   *)
(* asking leaves no row waiting unless a push restarted a review, and a    *)
(* summary is of the range selected (PullRequestList, UsagePage).          *)
LoadsEnd == L!NoSpinnerStays /\ U!UsageIsOfRange
=============================================================================
