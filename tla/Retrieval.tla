------------------------------ MODULE Retrieval -------------------------------
(***************************************************************************)
(* The evidence for one question: two rankings of the chunks of a          *)
(* repository, fused, cut, loaded, reranked by a provider and cited by a   *)
(* model, while an indexing job may delete the chunks between two reads.   *)
(***************************************************************************)
EXTENDS Naturals, Sequences, FiniteSets, SequencesExt

CONSTANTS
  Chunks,
  Labels,    (* a file and a range of lines                                *)
  LabelOf,   (* the label of each chunk; two chunks may share one          *)
  TopK,      (* RETRIEVAL_TOP_K                                            *)
  FinalK     (* RETRIEVAL_FINAL_K                                          *)

RetrievalAssumption ==
  /\ LabelOf \in [Chunks -> Labels]
  /\ TopK \in Nat \ {0} /\ FinalK \in 1 .. TopK

VARIABLES
  present,          (* the chunks of the repository, in the database       *)
  query,            (* what classifyQuery makes of the question            *)
  vector, keyword,  (* the two rankings, or Unread                         *)
  context,          (* the chunks loaded, then those reranked              *)
  cited,            (* the citations stored with the answer                *)
  step

vars == <<present, query, vector, keyword, context, cited, step>>

Unread == <<"unread">>

(* Every ranking LIMIT lets through.                                       *)
Rankings(S) ==
  UNION {{s \in [1 .. n -> S] : IsInjective(s)} : n \in 0 .. TopK}

Init ==
  /\ present = Chunks
  /\ query \in {"identifier", "semantic"}
  /\ vector = Unread /\ keyword = Unread
  /\ context = <<>> /\ cited = {} /\ step = "search"

-----------------------------------------------------------------------------
(* ORDER BY distance LIMIT k over the chunks that have an embedding of the *)
(* model in use: chunks stored under an older one are not found.           *)
VectorSearch ==
  /\ step = "search" /\ vector = Unread
  /\ vector' \in Rankings(present)
  /\ UNCHANGED <<present, query, keyword, context, cited, step>>

(* Any chunk that shares a word with the question; none for a blank one.   *)
KeywordSearch ==
  /\ step = "search" /\ keyword = Unread
  /\ keyword' \in Rankings(present)
  /\ UNCHANGED <<present, query, vector, context, cited, step>>

(* An indexing job deletes the rows of a file it indexes anew.             *)
Reindex ==
  /\ step \in {"search", "loaded"}
  /\ \E c \in present : present' = present \ {c}
  /\ UNCHANGED <<query, vector, keyword, context, cited, step>>

-----------------------------------------------------------------------------
(* mergeRankings: the score of a chunk is the sum of 1 / (k + rank) over   *)
(* the rankings it is in, here a fraction.                                 *)
VectorK  == IF query = "identifier" THEN 80 ELSE 40
KeywordK == IF query = "identifier" THEN 10 ELSE 40

RankIn(s, c) == CHOOSE i \in DOMAIN s : s[i] = c

Term(s, k, c) ==
  IF c \in ToSet(s) THEN [num |-> 1, den |-> k + RankIn(s, c)] ELSE [num |-> 0, den |-> 1]

Plus(p, q) == [num |-> p.num * q.den + q.num * p.den, den |-> p.den * q.den]
Above(p, q) == p.num * q.den > q.num * p.den

Score(c) == Plus(Term(vector, VectorK, c), Term(keyword, KeywordK, c))

(* Those of a sequence that are in a set, in their order.                  *)
Those(s, S) ==
  LET kept[n \in 0 .. Len(s)] ==
        IF n = 0 THEN <<>>
        ELSE IF s[n] \in S THEN Append(kept[n - 1], s[n]) ELSE kept[n - 1]
  IN  kept[Len(s)]

(* The order in which the scores map met the chunks, which the sort keeps  *)
(* among equals.                                                           *)
Met == vector \o Those(keyword, Chunks \ ToSet(vector))

Before(a, b) ==
  \/ Above(Score(a), Score(b))
  \/ ~Above(Score(b), Score(a)) /\ RankIn(Met, a) < RankIn(Met, b)

MergeRankings ==
  CHOOSE s \in [1 .. Cardinality(ToSet(Met)) -> ToSet(Met)] :
    \A i, j \in DOMAIN s : i < j => Before(s[i], s[j])

First(s, n) == SubSeq(s, 1, IF Len(s) < n THEN Len(s) ELSE n)

Candidates == First(MergeRankings, TopK)

(* Both searches are back: the candidates are merged and those still there *)
(* are loaded; with none the question is refused.                          *)
Load ==
  LET loaded == Those(Candidates, present) IN
  /\ step = "search" /\ vector # Unread /\ keyword # Unread
  /\ context' = loaded
  /\ step' = IF loaded = <<>> THEN "refused" ELSE "loaded"
  /\ UNCHANGED <<present, query, vector, keyword, cited>>

(* The provider fails, answers too late, or names no candidate: the order  *)
(* of the fusion stands.                                                   *)
Fallback_None == <<>>

Fallback == First(context, FinalK)

Reranked(indices) ==
  LET valid == Those(indices, DOMAIN context) IN
  IF valid = <<>> THEN Fallback ELSE [i \in DOMAIN valid |-> context[valid[i]]]

(* The provider ranks at most FinalK of the documents; an index out of     *)
(* range names none of them.                                               *)
Rerank ==
  /\ step = "loaded"
  /\ \/ context' = Fallback
     \/ \E n \in 0 .. FinalK : \E indices \in [1 .. n -> 1 .. TopK + 1] :
          context' = Reranked(indices)
  /\ step' = IF context' = <<>> THEN "refused" ELSE "context"
  /\ UNCHANGED <<present, query, vector, keyword, cited>>

(* chunkByFileAndLines: of two chunks with one label the later one stays.  *)
ChunkByLabel(l) ==
  context[CHOOSE i \in DOMAIN context :
    LabelOf[context[i]] = l /\ \A j \in i + 1 .. Len(context) : LabelOf[context[j]] # l]

(* extractCitations: the markers of the answer that are labels of the      *)
(* context.                                                                *)
ExtractCitations(markers) ==
  {[label |-> l, chunk |-> ChunkByLabel(l)] :
     l \in markers \cap {LabelOf[context[i]] : i \in DOMAIN context}}

ValidateCitation(c) == c.chunk \in ToSet(context) /\ LabelOf[c.chunk] = c.label

(* The model may write any label, whether it was shown or not.             *)
Answer ==
  /\ step = "context"
  /\ \E markers \in SUBSET Labels :
       cited' = {c \in ExtractCitations(markers) : ValidateCitation(c)}
  /\ step' = "answered"
  /\ UNCHANGED <<present, query, vector, keyword, context>>

-----------------------------------------------------------------------------
Next ==
  \/ VectorSearch \/ KeywordSearch \/ Reindex
  \/ Load \/ Rerank \/ Answer

Spec == Init /\ [][Next]_vars

-----------------------------------------------------------------------------
(* Where a ranking puts a chunk; one it does not hold is behind them all.  *)
Place(s, c) == IF c \in ToSet(s) THEN RankIn(s, c) ELSE TopK + 1

Searched == vector # Unread /\ keyword # Unread

(* Fusion agrees with both rankings where they agree: a chunk that neither *)
(* ranks behind another and one ranks before it is before it, whatever     *)
(* the class of the question weighs (rrf-merge.service.ts).                *)
FusionKeepsOrder ==
  Searched => \A a, b \in ToSet(Met) :
    /\ Place(vector, a) <= Place(vector, b) /\ Place(keyword, a) <= Place(keyword, b) /\ a # b
    => RankIn(MergeRankings, a) < RankIn(MergeRankings, b)

(* A question is refused for want of evidence only: no candidate was left  *)
(* in the database, whatever the reranking provider answered               *)
(* (chat.service.ts, reranker.service.ts).                                 *)
RefusedMeansNoEvidence ==
  step = "refused" => ToSet(Candidates) \cap present = {}

(* What a citation opens is a chunk the model was shown, found by one of   *)
(* the searches, under the label the reader sees (chat.service.ts).        *)
CitedWasShown ==
  \A c \in cited : /\ c.chunk \in ToSet(context) \cap ToSet(Met)
                   /\ LabelOf[c.chunk] = c.label

EvidenceHolds == FusionKeepsOrder /\ RefusedMeansNoEvidence /\ CitedWasShown
=============================================================================
