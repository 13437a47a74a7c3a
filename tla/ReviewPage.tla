------------------------------ MODULE ReviewPage ------------------------------
(***************************************************************************)
(* The page of one review: the findings of the newest review of a pull     *)
(* request, fetched again on every message of progress, and the diff that  *)
(* opens under a finding. Answers come in any order.                       *)
(***************************************************************************)
EXTENDS Naturals, Sequences, FiniteSets, SequencesExt

CONSTANTS
  FindingsOf,    (* of each review, in order: file and category            *)
  Large,         (* the files GitHub refuses to send, or that are binary   *)
  MaxFetches,    (* bound: reviews fetched by the tab                      *)
  MaxDiffs       (* bound: diffs asked for                                 *)

ReviewPageAssumption ==
  /\ Len(FindingsOf) \in Nat \ {0} /\ DOMAIN FindingsOf = 1 .. Len(FindingsOf)
  /\ \A n \in DOMAIN FindingsOf :
       /\ DOMAIN FindingsOf[n] \subseteq Nat \ {0}
       /\ \A i \in DOMAIN FindingsOf[n] : DOMAIN FindingsOf[n][i] = {"file", "category"}
  /\ MaxFetches \in Nat /\ MaxDiffs \in Nat

VARIABLES
  newest,      (* the pr_reviews row created last                          *)
  fetches,     (* GETs of the reviews                                      *)
  shown,       (* reviews[0]                                               *)
  loading, error,
  expanded,    (* expandedIndex; 0 for none, indices count from 1          *)
  cache,       (* diffCache: the diff, and the review whose finding asked  *)
  diffLoading, (* diffLoadingIndex                                         *)
  diffErrors, diffs

vars == <<newest, fetches, shown, loading, error, expanded, cache, diffLoading, diffErrors, diffs>>
reviews == <<newest, fetches, shown, loading, error>>
panel   == <<expanded, cache, diffLoading, diffErrors, diffs>>

NoReview == [n |-> 0, status |-> "none"]
NoDiff   == [file |-> "none", n |-> 0, preview |-> FALSE]
Unused   == [index |-> 0, file |-> "none", n |-> 0, preview |-> FALSE, state |-> "unused"]
Indices  == UNION {DOMAIN FindingsOf[n] : n \in DOMAIN FindingsOf}

(* The page is opened, and asks.                                           *)
Init ==
  /\ newest \in {NoReview, [n |-> 1, status |-> "RUNNING"], [n |-> 1, status |-> "COMPLETE"]}
  /\ fetches = [k \in 1 .. MaxFetches |->
                  [state |-> IF k = 1 THEN "asked" ELSE "unused", review |-> NoReview]]
  /\ shown = NoReview /\ loading = TRUE /\ error = FALSE
  /\ expanded = 0 /\ cache = [i \in Indices |-> NoDiff]
  /\ diffLoading = 0 /\ diffErrors = {}
  /\ diffs = [k \in 1 .. MaxDiffs |-> Unused]

-----------------------------------------------------------------------------
(* A job reviews the next commit, and ends one way or the other.           *)
ReviewStarts ==
  /\ newest.status # "RUNNING" /\ newest.n < Len(FindingsOf)
  /\ newest' = [n |-> newest.n + 1, status |-> "RUNNING"]
  /\ UNCHANGED <<fetches, shown, loading, error, panel>>

ReviewEnds ==
  /\ newest.status = "RUNNING"
  /\ \E s \in {"COMPLETE", "FAILED"} : newest' = [newest EXCEPT !.status = s]
  /\ UNCHANGED <<fetches, shown, loading, error, panel>>

(* A message of progress, whatever it says, fetches the reviews.           *)
Refetch ==
  /\ \E k \in 2 .. MaxFetches :
       /\ fetches[k].state = "unused" /\ fetches[k - 1].state # "unused"
       /\ fetches' = [fetches EXCEPT ![k].state = "asked"]
  /\ UNCHANGED <<newest, shown, loading, error, panel>>

(* getPrReviews, newest first.                                             *)
GetPrReviews(k) ==
  /\ fetches[k].state = "asked"
  /\ fetches' = [fetches EXCEPT ![k] = [state |-> "answered", review |-> newest]]
  /\ UNCHANGED <<newest, shown, loading, error, panel>>

(* The failure of the first is shown, that of a later one is not.          *)
FetchFails(k) ==
  /\ fetches[k].state = "asked"
  /\ fetches' = [fetches EXCEPT ![k].state = "done"]
  /\ error' = (error \/ k = 1) /\ loading' = (loading /\ k # 1)
  /\ UNCHANGED <<newest, shown, panel>>

FetchArrives(k) ==
  /\ fetches[k].state = "answered"
  /\ fetches' = [fetches EXCEPT ![k].state = "done"]
  /\ shown' = fetches[k].review
  /\ loading' = (loading /\ k # 1)
  /\ UNCHANGED <<newest, error, panel>>

-----------------------------------------------------------------------------
(* What the page shows: a message, or the findings of a review.            *)
Findings == IF shown.n = 0 THEN <<>> ELSE FindingsOf[shown.n]

View ==
  IF loading THEN "loading"
  ELSE IF error THEN "error"
  ELSE IF shown = NoReview THEN "no review"
  ELSE IF shown.status = "FAILED" THEN "failed"
  ELSE IF shown.status = "RUNNING" THEN "in progress"
  ELSE "findings"

(* groupByCategory: under each category the findings of it, each with its  *)
(* index among all of them.                                                *)
GroupByCategory ==
  [c \in {Findings[i].category : i \in DOMAIN Findings} |->
     {[file |-> Findings[i].file, index |-> i] : i \in {j \in DOMAIN Findings : Findings[j].category = c}}]

Entries == UNION {GroupByCategory[c] : c \in DOMAIN GroupByCategory}

(* toggleDiff: closes the open one, or opens and, unless it is there, asks.*)
CloseDiff(entry) ==
  /\ expanded = entry.index
  /\ expanded' = 0
  /\ UNCHANGED <<cache, diffLoading, diffErrors, diffs>>

OpenDiff(entry) ==
  /\ expanded # entry.index
  /\ expanded' = entry.index
  /\ \/ /\ cache[entry.index] # NoDiff
        /\ UNCHANGED <<diffLoading, diffs>>
     \/ /\ cache[entry.index] = NoDiff
        /\ diffLoading' = entry.index
        /\ \E k \in 1 .. MaxDiffs :
             /\ diffs[k] = Unused /\ \A l \in 1 .. k - 1 : diffs[l] # Unused
             /\ diffs' = [diffs EXCEPT ![k] =
                  [Unused EXCEPT !.index = entry.index, !.file = entry.file, !.n = shown.n, !.state = "asked"]]
  /\ UNCHANGED <<cache, diffErrors>>

ToggleDiff(entry) ==
  /\ View = "findings" /\ entry \in Entries
  /\ CloseDiff(entry) \/ OpenDiff(entry)
  /\ UNCHANGED reviews

(* A file at one commit: missing where it was added or removed; GitHub may *)
(* fail.                                                                   *)
FetchFileAtRef(file) == {"missing", "error", IF file \in Large THEN "unavailable" ELSE "content"}

(* getPullRequestDiff: the file at both ends, or no preview of it.         *)
GetPullRequestDiff(k) ==
  /\ diffs[k].state = "asked"
  /\ \E base, head \in FetchFileAtRef(diffs[k].file) :
       diffs' = [diffs EXCEPT
         ![k].state = IF "error" \in {base, head} THEN "failed" ELSE "answered",
         ![k].preview = {base, head} \subseteq {"content", "missing"}]
  /\ UNCHANGED <<reviews, expanded, cache, diffLoading, diffErrors>>

(* The answer of one ends the loading of whichever was asked for last.     *)
DiffArrives(k) ==
  LET d == diffs[k] IN
  /\ d.state \in {"answered", "failed"}
  /\ diffs' = [diffs EXCEPT ![k].state = "done"]
  /\ diffLoading' = 0
  /\ IF d.state = "answered"
     THEN cache' = [cache EXCEPT ![d.index] = [file |-> d.file, n |-> d.n, preview |-> d.preview]] /\ UNCHANGED diffErrors
     ELSE diffErrors' = diffErrors \cup {d.index} /\ UNCHANGED cache
  /\ UNCHANGED <<reviews, expanded>>

Next ==
  \/ ReviewStarts \/ ReviewEnds \/ Refetch
  \/ \E k \in 1 .. MaxFetches : GetPrReviews(k) \/ FetchFails(k) \/ FetchArrives(k)
  \/ \E entry \in Entries : ToggleDiff(entry)
  \/ \E k \in 1 .. MaxDiffs : GetPullRequestDiff(k) \/ DiffArrives(k)

Spec == Init /\ [][Next]_vars

-----------------------------------------------------------------------------
(* What is under an open finding.                                          *)
DiffView(i) ==
  IF diffLoading = i THEN "loading"
  ELSE IF i \in diffErrors THEN "error"
  ELSE IF cache[i] = NoDiff THEN "blank"
  ELSE IF ~cache[i].preview THEN "unavailable"
  ELSE "diff"

Asked(i) == \E k \in 1 .. MaxDiffs : diffs[k].index = i /\ diffs[k].state \in {"asked", "answered", "failed"}

(* The diff under a finding is of its file: one finding at most is open,   *)
(* whatever its category; it is blank or loading only while its request is *)
(* on its way; and what it shows was asked for by that finding, unless     *)
(* another review has replaced the findings since (the comment at          *)
(* PullRequestReview.tsx:31).                                              *)
DiffIsOfItsFinding ==
  View = "findings" =>
    /\ Cardinality({e \in Entries : e.index = expanded}) <= 1
    /\ \A e \in Entries : e.index = expanded =>
         /\ DiffView(expanded) \in {"blank", "loading"} => Asked(expanded)
         /\ cache[expanded].n = shown.n =>
              /\ cache[expanded].file = e.file
              /\ DiffView(expanded) = "unavailable" => e.file \in Large
=============================================================================
