---------------------------- MODULE CitationPanel -----------------------------
(***************************************************************************)
(* The answers of RepositoryChat and the panel that shows the code behind  *)
(* a citation: the links of an answer, its typing, the requests of the     *)
(* panel, whose answers come in any order, and the chunks they read, which *)
(* an indexing job may have deleted since.                                 *)
(***************************************************************************)
EXTENDS Naturals, FiniteSets

CONSTANTS
  Chunks,
  Labels,      (* a file and a range of lines, as an answer writes it      *)
  LabelOf,     (* the label of the citation of each chunk                  *)
  MaxLength,   (* ticks the typing of an answer takes                      *)
  MaxClicks    (* bound: requests a tab makes                              *)

PanelAssumption ==
  LabelOf \in [Chunks -> Labels] /\ MaxLength \in Nat /\ MaxClicks \in Nat

None == "none"

VARIABLES
  stored,      (* the chunks in the database                               *)
  answer,      (* the labels an answer writes, and its citations           *)
  revealed,    (* how much of it is shown                                  *)
  active,      (* activeCitation; None when the panel is closed            *)
  current,     (* activeChunkIdRef                                         *)
  cache, loading, error,
  requests     (* GETs on their way: how many have been answered, or not   *)

vars == <<stored, answer, revealed, active, current, cache, loading, error, requests>>
panel == <<active, current, cache, loading, error, requests>>

Init ==
  /\ stored = Chunks
  /\ answer \in [markers : SUBSET Labels, citations : {C \in SUBSET Chunks :
                   \A c, d \in C : LabelOf[c] = LabelOf[d] => c = d}]
  /\ {LabelOf[c] : c \in answer.citations} \subseteq answer.markers
  /\ revealed \in {0, MaxLength}
  /\ active = None /\ current = None
  /\ cache = {} /\ loading = FALSE /\ error = None
  /\ requests = [n \in 1 .. MaxClicks |-> [chunk |-> None, state |-> "unused"]]

-----------------------------------------------------------------------------
(* citationsToMarkdownLinks: the markers of the answer that a citation of  *)
(* the message proves become links; the others stay text.                  *)
Links ==
  {[label |-> LabelOf[c], chunk |-> c] : c \in {d \in answer.citations : LabelOf[d] \in answer.markers}}

(* markdownComponents: a link to a chunk of the message's citations has a  *)
(* button that opens the panel.                                            *)
Buttons == {c \in answer.citations : \E l \in Links : l.chunk = c}

(* The answer that just arrived is typed; one of the history is shown at   *)
(* once. A link half revealed is not one yet.                              *)
Tick ==
  /\ revealed < MaxLength
  /\ revealed' = revealed + 1
  /\ UNCHANGED <<stored, answer, panel>>

Reindex(c) ==
  /\ c \in stored
  /\ stored' = stored \ {c}
  /\ UNCHANGED <<answer, revealed, panel>>

(* A citation the panel has the content of already: nothing to ask, and    *)
(* the loading of the citation before it is not this one's.                *)
ShowCached_StillLoading(c) ==
  /\ c \in cache
  /\ UNCHANGED <<loading, requests>>

ShowCached(c) ==
  /\ c \in cache
  /\ loading' = FALSE
  /\ UNCHANGED requests

(* The request for one it has not, by a free number.                       *)
Ask(c) ==
  /\ c \notin cache
  /\ \E n \in 1 .. MaxClicks :
       /\ requests[n].state = "unused" /\ \A m \in 1 .. n - 1 : requests[m].state # "unused"
       /\ requests' = [requests EXCEPT ![n] = [chunk |-> c, state |-> "asked"]]
  /\ loading' = TRUE

HandleCitationClick(c) ==
  /\ revealed = MaxLength /\ c \in Buttons
  /\ active' = c /\ current' = c
  /\ error' = None
  /\ ShowCached(c) \/ Ask(c)
  /\ UNCHANGED <<stored, answer, revealed, cache>>

(* The Close button clears the citation only.                              *)
Close ==
  /\ active # None
  /\ active' = None
  /\ UNCHANGED <<stored, answer, revealed, current, cache, loading, error, requests>>

(* getChunkContent: the chunk as it is now, or not found.                  *)
GetChunkContent(n) ==
  /\ requests[n].state = "asked"
  /\ requests' = [requests EXCEPT ![n].state = IF requests[n].chunk \in stored THEN "found" ELSE "failed"]
  /\ UNCHANGED <<stored, answer, revealed, active, current, cache, loading, error>>

(* Any request may fail for other reasons.                                 *)
RequestFails(n) ==
  /\ requests[n].state = "asked"
  /\ requests' = [requests EXCEPT ![n].state = "failed"]
  /\ UNCHANGED <<stored, answer, revealed, active, current, cache, loading, error>>

IsCurrent(c) == current = c

(* An answer arrives: its content is kept in any case, the panel changes   *)
(* only when it is about the citation clicked last.                        *)
Arrives(n) ==
  LET c == requests[n].chunk IN
  /\ requests[n].state \in {"found", "failed"}
  /\ requests' = [requests EXCEPT ![n].state = "done"]
  /\ cache' = IF requests[n].state = "found" THEN cache \cup {c} ELSE cache
  /\ error' = IF requests[n].state = "failed" /\ IsCurrent(c) THEN c ELSE error
  /\ loading' = IF IsCurrent(c) THEN FALSE ELSE loading
  /\ UNCHANGED <<stored, answer, revealed, active, current>>

Next ==
  \/ Tick \/ Close
  \/ \E c \in Chunks : Reindex(c) \/ HandleCitationClick(c)
  \/ \E n \in 1 .. MaxClicks : GetChunkContent(n) \/ RequestFails(n) \/ Arrives(n)

Spec == Init /\ [][Next]_vars

-----------------------------------------------------------------------------
(* What the open panel shows.                                              *)
Shown ==
  IF loading THEN "loading"
  ELSE IF error # None THEN "error"
  ELSE IF active \in cache THEN "code"
  ELSE "blank"

Waiting(c) == \E n \in 1 .. MaxClicks : requests[n].chunk = c /\ requests[n].state \in {"asked", "found", "failed"}

(* The panel is about the citation clicked last, in whatever order the     *)
(* answers come: it waits only while a request for that one is on its way, *)
(* reports only the failure of one, and is blank for none (the comments at *)
(* RepositoryChat.tsx:321 and :333).                                       *)
PanelIsCurrent ==
  active # None =>
    /\ Shown = "loading" => Waiting(active)
    /\ Shown = "error" => error = active
    /\ Shown # "blank" \/ Waiting(active)
=============================================================================
