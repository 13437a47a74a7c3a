--------------------------- MODULE MCIndexContent ----------------------------
(***************************************************************************)
(* Small instances of IndexContent: two paths, f and g, and two texts, the *)
(* first of which calls the symbol of g. Two paths are enough for a rename *)
(* and for a caller with its callee; a third commit lets a change be made  *)
(* and taken back. What a run checks is one of the turns of SumSpec:       *)
(*   "full"         every push and failure, in the first FullCommits;      *)
(*   "incremental"  jobs that do not fail, and pushes that neither rename  *)
(*                  nor link nor rewrite history;                          *)
(*   "double"       two attempts of one job at once.                       *)
(***************************************************************************)
EXTENDS IndexContent

CONSTANTS f, g, v1, v2, s1, s2,
  FullCommits   (* bound on the commits of the turns "full" and "double"   *)

VARIABLE turn

TwoPaths  == {f, g}
OneText   == {v1}
TwoTexts  == {v1, v2}
CallsG    == [v \in {v1, v2} |-> IF v = v1 THEN {g} ELSE {}]
CallsNone == [v \in {v1, v2} |-> {}]
OneSlot   == {s1}
TwoSlots  == {s1, s2}

Nothing    == {}
AllPushes  == {"rename", "link", "force"}
StageFault == {"stage"}
BothTypes  == {"FULL", "INCREMENTAL"}

Double == INSTANCE IndexContent WITH
  Sources <- OneText, Calls <- [v \in OneText |-> {g}], Slots <- TwoSlots,
  MaxCommits <- FullCommits, Pushes <- {}, Faults <- {"doubleRun"}

(* The steps of the turn "incremental".                                    *)
PlainTree(t) == \A p \in Paths : t[p] # Link

SmoothPush(t) ==
  /\ Push(t)
  /\ PlainTree(t) /\ UNCHANGED lost
  /\ \A c \in 1..head : \A p \in Paths : ~RenamedAway(tree[c], t, p)

SmoothStep(s) ==
  \/ StartAttempt(s) \/ CloneRepository(s) \/ DeleteRemoved(s)
  \/ \E p \in Paths : WalkFile(s, p)
  \/ EmbedChunks(s) \/ StoreIndex(s)

SmoothNext ==
  \/ \E t \in Trees : SmoothPush(t)
  \/ \E type \in JobTypes : AcceptJob(type)
  \/ \E s \in Slots : SmoothStep(s)

SumInit ==
  \/ turn = "full"        /\ Init
  \/ turn = "incremental" /\ Init /\ PlainTree(tree[1])
  \/ turn = "double"      /\ Double!Init

SumNext ==
  /\ UNCHANGED turn
  /\ \/ turn = "full"        /\ Next /\ head' <= FullCommits
     \/ turn = "incremental" /\ SmoothNext
     \/ turn = "double"      /\ Double!Next

SumSpec == SumInit /\ [][SumNext]_<<turn, vars>>

(* The instance of missing_after_failed_index.                             *)
FullSpec ==
  /\ turn = "full" /\ Init
  /\ [][UNCHANGED turn /\ Next]_<<turn, vars>>

-----------------------------------------------------------------------------
(* The properties of IndexContent, for the instance that brings them out.  *)

(* Every variable has its type.                                            *)
TypesHold == turn = "full" => TypeOK

(* No embedding is charged twice, whatever is retried.                     *)
NoDoubleCharge == turn = "full" => ChargedOnce

(* The stamp of a file is the commit its chunk was cut from.               *)
StampIsTrue == turn = "full" => ChunksOfRecordedCommit

(* A full index leaves the exact index of its commit.                      *)
FullIsExact ==
  [][turn = "full" => \A s \in Slots :
       run[s].type = "FULL" /\ StoreIndex(s) => ExactIndex']_<<turn, vars>>

(* Indexes that do not fail, full or incremental in any order, leave the   *)
(* rows of the files of their commit, each of its text, and of no other.   *)
IncrementalIsExact == turn = "incremental" => NoStaleRows /\ NothingMissing
=============================================================================
