------------------------------ MODULE MCLibrary -------------------------------
(***************************************************************************)
(* The instance TLC checks. Three chunks, two of them under one label; two *)
(* files and a third row under another separator; two files whose patches  *)
(* hold every kind of line; two reviews, two usage logs and two pull       *)
(* requests are the least that tell the cases apart.                       *)
(***************************************************************************)
EXTENDS Library

CONSTANTS c1, c2, c3, l1, l2, l3

(* Three chunks, the first two at the same lines of a file.                *)
TwoAtOneLabel == c1 :> l1 @@ c2 :> l1 @@ c3 :> l2
OneLabelEach  == c1 :> l1 @@ c2 :> l2

(* Rows 1 and 2 are one file, indexed under / and under \.                 *)
FileRows      == 1 .. 3
TwoPaths      == <<"p", "p", "q">>
FourChunks    == 1 .. 4
InThreeRows   == <<1, 2, 3, 3>>

Relation(f, t, type) == [from |-> f, to |-> t, type |-> type]

SevenRelations ==
  {Relation(1, 2, "CALLS"), Relation(1, 3, "CALLS"), Relation(2, 3, "CALLS"),
   Relation(2, 4, "IMPORTS"), Relation(4, 1, "CALLS"), Relation(3, 3, "CALLS"),
   Relation(4, 0, "CALLS")}

(* The second file is in the diff with two hunks, or not at all.           *)
LineNumbers   == 1 .. 3
ThreeChunks   == 1 .. 3
EveryKind     == {<<"-">>, <<"+", "\\">>, <<" ", "-">>, <<"-", "\\", "+">>, <<"-", "+", " ">>, <<" ", "+", " ">>}
InTwoFiles    == <<[file |-> "f", first |-> 1, last |-> 2], [file |-> "f", first |-> 3, last |-> 4],
                   [file |-> "g", first |-> 1, last |-> 2]>>
ThirdToFirst  == {<<3, 1>>}
RiskyPaths    == [AUTH_PATH |-> {"g"}, PAYMENT_PATH |-> {}, MIGRATION |-> {"f"}, DEPENDENCY_CHANGE |-> {}]

Finding(f, c) == [file |-> f, category |-> c]

TwoReviews    == <<<<Finding("f", "BUG"), Finding("g", "LOGIC")>>, <<Finding("g", "BUG")>>>>

TwoLogs       == {[day |-> 3], [day |-> 20]}

RunInit ==
  /\ LibraryInit
  /\ turn = "review" => Len(patch["g"]) \in {0, 4}
  /\ turn # "usage" => range = 7

RunSpec == RunInit /\ [][LibraryNext]_<<turn, retrieval, graph, review, panel, page, list, usage>>
=============================================================================
