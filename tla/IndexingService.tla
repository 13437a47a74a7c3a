--------------------------- MODULE IndexingService ---------------------------
(***************************************************************************)
(* What indexing promises to a user, with no queue, worker or retry: a     *)
(* repository accepts one job at a time, each acceptance is settled at     *)
(* most once, as indexed at a commit no older than before, or as failed.   *)
(***************************************************************************)
EXTENDS Naturals

CONSTANTS Repos, Jobs, Commits

VARIABLES
  phase,    (* "unborn", "busy", "indexed", "failed" or "deleted"          *)
  commit,   (* the indexed commit, 0 before the first                      *)
  accepted  (* the jobs accepted so far                                    *)

svars == <<phase, commit, accepted>>

Init ==
  /\ phase = [r \in Repos |-> "unborn"]
  /\ commit = [r \in Repos |-> 0]
  /\ accepted = [r \in Repos |-> {}]

Accept(r, j) ==
  /\ phase[r] \in {"unborn", "indexed", "failed"}
  /\ \A s \in Repos : j \notin accepted[s]
  /\ phase' = [phase EXCEPT ![r] = "busy"]
  /\ accepted' = [accepted EXCEPT ![r] = @ \cup {j}]
  /\ UNCHANGED commit

Index(r, c) ==
  /\ phase[r] = "busy"
  /\ c >= commit[r]
  /\ phase' = [phase EXCEPT ![r] = "indexed"]
  /\ commit' = [commit EXCEPT ![r] = c]
  /\ UNCHANGED accepted

Fail(r) ==
  /\ phase[r] = "busy"
  /\ phase' = [phase EXCEPT ![r] = "failed"]
  /\ UNCHANGED <<commit, accepted>>

Delete(r) ==
  /\ phase[r] \in {"busy", "indexed", "failed"}
  /\ phase' = [phase EXCEPT ![r] = "deleted"]
  /\ UNCHANGED <<commit, accepted>>

Settle(r) == Fail(r) \/ \E c \in Commits : Index(r, c)

Next == \E r \in Repos :
  \/ \E j \in Jobs : Accept(r, j)
  \/ Settle(r)
  \/ Delete(r)

Spec == Init /\ [][Next]_svars
=============================================================================
