------------------------------ MODULE AtMostOnce ------------------------------
(* What an intake of named requests promises: one handling of a request at *)
(* a time, its work done at most once, and a request given up only while   *)
(* its work is not done, so that it may be sent again.                     *)
EXTENDS Naturals

CONSTANT Requests

VARIABLES
  phase,  (* "new", "handling" or "handled", per request                   *)
  done    (* how often the work of a request was done                      *)

Init ==
  /\ phase = [r \in Requests |-> "new"]
  /\ done = [r \in Requests |-> 0]

Begin(r) ==
  /\ phase[r] = "new"
  /\ phase' = [phase EXCEPT ![r] = "handling"]
  /\ UNCHANGED done

Work(r) ==
  /\ phase[r] = "handling"
  /\ done[r] = 0
  /\ done' = [done EXCEPT ![r] = 1]
  /\ UNCHANGED phase

Finish(r) ==
  /\ phase[r] = "handling"
  /\ phase' = [phase EXCEPT ![r] = "handled"]
  /\ UNCHANGED done

GiveUp(r) ==
  /\ phase[r] = "handling"
  /\ done[r] = 0
  /\ phase' = [phase EXCEPT ![r] = "new"]
  /\ UNCHANGED done

(* The service dies: whatever was handled counts as handled.               *)
Die == /\ phase' = [r \in Requests |-> IF phase[r] = "handling" THEN "handled" ELSE phase[r]]
       /\ UNCHANGED done

Next == Die \/ \E r \in Requests : Begin(r) \/ Work(r) \/ Finish(r) \/ GiveUp(r)

Spec == Init /\ [][Next]_<<phase, done>>
=============================================================================
