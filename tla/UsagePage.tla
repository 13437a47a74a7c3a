------------------------------- MODULE UsagePage -------------------------------
(***************************************************************************)
(* The usage dashboard: what getUsageSummary makes of the usage logs of the*)
(* last days, and the page that asks for it when the range changes.        *)
(***************************************************************************)
EXTENDS Naturals, FiniteSets

CONSTANTS
  Logs,         (* usage logs, each with its day: how long ago             *)
  RangeOptions, (* RANGE_OPTIONS                                           *)
  MaxLoads      (* bound: summaries asked for                              *)

UsageAssumption == (\A l \in Logs : l.day \in Nat) /\ MaxLoads \in Nat \ {0}

VARIABLES
  logs,                   (* usage_logs                                    *)
  range, loads,           (* the range selected, and the requests          *)
  data, loading, error,
  outrun                  (* history: a summary came before an earlier one *)

vars == <<logs, range, loads, data, loading, error, outrun>>

(* getUsageSummary: the logs since the cutoff, added up; what the page     *)
(* makes of the sums but whether there is any call is left out.            *)
Since(days) == {l \in logs : l.day <= days}

Summary(days) == [range |-> days, calls |-> Cardinality(Since(days))]

NoData == [range |-> 0, calls |-> 0]
Free   == [days |-> 0, state |-> "unused", answer |-> NoData]

Init ==
  /\ logs \in SUBSET Logs
  /\ range \in RangeOptions
  /\ loads = [n \in 1 .. MaxLoads |-> IF n = 1 THEN [Free EXCEPT !.days = range, !.state = "asked"] ELSE Free]
  /\ data = NoData /\ loading = TRUE /\ error = FALSE /\ outrun = FALSE

-----------------------------------------------------------------------------
(* An answer, a review or an index is paid for.                            *)
Spend ==
  /\ \E l \in Logs \ logs : logs' = logs \cup {l}
  /\ UNCHANGED <<range, loads, data, loading, error, outrun>>

(* A click on a range: load, by the next free number.                      *)
SetRange(days) ==
  /\ days # range /\ range' = days
  /\ \E n \in 2 .. MaxLoads :
       /\ loads[n] = Free /\ loads[n - 1] # Free
       /\ loads' = [loads EXCEPT ![n].days = days, ![n].state = "asked"]
  /\ loading' = TRUE /\ error' = FALSE
  /\ UNCHANGED <<logs, data, outrun>>

GetUsageSummary(n) ==
  /\ loads[n].state = "asked"
  /\ loads' = [loads EXCEPT ![n].state = "answered", ![n].answer = Summary(loads[n].days)]
  /\ UNCHANGED <<logs, range, data, loading, error, outrun>>

(* load, resumed: the first answer ends the loading, whatever its range,   *)
(* and the last to come is shown.                                          *)
Arrives(n) ==
  /\ loads[n].state = "answered"
  /\ data' = loads[n].answer /\ loading' = FALSE
  /\ loads' = [loads EXCEPT ![n] = [Free EXCEPT !.state = "done"]]
  /\ outrun' = (outrun \/ \E m \in 1 .. n - 1 : loads[m].state # "done")
  /\ UNCHANGED <<logs, range, error>>

Fails(n) ==
  /\ loads[n].state = "asked"
  /\ error' = TRUE /\ loading' = FALSE
  /\ loads' = [loads EXCEPT ![n] = [Free EXCEPT !.state = "done"]]
  /\ UNCHANGED <<logs, range, data, outrun>>

Next ==
  \/ Spend
  \/ \E days \in RangeOptions : SetRange(days)
  \/ \E n \in 1 .. MaxLoads : GetUsageSummary(n) \/ Arrives(n) \/ Fails(n)

Spec == Init /\ [][Next]_vars

-----------------------------------------------------------------------------
(* What the page shows under the range selected.                           *)
View ==
  IF loading THEN "loading" ELSE IF error THEN "error"
  ELSE IF data.calls = 0 THEN "empty" ELSE "summary"

(* A page whose requests have all ended shows a summary of the range it    *)
(* says, or an error, in whatever order they ended; but for a summary that *)
(* came before that of an earlier request, which then takes its place: no  *)
(* guard in load tells them apart.                                         *)
UsageIsOfRange ==
  (\A n \in 1 .. MaxLoads : loads[n].state \in {"unused", "done"}) =>
    \/ View = "error" \/ outrun
    \/ View \in {"empty", "summary"} /\ data.range = range
=============================================================================
