---------------------------- MODULE WebhookIntake ----------------------------
(***************************************************************************)
(* The endpoint GitHub sends webhooks to. A delivery is claimed by the     *)
(* insert of its webhook_events row, handled, and released again when its  *)
(* handler throws, so that a redelivery of the same id can retry. What     *)
(* becomes of the jobs it enqueues is in IndexJobs and PrReviews.          *)
(***************************************************************************)
EXTENDS Naturals, FiniteSets

CONSTANTS
  Deliveries,  (* x-github-delivery ids                                    *)
  Requests,    (* HTTP requests the backend runs at once                   *)
  Heads,       (* head commits of the one pull request                     *)
  MaxSends,    (* bound: how often GitHub sends a delivery                 *)
  Faults       (* a subset of AllFaults                                    *)

(* "handler": a call of the handler throws and has no effect;              *)
(* "ambiguousEnqueue": the enqueue throws with the job in Redis; "claim":  *)
(* the insert fails for another reason than a duplicate; "release": the    *)
(* delete fails; "crash": the backend dies.                                *)
AllFaults == {"handler", "ambiguousEnqueue", "claim", "release", "crash"}

VARIABLES
  event,    (* what each delivery is about                                 *)
  sends,    (* how often it was sent                                       *)
  claims,   (* the webhook_events rows                                     *)
  request,  (* where each HTTP request is                                  *)
  answers,  (* what GitHub was answered, per delivery                      *)
  revoked,  (* repository_installations.revoked_at is set                  *)
  head,     (* head_sha of the pull_requests row, Nil without a row       *)
  work,     (* jobs enqueued per delivery, by a call that returned         *)
  unheard,  (* deliveries with a job enqueued by a call that threw         *)
  lost      (* history: deliveries whose request died, or kept its claim   *)

vars == <<event, sends, claims, request, answers, revoked, head, work, unheard, lost>>

Nil    == "none"
Event(type, sha) == [type |-> type, head |-> sha]
Events  == {Event("push", Nil), Event("installation", Nil), Event("other", Nil)}
             \cup {Event("pull_request", h) : h \in Heads}
Working == {"handle", "upsert", "enqueue", "release", "handled"}
Idle    == [pc |-> "idle", delivery |-> Nil]

(* Every variable has its type.                                            *)
TypeOK ==
  /\ event \in [Deliveries -> Events]
  /\ sends \in [Deliveries -> Nat]
  /\ claims \subseteq Deliveries
  /\ request \in [Requests -> [pc : Working \cup {"idle", "claim"}, delivery : Deliveries \cup {Nil}]]
  /\ \A r \in Requests : request[r].pc # "idle" => request[r].delivery \in Deliveries
  /\ answers \in [Deliveries -> SUBSET {"processed", "deduped", "error"}]
  /\ revoked \in BOOLEAN
  /\ head \in Heads \cup {Nil}
  /\ work \in [Deliveries -> Nat]
  /\ unheard \subseteq Deliveries
  /\ lost \subseteq Deliveries

Init ==
  /\ event \in [Deliveries -> Events]
  /\ sends = [d \in Deliveries |-> 0]
  /\ claims = {}
  /\ request = [r \in Requests |-> Idle]
  /\ answers = [d \in Deliveries |-> {}]
  /\ revoked = FALSE
  /\ head = Nil
  /\ work = [d \in Deliveries |-> 0]
  /\ unheard = {}
  /\ lost = {}

-----------------------------------------------------------------------------
At(r, pc)    == request[r].pc = pc
DeliveryOf(r) == request[r].delivery
EventOf(r)   == event[DeliveryOf(r)]
WorkingOn(r, d) == DeliveryOf(r) = d /\ request[r].pc \in Working
Goto(r, pc)  == request' = [request EXCEPT ![r].pc = pc]

Answer(r, kind) ==
  /\ answers' = [answers EXCEPT ![DeliveryOf(r)] = @ \cup {kind}]
  /\ request' = [request EXCEPT ![r] = Idle]

(* GitHub sends a delivery, or sends it again while the first may still    *)
(* run. Requests without headers or a valid signature end here.            *)
Deliver(d, r) ==
  /\ At(r, "idle")
  /\ sends[d] < MaxSends
  /\ sends' = [sends EXCEPT ![d] = @ + 1]
  /\ request' = [request EXCEPT ![r] = [pc |-> "claim", delivery |-> d]]
  /\ UNCHANGED <<event, claims, answers, revoked, head, work, unheard, lost>>

Claimable_Upsert(d) == d \in Deliveries
Claimable(d) == d \notin claims

(* tryClaimEvent: the unique constraint lets one insert of an id win.      *)
TryClaimEvent(r) ==
  /\ At(r, "claim")
  /\ \/ /\ Claimable(DeliveryOf(r))
        /\ claims' = claims \cup {DeliveryOf(r)}
        /\ Goto(r, "handle")
        /\ UNCHANGED answers
     \/ /\ ~Claimable(DeliveryOf(r))
        /\ Answer(r, "deduped")
        /\ UNCHANGED claims
     \/ /\ "claim" \in Faults
        /\ Answer(r, "error")
        /\ UNCHANGED claims
  /\ UNCHANGED <<event, sends, revoked, head, work, unheard, lost>>

(* The dispatch, to the first write: a push or pull request event is       *)
(* dropped unless its repository has an installation not revoked.          *)
ReadRepository(r) ==
  /\ At(r, "handle")
  /\ EventOf(r).type # "installation"
  /\ Goto(r, CASE EventOf(r).type = "other" \/ revoked -> "handled"
               [] EventOf(r).type = "pull_request" /\ ~revoked -> "upsert"
               [] EventOf(r).type = "push" /\ ~revoked -> "enqueue")
  /\ UNCHANGED <<event, sends, claims, answers, revoked, head, work, unheard, lost>>

RevokeInstallation(r) ==
  /\ At(r, "handle")
  /\ EventOf(r).type = "installation"
  /\ revoked' = TRUE
  /\ Goto(r, "handled")
  /\ UNCHANGED <<event, sends, claims, answers, head, work, unheard, lost>>

AfterUpsert_Known(r) == IF head = Nil THEN "enqueue" ELSE "handled"
AfterUpsert_Skip(r)  == "ignored"
AfterUpsert(r)       == "enqueue"

UpsertPullRequest(r) ==
  /\ At(r, "upsert")
  /\ head' = EventOf(r).head
  /\ Goto(r, AfterUpsert(r))
  /\ UNCHANGED <<event, sends, claims, answers, revoked, work, unheard, lost>>

(* enqueuePrReviewJob, or createAndEnqueueIndexJob, which finds a busy     *)
(* repository ALREADY_INDEXING: no job, and no error to GitHub.            *)
Enqueue(r) ==
  /\ At(r, "enqueue")
  /\ \/ work' = [work EXCEPT ![DeliveryOf(r)] = @ + 1]
     \/ EventOf(r).type = "push" /\ UNCHANGED work
  /\ Goto(r, "handled")
  /\ UNCHANGED <<event, sends, claims, answers, revoked, head, unheard, lost>>

(* Job ids are random: what an enqueue that threw left in Redis does not   *)
(* keep a redelivery from enqueuing another job.                           *)
HandlerThrows(r) ==
  /\ \/ /\ "handler" \in Faults
        /\ request[r].pc \in {"handle", "upsert", "enqueue"}
        /\ UNCHANGED unheard
     \/ /\ "ambiguousEnqueue" \in Faults
        /\ At(r, "enqueue")
        /\ unheard' = unheard \cup {DeliveryOf(r)}
  /\ Goto(r, "release")
  /\ UNCHANGED <<event, sends, claims, answers, revoked, head, work, lost>>

Released_Kept(d) == claims
Released(d)      == claims \ {d}

(* The catch: the claim is deleted, whether that works or not, and the     *)
(* error rethrown to the error handler.                                    *)
ReleaseClaim(r) ==
  /\ At(r, "release")
  /\ \/ claims' = Released(DeliveryOf(r)) /\ UNCHANGED lost
     \/ "release" \in Faults /\ UNCHANGED claims /\ lost' = lost \cup {DeliveryOf(r)}
  /\ Answer(r, "error")
  /\ UNCHANGED <<event, sends, revoked, head, work, unheard>>

Respond(r) ==
  /\ At(r, "handled")
  /\ Answer(r, "processed")
  /\ UNCHANGED <<event, sends, claims, revoked, head, work, unheard, lost>>

Crash ==
  /\ "crash" \in Faults
  /\ \E r \in Requests : ~At(r, "idle")
  /\ request' = [r \in Requests |-> Idle]
  /\ lost' = lost \cup {d \in Deliveries : \E r \in Requests : WorkingOn(r, d)}
  /\ UNCHANGED <<event, sends, claims, answers, revoked, head, work, unheard>>

-----------------------------------------------------------------------------
RequestStep(r) ==
  \/ TryClaimEvent(r) \/ ReadRepository(r) \/ RevokeInstallation(r) \/ UpsertPullRequest(r)
  \/ Enqueue(r) \/ HandlerThrows(r) \/ ReleaseClaim(r) \/ Respond(r)

Next ==
  \/ \E d \in Deliveries, r \in Requests : Deliver(d, r)
  \/ \E r \in Requests : RequestStep(r)
  \/ Crash

Spec == Init /\ [][Next]_vars

-----------------------------------------------------------------------------
(* Properties.                                                             *)

Phase(d) ==
  IF \E r \in Requests : WorkingOn(r, d) THEN "handling"
  ELSE IF d \in claims THEN "handled" ELSE "new"

Intake == INSTANCE AtMostOnce WITH
  Requests <- Deliveries, phase <- [d \in Deliveries |-> Phase(d)], done <- work

(* Redelivered, delivered twice at once, failed halfway or cut short by a  *)
(* crash: a delivery is handled by one request at a time, over the         *)
(* webhook_events row alone, and its job is enqueued at most once, but for *)
(* the jobs of enqueues that threw when Redis had taken them.              *)
ImplementsAtMostOnce == Intake!Spec

(* No event is deduped forever by a failed first attempt: a claim stands   *)
(* for an event that was processed or is being handled. Only a crash, and  *)
(* a delete that fails as well, lose events.                               *)
ClaimMeansDone ==
  \A d \in claims \ lost : "processed" \in answers[d] \/ \E r \in Requests : WorkingOn(r, d)

(* The head a pull request shows is reviewed: a job for it was enqueued, a *)
(* request is about to, its delivery can be sent again or was lost.        *)
UpsertedIsReviewed ==
  head # Nil /\ ~revoked => \E d \in Deliveries :
    /\ event[d] = Event("pull_request", head)
    /\ work[d] > 0 \/ d \notin claims \/ d \in lost \/ \E r \in Requests : WorkingOn(r, d)
=============================================================================
