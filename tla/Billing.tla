-------------------------------- MODULE Billing --------------------------------
(***************************************************************************)
(* The subscription of an organization and what Mercado Pago says of it    *)
(* (billing/service.ts, state.ts, entitlement.ts and the webhook route).   *)
(* A checkout creates a subscription there; its state is fetched by every  *)
(* notification, synchronization and cancellation, compared with rows that *)
(* were read outside the transaction, and written by one keyed by an event *)
(* that is applied once.  Amounts always match.                            *)
(***************************************************************************)
EXTENDS Naturals, FiniteSets, FiniteSetsExt

CONSTANTS
  Requests,      \* requests that apply a state of the provider
  Kinds,         \* the notifications that arrive: "updated", or a payment
                 \* that is "approved", "pending" or "rejected"
  MaxCheckouts,  \* bound on the checkouts
  MaxVersion,    \* bound on the changes of a subscription at the provider
  MaxEvents      \* bound on the events of the ledger

\* What the constants must be, for the instances of this module.
BillingAssumption == MaxCheckouts \in Nat /\ MaxVersion \in Nat
                            /\ MaxEvents \in Nat
                            /\ Kinds \subseteq {"updated", "approved", "pending", "rejected"}

VARIABLES
  local,     \* the row of the organization: status, plan, subscription in force
  trial,     \* "running" or "over"
  snapshot,  \* the checkouts: status, plan, and the provider's identifier
  remote,    \* their subscriptions at the provider: status and version
  request,   \* the local state of the requests
  events     \* the keys of the ledger

vars == <<local, trial, snapshot, remote, request, events>>

Checkouts == 1 .. MaxCheckouts
Plans == {"STANDARD", "PROFESSIONAL"}
Statuses == {"TRIALING", "ACTIVE", "PAST_DUE", "CANCELED", "EXPIRED", "INCOMPLETE"}
RemoteStatuses == {"pending", "authorized", "paused", "cancelled"}
NoSnapshot == [status |-> "NONE", plan |-> "STANDARD", linked |-> FALSE]
NoRemote == [status |-> "none", version |-> 0, paid |-> FALSE]
Idle == [pc |-> "idle", checkout |-> 0, kind |-> "none", status |-> "none",
         version |-> 0, seen |-> <<>>, old |-> 0]

\* Rows, subscriptions and requests keep their types.
TypeOK ==
  /\ local \in [status : Statuses, plan : Plans, external : 0 .. MaxCheckouts]
  /\ trial \in {"running", "over"}
  /\ snapshot \in [Checkouts -> [status : {"NONE", "QUOTED", "PENDING", "CONFIRMED",
                                           "FAILED", "EXPIRED"},
                                 plan : Plans, linked : BOOLEAN]]
  /\ remote \in [Checkouts -> [status : RemoteStatuses \cup {"none"},
                               version : 0 .. MaxVersion + 1, paid : BOOLEAN]]
  /\ \A r \in Requests :
       /\ request[r].pc \in {"idle", "read", "apply", "cleanup"}
       /\ request[r].checkout \in 0 .. MaxCheckouts

Init ==
  /\ local = [status |-> "TRIALING", plan |-> "STANDARD", external |-> 0]
  /\ trial = "running"
  /\ snapshot = [k \in Checkouts |-> NoSnapshot]
  /\ remote = [k \in Checkouts |-> NoRemote]
  /\ request = [r \in Requests |-> Idle]
  /\ events = {}

------------------------------------------------------------------------------
\* The page of the plans offers the button of every plan but the active one.
Offers(plan) == ~(local.status = "ACTIVE" /\ local.plan = plan)

\* createBillingCheckout: a quote of a plan that is not the active one ...
Quotes(plan) ==
  /\ \E k \in Checkouts : snapshot[k].status = "NONE"
  /\ Offers(plan)
  /\ snapshot' = [snapshot EXCEPT ![Min({k \in Checkouts : snapshot[k].status = "NONE"})] =
       [status |-> "QUOTED", plan |-> plan, linked |-> FALSE]]
  /\ UNCHANGED <<local, trial, remote, request, events>>

\* ... a subscription that waits for the payer ...
Creates(k) ==
  /\ snapshot[k].status = "QUOTED" /\ remote[k].status = "none"
  /\ remote' = [remote EXCEPT ![k] = [status |-> "pending", version |-> 1, paid |-> FALSE]]
  /\ UNCHANGED <<local, trial, snapshot, request, events>>

\* ... and its link; or a failure, before or after the provider created it.
Links(k) ==
  /\ snapshot[k].status = "QUOTED" /\ remote[k].status # "none"
  /\ snapshot' = [snapshot EXCEPT ![k].status = "PENDING", ![k].linked = TRUE]
  /\ UNCHANGED <<local, trial, remote, request, events>>

FailsCheckout(k) ==
  /\ snapshot[k].status = "QUOTED"
  /\ snapshot' = [snapshot EXCEPT ![k].status = "FAILED"]
  /\ UNCHANGED <<local, trial, remote, request, events>>

\* At the provider: the payer authorizes, the charges fail, the payer cancels.
Changed(r, status) ==
  [r EXCEPT !.status = status, !.version = @ + 1, !.paid = @ \/ status = "authorized"]

Becomes(k, status) ==
  /\ remote[k].version < MaxVersion
  /\ CASE status = "authorized" -> remote[k].status \in {"pending", "paused"}
       [] status = "paused" -> remote[k].status = "authorized"
       [] status = "cancelled" -> remote[k].status \in {"pending", "authorized", "paused"}
  /\ remote' = [remote EXCEPT ![k] = Changed(@, status)]
  /\ UNCHANGED <<local, trial, snapshot, request, events>>

------------------------------------------------------------------------------
Fetched(kind, k, r) ==
  [Idle EXCEPT !.pc = "read", !.checkout = k, !.kind = kind,
               !.status = r.status, !.version = r.version]

\* The webhook fetches the subscription a notification names, at any time and
\* as often as the provider repeats it; or the payment and its subscription.
Notifies(r, k, kind) ==
  /\ request[r].pc = "idle"
  /\ remote[k].status # "none" /\ (kind # "updated" => remote[k].paid)
  /\ request' = [request EXCEPT ![r] = Fetched(kind, k, remote[k])]
  /\ UNCHANGED <<local, trial, snapshot, remote, events>>

PendingLinked == {k \in Checkouts : snapshot[k].status = "PENDING"}

\* synchronizeMercadoPagoSubscription: the newest pending checkout first.
Synchronizes(r) ==
  LET k == IF PendingLinked # {} THEN Max(PendingLinked) ELSE local.external IN
  /\ request[r].pc = "idle" /\ k # 0
  /\ request' = [request EXCEPT ![r] = Fetched("sync", k, remote[k])]
  /\ UNCHANGED <<local, trial, snapshot, remote, events>>

\* cancelMercadoPagoSubscription: cancelled there, and then applied here.
Cancels(r) ==
  LET k == local.external IN
  /\ request[r].pc = "idle" /\ k # 0 /\ local.status # "CANCELED"
  /\ remote[k].status # "cancelled"
  /\ remote' = [remote EXCEPT ![k] = Changed(@, "cancelled")]
  /\ request' = [request EXCEPT ![r] = Fetched("cancel", k, Changed(remote[k], "cancelled"))]
  /\ UNCHANGED <<local, trial, snapshot, events>>

\* applyMercadoPagoSubscriptionUpdate reads the checkout and the organization;
\* an unknown subscription is not for us.
Reads(r) ==
  LET k == request[r].checkout IN
  /\ request[r].pc = "read"
  /\ request' = [request EXCEPT ![r] =
       IF ~snapshot[k].linked THEN Idle
       ELSE [@ EXCEPT !.pc = "apply",
                      !.seen = [status |-> local.status, external |-> local.external,
                                checkout |-> snapshot[k].status, trial |-> trial]]]
  /\ UNCHANGED <<local, trial, snapshot, remote, events>>

\* Mutation: with a status of the checkout.
Confirmed == "CONFIRMED"
Rejected == "PAST_DUE"

StillTrying(seen) == seen.status = "TRIALING" /\ seen.trial = "running"

\* resolveMercadoPagoStatus.
\* Mutation: a checkout that was accepted is taken for a payment.
Optimistic(q) ==
  IF q.kind = "rejected" \/ q.status = "paused" THEN "PAST_DUE"
  ELSE IF q.status = "cancelled" THEN "CANCELED" ELSE "ACTIVE"
\* Mutation: an approved payment decides, whatever the subscription says.
ByPayment(q) == IF q.kind = "approved" THEN "ACTIVE" ELSE Optimistic(q)
NextStatus(q) ==
  CASE q.kind = "rejected" -> Rejected
    [] q.kind = "pending" -> IF q.seen.status = "ACTIVE" THEN "ACTIVE"
                             ELSE IF StillTrying(q.seen) THEN "TRIALING" ELSE "INCOMPLETE"
    [] q.status = "authorized" -> "ACTIVE"
    [] q.status = "paused" -> "PAST_DUE"
    [] q.status = "cancelled" -> "CANCELED"
    [] OTHER -> IF StillTrying(q.seen) THEN "TRIALING" ELSE "INCOMPLETE"

CheckoutStatus(next) ==
  CASE next = "ACTIVE" -> "CONFIRMED" [] next = "PAST_DUE" -> "FAILED"
    [] next = "CANCELED" -> "EXPIRED" [] OTHER -> "PENDING"

\* The key of the ledger: a payment has an identifier of its own, everything
\* else is told apart by the version of the subscription.
Key(q) == [kind |-> q.kind, checkout |-> q.checkout,
           version |-> IF q.kind \in {"approved", "pending", "rejected"} THEN 0
                       ELSE q.version]

\* Mutation: the subscription in force is not compared.
NoneStale(q) == FALSE
Stale(q) == q.seen.external \notin {0, q.checkout} /\ q.seen.checkout # "PENDING"

\* It is written, once for each key, over whatever the rows say by now; the
\* subscription it replaces is cancelled next, if a webhook brought it.
Applies(r) ==
  LET q == request[r]
      k == q.checkout
      next == NextStatus(q)
      replaces == next = "ACTIVE" /\ q.seen.external \notin {0, k}
                    /\ q.kind \notin {"sync", "cancel"}
  IN
  /\ q.pc = "apply" /\ Cardinality(events) < MaxEvents
  /\ events' = events \cup {Key(q)}
  /\ IF Key(q) \in events \/ Stale(q)
     THEN /\ request' = [request EXCEPT ![r] = Idle]
          /\ UNCHANGED <<local, snapshot>>
     ELSE /\ local' = [status |-> next, external |-> k,
                       plan |-> IF next = "ACTIVE" THEN snapshot[k].plan ELSE local.plan]
          /\ snapshot' = [snapshot EXCEPT ![k].status = CheckoutStatus(next)]
          /\ request' = [request EXCEPT ![r] =
               IF replaces THEN [Idle EXCEPT !.pc = "cleanup", !.old = q.seen.external]
               ELSE Idle]
  /\ UNCHANGED <<trial, remote>>

CancelsOld(r) ==
  LET k == request[r].old IN
  /\ request[r].pc = "cleanup"
  /\ remote' = IF remote[k].status = "cancelled" THEN remote
               ELSE [remote EXCEPT ![k] = Changed(@, "cancelled")]
  /\ request' = [request EXCEPT ![r] = Idle]
  /\ UNCHANGED <<local, trial, snapshot, events>>

\* The call to the provider, a write or the process fails.
Fails(r) ==
  /\ request[r].pc # "idle"
  /\ request' = [request EXCEPT ![r] = Idle]
  /\ UNCHANGED <<local, trial, snapshot, remote, events>>

------------------------------------------------------------------------------
TrialEnds ==
  /\ trial = "running" /\ trial' = "over"
  /\ UNCHANGED <<local, snapshot, remote, request, events>>

ExpiredKey == [kind |-> "trial.expired", checkout |-> 0, version |-> 0]
\* Mutation: by the trial alone, whatever the row says by now.
Outdated == trial = "over"
Expirable == trial = "over" /\ local.status = "TRIALING"

\* getOrganizationEntitlement closes a trial that is over; the event of the
\* ledger, whose key it has once, undoes it a second time.
Expires ==
  /\ Expirable /\ ExpiredKey \notin events
  /\ local' = [local EXCEPT !.status = "EXPIRED"]
  /\ events' = events \cup {ExpiredKey}
  /\ UNCHANGED <<trial, snapshot, remote, request>>

Next ==
  \/ \E plan \in Plans : Quotes(plan)
  \/ \E k \in Checkouts :
       \/ Creates(k) \/ Links(k) \/ FailsCheckout(k)
       \/ \E status \in {"authorized", "paused", "cancelled"} : Becomes(k, status)
  \/ \E r \in Requests :
       \/ Synchronizes(r) \/ Cancels(r) \/ Reads(r) \/ Applies(r) \/ CancelsOld(r) \/ Fails(r)
       \/ \E k \in Checkouts, kind \in Kinds :
            Notifies(r, k, kind)
  \/ TrialEnds \/ Expires

Spec == Init /\ [][Next]_vars

------------------------------------------------------------------------------
\* Access is paid: an ACTIVE organization is one whose subscription in force the
\* payer authorized, and its plan is the one of that checkout.
ActiveWasPaid ==
  local.status = "ACTIVE" =>
    /\ local.external # 0 /\ remote[local.external].paid
    /\ snapshot[local.external].plan = local.plan

\* The end of a trial, noticed while its payment is confirmed, closes nothing
\* that was paid.
PaidNotExpiredStep ==
  local'.status = "EXPIRED" => local.status \in {"TRIALING", "EXPIRED"}
PaidNotExpired == [][PaidNotExpiredStep]_vars

\* What the setup guide says of a change: the subscription in force is replaced
\* by an explicit checkout, one that is still to be confirmed.
ChangedByCheckoutStep ==
  local'.external # local.external => snapshot[local'.external].status = "PENDING"
ChangedByCheckout == [][ChangedByCheckoutStep]_vars

\* What the panel says of a cancellation: it is there to stay, and access lasts
\* until the paid period ends.
CanceledForGoodStep ==
  local.status = "CANCELED" /\ local'.external = local.external
    /\ remote[local.external].status = "cancelled" => local'.status # "ACTIVE"
CanceledForGood == [][CanceledForGoodStep]_vars

\* What the tests say of a charge that is pending: it does not cut an active
\* organization, which goes on while the provider settles it.
ActiveNotCut ==
  [][local.status = "ACTIVE" => local'.status # "INCOMPLETE"]_vars
==============================================================================
