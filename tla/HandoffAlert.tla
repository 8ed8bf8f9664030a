----------------------------- MODULE HandoffAlert -----------------------------
(***************************************************************************)
(* The signed action that alerts the team on WhatsApp when a conversation  *)
(* is handed to a human (executeHandoffAlertAction in                      *)
(* src/server/automation/handoff-alert-action.ts).  The request carries    *)
(* the event only, not the run.  One ledger row per recipient is created   *)
(* with the claim, the alerts are sent in parallel, and one batch persists *)
(* all the outcomes; the invocation may be cut off anywhere in between.    *)
(***************************************************************************)
EXTENDS AutomationStore

CONSTANT Alerters
VARIABLE alerter

Outcome == {"NONE", "SENT", "FAILED"}
NoOutcome == [x \in Recipients |-> "NONE"]
AlerterState == [pc : {"idle", "claimed", "sending"},
                 ev : {0} \cup Handoffs, outcome : [Recipients -> Outcome]]
AlerterIdle == [pc |-> "idle", ev |-> 0, outcome |-> NoOutcome]

AlertTypeOK == alerter \in [Alerters -> AlerterState]
AlertInit == alerter = [a \in Alerters |-> AlerterIdle]

DeliveryRows(e) == {x \in Recipients : delivery[e][x] # "NONE"}

\* The newest STARTED run of the event belongs to its current attempt.
Executing(e) ==
  \E r \in Runs :
    /\ run[r].ev = e /\ CurrentRun(r)
    /\ \A q \in Runs : (run[q].ev = e /\ run[q].status = "STARTED")
                         => run[q].attempt <= run[r].attempt

Completes(e) == event[e].status = "PROCESSING" /\ event[e].claimed

\* resolveExistingHandoffAlertAction says ready.  Mutation: it always does.
AlwaysReady(e) == TRUE
NothingClaimed(e) == DeliveryRows(e) = {} /\ ~event[e].claimed

------------------------------------------------------------------------------
\* claimHandoffAlertAction when nothing was claimed before: the claim renews
\* lockedAt and creates the ledger.
ClaimAlert(a, e) ==
  /\ alerter[a].pc = "idle"
  /\ \E r \in received : run[r].ev = e
  /\ NothingClaimed(e)
  /\ event[e].status = "PROCESSING" /\ Executing(e)
  /\ ~closed /\ human
  /\ event' = [event EXCEPT ![e] =
       [@ EXCEPT !.claimed = TRUE, !.lock = Renewed, !.stale = FALSE]]
  /\ delivery' = [delivery EXCEPT ![e] = [x \in Recipients |-> "PROCESSING"]]
  /\ alerter' = [alerter EXCEPT ![a] =
       [pc |-> "claimed", ev |-> e, outcome |-> NoOutcome]]
  /\ UNCHANGED <<run, message, received, world, history>>

\* The same request when every alert was already sent: it only completes.
\* A failed or unfinished ledger is reported and left alone.
AlreadySent(e) ==
  /\ \E r \in received : run[r].ev = e
  /\ DeliveryRows(e) # {}
  /\ \A x \in DeliveryRows(e) : delivery[e][x] = "SENT"
  /\ ~event[e].completed
  /\ event' = [event EXCEPT ![e].completed = TRUE]
  /\ UNCHANGED <<run, message, delivery, received, world, history, alerter>>

\* The outcome of the ledger rows still PROCESSING, and of the event.
Persisting(e, outcome) ==
  /\ delivery' = [delivery EXCEPT ![e] =
       [x \in Recipients |-> IF delivery[e][x] = "PROCESSING"
                            THEN outcome[x] ELSE delivery[e][x]]]
  /\ event' = [event EXCEPT ![e].completed = @ \/ Completes(e)]

\* The credentials cannot be decrypted: nothing is sent, every row fails.
CredentialsFail(a) ==
  /\ alerter[a].pc = "claimed"
  /\ Persisting(alerter[a].ev, [x \in Recipients |-> "FAILED"])
  /\ alerter' = [alerter EXCEPT ![a] = AlerterIdle]
  /\ UNCHANGED <<run, message, received, world, history>>

\* One of the parallel sends ends: the provider took the alert and said so,
\* took it and the answer was lost, or refused it.
SendAlert(a, x) ==
  LET e == alerter[a].ev
      ends(status) == alerter' = [alerter EXCEPT ![a] =
        [@ EXCEPT !.pc = "sending", !.outcome[x] = status]]
  IN
  /\ alerter[a].pc \in {"claimed", "sending"}
  /\ alerter[a].outcome[x] = "NONE"
  /\ \/ /\ alerts' = [alerts EXCEPT ![e][x] = @ + 1]
        /\ ends("SENT") \/ ends("FAILED")
     \/ UNCHANGED alerts /\ ends("FAILED")
  /\ UNCHANGED <<rows, received, world, sends>>

PersistAlerts(a) ==
  /\ alerter[a].pc = "sending"
  /\ \A x \in Recipients : alerter[a].outcome[x] # "NONE"
  /\ Persisting(alerter[a].ev, alerter[a].outcome)
  /\ alerter' = [alerter EXCEPT ![a] = AlerterIdle]
  /\ UNCHANGED <<run, message, received, world, history>>

AlerterStops(a) ==
  /\ alerter[a].pc # "idle"
  /\ alerter' = [alerter EXCEPT ![a] = AlerterIdle]
  /\ UNCHANGED store

AlerterStep(a) ==
  \/ \E e \in Handoffs : ClaimAlert(a, e)
  \/ CredentialsFail(a) \/ PersistAlerts(a) \/ AlerterStops(a)
  \/ \E x \in Recipients : SendAlert(a, x)
==============================================================================
