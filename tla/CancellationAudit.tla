--------------------------- MODULE CancellationAudit ---------------------------
(***************************************************************************)
(* The automation subsystem watched by an observer that remembers which    *)
(* follow-ups were ordered not to be sent: those the code cancelled, or    *)
(* marked for cancellation, before their message was committed to the      *)
(* provider.  The observer changes nothing in the system.                  *)
(***************************************************************************)
EXTENDS AutomationSystem

VARIABLE ordered    \* follow-ups cancelled or marked before being committed

AuditInit == Init /\ ordered = {}
AuditNext ==
  /\ Next
  /\ ordered' = ordered \cup
       {e \in FollowUps : event'[e].mark /\ ~event'[e].claimed}
AuditSpec == AuditInit /\ [][AuditNext]_<<vars, ordered>>

\* A follow-up that was cancelled, or marked while its message was only
\* reserved, is never sent afterwards, whatever is reopened or retried later
\* (cancelPendingFollowUpsTx, reserveFollowUpMessageOnce,
\* claimFollowUpDeliveryOnce).
CancelledNeverSent == \A e \in ordered : sends[e] = 0

(* Why it holds when the sending hours never close: only a rescheduling       *)
(* erases a mark.                                                            *)

\* Nobody is rescheduling a follow-up.
NothingRescheduled ==
  /\ window
  /\ \A h \in Handlers : handler[h].pc \notin {"reprogram", "reprogramming"}

\* A follow-up that must not be sent: marked before it was committed.
Barred(row) == row.mark /\ ~row.claimed /\ row.status # "ABSENT"

\* What was ordered not to be sent still bears the mark, and only a follow-up
\* that exists does.
OrderedAreBarred ==
  /\ \A e \in FollowUps : event[e].status = "ABSENT" => ~event[e].mark
  /\ ordered \subseteq {e \in FollowUps : Barred(event[e])}

\* The inductive invariant (cancelPendingFollowUpsTx, claimFollowUpDeliveryOnce).
AuditInv == NothingRescheduled /\ OrderedAreBarred

\* Once the transaction that closes, takes or hands off the conversation has
\* committed, no follow-up scheduled before can still be waiting unmarked for
\* its turn to be sent (cancelPendingFollowUpsTx).
CancellationIsComplete ==
  [][gate # "none" /\ gate' = "none" =>
       \A e \in FollowUps :
         (event[e].status \in Live /\ ~event'[e].claimed) => event'[e].mark]_vars

\* A run is STARTED only while its event is being processed at its attempt
\* (processOneEvent creates both together, and whoever moves the event ends
\* the run).
NoOrphanRun ==
  \A r \in Runs : run[r].status = "STARTED" =>
    event[run[r].ev].status = "PROCESSING" /\ CurrentRun(r)
==============================================================================
