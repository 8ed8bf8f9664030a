---------------------------- MODULE DispatchQueue ----------------------------
(***************************************************************************)
(* The persisted queue (src/server/automation/queue.ts): dispatchers that  *)
(* select a due event, revalidate it, claim it, post it to the n8n webhook *)
(* and record the outcome; the recovery of events left in PROCESSING; and  *)
(* the administrator's retry and cancel (operations.ts).  Any number of    *)
(* dispatchers run at once and each may be cut off between two statements. *)
(* The callback that n8n answers a dispatched run with comes last.         *)
(***************************************************************************)
EXTENDS AutomationStore

CONSTANT Dispatchers
VARIABLE dispatcher

DispatcherState ==
  [pc : {"idle", "cancelling", "selected", "dispatching", "dispatched"},
   ev : {0} \cup Events, run : {0} \cup Runs]
DispatcherIdle == [pc |-> "idle", ev |-> 0, run |-> 0]

QueueTypeOK == dispatcher \in [Dispatchers -> DispatcherState]
QueueInit == dispatcher = [d \in Dispatchers |-> DispatcherIdle]

------------------------------------------------------------------------------
\* preflightFollowUpForDispatch on a due event the batch selected: an event
\* outside its hours is rescheduled, an ineligible one is to be cancelled.  A
\* handoff alert passes (its own preflight is part of the claim).
Preflight(d, e) ==
  LET eligible == /\ Eligible(e)
                  /\ event[e].msg = 0 => BelowMaximum
      becomes(pc) == dispatcher' = [dispatcher EXCEPT ![d] =
                                      [pc |-> pc, ev |-> e, run |-> 0]]
  IN
  /\ dispatcher[d].pc = "idle"
  /\ event[e].status = "PENDING" /\ event[e].due
  /\ \/ /\ e \in FollowUps /\ ~eligible
        /\ becomes("cancelling") /\ UNCHANGED event
     \/ /\ e \in FollowUps /\ eligible /\ ~window
        /\ event' = [event EXCEPT ![e].due = FALSE]
        /\ UNCHANGED dispatcher
     \/ /\ e \in FollowUps => eligible /\ window
        /\ becomes("selected") /\ UNCHANGED event
  /\ UNCHANGED <<run, message, delivery, received, world, history>>

\* cancelEventIfPending, a statement of its own after the preflight's reads.
PreflightCancel(d) ==
  LET e == dispatcher[d].ev IN
  /\ dispatcher[d].pc = "cancelling"
  /\ event' = IF event[e].status = "PENDING"
              THEN [event EXCEPT ![e] = CancelRow(@)] ELSE event
  /\ dispatcher' = [dispatcher EXCEPT ![d] = DispatcherIdle]
  /\ UNCHANGED <<run, message, delivery, received, world, history>>

ClaimedRow(row, r) ==
  [row EXCEPT !.status = "PROCESSING", !.lock = r, !.due = FALSE,
              !.attempts = @ + 1]

\* The claim transaction of processOneEvent: the event moves to PROCESSING
\* and its STARTED run is created in the same step.
ClaimFor(d, r, attempt) ==
  LET e == dispatcher[d].ev IN
  /\ dispatcher[d].pc = "selected"
  /\ event[e].status = "PENDING"
  /\ e \in Handoffs => ~closed /\ human
  /\ FreshRun(r)
  /\ event' = [event EXCEPT ![e] = ClaimedRow(@, r)]
  /\ run' = [run EXCEPT ![r] = [ev |-> e, attempt |-> attempt,
                                status |-> "STARTED"]]
  /\ dispatcher' = [dispatcher EXCEPT ![d] =
       [pc |-> "dispatching", ev |-> e, run |-> r]]
  /\ UNCHANGED <<message, delivery, received, world, history>>

\* Mutation of ClaimEvent: the run is created with the attempt read before.
ClaimEventEarlyRead(d, r) == ClaimFor(d, r, event[dispatcher[d].ev].attempts)
ClaimEvent(d, r) == ClaimFor(d, r, event[dispatcher[d].ev].attempts + 1)

\* The same transaction when it claims nothing: another worker was first, or
\* preflightHandoffForDispatchTx cancels an alert nobody needs any more.
ClaimNothing(d) ==
  LET e == dispatcher[d].ev IN
  /\ dispatcher[d].pc = "selected"
  /\ \/ event[e].status # "PENDING" /\ UNCHANGED event
     \/ /\ event[e].status = "PENDING" /\ e \in Handoffs /\ (closed \/ ~human)
        /\ event' = [event EXCEPT ![e] = CancelRow(@)]
  /\ dispatcher' = [dispatcher EXCEPT ![d] = DispatcherIdle]
  /\ UNCHANGED <<run, message, delivery, received, world, history>>

\* provider.dispatch: the webhook reaches n8n, or it does not.
Dispatch(d) ==
  /\ dispatcher[d].pc = "dispatching"
  /\ \/ received' = received \cup {dispatcher[d].run}
     \/ UNCHANGED received
  /\ dispatcher' = [dispatcher EXCEPT ![d].pc = "dispatched"]
  /\ UNCHANGED <<rows, world, history>>

\* Attempts left: the test of decideAfterDispatch and decideStaleProcessing.
\* Mutation: one attempt too many.
ExhaustedLate(row) == row.attempts > MaxAttempts
Exhausted(row) == row.attempts >= MaxAttempts

\* The row decideAfterDispatch leaves after a failed dispatch.
FailedDispatchRow(row, retryable) ==
  [row EXCEPT !.status = IF ~retryable THEN "FAILED"
                         ELSE IF Exhausted(row) THEN "DEAD_LETTER"
                         ELSE "PENDING",
              !.lock = 0, !.stale = FALSE]

\* The event is still the one this dispatcher claimed.  Mutations: the lock is
\* not compared; only the attempt number is.
OwnsWithoutLock(d) ==
  LET row == event[dispatcher[d].ev] IN
  row.status = "PROCESSING" /\ row.attempts = run[dispatcher[d].run].attempt
OwnsByAttempt(d) ==
  event[dispatcher[d].ev].attempts = run[dispatcher[d].run].attempt
Owns(d) ==
  LET row == event[dispatcher[d].ev] IN
  /\ row.status = "PROCESSING"
  /\ row.attempts = run[dispatcher[d].run].attempt
  /\ row.lock = dispatcher[d].run

\* The record transaction of processOneEvent.  An accepted webhook only
\* annotates the run; a failure is applied while the event still carries
\* this dispatcher's lock.  A timeout reports failure for a webhook that
\* did reach n8n.
Record(d) ==
  LET r == dispatcher[d].run
      e == dispatcher[d].ev
  IN
  /\ dispatcher[d].pc = "dispatched"
  /\ \/ r \in received /\ UNCHANGED <<event, run>>
     \/ \E retryable \in BOOLEAN :
          /\ r \in received => retryable
          /\ IF Owns(d)
             THEN /\ event' = [event EXCEPT ![e] =
                                 FailedDispatchRow(@, retryable)]
                  /\ run' = CloseRun(r, "FAILED")
             ELSE UNCHANGED <<event, run>>
  /\ dispatcher' = [dispatcher EXCEPT ![d] = DispatcherIdle]
  /\ UNCHANGED <<message, delivery, received, world, history>>

\* The serverless invocation ends between two statements, or returns
\* without touching the event (no entitlement, n8n not ready).
DispatcherStops(d) ==
  /\ dispatcher[d].pc # "idle"
  /\ dispatcher' = [dispatcher EXCEPT ![d] = DispatcherIdle]
  /\ UNCHANGED store

------------------------------------------------------------------------------
\* resolveStaleFollowUpAction and resolveStaleHandoffAction.
StaleAction(e) ==
  LET rs == {delivery[e][x] : x \in Recipients} \ {"NONE"}
      failed == IF e \in FollowUps
                THEN event[e].msg # 0 /\ message[event[e].msg].status = "FAILED"
                ELSE "FAILED" \in rs
  IN  IF e \in FollowUps /\ ActionSent(e) THEN "sent"
      ELSE IF ~event[e].claimed THEN "none"
      ELSE IF failed THEN "failed"
      ELSE IF e \in Handoffs /\ rs = {"SENT"} THEN "sent"
      ELSE "ambiguous"

\* The events reclaimStaleProcessing looks for.  Mutation: those whose action
\* was claimed are left alone.
RecoverableUnclaimed(e) ==
  event[e].status = "PROCESSING" /\ event[e].stale /\ ~event[e].claimed
Recoverable(e) == event[e].status = "PROCESSING" /\ event[e].stale

\* decideStaleProcessing, after a cancellation mark.
StaleCancelled(e) ==
  StaleAction(e) = "none" /\ e \in FollowUps /\ event[e].mark
StaleStatus(e) ==
  CASE StaleCancelled(e) -> "CANCELLED"
    [] StaleAction(e) = "sent" -> "SUCCEEDED"
    [] StaleAction(e) = "failed" -> "FAILED"
    [] StaleAction(e) = "ambiguous" -> "DEAD_LETTER"
    [] OTHER -> IF Exhausted(event[e]) THEN "DEAD_LETTER" ELSE "PENDING"

RecoveredRow(e) ==
  LET finishes == \/ e \in FollowUps /\ StaleAction(e) = "sent"
                  \/ e \in Handoffs /\ StaleAction(e) # "none"
  IN [event[e] EXCEPT !.status = StaleStatus(e), !.lock = 0, !.stale = FALSE,
                      !.completed = @ \/ finishes]

\* One serializable transaction of reclaimStaleProcessing.
ReclaimStale(e) ==
  /\ Recoverable(e)
  /\ event' = [event EXCEPT ![e] = RecoveredRow(e)]
  /\ message' = IF StaleCancelled(e)
                THEN DiscardMessage(event[e].msg) ELSE message
  /\ run' = CloseRuns(e, event[e].attempts,
                      IF StaleStatus(e) \in {"CANCELLED", "SUCCEEDED"}
                      THEN "SUCCEEDED" ELSE "FAILED")
  /\ UNCHANGED <<delivery, received, world, history, dispatcher>>

\* What a retry writes: the action columns are left as they are.  Mutation:
\* they are cleared, so that the action runs again.
RetryRowClean(row) == [PendingRow EXCEPT !.due = TRUE, !.mark = row.mark]
RetryRow(row) ==
  [row EXCEPT !.status = "PENDING", !.attempts = 0, !.due = TRUE,
              !.lock = 0, !.stale = FALSE]

\* retryAutomationEvent
RetryEvent(e) ==
  /\ event[e].status \in {"FAILED", "DEAD_LETTER"}
  /\ event' = [event EXCEPT ![e] = RetryRow(@)]
  /\ UNCHANGED <<run, message, delivery, received, world, history, dispatcher>>

\* cancelAutomationEvent.
CancelEvent(e) ==
  /\ event[e].status = "PENDING"
  /\ event' = [event EXCEPT ![e] = CancelRow(@)]
  /\ UNCHANGED <<run, message, delivery, received, world, history, dispatcher>>

------------------------------------------------------------------------------
\* Time: nextAttemptAt passes, or a lock becomes older than
\* PROCESSING_STALE_MS.
BecomeDue(e) ==
  /\ event[e].status = "PENDING" /\ ~event[e].due
  /\ event' = [event EXCEPT ![e].due = TRUE]
  /\ UNCHANGED <<run, message, delivery, received, world, history, dispatcher>>

BecomeStale(e) ==
  /\ event[e].status = "PROCESSING" /\ ~event[e].stale
  /\ event' = [event EXCEPT ![e].stale = TRUE]
  /\ UNCHANGED <<run, message, delivery, received, world, history, dispatcher>>

DispatcherStep(d) ==
  \/ \E e \in Events : Preflight(d, e)
  \/ \E r \in Runs : ClaimEvent(d, r)
  \/ PreflightCancel(d) \/ ClaimNothing(d)
  \/ Dispatch(d) \/ Record(d) \/ DispatcherStops(d)
EventStep(e) ==
  \/ ReclaimStale(e) \/ RetryEvent(e) \/ CancelEvent(e)
  \/ BecomeDue(e) \/ BecomeStale(e)

(***************************************************************************)
(* The signed callback n8n posts when a workflow ends                      *)
(* (applyAutomationCallback in src/server/automation/callback.ts).  n8n is *)
(* not under this repository's control: for any run whose webhook it       *)
(* received it may report either outcome, at any time, more than once.     *)
(* The handler reads without a lock, decides, and applies its decision in  *)
(* a later transaction guarded by the attempt number.                      *)
(***************************************************************************)
CONSTANT Callbacks
VARIABLE callback

CallbackState == [pc : {"idle", "apply"}, run : {0} \cup Runs, ok : BOOLEAN]
CallbackIdle == [pc |-> "idle", run |-> 0, ok |-> FALSE]

CallbackTypeOK == callback \in [Callbacks -> CallbackState]
CallbackInit == callback = [c \in Callbacks |-> CallbackIdle]

\* Every ledger row of the handoff is SENT.  Mutation: one is enough.
SomeDelivered(e) == \E x \in Recipients : delivery[e][x] = "SENT"
AllDelivered(e) == /\ \E x \in Recipients : delivery[e][x] = "SENT"
                   /\ \A x \in Recipients : delivery[e][x] \in {"NONE", "SENT"}

\* canAcceptSuccessfulAutomationCallback.  Mutation: a reserved message is
\* enough for a follow-up.
AcceptReserved(e) ==
  IF e \in FollowUps THEN event[e].msg # 0
                     ELSE event[e].completed /\ AllDelivered(e)
CanAcceptSuccess(e) ==
  IF e \in FollowUps THEN ActionSent(e)
                     ELSE event[e].completed /\ AllDelivered(e)

------------------------------------------------------------------------------
\* The reads and the decision.  A run that is not STARTED is answered and
\* left alone; one of an attempt that is over is closed; a success whose
\* action has not been sent is refused.
ReadCallback(c, r, ok) ==
  LET e == run[r].ev
      current == event[e].status = "PROCESSING" /\ CurrentRun(r)
  IN
  /\ callback[c].pc = "idle" /\ r \in received
  /\ run[r].status = "STARTED"
  /\ \/ ~current /\ run' = CloseRun(r, "FAILED") /\ UNCHANGED callback
     \/ /\ current /\ (ok => CanAcceptSuccess(e))
        /\ callback' = [callback EXCEPT ![c] =
                          [pc |-> "apply", run |-> r, ok |-> ok]]
        /\ UNCHANGED run
  /\ UNCHANGED <<event, message, delivery, received, world, history>>

\* The guards of the transaction, under which it commits.  Mutation: that the
\* run was closed meanwhile is not noticed.
EventMatches(c) ==
  LET r == callback[c].run
      e == run[r].ev
  IN  /\ event[e].status = "PROCESSING" /\ event[e].attempts = run[r].attempt
      /\ (callback[c].ok /\ e \in Handoffs) => AllDelivered(e)
Matches(c) == EventMatches(c) /\ run[callback[c].run].status = "STARTED"

\* The transaction: event and run end together.  If the event moved on
\* nothing is applied; if only the run did the transaction rolls back.
ApplyCallback(c) ==
  LET r == callback[c].run
      e == run[r].ev
      outcome == IF callback[c].ok THEN "SUCCEEDED" ELSE "FAILED"
  IN
  /\ callback[c].pc = "apply"
  /\ IF Matches(c)
     THEN /\ event' = [event EXCEPT ![e] =
               [@ EXCEPT !.status = outcome, !.lock = 0, !.stale = FALSE]]
          /\ run' = CloseRun(r, outcome)
     ELSE UNCHANGED <<event, run>>
  /\ callback' = [callback EXCEPT ![c] = CallbackIdle]
  /\ UNCHANGED <<message, delivery, received, world, history>>

CallbackStops(c) ==
  /\ callback[c].pc # "idle"
  /\ callback' = [callback EXCEPT ![c] = CallbackIdle]
  /\ UNCHANGED store

CallbackStep(c) ==
  \/ \E r \in Runs, ok \in BOOLEAN : ReadCallback(c, r, ok)
  \/ ApplyCallback(c) \/ CallbackStops(c)
==============================================================================
