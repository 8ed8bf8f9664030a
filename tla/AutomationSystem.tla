--------------------------- MODULE AutomationSystem ---------------------------
(***************************************************************************)
(* The automation subsystem: dispatchers, recovery and administration      *)
(* and n8n's callbacks (DispatchQueue), the follow-up action               *)
(* (FollowUpAction), the handoff alert action (HandoffAlert) and the       *)
(* conversation they all depend on (Conversation), over the same rows.     *)
(* They share nothing else: every process is a serverless invocation.      *)
(***************************************************************************)
EXTENDS TLC, DispatchQueue, FollowUpAction, HandoffAlert, Conversation

vars == <<store, dispatcher, handler, alerter, callback, gate>>

Init == StoreInit /\ QueueInit /\ ActionInit /\ AlertInit /\ CallbackInit
          /\ GateInit

\* A reservation updates the conversation row: it waits for the transaction
\* that holds it.
RowFree(h) == (gate # "none" /\ handler[h].pc = "idle") => message' = message

Next ==
  \/ /\ \E d \in Dispatchers : DispatcherStep(d)
     /\ UNCHANGED <<handler, alerter, callback, gate>>
  \/ /\ \E e \in Events : EventStep(e)
     /\ UNCHANGED <<handler, alerter, callback, gate>>
  \/ /\ \E h \in Handlers : ActionStep(h) /\ RowFree(h)
     /\ UNCHANGED <<dispatcher, alerter, callback, gate>>
  \/ /\ \E a \in Alerters : AlerterStep(a)
     /\ UNCHANGED <<dispatcher, handler, callback, gate>>
  \/ /\ \E e \in Handoffs : AlreadySent(e)
     /\ UNCHANGED <<dispatcher, handler, callback, gate>>
  \/ /\ \E c \in Callbacks : CallbackStep(c)
     /\ UNCHANGED <<dispatcher, handler, alerter, gate>>
  \/ /\ ConversationStep
     /\ UNCHANGED <<dispatcher, handler, alerter, callback>>

Spec == Init /\ [][Next]_vars

TypeOK == StoreTypeOK /\ QueueTypeOK /\ ActionTypeOK /\ AlertTypeOK
            /\ CallbackTypeOK /\ GateTypeOK

(***************************************************************************)
(* What must hold of the automation subsystem, and the bounds and fairness *)
(* under which it is checked.                                              *)
(***************************************************************************)

Live == {"PENDING", "PROCESSING"}
Finished == {"SUCCEEDED", "CANCELLED"}

------------------------------------------------------------------------------
(* Follow-ups. *)

\* The provider accepts at most one message per follow-up, whatever is
\* repeated, retried by an administrator, recovered after a crash or run
\* twice at once (claimFollowUpDeliveryOnce, reclaimStaleProcessing).
AtMostOneSend == \A e \in FollowUps : sends[e] <= 1

\* A follow-up shown as SUCCEEDED did reach WhatsApp: no callback, late or
\* repeated, and no recovery can report a success for an attempt that sent
\* nothing (canAcceptSuccessfulAutomationCallback, resolveStaleFollowUpAction).
SucceededWasSent ==
  \A e \in FollowUps : event[e].status = "SUCCEEDED" => sends[e] = 1

\* Two follow-ups of a conversation never wait to be sent at once: the next
\* one is born only after the previous was committed to the provider
\* (scheduleFollowUpAfterOutbound).
OneLiveFollowUp ==
  \A e, f \in FollowUps :
    (/\ event[e].status \in Live /\ ~event[e].claimed
     /\ event[f].status \in Live /\ ~event[f].claimed) => e = f

\* A reserved message belongs to the follow-up it was written for and to no
\* other, also after a reschedule forgot it (reserveFollowUpMessageOnce).
MessageOwned ==
  \A e \in FollowUps : LET m == event[e].msg IN
    m # 0 => message[m].ev = e /\ message[m].status # "NONE"

\* The detailed system implements FollowUpOnce.
PhaseOf(e) ==
  IF sends[e] > 1 THEN "repeated"
  ELSE IF sends[e] = 1 THEN "handed"
  ELSE IF event[e].claimed THEN "committed"
  ELSE IF event[e].status = "ABSENT" THEN "unscheduled"
  ELSE "waiting"
Once == INSTANCE FollowUpOnce WITH
          Count <- MaxFollowUps,
          phase <- [e \in FollowUps |-> PhaseOf(e)],
          answered <- replied

\* Every behaviour of the queue, the action, the callbacks and the
\* conversation is one of the abstract specification.
ImplementsOnce == Once!OnceSpec

------------------------------------------------------------------------------
(* The queue. *)

\* No event is tried more often than maxAttempts between two decisions of an
\* administrator, although rescheduling gives attempts back (decideAfterDispatch,
\* decideStaleProcessing, reprogramProcessingEvent).
AttemptsBudget ==
  \A e \in Events :
    /\ event[e].attempts <= MaxAttempts
    /\ event[e].status = "PENDING" => event[e].attempts < MaxAttempts

\* An event being processed always has a STARTED run of its attempt, so the
\* workflow that got it can still report: no stale callback, recovery or
\* delayed transaction of an earlier attempt closes the run of this one.
ProcessingHasRun ==
  \A e \in Events : event[e].status = "PROCESSING" =>
    \E r \in Runs : run[r].ev = e /\ CurrentRun(r)

\* SUCCEEDED and CANCELLED are final, and only the administrator's retry takes
\* an event out of FAILED or DEAD_LETTER, with its attempts back to 0: a
\* dispatcher or callback that answers late never rewrites the outcome.
FinalIsFinal ==
  [][\A e \in Events :
       /\ event[e].status \in Finished => event'[e].status = event[e].status
       /\ event[e].status \in {"FAILED", "DEAD_LETTER"} =>
            \/ event'[e].status = event[e].status
            \/ event'[e].status = "PENDING" /\ event'[e].attempts = 0]_vars

\* An event that ends SUCCEEDED, FAILED or DEAD_LETTER ends together with the
\* run of its own attempt, and the two agree: a callback of one attempt never
\* decides another one that reuses its number (applyAutomationCallback,
\* processOneEvent, reclaimStaleProcessing).
OutcomesAgree ==
  [][\A e \in Events :
       (/\ event[e].status = "PROCESSING"
        /\ event'[e].status \in {"SUCCEEDED", "FAILED", "DEAD_LETTER"}) =>
       \E r \in Runs :
         /\ run[r].ev = e /\ CurrentRun(r)
         /\ run'[r].status = IF event'[e].status = "SUCCEEDED"
                             THEN "SUCCEEDED" ELSE "FAILED"]_vars

------------------------------------------------------------------------------
(* Handoff alerts. *)

\* Nobody is alerted twice of the same handoff (claimHandoffAlertAction).
AlertOnce == \A e \in Handoffs, x \in Recipients : alerts[e][x] <= 1

\* A handoff shown as SUCCEEDED alerted every recipient of the rule
\* (resolveStaleHandoffAction, canAcceptSuccessfulAutomationCallback).
SucceededAlertedAll ==
  \A e \in Handoffs : event[e].status = "SUCCEEDED" =>
    \A x \in Recipients : alerts[e][x] = 1

\* While the alerts of its first attempt are being sent a handoff is not put
\* back in the queue: the claim renewed the lock, so a dispatcher whose webhook
\* timed out no longer owns the event, and recovery never repeats a claimed
\* action (claimHandoffAlertAction, processOneEvent, reclaimStaleProcessing).
NoRequeueWhileAlerting ==
  [][\A a \in Alerters : LET e == alerter[a].ev IN
       (/\ alerter[a].pc # "idle" /\ event[e].status = "PROCESSING"
        /\ \A r \in Runs : run[r].ev = e => run[r].status = "STARTED")
         => event'[e].status # "PENDING"]_vars

------------------------------------------------------------------------------
(* Liveness. *)

\* Time passes and the external scheduler keeps calling the batch
\* (api/automation/dispatch, n8n/SETUP.md), so due events are looked at and
\* stale ones recovered.  An invocation may be cut off any number of times but
\* not always at the same statement: strong fairness of the statements of a
\* dispatcher.  Nothing is assumed of n8n, of the provider, of the handlers or
\* of the people.
notQueue == <<handler, alerter, callback, gate>>
QueueFairness ==
  /\ \A e \in Events : WF_vars(BecomeDue(e) /\ UNCHANGED notQueue)
  /\ \A e \in Events : WF_vars(BecomeStale(e) /\ UNCHANGED notQueue)
  /\ \A e \in Events : WF_vars(ReclaimStale(e) /\ UNCHANGED notQueue)
  /\ \A d \in Dispatchers :
       /\ \A e \in Events :
            SF_vars(Preflight(d, e) /\ UNCHANGED notQueue)
       /\ SF_vars(PreflightCancel(d) /\ UNCHANGED notQueue)
       /\ SF_vars((ClaimNothing(d) \/ \E r \in Runs : ClaimEvent(d, r))
                  /\ UNCHANGED notQueue)
       /\ WF_vars(DispatcherStops(d) /\ UNCHANGED notQueue)
FairSpec == Spec /\ QueueFairness

\* Every event that is waiting or being processed is settled sooner or later,
\* although n8n may never answer, unless the bound on claims was used up.
Settles ==
  \A e \in Events :
    event[e].status \in Live ~>
      (event[e].status \notin Live \/ \A r \in Runs : run[r].status # "NONE")

(***************************************************************************)
(* The inductive invariant behind the theorems on types and sends.  The    *)
(* duplicated requests of n8n are harmless because of one chain of facts:  *)
(* whoever reaches the provider was the only one to claim the event, a     *)
(* claimed event is never claimed again, and what a message or a callback  *)
(* knows of a send stays true.                                             *)
(***************************************************************************)

Reserving == {"reserved", "deliver", "sending", "accepted", "refused",
              "schedule", "completing"}
Sending == {"deliver", "sending"}

------------------------------------------------------------------------------
(* What every process knows of the rows it works on. *)

Numbered(row) ==
  /\ row.status = "PROCESSING" => row.attempts # 0
  /\ row.attempts <= MaxAttempts
  /\ row.status = "PENDING" => row.attempts < MaxAttempts
Counted == \A e \in Events : Numbered(event[e])
RunsKnown == \A r \in Runs : run[r].status # "NONE" => run[r].ev \in Events
DispatchersKnow == \A d \in Dispatchers : dispatcher[d].pc # "idle" =>
  /\ dispatcher[d].ev \in Events
  /\ dispatcher[d].pc \in {"dispatching", "dispatched"} =>
       dispatcher[d].run \in Runs
HandlersKnow == \A h \in Handlers : handler[h].pc # "idle" =>
  /\ handler[h].ev \in FollowUps /\ handler[h].run \in Runs
  /\ handler[h].pc \in Reserving => handler[h].msg \in Messages
CallbacksKnow == \A c \in Callbacks : callback[c].pc = "apply" =>
  /\ callback[c].run \in Runs
  /\ run[callback[c].run].status # "NONE"
AlertersKnow == \A a \in Alerters : alerter[a].pc # "idle" =>
  alerter[a].ev \in Handoffs

TypeInv == /\ TypeOK /\ Counted /\ RunsKnown /\ DispatchersKnow
           /\ HandlersKnow /\ CallbacksKnow /\ AlertersKnow

------------------------------------------------------------------------------
(* The chain from the claim to the send. *)

\* Nothing is sent before the event is claimed, nor scheduled claimed.
ClaimedFirst == \A e \in FollowUps :
  /\ ~event[e].claimed => sends[e] = 0
  /\ event[e].status = "ABSENT" => ~event[e].claimed

\* A handler between its claim and the provider's answer is the only one of
\* its event, and nothing was sent yet.
SenderAlone ==
  /\ \A h \in Handlers : handler[h].pc \in Sending =>
       event[handler[h].ev].claimed /\ sends[handler[h].ev] = 0
  /\ \A g, h \in Handlers :
       (/\ g # h /\ handler[g].pc \in Sending
        /\ handler[h].pc \in Sending) => handler[g].ev # handler[h].ev

\* The message a handler works on is one of its event.
HandlersOwn == \A h \in Handlers : handler[h].pc \in Reserving =>
  /\ message[handler[h].msg].status # "NONE"
  /\ message[handler[h].msg].ev = handler[h].ev

\* What is known of a send: by a handler that got the answer, by a message,
\* by a callback that is about to report a success.
SendsKnown ==
  /\ \A h \in Handlers : handler[h].pc = "accepted" => sends[handler[h].ev] # 0
  /\ \A m \in Messages : message[m].status = "SENT" =>
       message[m].ev \in FollowUps /\ sends[message[m].ev] # 0
  /\ \A c \in Callbacks :
       (/\ callback[c].pc = "apply" /\ callback[c].ok
        /\ run[callback[c].run].ev \in FollowUps) =>
       sends[run[callback[c].run].ev] # 0

\* The inductive invariant: a duplicated, delayed or repeated request never
\* leaves the states from which a follow-up is sent at most once and reported
\* as SUCCEEDED only if it was (executeFollowUpAction, applyAutomationCallback,
\* reclaimStaleProcessing).
SendInv == /\ ClaimedFirst /\ SenderAlone /\ HandlersOwn /\ MessageOwned
           /\ SendsKnown /\ AtMostOneSend /\ SucceededWasSent

------------------------------------------------------------------------------
(* The chain from the claim to the outcome. *)

\* A request works on a run of its own event, so that whatever it closes is not
\* the run of another one.
RequestsOwn ==
  /\ \A d \in Dispatchers : dispatcher[d].pc \in {"dispatching", "dispatched"} =>
       /\ run[dispatcher[d].run].ev = dispatcher[d].ev
       /\ run[dispatcher[d].run].status # "NONE"
  /\ \A h \in Handlers : handler[h].pc # "idle" =>
       /\ run[handler[h].run].ev = handler[h].ev
       /\ run[handler[h].run].status # "NONE"

\* While an event carries the lock of a claim, the run of that claim is its
\* current one: the lock tells the dispatcher what only the run knows.
LockNamesRun == \A e \in Events :
  (event[e].status = "PROCESSING" /\ event[e].lock \in Runs) =>
    run[event[e].lock].ev = e /\ CurrentRun(event[e].lock)

\* The inductive invariant: whoever closes the run of an event being processed
\* moves the event in the same transaction (processOneEvent,
\* reclaimStaleProcessing, applyAutomationCallback, invalidateProcessingEvent).
RunInv == RequestsOwn /\ LockNamesRun /\ ProcessingHasRun

------------------------------------------------------------------------------
(* The chain from the claim of a handoff to its alerts. *)

\* The ledger exists from the claim on, nobody was alerted before it, and a
\* recipient whose row is SENT was alerted.
LedgerKnown == \A e \in Handoffs :
  /\ event[e].status = "ABSENT" => ~event[e].claimed
  /\ \A x \in Recipients :
       /\ ~event[e].claimed => delivery[e][x] = "NONE" /\ alerts[e][x] = 0
       /\ event[e].claimed => delivery[e][x] # "NONE"
       /\ delivery[e][x] = "SENT" => alerts[e][x] # 0

\* Who is sending the alerts of a handoff is alone, and knows whom it alerted.
AlerterAlone ==
  /\ \A a \in Alerters : alerter[a].pc # "idle" =>
       /\ event[alerter[a].ev].claimed
       /\ \A x \in Recipients : LET sent == alerts[alerter[a].ev][x] IN
            /\ alerter[a].outcome[x] = "NONE" => sent = 0
            /\ alerter[a].outcome[x] = "SENT" => sent # 0
  /\ \A a, b \in Alerters :
       (a # b /\ alerter[a].pc # "idle" /\ alerter[b].pc # "idle") =>
         alerter[a].ev # alerter[b].ev

\* A handoff whose alerts are being sent still has the renewed lock, or a run
\* of it has ended: the attempt that sends them is over.
LockRenewed == \A a \in Alerters : LET e == alerter[a].ev IN
  alerter[a].pc # "idle" =>
    \/ event[e].status = "PROCESSING" /\ event[e].lock = Renewed
    \/ \E r \in Runs : run[r].ev = e /\ run[r].status \in {"SUCCEEDED", "FAILED"}

\* The inductive invariant of the handoffs (claimHandoffAlertAction,
\* executeHandoffAlertAction, resolveStaleHandoffAction).
AlertInv == /\ LedgerKnown /\ AlerterAlone /\ LockRenewed
            /\ AlertOnce /\ SucceededAlertedAll

\* The handlers are interchangeable: nothing in the system names one of them.
HandlersAlike == Permutations(Handlers)
================================================================================
