---------------------------- MODULE FollowUpAction ----------------------------
(***************************************************************************)
(* The signed follow-up action that n8n calls (executeFollowUpAction in    *)
(* src/server/automation/follow-up-action.ts) with the delivery it drives  *)
(* (deliverPreparedWhatsappMessage in src/server/whatsapp/outbound.ts) and *)
(* the follow-up it schedules next.  n8n may call it for any run whose     *)
(* webhook it received, at any time and more than once: each handler is a  *)
(* request being served.  A step is one statement or one serializable      *)
(* transaction; between two steps everything else may move.                *)
(*                                                                         *)
(* A handler remembers the request (ev, run), the message it reserved or   *)
(* read (msg) and the attempt number its two-statement transactions read   *)
(* (att).                                                                  *)
(***************************************************************************)
EXTENDS AutomationStore

CONSTANT Handlers
VARIABLE handler

HandlerState ==
  [pc : {"idle", "reserved", "invalidate", "invalidating", "reprogram",
         "reprogramming", "deliver", "sending", "accepted", "refused",
         "schedule", "completing"},
   ev : {0} \cup FollowUps, run : {0} \cup Runs, msg : {0} \cup Messages,
   att : Nat]
HandlerIdle == [pc |-> "idle", ev |-> 0, run |-> 0, msg |-> 0, att |-> 0]

ActionTypeOK == handler \in [Handlers -> HandlerState]
ActionInit == handler = [h \in Handlers |-> HandlerIdle]

GoTo(h, pc) == handler' = [handler EXCEPT ![h].pc = pc]
Finish(h) == handler' = [handler EXCEPT ![h] = HandlerIdle]
Others == <<delivery, received, world>>

------------------------------------------------------------------------------
\* A cancellation was requested for the event.  Mutation: it is not looked at.
NeverRequested(e) == FALSE
CancellationRequested(e) == event[e].mark

\* reserveFollowUpMessageOnce, when the run is current: a cancellation mark
\* wins; a message already reserved and not claimed is resumed; otherwise the
\* event is revalidated and a PENDING message reserved.  The other outcomes
\* (already sent, in progress, failed, not executable) answer and change
\* nothing.
Reserve(h, r) ==
  LET e == run[r].ev
      become(pc, m) == handler' = [handler EXCEPT ![h] =
                         [pc |-> pc, ev |-> e, run |-> r, msg |-> m, att |-> 0]]
      resumable == ~CancellationRequested(e)
      ready  == resumable /\ event[e].msg = 0 /\ event[e].status = "PROCESSING"
      passes == Eligible(e) /\ BelowMaximum
  IN
  /\ handler[h].pc = "idle" /\ r \in received
  /\ e \in FollowUps /\ CurrentRun(r)
  /\ \/ /\ CancellationRequested(e)
        /\ become("invalidate", 0) /\ UNCHANGED <<event, message>>
     \/ /\ resumable /\ event[e].msg # 0 /\ ~event[e].claimed
        /\ message[event[e].msg].status = "PENDING"
        /\ become("reserved", event[e].msg)
        /\ UNCHANGED <<event, message>>
     \/ /\ ready /\ ~passes
        /\ become("invalidate", 0) /\ UNCHANGED <<event, message>>
     \/ /\ ready /\ passes /\ ~window
        /\ become("reprogram", 0) /\ UNCHANGED <<event, message>>
     \/ \E m \in Messages :
          /\ ready /\ passes /\ window
          /\ FreshMessage(m)
          /\ message' = [message EXCEPT ![m] =
               [ev |-> e, claimed |-> FALSE, status |-> "PENDING"]]
          /\ event' = [event EXCEPT ![e].msg = m]
          /\ become("reserved", m)
  /\ UNCHANGED <<run, Others, history>>

\* The first statement of invalidateProcessingEvent and of
\* reprogramProcessingEvent (both run at READ COMMITTED): the row is read
\* while it is PROCESSING, not claimed, and the run is the current one.
ReadProcessing(h, from, to) ==
  LET e == handler[h].ev
      found == /\ event[e].status = "PROCESSING" /\ ~event[e].claimed
               /\ CurrentRun(handler[h].run)
  IN
  /\ handler[h].pc = from
  /\ IF found
     THEN handler' = [handler EXCEPT ![h] =
            [@ EXCEPT !.pc = to, !.msg = event[e].msg,
                      !.att = event[e].attempts]]
     ELSE Finish(h)
  /\ UNCHANGED store

\* The rest of either transaction: the guarded update of the event, with what
\* it read, then the message and the technical run.
WriteProcessing(h, from, row) ==
  LET e == handler[h].ev
      matches == /\ event[e].status = "PROCESSING" /\ ~event[e].claimed
                 /\ event[e].attempts = handler[h].att
  IN
  /\ handler[h].pc = from
  /\ IF matches
     THEN /\ event' = [event EXCEPT ![e] = row]
          /\ message' = DiscardMessage(handler[h].msg)
          /\ run' = CloseRun(handler[h].run, "SUCCEEDED")
     ELSE UNCHANGED <<event, message, run>>
  /\ Finish(h)
  /\ UNCHANGED <<Others, history>>

InvalidateRead(h)  == ReadProcessing(h, "invalidate", "invalidating")
InvalidateWrite(h) ==
  WriteProcessing(h, "invalidating", CancelRow(event[handler[h].ev]))

\* Rescheduling gives the attempt back and forgets the reserved message and
\* the cancellation mark.  Mutation: the attempt is given back twice.
ReprogrammedTwice(row) ==
  [row EXCEPT !.status = "PENDING", !.attempts = @ - 2, !.lock = 0,
              !.stale = FALSE, !.msg = 0, !.mark = FALSE]
ReprogrammedRow(row) ==
  [row EXCEPT !.status = "PENDING", !.attempts = @ - 1, !.lock = 0,
              !.stale = FALSE, !.msg = 0, !.mark = FALSE]
ReprogramRead(h)  == ReadProcessing(h, "reprogram", "reprogramming")
ReprogramWrite(h) ==
  WriteProcessing(h, "reprogramming", ReprogrammedRow(event[handler[h].ev]))

------------------------------------------------------------------------------
\* The reservation is still this handler's to send.  Mutation: that another
\* one claimed it is not looked at.
ExecutableTwice(h) ==
  LET e == handler[h].ev IN
  /\ event[e].msg = handler[h].msg /\ event[e].status = "PROCESSING"
  /\ message[handler[h].msg].status = "PENDING" /\ CurrentRun(handler[h].run)
Executable(h) ==
  LET e == handler[h].ev IN
  /\ event[e].msg = handler[h].msg /\ event[e].status = "PROCESSING"
  /\ ~event[e].claimed
  /\ message[handler[h].msg].status = "PENDING" /\ CurrentRun(handler[h].run)

\* claimFollowUpDeliveryOnce, the second claim right before the provider.
ClaimDelivery(h) ==
  LET e == handler[h].ev
      passes == Eligible(e) /\ BelowMaximum
  IN
  /\ handler[h].pc = "reserved"
  /\ \/ ~Executable(h) /\ Finish(h) /\ UNCHANGED event
     \/ /\ Executable(h) /\ (CancellationRequested(e) \/ ~passes)
        /\ GoTo(h, "invalidate") /\ UNCHANGED event
     \/ /\ Executable(h) /\ ~CancellationRequested(e) /\ passes /\ ~window
        /\ GoTo(h, "reprogram") /\ UNCHANGED event
     \/ /\ Executable(h) /\ ~CancellationRequested(e) /\ passes /\ window
        /\ event' = [event EXCEPT ![e].claimed = TRUE]
        /\ GoTo(h, "deliver")
  /\ UNCHANGED <<run, message, Others, history>>

\* deliverPreparedWhatsappMessage up to the provider call.  Its validation
\* errors come back to the action, which fails a message still PENDING.
Deliver(h) ==
  LET m == handler[h].msg
      valid == message[m].status = "PENDING" /\ ~message[m].claimed /\ ~closed
  IN
  /\ handler[h].pc = "deliver"
  /\ IF valid
     THEN /\ message' = [message EXCEPT ![m].claimed = TRUE]
          /\ GoTo(h, "sending")
     ELSE message' = DiscardMessage(m) /\ Finish(h)
  /\ UNCHANGED <<event, run, Others, history>>

\* The provider takes the message and says so, takes it and the answer is
\* lost (a timeout is reported as an error), or refuses it.
ProviderAnswers(h) ==
  LET e == handler[h].ev IN
  /\ handler[h].pc = "sending"
  /\ \/ /\ sends' = [sends EXCEPT ![e] = @ + 1]
        /\ GoTo(h, "accepted") \/ GoTo(h, "refused")
     \/ UNCHANGED sends /\ GoTo(h, "refused")
  /\ UNCHANGED <<rows, received, world, alerts>>

\* The result is written to the message; only a sent one schedules the next.
Persist(h) ==
  LET m == handler[h].msg IN
  /\ \/ /\ handler[h].pc = "accepted"
        /\ message' = [message EXCEPT ![m].status = "SENT"]
        /\ GoTo(h, "schedule")
     \/ /\ handler[h].pc = "refused"
        /\ message' = [message EXCEPT ![m].status = "FAILED"]
        /\ GoTo(h, "completing")
  /\ UNCHANGED <<event, run, Others, history>>

\* scheduleFollowUpAfterOutbound, serializable: the previous follow-ups of the
\* conversation are cancelled and the next one created, once per message.
Schedule(h) ==
  LET e == handler[h].ev
      wanted == /\ message[handler[h].msg].status = "SENT"
                /\ ~closed /\ ~human /\ ~replied /\ ~NewerOutbound(e)
                /\ BelowMaximum /\ e + 1 \in FollowUps
                /\ event[e + 1].status = "ABSENT"
  IN
  /\ handler[h].pc = "schedule"
  /\ event' = IF wanted
              THEN [CancelFollowUps(event) EXCEPT ![e + 1] = PendingRow]
              ELSE event
  /\ GoTo(h, "completing")
  /\ UNCHANGED <<run, message, Others, history>>

\* The closing update of executeFollowUpAction.
Complete(h) ==
  LET e == handler[h].ev IN
  /\ handler[h].pc = "completing"
  /\ event' = IF event[e].msg = handler[h].msg
              THEN [event EXCEPT ![e].completed = TRUE] ELSE event
  /\ Finish(h)
  /\ UNCHANGED <<run, message, Others, history>>

\* The invocation ends, or a statement fails, between two steps.
HandlerStops(h) ==
  /\ handler[h].pc # "idle"
  /\ Finish(h)
  /\ UNCHANGED store

ActionStep(h) ==
  \/ \E r \in Runs : Reserve(h, r)
  \/ InvalidateRead(h) \/ InvalidateWrite(h)
  \/ ReprogramRead(h) \/ ReprogramWrite(h)
  \/ ClaimDelivery(h) \/ Deliver(h) \/ ProviderAnswers(h) \/ Persist(h)
  \/ Schedule(h) \/ Complete(h) \/ HandlerStops(h)
==============================================================================
