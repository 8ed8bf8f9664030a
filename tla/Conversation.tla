----------------------------- MODULE Conversation -----------------------------
(***************************************************************************)
(* What happens to the conversation while its automation events are being  *)
(* processed: the customer replies (persistIncomingWhatsappMessage), an    *)
(* agent closes, takes, returns or reopens it (actions/conversations.ts),  *)
(* the assistant asks for a human (transitionHandoff in handoff.ts), the   *)
(* provider reports a sent message as failed (applyWhatsappStatus), and    *)
(* the rule's sending hours pass.                                          *)
(*                                                                         *)
(* Closing, taking and handing off run at READ COMMITTED and call          *)
(* cancelPendingFollowUpsTx, whose two UPDATE statements each see what was *)
(* committed when they start.  The first one locks the rows it cancels, so *)
(* they are shown as cancelled at once; the second, the conversation row   *)
(* and the commit are the second step.  The transaction holds the          *)
(* conversation row from its first statement: gate.                        *)
(***************************************************************************)
EXTENDS AutomationStore

CONSTANT Gates    \* bound: which of these happen in an instance
VARIABLE gate     \* the transaction that holds the conversation row

GateKinds == {"none", "close", "take", "handoff"}
GateTypeOK == gate \in GateKinds
GateInit == gate = "none"

ASSUME GatesAssumption ==
  Gates \subseteq {"close", "take", "handoff", "reply", "status", "hours"}

Unmoved == <<run, message, delivery, received, history>>

------------------------------------------------------------------------------
\* setConversationStatus(CLOSED), takeConversation and transitionHandoff.
GateBegin(g) ==
  /\ g \in Gates \cap {"close", "take", "handoff"}
  /\ gate = "none" /\ ~closed
  /\ g = "handoff" => ~human
  /\ gate' = g
  /\ event' = CancelPending(event)
  /\ UNCHANGED <<world, Unmoved>>

\* A handoff writes its event in the same transaction, or falls back to one
\* without it; an event for a paused rule is born cancelled.
NextHandoff(e) ==
  /\ e \in Handoffs /\ event[e].status = "ABSENT"
  /\ \A f \in Handoffs : f < e => event[f].status # "ABSENT"

GateCommit ==
  /\ gate # "none"
  /\ gate' = "none"
  /\ closed' = (closed \/ gate = "close")
  /\ human' = (human \/ gate \in {"take", "handoff"})
  /\ \/ event' = MarkProcessing(event)
     \/ \E e \in Handoffs :
          /\ gate = "handoff" /\ NextHandoff(e)
          /\ \E row \in {[PendingRow EXCEPT !.due = TRUE],
                         CancelRow(PendingRow)} :
               event' = [MarkProcessing(event) EXCEPT ![e] = row]
  /\ UNCHANGED <<replied, window, Unmoved>>

\* setConversationStatus(OPEN) and returnConversationToAI.
Reopen ==
  /\ gate = "none" /\ closed
  /\ closed' = FALSE
  /\ UNCHANGED <<event, replied, human, window, gate, Unmoved>>
ReturnToAI ==
  /\ gate = "none" /\ human
  /\ human' = FALSE
  /\ UNCHANGED <<event, replied, closed, window, gate, Unmoved>>

\* persistIncomingWhatsappMessage, serializable.  A message to a closed
\* conversation opens another one and does not touch this.
CustomerReply ==
  /\ "reply" \in Gates
  /\ gate = "none" /\ ~closed /\ ~replied
  /\ replied' = TRUE
  /\ event' = CancelFollowUps(event)
  /\ UNCHANGED <<closed, human, window, gate, Unmoved>>

\* applyWhatsappStatus: the provider takes back a message it accepted.
StatusFailed(m) ==
  /\ "status" \in Gates
  /\ message[m].status = "SENT"
  /\ message' = [message EXCEPT ![m].status = "FAILED"]
  /\ UNCHANGED <<event, run, delivery, received, history, world, gate>>

\* The sending hours (or the delay after a change of the rule) open and close.
HoursPass ==
  /\ "hours" \in Gates
  /\ window' = ~window
  /\ UNCHANGED <<event, replied, closed, human, gate, Unmoved>>

ConversationStep ==
  \/ \E g \in GateKinds : GateBegin(g)
  \/ GateCommit \/ Reopen \/ ReturnToAI \/ CustomerReply \/ HoursPass
  \/ \E m \in Messages : StatusFailed(m)
==============================================================================
