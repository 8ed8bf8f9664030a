----------------------------- MODULE AssistantTurn -----------------------------
(***************************************************************************)
(* The answers of the assistant in one conversation                        *)
(* (handleWhatsappAutomaticResponse, the POST of api/agent/chat) and the   *)
(* monthly quota they consume (consumeUsage and refundUsage of             *)
(* billing/rules.ts).  Each turn reads the conversation, takes a unit of   *)
(* the quota, calls the model, and sends the answer; the team takes,       *)
(* closes and gives back the conversation meanwhile, and the month ends.   *)
(***************************************************************************)
EXTENDS Naturals, FiniteSets

CONSTANTS
  WhatsappTurns, \* turns that answer a message of WhatsApp
  ChatTurns,     \* turns of the test chat of the panel
  Limit,         \* answers a month the plan includes
  Months,
  MaxActions     \* bound on what the team does

\* What the constants must be, for the instances of this module.
TurnAssumption ==
  Limit \in Nat /\ Months \in Nat \ {0} /\ MaxActions \in Nat

VARIABLES
  conversation, \* status and mode
  usage,        \* aiResponsesCount of each month
  month,
  turn,         \* the local state of the turns
  actions       \* what the team did so far, counted

vars == <<conversation, usage, month, turn, actions>>

Turns == WhatsappTurns \cup ChatTurns

\* Conversation, counters and turns keep their types.
TypeOK ==
  /\ conversation \in [status : {"OPEN", "PENDING", "CLOSED"}, mode : {"AI", "HUMAN"}]
  /\ usage \in [1 .. Months -> Nat] /\ month \in 1 .. Months
  /\ actions \in 0 .. MaxActions
  /\ turn \in [Turns -> [pc : {"new", "quota", "model", "refund", "attention",
                               "check", "send", "replied", "silent"},
                         period : 0 .. Months, refunded : BOOLEAN,
                         derived : BOOLEAN, taken : BOOLEAN]]

Init ==
  /\ conversation = [status |-> "OPEN", mode |-> "AI"]
  /\ usage = [m \in 1 .. Months |-> 0] /\ month = 1
  /\ turn = [t \in Turns |-> [pc |-> "new", period |-> 0, refunded |-> FALSE,
                              derived |-> FALSE, taken |-> FALSE]]
  /\ actions = 0

\* A turn that needs a person asks for one on WhatsApp, and ends in the chat.
Unanswered(t) == IF t \in WhatsappTurns THEN "attention" ELSE "silent"
Goes(t, pc) == turn' = [turn EXCEPT ![t].pc = pc]

------------------------------------------------------------------------------
\* The gates: access, the conversation, the settings of the agent.  A model that
\* is not configured asks for a person before the conversation is looked at.
Gates(t) ==
  /\ turn[t].pc = "new"
  /\ \/ Goes(t, Unanswered(t))
     \/ Goes(t, "silent")
     \/ /\ conversation.mode = "AI" /\ conversation.status # "CLOSED"
        /\ Goes(t, "quota")
  /\ UNCHANGED <<conversation, usage, month, actions>>

\* incrementIfBelow: one statement that counts below the limit.
\* Mutation: a counter at the limit still counts.
UpTo == usage[month] <= Limit
Below == usage[month] <= Limit - 1

\* Mutation: an answer the quota denies is given back like a failed one.
GivesBack(t) == Goes(t, "refund")
Denied(t) == Goes(t, Unanswered(t))

\* consumeUsage: a unit of the month, before the model is called.
Consumes(t) ==
  /\ turn[t].pc = "quota"
  /\ IF Below
     THEN /\ usage' = [usage EXCEPT ![month] = @ + 1]
          /\ turn' = [turn EXCEPT ![t].pc = "model", ![t].period = month]
     ELSE Denied(t) /\ UNCHANGED usage
  /\ UNCHANGED <<conversation, month, actions>>

\* The model fails, or answers.
Answers(t) == Goes(t, IF t \in WhatsappTurns THEN "check" ELSE "send")
Fails(t) == Goes(t, "refund")
Runs(t) ==
  /\ turn[t].pc = "model"
  /\ Fails(t) \/ Answers(t)
  /\ UNCHANGED <<conversation, usage, month, actions>>

\* A tool of the agent derives the conversation to the team during the run.
Derives(t) ==
  /\ turn[t].pc = "model" /\ ~turn[t].derived /\ conversation.status # "CLOSED"
  /\ conversation' = [conversation EXCEPT !.mode = "HUMAN"]
  /\ turn' = [u \in Turns |->
       IF u = t THEN [turn[u] EXCEPT !.derived = TRUE]
       ELSE [turn[u] EXCEPT !.taken = @ \/ turn[u].pc \in {"quota", "model"}]]
  /\ UNCHANGED <<usage, month, actions>>

\* refundUsage: the unit goes back to the month that runs when the model fails.
Refunds(t) ==
  /\ turn[t].pc = "refund"
  /\ usage' = IF usage[month] >= 1 THEN [usage EXCEPT ![month] = @ - 1] ELSE usage
  /\ turn' = [turn EXCEPT ![t].pc = Unanswered(t), ![t].refunded = TRUE]
  /\ UNCHANGED <<conversation, month, actions>>

\* markConversationNeedsHumanAttention, whatever the conversation says by now.
\* Mutation: with the status of the automations.
WaitsForTeam == [conversation EXCEPT !.status = "WAITING"]
Attended == [conversation EXCEPT !.status = "PENDING"]
NeedsAttention(t) ==
  /\ turn[t].pc = "attention"
  /\ conversation' = Attended
  /\ Goes(t, "silent")
  /\ UNCHANGED <<usage, month, actions>>

\* The conversation is read again after the model has answered: one that was
\* closed, or taken by somebody else, gets nothing.
\* Mutation: only the status is read again.
StillOpen(t) == conversation.status # "CLOSED"
StillMine(t) ==
  /\ conversation.status # "CLOSED"
  /\ conversation.mode = "AI" \/ turn[t].derived
Checks(t) ==
  /\ turn[t].pc = "check"
  /\ Goes(t, IF StillMine(t) THEN "send" ELSE "silent")
  /\ UNCHANGED <<conversation, usage, month, actions>>

\* The answer is sent, or saved in the chat; a conversation that was closed
\* meanwhile, or whose message is not delivered, needs a person.
Sends(t) ==
  /\ turn[t].pc = "send"
  /\ \/ Goes(t, "replied") /\ (t \in WhatsappTurns => conversation.status # "CLOSED")
     \/ Goes(t, "attention") /\ t \in WhatsappTurns
  /\ UNCHANGED <<conversation, usage, month, actions>>

\* The process dies, or a write fails.
Stops(t) ==
  /\ turn[t].pc \notin {"new", "replied", "silent"}
  /\ Goes(t, "silent")
  /\ UNCHANGED <<conversation, usage, month, actions>>

------------------------------------------------------------------------------
MonthEnds ==
  /\ month < Months
  /\ month' = month + 1
  /\ UNCHANGED <<conversation, usage, turn, actions>>

Acts == actions < MaxActions /\ actions' = actions + 1

\* takeConversation: whoever is answering no longer should.
Takes ==
  /\ Acts
  /\ conversation.mode = "AI" /\ conversation.status # "CLOSED"
  /\ conversation' = [conversation EXCEPT !.mode = "HUMAN"]
  /\ turn' = [t \in Turns |->
       [turn[t] EXCEPT !.taken = @ \/ turn[t].pc \in {"quota", "model"}]]
  /\ UNCHANGED <<usage, month>>

\* returnConversationToAI: and now it may.
Returns ==
  /\ Acts
  /\ conversation.mode = "HUMAN"
  /\ conversation' = [conversation EXCEPT !.mode = "AI"]
  /\ turn' = [t \in Turns |-> [turn[t] EXCEPT !.taken = FALSE]]
  /\ UNCHANGED <<usage, month>>

\* setConversationStatus.
SetsStatus(status) ==
  /\ Acts
  /\ conversation.status # status
  /\ conversation' = [conversation EXCEPT !.status = status]
  /\ UNCHANGED <<usage, month, turn>>

Next ==
  \/ \E t \in Turns :
       \/ Gates(t) \/ Consumes(t) \/ Runs(t) \/ Derives(t) \/ Refunds(t)
       \/ NeedsAttention(t) \/ Checks(t) \/ Sends(t) \/ Stops(t)
  \/ MonthEnds \/ Takes \/ Returns
  \/ \E status \in {"OPEN", "PENDING", "CLOSED"} : SetsStatus(status)

Spec == Init /\ [][Next]_vars

------------------------------------------------------------------------------
In(m) == {t \in Turns : turn[t].period = m}

\* Concurrent turns never get more answers out of a month than the plan includes.
WithinPlan ==
  \A m \in 1 .. Months : Cardinality({t \in In(m) : turn[t].pc = "replied"}) <= Limit

\* What the code says of a failure of the model: it consumes nothing of the plan.
\* A month counts the turns it let run, less those that gave their unit back.
FailuresFree ==
  \A m \in 1 .. Months : usage[m] = Cardinality({t \in In(m) : ~turn[t].refunded})

\* Whoever takes a conversation while the model works is not talked over: the
\* automatic answer to WhatsApp is not sent.
NotTalkedOverStep ==
  \A t \in WhatsappTurns :
    turn[t].pc # "replied" /\ turn'[t].pc = "replied" =>
      turn[t].derived \/ ~turn[t].taken
NotTalkedOver == [][NotTalkedOverStep]_vars

\* What setConversationStatus says of itself: to close a conversation and to open
\* it again is something the team does there.
ReopenedByTeam ==
  [][conversation.status = "CLOSED" /\ conversation'.status # "CLOSED"
       => actions' # actions]_vars
==============================================================================
