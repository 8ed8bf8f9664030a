--------------------------- MODULE AutomationStore ---------------------------
(***************************************************************************)
(* The PostgreSQL rows of one organization and one WhatsApp conversation   *)
(* that the automation code reads and writes (prisma/schema.prisma):       *)
(* AutomationEvent, AutomationRun, the action Message of a follow-up and   *)
(* the AutomationActionDelivery rows of a handoff alert, with the state of *)
(* the conversation they depend on.  Every other automation module EXTENDS *)
(* this one and adds the processes that work on the rows.                  *)
(*                                                                         *)
(* Follow-up f is the f-th follow-up of the conversation: f + 1 is         *)
(* scheduled by the successful send of f.  A row that does not exist yet   *)
(* has status ABSENT.  Timestamps are reduced to what the code compares:   *)
(*   lock   lockedAt; every claim writes a new one, so it is named by the  *)
(*          run the claim creates (0: null; Renewed: the value a handoff   *)
(*          action writes when it starts sending);                         *)
(*   stale  lockedAt is older than PROCESSING_STALE_MS;                    *)
(*   due    nextAttemptAt is null or in the past, read only while PENDING. *)
(***************************************************************************)
EXTENDS Naturals, FiniteSets

CONSTANTS
  MaxFollowUps,   \* maxFollowUps of the FOLLOW_UP rule
  MaxHandoffs,    \* bound: handoff_requested events of the conversation
  Recipients,     \* phones the HANDOFF_ALERT rule notifies
  MaxAttempts,    \* maxAttempts of every event
  MaxClaims,      \* bound: claims, hence automation runs
  MaxMessages     \* bound: action messages reserved

ASSUME BoundsAssumption ==
  /\ MaxFollowUps \in Nat
  /\ MaxHandoffs \in Nat
  /\ MaxAttempts \in Nat \ {0}
  /\ MaxClaims \in Nat
  /\ MaxMessages \in Nat

VARIABLES
  event,      \* AutomationEvent rows
  run,        \* AutomationRun rows
  message,    \* the messages follow-ups reserve and deliver
  delivery,   \* AutomationActionDelivery rows, by handoff and recipient
  received,   \* runs whose webhook reached n8n
  replied,    \* the customer wrote after the first outbound message
  closed,     \* the conversation is CLOSED
  human,      \* handlingMode is HUMAN (and humanTakeoverAt is set)
  window,     \* delay elapsed and inside the rule's sending hours
  sends,      \* history: messages of each follow-up the provider accepted
  alerts      \* history: alerts each recipient was sent per handoff

rows    == <<event, run, message, delivery>>
world   == <<replied, closed, human, window>>
history == <<sends, alerts>>
store   == <<event, run, message, delivery, received, replied, closed, human,
             window, sends, alerts>>

FollowUps == 1 .. MaxFollowUps
Handoffs  == (MaxFollowUps + 1) .. (MaxFollowUps + MaxHandoffs)
Events    == FollowUps \cup Handoffs
Runs      == 1 .. MaxClaims
Messages  == 1 .. MaxMessages
Renewed   == MaxClaims + 1

EventStatus == {"ABSENT", "PENDING", "PROCESSING", "SUCCEEDED", "FAILED",
                "DEAD_LETTER", "CANCELLED"}
EventRow == [status : EventStatus, attempts : Nat, lock : 0 .. Renewed,
             stale : BOOLEAN, due : BOOLEAN, mark : BOOLEAN,
             msg : {0} \cup Messages, claimed : BOOLEAN, completed : BOOLEAN]
RunRow == [ev : {0} \cup Events, attempt : Nat,
           status : {"NONE", "STARTED", "SUCCEEDED", "FAILED"}]
MessageRow == [ev : {0} \cup FollowUps, claimed : BOOLEAN,
               status : {"NONE", "PENDING", "SENT", "FAILED"}]
DeliveryStatus == {"NONE", "PROCESSING", "SENT", "FAILED"}

\* The rows have the types of the Prisma schema and the counters count.
StoreTypeOK ==
  /\ event \in [Events -> EventRow]
  /\ run \in [Runs -> RunRow]
  /\ message \in [Messages -> MessageRow]
  /\ delivery \in [Handoffs -> [Recipients -> DeliveryStatus]]
  /\ received \subseteq Runs
  /\ replied \in BOOLEAN /\ closed \in BOOLEAN
  /\ human \in BOOLEAN /\ window \in BOOLEAN
  /\ sends \in [FollowUps -> Nat]
  /\ alerts \in [Handoffs -> [Recipients -> Nat]]

AbsentRow == [status |-> "ABSENT", attempts |-> 0, lock |-> 0, stale |-> FALSE,
              due |-> FALSE, mark |-> FALSE, msg |-> 0, claimed |-> FALSE,
              completed |-> FALSE]
PendingRow == [AbsentRow EXCEPT !.status = "PENDING"]

StoreInit ==
  /\ event = [e \in Events |-> IF e = 1 /\ 1 \in FollowUps
                               THEN PendingRow ELSE AbsentRow]
  /\ run = [r \in Runs |-> [ev |-> 0, attempt |-> 0, status |-> "NONE"]]
  /\ message = [m \in Messages |-> [ev |-> 0, claimed |-> FALSE,
                                  status |-> "NONE"]]
  /\ delivery = [e \in Handoffs |-> [x \in Recipients |-> "NONE"]]
  /\ received = {}
  /\ replied = FALSE /\ closed = FALSE /\ human = FALSE /\ window = TRUE
  /\ sends = [e \in FollowUps |-> 0]
  /\ alerts = [e \in Handoffs |-> [x \in Recipients |-> 0]]

------------------------------------------------------------------------------
(* Queries the handlers share. *)

\* The run is the one the event is executing: a STARTED run of its attempt.
CurrentRun(r) ==
  /\ run[r].status = "STARTED"
  /\ run[r].attempt = event[run[r].ev].attempts

\* deliveryStatus of the follow-up's action message in SENT, DELIVERED, READ.
ActionSent(e) == event[e].msg # 0 /\ message[event[e].msg].status = "SENT"

\* The message a follow-up answers is the one the previous follow-up sent.
SourceValid(e) == IF e = 1 THEN TRUE ELSE ActionSent(e - 1)
NewerOutbound(e) == \E f \in FollowUps : f > e /\ ActionSent(f)
SentCount == Cardinality({f \in FollowUps : ActionSent(f)})


\* Mutation of Eligible: the customer's answer is not looked for.
EligibleThoughAnswered(e) ==
  ~closed /\ ~human /\ SourceValid(e) /\ ~NewerOutbound(e)

\* decideFollowUpEligibility and the same questions of the preflight, without
\* the maximum, which the preflight skips for a message already reserved.
Eligible(e) ==
  ~closed /\ ~human /\ SourceValid(e) /\ ~replied /\ ~NewerOutbound(e)
BelowMaximum == SentCount < MaxFollowUps

\* Row identifiers are handed out in order: the next one not used yet.
FreshRun(r) ==
  run[r].status = "NONE" /\ \A q \in 1 .. (r - 1) : run[q].status # "NONE"
FreshMessage(m) ==
  /\ message[m].status = "NONE"
  /\ \A q \in 1 .. (m - 1) : message[q].status # "NONE"

\* Closing the STARTED runs of one attempt of an event.
CloseRuns(e, attempt, outcome) ==
  [r \in Runs |-> IF /\ run[r].ev = e
                     /\ run[r].attempt = attempt
                     /\ run[r].status = "STARTED"
                  THEN [run[r] EXCEPT !.status = outcome] ELSE run[r]]
CloseRun(r, outcome) ==
  [run EXCEPT ![r].status = IF @ = "STARTED" THEN outcome ELSE @]

\* A PENDING action message that will not be sent is marked FAILED.
DiscardMessage(m) ==
  IF m # 0 /\ message[m].status = "PENDING"
  THEN [message EXCEPT ![m].status = "FAILED"] ELSE message

CancelRow(row) == [row EXCEPT !.status = "CANCELLED", !.mark = TRUE,
                              !.due = FALSE, !.lock = 0, !.stale = FALSE]

\* The two statements of cancelPendingFollowUpsTx over a set of event rows.
CancelPending(rs) ==
  [e \in Events |-> IF e \in FollowUps /\ rs[e].status = "PENDING"
                    THEN CancelRow(rs[e]) ELSE rs[e]]
MarkProcessing(rs) ==
  [e \in Events |-> IF /\ e \in FollowUps
                       /\ rs[e].status = "PROCESSING"
                       /\ ~rs[e].claimed
                    THEN [rs[e] EXCEPT !.mark = TRUE] ELSE rs[e]]
CancelFollowUps(rs) == MarkProcessing(CancelPending(rs))
==============================================================================
