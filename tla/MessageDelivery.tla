---------------------------- MODULE MessageDelivery ----------------------------
(***************************************************************************)
(* A message to a customer from the moment it is reserved until the last   *)
(* status the provider reports (whatsapp/outbound.ts, delivery.ts,         *)
(* applyWhatsappStatus of persistence.ts and retryWhatsappMessage).  The   *)
(* provider takes the message, or not, whatever the call answers; its      *)
(* statuses arrive repeated, in any order, and before the answer.  The     *)
(* conversation stays open, with the team, over a connected integration.   *)
(***************************************************************************)
EXTENDS Naturals, FiniteSets

CONSTANTS
  MaxMessages,
  Senders,      \* requests that deliver a message
  Webhooks,     \* requests that apply a status
  Provider      \* "META_CLOUD", or "YCLOUD" whose statuses name our message

\* What the constants must be, for the instances of this module.
DeliveryAssumption ==
  MaxMessages \in Nat /\ Provider \in {"META_CLOUD", "YCLOUD"}

VARIABLES
  message,      \* the rows: status, claim, identifier of the provider
  sender,       \* the local state of the requests that deliver
  webhook,      \* the local state of the requests that apply a status
  taken,        \* times the provider was given each message
  reported      \* statuses the provider reports of each message, for ever

vars == <<message, sender, webhook, taken, reported>>

Messages == 1 .. MaxMessages
Statuses == {"PENDING", "SENT", "DELIVERED", "READ", "FAILED"}
NoMessage == [status |-> "NONE", claimed |-> FALSE, external |-> FALSE, retryOf |-> 0]
Free == [pc |-> "idle", message |-> 0]
NoStatus == [message |-> 0, read |-> "NONE", next |-> "NONE"]

\* Rows and requests keep their types.
TypeOK ==
  /\ message \in [Messages -> [status : Statuses \cup {"NONE"}, claimed : BOOLEAN,
                               external : BOOLEAN, retryOf : 0 .. MaxMessages]]
  /\ sender \in [Senders -> [pc : {"idle", "claim", "call", "sent", "failed"},
                             message : 0 .. MaxMessages]]
  /\ webhook \in [Webhooks -> [message : 0 .. MaxMessages,
                               read : Statuses \cup {"NONE"}, next : Statuses \cup {"NONE"}]]
  /\ taken \in [Messages -> Nat]
  /\ reported \in [Messages -> SUBSET (Statuses \ {"PENDING"})]

Init ==
  /\ message = [m \in Messages |-> NoMessage]
  /\ sender = [s \in Senders |-> Free]
  /\ webhook = [w \in Webhooks |-> NoStatus]
  /\ taken = [m \in Messages |-> 0]
  /\ reported = [m \in Messages |-> {}]

NewMessage == CHOOSE m \in Messages : message[m].status = "NONE"
                                 /\ \A n \in 1 .. m - 1 : message[n].status # "NONE"
HasRoom == \E m \in Messages : message[m].status = "NONE"
\* Mutation: with the status of an event of the automations.
Queued(of) == [status |-> "PROCESSING", claimed |-> FALSE, external |-> FALSE, retryOf |-> of]
Reserved(of) == [status |-> "PENDING", claimed |-> FALSE, external |-> FALSE, retryOf |-> of]

------------------------------------------------------------------------------
\* sendWhatsappConversationMessage: the PENDING message is saved, and delivered
\* by the same request.
Sends(s) ==
  /\ sender[s].pc = "idle" /\ HasRoom
  /\ message' = [message EXCEPT ![NewMessage] = Reserved(0)]
  /\ sender' = [sender EXCEPT ![s] = [pc |-> "claim", message |-> NewMessage]]
  /\ UNCHANGED <<webhook, taken, reported>>

\* retryWhatsappMessage: a failed message is sent again as a new one.
Retries(s, m) ==
  /\ sender[s].pc = "idle" /\ HasRoom /\ message[m].status = "FAILED"
  /\ message' = [message EXCEPT ![NewMessage] = Reserved(m)]
  /\ sender' = [sender EXCEPT ![s] = [pc |-> "claim", message |-> NewMessage]]
  /\ UNCHANGED <<webhook, taken, reported>>

\* deliverPreparedWhatsappMessage finds a message that somebody reserved.
Prepares(s, m) ==
  /\ sender[s].pc = "idle" /\ message[m].status = "PENDING"
  /\ sender' = [sender EXCEPT ![s] = [pc |-> "claim", message |-> m]]
  /\ UNCHANGED <<message, webhook, taken, reported>>

\* Mutation: the claim of another request is not looked at.
Pending(m) == message[m].status = "PENDING"
Claimable(m) == message[m].status = "PENDING" /\ ~message[m].claimed

\* The claim, and the call that follows it; without it the request ends.
Claims(s) ==
  LET m == sender[s].message IN
  /\ sender[s].pc = "claim"
  /\ IF Claimable(m)
     THEN /\ message' = [message EXCEPT ![m].claimed = TRUE]
          /\ sender' = [sender EXCEPT ![s].pc = "call"]
     ELSE /\ sender' = [sender EXCEPT ![s] = Free]
          /\ UNCHANGED message
  /\ UNCHANGED <<webhook, taken, reported>>

\* Only an answer says that the message was taken: an error, a timeout or a lost
\* connection tell nothing.
Possible(took, pc) == pc = "sent" => took

\* One more text in the hands of the provider, when it takes it.
Given(m, took) == IF took THEN [taken EXCEPT ![m] = @ + 1] ELSE taken

\* The provider takes the message and the call answers, or fails all the same;
\* or the provider does not take it.
Calls(s) ==
  LET m == sender[s].message IN
  /\ sender[s].pc = "call"
  /\ \E took \in BOOLEAN, pc \in {"sent", "failed"} :
       /\ Possible(took, pc)
       /\ sender' = [sender EXCEPT ![s].pc = pc]
       /\ taken' = Given(m, took)
       /\ reported' = IF took THEN [reported EXCEPT ![m] = @ \cup {"SENT"}] ELSE reported
  /\ UNCHANGED <<message, webhook>>

\* The answer is recorded, whatever the row says by now.
Records(s) ==
  LET m == sender[s].message IN
  /\ sender[s].pc \in {"sent", "failed"}
  /\ message' = [message EXCEPT ![m] =
       IF sender[s].pc = "sent" THEN [@ EXCEPT !.status = "SENT", !.external = TRUE]
       ELSE [@ EXCEPT !.status = "FAILED"]]
  /\ sender' = [sender EXCEPT ![s] = Free]
  /\ UNCHANGED <<webhook, taken, reported>>

\* The process dies, or the write of the answer fails.
SenderStops(s) ==
  /\ sender[s].pc # "idle"
  /\ sender' = [sender EXCEPT ![s] = Free]
  /\ UNCHANGED <<message, webhook, taken, reported>>

------------------------------------------------------------------------------
\* The message goes on at the provider.
Reports(m) ==
  /\ reported[m] # {}
  /\ \E next \in {"DELIVERED", "READ", "FAILED"} :
       /\ CASE next = "READ" -> "DELIVERED" \in reported[m]
            [] OTHER -> reported[m] \subseteq {"SENT"}
       /\ reported' = [reported EXCEPT ![m] = @ \cup {next}]
  /\ UNCHANGED <<message, sender, webhook, taken>>

Rank == [NONE |-> 0, PENDING |-> 0, SENT |-> 1, DELIVERED |-> 2, READ |-> 3]

\* nextDeliveryStatus.
NextStatus(current, incoming) ==
  IF current = "FAILED" THEN current
  ELSE IF incoming = "FAILED"
  THEN IF current \in {"DELIVERED", "READ"} THEN current ELSE "FAILED"
  ELSE IF Rank[incoming] >= Rank[current] THEN incoming ELSE current

\* Our identifier travels with a message given to YCloud.
Travels == Provider = "YCLOUD"
\* A status finds its message by the identifier of the provider, or by ours.
Finds(m) == message[m].external \/ Travels

\* applyWhatsappStatus reads the row ...
ReadsStatus(w, m, incoming) ==
  LET next == NextStatus(message[m].status, incoming) IN
  /\ webhook[w].message = 0
  /\ incoming \in reported[m] /\ Finds(m) /\ next # message[m].status
  /\ webhook' = [webhook EXCEPT ![w] =
       [message |-> m, read |-> message[m].status, next |-> next]]
  /\ UNCHANGED <<message, sender, taken, reported>>

\* ... and writes the next status if it still is the one it read.
\* Mutation: whatever it is.
Anyway(w) == TRUE
Unchanged(w) == message[webhook[w].message].status = webhook[w].read
WritesStatus(w) ==
  /\ webhook[w].message # 0
  /\ message' = IF Unchanged(w)
                THEN [message EXCEPT ![webhook[w].message].status = webhook[w].next]
                ELSE message
  /\ webhook' = [webhook EXCEPT ![w] = NoStatus]
  /\ UNCHANGED <<sender, taken, reported>>

Next ==
  \/ \E s \in Senders :
       \/ Sends(s) \/ Claims(s) \/ Calls(s) \/ Records(s) \/ SenderStops(s)
       \/ \E m \in Messages : Retries(s, m) \/ Prepares(s, m)
  \/ \E m \in Messages : Reports(m)
  \/ \E w \in Webhooks :
       \/ WritesStatus(w)
       \/ \E m \in Messages, incoming \in Statuses \ {"PENDING"} : ReadsStatus(w, m, incoming)

Spec == Init /\ [][Next]_vars

------------------------------------------------------------------------------
\* Whoever delivers a reserved message, and however many at once, the provider
\* is given it once (the claim of deliverPreparedWhatsappMessage).
GivenOnce == \A m \in Messages : taken[m] <= 1

\* FAILED closes an attempt, and no other status goes back.
Onwards(old, new) ==
  IF old = "FAILED" THEN new = "FAILED"
  ELSE IF new = "FAILED" THEN old \notin {"DELIVERED", "READ"}
  ELSE Rank[new] >= Rank[old]

\* What the README says of the statuses, of every write there is: they never go
\* back, however the provider repeats and disorders them.
NeverBackStep ==
  \A m \in Messages : Onwards(message[m].status, message'[m].status)
NeverBack == [][NeverBackStep]_vars
==============================================================================
