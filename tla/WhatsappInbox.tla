----------------------------- MODULE WhatsappInbox -----------------------------
(***************************************************************************)
(* The messages of a customer on their way into the inbox                  *)
(* (whatsapp/webhook-http.ts, ycloud-webhook-http.ts, processing.ts and    *)
(* persistIncomingWhatsappMessage).  The provider repeats a batch of       *)
(* messages, also while another request handles it; each message is saved  *)
(* by a serializable transaction that is tried again after a conflict; any *)
(* error answers 500.  Meanwhile the team opens, closes, reopens, takes    *)
(* and gives back the conversations.  One customer, one connected          *)
(* integration; the follow-ups a message cancels are those of module       *)
(* Conversation.                                                           *)
(***************************************************************************)
EXTENDS Naturals, FiniteSets, FiniteSetsExt, Sequences

CONSTANTS
  Requests,          \* webhook requests
  Batches,           \* sequences of messages, as the provider sends them
  MaxConversations,
  MaxActions,        \* bound on what the team does
  Retries,           \* SERIALIZABLE_RETRIES
  Provider           \* "META_CLOUD", or "YCLOUD" whose events leave a receipt

\* What the constants must be, for the instances of this module.
InboxAssumption ==
  /\ MaxConversations \in Nat /\ MaxActions \in Nat /\ Retries \in Nat \ {0}
  /\ Provider \in {"META_CLOUD", "YCLOUD"}
  /\ \A b \in Batches : b \in Seq(Nat \ {0})

VARIABLES
  conversation, \* the conversations of the customer: status, mode, counter
  row,          \* the messages: conversation, mode it was saved under, read
  request,      \* the local state of the webhook requests
  reader,       \* the transaction of a page that opens a conversation
  receipts,     \* batches with a receipt
  answered,     \* batches answered with 200 as processed
  scheduled,    \* times the answer to each message was scheduled
  actions       \* what the team did so far, counted

vars == <<conversation, row, request, reader, receipts, answered, scheduled, actions>>

MessageIds == UNION {{b[i] : i \in 1 .. Len(b)} : b \in Batches}
Conversations == 1 .. MaxConversations
NoConversation == [status |-> "NONE", mode |-> "AI", unread |-> 0]
NoRow == [conversation |-> 0, mode |-> "AI", read |-> FALSE]
Idle == [pc |-> "idle", batch |-> <<>>, next |-> 0,
         attempt |-> 0, seen |-> <<>>, jobs |-> {}]
NoReader == [conversation |-> 0, locked |-> FALSE]

\* Conversations, messages and requests keep their types.
TypeOK ==
  /\ conversation \in [Conversations -> [status : {"NONE", "OPEN", "CLOSED"},
                                         mode : {"AI", "HUMAN"}, unread : Nat]]
  /\ row \in [MessageIds -> [conversation : 0 .. MaxConversations,
                             mode : {"AI", "HUMAN"}, read : BOOLEAN]]
  /\ \A w \in Requests :
       /\ request[w].pc \in {"idle", "event", "commit", "answer"}
       /\ request[w].jobs \subseteq MessageIds
       /\ request[w].attempt \in 0 .. Retries
  /\ reader \in [conversation : 0 .. MaxConversations, locked : BOOLEAN]
  /\ receipts \subseteq Batches /\ answered \subseteq Batches
  /\ scheduled \in [MessageIds -> Nat] /\ actions \in 0 .. MaxActions

Init ==
  /\ conversation = [c \in Conversations |-> NoConversation]
  /\ row = [m \in MessageIds |-> NoRow]
  /\ request = [w \in Requests |-> Idle]
  /\ reader = NoReader
  /\ receipts = {} /\ answered = {}
  /\ scheduled = [m \in MessageIds |-> 0]
  /\ actions = 0

Saved(m) == row[m].conversation # 0
Open == {c \in Conversations : conversation[c].status = "OPEN"}
Unused == {c \in Conversations : conversation[c].status = "NONE"}
Message(w) == request[w].batch[request[w].next]

------------------------------------------------------------------------------
\* A batch arrives: an event of YCloud that left a receipt is answered at once.
Arrives(w, b) ==
  /\ request[w].pc = "idle" /\ b \notin receipts
  /\ request' = [request EXCEPT ![w] =
       [Idle EXCEPT !.pc = "event", !.batch = b, !.next = 1]]
  /\ UNCHANGED <<conversation, row, reader, receipts, answered, scheduled, actions>>

ArrivesAgain(b) ==
  /\ b \in receipts /\ b \notin answered
  /\ answered' = answered \cup {b}
  /\ UNCHANGED <<conversation, row, request, reader, receipts, scheduled, actions>>

\* What the transaction that saves m reads.
Read(m) == [saved |-> Saved(m), open |-> Open,
            rows |-> [c \in Open |-> conversation[c]]]

\* The transaction of the next message starts.
Begins(w) ==
  /\ request[w].pc = "event"
  /\ request[w].next <= Len(request[w].batch)
  /\ request' = [request EXCEPT ![w].pc = "commit", ![w].seen = Read(Message(w))]
  /\ UNCHANGED <<conversation, row, reader, receipts, answered, scheduled, actions>>

Skips(r) == [r EXCEPT !.pc = "event", !.next = @ + 1, !.attempt = 0, !.seen = <<>>]

\* It found the message: a duplicate, which has no job.
\* Mutation: a duplicate is answered like any other message.
DuplicateJobs(w) == request[w].jobs \cup {Message(w)}
JobsOfDuplicate(w) == request[w].jobs
FindsDuplicate(w) ==
  /\ request[w].pc = "commit" /\ request[w].seen.saved
  /\ request' = [request EXCEPT ![w] = [Skips(@) EXCEPT !.jobs = JobsOfDuplicate(w)]]
  /\ UNCHANGED <<conversation, row, reader, receipts, answered, scheduled, actions>>

\* The isolation of the transaction: what it read still holds, and the reader
\* of the conversation has committed.
\* Mutation: READ COMMITTED; only the identifier of the message is unique.
OnlyUnique(w) == request[w].seen.saved = Saved(Message(w))
Isolated(w) == request[w].seen = Read(Message(w))
Unlocked(w) == ~(reader.locked /\ reader.conversation \in request[w].seen.open)

\* Mutation: the counter of messages to read starts with the conversation.
CountedOnce(old) == [old EXCEPT !.unread = 1]
Counted(old) == [old EXCEPT !.unread = @ + 1]
\* Mutation: with the status of a follow-up.
CreatedBare == [NoConversation EXCEPT !.status = "PENDING"]
Created == [NoConversation EXCEPT !.status = "OPEN"]

\* The assistant answers a message of a conversation it attends.
JobsOfNew(w, mode) ==
  IF mode = "AI" THEN request[w].jobs \cup {Message(w)} ELSE request[w].jobs

\* It commits: the message joins the newest conversation that is not closed, or
\* a new one.
Commits(w) ==
  LET m == Message(w)
      open == request[w].seen.open
      c == IF open = {} THEN Min(Unused) ELSE Max(open)
      old == IF open = {} THEN Created ELSE conversation[c]
  IN
  /\ request[w].pc = "commit" /\ ~request[w].seen.saved
  /\ Isolated(w) /\ Unlocked(w) /\ (open = {} => Unused # {})
  /\ conversation' = [conversation EXCEPT ![c] = Counted(old)]
  /\ row' = [row EXCEPT ![m] = [conversation |-> c, mode |-> old.mode, read |-> FALSE]]
  /\ request' = [request EXCEPT ![w] = [Skips(@) EXCEPT !.jobs = JobsOfNew(w, old.mode)]]
  /\ UNCHANGED <<reader, receipts, answered, scheduled, actions>>

\* It conflicts with another write, and is tried again a few times.
Conflicts(w) ==
  /\ request[w].pc = "commit" /\ ~request[w].seen.saved /\ ~Isolated(w)
  /\ request[w].attempt < Retries - 1
  /\ request' = [request EXCEPT ![w].pc = "event", ![w].attempt = @ + 1, ![w].seen = <<>>]
  /\ UNCHANGED <<conversation, row, reader, receipts, answered, scheduled, actions>>

\* Every message of the batch was handled.
Finishes(w) ==
  /\ request[w].pc = "event"
  /\ request[w].next > Len(request[w].batch)
  /\ receipts' = IF Provider = "YCLOUD" THEN receipts \cup {request[w].batch} ELSE receipts
  /\ request' = [request EXCEPT ![w].pc = "answer"]
  /\ UNCHANGED <<conversation, row, reader, answered, scheduled, actions>>

\* The answers of the assistant are scheduled, and the provider gets its 200.
Answers(w) ==
  /\ request[w].pc = "answer"
  /\ answered' = answered \cup {request[w].batch}
  /\ scheduled' = [m \in MessageIds |->
       IF m \in request[w].jobs THEN scheduled[m] + 1 ELSE scheduled[m]]
  /\ request' = [request EXCEPT ![w] = Idle]
  /\ UNCHANGED <<conversation, row, reader, receipts, actions>>

\* Any of its reads and writes fails: 500, or no answer at all.
Fails(w) ==
  /\ request[w].pc # "idle"
  /\ request' = [request EXCEPT ![w] = Idle]
  /\ UNCHANGED <<conversation, row, reader, receipts, answered, scheduled, actions>>

------------------------------------------------------------------------------
\* The order of the two writes of markThreadRead.
\* Mutation: the messages first.
MessagesFirst == <<"messages", "counter">>
Writes == <<"counter", "messages">>

\* The counter is cleared where it is not 0, and every message saved so far is
\* marked as read.
Write(what, c) ==
  IF what = "counter"
  THEN /\ conversation' = [conversation EXCEPT ![c].unread = 0]
       /\ UNCHANGED row
  ELSE /\ row' = [m \in MessageIds |->
            IF row[m].conversation = c THEN [row[m] EXCEPT !.read = TRUE] ELSE row[m]]
       /\ UNCHANGED conversation

Acts == actions < MaxActions /\ actions' = actions + 1

\* Somebody opens a conversation: the first write locks the row it changes ...
Opens(c) ==
  /\ Acts
  /\ reader = NoReader /\ conversation[c].status # "NONE"
  /\ Write(Writes[1], c)
  /\ reader' = [conversation |-> c,
                locked |-> Writes[1] = "counter" /\ conversation[c].unread > 0]
  /\ UNCHANGED <<request, receipts, answered, scheduled>>

\* ... and the second one commits.
Opened ==
  /\ reader.conversation # 0
  /\ Write(Writes[2], reader.conversation)
  /\ reader' = NoReader
  /\ UNCHANGED <<request, receipts, answered, scheduled, actions>>

\* setConversationStatus, takeConversation and returnConversationToAI.
SetsStatus(c, status) ==
  /\ Acts
  /\ conversation[c].status \notin {"NONE", status}
  /\ conversation' = [conversation EXCEPT ![c].status = status]
  /\ UNCHANGED <<row, request, reader, receipts, answered, scheduled>>

SetsMode(c, mode) ==
  /\ Acts
  /\ conversation[c].status # "NONE" /\ conversation[c].mode # mode
  /\ mode = "HUMAN" => conversation[c].status # "CLOSED"
  /\ conversation' = [conversation EXCEPT ![c].mode = mode]
  /\ UNCHANGED <<row, request, reader, receipts, answered, scheduled>>

Next ==
  \/ \E w \in Requests :
       \/ Begins(w) \/ FindsDuplicate(w) \/ Commits(w) \/ Conflicts(w)
       \/ Finishes(w) \/ Answers(w) \/ Fails(w)
       \/ \E b \in Batches : Arrives(w, b)
  \/ \E b \in Batches : ArrivesAgain(b)
  \/ \E c \in Conversations :
       \/ Opens(c)
       \/ \E status \in {"OPEN", "CLOSED"} : SetsStatus(c, status)
       \/ \E mode \in {"AI", "HUMAN"} : SetsMode(c, mode)
  \/ Opened

Spec == Init /\ [][Next]_vars

------------------------------------------------------------------------------
\* Two messages of a customer never open two conversations, and a repeated one
\* opens none: a conversation is created when no other is open.
CreatedAloneStep ==
  \A c \in Conversations :
    conversation[c].status = "NONE" /\ conversation'[c].status # "NONE" => Open = {}
CreatedAlone == [][CreatedAloneStep]_vars

\* However often the provider repeats a batch, each message is answered by at
\* most one run of the assistant.
ScheduledOnce == \A m \in MessageIds : scheduled[m] <= 1

ToRead(c) == Cardinality({m \in MessageIds : row[m].conversation = c /\ ~row[m].read})

\* The counter of a conversation nobody is opening hides no message to read.
NoneHidden ==
  \A c \in Conversations : reader.conversation # c => conversation[c].unread >= ToRead(c)

\* What the README says of opening a conversation: it marks its messages as read
\* and clears the counter, so that the counter is theirs.
CounterOfUnread ==
  \A c \in Conversations : reader.conversation # c => conversation[c].unread <= ToRead(c)

\* What the webhook says of its 500: the provider tries again and nothing is
\* done twice -- nor left undone.  Once a batch is answered, and no request
\* handles it, the messages saved under the assistant were given to it.
NothingLeft ==
  \A b \in answered : \A i \in 1 .. Len(b) :
    Saved(b[i]) /\ row[b[i]].mode = "AI" /\ (\A w \in Requests : request[w].batch # b)
      => scheduled[b[i]] >= 1
==============================================================================
