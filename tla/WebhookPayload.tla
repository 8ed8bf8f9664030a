---------------------------- MODULE WebhookPayload ----------------------------
(***************************************************************************)
(* From the body of a webhook to the events that are saved                 *)
(* (whatsapp/parser.ts, ycloud-parser.ts and the handlers of the two       *)
(* webhooks): Meta sends batches of changes of any field of the account,   *)
(* YCloud one event; the provider sends again what was not answered 200.   *)
(***************************************************************************)
EXTENDS Naturals, Sequences

CONSTANTS
  Phones,      \* numbers of the business
  Customers,
  MaxChanges,  \* changes of one batch
  MaxTries     \* times the provider sends a body

\* What the constants must be, for the instances of this module.
PayloadAssumption ==
  Customers # {} /\ MaxChanges \in Nat \ {0} /\ MaxTries \in Nat \ {0}

VARIABLES
  body,        \* what the provider sends
  next,        \* change that is turned into events
  events,      \* events so far
  answer,      \* the last answer
  tries        \* times the body has been sent

vars == <<body, next, events, answer, tries>>

\* A message of a customer; a status, of one of them, that may not fit the schema.
Items == [kind : {"message"}, from : Customers, fits : {TRUE}]
         \cup [kind : {"status"}, from : {CHOOSE c \in Customers : TRUE}, fits : BOOLEAN]
Distinct(s) == \A i, j \in DOMAIN s : s[i] = s[j] => i = j
Contacts == {s \in UNION {[1 .. n -> Customers] : n \in 0 .. 2} : Distinct(s)}
Changes == [field : {"messages", "other"}, phone : Phones, contacts : Contacts,
            items : UNION {[1 .. n -> Items] : n \in 1 .. 2}]
\* YCloud names both ends: a message goes to the business, a status is of what it sent.
Updates == [type : {"received", "updated", "unknown"}, sender : Phones \cup Customers,
            recipient : Phones \cup Customers, fits : BOOLEAN]
Meta == [provider : {"META_CLOUD"},
         changes : UNION {[1 .. n -> Changes] : n \in 1 .. MaxChanges}]
YCloud == [provider : {"YCLOUD"}, event : Updates]
Events == [kind : {"message", "status"}, phone : Phones, customer : Customers]

\* A message of Meta comes before the statuses of its change, and only a "messages" change
\* has a number; a message of YCloud is of a customer, a status of a message to one.
WellBorn(b) ==
  IF b.provider = "META_CLOUD"
  THEN \A i \in DOMAIN b.changes :
         \A j, k \in DOMAIN b.changes[i].items :
           j < k => ~ (b.changes[i].items[j].kind = "status" /\ b.changes[i].items[k].kind = "message")
  ELSE IF b.event.type = "received"
  THEN b.event.sender \in Customers /\ b.event.recipient \in Phones
  ELSE b.event.sender \in Phones /\ b.event.recipient \in Customers

\* What the handler remembers keeps its type.
TypeOK ==
  /\ next \in 0 .. MaxChanges + 1 /\ tries \in 0 .. MaxTries
  /\ events \in Seq(Events)
  /\ answer \in {"none", "200", "400", "ignored"}

Bodies == {b \in Meta \cup YCloud : WellBorn(b)}
Init == /\ body \in Bodies
        /\ next = 0 /\ events = <<>> /\ answer = "none" /\ tries = 0

(***************************************************************************)
(* Meta.                                                                   *)
(***************************************************************************)
OfMeta == body.provider = "META_CLOUD"
\* The schema of a value: each of its messages, statuses and contacts.
Fits(change) == \A i \in DOMAIN change.items : change.items[i].fits
\* The schema of the body asks every change to fit, of whatever field.
Valid == \A i \in DOMAIN body.changes : Fits(body.changes[i])

\* Mutation: the first contact, as the batches of one customer would allow.
FirstContact(change, from) == IF change.contacts = <<>> THEN from ELSE change.contacts[1]
\* The contact with the identifier of the sender, else the first one, else the sender.
Customer(change, from) ==
  IF change.contacts = <<>> \/ (\E i \in DOMAIN change.contacts : change.contacts[i] = from)
  THEN from ELSE change.contacts[1]

\* The events of a change: its messages, then its statuses.
EventsOf(change) ==
  [i \in DOMAIN change.items |->
     [kind |-> change.items[i].kind, phone |-> change.phone,
      customer |-> IF change.items[i].kind = "message"
                   THEN Customer(change, change.items[i].from) ELSE change.items[i].from]]

\* The signed body arrives; one that fits no schema is refused, and so it is every time.
Receives ==
  /\ OfMeta /\ next = 0 /\ answer \notin {"200", "ignored"} /\ tries < MaxTries
  /\ tries' = tries + 1
  /\ IF Valid THEN next' = 1 /\ UNCHANGED answer ELSE answer' = "400" /\ UNCHANGED next
  /\ UNCHANGED <<body, events>>

\* Mutation: a change of another field ends the batch.
UntilOther == {i \in DOMAIN body.changes : \A j \in 1 .. i : body.changes[j].field = "messages"}
\* The changes that are turned into events.
Taken == {i \in DOMAIN body.changes : body.changes[i].field = "messages"}

ParsesChange ==
  /\ OfMeta /\ next \in DOMAIN body.changes
  /\ events' = IF next \in Taken THEN events \o EventsOf(body.changes[next]) ELSE events
  /\ next' = next + 1
  /\ UNCHANGED <<body, answer, tries>>

Answers ==
  /\ OfMeta /\ next = Len(body.changes) + 1 /\ answer # "200"
  /\ answer' = "200"
  /\ UNCHANGED <<body, next, events, tries>>

(***************************************************************************)
(* YCloud.                                                                 *)
(***************************************************************************)
\* Mutation: the number of the business is where the event goes, whatever it is.
Recipient(e) == e.recipient
\* The end of the event that is a number of the business.
OwnEnd(e) == IF e.type = "received" THEN e.recipient ELSE e.sender
OtherEnd(e) == IF OwnEnd(e) = e.sender THEN e.recipient ELSE e.sender

\* An event of another type is answered and ignored before its content is looked at.
ReceivesEvent ==
  /\ ~ OfMeta /\ answer \notin {"200", "ignored"} /\ tries < MaxTries
  /\ tries' = tries + 1
  /\ \/ body.event.type = "unknown" /\ answer' = "ignored" /\ UNCHANGED events
     \/ body.event.type # "unknown" /\ ~ body.event.fits /\ answer' = "400" /\ UNCHANGED events
     \/ /\ body.event.type # "unknown" /\ body.event.fits
        /\ answer' = "200"
        /\ events' = <<[kind |-> IF body.event.type = "received" THEN "message" ELSE "status",
                        phone |-> OwnEnd(body.event), customer |-> OtherEnd(body.event)]>>
  /\ UNCHANGED <<body, next>>

Next == Receives \/ ParsesChange \/ Answers \/ ReceivesEvent
Spec == Init /\ [][Next]_vars

(***************************************************************************)
(* Properties.                                                             *)
(***************************************************************************)
\* A batch answered 200 gave one event for each message and status of its "messages"
\* changes, in the order of the batch, and nothing for the other fields: the events of a
\* change are those after its place, and each change begins where the one before ends.
OneEventEach ==
  OfMeta /\ answer = "200" =>
    \E place \in [1 .. Len(body.changes) + 1 -> 0 .. Len(events)] :
      /\ place[1] = 0 /\ place[Len(body.changes) + 1] = Len(events)
      /\ \A i \in DOMAIN body.changes :
           LET change == body.changes[i] IN
           IF change.field = "messages"
           THEN /\ place[i + 1] = place[i] + Len(change.items)
                /\ \A j \in DOMAIN change.items :
                     events[place[i] + j].kind = change.items[j].kind
           ELSE place[i + 1] = place[i]

\* A message whose sender is among the contacts of its change is of that customer,
\* whoever else the change names.
SenderKept ==
  OfMeta =>
    \A c \in DOMAIN body.changes : next > c /\ body.changes[c].field = "messages" =>
      \A i \in DOMAIN body.changes[c].items :
        LET item == body.changes[c].items[i] IN
        item.kind = "message" /\ (\E k \in DOMAIN body.changes[c].contacts :
                                    body.changes[c].contacts[k] = item.from) =>
          EventsOf(body.changes[c])[i].customer = item.from

\* A change of another field does not keep the messages of the batch from being received.
OtherFieldsHarmless ==
  OfMeta /\ answer = "400" =>
    \E i \in DOMAIN body.changes : body.changes[i].field = "messages" /\ ~ Fits(body.changes[i])
================================================================================
