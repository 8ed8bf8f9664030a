----------------------------- MODULE Appointments -----------------------------
(***************************************************************************)
(* Appointments of one organization (src/server/appointments/service.ts)   *)
(* against its Google calendar.  Requests come from the panel and from the *)
(* assistant's tools (agent/appointment-tools.ts); each one reads, checks  *)
(* the slot, claims a row, calls Google and records the answer, with an    *)
(* await between the steps, and may be cut off at any of them.             *)
(***************************************************************************)
EXTENDS Naturals, FiniteSets, TLAPS

CONSTANTS
  MaxRows,       \* appointments that can be inserted
  MaxRequests,   \* requests made over the whole behaviour
  Slots,         \* times of the agenda, of the configured duration
  Keys,          \* idempotency keys the clients choose
  Requests       \* requests in progress at once

Rows == 1 .. MaxRows
\* What the constants must be, for the instances of this module.
AppointmentsAssumption ==
  MaxRows \in Nat /\ MaxRequests \in Nat /\ Slots \subseteq Nat \ {0}

VARIABLES
  row,        \* the appointments table
  event,      \* Google: the slot of each appointment's event, 0 when deleted
  request,    \* the local state of the requests in progress
  asked,      \* requests made so far
  delayed,    \* calls given up that may still take effect in Google
  late,       \* history: appointments such a call changed afterwards
  created,    \* history: events asked of Google under each creation key
  calls,      \* history: changes asked of Google for a row under each key
  held        \* history: per request, what has held its slot ever since it was made

vars == <<row, event, request, asked, delayed, late, created, calls, held>>

Active == {"PENDING", "CONFIRMED", "RESCHEDULED"}
Row == [status : Active \cup {"NONE", "CANCELLED", "FAILED"},
        slot : {0} \cup Slots, known : BOOLEAN,
        key : {"none"} \cup Keys, op : {"none"} \cup Keys, version : Nat]
RequestState ==
  [pc : {"idle", "asked", "looked", "checked", "claimed", "called"},
   kind : {"create", "reschedule", "cancel"}, row : {0} \cup Rows,
   slot : {0} \cup Slots, key : {"none"} \cup Keys, version : Nat, done : BOOLEAN]

NoRow == [status |-> "NONE", slot |-> 0, known |-> FALSE, key |-> "none",
          op |-> "none", version |-> 0]
Idle == [pc |-> "idle", kind |-> "create", row |-> 0, slot |-> 0,
         key |-> "none", version |-> 0, done |-> FALSE]

\* Rows, events and requests keep their types; an event exists for a row at most.
TypeOK ==
  /\ row \in [Rows -> Row]
  /\ event \in [Rows -> {0} \cup Slots]
  /\ request \in [Requests -> RequestState]
  /\ asked \in 0 .. MaxRequests
  /\ delayed \subseteq [row : Rows, slot : {0} \cup Slots, new : BOOLEAN]
  /\ late \subseteq Rows
  /\ created \in [Keys -> Nat]
  /\ calls \in [Rows -> [Keys -> Nat]]

Init ==
  /\ row = [a \in Rows |-> NoRow]
  /\ event = [a \in Rows |-> 0]
  /\ request = [q \in Requests |-> Idle]
  /\ asked = 0
  /\ delayed = {}
  /\ late = {}
  /\ created = [k \in Keys |-> 0]
  /\ calls = [a \in Rows |-> [k \in Keys |-> 0]]
  /\ held = [q \in Requests |-> {}]

------------------------------------------------------------------------------
Go(q, pc) == request' = [request EXCEPT ![q].pc = pc]
Ends(q) == request' = [request EXCEPT ![q] = Idle]

Taken == {a \in Rows : row[a].status # "NONE"}
WithKey(k) == {a \in Taken : row[a].key = k}

\* FreeBusy of the calendar: no event of the agenda at that time.
Free(s) == \A a \in Rows : event[a] # s

\* Mutation: appointments being processed are not counted as standing.
NoConflictSettled(s, except) ==
  \A a \in Taken \ {except} :
    row[a].status \in Active \ {"PENDING"} => row[a].slot # s

\* No appointment still standing at that time, but the one being moved.
NoConflict(s, except) ==
  \A a \in Taken \ {except} : row[a].status \in Active => row[a].slot # s

Start(q, kind, a, s, k) ==
  /\ request[q].pc = "idle"
  /\ asked < MaxRequests
  /\ asked' = asked + 1
  /\ request' = [request EXCEPT ![q] =
       [Idle EXCEPT !.pc = "asked", !.kind = kind, !.row = a, !.slot = s,
                    !.key = k]]
  /\ UNCHANGED <<row, event, delayed, late, created, calls>>

\* The form of the panel: it draws a key when it is opened, and sends the same
\* one however often it is submitted.
Forms == [key : Keys, slot : Slots]
\* A person books, moves or cancels in the panel.
PanelBooks(q) == \E f \in Forms : Start(q, "create", 0, f.slot, f.key)
PanelMoves(q) ==
  \E f \in Forms, a \in Taken : Start(q, "reschedule", a, f.slot, f.key)
PanelCancels(q) == \E k \in Keys, a \in Taken : Start(q, "cancel", a, 0, k)

\* The assistant's tools look for the slot and the customer's appointment
\* themselves before they call the service.
Candidates == {a \in Rows : row[a].status \in {"CONFIRMED", "RESCHEDULED"}}
AssistantBooks(q) ==
  \E k \in Keys, s \in Slots : Free(s) /\ Start(q, "create", 0, s, k)
AssistantMoves(q) ==
  \E k \in Keys, s \in Slots, a \in Candidates :
    Free(s) /\ Start(q, "reschedule", a, s, k)
AssistantCancels(q) ==
  \E k \in Keys, a \in Candidates : Start(q, "cancel", a, 0, k)

\* No plan, settings incomplete or disabled, Google not connected, invalid
\* references, or the invocation is cut off: the request stops where it is.
RequestStops(q) ==
  /\ request[q].pc # "idle"
  /\ Ends(q)
  /\ UNCHANGED <<row, event, asked, delayed, late, created, calls>>

------------------------------------------------------------------------------
\* createAppointment until FreeBusy has answered.  A key used before returns
\* the appointment it created.
LookToCreate(q) ==
  /\ request[q].pc = "asked" /\ request[q].kind = "create"
  /\ IF WithKey(request[q].key) # {} \/ ~Free(request[q].slot)
     THEN Ends(q) ELSE Go(q, "looked")
  /\ UNCHANGED <<row, event, asked, delayed, late, created, calls>>

\* Reading an appointment to move or cancel it: a key that was its last
\* operation returns what that operation left.
RepeatsLast(q) == row[request[q].row].op = request[q].key
Changeable(a) == row[a].status \notin {"CANCELLED", "PENDING"} /\ row[a].known

LookToChange(q) ==
  LET a == request[q].row IN
  /\ request[q].pc = "asked" /\ request[q].kind # "create"
  /\ IF \/ RepeatsLast(q) \/ ~Changeable(a)
        \/ request[q].kind = "reschedule"
             /\ (row[a].slot = request[q].slot \/ ~Free(request[q].slot))
     THEN Ends(q)
     ELSE request' = [request EXCEPT ![q].version = row[a].version,
                        ![q].pc = IF request[q].kind = "cancel"
                                  THEN "checked" ELSE "looked"]
  /\ UNCHANGED <<row, event, asked, delayed, late, created, calls>>

\* The second half of checkSlot: the appointments table.
CheckConflict(q) ==
  /\ request[q].pc = "looked"
  /\ IF NoConflict(request[q].slot, request[q].row)
     THEN Go(q, "checked") ELSE Ends(q)
  /\ UNCHANGED <<row, event, asked, delayed, late, created, calls>>

\* createPending: the unique index on the key decides.  Mutation: it is gone.
KeyIgnored(k) == TRUE
KeyUnused(k) == WithKey(k) = {}
Insert(q) ==
  /\ request[q].pc = "checked" /\ request[q].kind = "create"
  /\ IF KeyUnused(request[q].key)
     THEN \E a \in Rows \ Taken :
            /\ \A b \in Rows \ Taken : a <= b
            /\ row' = [row EXCEPT ![a] =
                 [NoRow EXCEPT !.status = "PENDING", !.slot = request[q].slot,
                               !.key = request[q].key, !.version = 1]]
            /\ request' = [request EXCEPT ![q].pc = "claimed", ![q].row = a]
     ELSE Ends(q) /\ UNCHANGED row
  /\ UNCHANGED <<event, asked, delayed, late, created, calls>>

\* claimOperation: a conditional update on the version that was read.
\* Mutations: the status, or the version and the status, are not compared.
ClaimableAny(q) == TRUE
ClaimableByStatus(q) ==
  row[request[q].row].status \in {"PENDING", "CONFIRMED", "RESCHEDULED", "FAILED"}
Claimable(q) ==
  /\ row[request[q].row].version = request[q].version
  /\ row[request[q].row].status \in {"CONFIRMED", "RESCHEDULED", "FAILED"}
ClaimOperation(q) ==
  LET a == request[q].row IN
  /\ request[q].pc = "checked" /\ request[q].kind # "create"
  /\ IF Claimable(q)
     THEN /\ row' = [row EXCEPT ![a].status = "PENDING",
                       ![a].op = request[q].key, ![a].version = @ + 1]
          /\ Go(q, "claimed")
     ELSE Ends(q) /\ UNCHANGED row
  /\ UNCHANGED <<event, asked, delayed, late, created, calls>>

------------------------------------------------------------------------------
\* What a call does in Google.  An event that is gone cannot be moved; to
\* delete it again succeeds.
Applies(c) == c.new \/ event[c.row] # 0
Apply(c) == IF Applies(c) THEN [event EXCEPT ![c.row] = c.slot] ELSE event

\* createRemote, updateRemote and deleteRemote: answered, refused, answered
\* but the answer is lost, or given up at the timeout and applied later.
CallGoogle(q) ==
  LET a == request[q].row
      c == [row |-> a, slot |-> request[q].slot,
            new |-> request[q].kind = "create"]
      answers(yes) == request' = [request EXCEPT ![q].pc = "called",
                                                 ![q].done = yes]
  IN
  /\ request[q].pc = "claimed"
  /\ IF c.new
     THEN created' = [created EXCEPT ![request[q].key] = @ + 1] /\ UNCHANGED calls
     ELSE calls' = [calls EXCEPT ![a][request[q].key] = @ + 1] /\ UNCHANGED created
  /\ \/ /\ Applies(c) \/ request[q].kind = "cancel"
        /\ event' = Apply(c)
        /\ \E yes \in BOOLEAN : answers(yes)
        /\ UNCHANGED delayed
     \/ answers(FALSE) /\ UNCHANGED <<event, delayed>>
     \/ answers(FALSE) /\ delayed' = delayed \cup {c} /\ UNCHANGED event
  /\ UNCHANGED <<row, asked, late>>

TakesEffectLate(c) ==
  /\ event' = Apply(c)
  /\ delayed' = delayed \ {c}
  /\ late' = late \cup {c.row}
  /\ UNCHANGED <<row, request, asked, created, calls>>

CompletedRow(r, q) ==
  CASE request[q].kind = "create" ->
         [r EXCEPT !.status = "CONFIRMED", !.known = TRUE, !.version = @ + 1]
    [] request[q].kind = "reschedule" ->
         [r EXCEPT !.status = "RESCHEDULED", !.slot = request[q].slot,
                   !.op = request[q].key, !.version = @ + 1]
    [] OTHER -> [r EXCEPT !.status = "CANCELLED", !.op = request[q].key,
                          !.version = @ + 1]
\* fail; a create that fails has no operation key.  Mutations: an operation
\* that failed is recorded as completed; with the status of a connection.
FailedAsError(r, q) == [r EXCEPT !.status = "ERROR", !.version = @ + 1]
FailedAsCompleted(r, q) == CompletedRow(r, q)
FailedRow(r, q) ==
  [r EXCEPT !.status = "FAILED", !.version = @ + 1,
            !.op = IF request[q].kind = "create" THEN @ ELSE request[q].key]

\* completeCreate, completeReschedule, completeCancel or fail.
Record(q) ==
  LET a == request[q].row IN
  /\ request[q].pc = "called"
  /\ row' = [row EXCEPT ![a] = IF request[q].done THEN CompletedRow(@, q)
                               ELSE FailedRow(@, q)]
  /\ Ends(q)
  /\ UNCHANGED <<event, asked, delayed, late, created, calls>>

Step ==
  \/ \E q \in Requests :
       \/ PanelBooks(q) \/ PanelMoves(q) \/ PanelCancels(q)
       \/ AssistantBooks(q) \/ AssistantMoves(q) \/ AssistantCancels(q)
       \/ RequestStops(q)
       \/ LookToCreate(q) \/ LookToChange(q) \/ CheckConflict(q)
       \/ Insert(q) \/ ClaimOperation(q) \/ CallGoogle(q) \/ Record(q)
  \/ \E c \in delayed : TakesEffectLate(c)

\* What holds a slot: the rows and the events that are not the request's own.
Holders(r, e, s) ==
  {<<"row", a>> : a \in {b \in Rows : r[b].status \in Active /\ r[b].slot = s}}
  \cup {<<"event", a>> : a \in {b \in Rows : e[b] = s}}
Others(q, hs) ==
  IF request'[q].kind = "reschedule" THEN hs \ {<<"row", request'[q].row>>} ELSE hs
Watches ==
  held' = [q \in Requests |->
    IF request'[q].pc = "idle" \/ request'[q].kind = "cancel" THEN {}
    ELSE IF request[q].pc = "idle" THEN Others(q, Holders(row, event, request'[q].slot))
    ELSE held[q] \cap Holders(row', event', request'[q].slot)]

Next == Step /\ Watches

Spec == Init /\ [][Next]_vars

------------------------------------------------------------------------------
\* However often a booking is repeated, at the same time or after a failure
\* or a cut-off, Google is asked for one event under its key
\* (findByIdempotency, createPending).
OneEventPerKey == \A k \in Keys : created[k] <= 1

\* Two requests are never both changing one appointment in Google, nor
\* recording what they did (claimOperation).
Exclusive ==
  \A q, p \in Requests :
    /\ request[q].pc \in {"claimed", "called"}
    /\ request[p].pc \in {"claimed", "called"}
    /\ request[q].row = request[p].row
    => q = p

\* Whatever failed, was lost or was cut off before, what is shown as standing
\* or cancelled is so in the calendar, unless a call given up at its timeout
\* took effect after it (completeReschedule, completeCancel, fail).
AgreesWithCalendar ==
  \A a \in Rows \ late :
    /\ row[a].status \in {"CONFIRMED", "RESCHEDULED"} => event[a] = row[a].slot
    /\ row[a].status = "CANCELLED" => event[a] = 0

\* A cancelled appointment is never brought back (claimOperation).
CancelledIsFinalStep ==
  \A a \in Rows : row[a].status = "CANCELLED" => row'[a] = row[a]
CancelledIsFinal == [][CancelledIsFinalStep]_vars

\* A booking or a move is never committed over an appointment or an event that
\* held the slot from before the request until then: the code has no lock on a slot,
\* so two requests that overlap may both book it (checkSlot, and the wait between
\* its two halves and the insert or the claim).
BooksOverNothingHeldStep ==
  \A q \in Requests :
    request[q].pc = "checked" /\ request'[q].pc = "claimed" => held[q] = {}
BooksOverNothingHeld == [][BooksOverNothingHeldStep]_vars

\* A change repeated with its key asks Google once
\* (lastOperationKey; "doble reprogramación con la misma clave no repite la
\* actualización remota").
OneChangePerKey == \A a \in Rows, k \in Keys : calls[a][k] <= 1

------------------------------------------------------------------------------
\* Why a row has one holder and a key one event.
\* A request that holds a row marked it PENDING, and the row still has its key.
Holds(q) == request[q].pc \in {"claimed", "called"}
HoldersMarked ==
  \A q \in Requests : Holds(q) =>
    /\ request[q].row \in Rows /\ row[request[q].row].status = "PENDING"
    /\ request[q].kind = "create" => row[request[q].row].key = request[q].key

\* A request past its form has a key, and a change a row.
Asked ==
  \A q \in Requests : request[q].pc # "idle" =>
    /\ request[q].key \in Keys
    /\ request[q].kind # "create" => request[q].row \in Rows

\* The unique index on the creation key.
KeysUnique == \A a, b \in Taken : row[a].key = row[b].key => a = b

\* A key that Google has been asked about is used by a row, and nobody is about
\* to ask again.
AskedOfGoogle ==
  \A k \in Keys : created[k] # 0 =>
    /\ created[k] = 1
    /\ WithKey(k) # {}
    /\ \A q \in Requests :
         ~(request[q].pc = "claimed" /\ request[q].kind = "create" /\ request[q].key = k)

Bookings ==
  /\ TypeOK /\ HoldersMarked /\ Asked /\ KeysUnique /\ Exclusive /\ AskedOfGoogle

LEMMA InitBookings == ASSUME AppointmentsAssumption, Init PROVE Bookings
BY DEF AppointmentsAssumption, Init, Bookings, TypeOK, HoldersMarked, Holds, Asked,
       KeysUnique, Exclusive, AskedOfGoogle, Idle, NoRow, Row, RequestState, Taken, Active,
       WithKey

\* A step that keeps the rows and what was asked, and lets no request hold a row.
LEMMA NothingHeld ==
  ASSUME Bookings, TypeOK', UNCHANGED <<row, created>>, NEW q \in Requests,
         \A p \in Requests \ {q} : request'[p] = request[p],
         request'[q].pc \notin {"claimed", "called"},
         request'[q].pc # "idle" =>
           /\ request'[q].key \in Keys
           /\ request'[q].kind # "create" => request'[q].row \in Rows
  PROVE  Bookings'
BY DEF Bookings, HoldersMarked, Holds, Asked, KeysUnique, Exclusive, AskedOfGoogle, Taken,
       WithKey

\* A form is filled in.
LEMMA StartKeepsBookings ==
  ASSUME AppointmentsAssumption, Bookings, NEW q \in Requests, NEW k \in Keys,
         NEW a \in {0} \cup Rows, NEW s \in {0} \cup Slots,
         NEW kind \in {"create", "reschedule", "cancel"},
         kind # "create" => a \in Rows, Start(q, kind, a, s, k)
  PROVE  Bookings'
<1> DEFINE asks == [Idle EXCEPT !.pc = "asked", !.kind = kind, !.row = a, !.slot = s, !.key = k]
<1>0. asks \in RequestState
  BY DEF Idle, RequestState
<1>1. TypeOK'
  <2>1. request' = [request EXCEPT ![q] = asks]
    BY DEF Start
  <2>2. request' \in [Requests -> RequestState]
    BY <1>0, <2>1 DEF Bookings, TypeOK
  <2>3. asked' \in 0 .. MaxRequests
    BY DEF Bookings, TypeOK, Start, AppointmentsAssumption
  <2> QED BY <2>2, <2>3 DEF Bookings, TypeOK, Start
<1>2. /\ \A p \in Requests \ {q} : request'[p] = request[p]
      /\ request'[q].pc = "asked" /\ request'[q].key = k
      /\ request'[q].kind = kind /\ request'[q].row = a
  BY DEF Bookings, TypeOK, Start, Idle, RequestState
<1> QED BY <1>1, <1>2, NothingHeld DEF Start

\* A request ends, or goes on to a step that holds nothing.
LEMMA LookKeepsBookings ==
  ASSUME Bookings, NEW q \in Requests, UNCHANGED <<row, event, asked, delayed, late, created, calls>>,
         request[q].pc # "idle",
         \/ Ends(q)
         \/ \E pc \in {"looked", "checked"}, v \in Nat :
              request' = [request EXCEPT ![q].pc = pc, ![q].version = v]
         \/ \E pc \in {"looked", "checked"} : Go(q, pc)
  PROVE  Bookings'
<1>1. TypeOK'
  <2>1. request[q] \in RequestState /\ Idle \in RequestState
    BY DEF Bookings, TypeOK, Idle, RequestState
  <2>2. \A pc \in {"looked", "checked"}, v \in Nat :
          /\ [request[q] EXCEPT !.pc = pc] \in RequestState
          /\ [request[q] EXCEPT !.pc = pc, !.version = v] \in RequestState
    BY <2>1 DEF RequestState
  <2>3. request' \in [Requests -> RequestState]
    <3>1. CASE Ends(q)
      BY <2>1, <3>1 DEF Bookings, TypeOK, Ends
    <3>2. CASE \E pc \in {"looked", "checked"} : Go(q, pc)
      BY <2>2, <3>2 DEF Bookings, TypeOK, Go
    <3>3. ASSUME NEW pc \in {"looked", "checked"}, NEW v \in Nat,
                 request' = [request EXCEPT ![q].pc = pc, ![q].version = v]
          PROVE  request' \in [Requests -> RequestState]
      <4>1. request' = [request EXCEPT ![q] = [request[q] EXCEPT !.pc = pc, !.version = v]]
        BY <2>1, <3>3 DEF Bookings, TypeOK, RequestState
      <4> QED BY <2>2, <4>1 DEF Bookings, TypeOK
    <3> QED BY <3>1, <3>2, <3>3
  <2> QED BY <2>3 DEF Bookings, TypeOK
<1>2. /\ \A p \in Requests \ {q} : request'[p] = request[p]
      /\ request'[q].pc \in {"idle", "looked", "checked"}
      /\ request'[q].pc # "idle" =>
           request'[q].key = request[q].key /\ request'[q].kind = request[q].kind
             /\ request'[q].row = request[q].row
  BY DEF Bookings, TypeOK, Ends, Go, Idle, RequestState
<1> QED BY <1>1, <1>2, NothingHeld DEF Bookings, Asked

\* A creation claims the row it inserts.
LEMMA InsertKeepsBookings ==
  ASSUME Bookings, NEW q \in Requests, Insert(q)
  PROVE  Bookings'
<1>1. CASE ~KeyUnused(request[q].key)
  BY <1>1, LookKeepsBookings DEF Insert
<1>2. CASE KeyUnused(request[q].key)
  <2>1. PICK a \in Rows \ Taken :
          /\ row' = [row EXCEPT ![a] =
               [NoRow EXCEPT !.status = "PENDING", !.slot = request[q].slot,
                             !.key = request[q].key, !.version = 1]]
          /\ request' = [request EXCEPT ![q].pc = "claimed", ![q].row = a]
    BY <1>2 DEF Insert
  <2>2. /\ request[q].pc = "checked" /\ request[q].kind = "create"
        /\ UNCHANGED <<event, asked, delayed, late, created, calls>>
    BY DEF Insert
  <2>3. request[q].key \in Keys
    BY <2>2 DEF Bookings, Asked
  <2>4. TypeOK'
    <3> DEFINE new == [NoRow EXCEPT !.status = "PENDING", !.slot = request[q].slot,
                                    !.key = request[q].key, !.version = 1]
               claims == [request[q] EXCEPT !.pc = "claimed", !.row = a]
    <3>1. request[q] \in RequestState /\ request[q].slot \in {0} \cup Slots
      BY DEF Bookings, TypeOK, RequestState
    <3>2. new \in Row /\ claims \in RequestState
      BY <2>3, <3>1 DEF Row, NoRow, Active, RequestState
    <3>3. row' = [row EXCEPT ![a] = new] /\ request' = [request EXCEPT ![q] = claims]
      BY <2>1, <3>1 DEF Bookings, TypeOK, RequestState
    <3> QED BY <2>2, <3>2, <3>3 DEF Bookings, TypeOK
  <2>5. /\ row'[a].status = "PENDING" /\ row'[a].key = request[q].key
        /\ \A b \in Rows \ {a} : row'[b] = row[b]
    BY <2>1 DEF Bookings, TypeOK, NoRow
  <2>6. /\ request'[q].pc = "claimed" /\ request'[q].row = a
        /\ request'[q].key = request[q].key /\ request'[q].kind = "create"
        /\ \A p \in Requests \ {q} : request'[p] = request[p]
    BY <2>1, <2>2 DEF Bookings, TypeOK, RequestState
  <2>7. \A p \in Requests : Holds(p) => request[p].row # a
    BY <2>1 DEF Bookings, HoldersMarked, Taken
  <2>8. HoldersMarked'
    <3> SUFFICES ASSUME NEW p \in Requests, Holds(p)'
                 PROVE  /\ request'[p].row \in Rows
                        /\ row'[request'[p].row].status = "PENDING"
                        /\ request'[p].kind = "create"
                             => row'[request'[p].row].key = request'[p].key
      BY DEF HoldersMarked
    <3>1. CASE p = q
      BY <2>1, <2>5, <2>6, <3>1
    <3>2. CASE p # q
      BY <2>5, <2>6, <2>7, <3>2 DEF Bookings, HoldersMarked, Holds
    <3> QED BY <3>1, <3>2
  <2>9. Asked'
    BY <2>1, <2>3, <2>6 DEF Bookings, Asked
  <2>10. Taken' = Taken \cup {a}
    BY <2>1, <2>5 DEF Taken
  <2>11. \A b \in Taken : row[b].key # request[q].key
    BY <1>2 DEF KeyUnused, WithKey
  <2>12. KeysUnique'
    BY <2>1, <2>5, <2>10, <2>11 DEF Bookings, KeysUnique, Taken
  <2>13. Exclusive'
    BY <2>6, <2>7 DEF Bookings, Exclusive, Holds
  <2>14. created[request[q].key] = 0
    BY <1>2, <2>3 DEF Bookings, AskedOfGoogle, KeyUnused
  <2>15. \A k \in Keys : WithKey(k) # {} => (WithKey(k) # {})'
    BY <2>1, <2>5, <2>10 DEF WithKey, Taken
  <2>16. AskedOfGoogle'
    BY <2>2, <2>6, <2>14, <2>15 DEF Bookings, AskedOfGoogle
  <2> QED BY <2>4, <2>8, <2>9, <2>12, <2>13, <2>16 DEF Bookings
<1> QED BY <1>1, <1>2

\* Rows are rewritten into rows.
LEMMA RowsRewritten ==
  ASSUME NEW r \in Row, NEW k \in Keys, NEW s \in {0} \cup Slots, NEW v \in Nat,
         NEW status \in Active \cup {"CANCELLED", "FAILED"}
  PROVE  /\ [r EXCEPT !.status = status, !.version = v] \in Row
         /\ [r EXCEPT !.status = status, !.op = k, !.version = v] \in Row
         /\ [r EXCEPT !.status = status, !.version = v, !.op = k] \in Row
         /\ [r EXCEPT !.status = status, !.version = v, !.op = r.op] \in Row
         /\ [r EXCEPT !.status = status, !.known = TRUE, !.version = v] \in Row
         /\ [r EXCEPT !.status = status, !.slot = s, !.op = k, !.version = v] \in Row
<1>1. status \in Active \cup {"NONE", "CANCELLED", "FAILED"}
  OBVIOUS
<1> HIDE DEF Active
<1> QED BY <1>1 DEF Row

\* A change claims a row nobody holds, because nobody marked it PENDING.
LEMMA ClaimKeepsBookings ==
  ASSUME Bookings, NEW q \in Requests, ClaimOperation(q)
  PROVE  Bookings'
<1>1. CASE ~Claimable(q)
  BY <1>1, LookKeepsBookings DEF ClaimOperation
<1>2. CASE Claimable(q)
  <2> DEFINE a == request[q].row
             marked == [row[a] EXCEPT !.status = "PENDING", !.op = request[q].key,
                                      !.version = @ + 1]
             claims == [request[q] EXCEPT !.pc = "claimed"]
  <2>1. /\ a \in Rows /\ request[q].key \in Keys
        /\ request[q] \in RequestState /\ row[a] \in Row
        /\ request[q].pc = "checked" /\ request[q].kind # "create"
    BY DEF Bookings, TypeOK, Asked, ClaimOperation
  <2>2. row' = [row EXCEPT ![a] = marked] /\ request' = [request EXCEPT ![q] = claims]
    BY <1>2, <2>1 DEF Bookings, TypeOK, ClaimOperation, Go, RequestState, Row
  <2>3. marked \in Row /\ claims \in RequestState
    <3>1. row[a].version + 1 \in Nat /\ "PENDING" \in Active
      BY <2>1 DEF Row, Active
    <3>2. marked \in Row
      BY <2>1, <3>1, RowsRewritten DEF RequestState
    <3> QED BY <2>1, <3>2 DEF RequestState
  <2>4. TypeOK'
    BY <2>2, <2>3 DEF Bookings, TypeOK, ClaimOperation
  <2>5. /\ row'[a].status = "PENDING" /\ row'[a].key = row[a].key
        /\ \A b \in Rows \ {a} : row'[b] = row[b]
    BY <2>1, <2>2 DEF Bookings, TypeOK, Row
  <2>6. /\ request'[q].pc = "claimed" /\ request'[q].row = a
        /\ request'[q].key = request[q].key /\ request'[q].kind = request[q].kind
        /\ \A p \in Requests \ {q} : request'[p] = request[p]
    BY <2>1, <2>2 DEF Bookings, TypeOK, RequestState
  <2>7. /\ row[a].status # "PENDING" /\ a \in Taken
        /\ \A p \in Requests : Holds(p) => request[p].row # a
    BY <1>2, <2>1 DEF Claimable, Bookings, HoldersMarked, Taken
  <2>8. HoldersMarked'
    <3> SUFFICES ASSUME NEW p \in Requests, Holds(p)'
                 PROVE  /\ request'[p].row \in Rows
                        /\ row'[request'[p].row].status = "PENDING"
                        /\ request'[p].kind = "create"
                             => row'[request'[p].row].key = request'[p].key
      BY DEF HoldersMarked
    <3>1. CASE p = q
      BY <2>1, <2>5, <2>6, <3>1
    <3>2. CASE p # q
      BY <2>5, <2>6, <2>7, <3>2 DEF Bookings, HoldersMarked, Holds
    <3> QED BY <3>1, <3>2
  <2>9. Asked'
    BY <2>1, <2>6 DEF Bookings, Asked
  <2>10. Taken' = Taken
    BY <2>1, <2>5, <2>7 DEF Taken
  <2>11. KeysUnique'
    BY <2>5, <2>10 DEF Bookings, KeysUnique, Taken
  <2>12. Exclusive'
    BY <2>6, <2>7 DEF Bookings, Exclusive, Holds
  <2>13. \A k \in Keys : WithKey(k)' = WithKey(k)
    BY <2>5, <2>10 DEF WithKey, Taken
  <2>14. AskedOfGoogle'
    BY <2>1, <2>6, <2>13 DEF Bookings, AskedOfGoogle, ClaimOperation
  <2> QED BY <2>4, <2>8, <2>9, <2>11, <2>12, <2>14 DEF Bookings
<1> QED BY <1>1, <1>2

\* Two creations about to ask Google hold rows of different keys.
LEMMA CallKeepsBookings ==
  ASSUME Bookings, NEW q \in Requests, CallGoogle(q)
  PROVE  Bookings'
<1> DEFINE a == request[q].row
           c == [row |-> a, slot |-> request[q].slot, new |-> request[q].kind = "create"]
<1>1. /\ request[q].pc = "claimed" /\ request[q] \in RequestState
      /\ a \in Rows /\ request[q].key \in Keys /\ UNCHANGED <<row, asked, late>>
  BY DEF Bookings, TypeOK, Asked, HoldersMarked, Holds, CallGoogle
<1>2. PICK yes \in BOOLEAN :
        request' = [request EXCEPT ![q].pc = "called", ![q].done = yes]
  BY DEF CallGoogle
<1>3. request' = [request EXCEPT ![q] = [request[q] EXCEPT !.pc = "called", !.done = yes]]
  BY <1>1, <1>2 DEF Bookings, TypeOK, RequestState
<1>4. [request[q] EXCEPT !.pc = "called", !.done = yes] \in RequestState
  BY <1>1 DEF RequestState
<1>5. c \in [row : Rows, slot : {0} \cup Slots, new : BOOLEAN]
  BY <1>1 DEF RequestState
<1>6. event' \in [Rows -> {0} \cup Slots]
  <2>1. event' = event \/ event' = Apply(c)
    BY DEF CallGoogle
  <2> QED BY <1>5, <2>1 DEF Bookings, TypeOK, Apply
<1>7. delayed' = delayed \/ delayed' = delayed \cup {c}
  BY DEF CallGoogle
<1>8. created' \in [Keys -> Nat] /\ calls' \in [Rows -> [Keys -> Nat]]
  <2>1. CASE request[q].kind = "create"
    <3>1. created' = [created EXCEPT ![request[q].key] = @ + 1] /\ calls' = calls
      BY <2>1 DEF CallGoogle
    <3>2. created \in [Keys -> Nat] /\ calls \in [Rows -> [Keys -> Nat]]
      BY DEF Bookings, TypeOK
    <3> QED BY <1>1, <3>1, <3>2
  <2>2. CASE request[q].kind # "create"
    <3>1. calls' = [calls EXCEPT ![a] = [calls[a] EXCEPT ![request[q].key] = @ + 1]]
      BY <1>1, <2>2 DEF Bookings, TypeOK, CallGoogle
    <3>2. [calls[a] EXCEPT ![request[q].key] = @ + 1] \in [Keys -> Nat]
      BY <1>1 DEF Bookings, TypeOK
    <3> QED BY <2>2, <3>1, <3>2 DEF Bookings, TypeOK, CallGoogle
  <2> QED BY <2>1, <2>2
<1>t. /\ row \in [Rows -> Row] /\ request \in [Requests -> RequestState]
      /\ asked \in 0 .. MaxRequests /\ late \subseteq Rows
      /\ delayed \subseteq [row : Rows, slot : {0} \cup Slots, new : BOOLEAN]
  BY DEF Bookings, TypeOK
<1>9. TypeOK'
  <2>1. request' \in [Requests -> RequestState]
    BY <1>t, <1>3, <1>4
  <2>2. row' \in [Rows -> Row] /\ asked' \in 0 .. MaxRequests /\ late' \subseteq Rows
    BY <1>t, <1>1
  <2>3. delayed' \subseteq [row : Rows, slot : {0} \cup Slots, new : BOOLEAN]
    <3> HIDE DEF c
    <3> QED BY <1>t, <1>5, <1>7
  <2> QED BY <1>6, <1>8, <2>1, <2>2, <2>3 DEF TypeOK
<1>10. /\ request'[q].pc = "called" /\ request'[q].row = a
       /\ request'[q].key = request[q].key /\ request'[q].kind = request[q].kind
       /\ \A p \in Requests \ {q} : request'[p] = request[p]
  BY <1>1, <1>3 DEF Bookings, TypeOK, RequestState
<1>11. HoldersMarked' /\ Asked' /\ Exclusive' /\ KeysUnique'
  BY <1>1, <1>10 DEF Bookings, HoldersMarked, Holds, Asked, Exclusive, KeysUnique, Taken
<1>12. \A k \in Keys : WithKey(k)' = WithKey(k)
  BY <1>1 DEF WithKey, Taken
<1>13. AskedOfGoogle'
  <2>1. CASE request[q].kind # "create"
    <3>1. created' = created /\ AskedOfGoogle
      BY <2>1 DEF CallGoogle, Bookings
    <3> QED BY <1>1, <1>10, <1>12, <2>1, <3>1 DEF AskedOfGoogle
  <2>2. CASE request[q].kind = "create"
    <3> DEFINE k == request[q].key
    <3>1. created[k] = 0 /\ created' = [created EXCEPT ![k] = @ + 1]
      BY <1>1, <2>2 DEF Bookings, AskedOfGoogle, CallGoogle
    <3>2. created'[k] = 1 /\ \A l \in Keys \ {k} : created'[l] = created[l]
      BY <1>1, <3>1 DEF Bookings, TypeOK
    <3>3. a \in WithKey(k)
      BY <1>1, <2>2 DEF Bookings, HoldersMarked, Holds, WithKey, Taken
    <3>4. ASSUME NEW p \in Requests \ {q}, request[p].pc = "claimed",
                 request[p].kind = "create", request[p].key = k
          PROVE  FALSE
      <4>1. request[p].row \in WithKey(k)
        BY <3>4 DEF Bookings, HoldersMarked, Holds, WithKey, Taken
      <4>2. request[p].row = a
        BY <3>3, <4>1 DEF Bookings, KeysUnique, WithKey
      <4> QED BY <1>1, <3>4, <4>2 DEF Bookings, Exclusive
    <3> QED BY <1>10, <1>12, <3>2, <3>3, <3>4 DEF Bookings, AskedOfGoogle
  <2> QED BY <2>1, <2>2
<1> QED BY <1>9, <1>11, <1>13 DEF Bookings

\* What was done is recorded in a row only the request held.
LEMMA RecordKeepsBookings ==
  ASSUME Bookings, NEW q \in Requests, Record(q)
  PROVE  Bookings'
<1> DEFINE a == request[q].row
<1>1. /\ a \in Rows /\ row[a] \in Row /\ row[a].status = "PENDING"
      /\ request[q] \in RequestState /\ request[q].key \in Keys
  BY DEF Bookings, TypeOK, Asked, HoldersMarked, Holds, Record
<1>2. PICK r \in {CompletedRow(row[a], q), FailedRow(row[a], q)} :
        row' = [row EXCEPT ![a] = r]
  BY DEF Record
<1>3. r \in Row /\ r.key = row[a].key /\ r.status # "NONE"
  <2>1. /\ row[a].version + 1 \in Nat /\ request[q].slot \in {0} \cup Slots
        /\ {"CONFIRMED", "RESCHEDULED"} \subseteq Active
    BY <1>1 DEF Row, RequestState, Active
  <2>2. r \in Row
    <3> DEFINE v == row[a].version + 1
               k == request[q].key
               s == request[q].slot
               old == row[a]
    <3>0. v \in Nat /\ k \in Keys /\ s \in {0} \cup Slots /\ old \in Row
      BY <1>1, <2>1
    <3>1. CASE r = FailedRow(row[a], q)
      <4>1. \/ r = [old EXCEPT !.status = "FAILED", !.version = v, !.op = old.op]
            \/ r = [old EXCEPT !.status = "FAILED", !.version = v, !.op = k]
        BY <3>1 DEF FailedRow
      <4>2. "FAILED" \in Active \cup {"CANCELLED", "FAILED"}
        OBVIOUS
      <4> HIDE DEF v, k, s, old
      <4>3. /\ [old EXCEPT !.status = "FAILED", !.version = v, !.op = old.op] \in Row
            /\ [old EXCEPT !.status = "FAILED", !.version = v, !.op = k] \in Row
        BY <3>0, <4>2, RowsRewritten
      <4> QED BY <4>1, <4>3
    <3>2. CASE r = CompletedRow(row[a], q)
      <4>1. \/ r = [old EXCEPT !.status = "CONFIRMED", !.known = TRUE, !.version = v]
            \/ r = [old EXCEPT !.status = "RESCHEDULED", !.slot = s,
                                  !.op = k, !.version = v]
            \/ r = [old EXCEPT !.status = "CANCELLED", !.op = k, !.version = v]
        BY <3>2 DEF CompletedRow
      <4>2. "CANCELLED" \in Active \cup {"CANCELLED", "FAILED"}
        OBVIOUS
      <4> HIDE DEF v, k, s, old
      <4>3. [old EXCEPT !.status = "CONFIRMED", !.known = TRUE, !.version = v] \in Row
        BY <2>1, <3>0, RowsRewritten
      <4>4. [old EXCEPT !.status = "RESCHEDULED", !.slot = s, !.op = k, !.version = v] \in Row
        BY <2>1, <3>0, RowsRewritten
      <4>5. [old EXCEPT !.status = "CANCELLED", !.op = k, !.version = v] \in Row
        BY <3>0, <4>2, RowsRewritten
      <4> QED BY <4>1, <4>3, <4>4, <4>5
    <3> QED BY <1>2, <3>1, <3>2
  <2>3. r.key = row[a].key /\ r.status # "NONE"
    BY <1>1, <1>2 DEF CompletedRow, FailedRow, Row
  <2> QED BY <2>2, <2>3
<1>4. TypeOK'
  <2>1. Idle \in RequestState
    BY DEF Idle, RequestState
  <2>2. /\ request' = [request EXCEPT ![q] = Idle]
        /\ UNCHANGED <<event, asked, delayed, late, created, calls>>
    BY DEF Record, Ends
  <2> QED BY <1>2, <1>3, <2>1, <2>2 DEF Bookings, TypeOK
<1>5. /\ request'[q].pc = "idle"
      /\ \A p \in Requests \ {q} : request'[p] = request[p]
  BY DEF Bookings, TypeOK, Record, Ends, Idle
<1>6. /\ row'[a].key = row[a].key /\ row'[a].status # "NONE"
      /\ \A b \in Rows \ {a} : row'[b] = row[b]
  BY <1>1, <1>2, <1>3 DEF Bookings, TypeOK
<1>7. \A p \in Requests \ {q} : Holds(p) => request[p].row # a
  BY DEF Bookings, Exclusive, Holds, Record
<1>8. HoldersMarked'
  <2> SUFFICES ASSUME NEW p \in Requests, Holds(p)'
               PROVE  /\ request'[p].row \in Rows
                      /\ row'[request'[p].row].status = "PENDING"
                      /\ request'[p].kind = "create"
                           => row'[request'[p].row].key = request'[p].key
    BY DEF HoldersMarked
  <2> QED BY <1>5, <1>6, <1>7 DEF Bookings, HoldersMarked, Holds
<1>9. Asked' /\ Exclusive'
  BY <1>5 DEF Bookings, Asked, Exclusive
<1>10. Taken' = Taken
  BY <1>1, <1>6 DEF Taken
<1>11. KeysUnique'
  BY <1>6, <1>10 DEF Bookings, KeysUnique, Taken
<1>12. \A k \in Keys : WithKey(k)' = WithKey(k)
  BY <1>6, <1>10 DEF WithKey, Taken
<1>13. AskedOfGoogle'
  BY <1>5, <1>12 DEF Bookings, AskedOfGoogle, Record
<1> QED BY <1>4, <1>8, <1>9, <1>11, <1>13 DEF Bookings

LEMMA StepKeepsBookings ==
  ASSUME AppointmentsAssumption, Bookings, Next
  PROVE  Bookings'
<1>1. ASSUME NEW q \in Requests,
             \/ PanelBooks(q) \/ PanelMoves(q) \/ PanelCancels(q)
             \/ AssistantBooks(q) \/ AssistantMoves(q) \/ AssistantCancels(q)
      PROVE  Bookings'
  <2>1. PICK kind \in {"create", "reschedule", "cancel"}, k \in Keys, s \in {0} \cup Slots,
             a \in {0} \cup Rows :
          (kind # "create" => a \in Rows) /\ Start(q, kind, a, s, k)
    <3>1. CASE PanelBooks(q) \/ AssistantBooks(q)
      BY <3>1 DEF PanelBooks, AssistantBooks, Forms
    <3>2. CASE PanelMoves(q) \/ AssistantMoves(q)
      BY <3>2 DEF PanelMoves, AssistantMoves, Forms, Taken, Candidates
    <3>3. CASE PanelCancels(q) \/ AssistantCancels(q)
      BY <3>3 DEF PanelCancels, AssistantCancels, Taken, Candidates
    <3> QED BY <1>1, <3>1, <3>2, <3>3
  <2> QED BY <2>1, StartKeepsBookings
<1>2. ASSUME NEW q \in Requests,
             RequestStops(q) \/ LookToCreate(q) \/ LookToChange(q) \/ CheckConflict(q)
      PROVE  Bookings'
  <2>1. CASE RequestStops(q) \/ LookToCreate(q) \/ CheckConflict(q)
    BY <2>1, LookKeepsBookings DEF RequestStops, LookToCreate, CheckConflict
  <2>2. CASE LookToChange(q)
    <3>1. request[q].row \in Rows
      BY <2>2 DEF Bookings, Asked, LookToChange
    <3>2. row[request[q].row].version \in Nat
      BY <3>1 DEF Bookings, TypeOK, Row
    <3>3. \/ Ends(q)
          \/ \E pc \in {"looked", "checked"} :
               request' = [request EXCEPT ![q].version = row[request[q].row].version,
                                          ![q].pc = pc]
      BY <2>2 DEF LookToChange
    <3>4. ASSUME NEW pc \in {"looked", "checked"}, NEW v \in Nat,
                 request' = [request EXCEPT ![q].version = v, ![q].pc = pc]
          PROVE  request' = [request EXCEPT ![q].pc = pc, ![q].version = v]
      BY <3>4 DEF Bookings, TypeOK, RequestState
    <3> QED BY <2>2, <3>2, <3>3, <3>4, LookKeepsBookings DEF LookToChange
  <2> QED BY <1>2, <2>1, <2>2
<1>3. ASSUME NEW q \in Requests,
             Insert(q) \/ ClaimOperation(q) \/ CallGoogle(q) \/ Record(q)
      PROVE  Bookings'
  BY <1>3, InsertKeepsBookings, ClaimKeepsBookings, CallKeepsBookings, RecordKeepsBookings
<1>4. ASSUME NEW c \in delayed, TakesEffectLate(c)
      PROVE  Bookings'
  <2>1. TypeOK'
    BY <1>4 DEF Bookings, TypeOK, TakesEffectLate, Apply
  <2> QED BY <1>4, <2>1 DEF Bookings, TakesEffectLate, HoldersMarked, Holds, Asked,
             KeysUnique, Exclusive, AskedOfGoogle, Taken, WithKey
<1> QED BY <1>1, <1>2, <1>3, <1>4 DEF Next, Step

LEMMA StutterKeepsBookings == ASSUME Bookings, UNCHANGED vars PROVE Bookings'
BY DEF vars, Bookings, TypeOK, HoldersMarked, Holds, Asked, KeysUnique, Exclusive,
       AskedOfGoogle, Taken, WithKey

\* For any requests, keys and times: an appointment is changed by one request at
\* a time, from the row it claims to what it records, and Google is asked for
\* one event under each creation key, whatever fails, is cut off or is repeated
\* (findByIdempotency, createPending, claimOperation).
THEOREM BookingsAreExclusive ==
  ASSUME AppointmentsAssumption
  PROVE  Spec => [](Exclusive /\ OneEventPerKey)
<1>1. Init => Bookings
  BY InitBookings
<1>2. Bookings /\ [Next]_vars => Bookings'
  BY StepKeepsBookings, StutterKeepsBookings
<1>3. Bookings => Exclusive /\ OneEventPerKey
  BY DEF Bookings, AskedOfGoogle, OneEventPerKey
<1> QED BY <1>1, <1>2, <1>3, PTL DEF Spec

\* The rows, the requests and what Google knows keep their types, for all of them.
THEOREM BookingTypes == ASSUME AppointmentsAssumption PROVE Spec => []TypeOK
<1>1. Init => Bookings
  BY InitBookings
<1>2. Bookings /\ [Next]_vars => Bookings'
  BY StepKeepsBookings, StutterKeepsBookings
<1>3. Bookings => TypeOK
  BY DEF Bookings
<1> QED BY <1>1, <1>2, <1>3, PTL DEF Spec

\* For any of them too: no step takes an appointment out of the cancelled ones.
THEOREM CancellationsAreFinal ==
  ASSUME AppointmentsAssumption
  PROVE  Spec => CancelledIsFinal
<1>1. Init => Bookings
  BY InitBookings
<1>2. Bookings /\ [Next]_vars => Bookings'
  BY StepKeepsBookings, StutterKeepsBookings
<1>3. Bookings /\ Next => CancelledIsFinalStep
  <2> SUFFICES ASSUME Bookings, Next, NEW a \in Rows, row[a].status = "CANCELLED"
               PROVE  row'[a] = row[a]
    BY DEF CancelledIsFinalStep
  <2>1. ASSUME NEW q \in Requests, Insert(q) \/ ClaimOperation(q) \/ Record(q)
        PROVE  row'[a] = row[a]
    <3>1. CASE Insert(q)
      BY <3>1 DEF Insert, Taken, Bookings, TypeOK
    <3>2. CASE ClaimOperation(q)
      BY <3>2 DEF ClaimOperation, Claimable, Bookings, TypeOK
    <3>3. CASE Record(q)
      BY <3>3 DEF Record, Bookings, TypeOK, HoldersMarked, Holds
    <3> QED BY <2>1, <3>1, <3>2, <3>3
  <2> QED BY <2>1 DEF Next, Step, PanelBooks, PanelMoves, PanelCancels, AssistantBooks,
             AssistantMoves, AssistantCancels, Start, RequestStops, LookToCreate,
             LookToChange, CheckConflict, CallGoogle, TakesEffectLate
<1>4. Bookings /\ [Next]_vars => [CancelledIsFinalStep]_vars
  BY <1>3
<1> QED BY <1>1, <1>2, <1>4, PTL DEF Spec, CancelledIsFinal

------------------------------------------------------------------------------
\* Why the table agrees with the calendar.
\* To cancel is to ask for no slot; a creation holds a row with the slot it asks for.
SlotsAsked ==
  \A q \in Requests :
    /\ request[q].pc # "idle" /\ request[q].kind = "cancel" => request[q].slot = 0
    /\ Holds(q) /\ request[q].kind = "create" =>
         row[request[q].row].slot = request[q].slot

\* A request that was answered left its event at its slot, unless a call given up
\* took effect since.
AnsweredInCalendar ==
  \A q \in Requests :
    request[q].pc = "called" /\ request[q].done /\ request[q].row \notin late
      => event[request[q].row] = request[q].slot

CalendarInv == Bookings /\ SlotsAsked /\ AnsweredInCalendar /\ AgreesWithCalendar

\* What the steps before the claim do, that later lemmas need: they end the request or
\* take it to the next of those steps, with what it asks for.
LEMMA LooksGoOn ==
  ASSUME Bookings, NEW q \in Requests,
         RequestStops(q) \/ LookToCreate(q) \/ LookToChange(q) \/ CheckConflict(q)
  PROVE  /\ UNCHANGED <<row, event, late>>
         /\ \A p \in Requests \ {q} : request'[p] = request[p]
         /\ request[q].pc # "idle" /\ request'[q].pc \in {"idle", "looked", "checked"}
         /\ request'[q].pc # "idle" =>
              /\ request'[q].kind = request[q].kind /\ request'[q].slot = request[q].slot
              /\ request'[q].row = request[q].row
<1>1. UNCHANGED <<row, event, late>> /\ request[q].pc # "idle"
  BY DEF RequestStops, LookToCreate, LookToChange, CheckConflict
<1>2. \/ Ends(q)
      \/ \E pc \in {"looked", "checked"} : Go(q, pc)
      \/ \E pc \in {"looked", "checked"} : \E v : request' =
           [request EXCEPT ![q].version = v, ![q].pc = pc]
  BY DEF RequestStops, LookToCreate, LookToChange, CheckConflict
<1>3. request[q] \in RequestState /\ DOMAIN request = Requests
  BY DEF Bookings, TypeOK
<1>4. CASE Ends(q)
  BY <1>1, <1>3, <1>4 DEF Ends, Idle, Bookings, TypeOK
<1>5. ASSUME NEW pc \in {"looked", "checked"}, NEW v,
             \/ Go(q, pc)
             \/ request' = [request EXCEPT ![q].version = v, ![q].pc = pc]
      PROVE  /\ \A p \in Requests \ {q} : request'[p] = request[p]
             /\ request'[q].pc = pc
             /\ request'[q].kind = request[q].kind /\ request'[q].slot = request[q].slot
             /\ request'[q].row = request[q].row
  BY <1>3, <1>5 DEF Go, RequestState
<1> QED BY <1>1, <1>2, <1>4, <1>5

\* A form is filled in, to create an appointment or to change one there is.
LEMMA FormsAsk ==
  ASSUME Bookings, NEW q \in Requests,
         \/ PanelBooks(q) \/ PanelMoves(q) \/ PanelCancels(q)
         \/ AssistantBooks(q) \/ AssistantMoves(q) \/ AssistantCancels(q)
  PROVE  /\ UNCHANGED <<row, event, late>>
         /\ \A p \in Requests \ {q} : request'[p] = request[p]
         /\ request[q].pc = "idle" /\ request'[q].pc = "asked"
         /\ request'[q].kind = "cancel" => request'[q].slot = 0
         /\ request'[q].kind = "create" => request'[q].row = 0
<1>1. ASSUME NEW kind, NEW a, NEW s, NEW k, Start(q, kind, a, s, k)
      PROVE  /\ UNCHANGED <<row, event, late>> /\ request[q].pc = "idle"
             /\ request'[q].pc = "asked" /\ request'[q].kind = kind
             /\ request'[q].row = a /\ request'[q].slot = s
             /\ \A p \in Requests \ {q} : request'[p] = request[p]
  BY <1>1 DEF Start, Idle, Bookings, TypeOK
<1>2. CASE PanelBooks(q) \/ AssistantBooks(q)
  BY <1>1, <1>2 DEF PanelBooks, AssistantBooks
<1>3. CASE PanelMoves(q) \/ AssistantMoves(q)
  BY <1>1, <1>3 DEF PanelMoves, AssistantMoves
<1>4. CASE PanelCancels(q) \/ AssistantCancels(q)
  BY <1>1, <1>4 DEF PanelCancels, AssistantCancels
<1> QED BY <1>2, <1>3, <1>4

\* A step of a request that holds no row, and that touches no row and no event.
LEMMA NothingHeldAgrees ==
  ASSUME CalendarInv, Bookings', UNCHANGED <<row, event, late>>, NEW q \in Requests,
         \A p \in Requests \ {q} : request'[p] = request[p],
         request'[q].pc \notin {"claimed", "called"},
         request'[q].pc # "idle" /\ request'[q].kind = "cancel" => request'[q].slot = 0
  PROVE  CalendarInv'
BY DEF CalendarInv, SlotsAsked, Holds, AnsweredInCalendar, AgreesWithCalendar

\* A row that is inserted is pending, with the slot of its request.
LEMMA InsertAgrees ==
  ASSUME CalendarInv, Bookings', NEW q \in Requests, Insert(q)
  PROVE  CalendarInv'
<1>1. CASE ~KeyUnused(request[q].key)
  <2>1. request'[q].pc = "idle" /\ \A p \in Requests \ {q} : request'[p] = request[p]
    BY <1>1 DEF Insert, Ends, Idle, CalendarInv, Bookings, TypeOK
  <2> QED BY <1>1, <2>1, NothingHeldAgrees DEF Insert
<1>2. CASE KeyUnused(request[q].key)
  <2>1. PICK a \in Rows \ Taken :
          /\ row' = [row EXCEPT ![a] =
               [NoRow EXCEPT !.status = "PENDING", !.slot = request[q].slot,
                             !.key = request[q].key, !.version = 1]]
          /\ request' = [request EXCEPT ![q].pc = "claimed", ![q].row = a]
    BY <1>2 DEF Insert
  <2>2. /\ row'[a].status = "PENDING" /\ row'[a].slot = request[q].slot
        /\ \A b \in Rows \ {a} : row'[b] = row[b]
    BY <2>1 DEF CalendarInv, Bookings, TypeOK, NoRow
  <2>3. /\ request'[q].pc = "claimed" /\ request'[q].row = a
        /\ request'[q].slot = request[q].slot /\ request'[q].kind = request[q].kind
        /\ \A p \in Requests \ {q} : request'[p] = request[p]
    BY <2>1 DEF CalendarInv, Bookings, TypeOK, RequestState
  <2>4. \A p \in Requests : Holds(p) => request[p].row # a /\ request[p].row \in Rows
    BY <2>1 DEF CalendarInv, Bookings, HoldersMarked, Taken
  <2>5. UNCHANGED <<event, late>> /\ request[q].pc = "checked" /\ request[q].kind = "create"
    BY DEF Insert
  <2>6. SlotsAsked'
    BY <2>2, <2>3, <2>4, <2>5 DEF CalendarInv, SlotsAsked, Holds
  <2>7. AnsweredInCalendar'
    BY <2>3, <2>5 DEF CalendarInv, AnsweredInCalendar
  <2>8. AgreesWithCalendar'
    BY <2>2, <2>5 DEF CalendarInv, AgreesWithCalendar
  <2> QED BY <2>6, <2>7, <2>8 DEF CalendarInv
<1> QED BY <1>1, <1>2

\* A row that is claimed is pending, and keeps its slot.
LEMMA ClaimAgrees ==
  ASSUME CalendarInv, Bookings', NEW q \in Requests, ClaimOperation(q)
  PROVE  CalendarInv'
<1> DEFINE a == request[q].row
<1>1. a \in Rows /\ row[a] \in Row /\ UNCHANGED <<event, late>>
  BY DEF CalendarInv, Bookings, TypeOK, Asked, ClaimOperation
<1>2. CASE ~Claimable(q)
  <2>1. request'[q].pc = "idle" /\ \A p \in Requests \ {q} : request'[p] = request[p]
    BY <1>2 DEF ClaimOperation, Ends, Idle, CalendarInv, Bookings, TypeOK
  <2> QED BY <1>1, <1>2, <2>1, NothingHeldAgrees DEF ClaimOperation
<1>3. CASE Claimable(q)
  <2>1. /\ row'[a].status = "PENDING" /\ \A b \in Rows \ {a} : row'[b] = row[b]
        /\ row[a].status # "PENDING"
    BY <1>1, <1>3 DEF ClaimOperation, Claimable, CalendarInv, Bookings, TypeOK, Row
  <2>2. /\ request'[q].pc = "claimed" /\ request'[q].slot = request[q].slot
        /\ request'[q].kind = request[q].kind
        /\ request[q].pc = "checked" /\ request[q].kind # "create"
        /\ \A p \in Requests \ {q} : request'[p] = request[p]
    BY <1>3 DEF ClaimOperation, Go, CalendarInv, Bookings, TypeOK, RequestState
  <2>3. \A p \in Requests : Holds(p) => request[p].row # a /\ request[p].row \in Rows
    BY <2>1 DEF CalendarInv, Bookings, HoldersMarked
  <2>4. SlotsAsked'
    BY <2>1, <2>2, <2>3 DEF CalendarInv, SlotsAsked, Holds
  <2>5. AnsweredInCalendar'
    BY <1>1, <2>2 DEF CalendarInv, AnsweredInCalendar
  <2>6. AgreesWithCalendar'
    BY <1>1, <2>1 DEF CalendarInv, AgreesWithCalendar
  <2> QED BY <2>4, <2>5, <2>6 DEF CalendarInv
<1> QED BY <1>2, <1>3

\* A call changes the event of a row nobody else holds, and that is pending.
LEMMA CallAgrees ==
  ASSUME CalendarInv, Bookings', NEW q \in Requests, CallGoogle(q)
  PROVE  CalendarInv'
<1> DEFINE a == request[q].row
           c == [row |-> a, slot |-> request[q].slot, new |-> request[q].kind = "create"]
<1>1. /\ request[q].pc = "claimed" /\ Holds(q) /\ UNCHANGED <<row, late>>
      /\ a \in Rows /\ row[a].status = "PENDING"
  BY DEF CalendarInv, Bookings, HoldersMarked, Holds, CallGoogle
<1>2. PICK yes \in BOOLEAN :
        /\ request' = [request EXCEPT ![q].pc = "called", ![q].done = yes]
        /\ yes => event' = Apply(c) /\ (Applies(c) \/ request[q].kind = "cancel")
        /\ event' = event \/ event' = Apply(c)
  BY DEF CallGoogle
<1>3. /\ request'[q].pc = "called" /\ request'[q].done = yes
      /\ request'[q].row = a /\ request'[q].slot = request[q].slot
      /\ request'[q].kind = request[q].kind
      /\ \A p \in Requests \ {q} : request'[p] = request[p]
  BY <1>2 DEF CalendarInv, Bookings, TypeOK, RequestState
<1>4. \A b \in Rows \ {a} : event'[b] = event[b]
  BY <1>2 DEF Apply, CalendarInv, Bookings, TypeOK
<1>5. yes => event'[a] = request[q].slot
  <2> SUFFICES ASSUME yes PROVE event'[a] = request[q].slot
    OBVIOUS
  <2>1. CASE Applies(c)
    BY <1>1, <1>2, <2>1 DEF Apply, CalendarInv, Bookings, TypeOK
  <2>2. CASE ~Applies(c)
    <3>1. event[a] = 0 /\ request[q].kind = "cancel" /\ event' = event
      BY <1>2, <2>2 DEF Apply, Applies
    <3> QED BY <1>1, <3>1 DEF CalendarInv, SlotsAsked
  <2> QED BY <2>1, <2>2
<1>6. \A p \in Requests \ {q} : Holds(p) => request[p].row \in Rows \ {a}
  BY <1>1 DEF CalendarInv, Bookings, HoldersMarked, Holds, Exclusive
<1>7. SlotsAsked'
  BY <1>1, <1>3 DEF CalendarInv, SlotsAsked, Holds
<1>8. AnsweredInCalendar'
  <2> SUFFICES ASSUME NEW p \in Requests, request'[p].pc = "called", request'[p].done,
                      request'[p].row \notin late'
               PROVE  event'[request'[p].row] = request'[p].slot
    BY DEF AnsweredInCalendar
  <2>1. CASE p = q
    BY <1>3, <1>5, <2>1
  <2>2. CASE p # q
    BY <1>1, <1>3, <1>4, <1>6, <2>2 DEF CalendarInv, AnsweredInCalendar, Holds
  <2> QED BY <2>1, <2>2
<1>9. AgreesWithCalendar'
  BY <1>1, <1>4 DEF CalendarInv, AgreesWithCalendar
<1> QED BY <1>7, <1>8, <1>9 DEF CalendarInv

\* What is recorded as done is what the answer left in the calendar.
LEMMA RecordAgrees ==
  ASSUME CalendarInv, Bookings', NEW q \in Requests, Record(q)
  PROVE  CalendarInv'
<1> DEFINE a == request[q].row
<1>1. /\ request[q].pc = "called" /\ Holds(q) /\ UNCHANGED <<event, late>>
      /\ a \in Rows /\ row[a] \in Row /\ request[q] \in RequestState
  BY DEF CalendarInv, Bookings, TypeOK, HoldersMarked, Holds, Record
<1>2. /\ request'[q].pc = "idle"
      /\ \A p \in Requests \ {q} : request'[p] = request[p]
      /\ \A b \in Rows \ {a} : row'[b] = row[b]
      /\ row'[a] = IF request[q].done THEN CompletedRow(row[a], q) ELSE FailedRow(row[a], q)
  BY <1>1 DEF Record, Ends, Idle, CalendarInv, Bookings, TypeOK
<1>3. \A p \in Requests \ {q} : Holds(p) => request[p].row \in Rows \ {a}
  BY <1>1 DEF CalendarInv, Bookings, HoldersMarked, Holds, Exclusive
<1>4. SlotsAsked' /\ AnsweredInCalendar'
  BY <1>1, <1>2, <1>3 DEF CalendarInv, SlotsAsked, Holds, AnsweredInCalendar
<1>5. CASE ~request[q].done
  <2>1. row'[a].status = "FAILED"
    BY <1>1, <1>2, <1>5 DEF FailedRow, Row
  <2> QED BY <1>1, <1>2, <1>4, <2>1 DEF CalendarInv, AgreesWithCalendar
<1>6. CASE request[q].done
  <2>1. a \notin late => event[a] = request[q].slot
    BY <1>1, <1>6 DEF CalendarInv, AnsweredInCalendar
  <2>2. \/ /\ row'[a].status \in {"CONFIRMED", "RESCHEDULED"}
           /\ row'[a].slot = request[q].slot
        \/ row'[a].status = "CANCELLED" /\ request[q].slot = 0
    <3>1. CASE request[q].kind = "create"
      BY <1>1, <1>2, <1>6, <3>1 DEF CompletedRow, Row, CalendarInv, SlotsAsked
    <3>2. CASE request[q].kind = "reschedule"
      BY <1>1, <1>2, <1>6, <3>2 DEF CompletedRow, Row
    <3>3. CASE request[q].kind = "cancel"
      BY <1>1, <1>2, <1>6, <3>3 DEF CompletedRow, Row, CalendarInv, SlotsAsked
    <3> QED BY <1>1, <3>1, <3>2, <3>3 DEF RequestState
  <2>3. AgreesWithCalendar'
    BY <1>1, <1>2, <2>1, <2>2 DEF CalendarInv, AgreesWithCalendar
  <2> QED BY <1>4, <2>3 DEF CalendarInv
<1> QED BY <1>5, <1>6

LEMMA StepAgrees ==
  ASSUME AppointmentsAssumption, CalendarInv, [Next]_vars
  PROVE  CalendarInv'
<1>1. Bookings'
  BY StepKeepsBookings, StutterKeepsBookings DEF CalendarInv
<1>2. ASSUME NEW q \in Requests,
             \/ PanelBooks(q) \/ PanelMoves(q) \/ PanelCancels(q)
             \/ AssistantBooks(q) \/ AssistantMoves(q) \/ AssistantCancels(q)
      PROVE  CalendarInv'
  BY <1>1, <1>2, FormsAsk, NothingHeldAgrees DEF CalendarInv
<1>3. ASSUME NEW q \in Requests,
             RequestStops(q) \/ LookToCreate(q) \/ LookToChange(q) \/ CheckConflict(q)
      PROVE  CalendarInv'
  BY <1>1, <1>3, LooksGoOn, NothingHeldAgrees DEF CalendarInv, SlotsAsked
<1>4. ASSUME NEW q \in Requests,
             Insert(q) \/ ClaimOperation(q) \/ CallGoogle(q) \/ Record(q)
      PROVE  CalendarInv'
  BY <1>1, <1>4, InsertAgrees, ClaimAgrees, CallAgrees, RecordAgrees
<1>5. ASSUME NEW c \in delayed, TakesEffectLate(c)
      PROVE  CalendarInv'
  <2>1. /\ UNCHANGED <<row, request>> /\ late' = late \cup {c.row}
        /\ \A b \in Rows \ {c.row} : event'[b] = event[b]
    BY <1>5 DEF TakesEffectLate, Apply, CalendarInv, Bookings, TypeOK
  <2>2. \A p \in Requests : Holds(p) => request[p].row \in Rows
    BY DEF CalendarInv, Bookings, HoldersMarked
  <2> QED BY <1>1, <2>1, <2>2 DEF CalendarInv, SlotsAsked, Holds, AnsweredInCalendar,
             AgreesWithCalendar
<1>6. CASE UNCHANGED vars
  BY <1>1, <1>6 DEF vars, CalendarInv, SlotsAsked, Holds, AnsweredInCalendar,
     AgreesWithCalendar
<1> QED BY <1>2, <1>3, <1>4, <1>5, <1>6 DEF Next, Step

\* Whatever fails, is lost, is repeated or is cut off, for any appointments and
\* requests, what the table shows as standing or as cancelled is so in the calendar,
\* unless a call given up took effect afterwards (completeReschedule, completeCancel, fail).
THEOREM CalendarAgrees ==
  ASSUME AppointmentsAssumption
  PROVE  Spec => []AgreesWithCalendar
<1>1. Init => CalendarInv
  BY InitBookings DEF CalendarInv, Init, SlotsAsked, Holds, AnsweredInCalendar,
     AgreesWithCalendar, Idle, NoRow
<1>2. CalendarInv /\ [Next]_vars => CalendarInv'
  BY StepAgrees
<1>3. CalendarInv => AgreesWithCalendar
  BY DEF CalendarInv
<1> QED BY <1>1, <1>2, <1>3, PTL DEF Spec

------------------------------------------------------------------------------
\* Why nothing that held the slot is booked over: what has held it ever since is
\* among what holds it, no event once Google has answered, and nothing once the
\* table has.
HeldFor(q) ==
  /\ request[q].pc = "idle" \/ request[q].kind = "cancel" => held[q] = {}
  /\ held[q] \subseteq Holders(row, event, request[q].slot)
  /\ request[q].kind = "reschedule" => <<"row", request[q].row>> \notin held[q]
  /\ request[q].pc \in {"asked", "looked", "checked"} /\ request[q].kind = "create"
       => request[q].row = 0
  /\ request[q].pc = "looked" => \A a \in Rows : <<"event", a>> \notin held[q]
  /\ request[q].pc = "checked" => held[q] = {}
HeldSince == \A q \in Requests : HeldFor(q)

\* A request that does not move, and one that goes on asking for the same: what has held
\* its slot ever since can only get less.
LEMMA WatchesOn ==
  ASSUME Watches, NEW q \in Requests, HeldFor(q),
         \/ request'[q].pc = "idle"
         \/ /\ request[q].pc # "idle"
            /\ request'[q].kind = request[q].kind /\ request'[q].slot = request[q].slot
            /\ request'[q].kind = "reschedule" => request'[q].row = request[q].row
  PROVE  /\ request'[q].pc = "idle" \/ request'[q].kind = "cancel" => held'[q] = {}
         /\ held'[q] \subseteq held[q]
         /\ held'[q] \subseteq Holders(row', event', request'[q].slot)
         /\ request'[q].kind = "reschedule" => <<"row", request'[q].row>> \notin held'[q]
<1>1. CASE request'[q].pc = "idle" \/ request'[q].kind = "cancel"
  <2>1. held'[q] = {}
    BY <1>1 DEF Watches
  <2> QED BY <1>1, <2>1
<1>2. CASE ~(request'[q].pc = "idle" \/ request'[q].kind = "cancel")
  <2>1. held'[q] = held[q] \cap Holders(row', event', request'[q].slot)
    BY <1>2 DEF Watches
  <2> QED BY <1>2, <2>1 DEF HeldFor
<1> QED BY <1>1, <1>2

LEMMA OthersWatch ==
  ASSUME Watches, NEW q \in Requests, HeldFor(q), request'[q] = request[q]
  PROVE  HeldFor(q)'
<1>1. CASE request[q].pc = "idle"
  BY <1>1, WatchesOn DEF HeldFor
<1>2. CASE request[q].pc # "idle"
  BY <1>2, WatchesOn DEF HeldFor
<1> QED BY <1>1, <1>2

\* The watch begins with what holds the slot, but the row that is to be moved.
LEMMA FormsWatch ==
  ASSUME Bookings, Watches, NEW q \in Requests,
         \/ PanelBooks(q) \/ PanelMoves(q) \/ PanelCancels(q)
         \/ AssistantBooks(q) \/ AssistantMoves(q) \/ AssistantCancels(q)
  PROVE  HeldFor(q)'
<1>1. /\ UNCHANGED <<row, event>> /\ request[q].pc = "idle" /\ request'[q].pc = "asked"
      /\ request'[q].kind = "create" => request'[q].row = 0
  BY FormsAsk
<1>2. held'[q] = IF request'[q].kind = "cancel" THEN {}
                 ELSE Others(q, Holders(row, event, request'[q].slot))
  <2>1. CASE request'[q].kind = "cancel"
    BY <1>1, <2>1 DEF Watches
  <2>2. CASE request'[q].kind # "cancel"
    BY <1>1, <2>2 DEF Watches
  <2> QED BY <2>1, <2>2
<1>3. held'[q] \subseteq Holders(row', event', request'[q].slot)
  BY <1>1, <1>2 DEF Others
<1>4. request'[q].kind = "reschedule" => <<"row", request'[q].row>> \notin held'[q]
  BY <1>1, <1>2 DEF Others
<1> QED BY <1>1, <1>2, <1>3, <1>4 DEF HeldFor

\* No event holds the slot once Google has answered, no row once the table has.
LEMMA LooksWatch ==
  ASSUME Bookings, Watches, NEW q \in Requests, HeldFor(q),
         RequestStops(q) \/ LookToCreate(q) \/ LookToChange(q) \/ CheckConflict(q)
  PROVE  HeldFor(q)'
<1>1. /\ UNCHANGED <<row, event>>
      /\ request[q].pc # "idle" /\ request'[q].pc \in {"idle", "looked", "checked"}
      /\ request'[q].pc # "idle" =>
           /\ request'[q].kind = request[q].kind /\ request'[q].slot = request[q].slot
           /\ request'[q].row = request[q].row
  BY LooksGoOn
<1>2. /\ request'[q].pc = "idle" \/ request'[q].kind = "cancel" => held'[q] = {}
      /\ held'[q] \subseteq held[q]
      /\ held'[q] \subseteq Holders(row', event', request'[q].slot)
      /\ request'[q].kind = "reschedule" => <<"row", request'[q].row>> \notin held'[q]
  BY <1>1, WatchesOn
<1>3. CASE request'[q].pc = "idle"
  BY <1>2, <1>3 DEF HeldFor
<1>4. CASE request'[q].pc # "idle"
  <2>1. request'[q].kind = "create" => request'[q].row = 0
    <3>1. request[q].pc \in {"asked", "looked"}
      BY <1>4 DEF LookToCreate, LookToChange, CheckConflict, RequestStops, Ends, Idle,
         Bookings, TypeOK
    <3> QED BY <1>1, <1>4, <3>1 DEF HeldFor
  <2>2. request'[q].pc = "looked" => \A a \in Rows : <<"event", a>> \notin held'[q]
    <3> SUFFICES ASSUME request'[q].pc = "looked" PROVE Free(request[q].slot)
      BY <1>1, <1>2, <1>4 DEF Holders, Free
    <3>1. LookToCreate(q) \/ LookToChange(q)
      BY <1>4 DEF CheckConflict, RequestStops, Ends, Go, Idle, Bookings, TypeOK, RequestState
    <3>2. CASE LookToCreate(q)
      BY <1>4, <3>2 DEF LookToCreate, Ends, Idle, Bookings, TypeOK
    <3>3. CASE LookToChange(q)
      <4>1. CASE request[q].kind = "cancel"
        BY <1>4, <3>3, <4>1 DEF LookToChange, Ends, Idle, Bookings, TypeOK, RequestState
      <4>2. CASE request[q].kind = "reschedule"
        BY <1>4, <3>3, <4>2 DEF LookToChange, Ends, Idle, Bookings, TypeOK
      <4> QED BY <3>3, <4>1, <4>2 DEF LookToChange, Bookings, TypeOK, RequestState
    <3> QED BY <3>1, <3>2, <3>3
  <2>3. request'[q].pc = "checked" => held'[q] = {}
    <3> SUFFICES ASSUME request'[q].pc = "checked", request'[q].kind # "cancel"
                 PROVE  held'[q] = {}
      BY <1>2
    <3>1. CheckConflict(q) /\ NoConflict(request[q].slot, request[q].row)
      <4>1. ~LookToChange(q)
        BY <1>1, <1>4 DEF LookToChange, Ends, Idle, Bookings, TypeOK, RequestState
      <4>2. CheckConflict(q)
        BY <1>4, <4>1 DEF LookToCreate, RequestStops, Ends, Go, Idle, Bookings, TypeOK,
           RequestState
      <4> QED BY <1>4, <4>2 DEF CheckConflict, Ends, Idle, Bookings, TypeOK
    <3>2. \A a \in Rows : <<"event", a>> \notin held[q]
      BY <3>1 DEF CheckConflict, HeldFor
    <3>3. \A a \in Rows \ {request[q].row} :
            ~(row[a].status \in Active /\ row[a].slot = request[q].slot)
      BY <3>1 DEF NoConflict, Taken, Active
    <3>4. \A a \in Rows : <<"row", a>> \in held'[q] => a = request[q].row
      BY <1>1, <1>2, <1>4, <3>3 DEF Holders
    <3>5. <<"row", request[q].row>> \notin held'[q]
      <4>1. CASE request[q].kind = "create"
        <5>1. request[q].row = 0
          BY <3>1, <4>1 DEF CheckConflict, HeldFor
        <5> QED BY <1>2, <5>1 DEF Holders, Rows
      <4>2. CASE request[q].kind = "reschedule"
        BY <1>1, <1>2, <1>4, <4>2
      <4> QED BY <1>1, <1>4, <4>1, <4>2 DEF Bookings, TypeOK, RequestState
    <3>6. held'[q] \subseteq {<<"row", a>> : a \in Rows} \cup {<<"event", a>> : a \in Rows}
      BY <1>2 DEF Holders
    <3> QED BY <1>2, <3>2, <3>4, <3>5, <3>6
  <2> QED BY <1>2, <1>4, <2>1, <2>2, <2>3 DEF HeldFor
<1> QED BY <1>3, <1>4

\* What the claim and the steps after it do: the request ends or goes on with what it asked.
LEMMA ClaimsGoOn ==
  ASSUME Bookings, NEW q \in Requests,
         Insert(q) \/ ClaimOperation(q) \/ CallGoogle(q) \/ Record(q)
  PROVE  /\ \A p \in Requests \ {q} : request'[p] = request[p]
         /\ request[q].pc # "idle" /\ request'[q].pc \in {"idle", "claimed", "called"}
         /\ request'[q].pc # "idle" =>
              /\ request'[q].kind = request[q].kind /\ request'[q].slot = request[q].slot
              /\ request'[q].kind = "reschedule" => request'[q].row = request[q].row
<1>1. request[q] \in RequestState /\ DOMAIN request = Requests /\ request[q].pc # "idle"
  BY DEF Bookings, TypeOK, Insert, ClaimOperation, CallGoogle, Record
<1>2. CASE Ends(q)
  BY <1>1, <1>2 DEF Ends, Idle
<1>3. CASE Insert(q) /\ ~Ends(q)
  <2>1. PICK a \in Rows : request' = [request EXCEPT ![q].pc = "claimed", ![q].row = a]
    BY <1>3 DEF Insert
  <2>2. request[q].kind = "create"
    BY <1>3 DEF Insert
  <2> QED BY <1>1, <2>1, <2>2 DEF RequestState
<1>4. CASE ClaimOperation(q) /\ ~Ends(q)
  BY <1>1, <1>4 DEF ClaimOperation, Go, RequestState
<1>5. CASE CallGoogle(q)
  <2>1. PICK yes \in BOOLEAN :
          request' = [request EXCEPT ![q].pc = "called", ![q].done = yes]
    BY <1>5 DEF CallGoogle
  <2> QED BY <1>1, <2>1 DEF RequestState
<1>6. CASE Record(q)
  BY <1>2, <1>6 DEF Record
<1> QED BY <1>2, <1>3, <1>4, <1>5, <1>6

LEMMA StepWatches ==
  ASSUME AppointmentsAssumption, Bookings, HeldSince, [Next]_vars
  PROVE  HeldSince'
<1>1. CASE UNCHANGED vars
  BY <1>1 DEF vars, HeldSince, HeldFor
<1>2. ASSUME Step, Watches
      PROVE  HeldSince'
  <2>1. ASSUME NEW q \in Requests, HeldFor(q)',
               \A p \in Requests \ {q} : request'[p] = request[p]
        PROVE  HeldSince'
    BY <1>2, <2>1, OthersWatch DEF HeldSince
  <2>2. ASSUME NEW q \in Requests,
               \/ PanelBooks(q) \/ PanelMoves(q) \/ PanelCancels(q)
               \/ AssistantBooks(q) \/ AssistantMoves(q) \/ AssistantCancels(q)
        PROVE  HeldSince'
    BY <1>2, <2>1, <2>2, FormsAsk, FormsWatch
  <2>3. ASSUME NEW q \in Requests,
               RequestStops(q) \/ LookToCreate(q) \/ LookToChange(q) \/ CheckConflict(q)
        PROVE  HeldSince'
    BY <1>2, <2>1, <2>3, LooksGoOn, LooksWatch DEF HeldSince
  <2>4. ASSUME NEW q \in Requests,
               Insert(q) \/ ClaimOperation(q) \/ CallGoogle(q) \/ Record(q)
        PROVE  HeldSince'
    <3>1. /\ \A p \in Requests \ {q} : request'[p] = request[p]
          /\ request[q].pc # "idle" /\ request'[q].pc \in {"idle", "claimed", "called"}
          /\ request'[q].pc # "idle" =>
               /\ request'[q].kind = request[q].kind /\ request'[q].slot = request[q].slot
               /\ request'[q].kind = "reschedule" => request'[q].row = request[q].row
      BY <2>4, ClaimsGoOn
    <3>2. HeldFor(q)'
      BY <1>2, <3>1, WatchesOn DEF HeldFor, HeldSince
    <3> QED BY <2>1, <3>1, <3>2
  <2>5. ASSUME NEW c \in delayed, TakesEffectLate(c)
        PROVE  HeldSince'
    BY <1>2, <2>5, OthersWatch DEF TakesEffectLate, HeldSince
  <2> QED BY <1>2, <2>2, <2>3, <2>4, <2>5 DEF Step
<1> QED BY <1>1, <1>2 DEF Next

\* For any of them too: no booking and no move is committed over an appointment or an
\* event that held the slot from before the request until then, though nothing locks the
\* slot between the two halves of checkSlot and the insert or the claim.
THEOREM NothingBookedOver ==
  ASSUME AppointmentsAssumption
  PROVE  Spec => BooksOverNothingHeld
<1>1. Init => Bookings /\ HeldSince
  BY InitBookings DEF Init, HeldSince, HeldFor, Idle
<1>2. Bookings /\ HeldSince /\ [Next]_vars => (Bookings /\ HeldSince)'
  BY StepKeepsBookings, StutterKeepsBookings, StepWatches
<1>3. Bookings /\ HeldSince /\ [Next]_vars => [BooksOverNothingHeldStep]_vars
  BY DEF HeldSince, HeldFor, BooksOverNothingHeldStep
<1> QED BY <1>1, <1>2, <1>3, PTL DEF Spec, BooksOverNothingHeld
==============================================================================
