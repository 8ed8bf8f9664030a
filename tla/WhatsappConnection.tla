--------------------------- MODULE WhatsappConnection ---------------------------
(***************************************************************************)
(* The WhatsApp numbers of one organization and how they are connected     *)
(* (whatsapp/embedded-signup.ts, manual-connection.ts, ycloud-connection.ts*)
(* and actions/whatsapp.ts): the popup of Meta with its temporary code,    *)
(* the two forms, the test of a stored connection and its disconnection.   *)
(* Every write is a serializable transaction, hence one action; the calls  *)
(* to the provider lie between the read and the write of a session.        *)
(***************************************************************************)
EXTENDS Naturals, FiniteSets

CONSTANTS
  Numbers,      \* numbers a provider may answer with
  Foreign,      \* those of them another organization has a row for
  Codes,        \* temporary codes of the popup
  Requests,     \* requests that complete a signup
  Sessions,     \* requests that test, reconnect or disconnect
  MaxAttempts,
  MaxClock      \* writes of lastSyncedAt

\* What the constants must be, for the instances of this module.
ConnectionAssumption ==
  Foreign \subseteq Numbers /\ MaxAttempts \in Nat /\ MaxClock \in Nat

VARIABLES
  row,          \* the integration of each number: status, lastSyncedAt
  pending,      \* numbers whose conversations have a pending follow-up
  clock,
  attempt,      \* the only row of attempts: id, status, code, in force or expired
  request,      \* the local state of the requests that complete a signup
  session,      \* the local state of a session: what it read
  exchanged,    \* history: exchanges of each code in each attempt
  connections,  \* history: connections made while each attempt had the row
  cancelled,    \* history: attempts the user cancelled
  renewed,      \* history: sessions whose row was saved again since they read it
  dropped       \* history: sessions whose row was disconnected since they read it

vars == <<row, pending, clock, attempt, request, session, exchanged, connections,
          cancelled, renewed, dropped>>
rows == <<row, pending, clock>>

Attempts == 1 .. MaxAttempts
NoCode == "none"
Active == {"CONNECTED", "ACTION_REQUIRED", "ERROR"}
Free == [pc |-> "idle", attempt |-> 0, code |-> NoCode]
Closed == [op |-> "none", number |-> "none", read |-> [status |-> "NONE", synced |-> 0]]

\* Rows, requests and sessions keep their types.
TypeOK ==
  /\ row \in [Numbers -> [status : Active \cup {"DISCONNECTED", "NONE"}, synced : 0 .. MaxClock]]
  /\ pending \subseteq Numbers
  /\ clock \in 0 .. MaxClock
  /\ attempt \in [id : 0 .. MaxAttempts, live : BOOLEAN, code : Codes \cup {NoCode},
                  status : {"NONE", "AWAITING_CODE", "PROCESSING", "SUCCEEDED", "FAILED"}]
  /\ request \in [Requests -> [pc : {"idle", "exchanging", "connected", "failed"},
                               attempt : 0 .. MaxAttempts, code : Codes \cup {NoCode}]]
  /\ session \in [Sessions -> [op : {"none", "test", "disconnect"},
                               number : Numbers \cup {"none"},
                               read : [status : Active \cup {"DISCONNECTED", "NONE"},
                                       synced : 0 .. MaxClock]]]

Init ==
  /\ row = [n \in Numbers |-> [status |-> "NONE", synced |-> 0]]
  /\ pending = {}
  /\ clock = 0
  /\ attempt = [id |-> 0, live |-> FALSE, code |-> NoCode, status |-> "NONE"]
  /\ request = [r \in Requests |-> Free]
  /\ session = [s \in Sessions |-> Closed]
  /\ exchanged = [a \in Attempts |-> [c \in Codes |-> 0]]
  /\ connections = [a \in Attempts |-> 0]
  /\ cancelled = {} /\ renewed = {} /\ dropped = {}

(***************************************************************************)
(* The connection of a number disconnects every other one.                 *)
(***************************************************************************)
\* Mutation: only the connected ones, not those in error, are disconnected.
DisconnectedWell(n) == {m \in Numbers \ {n} : row[m].status = "CONNECTED"}
\* The other integrations of the organization that a connection of n disconnects.
Disabled(n) == {m \in Numbers \ {n} : row[m].status \in Active}

\* Mutation: with the status the schema has for a connection in course.
Connecting(at) == [status |-> "CONNECTING", synced |-> at]
Connected(at) == [status |-> "CONNECTED", synced |-> at]

\* What the sessions that read these numbers do not know.
OnNumbers(gone, back) ==
  /\ renewed' = renewed \cup {s \in Sessions : session[s].number \in back}
  /\ dropped' = dropped \cup {s \in Sessions : session[s].number \in gone}

\* The row of the number is saved, the others disconnected, their follow-ups cancelled.
Saves(n) ==
  /\ clock < MaxClock
  /\ clock' = clock + 1
  /\ row' = [m \in Numbers |->
       IF m = n THEN Connected(clock + 1)
       ELSE IF m \in Disabled(n) THEN [row[m] EXCEPT !.status = "DISCONNECTED"]
       ELSE row[m]]
  /\ pending' = pending \ Disabled(n)
  /\ OnNumbers(Disabled(n), {n})

\* A form is validated by its provider and saved: a number of another organization is refused.
Connects(n) ==
  /\ n \notin Foreign
  /\ Saves(n)
  /\ UNCHANGED <<attempt, request, session, exchanged, connections, cancelled>>

\* A message sent over a connected number schedules a follow-up.
Schedules(n) ==
  /\ row[n].status = "CONNECTED"
  /\ pending' = pending \cup {n}
  /\ UNCHANGED <<row, clock, attempt, request, session, exchanged, connections, cancelled,
                 renewed, dropped>>

(***************************************************************************)
(* The attempt: one row per organization, ten minutes.                     *)
(***************************************************************************)
Starts ==
  /\ ~ (attempt.live /\ attempt.status \in {"AWAITING_CODE", "PROCESSING"})
  /\ attempt.id < MaxAttempts
  /\ attempt' = [id |-> attempt.id + 1, live |-> TRUE, code |-> NoCode,
                 status |-> "AWAITING_CODE"]
  /\ UNCHANGED <<row, pending, clock, request, session, exchanged, connections, cancelled,
                 renewed, dropped>>

TimePasses ==
  /\ attempt.live
  /\ attempt' = [attempt EXCEPT !.live = FALSE]
  /\ UNCHANGED <<row, pending, clock, request, session, exchanged, connections, cancelled,
                 renewed, dropped>>

\* Mutation: an exchange under way is cancelled like a popup that was closed.
AnyUnfinished == attempt.status \in {"AWAITING_CODE", "PROCESSING"}
\* What a cancellation finds: the nonce of the attempt and no code yet.
Cancellable == attempt.status = "AWAITING_CODE"

Cancels ==
  /\ Cancellable
  /\ attempt' = [attempt EXCEPT !.status = "FAILED", !.code = NoCode, !.live = FALSE]
  /\ cancelled' = cancelled \cup {attempt.id}
  /\ UNCHANGED <<row, pending, clock, request, session, exchanged, connections, renewed, dropped>>

\* Mutation: a code is claimed whatever the state of the attempt.
AnyClaim(c) == attempt.live
\* The attempt a code can be claimed for; one under way answers "processing" or an error.
Claimable(c) == attempt.live /\ attempt.status = "AWAITING_CODE" /\ attempt.code = NoCode

\* The popup of the attempt hands in its code: claimed, then exchanged with Meta.
Claims(r, c) ==
  /\ request[r].pc = "idle"
  /\ Claimable(c)
  /\ attempt' = [attempt EXCEPT !.status = "PROCESSING", !.code = c]
  /\ request' = [request EXCEPT ![r] = [pc |-> "exchanging", attempt |-> attempt.id, code |-> c]]
  /\ exchanged' = [exchanged EXCEPT ![attempt.id][c] = @ + 1]
  /\ UNCHANGED <<row, pending, clock, session, connections, cancelled, renewed, dropped>>

\* Mutation: the attempt is not checked again when the connection is saved.
AnyAttempt(r) == TRUE
\* The attempt still is the one whose code the request claimed.
Owned(r) == attempt.status = "PROCESSING" /\ attempt.code = request[r].code

\* Meta answered with the number: the connection is saved if the attempt is still in course.
Completes(r, n) ==
  /\ request[r].pc = "exchanging"
  /\ n \notin Foreign
  /\ Owned(r)
  /\ Saves(n)
  /\ attempt' = [attempt EXCEPT !.status = "SUCCEEDED"]
  /\ request' = [request EXCEPT ![r].pc = "connected"]
  /\ connections' = [connections EXCEPT ![attempt.id] = @ + 1]
  /\ UNCHANGED <<session, exchanged, cancelled>>

\* The provider failed, the number is taken, or the attempt is another one by now.
FailsSignup(r) ==
  /\ request[r].pc = "exchanging"
  /\ attempt' = IF attempt.status = "PROCESSING" /\ attempt.code = request[r].code
                THEN [attempt EXCEPT !.status = "FAILED"] ELSE attempt
  /\ request' = [request EXCEPT ![r].pc = "failed"]
  /\ UNCHANGED <<row, pending, clock, session, exchanged, connections, cancelled, renewed, dropped>>

(***************************************************************************)
(* The stored connection: read, checked with the provider, written if the  *)
(* row is the one that was read.                                           *)
(***************************************************************************)
ActiveRows == {n \in Numbers : row[n].status \in Active}
Newest(ns) == CHOOSE n \in ns : \A m \in ns : row[n].synced >= row[m].synced
\* resolveCurrentWhatsappIntegration: the active row, or the newest of the historical ones.
Current ==
  LET stored == {n \in Numbers : row[n].status # "NONE"}
  IN IF Cardinality(ActiveRows) > 1 \/ stored = {} THEN "none"
     ELSE IF ActiveRows # {} THEN Newest(ActiveRows) ELSE Newest(stored)

Opens(s, op) ==
  /\ session[s].op = "none"
  /\ Current # "none"
  /\ session' = [session EXCEPT ![s] = [op |-> op, number |-> Current, read |-> row[Current]]]
  /\ renewed' = renewed \ {s} /\ dropped' = dropped \ {s}
  /\ UNCHANGED <<row, pending, clock, attempt, request, exchanged, connections, cancelled>>

\* Mutation: the row is found by its identifier alone.
SameRow(s) == Current = session[s].number
\* The current row is the one read, with the configuration that was read.
Same(s) == Current = session[s].number /\ row[session[s].number] = session[s].read

\* The provider accepts the stored credentials: connected again, whatever its status was.
Passes(s) ==
  LET n == session[s].number IN
  /\ session[s].op = "test"
  /\ Same(s)
  /\ clock < MaxClock
  /\ clock' = clock + 1
  /\ row' = [row EXCEPT ![n] = Connected(clock + 1)]
  /\ session' = [session EXCEPT ![s] = Closed]
  /\ UNCHANGED <<pending, attempt, request, exchanged, connections, cancelled>>
  /\ OnNumbers({}, {n})

\* Mutation: the follow-ups of a number in error are kept.
KeptFollowUps(n) == pending
\* cancelPendingFollowUpsTx of the integration, in the same transaction.
WithoutFollowUps(n) == pending \ {n}

\* The provider refuses them, or cannot be reached: a disconnected row becomes one in error.
Refuses(s, st) ==
  LET n == session[s].number IN
  /\ session[s].op = "test"
  /\ st \in {"ACTION_REQUIRED", "ERROR"}
  /\ Same(s)
  /\ row' = [row EXCEPT ![n].status = st]
  /\ pending' = WithoutFollowUps(n)
  /\ session' = [session EXCEPT ![s] = Closed]
  /\ UNCHANGED <<clock, attempt, request, exchanged, connections, cancelled, renewed, dropped>>

Disconnects(s) ==
  LET n == session[s].number IN
  /\ session[s].op = "disconnect"
  /\ Same(s)
  /\ row' = [row EXCEPT ![n].status = "DISCONNECTED"]
  /\ pending' = WithoutFollowUps(n)
  /\ session' = [session EXCEPT ![s] = Closed]
  /\ OnNumbers({n}, {})
  /\ UNCHANGED <<clock, attempt, request, exchanged, connections, cancelled>>

\* "La conexión cambió": nothing is written.
Changed(s) ==
  /\ session[s].op # "none"
  /\ ~ Same(s)
  /\ session' = [session EXCEPT ![s] = Closed]
  /\ UNCHANGED <<row, pending, clock, attempt, request, exchanged, connections, cancelled,
                 renewed, dropped>>

Next ==
  \/ Starts \/ TimePasses \/ Cancels
  \/ \E n \in Numbers : Connects(n) \/ Schedules(n)
  \/ \E r \in Requests :
       \/ \E c \in Codes : Claims(r, c)
       \/ \E n \in Numbers : Completes(r, n)
       \/ FailsSignup(r)
  \/ \E s \in Sessions :
       \/ \E op \in {"test", "disconnect"} : Opens(s, op)
       \/ Passes(s) \/ Disconnects(s) \/ Changed(s)
       \/ \E st \in {"ACTION_REQUIRED", "ERROR"} : Refuses(s, st)

Spec == Init /\ [][Next]_vars

(***************************************************************************)
(* Properties.                                                             *)
(***************************************************************************)
\* However connections, tests and disconnections interleave, one number at most is in
\* force: two would make every later operation refuse the organization as ambiguous.
OneActive == Cardinality(ActiveRows) <= 1

\* A number that is not connected leaves no follow-up waiting to be sent over it.
NoFollowUpLeft == \A n \in pending : row[n].status = "CONNECTED"

\* A code is exchanged once in an attempt, and an attempt connects once, not at all when
\* the user cancelled it: neither a late answer of Meta nor a second tab adds another.
OncePerAttempt ==
  /\ \A a \in Attempts, c \in Codes : exchanged[a][c] <= 1
  /\ \A a \in Attempts : connections[a] <= (IF a \in cancelled THEN 0 ELSE 1)

\* The verdict of a check is not written over a connection saved since it was read, whose
\* credentials are others.
VerdictOfReadStep == \A s \in Sessions :
  (session[s].op # "none" /\ s \in renewed /\ session'[s].op = "none")
    => row' = row
VerdictOfRead == [][VerdictOfReadStep]_vars

\* A connection that was disconnected during a check is not brought back by it.
StaysDisconnected == [][\A s \in Sessions :
  (session[s].op = "test" /\ s \in dropped /\ session'[s].op = "none")
    => row'[session[s].number].status # "CONNECTED" \/ row' = row]_vars
=================================================================================
