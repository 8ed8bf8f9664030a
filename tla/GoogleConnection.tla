---------------------------- MODULE GoogleConnection ----------------------------
(***************************************************************************)
(* The Google Calendar connection of one organization                      *)
(* (integrations/google-calendar): the one-use states of the OAuth flow,   *)
(* the single row of the connection and the requests that use it.  Each    *)
(* request awaits Google between what it reads and what it writes, and     *)
(* writes by organization, whatever row is there by then.                  *)
(***************************************************************************)
EXTENDS Naturals, FiniteSets

CONSTANTS
  MaxFlows,    \* consent flows started over the whole behaviour
  MaxRows,     \* connection rows inserted over the whole behaviour
  Users, Accounts,
  Requests     \* requests in progress at once

Flows == 1 .. MaxFlows
\* What the constants must be, for the instances of this module.
GoogleAssumption == MaxFlows \in Nat /\ MaxRows \in Nat

VARIABLES
  state,     \* the OAuth states, one per flow
  account,   \* the Google account that granted each flow
  conn,      \* the connection row: its tokens are named by their flow
  request,   \* the local state of the requests in progress
  rows,      \* rows inserted so far
  saves      \* history: connections saved for each flow

vars == <<state, account, conn, request, rows, saves>>

NoRow == [id |-> 0, status |-> "NONE", refresh |-> 0, access |-> 0,
          fresh |-> FALSE, calendar |-> "none"]
Idle == [pc |-> "idle", user |-> "none", flow |-> 0, row |-> 0,
         calendar |-> "none", seen |-> 0]

\* The row, the states and the requests keep their types.
TypeOK ==
  /\ state \in [Flows -> [status : {"none", "issued", "expired", "used"},
                          user : {"none"} \cup Users]]
  /\ account \in [Flows -> {"none"} \cup Accounts]
  /\ conn \in [id : 0 .. MaxRows, status : {"NONE", "CONNECTED", "ERROR"},
               refresh : {0} \cup Flows, access : {0} \cup Flows,
               fresh : BOOLEAN, calendar : {"none"} \cup Accounts]
  /\ request \in [Requests ->
       [pc : {"idle", "found", "exchange", "granted", "manage", "select", "test",
              "failed", "revoking"} \cup
             {"refresh_manage", "refresh_select", "refresh_test"},
        user : {"none"} \cup Users, flow : {0} \cup Flows, row : 0 .. MaxRows,
        calendar : {"none"} \cup Accounts, seen : 0 .. MaxRows]]
  /\ rows \in 0 .. MaxRows
  /\ saves \in [Flows -> Nat]

Init ==
  /\ state = [s \in Flows |-> [status |-> "none", user |-> "none"]]
  /\ account = [s \in Flows |-> "none"]
  /\ conn = NoRow
  /\ request = [q \in Requests |-> Idle]
  /\ rows = 0
  /\ saves = [s \in Flows |-> 0]

Ends(q) == request' = [request EXCEPT ![q] = Idle]
Begins(q, r) == request[q].pc = "idle"
                /\ request' = [request EXCEPT ![q] = [r EXCEPT !.seen = rows]]

------------------------------------------------------------------------------
\* A person goes to Google's consent page: createGoogleOAuthState.
Connect(u) ==
  \E s \in Flows :
    /\ state[s].status = "none" /\ \A t \in Flows : t < s => state[t].status # "none"
    /\ state' = [state EXCEPT ![s] = [status |-> "issued", user |-> u]]
    /\ UNCHANGED <<account, conn, request, rows, saves>>

StateExpires(s) ==
  /\ state[s].status = "issued"
  /\ state' = [state EXCEPT ![s].status = "expired"]
  /\ UNCHANGED <<account, conn, request, rows, saves>>

\* resolveStateConsumption, on the state as it was found.
Consumable(s, u) == state[s].status = "issued" /\ state[s].user = u

\* The redirect reaches the callback, perhaps twice or in another session.
CallbackFinds(q) ==
  \E s \in Flows, u \in Users :
    /\ Consumable(s, u)
    /\ Begins(q, [Idle EXCEPT !.pc = "found", !.flow = s, !.user = u])
    /\ UNCHANGED <<state, account, conn, rows, saves>>

\* markUsed; the person may have refused, and the state is used all the same.
\* The expiry was compared before.  Mutation: usedAt is not compared.
UsableAgain(s) == TRUE
Unused(s) == state[s].status # "used"
CallbackMarks(q) ==
  LET s == request[q].flow IN
  /\ request[q].pc = "found"
  /\ IF Unused(s)
     THEN /\ state' = [state EXCEPT ![s].status = "used"]
          /\ \/ request' = [request EXCEPT ![q].pc = "exchange"]
             \/ Ends(q)
     ELSE Ends(q) /\ UNCHANGED state
  /\ UNCHANGED <<account, conn, rows, saves>>

\* The account that consents, and the tokens Google gives for it.
Consents(s, a) == account' = [account EXCEPT ![s] = a]

\* The code is exchanged for the tokens of the account that consented.
CallbackExchanges(q) ==
  /\ request[q].pc = "exchange"
  /\ \/ \E a \in Accounts :
          /\ Consents(request[q].flow, a)
          /\ request' = [request EXCEPT ![q].pc = "granted"]
     \/ Ends(q) /\ UNCHANGED account
  /\ UNCHANGED <<state, conn, rows, saves>>

\* saveGoogleConnection: an upsert that keeps the row and its calendar.
Saved(s) ==
  [IF conn.id = 0 THEN [NoRow EXCEPT !.id = rows + 1] ELSE conn
   EXCEPT !.status = "CONNECTED", !.refresh = s, !.access = s, !.fresh = TRUE]
CallbackSaves(q) ==
  LET s == request[q].flow IN
  /\ request[q].pc = "granted"
  /\ conn.id = 0 => rows < MaxRows
  /\ conn' = Saved(s)
  /\ rows' = IF conn.id = 0 THEN rows + 1 ELSE rows
  /\ saves' = [saves EXCEPT ![s] = @ + 1]
  /\ Ends(q)
  /\ UNCHANGED <<state, account>>

------------------------------------------------------------------------------
AccessExpires ==
  /\ conn.fresh
  /\ conn' = [conn EXCEPT !.fresh = FALSE]
  /\ UNCHANGED <<state, account, request, rows, saves>>

\* getValidAccessToken reads the row: it uses the stored token or renews it.
\* Managing events wants a healthy connection; listing and testing do not.
ReadsToken(q, use, c) ==
  LET expired == [manage |-> "refresh_manage", select |-> "refresh_select",
                  test |-> "refresh_test"] IN
  /\ conn.id # 0
  /\ use = "manage" => conn.status = "CONNECTED"
  /\ Begins(q, [Idle EXCEPT
       !.pc = IF conn.fresh THEN use ELSE expired[use],
       !.flow = IF conn.fresh THEN conn.access ELSE conn.refresh,
       !.calendar = c])
  /\ UNCHANGED <<state, account, conn, rows, saves>>

ManagesEvents(q) == ReadsToken(q, "manage", "none")
ChoosesCalendar(q) == \E c \in Accounts : ReadsToken(q, "select", c)
TestsConnection(q) ==
  \/ ReadsToken(q, "test", "none")
  \/ /\ conn.id = 0
     /\ Begins(q, [Idle EXCEPT !.pc = "failed"])
     /\ UNCHANGED <<state, account, conn, rows, saves>>

\* updateMany by organization changes the row there is, if there is one.
Write(r) == IF conn.id = 0 THEN conn ELSE r

\* The row after a renewal.  Mutation: the status of a delivery.
RenewedAsSent(s) == [conn EXCEPT !.status = "SENT", !.access = s, !.fresh = TRUE]
Renewed(s) == [conn EXCEPT !.status = "CONNECTED", !.access = s, !.fresh = TRUE]
Renews(q) ==
  LET use == [refresh_manage |-> "manage", refresh_select |-> "select",
              refresh_test |-> "test"] IN
  /\ request[q].pc \in DOMAIN use
  /\ \/ /\ conn' = Write(Renewed(request[q].flow))
        /\ request' = [request EXCEPT ![q].pc = use[request[q].pc]]
     \/ /\ conn' = Write([conn EXCEPT !.status = "ERROR"])
        /\ IF use[request[q].pc] = "test"
           THEN request' = [request EXCEPT ![q].pc = "failed"] ELSE Ends(q)
  /\ UNCHANGED <<state, account, rows, saves>>

\* The token is given to the booking that asked for it.
UsesToken(q) ==
  /\ request[q].pc = "manage"
  /\ Ends(q)
  /\ UNCHANGED <<state, account, conn, rows, saves>>

\* selectGoogleCalendar: the calendar must be in the list of the account.
\* Mutation: the identifier of the form is stored as it came.
ListsAny(s, c) == TRUE
Lists(s, c) == account[s] = c
StoresCalendar(q) ==
  /\ request[q].pc = "select"
  /\ conn' = IF Lists(request[q].flow, request[q].calendar)
             THEN Write([conn EXCEPT !.calendar = request[q].calendar]) ELSE conn
  /\ Ends(q)
  /\ UNCHANGED <<state, account, rows, saves>>

RecordsTest(q) ==
  /\ request[q].pc \in {"test", "failed"}
  /\ \E s \in {"CONNECTED", "ERROR"} :
       /\ request[q].pc = "failed" => s = "ERROR"
       /\ conn' = Write([conn EXCEPT !.status = s])
  /\ Ends(q)
  /\ UNCHANGED <<state, account, rows, saves>>

------------------------------------------------------------------------------
\* disconnectGoogleCalendar reads the row and asks Google to revoke its token.
Revokes(q) ==
  /\ conn.id # 0
  /\ Begins(q, [Idle EXCEPT !.pc = "revoking", !.row = conn.id])
  /\ UNCHANGED <<state, account, conn, rows, saves>>

\* Whatever Google says, the row that was read is deleted.  Mutation: the row
\* of the organization.
IsAnyRow(q) == TRUE
IsRowRead(q) == conn.id = request[q].row
Deletes(q) ==
  /\ request[q].pc = "revoking"
  /\ conn' = IF IsRowRead(q) THEN NoRow ELSE conn
  /\ Ends(q)
  /\ UNCHANGED <<state, account, rows, saves>>

\* A call to Google fails where nothing is written, or the request is cut off.
RequestStops(q) ==
  /\ request[q].pc # "idle"
  /\ Ends(q)
  /\ UNCHANGED <<state, account, conn, rows, saves>>

Next ==
  \/ \E u \in Users : Connect(u)
  \/ \E s \in Flows : StateExpires(s)
  \/ AccessExpires
  \/ \E q \in Requests :
       \/ CallbackFinds(q) \/ CallbackMarks(q) \/ CallbackExchanges(q)
       \/ CallbackSaves(q)
       \/ ManagesEvents(q) \/ ChoosesCalendar(q) \/ TestsConnection(q)
       \/ Renews(q) \/ UsesToken(q) \/ StoresCalendar(q) \/ RecordsTest(q)
       \/ Revokes(q) \/ Deletes(q) \/ RequestStops(q)

Spec == Init /\ [][Next]_vars

------------------------------------------------------------------------------
\* A state is good for one connection, even when its redirect is delivered
\* twice at the same time ("El doble callback pierde la carrera en markUsed").
OneConnectionPerState == \A s \in Flows : saves[s] <= 1

\* A disconnection that waits for Google does not take away a connection that
\* was inserted after it began (disconnectGoogleCalendar).
NewConnectionSurvivesStep ==
  \A q \in Requests :
    request[q].pc = "revoking" /\ request'[q].pc = "idle" /\ conn'.id = 0
      => conn.id <= request[q].seen
NewConnectionSurvives == [][NewConnectionSurvivesStep]_vars

\* The calendar stored was listed by an account that consented here.
CalendarWasListed ==
  conn.calendar # "none" => \E s \in Flows : saves[s] > 0 /\ account[s] = conn.calendar

\* The two tokens of the connection belong to one account ("En reconexión se
\* reemplazan los tokens").
TokensOfOneAccount == conn.id # 0 => account[conn.refresh] = account[conn.access]

\* The calendar stored belongs to the account connected ("valida que
\* pertenezca a la cuenta").
CalendarOfAccount == conn.calendar # "none" => conn.calendar = account[conn.refresh]
==============================================================================
