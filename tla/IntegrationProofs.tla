--------------------------- MODULE IntegrationProofs ---------------------------
(***************************************************************************)
(* What the parts of MCIntegrations keep, for every value of its           *)
(* constants.  The agenda and the stores are proved in their own modules   *)
(* and taken from there; the slots that are offered, the connection to     *)
(* Google, the export to its sheets and the health of a number are proved  *)
(* here, under the names their instances have in MCIntegrations.           *)
(***************************************************************************)
EXTENDS MCIntegrations, TLAPS, FiniteSetTheorems, WellFoundedInduction

------------------------------------------------------------------------------
(***************************************************************************)
(* The parts behave as their own modules say.                              *)
(***************************************************************************)
\* The part that moves is chosen at the start.
LEMMA PartStays == [Next]_vars => part' = part
BY DEF Next, vars

\* A part that only one instance moves takes its steps or stays where it is.
LEMMA PartsStep ==
  [Next]_vars =>
    /\ [Booking!Next]_(Booking!vars)
    /\ [Calendar!Next]_(Calendar!vars)
    /\ [Sheet!Next]_(Sheet!vars)
    /\ [Tiendanube!Next]_(Tiendanube!vars)
    /\ [Health!Next]_(Health!vars)
    /\ part = "slots" => [Offer!Next]_(Offer!vars)
BY DEF Next, vars, bookingVars, slotsVars, googleVars, sheetsVars, tiendaVars, healthVars,
   Booking!vars, Offer!vars, Calendar!vars, Sheet!vars, Tiendanube!vars, Health!vars

\* The mirror of a store has two instances, and part says which of them moves.
LEMMA StoresStep ==
  /\ part = "store" /\ [Next]_vars => [Store!Next]_(Store!vars)
  /\ part = "stores" /\ [Next]_vars => [Stores2!Next]_(Stores2!vars)
BY DEF Next, vars, wooVars, Store!vars, Stores2!vars

\* Every part starts as its own module says.
LEMMA PartsStart ==
  Init => /\ Booking!Init /\ Calendar!Init /\ Sheet!Init /\ Tiendanube!Init /\ Health!Init
          /\ part = "store" => Store!Init
          /\ part = "stores" => Stores2!Init
          /\ part = "slots" => Offer!Init
BY DEF Init

\* The agenda in the composition: one event under a key, one request at a time on an
\* appointment, and what is shown as standing or cancelled is so in the calendar.
THEOREM BookingKeeps == Spec => []BookingKept
<1>1. Init => Booking!Init
  BY PartsStart
<1>2. [Next]_vars => [Booking!Next]_(Booking!vars)
  BY PartsStep
<1>3. Booking!Spec => [](Booking!Exclusive /\ Booking!OneEventPerKey)
  BY Bounds, Booking!BookingsAreExclusive
<1>4. Booking!Spec => []Booking!AgreesWithCalendar
  BY Bounds, Booking!CalendarAgrees
<1>5. Booking!Exclusive /\ Booking!OneEventPerKey /\ Booking!AgreesWithCalendar => BookingKept
  BY DEF BookingKept
<1> QED BY <1>1, <1>2, <1>3, <1>4, <1>5, PTL DEF Spec, Booking!Spec

\* The stores in the composition: a delivery is processed once, the copy holds rows of the
\* connected store alone, and a store belongs to one organization.
THEOREM StoresKeep == Spec => []StoresKept
<1>1. /\ Init /\ part = "store" => Store!Init
      /\ Init /\ part = "stores" => Stores2!Init
      /\ Init => Tiendanube!Init
  BY PartsStart
<1>2. /\ part = "store" /\ [Next]_vars => [Store!Next]_(Store!vars)
      /\ part = "stores" /\ [Next]_vars => [Stores2!Next]_(Stores2!vars)
      /\ [Next]_vars => [Tiendanube!Next]_(Tiendanube!vars)
  BY PartsStep, StoresStep
<1>3. /\ part = "store" /\ [Next]_vars => (part = "store")'
      /\ ~(part = "store") /\ [Next]_vars => ~(part = "store")'
      /\ part = "stores" /\ [Next]_vars => (part = "stores")'
      /\ ~(part = "stores") /\ [Next]_vars => ~(part = "stores")'
  BY PartStays
<1>4. Store!Spec => []Store!ProcessedOnce
  BY Bounds, Store!DeliveriesProcessedOnce
<1>5. Stores2!Spec => []Stores2!RowsOfConnectedStore
  BY Stores2!CopyIsOfTheStore
<1>6. Tiendanube!Spec => []Tiendanube!OneOwnerPerStore
  BY Bounds, Tiendanube!StoresHaveOneOwner
<1>7. /\ part = "store" => Store!ProcessedOnce
      /\ part = "stores" => Stores2!RowsOfConnectedStore
      /\ Tiendanube!OneOwnerPerStore
      => StoresKept
  BY DEF StoresKept
<1> QED BY <1>1, <1>2, <1>3, <1>4, <1>5, <1>6, <1>7, PTL
        DEF Spec, Store!Spec, Stores2!Spec, Tiendanube!Spec

------------------------------------------------------------------------------
(***************************************************************************)
(* The connection to Google.                                               *)
(***************************************************************************)
\* The exchange of a code and what follows it.
Granting == {"exchange", "granted"}
\* Why a state is good for one connection: who exchanges its code marked it used, nobody
\* else is exchanging it, and nobody is once it has a connection.
FlowsOnce ==
  /\ \A q \in Requests : googleRequest[q].pc \in {"found"} \cup Granting =>
       googleRequest[q].flow \in Calendar!Flows
  /\ \A q \in Requests : googleRequest[q].pc \in Granting =>
       state[googleRequest[q].flow].status = "used"
  /\ \A q, p \in Requests :
       googleRequest[q].pc \in Granting /\ googleRequest[p].pc \in Granting
         /\ googleRequest[q].flow = googleRequest[p].flow => q = p
  /\ \A s \in Calendar!Flows : saves[s] # 0 =>
       /\ saves[s] = 1 /\ state[s].status = "used"
       /\ \A q \in Requests : ~(googleRequest[q].pc \in Granting /\ googleRequest[q].flow = s)
\* Those who use a token, or renew one.
UsingToken == {"select", "refresh_select", "manage", "refresh_manage", "test", "refresh_test"}
\* Why the calendar was listed: every token there is was saved for its flow.
TokensSaved ==
  /\ googleConn.id # 0 =>
       /\ googleConn.refresh \in Calendar!Flows /\ saves[googleConn.refresh] # 0
       /\ googleConn.access \in Calendar!Flows /\ saves[googleConn.access] # 0
  /\ \A q \in Requests : googleRequest[q].pc \in UsingToken =>
       googleRequest[q].flow \in Calendar!Flows /\ saves[googleRequest[q].flow] # 0
  /\ Calendar!CalendarWasListed
\* Why a disconnection takes away what it read: rows are numbered as they are inserted.
RowsNumbered ==
  /\ googleConn.id <= googleRows
  /\ \A q \in Requests : googleRequest[q].pc = "revoking" =>
       googleRequest[q].row <= googleRequest[q].seen
GoogleInv == Calendar!TypeOK /\ FlowsOnce /\ TokensSaved /\ RowsNumbered

OAuthStates == [status : {"none", "issued", "expired", "used"}, user : {"none"} \cup Users]
CalendarRows == [id : 0 .. MaxRows, status : {"NONE", "CONNECTED", "ERROR"},
               refresh : {0} \cup Calendar!Flows, access : {0} \cup Calendar!Flows,
               fresh : BOOLEAN, calendar : {"none"} \cup Accounts]
CalendarRequests ==
  [pc : {"idle", "found", "exchange", "granted", "manage", "select", "test",
         "failed", "revoking"} \cup {"refresh_manage", "refresh_select", "refresh_test"},
   user : {"none"} \cup Users, flow : {0} \cup Calendar!Flows, row : 0 .. MaxRows,
   calendar : {"none"} \cup Accounts, seen : 0 .. MaxRows]

\* The parts of the type invariant of the calendar, by name.
LEMMA GoogleTypes ==
  /\ Calendar!TypeOK <=>
       /\ state \in [Calendar!Flows -> OAuthStates]
       /\ account \in [Calendar!Flows -> {"none"} \cup Accounts]
       /\ googleConn \in CalendarRows /\ googleRequest \in [Requests -> CalendarRequests]
       /\ googleRows \in 0 .. MaxRows /\ saves \in [Calendar!Flows -> Nat]
  /\ Calendar!TypeOK' <=>
       /\ state' \in [Calendar!Flows -> OAuthStates]
       /\ account' \in [Calendar!Flows -> {"none"} \cup Accounts]
       /\ googleConn' \in CalendarRows /\ googleRequest' \in [Requests -> CalendarRequests]
       /\ googleRows' \in 0 .. MaxRows /\ saves' \in [Calendar!Flows -> Nat]
BY DEF Calendar!TypeOK, OAuthStates, CalendarRows, CalendarRequests

\* What is at rest has its type.
LEMMA GoogleIdle ==
  Calendar!Idle \in CalendarRequests /\ Calendar!Idle.pc = "idle"
      /\ Calendar!NoRow \in CalendarRows
BY Bounds DEF Calendar!GoogleAssumption, Calendar!Idle, Calendar!NoRow, CalendarRequests,
   CalendarRows

\* What a row of the connection must be: its tokens were saved for their flows, and its
\* calendar was listed by an account that consented.
RowSaved(c) ==
  /\ c.id # 0 => /\ c.refresh \in Calendar!Flows /\ saves[c.refresh] # 0
                 /\ c.access \in Calendar!Flows /\ saves[c.access] # 0
  /\ c.id <= googleRows
  /\ c.calendar # "none" => \E s \in Calendar!Flows : saves[s] # 0 /\ account[s] = c.calendar

\* A request that moves without granting, saving or inserting anything.
LEMMA GoogleMoves ==
  ASSUME GoogleInv, UNCHANGED <<state, account, saves, googleRows>>,
         googleConn' \in CalendarRows, RowSaved(googleConn'),
         NEW q \in Requests, NEW new \in CalendarRequests,
         googleRequest' = [googleRequest EXCEPT ![q] = new],
         new.pc \in Granting =>
           googleRequest[q].pc \in Granting /\ new.flow = googleRequest[q].flow,
         new.pc = "found" => new.flow \in Calendar!Flows,
         new.pc \in UsingToken => new.flow \in Calendar!Flows /\ saves[new.flow] # 0,
         new.pc = "revoking" => new.row <= new.seen
  PROVE  GoogleInv'
<1>1. /\ googleRequest'[q] = new
      /\ \A p \in Requests \ {q} : googleRequest'[p] = googleRequest[p]
      /\ googleRequest' \in [Requests -> CalendarRequests]
  BY GoogleTypes DEF GoogleInv
<1>2. Calendar!TypeOK'
  BY <1>1, GoogleTypes DEF GoogleInv
<1>3. FlowsOnce'
  BY <1>1 DEF GoogleInv, FlowsOnce, Granting
<1>4. \A s \in Calendar!Flows : saves[s] \in Nat
  BY GoogleTypes DEF GoogleInv
<1>5. TokensSaved'
  BY <1>1, <1>4 DEF GoogleInv, TokensSaved, RowSaved, Calendar!CalendarWasListed
<1>6. RowsNumbered'
  BY <1>1 DEF GoogleInv, RowsNumbered, RowSaved
<1> QED BY <1>2, <1>3, <1>5, <1>6 DEF GoogleInv

\* The row there is, when a step leaves it or writes another field.
LEMMA RowIsSaved ==
  ASSUME GoogleInv
  PROVE  /\ googleConn \in CalendarRows /\ RowSaved(googleConn)
         /\ \A status \in {"CONNECTED", "ERROR"} :
              Calendar!Write([googleConn EXCEPT !.status = status]) \in CalendarRows
                /\ RowSaved(Calendar!Write([googleConn EXCEPT !.status = status]))
<1>1. googleConn \in CalendarRows /\ \A s \in Calendar!Flows : saves[s] \in Nat
  BY GoogleTypes DEF GoogleInv
<1>2. RowSaved(googleConn)
  BY <1>1 DEF GoogleInv, TokensSaved, RowsNumbered, RowSaved, Calendar!CalendarWasListed
<1>3. ASSUME NEW status \in {"CONNECTED", "ERROR"}
      PROVE  /\ [googleConn EXCEPT !.status = status] \in CalendarRows
             /\ RowSaved([googleConn EXCEPT !.status = status])
  BY <1>1, <1>2, <1>3 DEF CalendarRows, RowSaved
<1> QED BY <1>1, <1>2, <1>3 DEF Calendar!Write

\* The callback finds its state and marks it used: the first to mark it is the only one
\* that goes on.
LEMMA CallbackOnce ==
  ASSUME GoogleInv, NEW q \in Requests, Calendar!CallbackFinds(q) \/ Calendar!CallbackMarks(q)
  PROVE  GoogleInv'
<1>0. googleConn \in CalendarRows /\ RowSaved(googleConn) /\ googleRequest[q] \in CalendarRequests
  BY RowIsSaved, GoogleTypes DEF GoogleInv
<1>1. CASE Calendar!CallbackFinds(q)
  <2>1. PICK s \in Calendar!Flows, u \in Users :
          googleRequest' = [googleRequest EXCEPT ![q] =
            [[Calendar!Idle EXCEPT !.pc = "found", !.flow = s, !.user = u]
             EXCEPT !.seen = googleRows]]
    BY <1>1 DEF Calendar!CallbackFinds, Calendar!Begins
  <2> DEFINE new == [[Calendar!Idle EXCEPT !.pc = "found", !.flow = s, !.user = u]
                     EXCEPT !.seen = googleRows]
  <2>2. googleRows \in 0 .. MaxRows
    BY GoogleTypes DEF GoogleInv
  <2>3. new \in CalendarRequests /\ new.pc = "found" /\ new.flow = s
    <3>1. [Calendar!Idle EXCEPT !.pc = "found", !.flow = s, !.user = u] \in CalendarRequests
          /\ [Calendar!Idle EXCEPT !.pc = "found", !.flow = s, !.user = u].pc = "found"
          /\ [Calendar!Idle EXCEPT !.pc = "found", !.flow = s, !.user = u].flow = s
      BY GoogleIdle DEF CalendarRequests
    <3> QED BY <2>2, <3>1 DEF CalendarRequests
  <2>4. UNCHANGED <<state, account, googleConn, googleRows, saves>>
    BY <1>1 DEF Calendar!CallbackFinds
  <2> HIDE DEF new
  <2> QED BY <1>0, <2>1, <2>3, <2>4, GoogleMoves DEF Granting, UsingToken, new
<1>2. CASE Calendar!CallbackMarks(q) /\ state' = state
  <2>1. Calendar!Ends(q) /\ UNCHANGED <<state, account, googleConn, googleRows, saves>>
    <3>1. googleRequest[q].flow \in Calendar!Flows
      BY <1>2 DEF Calendar!CallbackMarks, GoogleInv, FlowsOnce
    <3> QED BY <1>2, <3>1, GoogleTypes DEF Calendar!CallbackMarks, GoogleInv, Calendar!Unused,
               OAuthStates
  <2> QED BY <1>0, <2>1, GoogleIdle, GoogleMoves DEF Calendar!Ends, Granting, UsingToken
<1>3. CASE Calendar!CallbackMarks(q) /\ state' # state
  <2> DEFINE s == googleRequest[q].flow
  <2>1. /\ googleRequest[q].pc = "found" /\ state[s].status # "used"
        /\ state' = [state EXCEPT ![s].status = "used"]
        /\ googleRequest' = [googleRequest EXCEPT ![q].pc = "exchange"] \/ Calendar!Ends(q)
        /\ UNCHANGED <<account, googleConn, googleRows, saves>>
    BY <1>3 DEF Calendar!CallbackMarks, Calendar!Unused
  <2>2. s \in Calendar!Flows
    BY <2>1 DEF GoogleInv, FlowsOnce
  <2>3. /\ state' \in [Calendar!Flows -> OAuthStates] /\ state'[s].status = "used"
        /\ \A t \in Calendar!Flows : state[t].status = "used" => state'[t].status = "used"
    BY <2>1, <2>2, GoogleTypes DEF GoogleInv, OAuthStates
  <2>4. PICK new \in CalendarRequests :
          /\ googleRequest' = [googleRequest EXCEPT ![q] = new]
          /\ \/ new.pc = "exchange" /\ new.flow = s
             \/ new = Calendar!Idle
    BY <1>0, <2>1, GoogleIdle DEF Calendar!Ends, CalendarRequests
  <2>5. /\ googleRequest'[q] = new
        /\ \A p \in Requests \ {q} : googleRequest'[p] = googleRequest[p]
        /\ googleRequest' \in [Requests -> CalendarRequests]
    BY <2>4, GoogleTypes DEF GoogleInv
  <2>6. Calendar!TypeOK'
    BY <2>1, <2>3, <2>5, GoogleTypes DEF GoogleInv
  <2>7. \A p \in Requests : ~(googleRequest[p].pc \in Granting /\ googleRequest[p].flow = s)
    BY <2>1 DEF GoogleInv, FlowsOnce
  <2>8. FlowsOnce'
    <3>1. saves[s] = 0
      BY <2>1, <2>2 DEF GoogleInv, FlowsOnce
    <3> QED BY <2>1, <2>2, <2>3, <2>4, <2>5, <2>7, <3>1, GoogleIdle
            DEF GoogleInv, FlowsOnce, Granting
  <2>9. TokensSaved'
    BY <2>1, <2>4, <2>5, GoogleIdle DEF GoogleInv, TokensSaved, Calendar!CalendarWasListed,
       UsingToken
  <2>10. RowsNumbered'
    BY <2>1, <2>4, <2>5, GoogleIdle DEF GoogleInv, RowsNumbered
  <2> QED BY <2>6, <2>8, <2>9, <2>10 DEF GoogleInv
<1> QED BY <1>1, <1>2, <1>3

\* The account that grants a flow is written before anything is saved for it.
LEMMA ExchangeKeepsSaved ==
  ASSUME GoogleInv, NEW q \in Requests, Calendar!CallbackExchanges(q)
  PROVE  GoogleInv'
<1>0. googleConn \in CalendarRows /\ RowSaved(googleConn) /\ googleRequest[q] \in CalendarRequests
  BY RowIsSaved, GoogleTypes DEF GoogleInv
<1>1. CASE Calendar!Ends(q) /\ UNCHANGED account
  <2>1. UNCHANGED <<state, account, googleConn, googleRows, saves>>
    BY <1>1 DEF Calendar!CallbackExchanges
  <2> QED BY <1>0, <1>1, <2>1, GoogleIdle, GoogleMoves DEF Calendar!Ends, Granting, UsingToken
<1>2. CASE ~(Calendar!Ends(q) /\ UNCHANGED account)
  <2> DEFINE s == googleRequest[q].flow
             new == [googleRequest[q] EXCEPT !.pc = "granted"]
  <2>1. PICK a \in Accounts :
          /\ account' = [account EXCEPT ![s] = a]
          /\ googleRequest' = [googleRequest EXCEPT ![q].pc = "granted"]
    BY <1>2 DEF Calendar!CallbackExchanges, Calendar!Consents
  <2>2. googleRequest[q].pc = "exchange" /\ UNCHANGED <<state, googleConn, googleRows, saves>>
    BY <1>2 DEF Calendar!CallbackExchanges
  <2>3. s \in Calendar!Flows /\ saves[s] = 0
    BY <2>2 DEF GoogleInv, FlowsOnce, Granting
  <2>4. new \in CalendarRequests /\ new.pc = "granted" /\ new.flow = s
    BY <1>0 DEF CalendarRequests
  <2>5. /\ googleRequest'[q] = new
        /\ \A p \in Requests \ {q} : googleRequest'[p] = googleRequest[p]
        /\ googleRequest' \in [Requests -> CalendarRequests]
    BY <1>0, <2>1, <2>4, GoogleTypes DEF GoogleInv, CalendarRequests
  <2> HIDE DEF new
  <2>6. Calendar!TypeOK'
    BY <2>1, <2>2, <2>5, GoogleTypes DEF GoogleInv
  <2>7. FlowsOnce'
    BY <2>2, <2>3, <2>4, <2>5 DEF GoogleInv, FlowsOnce, Granting
  <2>8. \A t \in Calendar!Flows : t # s => account'[t] = account[t]
    BY <2>1, GoogleTypes DEF GoogleInv
  <2>9. \A t \in Calendar!Flows : saves[t] > 0 => account'[t] = account[t]
    BY <2>3, <2>8
  <2>10. TokensSaved'
    BY <2>2, <2>4, <2>5, <2>9 DEF GoogleInv, TokensSaved, Calendar!CalendarWasListed, UsingToken
  <2>11. RowsNumbered'
    BY <2>2, <2>4, <2>5 DEF GoogleInv, RowsNumbered
  <2> QED BY <2>6, <2>7, <2>10, <2>11 DEF GoogleInv
<1> QED BY <1>1, <1>2

\* A connection is saved once for its flow, by the one request that was granted it.
LEMMA SaveIsOnce ==
  ASSUME GoogleInv, NEW q \in Requests, Calendar!CallbackSaves(q)
  PROVE  GoogleInv'
<1> DEFINE s == googleRequest[q].flow
<1>1. /\ googleRequest[q].pc = "granted"
      /\ googleConn.id = 0 => googleRows < MaxRows
      /\ googleConn' = Calendar!Saved(s)
      /\ googleRows' = IF googleConn.id = 0 THEN googleRows + 1 ELSE googleRows
      /\ saves' = [saves EXCEPT ![s] = @ + 1]
      /\ UNCHANGED <<state, account>>
  BY DEF Calendar!CallbackSaves
<1>2. /\ s \in Calendar!Flows /\ state[s].status = "used" /\ saves[s] = 0
  <2>1. googleRequest[q].pc \in Granting
    BY <1>1 DEF Granting
  <2> QED BY <2>1 DEF GoogleInv, FlowsOnce, Granting
<1>3. /\ googleRequest'[q] = Calendar!Idle
      /\ \A p \in Requests \ {q} : googleRequest'[p] = googleRequest[p]
      /\ googleRequest' \in [Requests -> CalendarRequests]
  BY GoogleIdle, GoogleTypes DEF GoogleInv, Calendar!CallbackSaves, Calendar!Ends
<1>4. /\ saves' \in [Calendar!Flows -> Nat] /\ saves'[s] = 1
      /\ \A t \in Calendar!Flows \ {s} : saves'[t] = saves[t]
  BY <1>1, <1>2, GoogleTypes DEF GoogleInv
<1>5. /\ googleRows \in 0 .. MaxRows /\ googleRows' \in 0 .. MaxRows /\ googleRows <= googleRows'
      /\ MaxRows \in Nat
  <2>1. googleRows \in 0 .. MaxRows /\ MaxRows \in Nat /\ googleConn.id \in 0 .. MaxRows
    BY GoogleTypes, Bounds DEF GoogleInv, Calendar!GoogleAssumption, CalendarRows
  <2> QED BY <1>1, <2>1
<1>6. /\ googleConn' \in CalendarRows /\ googleConn'.refresh = s /\ googleConn'.access = s
      /\ googleConn'.calendar \in {"none", googleConn.calendar} /\ googleConn'.id <= googleRows'
  <2>1. CASE googleConn.id = 0
    <3>1. googleConn' = [[Calendar!NoRow EXCEPT !.id = googleRows + 1]
                   EXCEPT !.status = "CONNECTED", !.refresh = s, !.access = s, !.fresh = TRUE]
      BY <1>1, <2>1 DEF Calendar!Saved
    <3>2. googleConn' = [id |-> googleRows + 1, status |-> "CONNECTED", refresh |-> s,
        access |-> s,
                   fresh |-> TRUE, calendar |-> "none"]
      BY <3>1 DEF Calendar!NoRow
    <3>3. googleRows' = googleRows + 1 /\ googleRows + 1 \in 0 .. MaxRows
      BY <1>1, <1>5, <2>1
    <3>4. googleConn' \in CalendarRows
      BY <1>2, <3>2, <3>3 DEF CalendarRows
    <3> QED BY <1>5, <3>2, <3>3, <3>4
  <2>2. CASE googleConn.id # 0
    <3>1. googleConn' = [googleConn EXCEPT !.status = "CONNECTED", !.refresh = s, !.access = s,
                                !.fresh = TRUE]
      BY <1>1, <2>2 DEF Calendar!Saved
    <3>2. googleConn \in CalendarRows /\ googleConn.id <= googleRows
      BY GoogleTypes DEF GoogleInv, RowsNumbered
    <3>3. googleConn' \in CalendarRows /\ googleConn'.refresh = s /\ googleConn'.access = s
          /\ googleConn'.calendar = googleConn.calendar /\ googleConn'.id = googleConn.id
      BY <1>2, <3>1, <3>2 DEF CalendarRows
    <3> QED BY <1>1, <1>5, <2>2, <3>2, <3>3
  <2> QED BY <2>1, <2>2
<1>7. Calendar!TypeOK'
  BY <1>1, <1>3, <1>4, <1>5, <1>6, GoogleTypes DEF GoogleInv
<1>8. FlowsOnce'
  <2>1. \A p \in Requests \ {q} : ~(googleRequest[p].pc \in Granting /\ googleRequest[p].flow = s)
    BY <1>1 DEF GoogleInv, FlowsOnce, Granting
  <2> QED BY <1>1, <1>2, <1>3, <1>4, <2>1, GoogleIdle DEF GoogleInv, FlowsOnce, Granting
<1>9. TokensSaved'
  <2>1. \A t \in Calendar!Flows : saves[t] # 0 => saves'[t] # 0
    BY <1>2, <1>4
  <2>2. \A t \in Calendar!Flows : saves[t] > 0 => saves'[t] > 0
    BY <1>2, <1>4
  <2>3. Calendar!CalendarWasListed'
    BY <1>1, <1>6, <2>2 DEF GoogleInv, TokensSaved, Calendar!CalendarWasListed
  <2>4. \A p \in Requests : googleRequest'[p].pc \in UsingToken =>
          googleRequest'[p].flow \in Calendar!Flows /\ saves'[googleRequest'[p].flow] # 0
    BY <1>3, <2>1, GoogleIdle DEF GoogleInv, TokensSaved, UsingToken
  <2> QED BY <1>2, <1>4, <1>6, <2>3, <2>4 DEF TokensSaved
<1>10. RowsNumbered'
  BY <1>3, <1>6, GoogleIdle DEF GoogleInv, RowsNumbered
<1> QED BY <1>7, <1>8, <1>9, <1>10 DEF GoogleInv

\* A token is read from the row, or renewed for it.
LEMMA TokensOfTheRow ==
  ASSUME GoogleInv, NEW q \in Requests,
         Calendar!ManagesEvents(q) \/ Calendar!ChoosesCalendar(q)
             \/ Calendar!TestsConnection(q) \/ Calendar!Renews(q)
  PROVE  GoogleInv'
<1>0. /\ googleConn \in CalendarRows /\ RowSaved(googleConn)
           /\ googleRequest[q] \in CalendarRequests
      /\ googleRows \in 0 .. MaxRows
  BY RowIsSaved, GoogleTypes DEF GoogleInv
<1>1. ASSUME NEW use \in {"manage", "select", "test"}, NEW c \in {"none"} \cup Accounts,
             Calendar!ReadsToken(q, use, c)
      PROVE  GoogleInv'
  <2> DEFINE pc == IF googleConn.fresh THEN use
                   ELSE [manage |-> "refresh_manage", select |-> "refresh_select",
                         test |-> "refresh_test"][use]
             flow == IF googleConn.fresh THEN googleConn.access ELSE googleConn.refresh
             new == [[Calendar!Idle EXCEPT !.pc = pc, !.flow = flow, !.calendar = c]
                     EXCEPT !.seen = googleRows]
  <2>1. /\ googleConn.id # 0 /\ googleRequest' = [googleRequest EXCEPT ![q] = new]
        /\ UNCHANGED <<state, account, googleConn, googleRows, saves>>
    BY <1>1 DEF Calendar!ReadsToken, Calendar!Begins
  <2>2. pc \in UsingToken /\ flow \in Calendar!Flows /\ saves[flow] # 0
    BY <1>0, <2>1 DEF RowSaved, UsingToken
  <2> HIDE DEF pc, flow
  <2>3. new \in CalendarRequests /\ new.pc = pc /\ new.flow = flow
    <3> DEFINE r == [Calendar!Idle EXCEPT !.pc = pc, !.flow = flow, !.calendar = c]
    <3>1. r \in CalendarRequests /\ r.pc = pc /\ r.flow = flow
      BY <2>2, GoogleIdle DEF CalendarRequests, UsingToken
    <3>2. new = [r EXCEPT !.seen = googleRows]
      OBVIOUS
    <3> HIDE DEF r, new
    <3> QED BY <1>0, <3>1, <3>2 DEF CalendarRequests
  <2> HIDE DEF new
  <2> QED BY <1>0, <2>1, <2>2, <2>3, GoogleMoves DEF Granting, UsingToken
<1>2. CASE Calendar!TestsConnection(q) /\ ~Calendar!ReadsToken(q, "test", "none")
  <2> DEFINE new == [[Calendar!Idle EXCEPT !.pc = "failed"] EXCEPT !.seen = googleRows]
  <2>1. /\ googleRequest' = [googleRequest EXCEPT ![q] = new]
        /\ UNCHANGED <<state, account, googleConn, googleRows, saves>>
    BY <1>2 DEF Calendar!TestsConnection, Calendar!Begins
  <2>2. new \in CalendarRequests /\ new.pc = "failed"
    BY <1>0, GoogleIdle DEF CalendarRequests
  <2> HIDE DEF new
  <2> QED BY <1>0, <2>1, <2>2, GoogleMoves DEF Granting, UsingToken
<1>3. CASE Calendar!Renews(q)
  <2> DEFINE use == [refresh_manage |-> "manage", refresh_select |-> "select",
                     refresh_test |-> "test"]
             f == googleRequest[q].flow
  <2>1. /\ googleRequest[q].pc \in {"refresh_manage", "refresh_select", "refresh_test"}
        /\ UNCHANGED <<state, account, googleRows, saves>>
        /\ \/ /\ googleConn' = Calendar!Write(Calendar!Renewed(f))
              /\ googleRequest' = [googleRequest EXCEPT ![q].pc = use[googleRequest[q].pc]]
           \/ /\ googleConn' = Calendar!Write([googleConn EXCEPT !.status = "ERROR"])
              /\ googleRequest' = [googleRequest EXCEPT ![q].pc = "failed"] \/ Calendar!Ends(q)
    BY <1>3 DEF Calendar!Renews
  <2>2. f \in Calendar!Flows /\ saves[f] # 0
    BY <2>1 DEF GoogleInv, TokensSaved, UsingToken
  <2>3. googleConn' \in CalendarRows /\ RowSaved(googleConn')
    <3>1. Calendar!Write(Calendar!Renewed(f)) \in CalendarRows
        /\ RowSaved(Calendar!Write(Calendar!Renewed(f)))
      BY <1>0, <2>2 DEF Calendar!Write, Calendar!Renewed, CalendarRows, RowSaved
    <3> QED BY <2>1, <3>1, RowIsSaved
  <2>4. PICK new \in CalendarRequests :
          /\ googleRequest' = [googleRequest EXCEPT ![q] = new]
          /\ \/ new.pc \in {"manage", "select", "test", "failed"} /\ new.flow = f
             \/ new = Calendar!Idle
    <3>1. CASE googleRequest' = [googleRequest EXCEPT ![q].pc = use[googleRequest[q].pc]]
      <4>1. use[googleRequest[q].pc] \in {"manage", "select", "test"}
        BY <2>1
      <4> HIDE DEF use
      <4>2. /\ [googleRequest[q] EXCEPT !.pc = use[googleRequest[q].pc]] \in CalendarRequests
            /\ [googleRequest[q] EXCEPT !.pc = use[googleRequest[q].pc]].pc
                 \in {"manage", "select", "test"}
            /\ [googleRequest[q] EXCEPT !.pc = use[googleRequest[q].pc]].flow = f
        BY <1>0, <4>1 DEF CalendarRequests
      <4> QED BY <3>1, <4>2
    <3>2. CASE googleRequest' = [googleRequest EXCEPT ![q].pc = "failed"]
      <4>1. /\ [googleRequest[q] EXCEPT !.pc = "failed"] \in CalendarRequests
            /\ [googleRequest[q] EXCEPT !.pc = "failed"].pc = "failed"
            /\ [googleRequest[q] EXCEPT !.pc = "failed"].flow = f
        BY <1>0 DEF CalendarRequests
      <4> QED BY <3>2, <4>1
    <3>3. CASE Calendar!Ends(q)
      BY <3>3, GoogleIdle DEF Calendar!Ends
    <3> QED BY <2>1, <3>1, <3>2, <3>3
  <2> QED BY <2>1, <2>2, <2>3, <2>4, GoogleIdle, GoogleMoves DEF Granting, UsingToken
<1> QED BY <1>1, <1>2, <1>3 DEF Calendar!ManagesEvents, Calendar!ChoosesCalendar,
           Calendar!TestsConnection

\* A token is used, a calendar chosen, a test recorded, or the connection taken away.
LEMMA RowsKeepSaved ==
  ASSUME GoogleInv, NEW q \in Requests,
         \/ Calendar!UsesToken(q) \/ Calendar!StoresCalendar(q) \/ Calendar!RecordsTest(q)
         \/ Calendar!Revokes(q) \/ Calendar!Deletes(q) \/ Calendar!RequestStops(q)
  PROVE  GoogleInv'
<1>0. /\ googleConn \in CalendarRows /\ RowSaved(googleConn)
           /\ googleRequest[q] \in CalendarRequests
      /\ googleRows \in 0 .. MaxRows /\ MaxRows \in Nat
  BY RowIsSaved, GoogleTypes, Bounds DEF GoogleInv, Calendar!GoogleAssumption
<1>1. CASE Calendar!Revokes(q)
  <2> DEFINE new == [[Calendar!Idle EXCEPT !.pc = "revoking", !.row = googleConn.id]
                     EXCEPT !.seen = googleRows]
  <2>1. /\ googleRequest' = [googleRequest EXCEPT ![q] = new]
        /\ UNCHANGED <<state, account, googleConn, googleRows, saves>>
    BY <1>1 DEF Calendar!Revokes, Calendar!Begins
  <2>2. /\ new \in CalendarRequests /\ new.pc = "revoking" /\ new.row = googleConn.id
        /\ new.seen = googleRows
    BY <1>0 DEF Calendar!Idle, CalendarRequests, CalendarRows
  <2> HIDE DEF new
  <2> QED BY <1>0, <2>1, <2>2, GoogleMoves DEF Granting, UsingToken, RowSaved
<1>2. CASE ~Calendar!Revokes(q)
  <2>1. Calendar!Ends(q) /\ UNCHANGED <<state, account, googleRows, saves>>
    BY <1>2 DEF Calendar!UsesToken, Calendar!StoresCalendar, Calendar!RecordsTest,
       Calendar!Deletes, Calendar!RequestStops
  <2>2. googleConn' \in CalendarRows /\ RowSaved(googleConn')
    <3>1. CASE Calendar!UsesToken(q) \/ Calendar!RequestStops(q)
      BY <1>0, <3>1 DEF Calendar!UsesToken, Calendar!RequestStops
    <3>2. CASE Calendar!RecordsTest(q)
      BY <3>2, RowIsSaved DEF Calendar!RecordsTest
    <3>3. CASE Calendar!Deletes(q)
      <4>1. googleConn' \in {googleConn, Calendar!NoRow}
        BY <3>3 DEF Calendar!Deletes
      <4>2. RowSaved(Calendar!NoRow)
        BY <1>0 DEF RowSaved, Calendar!NoRow
      <4> QED BY <1>0, <4>1, <4>2, GoogleIdle
    <3>4. CASE Calendar!StoresCalendar(q)
      <4> DEFINE c == googleRequest[q].calendar
      <4>1. \/ googleConn' = googleConn
            \/ /\ googleConn' = [googleConn EXCEPT !.calendar = c]
               /\ account[googleRequest[q].flow] = c
        BY <3>4 DEF Calendar!StoresCalendar, Calendar!Write, Calendar!Lists
      <4>2. googleRequest[q].flow \in Calendar!Flows /\ saves[googleRequest[q].flow] # 0
        BY <3>4 DEF Calendar!StoresCalendar, GoogleInv, TokensSaved, UsingToken
      <4>3. CASE googleConn' = [googleConn EXCEPT !.calendar = c]
          /\ account[googleRequest[q].flow] = c
        <5>1. googleConn' \in CalendarRows
          BY <1>0, <4>3 DEF CalendarRows, CalendarRequests
        <5>2. /\ googleConn'.id = googleConn.id /\ googleConn'.refresh = googleConn.refresh
              /\ googleConn'.access = googleConn.access /\ googleConn'.calendar = c
          BY <1>0, <4>3 DEF CalendarRows
        <5> QED BY <1>0, <4>2, <4>3, <5>1, <5>2 DEF RowSaved
      <4> QED BY <1>0, <4>1, <4>3
    <3> QED BY <1>2, <3>1, <3>2, <3>3, <3>4
  <2> QED BY <2>1, <2>2, GoogleIdle, GoogleMoves DEF Calendar!Ends, Granting, UsingToken
<1> QED BY <1>1, <1>2

\* Every step of the connection keeps it.
LEMMA GoogleStepKeeps == GoogleInv /\ [Calendar!Next]_(Calendar!vars) => GoogleInv'
<1> SUFFICES ASSUME GoogleInv, [Calendar!Next]_(Calendar!vars) PROVE GoogleInv'
  OBVIOUS
<1>1. ASSUME UNCHANGED <<account, googleRequest, googleRows, saves>>,
             state' \in [Calendar!Flows -> OAuthStates],
             \A s \in Calendar!Flows : state[s].status = "used" => state'[s].status = "used",
             googleConn' \in CalendarRows, RowSaved(googleConn')
      PROVE  GoogleInv'
  <2>1. Calendar!TypeOK' /\ \A s \in Calendar!Flows : saves[s] \in Nat
    BY <1>1, GoogleTypes DEF GoogleInv
  <2>2. FlowsOnce'
    BY <1>1 DEF GoogleInv, FlowsOnce, Granting
  <2>3. TokensSaved'
    BY <1>1, <2>1 DEF GoogleInv, TokensSaved, RowSaved, Calendar!CalendarWasListed
  <2>4. RowsNumbered'
    BY <1>1 DEF GoogleInv, RowsNumbered, RowSaved
  <2> QED BY <2>1, <2>2, <2>3, <2>4 DEF GoogleInv
<1>2. /\ googleConn \in CalendarRows /\ RowSaved(googleConn)
           /\ state \in [Calendar!Flows -> OAuthStates]
  BY RowIsSaved, GoogleTypes DEF GoogleInv
<1>3. ASSUME NEW u \in Users, Calendar!Connect(u) PROVE GoogleInv'
  <2>1. PICK s \in Calendar!Flows :
          /\ state[s].status = "none"
          /\ state' = [state EXCEPT ![s] = [status |-> "issued", user |-> u]]
    BY <1>3 DEF Calendar!Connect
  <2>2. /\ state' \in [Calendar!Flows -> OAuthStates]
        /\ \A t \in Calendar!Flows : state[t].status = "used" => state'[t].status = "used"
    BY <1>2, <2>1 DEF OAuthStates
  <2> QED BY <1>1, <1>2, <1>3, <2>2 DEF Calendar!Connect
<1>4. ASSUME NEW s \in Calendar!Flows, Calendar!StateExpires(s) PROVE GoogleInv'
  <2>1. /\ state' \in [Calendar!Flows -> OAuthStates]
        /\ \A t \in Calendar!Flows : state[t].status = "used" => state'[t].status = "used"
    BY <1>2, <1>4 DEF Calendar!StateExpires, OAuthStates
  <2> QED BY <1>1, <1>2, <1>4, <2>1 DEF Calendar!StateExpires
<1>5. CASE Calendar!AccessExpires
  <2>1. googleConn' \in CalendarRows /\ RowSaved(googleConn')
    BY <1>2, <1>5 DEF Calendar!AccessExpires, CalendarRows, RowSaved
  <2> QED BY <1>1, <1>2, <1>5, <2>1 DEF Calendar!AccessExpires
<1>6. CASE UNCHANGED Calendar!vars
  BY <1>1, <1>2, <1>6 DEF Calendar!vars
<1> QED BY <1>3, <1>4, <1>5, <1>6, CallbackOnce, ExchangeKeepsSaved, SaveIsOnce,
           TokensOfTheRow, RowsKeepSaved DEF Calendar!Next

\* The connection starts without a row, and without flows.
LEMMA GoogleInit == Calendar!Init => GoogleInv
<1> SUFFICES ASSUME Calendar!Init PROVE GoogleInv
  OBVIOUS
<1>1. Calendar!TypeOK
  <2>1. 0 \in 0 .. MaxRows
    BY Bounds DEF Calendar!GoogleAssumption
  <2> QED BY <2>1, GoogleIdle, GoogleTypes DEF Calendar!Init, OAuthStates
<1> QED BY <1>1 DEF Calendar!Init, GoogleInv, FlowsOnce, TokensSaved, Calendar!CalendarWasListed,
           RowsNumbered,
           Granting, UsingToken, Calendar!Idle, Calendar!NoRow

\* What the invariant is for.
LEMMA GoogleHolds == GoogleInv => Calendar!OneConnectionPerState /\ Calendar!CalendarWasListed
<1> SUFFICES ASSUME GoogleInv PROVE Calendar!OneConnectionPerState /\ Calendar!CalendarWasListed
  OBVIOUS
<1>1. \A s \in Calendar!Flows : saves[s] = 0 \/ saves[s] = 1
  BY DEF GoogleInv, FlowsOnce
<1> QED BY <1>1 DEF GoogleInv, TokensSaved, Calendar!OneConnectionPerState

\* The request that ends a disconnection is the one that began it, and no row it took
\* away was inserted after.
LEMMA GoogleSurvives == GoogleInv /\ [Calendar!Next]_(Calendar!vars) =>
    Calendar!NewConnectionSurvivesStep
<1> SUFFICES ASSUME GoogleInv, [Calendar!Next]_(Calendar!vars), NEW q \in Requests,
                    googleRequest[q].pc = "revoking", googleRequest'[q].pc = "idle",
                    googleConn'.id = 0
             PROVE  googleConn.id <= googleRequest[q].seen
  BY DEF Calendar!NewConnectionSurvivesStep
<1>1. /\ googleRequest[q].row <= googleRequest[q].seen /\ googleRequest[q] \in CalendarRequests
      /\ googleConn \in CalendarRows /\ googleRequest \in [Requests -> CalendarRequests]
  BY GoogleTypes DEF GoogleInv, RowsNumbered
<1>2. CASE googleConn' = googleConn
  BY <1>1, <1>2 DEF CalendarRows, CalendarRequests
<1>3. CASE Calendar!Deletes(q)
  BY <1>1, <1>2, <1>3 DEF Calendar!Deletes, Calendar!IsRowRead
<1>4. ASSUME NEW p \in Requests,
             \/ Calendar!CallbackFinds(p) \/ Calendar!CallbackMarks(p)
                  \/ Calendar!CallbackExchanges(p)
             \/ Calendar!ManagesEvents(p) \/ Calendar!ChoosesCalendar(p)
                  \/ Calendar!TestsConnection(p)
             \/ Calendar!UsesToken(p) \/ Calendar!Revokes(p) \/ Calendar!RequestStops(p)
      PROVE  googleConn' = googleConn
  BY <1>4 DEF Calendar!CallbackFinds, Calendar!CallbackMarks, Calendar!CallbackExchanges,
     Calendar!ManagesEvents, Calendar!ChoosesCalendar,
     Calendar!TestsConnection, Calendar!ReadsToken, Calendar!UsesToken, Calendar!Revokes,
         Calendar!RequestStops
<1>5. ASSUME NEW p \in Requests,
             Calendar!CallbackSaves(p) \/ Calendar!Renews(p) \/ Calendar!StoresCalendar(p)
                 \/ Calendar!RecordsTest(p) \/ Calendar!Deletes(p)
      PROVE  p = q /\ Calendar!Deletes(q)
  <2>1. \E new : googleRequest' = [googleRequest EXCEPT ![p] = new]
    BY <1>5 DEF Calendar!CallbackSaves, Calendar!Renews, Calendar!StoresCalendar,
       Calendar!RecordsTest, Calendar!Deletes, Calendar!Ends
  <2>2. p = q
    BY <1>1, <2>1
  <2> QED BY <1>5, <2>2 DEF Calendar!CallbackSaves, Calendar!Renews, Calendar!StoresCalendar,
             Calendar!RecordsTest
<1>6. CASE Calendar!AccessExpires
  BY <1>1, <1>6 DEF Calendar!AccessExpires
<1> QED BY <1>2, <1>3, <1>4, <1>5, <1>6 DEF Calendar!Next, Calendar!Connect,
           Calendar!StateExpires, Calendar!vars

------------------------------------------------------------------------------
(***************************************************************************)
(* The export to the sheets of Google.                                     *)
(***************************************************************************)
\* Those who hold a run, from its claim until they end.
Working == {"claimed", "export", "done", "failed"}
\* Why a run has one exporter, and its success wrote every tab: a run that somebody holds is
\* not failed, so nobody else claims it, and who exports it writes the tabs that it lacks.
RunsHeld ==
  /\ \A q \in Requests : sheetsRequest[q].pc \in {"retry"} \cup Working =>
       sheetsRequest[q].run \in Sheet!RunIds
  /\ \A q \in Requests : sheetsRequest[q].pc \in Working =>
       run[sheetsRequest[q].run].status \in {"RUNNING", "SUCCEEDED", "DELETED"}
  /\ \A q \in Requests : sheetsRequest[q].pc \in {"claimed", "export"} =>
       run[sheetsRequest[q].run].status \in {"RUNNING", "DELETED"}
  /\ \A q \in Requests : sheetsRequest[q].pc = "export" =>
       wrote[sheetsRequest[q].run] \cup sheetsRequest[q].todo = Tabs
  /\ \A q, p \in Requests :
       sheetsRequest[q].pc \in Working /\ sheetsRequest[p].pc \in Working
         /\ sheetsRequest[q].run = sheetsRequest[p].run => q = p
SheetsInv == Sheet!TypeOK /\ RunsHeld /\ Sheet!SucceededWroteAll

SheetRows == [id : 0 .. MaxRows, status : {"NONE", "CONNECTED", "ERROR"},
              sheet : {"none"} \cup Sheets, fresh : BOOLEAN]
SheetRuns == [status : {"NONE", "RUNNING", "SUCCEEDED", "FAILED", "DELETED"},
              key : {"none"} \cup Keys, conn : 0 .. MaxRows]
SheetRequests ==
  [pc : {"idle", "read", "retry", "new", "claimed", "export", "done", "failed", "revoking"},
   key : {"none"} \cup Keys, row : 0 .. MaxRows,
   sheet : {"none"} \cup Sheets, run : 0 .. MaxRuns, todo : SUBSET Tabs]

\* The parts of the type invariant of the sheets, by name.
LEMMA SheetTypes ==
  /\ Sheet!TypeOK <=>
       /\ sheetsConn \in SheetRows /\ run \in [Sheet!RunIds -> SheetRuns]
       /\ sheetsRequest \in [Requests -> SheetRequests]
       /\ sheetsRows \in 0 .. MaxRows /\ wrote \in [Sheet!RunIds -> SUBSET Tabs]
  /\ Sheet!TypeOK' <=>
       /\ sheetsConn' \in SheetRows /\ run' \in [Sheet!RunIds -> SheetRuns]
       /\ sheetsRequest' \in [Requests -> SheetRequests]
       /\ sheetsRows' \in 0 .. MaxRows /\ wrote' \in [Sheet!RunIds -> SUBSET Tabs]
BY DEF Sheet!TypeOK, SheetRows, SheetRuns, SheetRequests

\* What is at rest has its type.
LEMMA SheetIdle ==
  /\ Sheet!Idle \in SheetRequests /\ Sheet!Idle.pc = "idle"
  /\ Sheet!NoRow \in SheetRows /\ Sheet!NoRun \in SheetRuns /\ Sheet!NoRun.status = "NONE"
BY Bounds DEF Sheet!SheetsAssumption, Sheet!Idle, Sheet!NoRow, Sheet!NoRun, SheetRequests,
   SheetRows, SheetRuns

\* A request that moves without touching the runs or their tabs.
LEMMA SheetMoves ==
  ASSUME SheetsInv, UNCHANGED <<run, wrote>>, sheetsConn' \in SheetRows,
      sheetsRows' \in 0 .. MaxRows,
         NEW q \in Requests, NEW new \in SheetRequests,
         sheetsRequest' = [sheetsRequest EXCEPT ![q] = new],
         new.pc \in Working => sheetsRequest[q].pc \in Working /\ new.run = sheetsRequest[q].run,
         new.pc \in {"claimed", "export"} => sheetsRequest[q].pc \in {"claimed", "export"},
         new.pc = "export" => new.todo = Tabs,
         new.pc = "retry" => new.run \in Sheet!RunIds
  PROVE  SheetsInv'
<1>1. /\ sheetsRequest'[q] = new
      /\ \A p \in Requests \ {q} : sheetsRequest'[p] = sheetsRequest[p]
      /\ sheetsRequest' \in [Requests -> SheetRequests]
  BY SheetTypes DEF SheetsInv
<1>2. Sheet!TypeOK'
  BY <1>1, SheetTypes DEF SheetsInv
<1>3. \A r \in Sheet!RunIds : wrote[r] \subseteq Tabs
  BY SheetTypes DEF SheetsInv
<1>4. RunsHeld'
  BY <1>1, <1>3 DEF SheetsInv, RunsHeld, Working
<1> QED BY <1>2, <1>4 DEF SheetsInv, Sheet!SucceededWroteAll

\* A request claims the run it found failed, or inserts one: nobody held it.
LEMMA ClaimsAreFirst ==
  ASSUME SheetsInv, NEW q \in Requests, NEW r \in Sheet!RunIds, NEW new \in SheetRequests,
         run[r].status \in {"NONE", "FAILED"}, UNCHANGED <<sheetsConn, sheetsRows>>,
         NEW one \in SheetRuns, one.status = "RUNNING",
         run' = [run EXCEPT ![r] = one],
         wrote' \in {wrote, [wrote EXCEPT ![r] = {}]},
         sheetsRequest' = [sheetsRequest EXCEPT ![q] = new], new.pc = "claimed", new.run = r
  PROVE  SheetsInv'
<1>1. /\ sheetsRequest'[q] = new
      /\ \A p \in Requests \ {q} : sheetsRequest'[p] = sheetsRequest[p]
      /\ sheetsRequest' \in [Requests -> SheetRequests]
  BY SheetTypes DEF SheetsInv
<1>2. /\ run'[r].status = "RUNNING" /\ \A o \in Sheet!RunIds \ {r} : run'[o] = run[o]
      /\ run' \in [Sheet!RunIds -> SheetRuns]
  BY SheetTypes DEF SheetsInv
<1>3. /\ wrote' \in [Sheet!RunIds -> SUBSET Tabs]
      /\ \A o \in Sheet!RunIds \ {r} : wrote'[o] = wrote[o]
  BY SheetTypes DEF SheetsInv
<1>4. \A p \in Requests : sheetsRequest[p].pc \in Working =>
    sheetsRequest[p].run \in Sheet!RunIds \ {r}
  BY DEF SheetsInv, RunsHeld
<1>5. Sheet!TypeOK'
  BY <1>1, <1>2, <1>3, SheetTypes DEF SheetsInv
<1>6. RunsHeld'
  <2>1. \A p \in Requests \ {q} : sheetsRequest'[p].pc \in Working =>
          sheetsRequest'[p].run \in Sheet!RunIds \ {r}
    BY <1>1, <1>4
  <2> QED BY <1>1, <1>2, <1>3, <2>1 DEF SheetsInv, RunsHeld, Working
<1>7. Sheet!SucceededWroteAll'
  BY <1>2, <1>3 DEF SheetsInv, Sheet!SucceededWroteAll
<1> QED BY <1>5, <1>6, <1>7 DEF SheetsInv

\* A tab is written for the run of the request, which nobody else holds.
LEMMA TabsWritten ==
  ASSUME SheetsInv, NEW q \in Requests, Sheet!WritesTab(q)
  PROVE  SheetsInv'
<1>0. /\ sheetsRequest[q] \in SheetRequests /\ sheetsRequest[q].pc = "export"
      /\ UNCHANGED <<sheetsConn, run, sheetsRows>> /\ sheetsConn \in SheetRows
           /\ sheetsRows \in 0 .. MaxRows
  BY SheetTypes DEF Sheet!WritesTab, SheetsInv
<1>1. CASE Sheet!CallFails(q) /\ UNCHANGED wrote
  <2> DEFINE new == [sheetsRequest[q] EXCEPT !.pc = "failed"]
  <2>1. sheetsRequest' = [sheetsRequest EXCEPT ![q] = new]
    BY <1>1 DEF Sheet!CallFails, Sheet!Goes
  <2>2. new \in SheetRequests /\ new.pc = "failed" /\ new.run = sheetsRequest[q].run
    BY <1>0 DEF SheetRequests
  <2> HIDE DEF new
  <2> QED BY <1>0, <1>1, <2>1, <2>2, SheetMoves DEF Working
<1>2. ASSUME NEW t \in sheetsRequest[q].todo,
             wrote' = Sheet!Replaced(sheetsRequest[q].run, t),
             sheetsRequest' = [sheetsRequest EXCEPT ![q].todo = @ \ {t}]
      PROVE  SheetsInv'
  <2> DEFINE r == sheetsRequest[q].run
             new == [sheetsRequest[q] EXCEPT !.todo = sheetsRequest[q].todo \ {t}]
  <2>1. /\ r \in Sheet!RunIds /\ run[r].status \in {"RUNNING", "DELETED"}
        /\ wrote[r] \cup sheetsRequest[q].todo = Tabs
    BY <1>0 DEF SheetsInv, RunsHeld, Working
  <2>2. /\ new \in SheetRequests /\ new.pc = "export" /\ new.run = r
        /\ new.todo = sheetsRequest[q].todo \ {t}
    BY <1>0 DEF SheetRequests
  <2>3. /\ sheetsRequest'[q] = new
        /\ \A p \in Requests \ {q} : sheetsRequest'[p] = sheetsRequest[p]
        /\ sheetsRequest' \in [Requests -> SheetRequests]
    <3>1. sheetsRequest' = [sheetsRequest EXCEPT ![q] = new]
      BY <1>2
    <3> HIDE DEF new
    <3> QED BY <2>2, <3>1, SheetTypes DEF SheetsInv
  <2> HIDE DEF new
  <2>4. /\ wrote' \in [Sheet!RunIds -> SUBSET Tabs] /\ wrote'[r] = wrote[r] \cup {t}
        /\ \A o \in Sheet!RunIds \ {r} : wrote'[o] = wrote[o]
    BY <1>2, <2>1, SheetTypes DEF SheetsInv, Sheet!Replaced
  <2>5. \A p \in Requests \ {q} : sheetsRequest[p].pc \in Working => sheetsRequest[p].run # r
    BY <1>0 DEF SheetsInv, RunsHeld, Working
  <2>6. Sheet!TypeOK'
    BY <1>0, <2>3, <2>4, SheetTypes DEF SheetsInv
  <2>7. RunsHeld'
    BY <1>0, <2>1, <2>2, <2>3, <2>4, <2>5 DEF SheetsInv, RunsHeld, Working
  <2>8. Sheet!SucceededWroteAll'
    BY <1>0, <2>1, <2>4 DEF SheetsInv, Sheet!SucceededWroteAll
  <2> QED BY <2>6, <2>7, <2>8 DEF SheetsInv
<1> QED BY <1>1, <1>2 DEF Sheet!WritesTab

\* The request that exported a run records its success, or the failure of a run that is
\* still running.
LEMMA OutcomesRecorded ==
  ASSUME SheetsInv, NEW q \in Requests, Sheet!Succeeds(q) \/ Sheet!Fails(q)
  PROVE  SheetsInv'
<1> DEFINE r == sheetsRequest[q].run
<1>0. /\ sheetsRequest[q] \in SheetRequests /\ sheetsConn \in SheetRows
           /\ sheetsRows \in 0 .. MaxRows
      /\ run \in [Sheet!RunIds -> SheetRuns] /\ wrote \in [Sheet!RunIds -> SUBSET Tabs]
  BY SheetTypes DEF SheetsInv
<1>1. /\ sheetsRequest[q].pc \in {"export", "failed"} /\ UNCHANGED <<sheetsRows, wrote>>
      /\ sheetsConn' \in {sheetsConn, [sheetsConn EXCEPT !.status = "CONNECTED"],
                    [sheetsConn EXCEPT !.status = "ERROR"]}
  BY DEF Sheet!Succeeds, Sheet!Fails, Sheet!Marks
<1>2. sheetsConn' \in SheetRows
  BY <1>0, <1>1 DEF SheetRows
<1>3. r \in Sheet!RunIds /\ run[r].status \in {"RUNNING", "SUCCEEDED", "DELETED"}
  BY <1>1 DEF SheetsInv, RunsHeld, Working
<1>4. \A p \in Requests \ {q} : sheetsRequest[p].pc \in Working => sheetsRequest[p].run # r
  BY <1>1 DEF SheetsInv, RunsHeld, Working
<1>5. /\ run' \in [Sheet!RunIds -> SheetRuns] /\ \A o \in Sheet!RunIds \ {r} : run'[o] = run[o]
  <2>1. run' \in {run, [run EXCEPT ![r].status = "SUCCEEDED"],
      [run EXCEPT ![r].status = "FAILED"]}
    BY DEF Sheet!Succeeds, Sheet!Fails, Sheet!FailedRun
  <2> QED BY <1>0, <1>3, <2>1 DEF SheetRuns
<1>6. CASE Sheet!Succeeds(q)
  <2> DEFINE new == [sheetsRequest[q] EXCEPT !.pc = "done"]
  <2>1. /\ sheetsRequest[q].pc = "export" /\ sheetsRequest[q].todo = {}
        /\ sheetsRequest' = [sheetsRequest EXCEPT ![q] = new]
        /\ run' = IF run[r].status = "RUNNING"
                  THEN [run EXCEPT ![r].status = "SUCCEEDED"] ELSE run
    BY <1>6 DEF Sheet!Succeeds, Sheet!AllWritten, Sheet!Goes
  <2>2. /\ new \in SheetRequests /\ new.pc = "done" /\ new.run = r
    BY <1>0 DEF SheetRequests
  <2> HIDE DEF new
  <2>3. /\ sheetsRequest'[q] = new
        /\ \A p \in Requests \ {q} : sheetsRequest'[p] = sheetsRequest[p]
        /\ sheetsRequest' \in [Requests -> SheetRequests]
    BY <2>1, <2>2, SheetTypes DEF SheetsInv
  <2>4. run'[r].status \in {"SUCCEEDED", "DELETED"} /\ wrote[r] = Tabs
    <3>1. run[r].status \in {"RUNNING", "DELETED"} /\ wrote[r] \cup sheetsRequest[q].todo = Tabs
      BY <2>1 DEF SheetsInv, RunsHeld
    <3> QED BY <1>0, <1>3, <2>1, <3>1 DEF SheetRuns
  <2>5. Sheet!TypeOK'
    BY <1>0, <1>1, <1>2, <1>5, <2>3, SheetTypes
  <2>6. RunsHeld'
    BY <1>1, <1>3, <1>4, <1>5, <2>2, <2>3, <2>4 DEF SheetsInv, RunsHeld, Working
  <2>7. Sheet!SucceededWroteAll'
    BY <1>1, <1>5, <2>4 DEF SheetsInv, Sheet!SucceededWroteAll
  <2> QED BY <2>5, <2>6, <2>7 DEF SheetsInv
<1>7. CASE Sheet!Fails(q)
  <2>1. /\ sheetsRequest' = [sheetsRequest EXCEPT ![q] = Sheet!Idle]
        /\ run' = IF run[r].status = "RUNNING"
                  THEN [run EXCEPT ![r].status = "FAILED"] ELSE run
    BY <1>7 DEF Sheet!Fails, Sheet!FailedRun, Sheet!Ends
  <2>2. /\ sheetsRequest'[q] = Sheet!Idle
        /\ \A p \in Requests \ {q} : sheetsRequest'[p] = sheetsRequest[p]
        /\ sheetsRequest' \in [Requests -> SheetRequests]
    BY <2>1, SheetIdle, SheetTypes DEF SheetsInv
  <2>3. run'[r].status = "SUCCEEDED" => run[r].status = "SUCCEEDED"
    BY <1>0, <1>3, <2>1 DEF SheetRuns
  <2>4. Sheet!TypeOK'
    BY <1>0, <1>1, <1>2, <1>5, <2>2, SheetTypes
  <2>5. RunsHeld'
    BY <1>1, <1>4, <1>5, <2>2, SheetIdle DEF SheetsInv, RunsHeld, Working
  <2>6. Sheet!SucceededWroteAll'
    BY <1>1, <1>3, <1>5, <2>3 DEF SheetsInv, Sheet!SucceededWroteAll
  <2> QED BY <2>4, <2>5, <2>6 DEF SheetsInv
<1> QED BY <1>6, <1>7

\* A disconnection takes the runs of its row with it, those in progress too.
LEMMA RunsDeleted ==
  ASSUME SheetsInv, NEW q \in Requests, Sheet!Deletes(q)
  PROVE  SheetsInv'
<1>0. /\ sheetsConn \in SheetRows /\ run \in [Sheet!RunIds -> SheetRuns] /\ Sheet!Ends(q)
      /\ UNCHANGED <<sheetsRows, wrote>>
  BY SheetTypes DEF SheetsInv, Sheet!Deletes
<1>1. /\ run' \in [Sheet!RunIds -> SheetRuns] /\ sheetsConn' \in SheetRows
      /\ \A r \in Sheet!RunIds : run'[r].status \in {run[r].status, "DELETED"}
  <2>1. CASE sheetsConn.id = sheetsRequest[q].row
    <3>1. /\ sheetsConn' = Sheet!NoRow
          /\ run' = [r \in Sheet!RunIds |-> IF run[r].conn = sheetsConn.id
                                      THEN [run[r] EXCEPT !.status = "DELETED"] ELSE run[r]]
      BY <2>1 DEF Sheet!Deletes
    <3>2. ASSUME NEW r \in Sheet!RunIds
          PROVE  /\ [run[r] EXCEPT !.status = "DELETED"] \in SheetRuns
                 /\ [run[r] EXCEPT !.status = "DELETED"].status = "DELETED"
      BY <1>0 DEF SheetRuns
    <3> QED BY <1>0, <3>1, <3>2, SheetIdle
  <2>2. CASE sheetsConn.id # sheetsRequest[q].row
    BY <1>0, <2>2 DEF Sheet!Deletes
  <2> QED BY <2>1, <2>2
<1>2. /\ sheetsRequest'[q] = Sheet!Idle
      /\ \A p \in Requests \ {q} : sheetsRequest'[p] = sheetsRequest[p]
      /\ sheetsRequest' \in [Requests -> SheetRequests]
  BY <1>0, SheetIdle, SheetTypes DEF SheetsInv, Sheet!Ends
<1>3. Sheet!TypeOK'
  BY <1>0, <1>1, <1>2, SheetTypes DEF SheetsInv
<1>4. RunsHeld'
  <2>1. \A p \in Requests : sheetsRequest'[p].pc \in {"retry"} \cup Working =>
      sheetsRequest'[p] = sheetsRequest[p]
    BY <1>2, SheetIdle DEF Working
  <2> QED BY <1>0, <1>1, <2>1 DEF SheetsInv, RunsHeld, Working
<1>5. Sheet!SucceededWroteAll'
  BY <1>0, <1>1 DEF SheetsInv, Sheet!SucceededWroteAll
<1> QED BY <1>3, <1>4, <1>5 DEF SheetsInv

\* Every step of the export keeps it.
LEMMA SheetStepKeeps == SheetsInv /\ [Sheet!Next]_(Sheet!vars) => SheetsInv'
<1> SUFFICES ASSUME SheetsInv, [Sheet!Next]_(Sheet!vars) PROVE SheetsInv'
  OBVIOUS
<1>0. /\ sheetsConn \in SheetRows /\ sheetsRows \in 0 .. MaxRows /\ MaxRows \in Nat
      /\ run \in [Sheet!RunIds -> SheetRuns] /\ sheetsRequest \in [Requests -> SheetRequests]
  BY SheetTypes, Bounds DEF SheetsInv, Sheet!SheetsAssumption
<1>1. ASSUME UNCHANGED <<run, sheetsRequest, wrote>>, sheetsConn' \in SheetRows,
    sheetsRows' \in 0 .. MaxRows
      PROVE  SheetsInv'
  BY <1>1, SheetTypes DEF SheetsInv, RunsHeld, Sheet!SucceededWroteAll
<1>2. CASE Sheet!Connects
  <2>1. sheetsRows' \in 0 .. MaxRows
    BY <1>0, <1>2 DEF Sheet!Connects
  <2>2. sheetsConn' \in SheetRows
    BY <1>0, <1>2, <2>1 DEF Sheet!Connects, SheetRows
  <2> QED BY <1>1, <1>2, <2>1, <2>2 DEF Sheet!Connects
<1>3. CASE Sheet!AccessExpires
  BY <1>0, <1>1, <1>3 DEF Sheet!AccessExpires, SheetRows
<1>4. ASSUME NEW s \in Sheets, Sheet!Chooses(s) PROVE SheetsInv'
  <2>1. sheetsConn' \in SheetRows
    BY <1>0, <1>4 DEF Sheet!Chooses, SheetRows
  <2> QED BY <1>0, <1>1, <1>4, <2>1 DEF Sheet!Chooses
<1>5. ASSUME NEW q \in Requests PROVE
      /\ Sheet!ReadsConnection(q) => SheetsInv'
      /\ Sheet!FindsRun(q) => SheetsInv'
      /\ Sheet!ClaimsFailed(q) => SheetsInv'
      /\ Sheet!Inserts(q) => SheetsInv'
      /\ Sheet!Prepares(q) => SheetsInv'
      /\ Sheet!Audits(q) \/ Sheet!Revokes(q) \/ Sheet!RequestStops(q) => SheetsInv'
  <2>0. sheetsRequest[q] \in SheetRequests
    BY <1>0
  <2>e. ASSUME Sheet!Ends(q), UNCHANGED <<sheetsConn, run, sheetsRows, wrote>> PROVE SheetsInv'
    BY <1>0, <2>e, SheetIdle, SheetMoves DEF Sheet!Ends, Working
  <2>1. ASSUME Sheet!ReadsConnection(q) PROVE SheetsInv'
    <3>1. PICK k \in Keys : sheetsRequest' = [sheetsRequest EXCEPT ![q] =
            [Sheet!Idle EXCEPT !.pc = "read", !.key = k, !.row = sheetsConn.id,
                !.sheet = sheetsConn.sheet]]
      BY <2>1 DEF Sheet!ReadsConnection
    <3> DEFINE new == [Sheet!Idle EXCEPT !.pc = "read", !.key = k, !.row = sheetsConn.id,
                                   !.sheet = sheetsConn.sheet]
    <3>2. new \in SheetRequests /\ new.pc = "read"
      BY <1>0, SheetIdle DEF SheetRequests, SheetRows
    <3> HIDE DEF new
    <3> QED BY <1>0, <2>1, <3>1, <3>2, SheetMoves DEF Sheet!ReadsConnection, Working, new
  <2>2. ASSUME Sheet!FindsRun(q) PROVE SheetsInv'
    <3>1. CASE Sheet!Ends(q)
      BY <2>2, <2>e, <3>1 DEF Sheet!FindsRun
    <3>2. CASE Sheet!Goes(q, "new")
      <4>1. /\ [sheetsRequest[q] EXCEPT !.pc = "new"] \in SheetRequests
            /\ [sheetsRequest[q] EXCEPT !.pc = "new"].pc = "new"
        BY <2>0 DEF SheetRequests
      <4> QED BY <1>0, <2>2, <3>2, <4>1, SheetMoves DEF Sheet!FindsRun, Sheet!Goes, Working
    <3>3. ASSUME NEW r \in Sheet!OfKey(sheetsRequest[q].key),
                 sheetsRequest' = [sheetsRequest EXCEPT ![q].pc = "retry", ![q].run = r]
          PROVE  SheetsInv'
      <4> DEFINE new == [sheetsRequest[q] EXCEPT !.pc = "retry", !.run = r]
      <4>1. r \in Sheet!RunIds /\ r \in 0 .. MaxRuns
        BY Bounds DEF Sheet!OfKey, Sheet!RunIds, Sheet!SheetsAssumption
      <4>2. new \in SheetRequests /\ new.pc = "retry" /\ new.run = r
        BY <2>0, <4>1 DEF SheetRequests
      <4>3. sheetsRequest' = [sheetsRequest EXCEPT ![q] = new]
        BY <1>0, <3>3
      <4> HIDE DEF new
      <4> QED BY <1>0, <2>2, <4>1, <4>2, <4>3, SheetMoves DEF Sheet!FindsRun, Working
    <3> QED BY <2>2, <3>1, <3>2, <3>3 DEF Sheet!FindsRun
  <2>3. ASSUME Sheet!ClaimsFailed(q) PROVE SheetsInv'
    <3> DEFINE r == sheetsRequest[q].run
               new == [sheetsRequest[q] EXCEPT !.pc = "claimed"]
               one == [run[r] EXCEPT !.status = "RUNNING"]
    <3>1. CASE Sheet!IsFailed(r)
      <4>1. /\ run' = [run EXCEPT ![r] = one]
                 /\ sheetsRequest' = [sheetsRequest EXCEPT ![q] = new]
            /\ wrote' = [wrote EXCEPT ![r] = {}] /\ UNCHANGED <<sheetsConn, sheetsRows>>
            /\ sheetsRequest[q].pc = "retry" /\ run[r].status = "FAILED"
        BY <2>3, <3>1 DEF Sheet!ClaimsFailed, Sheet!Goes, Sheet!IsFailed
      <4>2. r \in Sheet!RunIds
        BY <4>1 DEF SheetsInv, RunsHeld
      <4>3. /\ new \in SheetRequests /\ new.pc = "claimed" /\ new.run = r
            /\ one \in SheetRuns /\ one.status = "RUNNING"
        BY <1>0, <2>0, <4>2 DEF SheetRequests, SheetRuns
      <4> HIDE DEF new, one, r
      <4> QED BY <4>1, <4>2, <4>3, ClaimsAreFirst
    <3>2. CASE ~Sheet!IsFailed(r)
      BY <2>3, <2>e, <3>2 DEF Sheet!ClaimsFailed
    <3> QED BY <3>1, <3>2
  <2>4. ASSUME Sheet!Inserts(q) PROVE SheetsInv'
    <3>1. CASE Sheet!OfKey(sheetsRequest[q].key) = {} /\ sheetsConn.id = sheetsRequest[q].row
      <4>1. PICK r \in Sheet!RunIds :
              /\ run[r].status = "NONE"
              /\ run' = [run EXCEPT ![r] = [status |-> "RUNNING",
                           key |-> sheetsRequest[q].key, conn |-> sheetsRequest[q].row]]
              /\ sheetsRequest' = [sheetsRequest EXCEPT ![q].pc = "claimed", ![q].run = r]
        BY <2>4, <3>1 DEF Sheet!Inserts
      <4> DEFINE new == [sheetsRequest[q] EXCEPT !.pc = "claimed", !.run = r]
                 one == [status |-> "RUNNING", key |-> sheetsRequest[q].key,
                     conn |-> sheetsRequest[q].row]
      <4>2. r \in 0 .. MaxRuns
        BY Bounds DEF Sheet!RunIds, Sheet!SheetsAssumption
      <4>3. /\ new \in SheetRequests /\ new.pc = "claimed" /\ new.run = r
            /\ one \in SheetRuns /\ one.status = "RUNNING"
        BY <2>0, <4>2 DEF SheetRequests, SheetRuns
      <4>4. sheetsRequest' = [sheetsRequest EXCEPT ![q] = new]
        BY <1>0, <4>1
      <4>5. UNCHANGED <<sheetsConn, sheetsRows, wrote>>
        BY <2>4 DEF Sheet!Inserts
      <4> HIDE DEF new
      <4> QED BY <4>1, <4>3, <4>4, <4>5, ClaimsAreFirst
    <3>2. CASE ~(Sheet!OfKey(sheetsRequest[q].key) = {} /\ sheetsConn.id = sheetsRequest[q].row)
      BY <2>4, <2>e, <3>2 DEF Sheet!Inserts
    <3> QED BY <3>1, <3>2
  <2>5. ASSUME Sheet!Prepares(q) PROVE SheetsInv'
    <3>1. /\ sheetsConn' \in {sheetsConn, [sheetsConn EXCEPT !.status = "CONNECTED",
               !.fresh = TRUE],
                        [sheetsConn EXCEPT !.status = "ERROR"]}
          /\ UNCHANGED <<run, sheetsRows, wrote>> /\ sheetsRequest[q].pc = "claimed"
      BY <2>5 DEF Sheet!Prepares
    <3>2. sheetsConn' \in SheetRows
      BY <1>0, <3>1 DEF SheetRows
    <3>3. CASE sheetsRequest' = [sheetsRequest EXCEPT ![q].pc = "export", ![q].todo = Tabs]
      <4> DEFINE new == [sheetsRequest[q] EXCEPT !.pc = "export", !.todo = Tabs]
      <4>1. /\ new \in SheetRequests /\ new.pc = "export" /\ new.todo = Tabs
            /\ new.run = sheetsRequest[q].run
        BY <2>0 DEF SheetRequests
      <4>2. sheetsRequest' = [sheetsRequest EXCEPT ![q] = new]
        BY <1>0, <3>3
      <4> HIDE DEF new
      <4> QED BY <1>0, <3>1, <3>2, <4>1, <4>2, SheetMoves DEF Working
    <3>4. CASE Sheet!Goes(q, "failed")
      <4> DEFINE new == [sheetsRequest[q] EXCEPT !.pc = "failed"]
      <4>1. /\ new \in SheetRequests /\ new.pc = "failed" /\ new.run = sheetsRequest[q].run
        BY <2>0 DEF SheetRequests
      <4>2. sheetsRequest' = [sheetsRequest EXCEPT ![q] = new]
        BY <3>4 DEF Sheet!Goes
      <4> HIDE DEF new
      <4> QED BY <1>0, <3>1, <3>2, <4>1, <4>2, SheetMoves DEF Working
    <3> QED BY <2>5, <3>3, <3>4 DEF Sheet!Prepares, Sheet!CallFails
  <2>6. ASSUME Sheet!Audits(q) \/ Sheet!Revokes(q) \/ Sheet!RequestStops(q) PROVE SheetsInv'
    <3>1. UNCHANGED <<sheetsConn, run, sheetsRows, wrote>>
      BY <2>6 DEF Sheet!Audits, Sheet!Revokes, Sheet!RequestStops
    <3>2. CASE Sheet!Ends(q)
      BY <2>e, <3>1, <3>2
    <3>3. CASE sheetsRequest[q].pc = "done" /\ Sheet!Goes(q, "failed")
      <4> DEFINE new == [sheetsRequest[q] EXCEPT !.pc = "failed"]
      <4>1. /\ new \in SheetRequests /\ new.pc = "failed" /\ new.run = sheetsRequest[q].run
        BY <2>0 DEF SheetRequests
      <4>2. sheetsRequest' = [sheetsRequest EXCEPT ![q] = new]
        BY <3>3 DEF Sheet!Goes
      <4> HIDE DEF new
      <4> QED BY <1>0, <3>1, <3>3, <4>1, <4>2, SheetMoves DEF Working
    <3>4. CASE Sheet!Revokes(q)
      <4> DEFINE new == [Sheet!Idle EXCEPT !.pc = "revoking", !.row = sheetsConn.id]
      <4>1. new \in SheetRequests /\ new.pc = "revoking"
        BY <1>0, SheetIdle DEF SheetRequests, SheetRows
      <4>2. sheetsRequest' = [sheetsRequest EXCEPT ![q] = new]
        BY <3>4 DEF Sheet!Revokes
      <4> HIDE DEF new
      <4> QED BY <1>0, <3>1, <4>1, <4>2, SheetMoves DEF Working
    <3> QED BY <2>6, <3>2, <3>3, <3>4 DEF Sheet!Audits, Sheet!RequestStops
  <2> QED BY <2>1, <2>2, <2>3, <2>4, <2>5, <2>6
<1>6. CASE UNCHANGED Sheet!vars
  BY <1>0, <1>1, <1>6 DEF Sheet!vars
<1> QED BY <1>2, <1>3, <1>4, <1>5, <1>6, TabsWritten, OutcomesRecorded, RunsDeleted DEF Sheet!Next

\* The export starts without runs.
LEMMA SheetInit == Sheet!Init => SheetsInv
<1> SUFFICES ASSUME Sheet!Init PROVE SheetsInv
  OBVIOUS
<1>1. Sheet!TypeOK
  <2>1. 0 \in 0 .. MaxRows
    BY Bounds DEF Sheet!SheetsAssumption
  <2> QED BY <2>1, SheetIdle, SheetTypes DEF Sheet!Init
<1>2. \A q \in Requests : sheetsRequest[q].pc = "idle"
  BY SheetIdle DEF Sheet!Init
<1>3. \A r \in Sheet!RunIds : run[r].status = "NONE"
  BY SheetIdle DEF Sheet!Init
<1> QED BY <1>1, <1>2, <1>3 DEF SheetsInv, RunsHeld, Sheet!SucceededWroteAll, Working

\* What the invariant is for.
LEMMA SheetHolds == SheetsInv => Sheet!OneExporterPerRun /\ Sheet!SucceededWroteAll
BY DEF SheetsInv, RunsHeld, Sheet!OneExporterPerRun, Working

\* Only who holds a run changes it: it holds none that succeeded, until it is deleted.
LEMMA SheetSuccessKept == SheetsInv /\ [Sheet!Next]_(Sheet!vars) => Sheet!SuccessIsKeptStep
<1> SUFFICES ASSUME SheetsInv, [Sheet!Next]_(Sheet!vars), NEW r \in Sheet!RunIds,
    run[r].status = "SUCCEEDED"
             PROVE  run'[r].status \in {"SUCCEEDED", "DELETED"} /\ wrote'[r] = wrote[r]
  BY DEF Sheet!SuccessIsKeptStep
<1>0. /\ run \in [Sheet!RunIds -> SheetRuns] /\ wrote \in [Sheet!RunIds -> SUBSET Tabs]
  BY SheetTypes DEF SheetsInv
<1>1. CASE UNCHANGED <<run, wrote>>
  BY <1>0, <1>1
<1>2. ASSUME NEW q \in Requests PROVE
        \/ UNCHANGED <<run, wrote>>
        \/ ~(Sheet!ClaimsFailed(q) \/ Sheet!Inserts(q) \/ Sheet!WritesTab(q)
             \/ Sheet!Succeeds(q) \/ Sheet!Fails(q)
             \/ Sheet!Deletes(q))
        \/ run'[r].status \in {"SUCCEEDED", "DELETED"} /\ wrote'[r] = wrote[r]
  <2>1. CASE Sheet!ClaimsFailed(q)
    <3>1. \/ UNCHANGED <<run, wrote>>
          \/ \E o : /\ run[o].status = "FAILED" /\ run' = [run EXCEPT ![o].status = "RUNNING"]
                    /\ wrote' = [wrote EXCEPT ![o] = {}]
      BY <2>1 DEF Sheet!ClaimsFailed, Sheet!IsFailed
    <3> QED BY <1>0, <3>1
  <2>2. CASE Sheet!Inserts(q)
    <3>1. /\ UNCHANGED wrote
          /\ \/ UNCHANGED run
             \/ \E o \in Sheet!RunIds, one \in {[status |-> "RUNNING",
                  key |-> sheetsRequest[q].key,
                                           conn |-> sheetsRequest[q].row]} :
                  run[o].status = "NONE" /\ run' = [run EXCEPT ![o] = one]
      BY <2>2 DEF Sheet!Inserts
    <3> QED BY <1>0, <3>1
  <2>3. CASE Sheet!WritesTab(q)
    <3>1. /\ UNCHANGED run /\ sheetsRequest[q].pc = "export"
          /\ \/ UNCHANGED wrote
             \/ \E t : wrote' = [wrote EXCEPT ![sheetsRequest[q].run] = @ \cup {t}]
      BY <2>3 DEF Sheet!WritesTab, Sheet!Replaced
    <3>2. sheetsRequest[q].run # r
      BY <3>1 DEF SheetsInv, RunsHeld
    <3> QED BY <1>0, <3>1, <3>2
  <2>4. CASE Sheet!Succeeds(q) \/ Sheet!Fails(q)
    <3>1. /\ UNCHANGED wrote
          /\ \/ UNCHANGED run
             \/ \E o, s \in {sheetsRequest[q].run, "SUCCEEDED", "FAILED"} :
                  run[o].status = "RUNNING" /\ run' = [run EXCEPT ![o].status = s]
      BY <2>4 DEF Sheet!Succeeds, Sheet!Fails, Sheet!FailedRun
    <3> QED BY <1>0, <3>1
  <2>5. CASE Sheet!Deletes(q)
    <3>1. /\ UNCHANGED wrote
          /\ run'[r] = run[r] \/ run'[r] = [run[r] EXCEPT !.status = "DELETED"]
      BY <1>0, <2>5 DEF Sheet!Deletes
    <3> QED BY <1>0, <3>1 DEF SheetRuns
  <2> QED BY <2>1, <2>2, <2>3, <2>4, <2>5
<1> QED BY <1>1, <1>2 DEF Sheet!Next, Sheet!Connects, Sheet!AccessExpires, Sheet!Chooses,
           Sheet!ReadsConnection, Sheet!FindsRun,
           Sheet!Prepares, Sheet!Audits, Sheet!Revokes, Sheet!RequestStops, Sheet!vars

\* The connection to Google and the export in the composition: one connection per state, a
\* calendar that was listed, one exporter per run, and a success that wrote every tab.
THEOREM GoogleKeeps == Spec => []GoogleKept
<1>1. Init => GoogleInv /\ SheetsInv
  BY PartsStart, GoogleInit, SheetInit
<1>2. GoogleInv /\ SheetsInv /\ [Next]_vars => GoogleInv' /\ SheetsInv'
  BY PartsStep, GoogleStepKeeps, SheetStepKeeps
<1>3. GoogleInv /\ SheetsInv => GoogleKept
  BY GoogleHolds, SheetHolds DEF GoogleKept
<1> QED BY <1>1, <1>2, <1>3, PTL DEF Spec

------------------------------------------------------------------------------
(***************************************************************************)
(* The health of a number.                                                 *)
(***************************************************************************)
\* Why the page explains what is bad: the error is written with the status that it is for,
\* and it is cleared with the status that has none.
ErrorsRecorded ==
  /\ healthRow.status \in {"ERROR", "ACTION_REQUIRED"} => healthRow.error # "none"
  /\ attempt.status = "FAILED" => attempt.error # "none"
HealthInv == Health!TypeOK /\ Health!SettledIsClean /\ ErrorsRecorded

HealthAttempts ==
  [status : {"NONE", "AWAITING_CODE", "PROCESSING", "SUCCEEDED", "FAILED"},
   live : BOOLEAN, error : {"none", "signup_cancelled", "invalid_code"}]
HealthSessions == [op : {"none", "test", "reconnect"}, read : Health!Rows]

\* The parts of the type invariant of the health, by name.
LEMMA HealthTypes ==
  /\ Health!TypeOK <=>
       /\ healthRow \in Health!Rows /\ attempt \in HealthAttempts /\ starts \in 0 .. MaxStarts
       /\ session \in HealthSessions /\ jobs \subseteq Health!Providers
       /\ {subscribed, healthReceived} \subseteq BOOLEAN
  /\ Health!TypeOK' <=>
       /\ healthRow' \in Health!Rows /\ attempt' \in HealthAttempts /\ starts' \in 0 .. MaxStarts
       /\ session' \in HealthSessions /\ jobs' \subseteq Health!Providers
       /\ {subscribed', healthReceived'} \subseteq BOOLEAN
BY DEF Health!TypeOK, HealthAttempts, HealthSessions

\* What a row must be: with an error exactly when its last check found one.
RowExplained(r) ==
  /\ r.status \in {"CONNECTED", "DISCONNECTED"} => r.error = "none"
  /\ r.status \in {"ERROR", "ACTION_REQUIRED"} => r.error # "none"
AttemptExplained(a) == a.status = "FAILED" => a.error # "none"

\* A step keeps the invariant when what it writes is typed and explained.
LEMMA HealthWritten ==
  ASSUME HealthInv,
         healthRow' \in Health!Rows, RowExplained(healthRow'),
         attempt' \in HealthAttempts, AttemptExplained(attempt'),
         starts' \in 0 .. MaxStarts, session' \in HealthSessions,
             jobs' \subseteq Health!Providers,
         subscribed' \in BOOLEAN, healthReceived' \in BOOLEAN
  PROVE  HealthInv'
<1>1. Health!TypeOK'
  BY HealthTypes
<1> QED BY <1>1 DEF HealthInv, Health!SettledIsClean, ErrorsRecorded, RowExplained,
           AttemptExplained

\* The parts of the invariant, by name.
LEMMA HealthParts ==
  ASSUME HealthInv
  PROVE  /\ healthRow \in Health!Rows /\ RowExplained(healthRow)
         /\ attempt \in HealthAttempts /\ AttemptExplained(attempt)
         /\ starts \in 0 .. MaxStarts /\ session \in HealthSessions
              /\ jobs \subseteq Health!Providers
         /\ subscribed \in BOOLEAN /\ healthReceived \in BOOLEAN
         /\ MaxSaves \in Nat /\ MaxStarts \in Nat
BY HealthTypes, Bounds DEF Health!HealthAssumption, HealthInv, Health!SettledIsClean,
   ErrorsRecorded, RowExplained, AttemptExplained

\* What is at rest has its type.
LEMMA HealthNone == Health!NoRow \in Health!Rows /\ RowExplained(Health!NoRow)
<1>1. 0 \in 0 .. MaxSaves
  BY Bounds DEF Health!HealthAssumption
<1> QED BY <1>1 DEF Health!NoRow, Health!Rows, Health!Providers, Health!Ways, Health!Errors,
           RowExplained

\* A connection is saved without an error, and with no event of another provider.
LEMMA HealthSaves ==
  ASSUME HealthInv, NEW provider \in Health!Providers, NEW way \in Health!Ways,
      Health!Saves(provider, way)
  PROVE  /\ healthRow' \in Health!Rows /\ RowExplained(healthRow')
         /\ subscribed' \in BOOLEAN /\ healthReceived' \in BOOLEAN
         /\ healthRow'.provider # healthRow.provider => ~ healthRow'.webhook
<1>1. /\ healthRow \in Health!Rows /\ subscribed \in BOOLEAN /\ healthReceived \in BOOLEAN
      /\ healthRow.synced + 1 \in 0 .. MaxSaves
  <2>1. healthRow \in Health!Rows /\ healthRow.synced < MaxSaves
    BY HealthParts DEF Health!Saves
  <2>2. healthRow.synced \in 0 .. MaxSaves
    BY <2>1 DEF Health!Rows
  <2>3. MaxSaves \in Nat /\ subscribed \in BOOLEAN /\ healthReceived \in BOOLEAN
    BY HealthParts
  <2> QED BY <2>1, <2>2, <2>3
<1>2. healthRow' = [status |-> "CONNECTED", provider |-> provider, way |-> way, error |-> "none",
              subscribed |-> provider = "META_CLOUD"
                             \/ (healthRow.provider = "YCLOUD" /\ healthRow.subscribed),
              webhook |-> Health!Kept(provider), scopes |-> provider = "META_CLOUD",
              synced |-> healthRow.synced + 1]
  BY DEF Health!Saves
<1>3. /\ Health!Kept(provider) \in BOOLEAN
      /\ healthRow.provider # provider => ~ Health!Kept(provider)
      /\ (provider = "META_CLOUD" \/ (healthRow.provider = "YCLOUD"
           /\ healthRow.subscribed)) \in BOOLEAN
      /\ (provider = "META_CLOUD") \in BOOLEAN
  BY DEF Health!Kept
<1>4. healthRow' \in Health!Rows
  BY <1>1, <1>2, <1>3 DEF Health!Rows, Health!Errors
<1>5. healthRow'.status = "CONNECTED" /\ healthRow'.error = "none"
    /\ healthRow'.provider = provider
      /\ healthRow'.webhook = Health!Kept(provider)
  BY <1>2
<1>6. subscribed' \in BOOLEAN /\ healthReceived' \in BOOLEAN
  BY <1>1 DEF Health!Saves
<1> QED BY <1>3, <1>4, <1>5, <1>6 DEF RowExplained

\* What the steps other than a connection leave in the row.
LEMMA HealthWrites ==
  ASSUME HealthInv, Health!Accepted \/ Health!Refused \/ Health!Disconnects
      \/ \E p \in Health!Providers : Health!Touches(p)
  PROVE  healthRow' \in Health!Rows /\ RowExplained(healthRow')
      /\ healthRow'.provider = healthRow.provider
<1>0. /\ healthRow \in Health!Rows /\ RowExplained(healthRow) /\ session \in HealthSessions
      /\ MaxSaves \in Nat
  BY HealthParts
<1>1. CASE healthRow' = healthRow
  BY <1>0, <1>1
<1>2. CASE Health!Accepted /\ healthRow' # healthRow
  <2>1. PICK s, c \in BOOLEAN :
          /\ healthRow.synced < MaxSaves
          /\ healthRow' = [healthRow EXCEPT !.status = "CONNECTED", !.error = "none",
                       !.synced = healthRow.synced + 1, !.subscribed = s, !.scopes = c]
    BY <1>0, <1>2 DEF Health!Accepted, Health!Embedded
  <2>2. healthRow.synced + 1 \in 0 .. MaxSaves
    BY <1>0, <2>1 DEF Health!Rows
  <2> QED BY <1>0, <2>1, <2>2 DEF Health!Rows, RowExplained, Health!Errors
<1>3. CASE Health!Refused /\ healthRow' # healthRow
  <2>1. PICK error \in Health!Errors \ {"none"}, status \in {"ERROR", "ACTION_REQUIRED"} :
          healthRow' = [healthRow EXCEPT !.error = error, !.status = status]
    BY <1>3 DEF Health!Refused
  <2> QED BY <1>0, <2>1 DEF Health!Rows, RowExplained
<1>4. CASE Health!Disconnects
  BY <1>0, <1>4 DEF Health!Disconnects, Health!Cleared, Health!Rows, RowExplained, Health!Errors
<1>5. CASE \E p \in Health!Providers : Health!Touches(p)
  BY <1>0, <1>5 DEF Health!Touches, Health!Rows, RowExplained
<1> QED BY <1>1, <1>2, <1>3, <1>4, <1>5

\* Every step keeps it, and shows no event of another provider.
LEMMA HealthStepKeeps == HealthInv /\ [Health!Next]_(Health!vars) =>
    HealthInv' /\ Health!TelemetryLeftStep
<1> SUFFICES ASSUME HealthInv, [Health!Next]_(Health!vars) PROVE HealthInv'
    /\ Health!TelemetryLeftStep
  OBVIOUS
<1>0. /\ healthRow \in Health!Rows /\ RowExplained(healthRow)
      /\ attempt \in HealthAttempts /\ AttemptExplained(attempt)
      /\ starts \in 0 .. MaxStarts /\ session \in HealthSessions
           /\ jobs \subseteq Health!Providers
      /\ subscribed \in BOOLEAN /\ healthReceived \in BOOLEAN
      /\ Health!Idle \in HealthSessions /\ MaxStarts \in Nat
  <2>1. Health!NoRow \in Health!Rows
    BY HealthNone
  <2> QED BY <2>1, HealthParts DEF Health!Idle, HealthSessions
<1> USE DEF Health!TelemetryLeftStep
<1>1. CASE Health!ConnectsManually
  <2>1. Health!Saves("META_CLOUD", "MANUAL") /\ UNCHANGED <<attempt, starts, session, jobs>>
    BY <1>1 DEF Health!ConnectsManually
  <2> QED BY <1>0, <2>1, HealthSaves, HealthWritten DEF Health!Providers, Health!Ways
<1>2. CASE Health!ConnectsYCloud
  <2>1. Health!Saves("YCLOUD", "COEXISTENCE") /\ UNCHANGED <<attempt, starts, session, jobs>>
    BY <1>2 DEF Health!ConnectsYCloud
  <2> QED BY <1>0, <2>1, HealthSaves, HealthWritten DEF Health!Providers, Health!Ways
<1>3. CASE Health!CompletesSignup
  <2>1. Health!Saves("META_CLOUD", "EMBEDDED_SIGNUP") /\ UNCHANGED <<starts, session, jobs>>
        /\ attempt' = [attempt EXCEPT !.status = "SUCCEEDED", !.error = "none"]
    BY <1>3 DEF Health!CompletesSignup
  <2>2. attempt' \in HealthAttempts /\ AttemptExplained(attempt')
    BY <1>0, <2>1 DEF HealthAttempts, AttemptExplained
  <2> QED BY <1>0, <2>1, <2>2, HealthSaves, HealthWritten DEF Health!Providers, Health!Ways
<1>4. CASE Health!Starts \/ Health!Cancels \/ Health!Claims \/ Health!FailsSignup
    \/ Health!Expires
  <2>1. attempt' \in HealthAttempts /\ AttemptExplained(attempt')
    <3>1. CASE Health!Starts \/ Health!Cancels
      <4>1. \E status \in {"AWAITING_CODE", "FAILED"}, error \in {"none", "signup_cancelled"},
                live \in BOOLEAN :
              /\ attempt' = [status |-> status, live |-> live, error |-> error]
              /\ status = "FAILED" => error # "none"
        BY <3>1 DEF Health!Starts, Health!Cancels
      <4> QED BY <4>1 DEF HealthAttempts, AttemptExplained
    <3>2. CASE Health!Claims \/ Health!FailsSignup \/ Health!Expires
      BY <1>0, <3>2 DEF Health!Claims, Health!FailsSignup, Health!Expires, Health!WithCode,
         HealthAttempts, AttemptExplained
    <3> QED BY <1>4, <3>1, <3>2
  <2>2. starts' \in 0 .. MaxStarts
    <3>1. starts' = starts \/ (starts' = starts + 1 /\ starts < MaxStarts)
      BY <1>4 DEF Health!Starts, Health!Cancels, Health!Claims, Health!FailsSignup, Health!Expires
    <3> QED BY <1>0, <3>1
  <2>3. subscribed' \in BOOLEAN /\ UNCHANGED <<healthRow, session, jobs, healthReceived>>
    BY <1>0, <1>4 DEF Health!Starts, Health!Cancels, Health!Claims, Health!FailsSignup,
       Health!Expires
  <2> QED BY <1>0, <2>1, <2>2, <2>3, HealthWritten
<1>5. CASE Health!Accepted \/ Health!Refused \/ Health!Disconnects
    \/ \E p \in Health!Providers : Health!Touches(p)
  <2>1. /\ UNCHANGED <<attempt, starts, healthReceived>> /\ session' \in {session, Health!Idle}
        /\ subscribed' \in BOOLEAN /\ jobs' \subseteq Health!Providers
    BY <1>0, <1>5 DEF Health!Accepted, Health!Refused, Health!Disconnects, Health!Touches,
       Health!Embedded
  <2> QED BY <1>0, <1>5, <2>1, HealthWrites, HealthWritten
<1>6. CASE Health!Begins
  <2>1. UNCHANGED <<healthRow, attempt, starts, jobs, subscribed, healthReceived>>
        /\ session' \in HealthSessions
    BY <1>0, <1>6 DEF Health!Begins, HealthSessions
  <2> QED BY <1>0, <2>1, HealthWritten
<1>7. CASE Health!Unsubscribes \/ \E p \in Health!Providers : Health!Arrives(p)
  <2>1. /\ UNCHANGED <<healthRow, attempt, starts, session>> /\ jobs' \subseteq Health!Providers
        /\ subscribed' \in BOOLEAN /\ healthReceived' \in BOOLEAN
    BY <1>0, <1>7 DEF Health!Unsubscribes, Health!Arrives
  <2> QED BY <1>0, <2>1, HealthWritten
<1>8. CASE UNCHANGED Health!vars
  BY <1>0, <1>8, HealthWritten DEF Health!vars
<1> QED BY <1>1, <1>2, <1>3, <1>4, <1>5, <1>6, <1>7, <1>8 DEF Health!Next

\* The health starts without a number.
LEMMA HealthInit == Health!Init => HealthInv
<1> SUFFICES ASSUME Health!Init PROVE HealthInv
  OBVIOUS
<1>1. Health!TypeOK
  <2>1. 0 \in 0 .. MaxStarts
    BY Bounds DEF Health!HealthAssumption
  <2>2. attempt \in HealthAttempts /\ session \in HealthSessions /\ healthRow \in Health!Rows
    BY HealthNone DEF Health!Init, Health!NoAttempt, Health!Idle, HealthAttempts, HealthSessions
  <2> QED BY <2>1, <2>2, HealthTypes DEF Health!Init
<1> QED BY <1>1 DEF Health!Init, HealthInv, Health!SettledIsClean, ErrorsRecorded, Health!NoRow,
           Health!NoAttempt

\* What the invariant is for.
LEMMA HealthHolds == HealthInv => Health!TroubleExplained /\ Health!SettledIsClean
    /\ Health!OperationalIsChecked
<1> SUFFICES ASSUME HealthInv PROVE Health!TroubleExplained /\ Health!OperationalIsChecked
  BY DEF HealthInv
<1>0. /\ healthRow \in Health!Rows /\ RowExplained(healthRow) /\ AttemptExplained(attempt)
  BY HealthParts
<1>1. Health!TroubleExplained
  BY <1>0 DEF Health!TroubleExplained, Health!Status, Health!LastError, Health!Active,
     Health!Connected, RowExplained,
     AttemptExplained
<1>2. Health!OperationalIsChecked
  <2>1. Health!Diagnostic = "operational" => Health!Connected
    BY DEF Health!Diagnostic, Health!Steps, Health!Connected
  <2> QED BY <1>0, <2>1 DEF Health!OperationalIsChecked, Health!Connected, RowExplained
<1> QED BY <1>1, <1>2

\* The page in the composition: what is bad is explained, what settled shows no error, and
\* what is called operational is so in its last check.
THEOREM HealthKeeps == Spec => []HealthKept
<1>1. Init => HealthInv
  BY PartsStart, HealthInit
<1>2. HealthInv /\ [Next]_vars => HealthInv'
  BY PartsStep, HealthStepKeeps
<1>3. HealthInv => HealthKept
  BY HealthHolds DEF HealthKept
<1> QED BY <1>1, <1>2, <1>3, PTL DEF Spec

------------------------------------------------------------------------------
(***************************************************************************)
(* The slots that are offered.                                             *)
(***************************************************************************)
\* A set of naturals that is not empty has a smallest element.
LEMMA Smallest ==
  ASSUME NEW S, S \subseteq Nat, S # {}
  PROVE  \E k \in S : \A j \in S : k <= j
<1>1. PICK k \in S : \A j \in S : ~ (<<j, k>> \in OpToRel(<, Nat))
  BY NatLessThanWellFounded, WFMin
<1>2. \A j \in S : ~ (j < k)
  BY <1>1 DEF OpToRel
<1> QED BY <1>2

\* What the constants are.
LEMMA SlotBounds ==
  /\ SlotDay \in Nat \ {0} /\ SlotDuration \in Nat \ {0} /\ SlotDuration <= SlotDay
  /\ SlotHorizon \in Nat /\ SlotClock \subseteq Nat
  /\ SlotRangeDays \in Nat \ {0} /\ SlotLimit \in Nat \ {0}
BY Bounds DEF Offer!AvailabilityAssumption

\* The larger and the smaller of a few instants.
LEMMA LargestOfTwo ==
  ASSUME NEW a \in Int, NEW b \in Int
  PROVE  /\ Offer!Largest({a, b}) \in {a, b}
         /\ Offer!Largest({a, b}) >= a /\ Offer!Largest({a, b}) >= b
<1>1. \E x \in {a, b} : \A y \in {a, b} : y <= x
  <2>1. CASE a <= b
    BY <2>1
  <2>2. CASE b <= a
    BY <2>2
  <2> QED BY <2>1, <2>2
<1>2. Offer!Largest({a, b}) \in {a, b} /\ \A y \in {a, b} : y <= Offer!Largest({a, b})
  BY <1>1 DEF Offer!Largest
<1> QED BY <1>2

\* The largest of three.
LEMMA LargestOfThree ==
  ASSUME NEW a \in Int, NEW b \in Int, NEW c \in Int
  PROVE  /\ Offer!Largest({a, b, c}) \in {a, b, c}
         /\ Offer!Largest({a, b, c}) >= a /\ Offer!Largest({a, b, c}) >= b
         /\ Offer!Largest({a, b, c}) >= c
<1>1. \E x \in {a, b, c} : \A y \in {a, b, c} : y <= x
  <2>1. CASE a <= c /\ b <= c
    BY <2>1
  <2>2. CASE b <= a /\ c <= a
    BY <2>2
  <2>3. CASE a <= b /\ c <= b
    BY <2>3
  <2> QED BY <2>1, <2>2, <2>3
<1>2. Offer!Largest({a, b, c}) \in {a, b, c} /\ \A y \in {a, b, c} : y <= Offer!Largest({a, b, c})
  BY <1>1 DEF Offer!Largest
<1> QED BY <1>2

\* The smaller of two.
LEMMA SmallestOfTwo ==
  ASSUME NEW a \in Int, NEW b \in Int
  PROVE  /\ Offer!Smallest({a, b}) \in {a, b}
         /\ Offer!Smallest({a, b}) <= a /\ Offer!Smallest({a, b}) <= b
<1>1. \E x \in {a, b} : \A y \in {a, b} : x <= y
  <2>1. CASE a <= b
    BY <2>1
  <2>2. CASE b <= a
    BY <2>2
  <2> QED BY <2>1, <2>2
<1>2. Offer!Smallest({a, b}) \in {a, b} /\ \A y \in {a, b} : Offer!Smallest({a, b}) <= y
  BY <1>1 DEF Offer!Smallest
<1> QED BY <1>2

------------------------------------------------------------------------------
\* The walk of calculateAvailableSlots over the candidates, one after another.
Fitting(u, upper, busy) == Offer!EndsBy(u, upper) /\ Offer!Fits(u, busy)
Joins(u, before, upper, busy) ==
  /\ Fitting(u, upper, busy)
  /\ \A v \in before : ~ Offer!SameLocal(v, u)
  /\ Offer!Cardinality(before) < SlotLimit
Grown(u, before, upper, busy) == IF Joins(u, before, upper, busy) THEN before \cup {u} ELSE before
Walked(f, lower, n, upper, busy) ==
  f = [t \in lower - 1 .. n |-> IF t < lower THEN {} ELSE Grown(t, f[t - 1], upper, busy)]
TheWalk(lower, upper, busy) == CHOOSE f : Walked(f, lower, upper, upper, busy)

\* There is such a walk, as far as one goes: the first instant without one would have one.
LEMMA WalkExists ==
  ASSUME NEW lower \in Nat, NEW upper \in Nat, NEW busy, lower <= upper
  PROVE  \E f : Walked(f, lower, upper, upper, busy)
<1> DEFINE Missing == {k \in Nat : ~ \E f : Walked(f, lower, lower - 1 + k, upper, busy)}
<1>1. SUFFICES ASSUME Missing # {} PROVE FALSE
  <2>1. upper - lower + 1 \in Nat /\ lower - 1 + (upper - lower + 1) = upper
    OBVIOUS
  <2>2. upper - lower + 1 \notin Missing
    BY <1>1, <2>1
  <2> QED BY <2>1, <2>2
<1>2. PICK k \in Missing : \A j \in Missing : k <= j
  <2>1. Missing \subseteq Nat
    OBVIOUS
  <2> HIDE DEF Missing
  <2> QED BY <1>1, <2>1, Smallest
<1>3. k # 0
  <2>1. SUFFICES ASSUME k = 0 PROVE FALSE
    OBVIOUS
  <2> DEFINE f == [t \in lower - 1 .. lower - 1 |-> {}]
  <2>2. f = [t \in lower - 1 .. lower - 1 |-> IF t < lower THEN {} ELSE Grown(t, f[t - 1], upper, busy)]
    <3> DEFINE h == [t \in lower - 1 .. lower - 1 |-> IF t < lower THEN {} ELSE Grown(t, f[t - 1], upper, busy)]
    <3>1. \A t \in lower - 1 .. lower - 1 : f[t] = {} /\ t < lower
      OBVIOUS
    <3>2. \A t \in lower - 1 .. lower - 1 : h[t] = {}
      BY <3>1
    <3>3. DOMAIN f = lower - 1 .. lower - 1 /\ DOMAIN h = lower - 1 .. lower - 1
      OBVIOUS
    <3>4. f = [t \in DOMAIN f |-> f[t]] /\ h = [t \in DOMAIN h |-> h[t]]
      OBVIOUS
    <3> HIDE DEF h, f
    <3>5. f = h
      BY <3>1, <3>2, <3>3, <3>4
    <3> QED BY <3>5 DEF h
  <2>3. Walked(f, lower, lower - 1 + k, upper, busy)
    <3>1. lower - 1 + k = lower - 1
      BY <2>1
    <3> QED BY <2>2, <3>1 DEF Walked
  <2> QED BY <2>3
<1>4. k - 1 \in Nat /\ k - 1 \notin Missing /\ k \in Nat
  BY <1>2, <1>3
<1> DEFINE n == lower - 1 + k
<1>5. n \in Int /\ n >= lower /\ lower - 1 + (k - 1) = n - 1
  BY <1>3, <1>4
<1>6. PICK g : Walked(g, lower, n - 1, upper, busy)
  BY <1>4, <1>5
<1> DEFINE f == [t \in lower - 1 .. n |-> IF t = n THEN Grown(n, g[n - 1], upper, busy) ELSE g[t]]
           h == [t \in lower - 1 .. n |-> IF t < lower THEN {} ELSE Grown(t, f[t - 1], upper, busy)]
<1> HIDE DEF n
<1>7. \A t \in lower - 1 .. n - 1 : g[t] = IF t < lower THEN {} ELSE Grown(t, g[t - 1], upper, busy)
  BY <1>6 DEF Walked
<1>8. \A t \in lower - 1 .. n - 1 : f[t] = g[t]
  BY <1>5
<1>9. \A t \in lower - 1 .. n : f[t] = h[t]
  <2>1. TAKE t \in lower - 1 .. n
  <2>2. t \in Int
    BY <1>5
  <2>3. CASE t = n
    <3>1. n - 1 \in lower - 1 .. n - 1 /\ ~ (n < lower)
      BY <1>5
    <3>2. f[n] = Grown(n, g[n - 1], upper, busy)
      BY <2>1, <2>3
    <3>3. h[n] = Grown(n, f[n - 1], upper, busy)
      <4> HIDE DEF f
      <4> QED BY <2>1, <2>3, <3>1
    <3> HIDE DEF f, h
    <3> QED BY <1>8, <2>3, <3>1, <3>2, <3>3
  <2>4. CASE t # n /\ t < lower
    <3>1. t \in lower - 1 .. n - 1
      BY <1>5, <2>1, <2>2, <2>4
    <3>2. f[t] = {}
      BY <1>7, <1>8, <2>4, <3>1
    <3>3. h[t] = {}
      BY <2>1, <2>4
    <3> HIDE DEF f, h
    <3> QED BY <3>2, <3>3
  <2>5. CASE t # n /\ ~ (t < lower)
    <3>1. t \in lower - 1 .. n - 1 /\ t - 1 \in lower - 1 .. n - 1
      BY <1>5, <2>1, <2>2, <2>5
    <3>2. f[t] = Grown(t, f[t - 1], upper, busy)
      <4>1. f[t] = g[t] /\ f[t - 1] = g[t - 1]
        BY <1>8, <3>1
      <4> HIDE DEF f, h
      <4> QED BY <1>7, <2>5, <3>1, <4>1
    <3>3. h[t] = Grown(t, f[t - 1], upper, busy)
      <4> HIDE DEF f
      <4> QED BY <2>1, <2>5
    <3> HIDE DEF f, h
    <3> QED BY <3>2, <3>3
  <2> QED BY <2>3, <2>4, <2>5
<1>10. f = h
  <2>1. DOMAIN f = lower - 1 .. n /\ DOMAIN h = lower - 1 .. n
    OBVIOUS
  <2>2. f = [t \in DOMAIN f |-> f[t]] /\ h = [t \in DOMAIN h |-> h[t]]
    OBVIOUS
  <2> HIDE DEF f, h
  <2> QED BY <1>9, <2>1, <2>2
<1>11. Walked(f, lower, n, upper, busy)
  <2>1. f = [t \in lower - 1 .. n |-> IF t < lower THEN {} ELSE Grown(t, f[t - 1], upper, busy)]
    <3> HIDE DEF f
    <3> QED BY <1>10
  <2> HIDE DEF f
  <2> QED BY <2>1 DEF Walked
<1> QED BY <1>2, <1>11 DEF n

------------------------------------------------------------------------------
\* The window that is looked at.
Earliest(from) == Offer!Largest({from, now + settings.notice, now})
Latest(to) == Offer!Smallest({to, now + settings.advance * SlotDay})

\* The slots of a window are where the walk ends.
LEMMA SlotsWalk ==
  ASSUME NEW from, NEW to, NEW busy, ~ (Earliest(from) >= Latest(to))
  PROVE  Offer!Slots(from, to, busy) = TheWalk(Earliest(from), Latest(to), busy)[Latest(to)]
BY DEF Offer!Slots, Earliest, Latest, TheWalk, Walked, Grown, Joins, Fitting

\* What the walk has found when it has come to an instant: slots that fit, no two of them at
\* one local time, and no less than there are, unless the answer is full.
Offerable(found, lower, n, upper, busy) ==
  /\ found \subseteq {u \in lower .. n : Fitting(u, upper, busy)}
  /\ \A u, v \in found : u # v => ~ Offer!SameLocal(u, v)
  /\ Cardinality(found) <= SlotLimit
  /\ \A u \in lower .. n : Fitting(u, upper, busy) =>
       u \in found \/ (\E v \in found : Offer!SameLocal(v, u)) \/ Cardinality(found) = SlotLimit

\* One candidate more.
LEMMA WalkGoesOn ==
  ASSUME NEW lower \in Nat, NEW n \in Nat, lower <= n, NEW upper \in Nat, NEW busy,
         NEW found, Offerable(found, lower, n - 1, upper, busy)
  PROVE  Offerable(Grown(n, found, upper, busy), lower, n, upper, busy)
<1> DEFINE more == Grown(n, found, upper, busy)
           size == Cardinality(found)
<1>0. SlotLimit \in Nat
  BY SlotBounds
<1>1. IsFiniteSet(found) /\ size \in Nat /\ n \notin found /\ found \subseteq lower .. n - 1
  <2>1. found \subseteq lower .. n - 1
    BY DEF Offerable
  <2>2. IsFiniteSet(lower .. n - 1)
    BY FS_Interval
  <2>3. IsFiniteSet(found)
    BY <2>1, <2>2, FS_Subset
  <2>4. size \in Nat
    BY <2>3, FS_CardinalityType
  <2>5. n \notin lower .. n - 1
    OBVIOUS
  <2> QED BY <2>1, <2>3, <2>4, <2>5
<1>2. lower .. n = (lower .. n - 1) \cup {n}
  OBVIOUS
<1>3. \A u, v : Offer!SameLocal(u, v) => Offer!SameLocal(v, u)
  BY DEF Offer!SameLocal
<1>4. Offer!Cardinality(found) = size
  BY DEF Offer!Cardinality, Cardinality
<1>5. \A u \in lower .. n - 1 : Fitting(u, upper, busy) =>
        u \in found \/ (\E v \in found : Offer!SameLocal(v, u)) \/ size = SlotLimit
  BY DEF Offerable
<1>6. found \subseteq {u \in lower .. n : Fitting(u, upper, busy)}
  BY <1>2 DEF Offerable
<1>7. (\A u, v \in found : u # v => ~ Offer!SameLocal(u, v)) /\ size <= SlotLimit
  BY DEF Offerable
<1> HIDE DEF size
<1>8. CASE Joins(n, found, upper, busy)
  <2>1. more = found \cup {n} /\ Fitting(n, upper, busy) /\ size < SlotLimit
        /\ \A v \in found : ~ Offer!SameLocal(v, n)
    BY <1>4, <1>8 DEF Grown, Joins
  <2>2. Cardinality(more) = size + 1
    BY <1>1, <2>1, FS_AddElement DEF size
  <2>3. more \subseteq {u \in lower .. n : Fitting(u, upper, busy)}
    <3>1. n \in lower .. n
      OBVIOUS
    <3> QED BY <1>6, <2>1, <3>1
  <2>4. \A u, v \in more : u # v => ~ Offer!SameLocal(u, v)
    <3> HIDE DEF more
    <3> QED BY <1>3, <1>7, <2>1
  <2>5. Cardinality(more) <= SlotLimit
    BY <1>0, <1>1, <2>1, <2>2
  <2>6. ASSUME NEW u \in lower .. n, Fitting(u, upper, busy)
        PROVE  u \in more \/ (\E v \in more : Offer!SameLocal(v, u)) \/ Cardinality(more) = SlotLimit
    <3>1. CASE u = n
      BY <2>1, <3>1
    <3>2. CASE u # n
      <4>1. u \in lower .. n - 1 /\ size # SlotLimit
        BY <1>0, <1>1, <1>2, <2>1, <3>2
      <4>2. u \in found \/ \E v \in found : Offer!SameLocal(v, u)
        BY <1>5, <2>6, <4>1
      <4> HIDE DEF more
      <4> QED BY <2>1, <4>2
    <3> QED BY <3>1, <3>2
  <2> HIDE DEF more
  <2> QED BY <2>3, <2>4, <2>5, <2>6 DEF Offerable, more
<1>9. CASE ~ Joins(n, found, upper, busy)
  <2>1. more = found
    BY <1>9 DEF Grown
  <2>2. ASSUME NEW u \in lower .. n, Fitting(u, upper, busy)
        PROVE  u \in found \/ (\E v \in found : Offer!SameLocal(v, u)) \/ size = SlotLimit
    <3>1. CASE u = n
      <4>1. (\E v \in found : Offer!SameLocal(v, n)) \/ ~ (size < SlotLimit)
        BY <1>4, <1>9, <2>2, <3>1 DEF Joins
      <4> QED BY <1>0, <1>1, <1>7, <3>1, <4>1
    <3>2. CASE u # n
      BY <1>2, <1>5, <2>2, <3>2
    <3> QED BY <3>1, <3>2
  <2> HIDE DEF more
  <2> QED BY <1>6, <1>7, <2>1, <2>2 DEF Offerable, more, size
<1> QED BY <1>8, <1>9

\* Where the walk ends.
LEMMA WalkFinds ==
  ASSUME NEW lower \in Nat, NEW upper \in Nat, NEW busy, lower <= upper
  PROVE  Offerable(TheWalk(lower, upper, busy)[upper], lower, upper, upper, busy)
<1> DEFINE f == TheWalk(lower, upper, busy)
<1>1. Walked(f, lower, upper, upper, busy)
  BY WalkExists DEF TheWalk
<1> HIDE DEF f
<1>2. \A t \in lower - 1 .. upper :
        f[t] = IF t < lower THEN {} ELSE Grown(t, f[t - 1], upper, busy)
  BY <1>1 DEF Walked
<1> DEFINE Wrong == {k \in Nat : lower - 1 + k <= upper
                       /\ ~ Offerable(f[lower - 1 + k], lower, lower - 1 + k, upper, busy)}
<1>3. SUFFICES ASSUME Wrong # {} PROVE FALSE
  <2>1. upper - lower + 1 \in Nat /\ lower - 1 + (upper - lower + 1) = upper
    OBVIOUS
  <2>2. upper - lower + 1 \notin Wrong
    BY <1>3, <2>1
  <2>3. Offerable(f[upper], lower, upper, upper, busy)
    BY <2>1, <2>2
  <2> QED BY <2>3 DEF f
<1>4. PICK k \in Wrong : \A j \in Wrong : k <= j
  <2>1. Wrong \subseteq Nat
    OBVIOUS
  <2> HIDE DEF Wrong
  <2> QED BY <1>3, <2>1, Smallest
<1>5. k # 0
  <2>1. SUFFICES ASSUME k = 0 PROVE FALSE
    OBVIOUS
  <2>2. lower - 1 + k = lower - 1 /\ lower - 1 \in lower - 1 .. upper /\ lower - 1 < lower
    BY <2>1
  <2>3. f[lower - 1] = {}
    BY <1>2, <2>2
  <2>4. lower .. lower - 1 = {}
    OBVIOUS
  <2>5. Offerable({}, lower, lower - 1, upper, busy)
    BY <2>4, SlotBounds, FS_EmptySet DEF Offerable
  <2> QED BY <1>4, <2>2, <2>3, <2>5
<1> DEFINE n == lower - 1 + k
<1>6. k - 1 \in Nat /\ n \in Nat /\ lower <= n /\ n <= upper /\ lower - 1 + (k - 1) = n - 1
  BY <1>4, <1>5
<1>7. Offerable(f[n - 1], lower, n - 1, upper, busy)
  <2>1. k - 1 \notin Wrong
    BY <1>4, <1>6
  <2>2. n - 1 <= upper
    BY <1>6
  <2> HIDE DEF n
  <2> QED BY <1>6, <2>1, <2>2
<1>8. f[n] = Grown(n, f[n - 1], upper, busy)
  <2>1. n \in lower - 1 .. upper /\ ~ (n < lower)
    BY <1>6
  <2> HIDE DEF n
  <2> QED BY <1>2, <2>1
<1>9. Offerable(f[n], lower, n, upper, busy)
  <2> HIDE DEF n
  <2> QED BY <1>6, <1>7, <1>8, WalkGoesOn
<1> QED BY <1>4, <1>9

------------------------------------------------------------------------------
\* What was configured, and what is asked, are of their types.
SlotShape ==
  /\ settings \in [buffer : Nat, notice : Nat, advance : Nat,
                  schedule : [0 .. 1 -> SUBSET [start : Nat, end : Nat]]]
  /\ zone \in [at : Nat, by : Int]
  /\ agenda \subseteq [start : Nat, end : Nat]
  /\ now \in Nat
  /\ query \in [of : {"nothing", "window", "dates"}, from : Nat, to : Nat]

\* The last instant that can be reserved.
Final == now + settings.advance * SlotDay

\* The numbers of the settings.
LEMMA SlotNumbers ==
  ASSUME SlotShape
  PROVE  /\ settings.buffer \in Nat /\ settings.notice \in Nat /\ settings.advance \in Nat
         /\ now \in Nat /\ Final \in Nat /\ now + settings.notice \in Nat
         /\ \A t \in Int : Offer!Local(t) \in Int
<1>1. /\ settings.buffer \in Nat /\ settings.notice \in Nat /\ settings.advance \in Nat
      /\ now \in Nat
  BY DEF SlotShape
<1>2. SlotDay \in Nat
  BY SlotBounds
<1>3. settings.advance * SlotDay \in Nat
  BY <1>1, <1>2
<1>4. zone.at \in Nat /\ zone.by \in Int
  BY DEF SlotShape
<1> QED BY <1>1, <1>3, <1>4 DEF Final, Offer!Local

\* An instant that fits lasts on the clock what an appointment lasts.
LEMMA FitLasts ==
  ASSUME SlotShape, NEW t \in Nat, NEW busy, Offer!Fits(t, busy)
  PROVE  /\ Offer!Local(t + SlotDuration) = Offer!Local(t) + SlotDuration
         /\ \E r \in Offer!Ranges(t) :
              r.start <= Offer!MinuteOf(t) /\ Offer!MinuteOf(t) + SlotDuration <= r.end
<1> DEFINE a == Offer!Local(t)
           b == Offer!Local(t + SlotDuration)
<1>0. SlotDuration \in Nat /\ SlotDay \in Nat \ {0}
  BY SlotBounds
<1>1. a \in Int /\ b \in Int
  BY <1>0, SlotNumbers
<1>2. a \div SlotDay = b \div SlotDay /\ (b % SlotDay) - (a % SlotDay) = SlotDuration
  BY DEF Offer!Fits, Offer!DateOf, Offer!MinuteOf
<1> HIDE DEF a, b
<1>3. a = SlotDay * (a \div SlotDay) + (a % SlotDay) /\ b = SlotDay * (b \div SlotDay) + (b % SlotDay)
  BY <1>0, <1>1
<1>4. a % SlotDay \in Int /\ b % SlotDay \in Int /\ SlotDay * (a \div SlotDay) \in Int
  BY <1>0, <1>1
<1>5. b = a + SlotDuration
  BY <1>0, <1>1, <1>2, <1>3, <1>4
<1>6. \E r \in Offer!Ranges(t) : Offer!MinuteOf(t) >= r.start /\ Offer!MinuteOf(t + SlotDuration) <= r.end
  BY DEF Offer!Fits
<1>7. Offer!MinuteOf(t + SlotDuration) = Offer!MinuteOf(t) + SlotDuration
  BY <1>0, <1>1, <1>2, <1>4 DEF Offer!MinuteOf, a, b
<1>8. \A r \in Offer!Ranges(t) : r.start \in Int
  <2>1. Offer!DateOf(t) \in Int
    BY <1>0, <1>1 DEF Offer!DateOf, a
  <2>2. Offer!DateOf(t) % 2 \in 0 .. 1
    BY <2>1
  <2>3. settings.schedule \in [0 .. 1 -> SUBSET [start : Nat, end : Nat]]
    BY DEF SlotShape
  <2> QED BY <2>2, <2>3 DEF Offer!Ranges
<1>9. Offer!MinuteOf(t) \in Int
  BY <1>4 DEF Offer!MinuteOf, a
<1> QED BY <1>5, <1>6, <1>7, <1>8, <1>9 DEF a, b

\* Inside the window the busy part of the calendar is all that counts.
LEMMA BusyIsAgenda ==
  ASSUME SlotShape, NEW min \in Nat, NEW max \in Nat, NEW t \in Nat, min <= t, t + SlotDuration <= max
  PROVE  Offer!Overlaps(t, Offer!FreeBusy(min - Offer!Margin, max + Offer!Margin))
           <=> Offer!Overlaps(t, agenda)
<1> DEFINE m == settings.buffer
           busy == Offer!FreeBusy(min - Offer!Margin, max + Offer!Margin)
<1>0. m \in Nat /\ SlotDuration \in Nat \ {0} /\ Offer!Margin = m
  BY SlotNumbers, SlotBounds DEF Offer!Margin
<1>1. \A i \in agenda : i.start \in Nat /\ i.end \in Nat
  BY DEF SlotShape
<1>2. busy = {[start |-> Offer!Largest({i.start, min - m}), end |-> Offer!Smallest({i.end, max + m})] :
                i \in {j \in agenda : j.start < max + m /\ j.end > min - m}}
  BY <1>0 DEF Offer!FreeBusy
<1>3. ASSUME Offer!Overlaps(t, busy) PROVE Offer!Overlaps(t, agenda)
  <2>1. PICK i \in agenda :
          /\ t < Offer!Smallest({i.end, max + m}) + m
          /\ t + SlotDuration + m > Offer!Largest({i.start, min - m})
    <3>1. PICK j \in busy : t < j.end + m /\ t + SlotDuration + m > j.start
      BY <1>3 DEF Offer!Overlaps
    <3>2. PICK i \in agenda :
            j = [start |-> Offer!Largest({i.start, min - m}), end |-> Offer!Smallest({i.end, max + m})]
      BY <1>2
    <3> QED BY <3>1, <3>2
  <2>2. i.start \in Int /\ i.end \in Int /\ min - m \in Int /\ max + m \in Int
    BY <1>0, <1>1
  <2>3. /\ Offer!Smallest({i.end, max + m}) <= i.end /\ Offer!Largest({i.start, min - m}) >= i.start
        /\ Offer!Smallest({i.end, max + m}) \in Int /\ Offer!Largest({i.start, min - m}) \in Int
    BY <2>2, LargestOfTwo, SmallestOfTwo
  <2>4. t < i.end + m /\ t + SlotDuration + m > i.start
    BY <1>0, <2>1, <2>2, <2>3
  <2> QED BY <2>4 DEF Offer!Overlaps
<1>4. ASSUME Offer!Overlaps(t, agenda) PROVE Offer!Overlaps(t, busy)
  <2>1. PICK i \in agenda : t < i.end + m /\ t + SlotDuration + m > i.start
    BY <1>4 DEF Offer!Overlaps
  <2>2. i.start \in Int /\ i.end \in Int /\ min - m \in Int /\ max + m \in Int
    BY <1>0, <1>1
  <2>3. i.start < max + m /\ i.end > min - m
    BY <1>0, <2>1, <2>2
  <2> DEFINE s == Offer!Largest({i.start, min - m})
             e == Offer!Smallest({i.end, max + m})
  <2>4. s \in {i.start, min - m} /\ e \in {i.end, max + m}
    BY <2>2, LargestOfTwo, SmallestOfTwo
  <2>5. [start |-> s, end |-> e] \in busy
    BY <1>2, <2>3
  <2> HIDE DEF s, e, busy
  <2>6. t < e + m /\ t + SlotDuration + m > s
    BY <1>0, <2>1, <2>2, <2>4
  <2>7. [start |-> s, end |-> e].start = s /\ [start |-> s, end |-> e].end = e
    OBVIOUS
  <2> QED BY <2>5, <2>6, <2>7 DEF Offer!Overlaps
<1> QED BY <1>3, <1>4

\* And an instant fits a window as it fits the calendar.
LEMMA FitsAgenda ==
  ASSUME SlotShape, NEW min \in Nat, NEW max \in Nat, NEW t \in Nat, min <= t, t + SlotDuration <= max
  PROVE  Offer!Fits(t, Offer!FreeBusy(min - Offer!Margin, max + Offer!Margin)) <=> Offer!Fits(t, agenda)
BY BusyIsAgenda DEF Offer!Fits

------------------------------------------------------------------------------
\* What is found in a window: the instants of it that can be reserved and fit the calendar, each
\* local time once, and all of them unless the answer is full.
Reservable(t) ==
  /\ t \in Nat /\ t >= now + settings.notice /\ t + SlotDuration <= Final /\ Offer!Fits(t, agenda)
FoundRight(slots, from, to) ==
  /\ \A t \in slots : Reservable(t) /\ from <= t /\ t + SlotDuration <= to
  /\ \A u, v \in slots : u # v => ~ Offer!SameLocal(u, v)
  /\ \A t \in Nat : Reservable(t) /\ from <= t /\ t + SlotDuration <= to =>
       t \in slots \/ (\E v \in slots : Offer!SameLocal(v, t)) \/ Cardinality(slots) = SlotLimit

\* A window with room for slots.
LEMMA WindowFinds ==
  ASSUME SlotShape, NEW from \in Nat, NEW to \in Nat, NEW min, NEW max,
         min = Offer!Largest({from, now + settings.notice}), max = Offer!Smallest({to, Final}), min < max
  PROVE  FoundRight(Offer!Slots(from, to, Offer!FreeBusy(min - Offer!Margin, max + Offer!Margin)), from, to)
<1> DEFINE busy == Offer!FreeBusy(min - Offer!Margin, max + Offer!Margin)
           lower == Earliest(from)
           upper == Latest(to)
           slots == Offer!Slots(from, to, busy)
           notice == now + settings.notice
<1>0. SlotDuration \in Nat /\ notice \in Nat /\ Final \in Nat /\ now \in Nat /\ notice >= now
  BY SlotBounds, SlotNumbers
<1>1. /\ min \in {from, notice} /\ min >= from /\ min >= notice
      /\ max \in {to, Final} /\ max <= to /\ max <= Final
  <2>1. from \in Int /\ to \in Int /\ notice \in Int /\ Final \in Int /\ min = Offer!Largest({from, notice})
    BY <1>0
  <2> HIDE DEF notice
  <2>2. min \in {from, notice} /\ min >= from /\ min >= notice
    BY <2>1, LargestOfTwo
  <2>3. max \in {to, Final} /\ max <= to /\ max <= Final
    BY <2>1, SmallestOfTwo
  <2> QED BY <2>2, <2>3
<1>2. lower \in {from, notice, now} /\ lower >= from /\ lower >= notice /\ lower >= now
  <2>1. from \in Int /\ notice \in Int /\ now \in Int /\ lower = Offer!Largest({from, notice, now})
    BY <1>0 DEF Earliest
  <2> HIDE DEF lower, notice
  <2> QED BY <2>1, LargestOfThree
<1>3. upper = max
  BY DEF Latest, Final
<1> HIDE DEF notice, lower, upper
<1>4. min \in Nat /\ max \in Nat /\ lower = min
  BY <1>0, <1>1, <1>2
<1>5. ~ (lower >= upper) /\ lower \in Nat /\ upper \in Nat /\ lower <= upper
  BY <1>3, <1>4
<1>6. slots = TheWalk(lower, upper, busy)[upper]
  <2>1. ~ (Earliest(from) >= Latest(to))
    BY <1>5 DEF lower, upper
  <2> HIDE DEF busy
  <2> QED BY <2>1, SlotsWalk DEF lower, upper
<1>7. Offerable(slots, lower, upper, upper, busy)
  <2> HIDE DEF busy, slots
  <2> QED BY <1>5, <1>6, WalkFinds
<1>8. \A t \in Nat : min <= t /\ t + SlotDuration <= max => (Offer!Fits(t, busy) <=> Offer!Fits(t, agenda))
  BY <1>4, FitsAgenda
<1> HIDE DEF busy, slots
<1>9. \A t : Fitting(t, upper, busy) <=> t + SlotDuration <= max /\ Offer!Fits(t, busy)
  BY <1>3 DEF Fitting, Offer!EndsBy
<1>10. ASSUME NEW t \in slots PROVE Reservable(t) /\ from <= t /\ t + SlotDuration <= to
  <2>1. t \in lower .. upper /\ t + SlotDuration <= max /\ Offer!Fits(t, busy)
    BY <1>7, <1>9 DEF Offerable
  <2>2. t \in Nat /\ t >= from /\ t >= notice /\ min <= t
    BY <1>0, <1>1, <1>4, <1>5, <2>1
  <2>3. t + SlotDuration <= to /\ t + SlotDuration <= Final
    BY <1>0, <1>1, <1>4, <2>1, <2>2
  <2>4. Offer!Fits(t, agenda)
    BY <1>8, <2>1, <2>2
  <2> QED BY <2>2, <2>3, <2>4 DEF Reservable, notice
<1>11. ASSUME NEW t \in Nat, Reservable(t), from <= t, t + SlotDuration <= to
       PROVE  t \in slots \/ (\E v \in slots : Offer!SameLocal(v, t)) \/ Cardinality(slots) = SlotLimit
  <2>1. t >= notice /\ t + SlotDuration <= Final /\ Offer!Fits(t, agenda)
    BY <1>11 DEF Reservable, notice
  <2>2. min <= t /\ t + SlotDuration <= max
    BY <1>0, <1>1, <1>11, <2>1
  <2>3. t \in lower .. upper
    BY <1>0, <1>3, <1>4, <2>2
  <2>4. Fitting(t, upper, busy)
    BY <1>8, <1>9, <2>1, <2>2
  <2> QED BY <1>7, <2>3, <2>4 DEF Offerable
<1>12. \A u, v \in slots : u # v => ~ Offer!SameLocal(u, v)
  BY <1>7 DEF Offerable
<1>13. FoundRight(slots, from, to)
  BY <1>10, <1>11, <1>12 DEF FoundRight
<1> QED BY <1>13 DEF slots, busy

\* What a window answers.
LEMMA AvailableFinds ==
  ASSUME SlotShape, NEW from \in Nat, NEW to \in Nat
  PROVE  LET found == Offer!Available(from, to) IN
         /\ found.ok \in BOOLEAN /\ (~ found.ok => found.slots = {})
         /\ found = [ok |-> found.ok, slots |-> found.slots]
         /\ found.ok => FoundRight(found.slots, from, to)
         /\ found.ok <=> ~ (from >= to \/ to - from > SlotRangeDays * SlotDay \/ from > Final \/ to > Final + 1)
<1> DEFINE min == Offer!Largest({from, now + settings.notice})
           max == Offer!Smallest({to, Final})
           found == Offer!Available(from, to)
           outside == from >= to \/ to - from > SlotRangeDays * SlotDay \/ from > Final \/ to > Final + 1
           busy == Offer!FreeBusy(min - Offer!Margin, max + Offer!Margin)
<1> SUFFICES
         /\ found.ok \in BOOLEAN /\ (~ found.ok => found.slots = {})
         /\ found = [ok |-> found.ok, slots |-> found.slots]
         /\ found.ok => FoundRight(found.slots, from, to)
         /\ found.ok <=> ~ outside
  OBVIOUS
<1>1. found = IF outside THEN Offer!Refused
              ELSE IF min >= max THEN Offer!Found({})
              ELSE Offer!Found(Offer!Slots(from, to, busy))
  BY DEF Offer!Available, Final
<1>0. SlotDuration \in Nat \ {0} /\ now + settings.notice \in Nat /\ Final \in Nat
  BY SlotBounds, SlotNumbers
<1>2. min \in Nat /\ max \in Nat /\ min >= from /\ min >= now + settings.notice /\ max <= to /\ max <= Final
      /\ min \in {from, now + settings.notice} /\ max \in {to, Final}
  <2> DEFINE notice == now + settings.notice
  <2>1. from \in Int /\ to \in Int /\ notice \in Int /\ Final \in Int /\ min = Offer!Largest({from, notice})
    BY <1>0
  <2>2. max = Offer!Smallest({to, Final}) /\ notice \in Nat
    BY <1>0
  <2> HIDE DEF notice, min, max
  <2>3. min \in {from, notice} /\ min >= from /\ min >= notice
    BY <2>1, LargestOfTwo
  <2>4. max \in {to, Final} /\ max <= to /\ max <= Final
    BY <2>1, <2>2, SmallestOfTwo
  <2>5. min \in Nat /\ max \in Nat
    BY <1>0, <2>2, <2>3, <2>4
  <2> QED BY <2>3, <2>4, <2>5 DEF notice
<1>3. CASE outside
  <2>1. found = [ok |-> FALSE, slots |-> {}]
    BY <1>1, <1>3 DEF Offer!Refused
  <2> HIDE DEF found, outside
  <2> QED BY <1>3, <2>1
<1>4. CASE ~ outside /\ min >= max
  <2>1. found = [ok |-> TRUE, slots |-> {}]
    BY <1>1, <1>4 DEF Offer!Found
  <2>2. ASSUME NEW t \in Nat, Reservable(t), from <= t, t + SlotDuration <= to PROVE FALSE
    <3>1. t >= now + settings.notice /\ t + SlotDuration <= Final
      BY <2>2 DEF Reservable
    <3> HIDE DEF min, max
    <3> QED BY <1>0, <1>2, <1>4, <2>2, <3>1
  <2>3. FoundRight({}, from, to)
    BY <2>2 DEF FoundRight
  <2> HIDE DEF found, outside
  <2> QED BY <1>4, <2>1, <2>3
<1>5. CASE ~ outside /\ min < max
  <2>1. ~ (min >= max)
    BY <1>2, <1>5
  <2>2. found = [ok |-> TRUE, slots |-> Offer!Slots(from, to, busy)]
    BY <1>1, <1>5, <2>1 DEF Offer!Found
  <2>3. FoundRight(Offer!Slots(from, to, busy), from, to)
    BY <1>5, WindowFinds
  <2> HIDE DEF found, outside, busy, min, max
  <2> QED BY <1>5, <2>2, <2>3
<1> QED BY <1>2, <1>3, <1>4, <1>5

\* The check of one slot accepts what can be reserved: its narrow window holds that slot alone.
LEMMA BookableIsReservable ==
  ASSUME SlotShape, NEW t \in Nat
  PROVE  Offer!Bookable(t) <=> Reservable(t)
<1> DEFINE to == t + SlotDuration
           found == Offer!Available(t, to)
<1>0. /\ SlotDuration \in Nat \ {0} /\ SlotDay \in Nat \ {0} /\ SlotDuration <= SlotDay
      /\ SlotRangeDays \in Nat \ {0} /\ SlotLimit \in Nat \ {0}
  BY SlotBounds
<1>1. to \in Nat /\ t < to /\ to - t = SlotDuration /\ Final \in Nat
  BY <1>0, SlotNumbers
<1>2. SlotRangeDays * SlotDay >= SlotDay
  BY <1>0
<1>3. SlotRangeDays * SlotDay \in Nat
  BY <1>0
<1> HIDE DEF to
<1>4. /\ ~ found.ok => found.slots = {}
      /\ found.ok => FoundRight(found.slots, t, to)
      /\ found.ok <=> ~ (t >= to \/ to - t > SlotRangeDays * SlotDay \/ t > Final \/ to > Final + 1)
  BY <1>1, AvailableFinds
<1> HIDE DEF found
<1>5. Offer!Bookable(t) <=> t \in found.slots
  BY DEF Offer!Bookable, found, to
<1>6. ASSUME t \in found.slots PROVE Reservable(t)
  BY <1>4, <1>6 DEF FoundRight
<1>7. ASSUME Reservable(t) PROVE t \in found.slots
  <2>1. to <= Final
    BY <1>7 DEF Reservable, to
  <2>2. found.ok
    BY <1>0, <1>1, <1>2, <1>3, <1>4, <2>1
  <2>3. FoundRight(found.slots, t, to)
    BY <1>4, <2>2
  <2>4. \A u \in found.slots : u = t
    <3>1. TAKE u \in found.slots
    <3>2. u \in Nat /\ t <= u /\ u + SlotDuration <= to
      BY <2>3 DEF FoundRight, Reservable
    <3> QED BY <1>0, <1>1, <3>2
  <2>5. t \in found.slots \/ (\E v \in found.slots : Offer!SameLocal(v, t)) \/ Cardinality(found.slots) = SlotLimit
    <3>1. t <= t /\ t + SlotDuration <= to
      BY <1>0, <1>1 DEF to
    <3> QED BY <1>7, <2>3, <3>1 DEF FoundRight
  <2>6. found.slots # {}
    <3>1. Cardinality({}) = 0
      BY FS_EmptySet
    <3>2. found.slots = {} => Cardinality(found.slots) = 0
      BY <3>1
    <3> QED BY <1>0, <2>5, <3>2
  <2> QED BY <2>4, <2>6
<1> QED BY <1>5, <1>6, <1>7

------------------------------------------------------------------------------
\* What was answered was found in a window: the one that was asked for, or one around its dates.
Within(from, to) ==
  LET found == Offer!Available(from, to) IN
  /\ answer = [ok |-> found.ok, slots |-> answer.slots] /\ answer.slots \subseteq found.slots
  /\ query.of = "window" => from = query.from /\ to = query.to /\ answer = found
OfferInv ==
  /\ SlotShape
  /\ \/ query.of # "window" /\ answer = Offer!Refused
     \/ \E from, to \in Nat : Within(from, to)

\* Nothing was asked at the start.
LEMMA OfferInit == Offer!Init => OfferInv
<1> SUFFICES ASSUME Offer!Init PROVE OfferInv
  OBVIOUS
<1>1. SlotDay \in Nat /\ SlotHorizon \in Nat /\ SlotClock \subseteq Nat
  BY SlotBounds
<1>2. TwoSchedules \subseteq [0 .. 1 -> SUBSET [start : Nat, end : Nat]]
  BY DEF TwoSchedules
<1>3. settings \in [buffer : Nat, notice : Nat, advance : Nat,
                    schedule : [0 .. 1 -> SUBSET [start : Nat, end : Nat]]]
  <2>1. settings \in [buffer : {0, 1}, notice : {0, 2}, advance : {1, 2}, schedule : TwoSchedules]
    BY DEF Offer!Init
  <2> QED BY <1>2, <2>1
<1>4. zone \in [at : Nat, by : Int]
  <2>1. zone \in [at : {SlotDay, SlotDay + 3}, by : {-1, 0, 1}]
    BY DEF Offer!Init
  <2> QED BY <1>1, <2>1
<1>5. agenda \subseteq [start : Nat, end : Nat]
  <2>1. Offer!Interval \subseteq [start : Nat, end : Nat]
    BY <1>1 DEF Offer!Interval, Offer!Instants
  <2>2. agenda \subseteq Offer!Interval
    BY DEF Offer!Init
  <2> QED BY <2>1, <2>2
<1>6. now \in Nat
  BY <1>1 DEF Offer!Init
<1>7. query = [of |-> "nothing", from |-> 0, to |-> 0] /\ answer = Offer!Refused
  BY DEF Offer!Init
<1>8. query \in [of : {"nothing", "window", "dates"}, from : Nat, to : Nat]
  BY <1>7
<1>9. SlotShape
  BY <1>3, <1>4, <1>5, <1>6, <1>8 DEF SlotShape
<1> QED BY <1>7, <1>9 DEF OfferInv

\* An answer depends on what no question changes.
LEMMA AvailableStays ==
  ASSUME NEW CONSTANT from, NEW CONSTANT to, UNCHANGED <<settings, zone, agenda, now>>
  PROVE  Offer!Available(from, to)' = Offer!Available(from, to)
BY DEF Offer!Available, Offer!Slots, Offer!Fits, Offer!Overlaps, Offer!Ranges, Offer!DateOf,
  Offer!MinuteOf, Offer!Local, Offer!SameLocal, Offer!FreeBusy, Offer!Margin

\* The question, of a window or of dates, is answered from a window.
LEMMA OfferStep == OfferInv /\ [Offer!Next]_(Offer!vars) => OfferInv'
<1> SUFFICES ASSUME OfferInv, [Offer!Next]_(Offer!vars) PROVE OfferInv'
  OBVIOUS
<1>0. SlotDay \in Nat /\ SlotHorizon \in Nat /\ SlotShape
  BY SlotBounds DEF OfferInv
<1>1. ASSUME NEW from \in Offer!Instants \ {0}, NEW to \in Offer!Instants \ {0}, Offer!Asks(from, to)
      PROVE  OfferInv'
  <2>1. from \in Nat /\ to \in Nat
    BY <1>0 DEF Offer!Instants
  <2>2. /\ query' = [of |-> "window", from |-> from, to |-> to]
        /\ answer' = Offer!Available(from, to) /\ UNCHANGED <<settings, zone, agenda, now>>
    BY <1>1 DEF Offer!Asks
  <2>3. SlotShape'
    BY <1>0, <2>1, <2>2 DEF SlotShape
  <2>4. Offer!Available(from, to)' = Offer!Available(from, to)
    BY <2>2, AvailableStays
  <2>5. answer' = [ok |-> answer'.ok, slots |-> answer'.slots]
    BY <1>0, <2>1, <2>2, AvailableFinds
  <2>6. Within(from, to)'
    <3>1. query'.from = from /\ query'.to = to
      BY <2>2
    <3> QED BY <2>2, <2>4, <2>5, <3>1 DEF Within
  <2> QED BY <2>1, <2>3, <2>6 DEF OfferInv
<1>2. ASSUME NEW date \in 1 .. SlotHorizon \div SlotDay, NEW days \in 1 .. 2, Offer!AsksDates(date, days)
      PROVE  OfferInv'
  <2>1. date \in Nat /\ date - 1 \in Nat /\ days \in Nat /\ date + days + 1 \in Nat /\ date + days \in Nat
    OBVIOUS
  <2>2. PICK from \in Nat, to \in Nat : from = (date - 1) * SlotDay /\ to = (date + days + 1) * SlotDay
    BY <1>0, <2>1
  <2>a. date * SlotDay \in Nat /\ (date + days) * SlotDay \in Nat
    BY <1>0, <2>1
  <2> DEFINE those == {t \in Offer!Available(from, to).slots : Offer!DateOf(t) \in date .. date + days - 1}
  <2>3. /\ query' = [of |-> "dates", from |-> date * SlotDay, to |-> (date + days) * SlotDay]
        /\ answer' = [Offer!Available(from, to) EXCEPT !.slots = those]
        /\ UNCHANGED <<settings, zone, agenda, now>>
    BY <1>2, <2>2 DEF Offer!AsksDates
  <2>4. SlotShape'
    BY <1>0, <2>a, <2>3 DEF SlotShape
  <2>5. Offer!Available(from, to)' = Offer!Available(from, to)
    BY <2>3, AvailableStays
  <2>6. Offer!Available(from, to) = [ok |-> Offer!Available(from, to).ok, slots |-> Offer!Available(from, to).slots]
    BY <1>0, <2>2, AvailableFinds
  <2>7. answer' = [ok |-> Offer!Available(from, to).ok, slots |-> those]
    BY <2>3, <2>6
  <2>8. Within(from, to)'
    <3>1. those \subseteq Offer!Available(from, to).slots
      OBVIOUS
    <3> HIDE DEF those
    <3>2. query'.of = "dates" /\ answer'.slots = those
      BY <2>3, <2>7
    <3> QED BY <2>5, <2>7, <3>1, <3>2 DEF Within
  <2> QED BY <2>2, <2>4, <2>8 DEF OfferInv
<1>3. CASE UNCHANGED Offer!vars
  <2>1. UNCHANGED <<settings, zone, agenda, now, query, answer>>
    BY <1>3 DEF Offer!vars
  <2>2. ASSUME NEW from \in Nat, NEW to \in Nat PROVE Offer!Available(from, to)' = Offer!Available(from, to)
    BY <2>1, AvailableStays
  <2>3. ASSUME NEW from \in Nat, NEW to \in Nat, Within(from, to) PROVE Within(from, to)'
    BY <2>1, <2>2, <2>3 DEF Within
  <2>4. SlotShape'
    BY <1>0, <2>1 DEF SlotShape
  <2> QED BY <2>1, <2>3, <2>4 DEF OfferInv
<1> QED BY <1>1, <1>2, <1>3 DEF Offer!Next

\* What is promised of the slots.
LEMMA OfferHolds ==
  OfferInv => Offer!TypeOK /\ Offer!OffersHonest /\ Offer!OffersBookable /\ Offer!NothingHidden
<1> SUFFICES ASSUME OfferInv
             PROVE  Offer!TypeOK /\ Offer!OffersHonest /\ Offer!OffersBookable /\ Offer!NothingHidden
  OBVIOUS
<1>0. SlotShape /\ query \in [of : {"nothing", "window", "dates"}, from : Nat, to : Nat]
  BY DEF OfferInv, SlotShape
<1>1. CASE query.of # "window" /\ answer = Offer!Refused
  <2>1. answer = [ok |-> FALSE, slots |-> {}]
    BY <1>1 DEF Offer!Refused
  <2> QED BY <1>0, <1>1, <2>1
          DEF Offer!TypeOK, Offer!OffersHonest, Offer!OffersBookable, Offer!NothingHidden
<1>2. ASSUME NEW from \in Nat, NEW to \in Nat, Within(from, to)
      PROVE  Offer!TypeOK /\ Offer!OffersHonest /\ Offer!OffersBookable /\ Offer!NothingHidden
  <2> DEFINE found == Offer!Available(from, to)
  <2>1. /\ found.ok \in BOOLEAN /\ (~ found.ok => found.slots = {})
        /\ found.ok => FoundRight(found.slots, from, to)
    BY <1>0, AvailableFinds
  <2>2. answer = [ok |-> found.ok, slots |-> answer.slots] /\ answer.slots \subseteq found.slots
        /\ (query.of = "window" => from = query.from /\ to = query.to /\ answer = found)
    BY <1>2 DEF Within
  <2> HIDE DEF found
  <2>3. answer.ok = found.ok
    BY <2>2
  <2>4. \A t \in answer.slots : found.ok /\ t \in found.slots /\ Reservable(t) /\ t \in Nat
    BY <2>1, <2>2 DEF FoundRight, Reservable
  <2>5. Offer!TypeOK
    <3>1. \A t \in answer.slots : t >= now + settings.notice
      BY <2>4 DEF Reservable
    <3> QED BY <1>0, <2>1, <2>2, <2>3, <2>4, <3>1 DEF Offer!TypeOK
  <2>6. Offer!OffersHonest
    <3> SUFFICES ASSUME NEW t \in answer.slots
                 PROVE  /\ Offer!Local(t + SlotDuration) = Offer!Local(t) + SlotDuration
                        /\ \E r \in Offer!Ranges(t) : r.start <= Offer!MinuteOf(t) /\
                            Offer!MinuteOf(t) + SlotDuration <= r.end
                        /\ ~ Offer!Overlaps(t, agenda)
                        /\ \A u \in answer.slots \ {t} : Offer!Local(u) # Offer!Local(t)
      BY DEF Offer!OffersHonest
    <3>1. t \in Nat /\ Offer!Fits(t, agenda)
      BY <2>4 DEF Reservable
    <3>2. ~ Offer!Overlaps(t, agenda)
      BY <3>1 DEF Offer!Fits
    <3>3. \A u \in answer.slots \ {t} : Offer!Local(u) # Offer!Local(t)
      BY <2>1, <2>2, <2>4 DEF FoundRight, Offer!SameLocal
    <3>4. /\ Offer!Local(t + SlotDuration) = Offer!Local(t) + SlotDuration
          /\ \E r \in Offer!Ranges(t) : r.start <= Offer!MinuteOf(t) /\ Offer!MinuteOf(t) + SlotDuration <= r.end
      BY <1>0, <3>1, FitLasts
    <3> QED BY <3>2, <3>3, <3>4
  <2>7. Offer!OffersBookable
    BY <1>0, <2>4, BookableIsReservable DEF Offer!OffersBookable
  <2>8. Offer!NothingHidden
    <3> SUFFICES ASSUME query.of = "window", answer.ok, NEW t \in Offer!Instants,
                        query.from <= t, t + SlotDuration <= query.to, Offer!Bookable(t)
                 PROVE  \/ t \in answer.slots
                        \/ \E u \in answer.slots : Offer!Local(u) = Offer!Local(t)
                        \/ Offer!Cardinality(answer.slots) = SlotLimit
      BY DEF Offer!NothingHidden
    <3>1. t \in Nat
      BY SlotBounds DEF Offer!Instants
    <3>2. Reservable(t) /\ from <= t /\ t + SlotDuration <= to /\ answer.slots = found.slots /\ found.ok
      BY <1>0, <2>2, <2>3, <3>1, BookableIsReservable
    <3>3. t \in found.slots \/ (\E v \in found.slots : Offer!SameLocal(v, t)) \/
            Cardinality(found.slots) = SlotLimit
      BY <2>1, <3>1, <3>2 DEF FoundRight
    <3>4. Offer!Cardinality(found.slots) = Cardinality(found.slots)
      BY DEF Offer!Cardinality, Cardinality
    <3> QED BY <3>2, <3>3, <3>4 DEF Offer!SameLocal
  <2> QED BY <2>5, <2>6, <2>7, <2>8
<1> QED BY <1>1, <1>2 DEF OfferInv

\* The slots in the composition: what is offered lasts on the clock what it should and is
\* free, can be booked at once, and nothing that can be booked in the window is hidden.
THEOREM OffersKeep == Spec => []OffersKept
<1> DEFINE O == part = "slots" => OfferInv
<1>1. Init => O
  BY PartsStart, OfferInit
<1>2. O /\ [Next]_vars => O'
  <2> SUFFICES ASSUME O, [Next]_vars, part' = "slots" PROVE OfferInv'
    OBVIOUS
  <2>1. part = "slots"
    BY PartStays
  <2> QED BY <2>1, PartsStep, OfferStep
<1>3. O => OffersKept
  BY OfferHolds DEF OffersKept
<1> HIDE DEF O
<1> QED BY <1>1, <1>2, <1>3, PTL DEF Spec

------------------------------------------------------------------------------
(***************************************************************************)
(* Types.                                                                  *)
(***************************************************************************)
\* Every part keeps the types of its state, for every value of the constants: the agenda,
\* the slots, the calendar, the sheets, the stores and the health of a number.
THEOREM IntegrationTypes == Spec => []TypeOK
<1> DEFINE O == part = "slots" => OfferInv
           G == GoogleInv /\ SheetsInv /\ HealthInv
           T == Calendar!TypeOK /\ Sheet!TypeOK /\ Health!TypeOK
                /\ (part = "slots" => Offer!TypeOK)
<1>1. /\ Init => Booking!Init /\ Tiendanube!Init
      /\ Init /\ part = "store" => Store!Init
      /\ Init /\ part = "stores" => Stores2!Init
  BY PartsStart
<1>2. /\ [Next]_vars => [Booking!Next]_(Booking!vars)
      /\ [Next]_vars => [Tiendanube!Next]_(Tiendanube!vars)
      /\ part = "store" /\ [Next]_vars => [Store!Next]_(Store!vars)
      /\ part = "stores" /\ [Next]_vars => [Stores2!Next]_(Stores2!vars)
  BY PartsStep, StoresStep
<1>3. /\ part = "store" /\ [Next]_vars => (part = "store")'
      /\ ~(part = "store") /\ [Next]_vars => ~(part = "store")'
      /\ part = "stores" /\ [Next]_vars => (part = "stores")'
      /\ ~(part = "stores") /\ [Next]_vars => ~(part = "stores")'
  BY PartStays
<1>4. Booking!Spec => []Booking!TypeOK
  BY Bounds, Booking!BookingTypes
<1>5. Store!Spec => []Store!TypeOK
  BY Bounds, Store!MirrorTypes
<1>6. Stores2!Spec => []Stores2!TypeOK
  BY Bounds, Stores2!MirrorTypes
<1>7. Tiendanube!Spec => []Tiendanube!TypeOK
  BY Bounds, Tiendanube!LinkTypes
<1>8. Init => G /\ O
  BY PartsStart, GoogleInit, SheetInit, HealthInit, OfferInit
<1>9. G /\ O /\ [Next]_vars => G' /\ O'
  <2>1. G /\ [Next]_vars => G'
    BY PartsStep, GoogleStepKeeps, SheetStepKeeps, HealthStepKeeps
  <2>2. O /\ [Next]_vars => O'
    BY PartStays, PartsStep, OfferStep
  <2> QED BY <2>1, <2>2
<1>10. G /\ O => T
  BY OfferHolds DEF GoogleInv, SheetsInv, HealthInv
<1>11. /\ T /\ Booking!TypeOK /\ Tiendanube!TypeOK
       /\ part = "store" => Store!TypeOK
       /\ part = "stores" => Stores2!TypeOK
       => TypeOK
  BY DEF TypeOK
<1> HIDE DEF O, G, T
<1> QED BY <1>1, <1>2, <1>3, <1>4, <1>5, <1>6, <1>7, <1>8, <1>9, <1>10, <1>11, PTL
        DEF Spec, Booking!Spec, Store!Spec, Stores2!Spec, Tiendanube!Spec

------------------------------------------------------------------------------
(***************************************************************************)
(* What no step does.                                                      *)
(***************************************************************************)
\* In the composition, for every value of the constants: no step brings a cancelled
\* appointment back or books over what held the slot throughout, takes a newer connection
\* away, undoes a run that succeeded, leaves an undisturbed copy of a store wrong, uses the
\* credentials of a store that is disconnected or shows an event of another provider.
THEOREM StepsKeep == Spec => IntegrationSteps
<1>1. /\ Init => Booking!Init /\ Tiendanube!Init
      /\ Init /\ part = "store" => Store!Init
      /\ Init => GoogleInv /\ SheetsInv /\ HealthInv
  BY PartsStart, GoogleInit, SheetInit, HealthInit
<1>2. /\ [Next]_vars => [Booking!Next]_(Booking!vars)
      /\ [Next]_vars => [Tiendanube!Next]_(Tiendanube!vars)
      /\ part = "store" /\ [Next]_vars => [Store!Next]_(Store!vars)
  BY PartsStep, StoresStep
<1>3. /\ part = "store" /\ [Next]_vars => (part = "store")'
      /\ ~(part = "store") /\ [Next]_vars => ~(part = "store")'
  BY PartStays
<1>4. GoogleInv /\ SheetsInv /\ HealthInv /\ [Next]_vars =>
        /\ GoogleInv' /\ SheetsInv' /\ HealthInv'
        /\ Calendar!NewConnectionSurvivesStep /\ Sheet!SuccessIsKeptStep
        /\ Health!TelemetryLeftStep
  BY PartsStep, GoogleStepKeeps, SheetStepKeeps, HealthStepKeeps, GoogleSurvives,
     SheetSuccessKept
<1>5. /\ Booking!Spec => [][Booking!CancelledIsFinalStep]_(Booking!vars)
      /\ Booking!Spec => [][Booking!BooksOverNothingHeldStep]_(Booking!vars)
  BY Bounds, Booking!CancellationsAreFinal, Booking!NothingBookedOver
     DEF Booking!CancelledIsFinal, Booking!BooksOverNothingHeld
<1>6. Store!Spec => [][Store!SyncRepairsStep]_(Store!vars)
  BY Bounds, Store!SynchronizationsRepair DEF Store!SyncRepairs
<1>7. Tiendanube!Spec => [][Tiendanube!NoUseAfterDisconnectStep]_(Tiendanube!vars)
  BY Bounds, Tiendanube!DisconnectedIsUnused DEF Tiendanube!NoUseAfterDisconnect
<1>8. /\ part = "booking" /\ [Next]_vars /\ UNCHANGED Booking!vars => UNCHANGED vars
      /\ part = "store" /\ [Next]_vars /\ UNCHANGED Store!vars => UNCHANGED vars
      /\ part = "tiendanube" /\ [Next]_vars /\ UNCHANGED Tiendanube!vars => UNCHANGED vars
  BY DEF Next, vars, bookingVars, wooVars, tiendaVars, Booking!vars, Store!vars,
     Tiendanube!vars
<1> QED BY <1>1, <1>2, <1>3, <1>4, <1>5, <1>6, <1>7, <1>8, PTL
        DEF Spec, Booking!Spec, Store!Spec, Tiendanube!Spec, IntegrationSteps
================================================================================
