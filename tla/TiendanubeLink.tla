---------------------------- MODULE TiendanubeLink ----------------------------
(***************************************************************************)
(* The connections of organizations with Tiendanube stores                 *)
(* (integrations/tiendanube): the authorization with its one-use state, the *)
(* connection, synchronizations and webhooks over it, the events of the    *)
(* application itself (uninstalled, suspended, resumed) and the            *)
(* disconnection.  The organizations have the plan.  The copied rows are   *)
(* those of WooMirror and are left out, and a synchronization has a key of *)
(* its own (SheetsSync has the claim).                                     *)
(***************************************************************************)
EXTENDS Naturals, FiniteSets, FiniteSetTheorems, TLAPS

CONSTANTS
  Orgs, Stores, Requests,
  MaxStates,    \* authorizations started over the whole behaviour
  MaxEvents,    \* events of the stores over the whole behaviour
  MaxBuckets    \* periods of five minutes

\* What the constants must be, for the instances of this module.
TiendanubeAssumption ==
  /\ MaxStates \in Nat /\ MaxEvents \in Nat /\ MaxBuckets \in Nat
  /\ "none" \notin Stores

VARIABLES
  conn,        \* the connection row of each organization
  states,      \* the OAuth states: organization and whether it was used
  sent,        \* deliveries of the webhooks, made again and again
  receipts,    \* the table of receipts, by its unique key
  request,     \* the local state of the requests in progress
  bucket,      \* the current period of five minutes
  off,         \* history: organizations disconnected and not connected again
  suspended,   \* history: organizations suspended and not resumed or connected
  received,    \* history: events some delivery of which was accepted
  refused      \* history: events some delivery of which was called a duplicate

vars == <<conn, states, sent, receipts, request, bucket, off, suspended, received, refused>>

AppEvents == {"app/uninstalled", "app/suspended", "app/resumed"}
Events == AppEvents \cup {"product/updated"}
NoConnection == [store |-> "none", status |-> "NONE", token |-> FALSE]
Idle == [pc |-> "idle", org |-> "none", store |-> "none", event |-> "none"]

\* The tables and the requests keep their types.
TypeOK ==
  /\ conn \in [Orgs -> [store : {"none"} \cup Stores, token : BOOLEAN,
                        status : {"NONE", "CONNECTED", "ERROR", "DISCONNECTED"}]]
  /\ states \in [1 .. MaxStates -> [org : {"none"} \cup Orgs, used : BOOLEAN]]
  /\ sent \subseteq [store : Stores, event : Events, n : 1 .. MaxEvents]
  /\ receipts \subseteq [store : Stores, event : Events, bucket : 0 .. MaxBuckets]
  /\ request \in [Requests ->
       [pc : {"idle", "exchange", "check", "commit", "sync", "accepted", "fetch"},
        org : {"none"} \cup Orgs, store : {"none"} \cup Stores,
        event : {"none"} \cup Events]]
  /\ bucket \in 0 .. MaxBuckets
  /\ off \subseteq Orgs /\ suspended \subseteq Orgs
  /\ received \subseteq 1 .. MaxEvents /\ refused \subseteq 1 .. MaxEvents

Init ==
  /\ conn = [o \in Orgs |-> NoConnection]
  /\ states = [i \in 1 .. MaxStates |-> [org |-> "none", used |-> FALSE]]
  /\ sent = {} /\ receipts = {}
  /\ request = [q \in Requests |-> Idle]
  /\ bucket = 0
  /\ off = {} /\ suspended = {} /\ received = {} /\ refused = {}

history == <<off, suspended, received, refused>>
Ends(q) == request' = [request EXCEPT ![q] = Idle]

------------------------------------------------------------------------------
\* A manager asks for the address of the authorization.
CreatesState(o, i) ==
  /\ states[i].org = "none" /\ \A j \in 1 .. i - 1 : states[j].org # "none"
  /\ states' = [states EXCEPT ![i].org = o]
  /\ UNCHANGED <<conn, sent, receipts, request, bucket, history>>

\* The callback reads the state and marks it used if it still is not; the two
\* are one step because the second decides.
ConsumesState(q, i) ==
  /\ request[q].pc = "idle" /\ states[i].org # "none" /\ ~states[i].used
  /\ states' = [states EXCEPT ![i].used = TRUE]
  /\ request' = [request EXCEPT ![q] = [Idle EXCEPT !.pc = "exchange", !.org = states[i].org]]
  /\ UNCHANGED <<conn, sent, receipts, bucket, history>>

\* The code is exchanged for a token of the store the manager chose.
ExchangesCode(q, s) ==
  /\ request[q].pc = "exchange"
  /\ request' = [request EXCEPT ![q].pc = "check", ![q].store = s]
  /\ UNCHANGED <<conn, states, sent, receipts, bucket, history>>

Owners(s) == {o \in Orgs : conn[o].store = s}

\* The store must not be another organization's; it is then read and its
\* webhooks are registered.
ChecksStore(q) ==
  /\ request[q].pc = "check"
  /\ IF Owners(request[q].store) \subseteq {request[q].org}
     THEN request' = [request EXCEPT ![q].pc = "commit"]
     ELSE Ends(q)
  /\ UNCHANGED <<conn, states, sent, receipts, bucket, history>>

\* The unique index on the store.  Mutation: there is none.
AcceptsAny(o, s) == TRUE
AcceptsStore(o, s) == Owners(s) \subseteq {o}

\* The upsert of the connection; the index refuses it when another
\* organization took the store meanwhile.
CommitsConnection(q) ==
  LET o == request[q].org IN
  /\ request[q].pc = "commit"
  /\ IF AcceptsStore(o, request[q].store)
     THEN /\ conn' = [conn EXCEPT ![o] =
               [store |-> request[q].store, status |-> "CONNECTED", token |-> TRUE]]
          /\ off' = off \ {o} /\ suspended' = suspended \ {o}
     ELSE UNCHANGED <<conn, off, suspended>>
  /\ Ends(q)
  /\ UNCHANGED <<states, sent, receipts, bucket, received, refused>>

Disconnected(c) == [c EXCEPT !.status = "DISCONNECTED", !.token = FALSE]

\* disconnectTiendanube forgets the token.
Disconnects(o) ==
  /\ conn[o].status \in {"CONNECTED", "ERROR"}
  /\ conn' = [conn EXCEPT ![o] = Disconnected(@)]
  /\ off' = off \cup {o}
  /\ UNCHANGED <<states, sent, receipts, request, bucket, suspended, received, refused>>

\* connectionCredentials.  Mutation: the token is not looked at.
ByStatus(o) == conn[o].status = "CONNECTED"
Credentials(o) == conn[o].status = "CONNECTED" /\ conn[o].token

------------------------------------------------------------------------------
\* The card runs one operation at a time.
Asks(q) == request[q].pc = "idle"

\* syncTiendanube reads the credentials, claims its run and lists the store.
SyncStarts(q, o) ==
  /\ Asks(q) /\ Credentials(o)
  /\ request' = [request EXCEPT ![q] = [Idle EXCEPT !.pc = "sync", !.org = o]]
  /\ UNCHANGED <<conn, states, sent, receipts, bucket, history>>

\* Success marks the connection, whatever it is by now.
\* Mutation: with the status of a run.
MarkedAsRun(c) == [c EXCEPT !.status = "SUCCEEDED"]
Marked(c) == [c EXCEPT !.status = "CONNECTED"]
SyncSucceeds(q) ==
  /\ request[q].pc = "sync"
  /\ conn' = [conn EXCEPT ![request[q].org] = Marked(@)]
  /\ Ends(q)
  /\ UNCHANGED <<states, sent, receipts, bucket, history>>

\* A call that fails; an expired authorization marks the connection.
AfterFailure(o) == {conn, [conn EXCEPT ![o].status = "ERROR"]}

SyncFails(q) ==
  /\ request[q].pc = "sync"
  /\ conn' \in AfterFailure(request[q].org)
  /\ Ends(q)
  /\ UNCHANGED <<states, sent, receipts, bucket, history>>

------------------------------------------------------------------------------
\* Something happens in a store: its webhook says the store, the event and the
\* resource, and nothing that tells two such events apart.
StoreEvent(s, e) ==
  LET n == Cardinality({d.n : d \in sent}) + 1 IN
  /\ n <= MaxEvents
  /\ sent' = sent \cup {[store |-> s, event |-> e, n |-> n]}
  /\ UNCHANGED <<conn, states, receipts, request, bucket, history>>

\* buildTiendanubeWebhookDedupeKey: the body and the period.
DedupeKey(d) == [store |-> d.store, event |-> d.event, bucket |-> bucket]

\* acceptTiendanubeWebhook finds the organization of the store and inserts the
\* receipt.
WebhookArrives(q, d) ==
  /\ request[q].pc = "idle" /\ Owners(d.store) # {}
  /\ IF DedupeKey(d) \in receipts
     THEN refused' = refused \cup {d.n} /\ UNCHANGED <<receipts, request, received>>
     ELSE /\ receipts' = receipts \cup {DedupeKey(d)}
          /\ received' = received \cup {d.n}
          /\ \E o \in Owners(d.store) : request' = [request EXCEPT ![q] =
               [Idle EXCEPT !.pc = "accepted", !.org = o, !.event = d.event]]
          /\ UNCHANGED refused
  /\ UNCHANGED <<conn, states, sent, bucket, off, suspended>>

\* syncTiendanubeWebhookResource for the events of the application.
AppEvent(q) ==
  LET o == request[q].org
      e == request[q].event IN
  /\ request[q].pc = "accepted" /\ e \in AppEvents
  /\ conn' = [conn EXCEPT ![o] =
       CASE e = "app/uninstalled" -> Disconnected(@)
         [] e = "app/suspended" -> [@ EXCEPT !.status = "ERROR"]
         [] e = "app/resumed" -> IF @.token THEN [@ EXCEPT !.status = "CONNECTED"] ELSE @]
  /\ off' = IF e = "app/uninstalled" THEN off \cup {o} ELSE off
  /\ suspended' = CASE e = "app/suspended" -> suspended \cup {o}
                    [] e = "app/resumed" -> suspended \ {o}
                    [] OTHER -> suspended
  /\ Ends(q)
  /\ UNCHANGED <<states, sent, receipts, bucket, received, refused>>

\* ... and for a resource, which is fetched with the credentials and written.
ResourceEvent(q) ==
  /\ request[q].pc = "accepted" /\ request[q].event \notin AppEvents
  /\ IF Credentials(request[q].org)
     THEN request' = [request EXCEPT ![q].pc = "sync", ![q].event = "none"]
     ELSE Ends(q)
  /\ UNCHANGED <<conn, states, sent, receipts, bucket, history>>

TimePasses ==
  /\ bucket < MaxBuckets
  /\ bucket' = bucket + 1
  /\ UNCHANGED <<conn, states, sent, receipts, request, history>>

\* A request ends where it is: the resource is written, a call fails or the
\* process dies.
RequestStops(q) ==
  /\ request[q].pc # "idle"
  /\ Ends(q)
  /\ UNCHANGED <<conn, states, sent, receipts, bucket, history>>

Next ==
  \/ TimePasses
  \/ \E o \in Orgs : Disconnects(o) \/ \E i \in 1 .. MaxStates : CreatesState(o, i)
  \/ \E s \in Stores, e \in Events : StoreEvent(s, e)
  \/ \E q \in Requests :
       \/ \E i \in 1 .. MaxStates : ConsumesState(q, i)
       \/ \E s \in Stores : ExchangesCode(q, s)
       \/ ChecksStore(q) \/ CommitsConnection(q)
       \/ \E o \in Orgs : SyncStarts(q, o)
       \/ SyncSucceeds(q) \/ SyncFails(q)
       \/ \E d \in sent : WebhookArrives(q, d)
       \/ AppEvent(q) \/ ResourceEvent(q)
       \/ RequestStops(q)

Spec == Init /\ [][Next]_vars

------------------------------------------------------------------------------
\* A store belongs to one organization, though two that connect it at once both
\* find it free (connectTiendanube).
OneOwnerPerStore == \A s \in Stores : Cardinality(Owners(s)) <= 1

\* After the application is uninstalled or disconnected no request takes the
\* credentials until the organization connects again, although a
\* synchronization that was running calls it connected (connectionCredentials).
NoUseAfterDisconnectStep ==
  \A q \in Requests :
    request[q].pc # request'[q].pc /\ request'[q].pc \in {"sync", "fetch"}
    => request'[q].org \notin off
NoUseAfterDisconnect == [][NoUseAfterDisconnectStep]_vars

\* What the tests say of the key of a receipt: a delivery is refused only if
\* the event it tells of was received.
LaterEventsAccepted == refused \subseteq received

\* What the documentation says of a suspended application: it has to be
\* connected again (or resumed) before it counts as connected.
SuspensionHolds == \A o \in suspended : conn[o].status # "CONNECTED"

------------------------------------------------------------------------------
\* What is written in the rows and kept by the requests, as far as owning goes.
Connection == [store : {"none"} \cup Stores, token : BOOLEAN,
               status : {"NONE", "CONNECTED", "ERROR", "DISCONNECTED"}]
Written ==
  /\ conn \in [Orgs -> Connection]
  /\ DOMAIN request = Requests
  /\ \A q \in Requests : request[q].store \in {"none"} \cup Stores

\* Why a store has one owner: rows that name a store name different ones.
Owned ==
  /\ Written
  /\ \A o, p \in Orgs : conn[o].store = conn[p].store /\ conn[o].store # "none" => o = p

\* What a step that only changes the status or the token of a row keeps.
LEMMA SameStoreKeepsOwned ==
  ASSUME Owned, Written', \A o \in Orgs : conn'[o].store = conn[o].store
  PROVE  Owned'
BY DEF Owned

\* The steps that touch no connection keep the requests typed.
LEMMA RequestsKeepOwned ==
  ASSUME Owned, UNCHANGED conn, DOMAIN request' = Requests,
         \A q \in Requests : request'[q].store \in {"none"} \cup Stores
  PROVE  Owned'
BY DEF Owned, Written

\* A request that ends or moves on keeps its store, or has none.
LEMMA EndsTyped ==
  ASSUME Written, NEW q \in Requests, Ends(q)
  PROVE  /\ DOMAIN request' = Requests
         /\ \A p \in Requests : request'[p].store \in {"none"} \cup Stores
BY DEF Written, Ends, Idle

\* The upsert of a connection: nobody else names the store it takes.
LEMMA CommitKeepsOwned ==
  ASSUME Owned, NEW q \in Requests, CommitsConnection(q)
  PROVE  Owned'
<1>1. /\ DOMAIN request' = Requests
      /\ \A p \in Requests : request'[p].store \in {"none"} \cup Stores
  BY EndsTyped DEF Owned, CommitsConnection
<1> DEFINE o == request[q].org
           s == request[q].store
<1>2. CASE AcceptsStore(o, s)
  <2>1. conn' = [conn EXCEPT ![o] = [store |-> s, status |-> "CONNECTED", token |-> TRUE]]
    BY <1>2 DEF CommitsConnection
  <2>2. conn' \in [Orgs -> Connection]
    BY <2>1 DEF Owned, Written, Connection
  <2>3. \A p \in Orgs : p # o => conn'[p] = conn[p] /\ conn[p].store # s
    BY <1>2, <2>1 DEF Owned, Written, AcceptsStore, Owners
  <2>4. o \in Orgs => conn'[o].store = s
    BY <2>1 DEF Owned, Written
  <2> QED BY <1>1, <2>2, <2>3, <2>4 DEF Owned, Written
<1>3. CASE ~AcceptsStore(o, s)
  <2>1. UNCHANGED conn
    BY <1>3 DEF CommitsConnection
  <2> QED BY <1>1, <2>1, RequestsKeepOwned
<1> QED BY <1>2, <1>3

\* Every step keeps the stores apart.
LEMMA StepKeepsOwned ==
  ASSUME Owned, [Next]_vars
  PROVE  Owned'
<1>0. Written
  BY DEF Owned
<1>1. CASE \/ TimePasses \/ UNCHANGED vars
           \/ \E s \in Stores, e \in Events : StoreEvent(s, e)
  <2>1. UNCHANGED <<conn, request>>
    BY <1>1 DEF TimePasses, vars, StoreEvent
  <2> QED BY <2>1 DEF Owned, Written
<1>2. ASSUME NEW o \in Orgs, NEW i \in 1 .. MaxStates, CreatesState(o, i) PROVE Owned'
  BY <1>2 DEF CreatesState, Owned, Written
<1>3. ASSUME NEW o \in Orgs, Disconnects(o) PROVE Owned'
  <2>1. /\ conn' = [conn EXCEPT ![o] = Disconnected(@)]
        /\ request' = request
    BY <1>3 DEF Disconnects
  <2>2. Written'
    BY <1>0, <2>1 DEF Written, Connection, Disconnected
  <2>3. \A p \in Orgs : conn'[p].store = conn[p].store
    BY <1>0, <2>1 DEF Written, Connection, Disconnected
  <2> QED BY <2>2, <2>3, SameStoreKeepsOwned
<1>4. ASSUME NEW q \in Requests, NEW i \in 1 .. MaxStates, ConsumesState(q, i) PROVE Owned'
  <2>1. /\ request' = [request EXCEPT ![q] =
             [Idle EXCEPT !.pc = "exchange", !.org = states[i].org]]
        /\ conn' = conn
    BY <1>4 DEF ConsumesState
  <2> QED BY <1>0, <2>1, RequestsKeepOwned DEF Written, Idle
<1>5. ASSUME NEW q \in Requests, NEW s \in Stores, ExchangesCode(q, s) PROVE Owned'
  <2>1. /\ request' = [request EXCEPT ![q].pc = "check", ![q].store = s]
        /\ conn' = conn
    BY <1>5 DEF ExchangesCode
  <2> QED BY <1>0, <2>1, RequestsKeepOwned DEF Written
<1>6. ASSUME NEW q \in Requests, ChecksStore(q) PROVE Owned'
  <2>1. CASE Ends(q)
    BY <1>0, <1>6, <2>1, EndsTyped, RequestsKeepOwned DEF ChecksStore
  <2>2. CASE request' = [request EXCEPT ![q].pc = "commit"]
    BY <1>0, <1>6, <2>2, RequestsKeepOwned DEF ChecksStore, Written
  <2> QED BY <1>6, <2>1, <2>2 DEF ChecksStore
<1>7. ASSUME NEW q \in Requests, CommitsConnection(q) PROVE Owned'
  BY <1>7, CommitKeepsOwned
<1>8. ASSUME NEW q \in Requests, NEW o \in Orgs, SyncStarts(q, o) PROVE Owned'
  <2>1. /\ request' = [request EXCEPT ![q] = [Idle EXCEPT !.pc = "sync", !.org = o]]
        /\ conn' = conn
    BY <1>8 DEF SyncStarts
  <2> QED BY <1>0, <2>1, RequestsKeepOwned DEF Written, Idle
<1>9. ASSUME NEW q \in Requests, SyncSucceeds(q) PROVE Owned'
  <2>1. conn' = [conn EXCEPT ![request[q].org] = Marked(@)] /\ Ends(q)
    BY <1>9 DEF SyncSucceeds
  <2>2. Written'
    BY <1>0, <2>1, EndsTyped DEF Written, Connection, Marked
  <2>3. \A p \in Orgs : conn'[p].store = conn[p].store
    BY <1>0, <2>1 DEF Written, Connection, Marked
  <2> QED BY <2>2, <2>3, SameStoreKeepsOwned
<1>10. ASSUME NEW q \in Requests, SyncFails(q) PROVE Owned'
  <2>1. conn' \in {conn, [conn EXCEPT ![request[q].org].status = "ERROR"]} /\ Ends(q)
    BY <1>10 DEF SyncFails, AfterFailure
  <2>2. Written'
    BY <1>0, <2>1, EndsTyped DEF Written, Connection
  <2>3. \A p \in Orgs : conn'[p].store = conn[p].store
    BY <1>0, <2>1 DEF Written, Connection
  <2> QED BY <2>2, <2>3, SameStoreKeepsOwned
<1>11. ASSUME NEW q \in Requests, NEW d \in sent, WebhookArrives(q, d) PROVE Owned'
  <2>1. conn' = conn
    BY <1>11 DEF WebhookArrives
  <2>2. \/ request' = request
        \/ \E o \in Orgs : request' = [request EXCEPT ![q] =
             [Idle EXCEPT !.pc = "accepted", !.org = o, !.event = d.event]]
    BY <1>11 DEF WebhookArrives, Owners
  <2> QED BY <1>0, <2>1, <2>2, RequestsKeepOwned DEF Written, Idle
<1>12. ASSUME NEW q \in Requests, AppEvent(q) PROVE Owned'
  <2> DEFINE o == request[q].org
             c == conn'[o]
  <2>1. /\ Ends(q)
        /\ \E e \in AppEvents : conn' = [conn EXCEPT ![o] =
             CASE e = "app/uninstalled" -> Disconnected(@)
               [] e = "app/suspended" -> [@ EXCEPT !.status = "ERROR"]
               [] e = "app/resumed" -> IF @.token THEN [@ EXCEPT !.status = "CONNECTED"]
                                       ELSE @]
    BY <1>12 DEF AppEvent
  <2>2. \A r \in Connection :
          /\ Disconnected(r) \in Connection /\ Disconnected(r).store = r.store
          /\ [r EXCEPT !.status = "ERROR"] \in Connection
          /\ [r EXCEPT !.status = "ERROR"].store = r.store
          /\ [r EXCEPT !.status = "CONNECTED"] \in Connection
          /\ [r EXCEPT !.status = "CONNECTED"].store = r.store
    BY DEF Connection, Disconnected
  <2>3. /\ conn' \in [Orgs -> Connection]
        /\ \A p \in Orgs : conn'[p].store = conn[p].store
    <3>1. CASE conn' = [conn EXCEPT ![o] = Disconnected(@)]
      BY <1>0, <2>2, <3>1 DEF Written
    <3>2. CASE conn' = [conn EXCEPT ![o] = [@ EXCEPT !.status = "ERROR"]]
      BY <1>0, <2>2, <3>2 DEF Written
    <3>3. CASE conn' = [conn EXCEPT ![o] =
                 IF @.token THEN [@ EXCEPT !.status = "CONNECTED"] ELSE @]
      BY <1>0, <2>2, <3>3 DEF Written
    <3> QED BY <2>1, <3>1, <3>2, <3>3 DEF AppEvents
  <2>4. Written'
    BY <1>0, <2>1, <2>3, EndsTyped DEF Written
  <2> QED BY <2>3, <2>4, SameStoreKeepsOwned
<1>13. ASSUME NEW q \in Requests, ResourceEvent(q) PROVE Owned'
  <2>1. CASE Ends(q)
    BY <1>0, <1>13, <2>1, EndsTyped, RequestsKeepOwned DEF ResourceEvent
  <2>2. CASE request' = [request EXCEPT ![q].pc = "sync", ![q].event = "none"]
    BY <1>0, <1>13, <2>2, RequestsKeepOwned DEF ResourceEvent, Written
  <2> QED BY <1>13, <2>1, <2>2 DEF ResourceEvent
<1>14. ASSUME NEW q \in Requests, RequestStops(q) PROVE Owned'
  BY <1>0, <1>14, EndsTyped, RequestsKeepOwned DEF RequestStops
<1> QED BY <1>1, <1>2, <1>3, <1>4, <1>5, <1>6, <1>7, <1>8, <1>9, <1>10, <1>11, <1>12,
           <1>13, <1>14 DEF Next

\* A store has one owner at most, for any number of organizations, stores and requests that
\* connect it at once (the unique index of connectTiendanube).
THEOREM StoresHaveOneOwner ==
  ASSUME TiendanubeAssumption
  PROVE  Spec => []OneOwnerPerStore
<1>1. Init => Owned
  BY DEF Init, Owned, Written, Connection, NoConnection, Idle
<1>2. Owned /\ [Next]_vars => Owned'
  BY StepKeepsOwned
<1>3. Owned => OneOwnerPerStore
  <2> SUFFICES ASSUME Owned, NEW s \in Stores PROVE Cardinality(Owners(s)) <= 1
    BY DEF OneOwnerPerStore
  <2>1. \A o, p \in Owners(s) : o = p
    BY DEF Owned, Owners, TiendanubeAssumption
  <2>2. CASE Owners(s) = {}
    BY <2>2, FS_EmptySet
  <2>3. CASE Owners(s) # {}
    <3>1. PICK o : Owners(s) = {o}
      BY <2>1, <2>3
    <3>2. Cardinality({o}) = 1
      BY FS_Singleton
    <3> QED BY <3>1, <3>2
  <2> QED BY <2>2, <2>3
<1> QED BY <1>1, <1>2, <1>3, PTL DEF Spec

------------------------------------------------------------------------------
\* Why nobody takes the credentials of an organization that is disconnected: its token
\* was forgotten with the disconnection, whatever the status says since, and whoever was
\* handed a delivery has an organization.
TokensForgotten ==
  /\ Owned
  /\ \A q \in Requests :
       /\ DOMAIN request[q] = DOMAIN Idle
       /\ request[q].pc = "accepted" => request[q].org \in Orgs
  /\ \A o \in off \cap Orgs : ~conn[o].token

\* A step that neither connects nor disconnects: no token comes back.
LEMMA TokensKept ==
  ASSUME TokensForgotten, Owned', off' = off, NEW q \in Requests,
         \A p \in Requests \ {q} : request'[p] = request[p],
         DOMAIN request'[q] = DOMAIN Idle,
         request'[q].pc = "accepted" => request'[q].org \in Orgs,
         \A o \in Orgs : conn'[o].token => conn[o].token
  PROVE  TokensForgotten'
BY DEF TokensForgotten

\* The request that ends, and the ones that do not move.
LEMMA EndsAlone ==
  ASSUME TokensForgotten, NEW q \in Requests, Ends(q)
  PROVE  /\ \A p \in Requests \ {q} : request'[p] = request[p]
         /\ request'[q] = Idle
BY DEF Ends, TokensForgotten, Owned, Written

\* What the application's events do to the token.
LEMMA AppEventForgets ==
  ASSUME TokensForgotten, Owned', NEW q \in Requests, AppEvent(q)
  PROVE  TokensForgotten'
<1> DEFINE o == request[q].org
<1>1. /\ \A p \in Requests \ {q} : request'[p] = request[p]
      /\ request'[q] = Idle /\ o \in Orgs
  BY EndsAlone DEF AppEvent, TokensForgotten
<1>2. DOMAIN request'[q] = DOMAIN Idle /\ request'[q].pc # "accepted"
  BY <1>1 DEF Idle
<1>3. conn \in [Orgs -> Connection]
  BY DEF TokensForgotten, Owned, Written
<1>4. CASE request[q].event = "app/uninstalled"
  <2>1. conn' = [conn EXCEPT ![o] = Disconnected(conn[o])] /\ off' = off \cup {o}
    BY <1>4 DEF AppEvent
  <2>2. /\ ~conn'[o].token
        /\ \A p \in Orgs \ {o} : conn'[p] = conn[p]
    BY <1>1, <1>3, <2>1 DEF Disconnected, Connection
  <2> QED BY <1>1, <1>2, <2>1, <2>2 DEF TokensForgotten
<1>5. CASE request[q].event \in {"app/suspended", "app/resumed"}
  <2>1. \/ conn' = [conn EXCEPT ![o] = [conn[o] EXCEPT !.status = "ERROR"]]
        \/ conn' = [conn EXCEPT ![o] = [conn[o] EXCEPT !.status = "CONNECTED"]]
        \/ conn' = [conn EXCEPT ![o] = conn[o]]
    <3>1. CASE request[q].event = "app/suspended"
      BY <3>1 DEF AppEvent
    <3>2. CASE request[q].event = "app/resumed"
      BY <3>2 DEF AppEvent
    <3> QED BY <1>5, <3>1, <3>2
  <2>2. off' = off
    BY <1>5 DEF AppEvent
  <2>3. \A p \in Orgs : conn'[p].token = conn[p].token
    BY <1>1, <1>3, <2>1 DEF Connection
  <2> QED BY <1>1, <1>2, <2>2, <2>3, TokensKept
<1> QED BY <1>4, <1>5 DEF AppEvent, AppEvents

\* The request that moves is the only one, and what it is handed has an organization.
LEMMA MovesTyped ==
  ASSUME TokensForgotten, NEW q \in Requests,
         \/ \E i \in 1 .. MaxStates : ConsumesState(q, i)
         \/ \E s \in Stores : ExchangesCode(q, s)
         \/ ChecksStore(q) \/ (\E o \in Orgs : SyncStarts(q, o))
         \/ (\E d \in sent : WebhookArrives(q, d))
         \/ ResourceEvent(q) \/ RequestStops(q)
  PROVE  /\ UNCHANGED <<conn, off>> /\ \A p \in Requests \ {q} : request'[p] = request[p]
         /\ DOMAIN request'[q] = DOMAIN Idle
         /\ request'[q].pc = "accepted" => request'[q].org \in Orgs
         /\ request[q].pc # request'[q].pc /\ request'[q].pc \in {"sync", "fetch"} =>
              request'[q].org \in Orgs /\ conn[request'[q].org].token
<1>0. DOMAIN request = Requests /\ DOMAIN request[q] = DOMAIN Idle
  BY DEF TokensForgotten, Owned, Written
<1>1. UNCHANGED <<conn, off>>
  BY DEF ConsumesState, ExchangesCode, ChecksStore, SyncStarts, WebhookArrives,
     ResourceEvent, RequestStops, history
<1>2. CASE Ends(q) \/ UNCHANGED request
  <2>1. CASE Ends(q)
    BY <1>1, <2>1, EndsAlone DEF Idle
  <2>2. CASE UNCHANGED request
    BY <1>0, <1>1, <2>2 DEF TokensForgotten
  <2> QED BY <1>2, <2>1, <2>2
<1>3. ASSUME NEW i \in 1 .. MaxStates, ConsumesState(q, i)
      PROVE  /\ \A p \in Requests \ {q} : request'[p] = request[p]
             /\ DOMAIN request'[q] = DOMAIN Idle /\ request'[q].pc = "exchange"
  BY <1>0, <1>3 DEF ConsumesState, Idle
<1>4. ASSUME NEW s \in Stores, ExchangesCode(q, s)
      PROVE  /\ \A p \in Requests \ {q} : request'[p] = request[p]
             /\ DOMAIN request'[q] = DOMAIN Idle /\ request'[q].pc = "check"
  BY <1>0, <1>4 DEF ExchangesCode, Idle
<1>5. CASE ChecksStore(q) /\ ~Ends(q)
  <2>1. request' = [request EXCEPT ![q].pc = "commit"]
    BY <1>5 DEF ChecksStore
  <2> QED BY <1>0, <1>1, <2>1 DEF Idle
<1>6. ASSUME NEW o \in Orgs, SyncStarts(q, o)
      PROVE  /\ \A p \in Requests \ {q} : request'[p] = request[p]
             /\ DOMAIN request'[q] = DOMAIN Idle /\ request'[q].pc = "sync"
             /\ request'[q].org = o /\ conn[o].token
  BY <1>0, <1>6 DEF SyncStarts, Credentials, Idle
<1>7. ASSUME NEW d \in sent, WebhookArrives(q, d), ~UNCHANGED request
      PROVE  /\ \A p \in Requests \ {q} : request'[p] = request[p]
             /\ DOMAIN request'[q] = DOMAIN Idle /\ request'[q].pc = "accepted"
             /\ request'[q].org \in Orgs
  <2>1. PICK o \in Owners(d.store) : request' = [request EXCEPT ![q] =
          [Idle EXCEPT !.pc = "accepted", !.org = o, !.event = d.event]]
    BY <1>7 DEF WebhookArrives
  <2> QED BY <1>0, <2>1 DEF Idle, Owners
<1>8. CASE ResourceEvent(q) /\ ~Ends(q)
  <2>1. /\ request' = [request EXCEPT ![q].pc = "sync", ![q].event = "none"]
        /\ request[q].pc = "accepted" /\ conn[request[q].org].token
    BY <1>8 DEF ResourceEvent, Credentials
  <2>2. request[q].org \in Orgs
    BY <2>1 DEF TokensForgotten
  <2> QED BY <1>0, <1>1, <2>1, <2>2 DEF Idle
<1>9. CASE RequestStops(q)
  BY <1>2, <1>9 DEF RequestStops
<1> QED BY <1>1, <1>2, <1>3, <1>4, <1>5, <1>6, <1>7, <1>8, <1>9

LEMMA StepForgets ==
  ASSUME TokensForgotten, [Next]_vars
  PROVE  TokensForgotten'
<1>0. /\ Owned' /\ DOMAIN request = Requests /\ conn \in [Orgs -> Connection]
      /\ \A q \in Requests : DOMAIN request[q] = DOMAIN Idle
  BY StepKeepsOwned DEF TokensForgotten, Owned, Written
<1>1. CASE UNCHANGED <<conn, request, off>>
  BY <1>0, <1>1 DEF TokensForgotten
<1>2. ASSUME NEW o \in Orgs, Disconnects(o) PROVE TokensForgotten'
  <2>1. /\ conn' = [conn EXCEPT ![o] = Disconnected(conn[o])]
        /\ off' = off \cup {o} /\ UNCHANGED request
    BY <1>2 DEF Disconnects
  <2>2. ~conn'[o].token /\ \A p \in Orgs \ {o} : conn'[p] = conn[p]
    BY <1>0, <2>1 DEF Disconnected, Connection
  <2> QED BY <1>0, <2>1, <2>2 DEF TokensForgotten
<1>3. ASSUME NEW q \in Requests, CommitsConnection(q) PROVE TokensForgotten'
  <2>1. /\ \A p \in Requests \ {q} : request'[p] = request[p]
        /\ request'[q] = Idle
    BY <1>3, EndsAlone DEF CommitsConnection
  <2>2. \A p \in Orgs \cap off' : conn'[p] = conn[p] /\ p \in off
    BY <1>0, <1>3 DEF CommitsConnection
  <2> QED BY <1>0, <2>1, <2>2 DEF TokensForgotten, Idle
<1>4. ASSUME NEW q \in Requests, SyncSucceeds(q) \/ SyncFails(q) PROVE TokensForgotten'
  <2>1. /\ \A p \in Requests \ {q} : request'[p] = request[p]
        /\ request'[q] = Idle /\ off' = off
    BY <1>4, EndsAlone DEF SyncSucceeds, SyncFails, history
  <2>2. \A p \in Orgs : conn'[p].token = conn[p].token
    BY <1>0, <1>4 DEF SyncSucceeds, SyncFails, Marked, AfterFailure, Connection
  <2> QED BY <1>0, <2>1, <2>2, TokensKept DEF Idle
<1>5. ASSUME NEW q \in Requests, AppEvent(q) PROVE TokensForgotten'
  BY <1>0, <1>5, AppEventForgets
<1>6. ASSUME NEW q \in Requests,
             \/ \E i \in 1 .. MaxStates : ConsumesState(q, i)
             \/ \E s \in Stores : ExchangesCode(q, s)
             \/ ChecksStore(q) \/ (\E o \in Orgs : SyncStarts(q, o))
             \/ (\E d \in sent : WebhookArrives(q, d))
             \/ ResourceEvent(q) \/ RequestStops(q)
      PROVE  TokensForgotten'
  <2>1. /\ UNCHANGED <<conn, off>> /\ \A p \in Requests \ {q} : request'[p] = request[p]
        /\ DOMAIN request'[q] = DOMAIN Idle
        /\ request'[q].pc = "accepted" => request'[q].org \in Orgs
    BY <1>6, MovesTyped
  <2> QED BY <1>0, <2>1, TokensKept
<1> QED BY <1>1, <1>2, <1>3, <1>4, <1>5, <1>6 DEF Next, vars, TimePasses, CreatesState,
           StoreEvent, history

\* After the application is uninstalled or disconnected, for any organizations, stores and
\* requests, no request takes the credentials until the organization connects again
\* (connectionCredentials).
THEOREM DisconnectedIsUnused == Spec => NoUseAfterDisconnect
<1>1. Init => TokensForgotten
  BY DEF Init, TokensForgotten, Owned, Written, Connection, NoConnection, Idle
<1>2. TokensForgotten /\ [Next]_vars => TokensForgotten'
  BY StepForgets
<1>3. TokensForgotten /\ [Next]_vars => [NoUseAfterDisconnectStep]_vars
  <2> SUFFICES ASSUME TokensForgotten, Next, NEW q \in Requests,
                      request[q].pc # request'[q].pc, request'[q].pc \in {"sync", "fetch"}
               PROVE  request'[q].org \notin off
    BY DEF NoUseAfterDisconnectStep
  <2>1. ASSUME NEW p \in Requests,
               \/ \E i \in 1 .. MaxStates : ConsumesState(p, i)
               \/ \E s \in Stores : ExchangesCode(p, s)
               \/ ChecksStore(p) \/ (\E o \in Orgs : SyncStarts(p, o))
               \/ (\E d \in sent : WebhookArrives(p, d))
               \/ ResourceEvent(p) \/ RequestStops(p)
        PROVE  request'[q].org \notin off
    <3>1. p = q
      BY <2>1, MovesTyped
    <3>2. request'[q].org \in Orgs /\ conn[request'[q].org].token
      BY <2>1, <3>1, MovesTyped
    <3> QED BY <3>2 DEF TokensForgotten
  <2>2. ASSUME NEW p \in Requests,
               \/ CommitsConnection(p) \/ SyncSucceeds(p) \/ SyncFails(p) \/ AppEvent(p)
        PROVE  FALSE
    <3>1. Ends(p)
      BY <2>2 DEF CommitsConnection, SyncSucceeds, SyncFails, AppEvent
    <3> QED BY <3>1, EndsAlone DEF Idle
  <2>3. ASSUME UNCHANGED request PROVE FALSE
    BY <2>3
  <2> QED BY <2>1, <2>2, <2>3 DEF Next, TimePasses, Disconnects, CreatesState, StoreEvent
<1> QED BY <1>1, <1>2, <1>3, PTL DEF Spec, NoUseAfterDisconnect
------------------------------------------------------------------------------
\* The rows and the requests by name.
StateRow == [org : {"none"} \cup Orgs, used : BOOLEAN]
Sendings == [store : Stores, event : Events, n : 1 .. MaxEvents]
ReceiptKeys == [store : Stores, event : Events, bucket : 0 .. MaxBuckets]
RequestState ==
  [pc : {"idle", "exchange", "check", "commit", "sync", "accepted", "fetch"},
   org : {"none"} \cup Orgs, store : {"none"} \cup Stores, event : {"none"} \cup Events]
Typed ==
  /\ conn \in [Orgs -> Connection]
  /\ states \in [1 .. MaxStates -> StateRow]
  /\ sent \subseteq Sendings /\ receipts \subseteq ReceiptKeys
  /\ request \in [Requests -> RequestState]
  /\ bucket \in 0 .. MaxBuckets
  /\ off \subseteq Orgs /\ suspended \subseteq Orgs
  /\ received \subseteq 1 .. MaxEvents /\ refused \subseteq 1 .. MaxEvents

\* The two say the same.
LEMMA TypedIsTypeOK == Typed <=> TypeOK
BY DEF Typed, TypeOK, Connection, StateRow, Sendings, ReceiptKeys, RequestState

\* A request that ends is free again.
LEMMA EndedTyped ==
  ASSUME request \in [Requests -> RequestState], NEW q \in Requests, Ends(q)
  PROVE  request' \in [Requests -> RequestState]
<1>1. Idle \in RequestState
  BY DEF Idle, RequestState
<1> QED BY <1>1 DEF Ends

\* The authorization: the state, the code, the store and the row.
LEMMA ConnectingTyped ==
  ASSUME Typed, NEW q \in Requests,
         \/ \E i \in 1 .. MaxStates : ConsumesState(q, i)
         \/ \E s \in Stores : ExchangesCode(q, s)
         \/ ChecksStore(q) \/ CommitsConnection(q)
  PROVE  Typed'
<1>0. request \in [Requests -> RequestState] /\ states \in [1 .. MaxStates -> StateRow]
  BY DEF Typed
<1>1. ASSUME NEW i \in 1 .. MaxStates, ConsumesState(q, i) PROVE Typed'
  <2>1. states[i] \in StateRow
    BY <1>0
  <2>2. /\ [states[i] EXCEPT !.used = TRUE] \in StateRow
        /\ [Idle EXCEPT !.pc = "exchange", !.org = states[i].org] \in RequestState
    BY <2>1 DEF StateRow, Idle, RequestState
  <2>3. /\ states' = [states EXCEPT ![i] = [states[i] EXCEPT !.used = TRUE]]
        /\ request' = [request EXCEPT ![q] =
             [Idle EXCEPT !.pc = "exchange", !.org = states[i].org]]
    BY <1>1 DEF ConsumesState
  <2>4. states' \in [1 .. MaxStates -> StateRow] /\ request' \in [Requests -> RequestState]
    BY <1>0, <2>2, <2>3
  <2> QED BY <1>1, <2>4 DEF ConsumesState, Typed, history
<1>2. ASSUME NEW s \in Stores, ExchangesCode(q, s) PROVE Typed'
  <2>1. request' = [request EXCEPT ![q] = [request[q] EXCEPT !.pc = "check", !.store = s]]
    BY <1>0, <1>2 DEF ExchangesCode
  <2>2. [request[q] EXCEPT !.pc = "check", !.store = s] \in RequestState
    BY <1>0 DEF RequestState
  <2>3. request' \in [Requests -> RequestState]
    BY <1>0, <2>1, <2>2
  <2> QED BY <1>2, <2>3 DEF ExchangesCode, Typed, history
<1>3. CASE ChecksStore(q)
  <2>1. [request[q] EXCEPT !.pc = "commit"] \in RequestState
    BY <1>0 DEF RequestState
  <2>2. request' = [request EXCEPT ![q] = [request[q] EXCEPT !.pc = "commit"]] \/ Ends(q)
    BY <1>3 DEF ChecksStore
  <2>3. request' \in [Requests -> RequestState]
    BY <1>0, <2>1, <2>2, EndedTyped
  <2> QED BY <1>3, <2>3 DEF ChecksStore, Typed, history
<1>4. CASE CommitsConnection(q)
  <2> DEFINE o == request[q].org
             row == [store |-> request[q].store, status |-> "CONNECTED", token |-> TRUE]
  <2>1. row \in Connection
    BY <1>0 DEF RequestState, Connection
  <2>2. request' \in [Requests -> RequestState]
    BY <1>0, <1>4, EndedTyped DEF CommitsConnection
  <2>3. \/ conn' = [conn EXCEPT ![o] = row] /\ off' = off \ {o} /\ suspended' = suspended \ {o}
        \/ UNCHANGED <<conn, off, suspended>>
    BY <1>4 DEF CommitsConnection
  <2> HIDE DEF row, o
  <2>4. conn' \in [Orgs -> Connection] /\ off' \subseteq Orgs /\ suspended' \subseteq Orgs
    BY <2>1, <2>3 DEF Typed
  <2> QED BY <1>4, <2>2, <2>4 DEF CommitsConnection, Typed
<1> QED BY <1>1, <1>2, <1>3, <1>4

\* What the request of a connection writes in the row.
LEMMA RowsTyped ==
  ASSUME NEW c \in Connection
  PROVE  /\ Disconnected(c) \in Connection /\ Marked(c) \in Connection
         /\ [c EXCEPT !.status = "ERROR"] \in Connection
         /\ [c EXCEPT !.status = "CONNECTED"] \in Connection
BY DEF Connection, Disconnected, Marked

\* The synchronizations.
LEMMA SynchronizingTyped ==
  ASSUME Typed, NEW q \in Requests,
         (\E o \in Orgs : SyncStarts(q, o)) \/ SyncSucceeds(q) \/ SyncFails(q)
  PROVE  Typed'
<1>0. request \in [Requests -> RequestState] /\ conn \in [Orgs -> Connection]
  BY DEF Typed
<1>1. ASSUME NEW o \in Orgs, SyncStarts(q, o) PROVE Typed'
  <2>1. [Idle EXCEPT !.pc = "sync", !.org = o] \in RequestState
    BY DEF Idle, RequestState
  <2>2. request' \in [Requests -> RequestState]
    BY <1>0, <1>1, <2>1 DEF SyncStarts
  <2> QED BY <1>1, <2>2 DEF SyncStarts, Typed, history
<1>2. CASE SyncSucceeds(q)
  <2>1. request' \in [Requests -> RequestState]
    BY <1>0, <1>2, EndedTyped DEF SyncSucceeds
  <2>2. conn' = [conn EXCEPT ![request[q].org] = Marked(conn[request[q].org])]
    BY <1>2 DEF SyncSucceeds
  <2>3. conn' \in [Orgs -> Connection]
    BY <1>0, <2>2, RowsTyped
  <2> QED BY <1>2, <2>1, <2>3 DEF SyncSucceeds, Typed, history
<1>3. CASE SyncFails(q)
  <2>1. request' \in [Requests -> RequestState]
    BY <1>0, <1>3, EndedTyped DEF SyncFails
  <2>2. \/ conn' = conn
        \/ conn' = [conn EXCEPT ![request[q].org] =
                      [conn[request[q].org] EXCEPT !.status = "ERROR"]]
    BY <1>3 DEF SyncFails, AfterFailure
  <2>3. conn' \in [Orgs -> Connection]
    BY <1>0, <2>2, RowsTyped
  <2> QED BY <1>3, <2>1, <2>3 DEF SyncFails, Typed, history
<1> QED BY <1>1, <1>2, <1>3

\* The events of a store, numbered by those there were, and their deliveries.
LEMMA DeliveringTyped ==
  ASSUME TiendanubeAssumption, Typed,
         \/ \E s \in Stores, e \in Events : StoreEvent(s, e)
         \/ \E q \in Requests, d \in sent : WebhookArrives(q, d)
  PROVE  Typed'
<1>0. request \in [Requests -> RequestState] /\ sent \subseteq Sendings
      /\ receipts \subseteq ReceiptKeys /\ bucket \in 0 .. MaxBuckets
  BY DEF Typed
<1>1. ASSUME NEW s \in Stores, NEW e \in Events, StoreEvent(s, e) PROVE Typed'
  <2> DEFINE told == {d.n : d \in sent}
             n == Cardinality(told) + 1
  <2>1. told \subseteq 1 .. MaxEvents
    BY <1>0 DEF Sendings
  <2>2. Cardinality(told) \in Nat
    <3>1. IsFiniteSet(1 .. MaxEvents)
      BY FS_Interval DEF TiendanubeAssumption
    <3> HIDE DEF told
    <3> QED BY <2>1, <3>1, FS_Subset, FS_CardinalityType
  <2>3. n <= MaxEvents /\ sent' = sent \cup {[store |-> s, event |-> e, n |-> n]}
    BY <1>1 DEF StoreEvent
  <2> HIDE DEF told
  <2>4. n \in 1 .. MaxEvents
    BY <2>2, <2>3 DEF TiendanubeAssumption
  <2> HIDE DEF n
  <2>5. sent' \subseteq Sendings
    BY <1>0, <2>3, <2>4 DEF Sendings
  <2> QED BY <1>1, <2>5 DEF StoreEvent, Typed, history
<1>2. ASSUME NEW q \in Requests, NEW d \in sent, WebhookArrives(q, d) PROVE Typed'
  <2>1. d.store \in Stores /\ d.event \in Events /\ d.n \in 1 .. MaxEvents
    BY <1>0 DEF Sendings
  <2>2. DedupeKey(d) \in ReceiptKeys
    BY <1>0, <2>1 DEF DedupeKey, ReceiptKeys
  <2>3. CASE DedupeKey(d) \in receipts
    <3>1. refused' = refused \cup {d.n} /\ UNCHANGED <<receipts, request, received>>
      BY <1>2, <2>3 DEF WebhookArrives
    <3> QED BY <1>2, <2>1, <3>1 DEF WebhookArrives, Typed
  <2>4. CASE DedupeKey(d) \notin receipts
    <3>1. PICK o \in Owners(d.store) : request' = [request EXCEPT ![q] =
            [Idle EXCEPT !.pc = "accepted", !.org = o, !.event = d.event]]
      BY <1>2, <2>4 DEF WebhookArrives
    <3>2. [Idle EXCEPT !.pc = "accepted", !.org = o, !.event = d.event] \in RequestState
      BY <2>1 DEF Idle, RequestState, Owners
    <3>3. request' \in [Requests -> RequestState]
      BY <1>0, <3>1, <3>2
    <3>4. receipts' = receipts \cup {DedupeKey(d)} /\ received' = received \cup {d.n}
          /\ UNCHANGED refused
      BY <1>2, <2>4 DEF WebhookArrives
    <3> QED BY <1>2, <2>1, <2>2, <3>3, <3>4 DEF WebhookArrives, Typed
  <2> QED BY <2>3, <2>4
<1> QED BY <1>1, <1>2

\* What is done with a delivery: the events of the application change the row.
LEMMA HandlingTyped ==
  ASSUME Typed, TokensForgotten, NEW q \in Requests, AppEvent(q) \/ ResourceEvent(q)
  PROVE  Typed'
<1>0. request \in [Requests -> RequestState] /\ conn \in [Orgs -> Connection]
  BY DEF Typed
<1>1. CASE AppEvent(q)
  <2> DEFINE o == request[q].org
  <2>1. o \in Orgs
    BY <1>1 DEF AppEvent, TokensForgotten
  <2>2. request' \in [Requests -> RequestState]
    BY <1>0, <1>1, EndedTyped DEF AppEvent
  <2>3. request[q].event \in AppEvents
    BY <1>1 DEF AppEvent
  <2>4. \/ conn' = [conn EXCEPT ![o] = Disconnected(conn[o])]
        \/ conn' = [conn EXCEPT ![o] = [conn[o] EXCEPT !.status = "ERROR"]]
        \/ conn' = [conn EXCEPT ![o] = [conn[o] EXCEPT !.status = "CONNECTED"]]
        \/ conn' = [conn EXCEPT ![o] = conn[o]]
    <3>1. CASE request[q].event = "app/uninstalled"
      BY <1>1, <3>1 DEF AppEvent
    <3>2. CASE request[q].event = "app/suspended"
      BY <1>1, <3>2 DEF AppEvent
    <3>3. CASE request[q].event = "app/resumed"
      BY <1>1, <3>3 DEF AppEvent
    <3> QED BY <2>3, <3>1, <3>2, <3>3 DEF AppEvents
  <2>5. conn' \in [Orgs -> Connection]
    BY <1>0, <2>4, RowsTyped
  <2>6. off' \subseteq off \cup {o} /\ suspended' \subseteq suspended \cup {o}
    <3>1. off' \in {off \cup {o}, off}
      BY <1>1 DEF AppEvent
    <3>2. suspended' \in {suspended \cup {o}, suspended \ {o}, suspended}
      <4>1. CASE request[q].event = "app/uninstalled"
        BY <1>1, <4>1 DEF AppEvent
      <4>2. CASE request[q].event = "app/suspended"
        BY <1>1, <4>2 DEF AppEvent
      <4>3. CASE request[q].event = "app/resumed"
        BY <1>1, <4>3 DEF AppEvent
      <4> QED BY <2>3, <4>1, <4>2, <4>3 DEF AppEvents
    <3> QED BY <3>1, <3>2
  <2>7. UNCHANGED <<states, sent, receipts, bucket, received, refused>>
    BY <1>1 DEF AppEvent
  <2> HIDE DEF o
  <2> QED BY <2>1, <2>2, <2>5, <2>6, <2>7 DEF Typed
<1>2. CASE ResourceEvent(q)
  <2>1. [request[q] EXCEPT !.pc = "sync", !.event = "none"] \in RequestState
    BY <1>0 DEF RequestState
  <2>2. Ends(q) \/ request' = [request EXCEPT ![q] =
                      [request[q] EXCEPT !.pc = "sync", !.event = "none"]]
    BY <1>0, <1>2 DEF ResourceEvent
  <2>3. request' \in [Requests -> RequestState]
    BY <1>0, <2>1, <2>2, EndedTyped
  <2> QED BY <1>2, <2>3 DEF ResourceEvent, Typed, history
<1> QED BY <1>1, <1>2

\* The tables and the requests keep their types, for every value of the constants.
THEOREM LinkTypes == ASSUME TiendanubeAssumption PROVE Spec => []TypeOK
<1>1. Init => Typed /\ TokensForgotten
  <2> SUFFICES ASSUME Init PROVE Typed /\ TokensForgotten
    OBVIOUS
  <2>1. NoConnection \in Connection /\ Idle \in RequestState
        /\ [org |-> "none", used |-> FALSE] \in StateRow
    BY DEF NoConnection, Connection, Idle, RequestState, StateRow
  <2>2. Typed
    BY <2>1 DEF Init, Typed, TiendanubeAssumption
  <2>3. TokensForgotten
    BY DEF Init, TokensForgotten, Owned, Written, Connection, NoConnection, Idle
  <2> QED BY <2>2, <2>3
<1>2. Typed /\ TokensForgotten /\ [Next]_vars => (Typed /\ TokensForgotten)'
  <2> SUFFICES ASSUME Typed, TokensForgotten, [Next]_vars PROVE Typed'
    BY StepForgets
  <2>0. request \in [Requests -> RequestState]
    BY DEF Typed
  <2>1. CASE UNCHANGED vars
    BY <2>1 DEF vars, Typed
  <2>2. CASE TimePasses
    <3>1. bucket' = bucket + 1 /\ bucket < MaxBuckets /\ bucket \in 0 .. MaxBuckets
      BY <2>2 DEF TimePasses, Typed
    <3>2. bucket' \in 0 .. MaxBuckets
      BY <3>1 DEF TiendanubeAssumption
    <3> QED BY <2>2, <3>2 DEF TimePasses, Typed, history
  <2>3. ASSUME NEW o \in Orgs, Disconnects(o) PROVE Typed'
    <3>1. conn' = [conn EXCEPT ![o] = Disconnected(conn[o])] /\ off' = off \cup {o}
      BY <2>3 DEF Disconnects
    <3>2. conn' \in [Orgs -> Connection] /\ off' \subseteq Orgs
      BY <3>1, RowsTyped DEF Typed
    <3> QED BY <2>3, <3>2 DEF Disconnects, Typed
  <2>4. ASSUME NEW o \in Orgs, NEW i \in 1 .. MaxStates, CreatesState(o, i) PROVE Typed'
    <3>1. states' = [states EXCEPT ![i] = [states[i] EXCEPT !.org = o]]
      BY <2>4 DEF CreatesState
    <3>2. states[i] \in StateRow
      BY DEF Typed
    <3>3. [states[i] EXCEPT !.org = o] \in StateRow
      BY <3>2 DEF StateRow
    <3>4. states' \in [1 .. MaxStates -> StateRow]
      BY <3>1, <3>3 DEF Typed
    <3> QED BY <2>4, <3>4 DEF CreatesState, Typed, history
  <2>5. ASSUME NEW q \in Requests, RequestStops(q) PROVE Typed'
    <3>1. request' \in [Requests -> RequestState]
      BY <2>0, <2>5, EndedTyped DEF RequestStops
    <3> QED BY <2>5, <3>1 DEF RequestStops, Typed, history
  <2> QED BY <2>1, <2>2, <2>3, <2>4, <2>5, ConnectingTyped, SynchronizingTyped,
             DeliveringTyped, HandlingTyped DEF Next
<1>3. Typed => TypeOK
  BY TypedIsTypeOK
<1> QED BY <1>1, <1>2, <1>3, PTL DEF Spec
==============================================================================
