------------------------------- MODULE WooMirror -------------------------------
(***************************************************************************)
(* The local copy of a WooCommerce store (integrations/woocommerce): full  *)
(* synchronizations list the store page by page, upsert what they listed   *)
(* and delete the rest; webhooks fetch one resource and upsert it.  They   *)
(* run at once, over a connection that may be replaced or dropped          *)
(* meanwhile.  Products stand for customers and orders too, which are      *)
(* handled alike; the claim of a run by its key is that of SheetsSync, and *)
(* here every synchronization has a key of its own.                        *)
(***************************************************************************)
EXTENDS Naturals, FiniteSets, TLAPS, FiniteSetTheorems, WellFoundedInduction

CONSTANTS
  Stores,
  MaxProduct,   \* products of a store, by identifier
  MaxChanges,   \* changes made in the stores over the whole behaviour
  MaxLinks,     \* webhook keys generated over the whole behaviour
  Requests      \* requests in progress at once

Products == 1 .. MaxProduct
Links == 1 .. MaxLinks
\* What the constants must be, for the instances of this module.
WooAssumption ==
  MaxProduct \in Nat /\ MaxChanges \in Nat /\ MaxLinks \in Nat

VARIABLES
  conn,        \* the connection row
  shop,        \* the stores: the version of each product, 0 when absent
  hooks,       \* the store each webhook key was registered in
  copy,        \* the products table: store and version of each row
  sent,        \* deliveries the stores make, again and again
  receipts,    \* the table of receipts
  request,     \* the local state of the requests in progress
  changes,     \* changes made so far, which number the versions
  handled,     \* history: times each delivery was handed over to be processed
  alone,       \* history: synchronizations nothing has disturbed
  crossed      \* history: a store was replaced under a request in progress

vars == <<conn, shop, hooks, copy, sent, receipts, request, changes, handled,
          alone, crossed>>

Absent == [store |-> "none", version |-> 0]
NoLink == [store |-> "none", link |-> 0, status |-> "NONE", keys |-> FALSE]
Idle == [pc |-> "idle", store |-> "none", link |-> 0, replaces |-> FALSE,
         product |-> 0, version |-> 0, page |-> 1, listed |-> {}, todo |-> {}]
Delivery == [link : Links, product : Products, version : 1 .. MaxChanges,
             deleted : BOOLEAN]
Listed == [product : Products, version : 1 .. MaxChanges]

\* The tables and the requests keep their types.
TypeOK ==
  /\ conn \in [store : {"none"} \cup Stores, link : 0 .. MaxLinks,
               status : {"NONE", "CONNECTED", "ERROR", "DISCONNECTED"}, keys : BOOLEAN]
  /\ shop \in [Stores -> [Products -> 0 .. MaxChanges]]
  /\ hooks \in [Links -> {"none"} \cup Stores]
  /\ copy \in [Products -> [store : {"none"} \cup Stores, version : 0 .. MaxChanges]]
  /\ sent \subseteq Delivery /\ receipts \subseteq Delivery
  /\ \A q \in Requests :
       /\ request[q].pc \in {"idle", "connect", "list", "upsert", "prune", "finish",
                             "accepted", "fetch", "write"}
       /\ request[q].listed \subseteq Listed /\ request[q].todo \subseteq Listed
  /\ changes \in 0 .. MaxChanges
  /\ handled \in [Delivery -> Nat]
  /\ alone \subseteq Requests /\ crossed \in BOOLEAN

Init ==
  /\ conn = NoLink
  /\ shop \in [Stores -> [Products -> {0}]]
  /\ hooks = [l \in Links |-> "none"]
  /\ copy = [p \in Products |-> Absent]
  /\ sent = {} /\ receipts = {}
  /\ request = [q \in Requests |-> Idle]
  /\ changes = 0
  /\ handled = [d \in Delivery |-> 0]
  /\ alone = {} /\ crossed = FALSE

Ends(q) == request' = [request EXCEPT ![q] = Idle]
Goes(q, pc) == request' = [request EXCEPT ![q].pc = pc]
Others(q) == {p \in Requests \ {q} : request[p].pc # "idle"}
Undisturbed(q) == alone' = alone \cap {q}
Used == {l \in Links : hooks[l] # "none"}

------------------------------------------------------------------------------
\* A product is created, changed or removed in a store, and the store tells
\* every webhook registered there.
ShopChanges(s, p) ==
  /\ changes < MaxChanges
  /\ changes' = changes + 1
  /\ \E gone \in BOOLEAN :
       /\ gone => shop[s][p] # 0
       /\ shop' = [shop EXCEPT ![s][p] = IF gone THEN 0 ELSE changes + 1]
       /\ sent' = sent \cup {[link |-> l, product |-> p, version |-> changes + 1,
                              deleted |-> gone] : l \in {k \in Links : hooks[k] = s}}
  /\ alone' = {}
  /\ UNCHANGED <<conn, hooks, copy, receipts, request, handled, crossed>>

\* The card runs one operation at a time.
Asks(q) == request[q].pc = "idle"

\* The webhooks of the key are created or reactivated in the store.
Registered(l, s) == [hooks EXCEPT ![l] = s]

\* connectWooCommerce validates the store, reads the row there is and registers
\* the webhooks, with the key it had when the store is the same.
Connects(q, s) ==
  /\ Asks(q)
  /\ \E l \in Links :
       /\ IF conn.store = s THEN l = conn.link
          ELSE l \notin Used /\ \A k \in Links \ Used : l <= k
       /\ hooks' = Registered(l, s)
       /\ request' = [request EXCEPT ![q] =
            [Idle EXCEPT !.pc = "connect", !.store = s, !.link = l,
                         !.replaces = conn.store \notin {"none", s}]]
  /\ Undisturbed(q)
  /\ UNCHANGED <<conn, shop, copy, sent, receipts, changes, handled, crossed>>

\* The transaction that replaces the connection, and the rows of another store.
\* Mutation: the rows are kept.
Kept(q) == copy
Cleared(q) == IF request[q].replaces THEN [p \in Products |-> Absent] ELSE copy
CommitsConnection(q) ==
  /\ request[q].pc = "connect"
  /\ copy' = Cleared(q)
  /\ crossed' = (crossed \/ (conn.store # request[q].store /\ Others(q) # {}))
  /\ conn' = [store |-> request[q].store, link |-> request[q].link,
              status |-> "CONNECTED", keys |-> TRUE]
  /\ Ends(q) /\ alone' = {}
  /\ UNCHANGED <<shop, hooks, sent, receipts, changes, handled>>

\* disconnectWooCommerce forgets the keys and keeps the copy.
Disconnects ==
  /\ conn.status \in {"CONNECTED", "ERROR"}
  /\ conn' = [conn EXCEPT !.status = "DISCONNECTED", !.keys = FALSE]
  /\ alone' = {}
  /\ UNCHANGED <<shop, hooks, copy, sent, receipts, request, changes, handled, crossed>>

Credentials == conn.status = "CONNECTED" /\ conn.keys

------------------------------------------------------------------------------
\* syncWooCommerce reads the credentials and claims its run.
SyncStarts(q) ==
  /\ Asks(q) /\ Credentials
  /\ request' = [request EXCEPT ![q] = [Idle EXCEPT !.pc = "list", !.store = conn.store]]
  /\ alone' = (alone \cap {q}) \cup (IF Others(q) = {} THEN {q} ELSE {})
  /\ UNCHANGED <<conn, shop, hooks, copy, sent, receipts, changes, handled, crossed>>

\* A page holds one product: the n-th of those there are when it is asked for.
OnPage(s, n) ==
  {p \in Products : shop[s][p] # 0
                    /\ Cardinality({o \in 1 .. p : shop[s][o] # 0}) = n}
SyncLists(q) ==
  LET page == OnPage(request[q].store, request[q].page) IN
  /\ request[q].pc = "list"
  /\ request' = [request EXCEPT ![q] =
       IF page = {} THEN [@ EXCEPT !.pc = "upsert", !.todo = request[q].listed]
       ELSE [@ EXCEPT !.page = request[q].page + 1, !.listed = request[q].listed \cup
               {[product |-> p, version |-> shop[request[q].store][p]] : p \in page}]]
  /\ Undisturbed(q)
  /\ UNCHANGED <<conn, shop, hooks, copy, sent, receipts, changes, handled, crossed>>

SyncUpserts(q) ==
  /\ request[q].pc = "upsert"
  /\ IF request[q].todo = {} THEN Goes(q, "prune") /\ UNCHANGED copy
     ELSE \E i \in request[q].todo :
            /\ \A j \in request[q].todo : i.product <= j.product
            /\ copy' = [copy EXCEPT ![i.product] =
                 [store |-> request[q].store, version |-> i.version]]
            /\ request' = [request EXCEPT ![q].todo = @ \ {i}]
  /\ Undisturbed(q)
  /\ UNCHANGED <<conn, shop, hooks, sent, receipts, changes, handled, crossed>>

\* What was not listed is deleted: everything, when nothing was listed.
\* Mutation: an empty list deletes nothing.
PrunesSome(listed, p) == listed # {} /\ p \notin {i.product : i \in listed}
Pruned(listed, p) == p \notin {i.product : i \in listed}
SyncPrunes(q) ==
  /\ request[q].pc = "prune"
  /\ copy' = [p \in Products |-> IF Pruned(request[q].listed, p) THEN Absent ELSE copy[p]]
  /\ Goes(q, "finish") /\ Undisturbed(q)
  /\ UNCHANGED <<conn, shop, hooks, sent, receipts, changes, handled, crossed>>

\* The run succeeds and the connection is marked, whatever it is by now.
\* Mutation: with the status of a run.
MarkedAsRun == [conn EXCEPT !.status = "SUCCEEDED"]
Marked == [conn EXCEPT !.status = "CONNECTED"]
SyncFinishes(q) ==
  /\ request[q].pc = "finish"
  /\ conn' = Marked
  /\ Ends(q) /\ Undisturbed(q)
  /\ UNCHANGED <<shop, hooks, copy, sent, receipts, changes, handled, crossed>>

\* A store does not answer, or refuses; refused keys mark the connection.
AfterFailure == {conn, [conn EXCEPT !.status = "ERROR"]}

\* A call or a write fails.
SyncFails(q) ==
  /\ request[q].pc \in {"list", "upsert", "prune"}
  /\ conn' \in AfterFailure
  /\ Ends(q) /\ alone' = {}
  /\ UNCHANGED <<shop, hooks, copy, sent, receipts, changes, handled, crossed>>

------------------------------------------------------------------------------
\* acceptWooCommerceWebhook: the key finds the connection and the receipt is
\* inserted under a unique index.  Mutation: the index is gone.
AlwaysNew(d) == TRUE
New(d) == d \notin receipts
WebhookArrives(q) ==
  /\ request[q].pc = "idle"
  /\ \E d \in sent :
       /\ d.link = conn.link /\ New(d)
       /\ receipts' = receipts \cup {d}
       /\ IF conn.status = "CONNECTED"
          THEN /\ request' = [request EXCEPT ![q] = [Idle EXCEPT !.pc = "accepted",
                    !.product = d.product, !.version = IF d.deleted THEN 0 ELSE d.version]]
               /\ handled' = [handled EXCEPT ![d] = @ + 1]
          ELSE UNCHANGED <<request, handled>>
  /\ Undisturbed(q)
  /\ UNCHANGED <<conn, shop, hooks, copy, sent, changes, crossed>>

\* processWooCommerceWebhook: a deletion is applied, anything else is fetched
\* from the store connected now.
WebhookReads(q) ==
  /\ request[q].pc = "accepted"
  /\ IF ~Credentials THEN Ends(q) /\ UNCHANGED copy
     ELSE IF request[q].version = 0
     THEN copy' = [copy EXCEPT ![request[q].product] = Absent] /\ Ends(q)
     ELSE /\ request' = [request EXCEPT ![q].pc = "fetch", ![q].store = conn.store]
          /\ UNCHANGED copy
  /\ Undisturbed(q)
  /\ UNCHANGED <<conn, shop, hooks, sent, receipts, changes, handled, crossed>>

WebhookFetches(q) ==
  LET v == shop[request[q].store][request[q].product] IN
  /\ request[q].pc = "fetch"
  /\ IF v = 0 THEN Ends(q)
     ELSE request' = [request EXCEPT ![q].pc = "write", ![q].version = v]
  /\ Undisturbed(q)
  /\ UNCHANGED <<conn, shop, hooks, copy, sent, receipts, changes, handled, crossed>>

WebhookWrites(q) ==
  /\ request[q].pc = "write"
  /\ copy' = [copy EXCEPT ![request[q].product] =
       [store |-> request[q].store, version |-> request[q].version]]
  /\ Ends(q) /\ Undisturbed(q)
  /\ UNCHANGED <<conn, shop, hooks, sent, receipts, changes, handled, crossed>>

RequestStops(q) ==
  /\ request[q].pc # "idle"
  /\ Ends(q) /\ alone' = {}
  /\ UNCHANGED <<conn, shop, hooks, copy, sent, receipts, changes, handled, crossed>>

Next ==
  \/ \E s \in Stores, p \in Products : ShopChanges(s, p)
  \/ Disconnects
  \/ \E q \in Requests :
       \/ \E s \in Stores : Connects(q, s)
       \/ CommitsConnection(q)
       \/ SyncStarts(q) \/ SyncLists(q) \/ SyncUpserts(q) \/ SyncPrunes(q)
       \/ SyncFinishes(q) \/ SyncFails(q)
       \/ WebhookArrives(q) \/ WebhookReads(q) \/ WebhookFetches(q) \/ WebhookWrites(q)
       \/ RequestStops(q)

Spec == Init /\ [][Next]_vars

------------------------------------------------------------------------------
\* However often the store repeats a delivery, it is processed once at most
\* (the receipt of acceptWooCommerceWebhook).
ProcessedOnce == \A d \in sent : handled[d] <= 1

\* The copy holds rows of the connected store alone, unless a store was
\* replaced under a request that was still in progress (connectWooCommerce).
RowsOfConnectedStore ==
  ~crossed => \A p \in Products : copy[p].store \in {"none", conn.store}

\* Whatever webhooks lost or reordered before, a synchronization that nothing
\* disturbs leaves exactly what is in the store (syncWooCommerce).
SyncRepairsStep ==
  \A q \in alone : request[q].pc = "finish" /\ request'[q].pc = "idle" /\ q \in alone'
    => \A p \in Products :
         copy[p] = IF shop[request[q].store][p] = 0 THEN Absent
                   ELSE [store |-> request[q].store,
                         version |-> shop[request[q].store][p]]
SyncRepairs == [][SyncRepairsStep]_vars

------------------------------------------------------------------------------
\* Why a delivery is processed once: whatever was handed over has its receipt.
ReceiptsKept ==
  /\ changes \in 0 .. MaxChanges
  /\ sent \subseteq Delivery
  /\ handled \in [Delivery -> Nat]
  /\ \A d \in Delivery : handled[d] <= 1 /\ (handled[d] # 0 => d \in receipts)

\* The deliveries a change of a store adds are deliveries.
LEMMA ChangesSendDeliveries ==
  ASSUME WooAssumption, ReceiptsKept, NEW s \in Stores, NEW p \in Products, ShopChanges(s, p)
  PROVE  changes' \in 0 .. MaxChanges /\ sent' \subseteq Delivery
<1>1. changes' = changes + 1 /\ changes' \in 1 .. MaxChanges
  BY DEF WooAssumption, ReceiptsKept, ShopChanges
<1>2. PICK gone \in BOOLEAN :
        sent' = sent \cup {[link |-> l, product |-> p, version |-> changes + 1,
                            deleted |-> gone] : l \in {k \in Links : hooks[k] = s}}
  BY DEF ShopChanges
<1>3. \A l \in Links : [link |-> l, product |-> p, version |-> changes + 1, deleted |-> gone]
                      \in Delivery
  BY <1>1 DEF Delivery
<1> QED BY <1>1, <1>2, <1>3 DEF ReceiptsKept

\* The only step that hands a delivery over looks for its receipt, and leaves one.
LEMMA ArrivalsKeepReceipts ==
  ASSUME ReceiptsKept, NEW q \in Requests, WebhookArrives(q)
  PROVE  ReceiptsKept'
<1>1. PICK d \in sent :
        /\ New(d) /\ receipts' = receipts \cup {d}
        /\ handled' = [handled EXCEPT ![d] = @ + 1] \/ handled' = handled
  BY DEF WebhookArrives
<1>2. d \in Delivery /\ handled[d] = 0
  BY <1>1 DEF ReceiptsKept, New
<1>3. changes' = changes /\ sent' = sent
  BY DEF WebhookArrives
<1> QED BY <1>1, <1>2, <1>3 DEF ReceiptsKept

\* Every step leaves a receipt of what it hands over.
LEMMA ReceiptsStep ==
  ASSUME WooAssumption, ReceiptsKept, [Next]_vars
  PROVE  ReceiptsKept'
<1> DEFINE Same == UNCHANGED <<changes, sent, receipts, handled>>
<1>0. Same => ReceiptsKept'
  BY DEF ReceiptsKept
<1>1. ASSUME NEW s \in Stores, NEW p \in Products, ShopChanges(s, p) PROVE ReceiptsKept'
  BY <1>1, ChangesSendDeliveries DEF ReceiptsKept, ShopChanges
<1>2. ASSUME NEW q \in Requests, WebhookArrives(q) PROVE ReceiptsKept'
  BY <1>2, ArrivalsKeepReceipts
<1>3. ASSUME NEW q \in Requests, \/ \E s \in Stores : Connects(q, s)
                                 \/ CommitsConnection(q)
      PROVE  Same
  BY <1>3 DEF Connects, CommitsConnection
<1>4. ASSUME NEW q \in Requests, \/ SyncStarts(q) \/ SyncLists(q) \/ SyncUpserts(q)
                                 \/ SyncPrunes(q) \/ SyncFinishes(q) \/ SyncFails(q)
      PROVE  Same
  BY <1>4 DEF SyncStarts, SyncLists, SyncUpserts, SyncPrunes, SyncFinishes, SyncFails
<1>5. ASSUME NEW q \in Requests, \/ WebhookReads(q) \/ WebhookFetches(q)
                                 \/ WebhookWrites(q) \/ RequestStops(q)
      PROVE  Same
  BY <1>5 DEF WebhookReads, WebhookFetches, WebhookWrites, RequestStops
<1>6. CASE Disconnects
  BY <1>6, <1>0 DEF Disconnects
<1>7. CASE UNCHANGED vars
  BY <1>7, <1>0 DEF vars
<1> HIDE DEF Same
<1> QED BY <1>0, <1>1, <1>2, <1>3, <1>4, <1>5, <1>6, <1>7 DEF Next

\* However often the stores repeat a delivery, for any number of stores, products, keys
\* and requests, it is processed once at most (acceptWooCommerceWebhook).
THEOREM DeliveriesProcessedOnce ==
  ASSUME WooAssumption
  PROVE  Spec => []ProcessedOnce
<1>1. Init => ReceiptsKept
  BY DEF Init, ReceiptsKept, WooAssumption
<1>2. ReceiptsKept /\ [Next]_vars => ReceiptsKept'
  BY ReceiptsStep
<1>3. ReceiptsKept => ProcessedOnce
  BY DEF ReceiptsKept, ProcessedOnce
<1> QED BY <1>1, <1>2, <1>3, PTL DEF Spec

------------------------------------------------------------------------------
\* Why the copy is of the connected store: while no store was replaced under a request,
\* whoever reads from a store or is about to write reads the connected one, and whoever
\* connects another store knows that there are rows to clear.
Shaped ==
  /\ DOMAIN conn = DOMAIN NoLink /\ DOMAIN copy = Products /\ DOMAIN request = Requests
  /\ \A q \in Requests : DOMAIN request[q] = DOMAIN Idle
Copying == {"list", "upsert", "prune", "finish", "fetch", "write"}
OneStore(q) ==
  /\ request[q].pc \in Copying => request[q].store = conn.store
  /\ request[q].pc = "connect" =>
       (request[q].replaces <=> conn.store \notin {"none", request[q].store})
CopyInv ==
  /\ Shaped
  /\ ~crossed => RowsOfConnectedStore /\ \A q \in Requests : OneStore(q)

\* One request moves.
Becomes(q) ==
  /\ DOMAIN request' = Requests /\ DOMAIN request'[q] = DOMAIN Idle
  /\ \A p \in Requests \ {q} : request'[p] = request[p]

\* A step of one request that does not change which store is connected, and writes rows of
\* that store or takes rows away.
LEMMA CopyKept ==
  ASSUME CopyInv, Shaped', crossed' = crossed, conn'.store = conn.store, NEW q \in Requests,
         \A p \in Requests \ {q} : request'[p] = request[p],
         ~crossed => OneStore(q)',
         ~crossed => \A p \in Products :
           copy'[p].store \in {"none", copy[p].store, conn.store}
  PROVE  CopyInv'
<1> SUFFICES ASSUME ~crossed
             PROVE  RowsOfConnectedStore' /\ \A p \in Requests : OneStore(p)'
  BY DEF CopyInv
<1>1. RowsOfConnectedStore'
  BY DEF CopyInv, RowsOfConnectedStore
<1>2. ASSUME NEW p \in Requests PROVE OneStore(p)'
  BY DEF CopyInv, OneStore
<1> QED BY <1>1, <1>2

\* A request ends.
LEMMA EndsKeepCopy ==
  ASSUME CopyInv, NEW q \in Requests, Ends(q), crossed' = crossed,
         DOMAIN conn' = DOMAIN conn, conn'.store = conn.store,
         DOMAIN copy' = Products,
         ~crossed => \A p \in Products :
           copy'[p].store \in {"none", copy[p].store, conn.store}
  PROVE  CopyInv'
<1>1. /\ request'[q] = Idle /\ \A p \in Requests \ {q} : request'[p] = request[p]
      /\ DOMAIN request' = Requests
  BY DEF CopyInv, Shaped, Ends
<1>2. Shaped' /\ OneStore(q)'
  BY <1>1 DEF CopyInv, Shaped, OneStore, Idle, Copying
<1> QED BY <1>1, <1>2, CopyKept

\* A request moves on, from a step that copies or to one that reads the connected store.
LEMMA MovesKeepCopy ==
  ASSUME CopyInv, NEW q \in Requests, Becomes(q),
         request'[q].pc # "connect", crossed' = crossed,
         DOMAIN conn' = DOMAIN conn, conn'.store = conn.store,
         \/ request'[q].store = conn.store \/ request'[q].pc \notin Copying
         \/ request[q].pc \in Copying /\ request'[q].store = request[q].store,
         DOMAIN copy' = Products,
         ~crossed => \A p \in Products :
           copy'[p].store \in {"none", copy[p].store, conn.store}
  PROVE  CopyInv'
<1>1. Shaped'
  BY DEF CopyInv, Shaped, Becomes
<1>2. ~crossed => OneStore(q)'
  BY DEF CopyInv, OneStore
<1> QED BY <1>1, <1>2, CopyKept DEF Becomes

\* Another store takes the place of the one there was: nobody else is in the middle of
\* anything, or the replacement counts as crossed.
LEMMA CommitKeepsCopy ==
  ASSUME CopyInv, NEW q \in Requests, CommitsConnection(q)
  PROVE  CopyInv'
<1> DEFINE s == request[q].store
<1>1. /\ request'[q] = Idle /\ \A p \in Requests \ {q} : request'[p] = request[p]
      /\ DOMAIN request' = Requests
      /\ request[q].pc = "connect" /\ copy' = Cleared(q) /\ conn'.store = s
      /\ DOMAIN conn' = DOMAIN NoLink
      /\ crossed' = (crossed \/ (conn.store # s /\ Others(q) # {}))
  BY DEF CommitsConnection, Ends, CopyInv, Shaped, NoLink
<1>2. Shaped'
  BY <1>1 DEF CopyInv, Shaped, Cleared
<1> SUFFICES ASSUME ~crossed'
             PROVE  RowsOfConnectedStore' /\ \A p \in Requests : OneStore(p)'
  BY <1>2 DEF CopyInv
<1>3. ~crossed /\ (conn.store = s \/ Others(q) = {})
  BY <1>1
<1>4. RowsOfConnectedStore'
  <2>1. request[q].replaces <=> conn.store \notin {"none", s}
    BY <1>1, <1>3 DEF CopyInv, OneStore
  <2>2. CASE request[q].replaces
    BY <1>1, <2>2 DEF Cleared, RowsOfConnectedStore, Absent
  <2>3. CASE ~request[q].replaces
    BY <1>1, <1>3, <2>1, <2>3 DEF Cleared, RowsOfConnectedStore, CopyInv
  <2> QED BY <2>2, <2>3
<1>5. ASSUME NEW p \in Requests PROVE OneStore(p)'
  <2>1. CASE p = q
    BY <1>1, <2>1 DEF OneStore, Idle, Copying
  <2>2. CASE p # q /\ conn.store = s
    BY <1>1, <1>3, <2>2 DEF CopyInv, OneStore
  <2>3. CASE p # q /\ Others(q) = {}
    BY <1>1, <2>3 DEF Others, OneStore, Copying
  <2> QED BY <1>3, <2>1, <2>2, <2>3
<1> QED BY <1>4, <1>5

\* A synchronization that lists, upserts and deletes.
LEMMA SyncKeepsCopy ==
  ASSUME CopyInv, NEW q \in Requests,
         \/ SyncStarts(q) \/ SyncLists(q) \/ SyncUpserts(q) \/ SyncPrunes(q)
         \/ SyncFinishes(q) \/ SyncFails(q)
  PROVE  CopyInv'
<1>0. /\ DOMAIN request[q] = DOMAIN Idle /\ crossed' = crossed
      /\ ~crossed => (request[q].pc \in Copying => request[q].store = conn.store)
  BY DEF CopyInv, Shaped, OneStore, SyncStarts, SyncLists, SyncUpserts, SyncPrunes,
     SyncFinishes, SyncFails
<1>1. CASE SyncStarts(q)
  <2>1. UNCHANGED <<conn, copy>>
    BY <1>1 DEF SyncStarts
  <2>2. Becomes(q) /\ request'[q].pc = "list" /\ request'[q].store = conn.store
    BY <1>1 DEF SyncStarts, CopyInv, Shaped, Becomes, Idle
  <2> QED BY <1>0, <2>1, <2>2, MovesKeepCopy DEF CopyInv, Shaped
<1>2. CASE SyncLists(q)
  <2>1. UNCHANGED <<conn, copy>> /\ request[q].pc = "list"
    BY <1>2 DEF SyncLists
  <2>2. CASE OnPage(request[q].store, request[q].page) = {}
    <3>1. request' = [request EXCEPT ![q] =
            [request[q] EXCEPT !.pc = "upsert", !.todo = request[q].listed]]
      BY <1>2, <2>2 DEF SyncLists
    <3>2. Becomes(q) /\ request'[q].pc = "upsert" /\ request'[q].store = request[q].store
      BY <1>0, <3>1 DEF CopyInv, Shaped, Becomes, Idle
    <3> QED BY <1>0, <2>1, <3>2, MovesKeepCopy DEF CopyInv, Shaped, Copying
  <2>3. CASE OnPage(request[q].store, request[q].page) # {}
    <3> DEFINE ls == request[q].listed \cup
          {[product |-> p, version |-> shop[request[q].store][p]] :
             p \in OnPage(request[q].store, request[q].page)}
    <3>1. request' = [request EXCEPT ![q] =
            [request[q] EXCEPT !.page = request[q].page + 1, !.listed = ls]]
      BY <1>2, <2>3 DEF SyncLists
    <3> HIDE DEF ls
    <3>2. Becomes(q) /\ request'[q].pc = "list" /\ request'[q].store = request[q].store
      BY <1>0, <2>1, <3>1 DEF CopyInv, Shaped, Becomes, Idle
    <3> QED BY <1>0, <2>1, <3>2, MovesKeepCopy DEF CopyInv, Shaped, Copying
  <2> QED BY <2>2, <2>3
<1>3. CASE SyncUpserts(q)
  <2>1. /\ UNCHANGED conn /\ request[q].pc = "upsert"
        /\ \/ Goes(q, "prune") /\ UNCHANGED copy
           \/ \E i, v : /\ copy' = [copy EXCEPT ![i] =
                             [store |-> request[q].store, version |-> v]]
                        /\ \E left : request' = [request EXCEPT ![q].todo = left]
    BY <1>3 DEF SyncUpserts
  <2>2. /\ Becomes(q) /\ request'[q].pc \in {"prune", "upsert"}
        /\ request'[q].store = request[q].store
    BY <1>0, <2>1 DEF CopyInv, Shaped, Becomes, Idle, Goes
  <2>3. /\ DOMAIN copy' = Products
        /\ ~crossed => \A p \in Products : copy'[p].store \in {copy[p].store, conn.store}
    BY <1>0, <2>1 DEF CopyInv, Shaped, Copying
  <2> QED BY <1>0, <2>1, <2>2, <2>3, MovesKeepCopy DEF Copying
<1>4. CASE SyncPrunes(q)
  <2>1. /\ UNCHANGED conn /\ request[q].pc = "prune"
        /\ copy' = [p \in Products |->
             IF Pruned(request[q].listed, p) THEN Absent ELSE copy[p]]
    BY <1>4 DEF SyncPrunes
  <2>2. Becomes(q) /\ request'[q].pc = "finish" /\ request'[q].store = request[q].store
    BY <1>0, <1>4 DEF SyncPrunes, Goes, CopyInv, Shaped, Becomes, Idle
  <2>3. /\ DOMAIN copy' = Products
        /\ \A p \in Products : copy'[p].store \in {"none", copy[p].store}
    BY <2>1 DEF Absent
  <2> QED BY <1>0, <2>1, <2>2, <2>3, MovesKeepCopy DEF Copying
<1>5. CASE SyncFinishes(q) \/ SyncFails(q)
  <2>1. /\ Ends(q) /\ copy' = copy
        /\ \/ conn' = conn
           \/ \E status : conn' = [conn EXCEPT !.status = status]
    BY <1>5 DEF SyncFinishes, SyncFails, Marked, AfterFailure
  <2>2. DOMAIN conn' = DOMAIN conn /\ conn'.store = conn.store
    BY <2>1 DEF CopyInv, Shaped, NoLink
  <2> QED BY <1>0, <2>1, <2>2, EndsKeepCopy DEF CopyInv, Shaped
<1> QED BY <1>1, <1>2, <1>3, <1>4, <1>5

\* A webhook, from its receipt to its write.
LEMMA WebhooksKeepCopy ==
  ASSUME CopyInv, NEW q \in Requests,
         \/ WebhookArrives(q) \/ WebhookReads(q) \/ WebhookFetches(q) \/ WebhookWrites(q)
  PROVE  CopyInv'
<1>0. /\ DOMAIN request[q] = DOMAIN Idle /\ crossed' = crossed /\ UNCHANGED conn
      /\ ~crossed => (request[q].pc \in Copying => request[q].store = conn.store)
      /\ DOMAIN copy = Products /\ DOMAIN request = Requests
  BY DEF CopyInv, Shaped, OneStore, WebhookArrives, WebhookReads, WebhookFetches, WebhookWrites
<1>1. CASE WebhookArrives(q)
  <2>1. /\ UNCHANGED copy
        /\ \/ UNCHANGED request
           \/ \E i, v : request' = [request EXCEPT ![q] =
                [Idle EXCEPT !.pc = "accepted", !.product = i, !.version = v]]
    BY <1>1 DEF WebhookArrives
  <2>2. CASE UNCHANGED request
    BY <1>0, <2>1, <2>2 DEF CopyInv, Shaped, RowsOfConnectedStore, OneStore
  <2>3. CASE ~UNCHANGED request
    <3>1. Becomes(q) /\ request'[q].pc = "accepted"
      BY <1>0, <2>1, <2>3 DEF Becomes, Idle
    <3> QED BY <1>0, <2>1, <3>1, MovesKeepCopy DEF Copying
  <2> QED BY <2>2, <2>3
<1>2. CASE WebhookReads(q)
  <2>1. CASE Ends(q)
    <3>1. copy' = copy \/ copy' = [copy EXCEPT ![request[q].product] = Absent]
      BY <1>2 DEF WebhookReads
    <3>2. /\ DOMAIN copy' = Products
          /\ \A p \in Products : copy'[p].store \in {"none", copy[p].store}
      BY <1>0, <3>1 DEF Absent
    <3> QED BY <1>0, <2>1, <3>2, EndsKeepCopy
  <2>2. CASE ~Ends(q)
    <3>1. /\ UNCHANGED copy
          /\ request' = [request EXCEPT ![q] =
               [request[q] EXCEPT !.pc = "fetch", !.store = conn.store]]
      BY <1>0, <1>2, <2>2 DEF WebhookReads
    <3>2. Becomes(q) /\ request'[q].pc = "fetch" /\ request'[q].store = conn.store
      BY <1>0, <3>1 DEF Becomes, Idle
    <3> QED BY <1>0, <3>1, <3>2, MovesKeepCopy DEF Copying
  <2> QED BY <2>1, <2>2
<1>3. CASE WebhookFetches(q)
  <2>1. CASE Ends(q)
    BY <1>0, <1>3, <2>1, EndsKeepCopy DEF WebhookFetches
  <2>2. CASE ~Ends(q)
    <3>1. /\ UNCHANGED copy /\ request[q].pc = "fetch"
          /\ \E v : request' = [request EXCEPT ![q].pc = "write", ![q].version = v]
      BY <1>3, <2>2 DEF WebhookFetches
    <3>2. Becomes(q) /\ request'[q].pc = "write" /\ request'[q].store = request[q].store
      BY <1>0, <3>1 DEF Becomes, Idle
    <3> QED BY <1>0, <3>1, <3>2, MovesKeepCopy DEF Copying
  <2> QED BY <2>1, <2>2
<1>4. CASE WebhookWrites(q)
  <2>1. /\ Ends(q) /\ request[q].pc = "write"
        /\ copy' = [copy EXCEPT ![request[q].product] =
             [store |-> request[q].store, version |-> request[q].version]]
    BY <1>4 DEF WebhookWrites
  <2>2. /\ DOMAIN copy' = Products
        /\ ~crossed => \A p \in Products : copy'[p].store \in {copy[p].store, conn.store}
    BY <1>0, <2>1 DEF Copying
  <2> QED BY <1>0, <2>1, <2>2, EndsKeepCopy
<1> QED BY <1>1, <1>2, <1>3, <1>4

\* At the start there is nothing to copy.
LEMMA CopyStarts == Init => CopyInv
BY DEF Init, CopyInv, Shaped, RowsOfConnectedStore, OneStore, Copying, Absent, Idle, NoLink

\* Every step keeps the copy of the connected store.
LEMMA CopyStep ==
  ASSUME CopyInv, [Next]_vars
  PROVE  CopyInv'
<1>1. ASSUME NEW q \in Requests, NEW s \in Stores, Connects(q, s) PROVE CopyInv'
  <2>1. /\ UNCHANGED <<conn, copy, crossed>>
        /\ \E l : request' = [request EXCEPT ![q] =
             [Idle EXCEPT !.pc = "connect", !.store = s, !.link = l,
                          !.replaces = conn.store \notin {"none", s}]]
    BY <1>1 DEF Connects
  <2>2. /\ DOMAIN request' = Requests /\ DOMAIN request'[q] = DOMAIN Idle
        /\ \A p \in Requests \ {q} : request'[p] = request[p]
        /\ request'[q].pc = "connect" /\ request'[q].store = s
        /\ request'[q].replaces = (conn.store \notin {"none", s})
    BY <2>1 DEF CopyInv, Shaped, Idle
  <2>3. Shaped' /\ OneStore(q)'
    BY <2>1, <2>2 DEF CopyInv, Shaped, OneStore, Copying
  <2> QED BY <2>1, <2>2, <2>3, CopyKept
<1>2. ASSUME NEW q \in Requests, CommitsConnection(q) PROVE CopyInv'
  BY <1>2, CommitKeepsCopy
<1>3. ASSUME NEW q \in Requests, \/ SyncStarts(q) \/ SyncLists(q) \/ SyncUpserts(q)
                                 \/ SyncPrunes(q) \/ SyncFinishes(q) \/ SyncFails(q)
      PROVE  CopyInv'
  BY <1>3, SyncKeepsCopy
<1>4. ASSUME NEW q \in Requests, \/ WebhookArrives(q) \/ WebhookReads(q)
                                 \/ WebhookFetches(q) \/ WebhookWrites(q)
      PROVE  CopyInv'
  BY <1>4, WebhooksKeepCopy
<1>5. ASSUME NEW q \in Requests, RequestStops(q) PROVE CopyInv'
  BY <1>5, EndsKeepCopy DEF RequestStops, CopyInv, Shaped
<1>6. CASE Disconnects
  <2>1. /\ UNCHANGED <<copy, request, crossed>>
        /\ conn' = [conn EXCEPT !.status = "DISCONNECTED", !.keys = FALSE]
    BY <1>6 DEF Disconnects
  <2>2. DOMAIN conn' = DOMAIN conn /\ conn'.store = conn.store
    BY <2>1 DEF CopyInv, Shaped, NoLink
  <2> QED BY <2>1, <2>2 DEF CopyInv, Shaped, RowsOfConnectedStore, OneStore
<1>7. CASE UNCHANGED <<conn, copy, request, crossed>>
  BY <1>7 DEF CopyInv, Shaped, RowsOfConnectedStore, OneStore
<1> QED BY <1>1, <1>2, <1>3, <1>4, <1>5, <1>6, <1>7 DEF Next, ShopChanges, vars

\* Whatever synchronizations and webhooks overlap, and however often the connection is
\* replaced, for any stores, products and requests: the copy holds rows of the connected
\* store alone, unless a store was replaced under a request in progress
\* (connectWooCommerce, syncWooCommerce, processWooCommerceWebhook).
THEOREM CopyIsOfTheStore == Spec => []RowsOfConnectedStore
<1>1. CopyInv => RowsOfConnectedStore
  BY DEF CopyInv, RowsOfConnectedStore
<1>2. CopyInv /\ [Next]_vars => CopyInv'
  BY CopyStep
<1> QED BY <1>1, <1>2, CopyStarts, PTL DEF Spec

------------------------------------------------------------------------------
\* A set of numbers that is not empty has a least one.
LEMMA LeastNumber ==
  ASSUME NEW T, T \subseteq Nat, T # {}
  PROVE  \E x \in T : \A y \in T : x <= y
<1>1. PICK x \in T : \A y \in T : <<y, x>> \notin OpToRel(<, Nat)
  BY NatLessThanWellFounded, WFMin
<1>2. \A y \in T : ~(y < x)
  BY <1>1 DEF OpToRel
<1> QED BY <1>2

\* How many products of a store there are up to one, and those pages before n list.
Rank(s, p) == Cardinality({o \in 1 .. p : shop[s][o] # 0})
Before(s, n) == {p \in Products : shop[s][p] # 0 /\ Rank(s, p) < n}

LEMMA RankType ==
  ASSUME NEW s, NEW p \in Products
  PROVE  /\ Rank(s, p) \in Nat
         /\ shop[s][p] # 0 => Rank(s, p) >= 1
<1> DEFINE X == {o \in 1 .. p : shop[s][o] # 0}
<1>1. IsFiniteSet(X)
  BY FS_Interval, FS_Subset DEF Products
<1>2. shop[s][p] # 0 => X # {}
  BY DEF Products
<1>3. Cardinality(X) \in Nat /\ (Cardinality(X) = 0 => X = {})
  BY <1>1, FS_CardinalityType, FS_EmptySet
<1> QED BY <1>2, <1>3 DEF Rank

\* Pages skip nothing: when the n-th is empty there is no later product.
LEMMA PagesAreWhole ==
  ASSUME WooAssumption, NEW s, NEW n \in Nat \ {0}, OnPage(s, n) = {}
  PROVE  \A p \in Products : shop[s][p] # 0 => Rank(s, p) < n
<1> DEFINE T == {p \in Products : shop[s][p] # 0 /\ Rank(s, p) >= n}
<1> SUFFICES ASSUME T # {} PROVE FALSE
  BY RankType
<1>1. PICK m \in T : \A y \in T : m <= y
  <2>1. T \subseteq Nat
    BY DEF Products
  <2> HIDE DEF T
  <2> QED BY <2>1, LeastNumber
<1>2. m \in Products /\ shop[s][m] # 0 /\ Rank(s, m) \in Nat /\ Rank(s, m) > n
  BY <1>1, RankType DEF OnPage, Rank
<1> DEFINE X == {o \in 1 .. m : shop[s][o] # 0}
           S == {o \in 1 .. (m - 1) : shop[s][o] # 0}
<1>3. X = S \cup {m} /\ m \notin S /\ m \in Nat
  BY <1>2 DEF Products
<1>4. IsFiniteSet(S) /\ Cardinality(S) \in Nat
  <2>1. IsFiniteSet(1 .. (m - 1))
    <3>1. 1 \in Int /\ m - 1 \in Int
      BY <1>3
    <3> HIDE DEF X, S, T
    <3> QED BY <3>1, FS_Interval
  <2>2. S \in SUBSET (1 .. (m - 1))
    OBVIOUS
  <2> HIDE DEF S
  <2> QED BY <2>1, <2>2, FS_Subset, FS_CardinalityType
<1>5. Cardinality(X) = Cardinality(S) + 1
  BY <1>3, <1>4, FS_AddElement
<1>6. Cardinality(S) >= n /\ S # {}
  BY <1>2, <1>4, <1>5, FS_EmptySet DEF Rank
\* The last product before m.
<1>7. PICK o \in S : \A y \in S : y <= o
  <2> DEFINE D == {m - x : x \in S}
  <2>1. D \subseteq Nat /\ D # {}
    BY <1>3, <1>6
  <2>2. PICK d \in D : \A e \in D : d <= e
    BY <2>1, LeastNumber
  <2>3. PICK o \in S : d = m - o
    BY <2>2
  <2>4. ASSUME NEW y \in S PROVE y <= o
    <3>1. m - y \in D /\ m - o <= m - y
      BY <2>2, <2>3
    <3> QED BY <1>3, <3>1
  <2> QED BY <2>4
<1>8. {x \in 1 .. o : shop[s][x] # 0} = S
  BY <1>3, <1>7
<1>9. o \in T /\ o < m
  <2>1. Rank(s, o) = Cardinality(S)
    BY <1>8 DEF Rank
  <2>2. o \in 1 .. (m - 1) /\ shop[s][o] # 0 /\ m \in 1 .. MaxProduct
    BY <1>2, <1>7 DEF Products
  <2>3. o \in Products /\ o < m
    <3> HIDE DEF X, S, T
    <3> QED BY <1>3, <2>2 DEF Products, WooAssumption
  <2> QED BY <1>6, <2>1, <2>2, <2>3
<1> QED BY <1>1, <1>3, <1>9

\* What a store holds, and what a synchronization that nothing has disturbed knows and has
\* written of it at each point.
Entry(s, p) == [product |-> p, version |-> shop[s][p]]
Full(s) == {Entry(s, p) : p \in {o \in Products : shop[s][o] # 0}}
Right(s, p) == copy[p] = [store |-> s, version |-> shop[s][p]]
Faithful(q) ==
  LET r == request[q] IN
  /\ r.pc = "list" => /\ r.page \in Nat \ {0}
                      /\ r.listed = {Entry(r.store, p) : p \in Before(r.store, r.page)}
  /\ r.pc \in {"upsert", "prune"} => r.listed = Full(r.store)
  /\ r.pc = "upsert" =>
       /\ r.todo \subseteq Full(r.store)
       /\ \A p \in Products : shop[r.store][p] # 0 =>
            Entry(r.store, p) \in r.todo \/ Right(r.store, p)
  /\ r.pc = "prune" =>
       \A p \in Products : shop[r.store][p] # 0 => Right(r.store, p)
  /\ r.pc = "finish" =>
       \A p \in Products : copy[p] = IF shop[r.store][p] = 0 THEN Absent
                                     ELSE [store |-> r.store, version |-> shop[r.store][p]]
RepairInv ==
  /\ CopyInv
  /\ alone \subseteq Requests
  /\ \A q \in alone : Faithful(q)

\* Nothing that it depends on changes.
LEMMA StaysFaithful ==
  ASSUME NEW q, Faithful(q), UNCHANGED <<request, shop, copy>>
  PROVE  Faithful(q)'
<1>1. request'[q] = request[q]
  OBVIOUS
<1>2. \A s, n : Before(s, n)' = Before(s, n)
  BY DEF Before, Rank
<1>3. \A s, p : Full(s)' = Full(s) /\ Entry(s, p)' = Entry(s, p) /\ (Right(s, p)' <=> Right(s, p))
  BY DEF Full, Entry, Right
<1> QED BY <1>1, <1>2, <1>3 DEF Faithful, Entry

\* A synchronization starts with nothing listed, which is what there is before page one.
LEMMA StartsFaithful ==
  ASSUME Shaped, NEW q \in Requests, SyncStarts(q)
  PROVE  Faithful(q)'
<1>1. request'[q] = [Idle EXCEPT !.pc = "list", !.store = conn.store] /\ UNCHANGED shop
  BY DEF SyncStarts, Shaped
<1>2. /\ request'[q].pc = "list" /\ request'[q].page = 1 /\ request'[q].listed = {}
  BY <1>1 DEF Idle
<1>3. \A s : Before(s, 1) = {}
  BY RankType DEF Before
<1>4. \A s : Before(s, 1)' = Before(s, 1)
  BY <1>1 DEF Before, Rank
<1>5. Before(request[q].store, 1)' = {}
  BY <1>3, <1>4
<1> QED BY <1>2, <1>5 DEF Faithful

\* A page adds the next products of the store, and the empty page comes after all of them.
LEMMA ListsFaithful ==
  ASSUME WooAssumption, Shaped, NEW q \in Requests, Faithful(q), SyncLists(q)
  PROVE  Faithful(q)'
<1> DEFINE s == request[q].store
           n == request[q].page
<1>1. /\ request[q].pc = "list" /\ n \in Nat \ {0} /\ UNCHANGED <<shop, copy>>
      /\ request[q].listed = {Entry(s, p) : p \in Before(s, n)}
  BY DEF SyncLists, Faithful
<1>2. CASE OnPage(s, n) = {}
  <2>1. request' = [request EXCEPT ![q] =
          [request[q] EXCEPT !.pc = "upsert", !.todo = request[q].listed]]
    BY <1>2 DEF SyncLists
  <2>2. /\ request'[q].pc = "upsert" /\ request'[q].store = s
        /\ request'[q].listed = request[q].listed /\ request'[q].todo = request[q].listed
    BY <2>1 DEF Shaped, Idle
  <2>3. request[q].listed = Full(s)
    <3>1. Before(s, n) = {o \in Products : shop[s][o] # 0}
      BY <1>1, <1>2, PagesAreWhole DEF Before
    <3> QED BY <1>1, <3>1 DEF Full
  <2>4. \A p \in Products : shop[s][p] # 0 => Entry(s, p) \in request[q].listed
    BY <2>3 DEF Full
  <2>5. \A t, p : Full(t)' = Full(t) /\ Entry(t, p)' = Entry(t, p)
    BY <1>1 DEF Full, Entry
  <2> HIDE DEF s, n
  <2> QED BY <1>1, <2>2, <2>3, <2>4, <2>5 DEF Faithful, Full, Entry
<1>3. CASE OnPage(s, n) # {}
  <2> DEFINE ls == request[q].listed \cup
        {[product |-> p, version |-> shop[s][p]] : p \in OnPage(s, n)}
  <2>1. request' = [request EXCEPT ![q] =
          [request[q] EXCEPT !.page = n + 1, !.listed = ls]]
    BY <1>3 DEF SyncLists
  <2> HIDE DEF ls
  <2>2. /\ request'[q].pc = "list" /\ request'[q].store = s
        /\ request'[q].listed = ls /\ request'[q].page = n + 1
    BY <1>1, <2>1 DEF Shaped, Idle
  <2>3. Before(s, n + 1) = Before(s, n) \cup OnPage(s, n)
    <3>1. \A p \in Products : Rank(s, p) < n + 1 <=> (Rank(s, p) < n \/ Rank(s, p) = n)
      BY <1>1, RankType
    <3>2. OnPage(s, n) = {p \in Products : shop[s][p] # 0 /\ Rank(s, p) = n}
      BY DEF OnPage, Rank
    <3> QED BY <3>1, <3>2 DEF Before
  <2>4. ls = {Entry(s, p) : p \in Before(s, n + 1)}
    BY <1>1, <2>3 DEF ls, Entry
  <2>5. request'[q].listed = {Entry(request[q].store, p) :
                                p \in Before(request[q].store, request[q].page)}'
    BY <1>1, <2>2, <2>4 DEF Before, Rank, Entry
  <2> HIDE DEF s, n
  <2> QED BY <1>1, <2>2, <2>5 DEF Faithful
<1> QED BY <1>2, <1>3

\* An upsert puts right the product it takes from the list, and no other.
LEMMA UpsertsFaithful ==
  ASSUME Shaped, NEW q \in Requests, Faithful(q), SyncUpserts(q)
  PROVE  Faithful(q)'
<1> DEFINE s == request[q].store
<1>1. /\ request[q].pc = "upsert" /\ UNCHANGED shop /\ request[q].listed = Full(s)
      /\ request[q].todo \subseteq Full(s)
      /\ \A p \in Products : shop[s][p] # 0 => Entry(s, p) \in request[q].todo \/ Right(s, p)
  BY DEF SyncUpserts, Faithful
<1>2. CASE request[q].todo = {}
  <2>1. request' = [request EXCEPT ![q].pc = "prune"] /\ UNCHANGED copy
    BY <1>2 DEF SyncUpserts, Goes
  <2>2. /\ request'[q].pc = "prune" /\ request'[q].store = s
        /\ request'[q].listed = request[q].listed
    BY <2>1 DEF Shaped, Idle
  <2> QED BY <1>1, <1>2, <2>1, <2>2 DEF Faithful, Full, Entry, Right
<1>3. CASE request[q].todo # {}
  <2>1. PICK i \in request[q].todo :
          /\ copy' = [copy EXCEPT ![i.product] = [store |-> s, version |-> i.version]]
          /\ request' = [request EXCEPT ![q].todo = request[q].todo \ {i}]
    BY <1>3 DEF SyncUpserts
  <2>2. PICK o \in Products : shop[s][o] # 0 /\ i = Entry(s, o)
    BY <1>1, <2>1 DEF Full
  <2>3. /\ request'[q].pc = "upsert" /\ request'[q].store = s
        /\ request'[q].listed = request[q].listed
        /\ request'[q].todo = request[q].todo \ {i}
    BY <1>1, <2>1 DEF Shaped, Idle
  <2>4. /\ copy'[o] = [store |-> s, version |-> shop[s][o]]
        /\ \A p \in Products \ {o} : copy'[p] = copy[p]
    BY <2>1, <2>2 DEF Entry, Shaped
  <2>5. \A p \in Products : shop[s][p] # 0 =>
          \/ Entry(s, p) \in request[q].todo \ {i}
          \/ copy'[p] = [store |-> s, version |-> shop[s][p]]
    BY <1>1, <2>2, <2>4 DEF Right, Entry
  <2> HIDE DEF s
  <2> QED BY <1>1, <2>3, <2>5 DEF Faithful, Full, Entry, Right
<1> QED BY <1>2, <1>3

\* What was not listed is not in the store.
LEMMA PrunesFaithful ==
  ASSUME Shaped, NEW q \in Requests, Faithful(q), SyncPrunes(q)
  PROVE  Faithful(q)'
<1> DEFINE s == request[q].store
<1>1. /\ request[q].pc = "prune" /\ UNCHANGED shop /\ request[q].listed = Full(s)
      /\ \A p \in Products : shop[s][p] # 0 => Right(s, p)
      /\ copy' = [p \in Products |->
           IF Pruned(request[q].listed, p) THEN Absent ELSE copy[p]]
  BY DEF SyncPrunes, Faithful
<1>2. request'[q].pc = "finish" /\ request'[q].store = s
  <2>1. request' = [request EXCEPT ![q].pc = "finish"]
    BY DEF SyncPrunes, Goes
  <2>2. request'[q] = [request[q] EXCEPT !.pc = "finish"]
    BY <2>1 DEF Shaped
  <2> QED BY <2>2 DEF Shaped, Idle
<1>3. \A p \in Products : Pruned(request[q].listed, p) <=> shop[s][p] = 0
  <2>1. ASSUME NEW p \in Products, shop[s][p] # 0 PROVE ~Pruned(Full(s), p)
    <3>1. Entry(s, p) \in Full(s) /\ Entry(s, p).product = p
      BY <2>1 DEF Full, Entry
    <3> QED BY <3>1 DEF Pruned
  <2>2. ASSUME NEW p \in Products, ~Pruned(Full(s), p) PROVE shop[s][p] # 0
    <3>1. PICK i \in Full(s) : p = i.product
      BY <2>2 DEF Pruned
    <3>2. PICK o \in Products : shop[s][o] # 0 /\ i = Entry(s, o)
      BY DEF Full
    <3> QED BY <3>1, <3>2 DEF Entry
  <2> QED BY <1>1, <2>1, <2>2
<1>4. \A p \in Products : copy'[p] = IF shop[s][p] = 0 THEN Absent
                                   ELSE [store |-> s, version |-> shop[s][p]]
  BY <1>1, <1>3 DEF Right
<1> HIDE DEF s
<1> QED BY <1>1, <1>2, <1>4 DEF Faithful

\* Whatever webhooks lost or reordered before, for any stores, products and requests: a
\* synchronization that nothing disturbs leaves exactly what is in the store, page by page
\* (syncWooCommerce).
THEOREM SynchronizationsRepair ==
  ASSUME WooAssumption
  PROVE  Spec => SyncRepairs
<1>1. Init => RepairInv
  BY CopyStarts DEF Init, RepairInv
<1>2. RepairInv /\ [Next]_vars => RepairInv'
  <2> SUFFICES ASSUME RepairInv, [Next]_vars
               PROVE  alone' \subseteq Requests /\ \A q \in alone' : Faithful(q)'
    BY CopyStep DEF RepairInv
  <2>0. alone \subseteq Requests /\ Shaped
    BY DEF RepairInv, CopyInv
  <2>1. CASE alone' = {}
    BY <2>1
  <2>2. ASSUME NEW q \in Requests, SyncStarts(q)
        PROVE  alone' \subseteq {q} /\ Faithful(q)'
    BY <2>0, <2>2, StartsFaithful DEF SyncStarts
  <2>3. ASSUME NEW q \in Requests,
               SyncLists(q) \/ SyncUpserts(q) \/ SyncPrunes(q)
        PROVE  alone' = alone \cap {q} /\ (q \in alone' => Faithful(q)')
    <3>1. alone' = alone \cap {q}
      BY <2>3 DEF SyncLists, SyncUpserts, SyncPrunes, Undisturbed
    <3>2. q \in alone' => Faithful(q)
      BY <3>1 DEF RepairInv
    <3> QED BY <2>0, <2>3, <3>1, <3>2, ListsFaithful, UpsertsFaithful, PrunesFaithful
  <2>4. ASSUME NEW q \in Requests,
               \/ \E s \in Stores : Connects(q, s)
               \/ SyncFinishes(q)
               \/ WebhookArrives(q) \/ WebhookReads(q) \/ WebhookFetches(q) \/ WebhookWrites(q)
        PROVE  alone' = alone \cap {q} /\ (q \in alone' => Faithful(q)')
    <3>1. alone' = alone \cap {q}
      BY <2>4 DEF Connects, SyncFinishes, WebhookArrives, WebhookReads, WebhookFetches,
         WebhookWrites, Undisturbed
    <3>2. \/ request' = request /\ UNCHANGED <<shop, copy>>
          \/ request'[q].pc \notin {"list", "upsert", "prune", "finish"}
      <4>1. DOMAIN request = Requests /\ DOMAIN request[q] = DOMAIN Idle
        BY <2>0 DEF Shaped
      <4>2. CASE \E s \in Stores : Connects(q, s)
        <5>1. \E s, l : request' = [request EXCEPT ![q] =
                [Idle EXCEPT !.pc = "connect", !.store = s, !.link = l,
                             !.replaces = conn.store \notin {"none", s}]]
          BY <4>2 DEF Connects
        <5> QED BY <4>1, <5>1 DEF Idle
      <4>3. CASE WebhookArrives(q)
        <5>1. \/ UNCHANGED <<request, shop, copy>>
              \/ \E i, v : request' = [request EXCEPT ![q] =
                   [Idle EXCEPT !.pc = "accepted", !.product = i, !.version = v]]
          BY <4>3 DEF WebhookArrives
        <5> QED BY <4>1, <5>1 DEF Idle
      <4>4. CASE WebhookReads(q)
        BY <4>1, <4>4 DEF WebhookReads, Ends, Idle
      <4>5. CASE WebhookFetches(q)
        BY <4>1, <4>5 DEF WebhookFetches, Ends, Idle
      <4>6. CASE SyncFinishes(q) \/ WebhookWrites(q)
        BY <4>1, <4>6 DEF SyncFinishes, WebhookWrites, Ends, Idle
      <4> QED BY <2>4, <4>2, <4>3, <4>4, <4>5, <4>6
    <3>3. CASE request' = request /\ UNCHANGED <<shop, copy>>
      <4>1. q \in alone' => Faithful(q)
        BY <3>1 DEF RepairInv
      <4> QED BY <3>1, <3>3, <4>1, StaysFaithful
    <3>4. CASE request'[q].pc \notin {"list", "upsert", "prune", "finish"}
      BY <3>1, <3>4 DEF Faithful
    <3> QED BY <3>2, <3>3, <3>4
  <2>5. ASSUME NEW q \in Requests, CommitsConnection(q) \/ SyncFails(q) \/ RequestStops(q)
        PROVE  alone' = {}
    <3>1. CommitsConnection(q) => alone' = {}
      BY DEF CommitsConnection
    <3>2. SyncFails(q) => alone' = {}
      BY DEF SyncFails
    <3>3. RequestStops(q) => alone' = {}
      BY DEF RequestStops
    <3> QED BY <2>5, <3>1, <3>2, <3>3
  <2>6. CASE UNCHANGED vars
    <3>1. UNCHANGED <<request, shop, copy, alone>>
      BY <2>6 DEF vars
    <3>2. ASSUME NEW q \in alone PROVE Faithful(q)'
      <4>1. Faithful(q)
        BY DEF RepairInv
      <4> QED BY <3>1, <4>1, StaysFaithful
    <3> QED BY <2>0, <3>1, <3>2
  <2>7. CASE Disconnects \/ \E s \in Stores, p \in Products : ShopChanges(s, p)
    BY <2>7 DEF Disconnects, ShopChanges
  <2> QED BY <2>0, <2>1, <2>2, <2>3, <2>4, <2>5, <2>6, <2>7 DEF Next
<1>3. RepairInv => SyncRepairsStep
  BY DEF RepairInv, SyncRepairsStep, Faithful
<1> QED BY <1>1, <1>2, <1>3, PTL DEF Spec, SyncRepairs
------------------------------------------------------------------------------
\* The rows and the requests by name, and what a request knows at each point: whoever
\* connects, copies or fetches has a store, and whoever copies found a connection.
Link == [store : {"none"} \cup Stores, link : 0 .. MaxLinks,
         status : {"NONE", "CONNECTED", "ERROR", "DISCONNECTED"}, keys : BOOLEAN]
Row == [store : {"none"} \cup Stores, version : 0 .. MaxChanges]
RequestState ==
  [pc : {"idle", "connect", "list", "upsert", "prune", "finish", "accepted", "fetch", "write"},
   store : {"none"} \cup Stores, link : 0 .. MaxLinks, replaces : BOOLEAN,
   product : 0 .. MaxProduct, version : 0 .. MaxChanges, page : Nat \ {0},
   listed : SUBSET Listed, todo : SUBSET Listed]
Knows(r) ==
  /\ r.pc \in Copying \cup {"connect"} => r.store \in Stores
  /\ r.pc \in {"accepted", "fetch", "write"} => r.product \in Products
Typed ==
  /\ conn \in Link /\ (conn.status # "NONE" => conn.store \in Stores)
  /\ shop \in [Stores -> [Products -> 0 .. MaxChanges]]
  /\ hooks \in [Links -> {"none"} \cup Stores]
  /\ copy \in [Products -> Row]
  /\ receipts \subseteq Delivery
  /\ request \in [Requests -> RequestState]
  /\ \A q \in Requests :
       Knows(request[q]) /\ (request[q].pc \in Copying => conn.store \in Stores)
  /\ alone \subseteq Requests /\ crossed \in BOOLEAN

\* A request that is free knows nothing.
LEMMA FreeTyped ==
  ASSUME WooAssumption
  PROVE  Idle \in RequestState /\ Knows(Idle) /\ Idle.pc \notin Copying
BY DEF Idle, RequestState, Knows, Copying, WooAssumption

\* A request moves to a state it may have, over the connection there was.
LEMMA MovesTyped ==
  ASSUME Typed, NEW q \in Requests, NEW r \in RequestState, Knows(r),
         r.pc \in Copying => conn.store \in Stores,
         request' = [request EXCEPT ![q] = r]
  PROVE  /\ request' \in [Requests -> RequestState]
         /\ \A p \in Requests :
              Knows(request[p])' /\ (request'[p].pc \in Copying => conn.store \in Stores)
<1>1. request \in [Requests -> RequestState]
  BY DEF Typed
<1>2. request' \in [Requests -> RequestState]
  BY <1>1
<1>3. ASSUME NEW p \in Requests
      PROVE  Knows(request[p])' /\ (request'[p].pc \in Copying => conn.store \in Stores)
  <2>1. CASE p = q
    BY <1>1, <2>1 DEF Knows, Copying
  <2>2. CASE p # q
    BY <1>1, <2>2 DEF Typed, Knows, Copying
  <2> QED BY <2>1, <2>2
<1> QED BY <1>2, <1>3

\* It ends.
LEMMA EndsTyped ==
  ASSUME WooAssumption, Typed, NEW q \in Requests, Ends(q)
  PROVE  /\ request' \in [Requests -> RequestState]
         /\ \A p \in Requests :
              Knows(request[p])' /\ (request'[p].pc \in Copying => conn.store \in Stores)
BY FreeTyped, MovesTyped DEF Ends

\* A change of a store.
LEMMA ShopTyped ==
  ASSUME WooAssumption, Typed, ReceiptsKept, NEW s \in Stores, NEW p \in Products,
         ShopChanges(s, p)
  PROVE  Typed'
<1>1. changes + 1 \in 0 .. MaxChanges
  BY DEF ShopChanges, ReceiptsKept, WooAssumption
<1>2. PICK gone \in BOOLEAN : shop' = [shop EXCEPT ![s] =
        [shop[s] EXCEPT ![p] = IF gone THEN 0 ELSE changes + 1]]
  BY DEF ShopChanges
<1>3. shop[s] \in [Products -> 0 .. MaxChanges]
  BY DEF Typed
<1>4. [shop[s] EXCEPT ![p] = IF gone THEN 0 ELSE changes + 1] \in [Products -> 0 .. MaxChanges]
  <2>1. (IF gone THEN 0 ELSE changes + 1) \in 0 .. MaxChanges
    BY <1>1 DEF WooAssumption
  <2> QED BY <1>3, <2>1
<1>5. shop' \in [Stores -> [Products -> 0 .. MaxChanges]]
  BY <1>2, <1>4 DEF Typed
<1>6. UNCHANGED <<conn, hooks, copy, receipts, request, crossed>> /\ alone' = {}
  BY DEF ShopChanges
<1> QED BY <1>5, <1>6 DEF Typed, Knows

\* A store is connected: the key, the row and what is cleared.
LEMMA ConnectingTyped ==
  ASSUME WooAssumption, Typed, NEW q \in Requests,
         (\E s \in Stores : Connects(q, s)) \/ CommitsConnection(q)
  PROVE  Typed'
<1>1. ASSUME NEW s \in Stores, Connects(q, s) PROVE Typed'
  <2> DEFINE again == conn.store \notin {"none", s}
  <2>1. PICK l \in Links :
          /\ hooks' = [hooks EXCEPT ![l] = s]
          /\ request' = [request EXCEPT ![q] =
               [Idle EXCEPT !.pc = "connect", !.store = s, !.link = l, !.replaces = again]]
    BY <1>1 DEF Connects, Registered
  <2> DEFINE r == [Idle EXCEPT !.pc = "connect", !.store = s, !.link = l, !.replaces = again]
  <2>2. again \in BOOLEAN
    OBVIOUS
  <2> HIDE DEF again
  <2>3. r \in RequestState /\ Knows(r) /\ r.pc = "connect"
    <3>1. Idle \in RequestState /\ l \in 0 .. MaxLinks
      BY FreeTyped DEF Links, WooAssumption
    <3>2. r \in RequestState /\ r.pc = "connect" /\ r.store = s
      BY <2>2, <3>1 DEF RequestState
    <3> HIDE DEF r
    <3> QED BY <3>2 DEF Knows
  <2> HIDE DEF r
  <2>4. /\ request' \in [Requests -> RequestState]
        /\ \A p \in Requests :
             Knows(request[p])' /\ (request'[p].pc \in Copying => conn.store \in Stores)
    BY <2>1, <2>3, MovesTyped DEF r, Copying
  <2>5. hooks' \in [Links -> {"none"} \cup Stores]
    BY <2>1 DEF Typed
  <2>6. UNCHANGED <<conn, shop, copy, receipts, crossed>> /\ alone' \subseteq alone
    BY <1>1 DEF Connects, Undisturbed
  <2> QED BY <2>4, <2>5, <2>6 DEF Typed
<1>2. CASE CommitsConnection(q)
  <2>1. request[q] \in RequestState /\ request[q].store \in Stores
    BY <1>2 DEF CommitsConnection, Typed, Knows
  <2>2. /\ conn' = [store |-> request[q].store, link |-> request[q].link,
                    status |-> "CONNECTED", keys |-> TRUE]
        /\ Ends(q) /\ alone' = {} /\ UNCHANGED <<shop, hooks, receipts>>
    BY <1>2 DEF CommitsConnection
  <2>3. conn' \in Link /\ conn'.store \in Stores
    BY <2>1, <2>2 DEF Link, RequestState
  <2>4. /\ request' \in [Requests -> RequestState]
        /\ \A p \in Requests : Knows(request[p])'
    BY <2>2, EndsTyped
  <2>5. copy' \in [Products -> Row]
    <3>1. Absent \in Row
      BY DEF Absent, Row, WooAssumption
    <3>2. copy' = copy \/ copy' = [p \in Products |-> Absent]
      BY <1>2 DEF CommitsConnection, Cleared
    <3> QED BY <3>1, <3>2 DEF Typed
  <2>6. crossed' \in BOOLEAN
    BY <1>2 DEF CommitsConnection
  <2> QED BY <2>2, <2>3, <2>4, <2>5, <2>6 DEF Typed
<1> QED BY <1>1, <1>2

\* A synchronization lists, upserts, deletes, and succeeds or fails.
LEMMA SyncTyped ==
  ASSUME WooAssumption, Typed, NEW q \in Requests,
         \/ SyncStarts(q) \/ SyncLists(q) \/ SyncUpserts(q)
         \/ SyncPrunes(q) \/ SyncFinishes(q) \/ SyncFails(q)
  PROVE  Typed'
<1>0. /\ request[q] \in RequestState /\ Knows(request[q]) /\ conn \in Link
      /\ request[q].pc \in Copying => conn.store \in Stores /\ request[q].store \in Stores
  BY DEF Typed, Knows
<1>1. CASE SyncStarts(q)
  <2> DEFINE r == [Idle EXCEPT !.pc = "list", !.store = conn.store]
  <2>1. conn.store \in Stores
    BY <1>1 DEF SyncStarts, Credentials, Typed
  <2>2. r \in RequestState /\ Knows(r)
    <3>1. r \in RequestState /\ r.pc = "list" /\ r.store = conn.store
      BY <2>1, FreeTyped DEF RequestState
    <3> HIDE DEF r
    <3> QED BY <2>1, <3>1 DEF Knows
  <2>3. request' = [request EXCEPT ![q] = r]
    BY <1>1 DEF SyncStarts
  <2> HIDE DEF r
  <2>4. /\ request' \in [Requests -> RequestState]
        /\ \A p \in Requests :
             Knows(request[p])' /\ (request'[p].pc \in Copying => conn.store \in Stores)
    BY <2>1, <2>2, <2>3, MovesTyped
  <2>5. alone' \subseteq Requests /\ UNCHANGED <<conn, shop, hooks, copy, receipts, crossed>>
    BY <1>1 DEF SyncStarts, Typed
  <2> QED BY <2>4, <2>5 DEF Typed
<1>2. CASE SyncLists(q)
  <2> DEFINE s == request[q].store
             page == OnPage(s, request[q].page)
             more == {[product |-> p, version |-> shop[s][p]] : p \in page}
             last == [request[q] EXCEPT !.pc = "upsert", !.todo = request[q].listed]
             next == [request[q] EXCEPT !.page = request[q].page + 1,
                                        !.listed = request[q].listed \cup more]
  <2>1. request[q].pc = "list" /\ s \in Stores /\ conn.store \in Stores
    BY <1>0, <1>2 DEF SyncLists, Copying
  <2>2. shop[s] \in [Products -> 0 .. MaxChanges]
    BY <2>1 DEF Typed
  <2>3. more \subseteq Listed
    <3>1. \A p \in page : p \in Products /\ shop[s][p] \in 1 .. MaxChanges
      <4>1. \A p \in page : p \in Products /\ shop[s][p] # 0
        BY DEF OnPage
      <4> HIDE DEF s, page
      <4> QED BY <2>2, <4>1 DEF WooAssumption
    <3> HIDE DEF s, page
    <3> QED BY <3>1 DEF Listed
  <2>4. last \in RequestState /\ Knows(last) /\ next \in RequestState /\ Knows(next)
    <3>1. request[q].listed \cup more \in SUBSET Listed
      BY <1>0, <2>3 DEF RequestState
    <3>2. last \in RequestState /\ Knows(last)
      BY <1>0, <2>1 DEF RequestState, Knows, Copying
    <3> HIDE DEF more, page
    <3>3. request[q].page + 1 \in Nat \ {0}
      BY <1>0 DEF RequestState
    <3>4. next \in RequestState /\ Knows(next)
      BY <1>0, <2>1, <3>1, <3>3 DEF RequestState, Knows, Copying
    <3> QED BY <3>2, <3>4
  <2>5. request' = [request EXCEPT ![q] = last] \/ request' = [request EXCEPT ![q] = next]
    BY <1>2 DEF SyncLists
  <2> HIDE DEF last, next, page, more
  <2>6. /\ request' \in [Requests -> RequestState]
        /\ \A p \in Requests :
             Knows(request[p])' /\ (request'[p].pc \in Copying => conn.store \in Stores)
    BY <2>1, <2>4, <2>5, MovesTyped
  <2>7. alone' \subseteq alone /\ UNCHANGED <<conn, shop, hooks, copy, receipts, crossed>>
    BY <1>2 DEF SyncLists, Undisturbed
  <2> QED BY <2>6, <2>7 DEF Typed
<1>3. CASE SyncUpserts(q)
  <2>1. request[q].pc = "upsert" /\ conn.store \in Stores /\ request[q].store \in Stores
    BY <1>0, <1>3 DEF SyncUpserts, Copying
  <2>2. PICK r : /\ request' = [request EXCEPT ![q] = r]
                 /\ r \in {[request[q] EXCEPT !.pc = "prune"]}
                      \cup {[request[q] EXCEPT !.todo = request[q].todo \ {i}] : i \in Listed}
    <3>1. CASE request[q].todo = {}
      BY <1>3, <3>1 DEF SyncUpserts, Goes
    <3>2. CASE request[q].todo # {}
      <4>1. PICK i \in request[q].todo :
              request' = [request EXCEPT ![q] =
                            [request[q] EXCEPT !.todo = request[q].todo \ {i}]]
        BY <1>3, <3>2 DEF SyncUpserts
      <4>2. i \in Listed
        BY <1>0 DEF RequestState
      <4> QED BY <4>1, <4>2
    <3> QED BY <3>1, <3>2
  <2>3. r \in RequestState /\ Knows(r)
    BY <1>0, <2>1, <2>2 DEF RequestState, Knows, Copying
  <2>4. /\ request' \in [Requests -> RequestState]
        /\ \A p \in Requests :
             Knows(request[p])' /\ (request'[p].pc \in Copying => conn.store \in Stores)
    BY <2>1, <2>2, <2>3, MovesTyped
  <2>5. copy' \in [Products -> Row]
    <3>1. CASE request[q].todo = {}
      BY <1>3, <3>1 DEF SyncUpserts, Typed
    <3>2. CASE request[q].todo # {}
      <4>1. PICK i \in request[q].todo : copy' = [copy EXCEPT ![i.product] =
              [store |-> request[q].store, version |-> i.version]]
        BY <1>3, <3>2 DEF SyncUpserts
      <4>2. i \in Listed
        BY <1>0 DEF RequestState
      <4>3. [store |-> request[q].store, version |-> i.version] \in Row
        BY <2>1, <4>2 DEF Listed, Row, WooAssumption
      <4> QED BY <4>1, <4>3 DEF Typed
    <3> QED BY <3>1, <3>2
  <2>6. alone' \subseteq alone /\ UNCHANGED <<conn, shop, hooks, receipts, crossed>>
    BY <1>3 DEF SyncUpserts, Undisturbed
  <2> QED BY <2>4, <2>5, <2>6 DEF Typed
<1>4. CASE SyncPrunes(q)
  <2>1. request[q].pc = "prune" /\ conn.store \in Stores /\ request[q].store \in Stores
    BY <1>0, <1>4 DEF SyncPrunes, Copying
  <2>2. [request[q] EXCEPT !.pc = "finish"] \in RequestState
        /\ Knows([request[q] EXCEPT !.pc = "finish"])
    BY <1>0, <2>1 DEF RequestState, Knows, Copying
  <2>3. request' = [request EXCEPT ![q] = [request[q] EXCEPT !.pc = "finish"]]
    BY <1>4 DEF SyncPrunes, Goes
  <2>4. /\ request' \in [Requests -> RequestState]
        /\ \A p \in Requests :
             Knows(request[p])' /\ (request'[p].pc \in Copying => conn.store \in Stores)
    BY <2>1, <2>2, <2>3, MovesTyped
  <2>5. copy' \in [Products -> Row]
    <3>1. Absent \in Row
      BY DEF Absent, Row, WooAssumption
    <3>2. \A p \in Products : (IF Pruned(request[q].listed, p) THEN Absent ELSE copy[p]) \in Row
      BY <3>1 DEF Typed
    <3> QED BY <1>4, <3>2 DEF SyncPrunes
  <2>6. alone' \subseteq alone /\ UNCHANGED <<conn, shop, hooks, receipts, crossed>>
    BY <1>4 DEF SyncPrunes, Undisturbed
  <2> QED BY <2>4, <2>5, <2>6 DEF Typed
<1>5. CASE SyncFinishes(q) \/ SyncFails(q)
  <2>1. conn.store \in Stores /\ Ends(q)
    BY <1>0, <1>5 DEF SyncFinishes, SyncFails, Copying
  <2>2. conn' \in Link /\ conn'.store \in Stores
    <3>1. \/ conn' = conn
          \/ \E st \in {"CONNECTED", "ERROR"} : conn' = [conn EXCEPT !.status = st]
      BY <1>5 DEF SyncFinishes, SyncFails, Marked, AfterFailure
    <3>2. CASE conn' = conn
      BY <1>0, <2>1, <3>2
    <3>3. ASSUME NEW st \in {"CONNECTED", "ERROR"}, conn' = [conn EXCEPT !.status = st]
          PROVE  conn' \in Link /\ conn'.store \in Stores
      <4>1. [conn EXCEPT !.status = st] \in Link /\ [conn EXCEPT !.status = st].store = conn.store
        BY <1>0 DEF Link
      <4> QED BY <2>1, <3>3, <4>1
    <3> QED BY <3>1, <3>2, <3>3
  <2>3. /\ request' \in [Requests -> RequestState]
        /\ \A p \in Requests : Knows(request[p])'
    BY <2>1, EndsTyped
  <2>4. alone' \subseteq alone /\ UNCHANGED <<shop, hooks, copy, receipts, crossed>>
    BY <1>5 DEF SyncFinishes, SyncFails, Undisturbed
  <2> QED BY <2>2, <2>3, <2>4 DEF Typed
<1> QED BY <1>1, <1>2, <1>3, <1>4, <1>5

\* A delivery is accepted, and its product deleted, or fetched and written.
LEMMA WebhooksTyped ==
  ASSUME WooAssumption, Typed, ReceiptsKept, NEW q \in Requests,
         WebhookArrives(q) \/ WebhookReads(q) \/ WebhookFetches(q) \/ WebhookWrites(q)
  PROVE  Typed'
<1>0. /\ request[q] \in RequestState /\ Knows(request[q])
      /\ request[q].pc \in Copying => conn.store \in Stores /\ request[q].store \in Stores
  BY DEF Typed, Knows
<1>1. CASE WebhookArrives(q)
  <2>1. PICK d \in sent :
          /\ receipts' = receipts \cup {d}
          /\ \/ request' = [request EXCEPT ![q] = [Idle EXCEPT !.pc = "accepted",
                    !.product = d.product, !.version = IF d.deleted THEN 0 ELSE d.version]]
             \/ UNCHANGED request
    BY <1>1 DEF WebhookArrives
  <2>2. d \in Delivery
    BY DEF ReceiptsKept
  <2> DEFINE v == IF d.deleted THEN 0 ELSE d.version
             r == [Idle EXCEPT !.pc = "accepted", !.product = d.product, !.version = v]
  <2>3. v \in 0 .. MaxChanges /\ d.product \in Products /\ d.product \in 0 .. MaxProduct
    BY <2>2 DEF Delivery, Products, WooAssumption
  <2> HIDE DEF v
  <2>4. r \in RequestState /\ Knows(r) /\ r.pc \notin Copying
    <3>1. r \in RequestState /\ r.pc = "accepted" /\ r.product = d.product
      BY <2>3, FreeTyped DEF RequestState
    <3> HIDE DEF r
    <3> QED BY <2>3, <3>1 DEF Knows, Copying
  <2> HIDE DEF r
  <2>5. request' = [request EXCEPT ![q] = r] \/ UNCHANGED request
    BY <2>1 DEF r, v
  <2>6. UNCHANGED <<conn, shop, hooks, copy, crossed>> /\ alone' \subseteq alone
    BY <1>1 DEF WebhookArrives, Undisturbed
  <2>7. /\ request' \in [Requests -> RequestState]
        /\ \A p \in Requests :
             Knows(request[p])' /\ (request'[p].pc \in Copying => conn.store \in Stores)
    <3>1. CASE request' = [request EXCEPT ![q] = r]
      BY <2>4, <3>1, MovesTyped
    <3>2. CASE UNCHANGED request
      BY <3>2 DEF Typed, Knows
    <3> QED BY <2>5, <3>1, <3>2
  <2> QED BY <2>1, <2>2, <2>6, <2>7 DEF Typed
<1>2. CASE WebhookReads(q)
  <2>1. request[q].pc = "accepted" /\ request[q].product \in Products
    BY <1>0, <1>2 DEF WebhookReads, Knows
  <2> DEFINE r == [request[q] EXCEPT !.pc = "fetch", !.store = conn.store]
  <2>2. CASE ~Ends(q)
    <3>1. conn.store \in Stores /\ request' = [request EXCEPT ![q] = r] /\ UNCHANGED copy
      BY <1>2, <2>2 DEF WebhookReads, Credentials, Typed
    <3>2. r \in RequestState /\ Knows(r)
      BY <1>0, <2>1, <3>1 DEF RequestState, Knows
    <3> HIDE DEF r
    <3>3. /\ request' \in [Requests -> RequestState]
          /\ \A p \in Requests :
               Knows(request[p])' /\ (request'[p].pc \in Copying => conn.store \in Stores)
      BY <3>1, <3>2, MovesTyped
    <3> QED BY <1>2, <3>1, <3>3 DEF WebhookReads, Typed, Undisturbed
  <2>3. CASE Ends(q)
    <3>1. copy' \in [Products -> Row]
      <4>1. Absent \in Row
        BY DEF Absent, Row, WooAssumption
      <4>2. copy' = copy \/ copy' = [copy EXCEPT ![request[q].product] = Absent]
        BY <1>2 DEF WebhookReads
      <4> QED BY <4>1, <4>2 DEF Typed
    <3>2. /\ request' \in [Requests -> RequestState]
          /\ \A p \in Requests :
               Knows(request[p])' /\ (request'[p].pc \in Copying => conn.store \in Stores)
      BY <2>3, EndsTyped
    <3> QED BY <1>2, <3>1, <3>2 DEF WebhookReads, Typed, Undisturbed
  <2> QED BY <2>2, <2>3
<1>3. CASE WebhookFetches(q)
  <2> DEFINE v == shop[request[q].store][request[q].product]
             r == [request[q] EXCEPT !.pc = "write", !.version = v]
  <2>1. /\ request[q].pc = "fetch" /\ request[q].product \in Products
        /\ request[q].store \in Stores /\ conn.store \in Stores
    BY <1>0, <1>3 DEF WebhookFetches, Knows, Copying
  <2>2. v \in 0 .. MaxChanges
    BY <2>1 DEF Typed
  <2>3. Ends(q) \/ request' = [request EXCEPT ![q] = r]
    BY <1>3 DEF WebhookFetches
  <2> HIDE DEF v
  <2>4. r \in RequestState /\ Knows(r)
    BY <1>0, <2>1, <2>2 DEF RequestState, Knows
  <2> HIDE DEF r
  <2>5. /\ request' \in [Requests -> RequestState]
        /\ \A p \in Requests :
             Knows(request[p])' /\ (request'[p].pc \in Copying => conn.store \in Stores)
    BY <2>1, <2>3, <2>4, EndsTyped, MovesTyped
  <2> QED BY <1>3, <2>5 DEF WebhookFetches, Typed, Undisturbed
<1>4. CASE WebhookWrites(q)
  <2>1. [store |-> request[q].store, version |-> request[q].version] \in Row
    BY <1>0 DEF RequestState, Row
  <2>2. copy' \in [Products -> Row]
    BY <1>4, <2>1 DEF WebhookWrites, Typed
  <2>3. /\ request' \in [Requests -> RequestState]
        /\ \A p \in Requests :
             Knows(request[p])' /\ (request'[p].pc \in Copying => conn.store \in Stores)
    BY <1>4, EndsTyped DEF WebhookWrites
  <2> QED BY <1>4, <2>2, <2>3 DEF WebhookWrites, Typed, Undisturbed
<1> QED BY <1>1, <1>2, <1>3, <1>4

\* The tables and the requests keep their types, for every value of the constants.
THEOREM MirrorTypes == ASSUME WooAssumption PROVE Spec => []TypeOK
<1>1. Init => Typed /\ ReceiptsKept
  <2> SUFFICES ASSUME Init PROVE Typed /\ ReceiptsKept
    OBVIOUS
  <2>1. NoLink \in Link /\ Absent \in Row /\ Idle \in RequestState /\ Knows(Idle)
        /\ NoLink.status = "NONE" /\ Idle.pc \notin Copying
    BY DEF NoLink, Link, Absent, Row, Idle, RequestState, Knows, Copying, WooAssumption
  <2>2. shop \in [Stores -> [Products -> 0 .. MaxChanges]]
    BY DEF Init, WooAssumption
  <2>3. Typed
    BY <2>1, <2>2 DEF Init, Typed
  <2>4. ReceiptsKept
    BY DEF Init, ReceiptsKept, WooAssumption
  <2> QED BY <2>3, <2>4
<1>2. Typed /\ ReceiptsKept /\ [Next]_vars => (Typed /\ ReceiptsKept)'
  <2> SUFFICES ASSUME Typed, ReceiptsKept, [Next]_vars PROVE Typed'
    BY ReceiptsStep
  <2>1. ASSUME NEW q \in Requests, RequestStops(q) PROVE Typed'
    <3>1. /\ request' \in [Requests -> RequestState]
          /\ \A p \in Requests :
               Knows(request[p])' /\ (request'[p].pc \in Copying => conn.store \in Stores)
      BY <2>1, EndsTyped DEF RequestStops
    <3> QED BY <2>1, <3>1 DEF RequestStops, Typed
  <2>2. CASE Disconnects
    <3>1. /\ conn' = [conn EXCEPT !.status = "DISCONNECTED", !.keys = FALSE]
          /\ conn \in Link /\ conn.status # "NONE"
      BY <2>2 DEF Disconnects, Typed
    <3>2. conn' \in Link /\ conn'.store = conn.store /\ conn.store \in Stores
      BY <3>1 DEF Link, Typed
    <3> QED BY <2>2, <3>2 DEF Disconnects, Typed, Knows
  <2>3. CASE UNCHANGED vars
    BY <2>3 DEF vars, Typed, Knows
  <2> QED BY <2>1, <2>2, <2>3, ShopTyped, ConnectingTyped, SyncTyped, WebhooksTyped DEF Next
<1>3. Typed /\ ReceiptsKept => TypeOK
  BY DEF Typed, ReceiptsKept, TypeOK, Link, Row, RequestState
<1> QED BY <1>1, <1>2, <1>3, PTL DEF Spec
==============================================================================
