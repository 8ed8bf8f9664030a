--------------------------- MODULE MCIntegrations ---------------------------
(***************************************************************************)
(* Instances for TLC of what an organization connects and of its agenda.   *)
(* The parts share no state, so what one does cannot depend on the others: *)
(* part chooses one, and the others stay where they start.                 *)
(***************************************************************************)
EXTENDS Integers, Sequences, FiniteSets, TLC

CONSTANTS
  Parts,                      \* the parts that are checked
  Requests,                   \* requests in progress at once, in every part
  Keys, Users, Accounts, Sheets, Tabs,
  MaxRows,                    \* rows that are inserted, in every part
  MaxFlows, MaxRuns,          \* of the calendar and of the sheets
  MaxSaves, MaxStarts,        \* of the health of a connection
  \* The constants of the components, with a name each where two instances differ.
  BookingTurns, BookingSlots,
  SlotDay, SlotDuration, SlotHorizon, SlotClock, SlotRangeDays, SlotLimit,
  ShopNames, ShopProducts, ShopEdits, ShopLinks,
  TwoShopNames, TwoShopProducts, TwoShopChanges, TwoShopLinks,
  TiendaOrgs, TiendaShops, TiendaStates, TiendaEvents, TiendaBuckets

\* Which request is which makes no difference to any part.
RequestsAlike == Permutations(Requests)

\* Alternating days of one range, and of two ranges of which the second starts where the
\* first one ends, on the other day.
TwoSchedules ==
  {[d \in 0 .. 1 |-> {[start |-> 1, end |-> 6]}],
   [d \in 0 .. 1 |-> IF d = 0 THEN {} ELSE {[start |-> 0, end |-> 3], [start |-> 3, end |-> 6]}]}

VARIABLES
  part,   \* the part that moves
  bookingRow, event, bookingRequest, asked, delayed, late, created, calls, held,
  settings, zone, agenda, now, query, answer,
  state, account, googleConn, googleRequest, googleRows, saves,
  sheetsConn, run, sheetsRequest, sheetsRows, wrote,
  wooConn, shop, hooks, copy, wooSent, wooReceipts, wooRequest, changes, handled, alone, crossed,
  tiendaConn, states, tiendaSent, tiendaReceipts, tiendaRequest, bucket, off, suspended,
  tiendaReceived, refused,
  healthRow, attempt, starts, session, jobs, subscribed, healthReceived

bookingVars == <<bookingRow, event, bookingRequest, asked, delayed, late, created, calls, held>>
slotsVars == <<settings, zone, agenda, now, query, answer>>
googleVars == <<state, account, googleConn, googleRequest, googleRows, saves>>
sheetsVars == <<sheetsConn, run, sheetsRequest, sheetsRows, wrote>>
wooVars == <<wooConn, shop, hooks, copy, wooSent, wooReceipts, wooRequest, changes, handled,
  alone, crossed>>
tiendaVars == <<tiendaConn, states, tiendaSent, tiendaReceipts, tiendaRequest, bucket, off,
  suspended, tiendaReceived, refused>>
healthVars == <<healthRow, attempt, starts, session, jobs, subscribed, healthReceived>>

vars == <<part, bookingVars, slotsVars, googleVars, sheetsVars, wooVars, tiendaVars, healthVars>>

Booking == INSTANCE Appointments WITH
  MaxRequests <- BookingTurns, Slots <- BookingSlots, row <- bookingRow, request <- bookingRequest
Offer == INSTANCE Availability WITH
  Day <- SlotDay, Duration <- SlotDuration, Horizon <- SlotHorizon, Clock <- SlotClock,
  Schedules <- TwoSchedules, MaxRangeDays <- SlotRangeDays, MaxSlots <- SlotLimit
Calendar == INSTANCE GoogleConnection WITH
  conn <- googleConn, request <- googleRequest, rows <- googleRows
Sheet == INSTANCE SheetsSync WITH
  conn <- sheetsConn, request <- sheetsRequest, rows <- sheetsRows
Store == INSTANCE WooMirror WITH
  Stores <- ShopNames, MaxProduct <- ShopProducts, MaxChanges <- ShopEdits, MaxLinks <- ShopLinks,
  conn <- wooConn, sent <- wooSent, receipts <- wooReceipts, request <- wooRequest
Stores2 == INSTANCE WooMirror WITH
  Stores <- TwoShopNames, MaxProduct <- TwoShopProducts, MaxChanges <- TwoShopChanges,
  MaxLinks <- TwoShopLinks,
  conn <- wooConn, sent <- wooSent, receipts <- wooReceipts,
  request <- wooRequest
Tiendanube == INSTANCE TiendanubeLink WITH
  Orgs <- TiendaOrgs, Stores <- TiendaShops, MaxStates <- TiendaStates,
  MaxEvents <- TiendaEvents, MaxBuckets <- TiendaBuckets,
  conn <- tiendaConn, sent <- tiendaSent, receipts <- tiendaReceipts,
  request <- tiendaRequest, received <- tiendaReceived
Health == INSTANCE ConnectionHealth WITH
  row <- healthRow, received <- healthReceived

AllParts == {"booking", "slots", "calendar", "sheets", "store", "stores", "tiendanube", "health"}
ASSUME Bounds ==
  /\ Parts \subseteq AllParts
  /\ Booking!AppointmentsAssumption
  /\ Offer!AvailabilityAssumption
  /\ Calendar!GoogleAssumption
  /\ Sheet!SheetsAssumption
  /\ Store!WooAssumption
  /\ Stores2!WooAssumption
  /\ Tiendanube!TiendanubeAssumption
  /\ Health!HealthAssumption

Init ==
  /\ part \in Parts
  /\ Booking!Init
  /\ IF part = "slots" THEN Offer!Init
     ELSE settings = 0 /\ zone = 0 /\ agenda = {} /\ now = 0 /\ query = 0 /\ answer = 0
  /\ Calendar!Init
  /\ Sheet!Init
  /\ CASE part = "stores" -> Stores2!Init
       [] OTHER -> Store!Init
  /\ Tiendanube!Init
  /\ Health!Init

Next ==
  /\ part' = part
  /\ \/ /\ part = "booking" /\ Booking!Next
        /\ UNCHANGED <<slotsVars, googleVars, sheetsVars, wooVars, tiendaVars, healthVars>>
     \/ /\ part = "slots" /\ Offer!Next
        /\ UNCHANGED <<bookingVars, googleVars, sheetsVars, wooVars, tiendaVars, healthVars>>
     \/ /\ part = "calendar" /\ Calendar!Next
        /\ UNCHANGED <<bookingVars, slotsVars, sheetsVars, wooVars, tiendaVars, healthVars>>
     \/ /\ part = "sheets" /\ Sheet!Next
        /\ UNCHANGED <<bookingVars, slotsVars, googleVars, wooVars, tiendaVars, healthVars>>
     \/ /\ ((part = "store" /\ Store!Next) \/ (part = "stores" /\ Stores2!Next))
        /\ UNCHANGED <<bookingVars, slotsVars, googleVars, sheetsVars, tiendaVars, healthVars>>
     \/ /\ part = "tiendanube" /\ Tiendanube!Next
        /\ UNCHANGED <<bookingVars, slotsVars, googleVars, sheetsVars, wooVars, healthVars>>
     \/ /\ part = "health" /\ Health!Next
        /\ UNCHANGED <<bookingVars, slotsVars, googleVars, sheetsVars, wooVars, tiendaVars>>

Spec == Init /\ [][Next]_vars

------------------------------------------------------------------------------
\* Every part keeps the types of its state.
TypeOK ==
  /\ part = "booking" => Booking!TypeOK
  /\ part = "slots" => Offer!TypeOK
  /\ part = "calendar" => Calendar!TypeOK
  /\ part = "sheets" => Sheet!TypeOK
  /\ part = "store" => Store!TypeOK
  /\ part = "stores" => Stores2!TypeOK
  /\ part = "tiendanube" => Tiendanube!TypeOK
  /\ part = "health" => Health!TypeOK

\* Appointments against the calendar of Google:
\* - However often a booking is repeated, at the same time or after a failure
\*   or a cut-off, Google is asked for one event under its key
\*   (findByIdempotency, createPending).
\* - Two requests are never both changing one appointment in Google, nor
\*   recording what they did (claimOperation).
\* - Whatever failed, was lost or was cut off before, what is shown as standing
\*   or cancelled is so in the calendar, unless a call given up at its timeout
\*   took effect after it (completeReschedule, completeCancel, fail).
BookingKept ==
  /\ part = "booking" => /\ Booking!OneEventPerKey
                         /\ Booking!Exclusive
                         /\ Booking!AgreesWithCalendar

\* What the availability offers:
\* - Whatever the change of offset does to the day, a slot that is offered lasts
\*   what it should on the clock of the zone, inside one range of its date, far
\*   enough from everything in the calendar, and no two are the same local time.
\* - A slot that is offered in a wide window can be booked at once: the narrow
\*   window of the check computes the same grid (checkSlot).
\* - Nothing is hidden: what can be booked in the window is offered, unless its
\*   local time is offered already or the answer is full.
OffersKept ==
  /\ part = "slots" => /\ Offer!OffersHonest
                       /\ Offer!OffersBookable
                       /\ Offer!NothingHidden

\* The connection to Google and the export to its sheets:
\* - A state is good for one connection, even when its redirect is delivered
\*   twice at the same time ("El doble callback pierde la carrera en markUsed").
\* - The calendar stored was listed by an account that consented here.
\* - A run is exported by one request at a time, whoever else repeats its key,
\*   retries it after a failure or arrives together with it (the claim of
\*   syncGoogleSheets).
\* - A run that says SUCCEEDED has written every tab in the attempt it reports,
\*   so that answering "repeated" for its key loses nothing.
GoogleKept ==
  /\ part = "calendar" => /\ Calendar!OneConnectionPerState
                          /\ Calendar!CalendarWasListed
  /\ part = "sheets" => /\ Sheet!OneExporterPerRun
                        /\ Sheet!SucceededWroteAll

\* The stores an organization connects:
\* - However often the store repeats a delivery, it is processed once at most
\*   (the receipt of acceptWooCommerceWebhook).
\* - The copy holds rows of the connected store alone, unless a store was
\*   replaced under a request that was still in progress (connectWooCommerce).
\* - A store belongs to one organization, though two that connect it at once both
\*   find it free (connectTiendanube).
StoresKept ==
  /\ part = "store" => Store!ProcessedOnce
  /\ part = "stores" => Stores2!RowsOfConnectedStore
  /\ part = "tiendanube" => Tiendanube!OneOwnerPerStore

\* What the page says of the WhatsApp connection:
\* - What the page says is bad comes with an error, whichever write made it so.
\* - A number that works, or that was disconnected, shows no error of an earlier check of it.
\* - The page does not call a number operational while its last check says it is not.
HealthKept ==
  /\ part = "health" => /\ Health!TroubleExplained
                        /\ Health!SettledIsClean
                        /\ Health!OperationalIsChecked

\* What no step of the agenda, of Google or of a store does:
\* - A cancelled appointment is never brought back (claimOperation).
\* - A booking or a move is never committed over an appointment or an event that
\*   held the slot from before the request until then: the code has no lock on a slot,
\*   so two requests that overlap may both book it (checkSlot, and the wait between
\*   its two halves and the insert or the claim).
\* - A disconnection that waits for Google does not take away a connection that
\*   was inserted after it began (disconnectGoogleCalendar).
\* - A run that succeeded is never failed nor run again, though the audit that
\*   follows the success may throw into the catch that fails the run.
\* - Whatever webhooks lost or reordered before, a synchronization that nothing
\*   disturbs leaves exactly what is in the store (syncWooCommerce).
\* - After the application is uninstalled or disconnected no request takes the
\*   credentials until the organization connects again, although a
\*   synchronization that was running calls it connected (connectionCredentials).
\* - A number that changes hands shows no event of the provider that had it.
IntegrationSteps ==
  [][ /\ part = "booking" => /\ Booking!CancelledIsFinalStep
                             /\ Booking!BooksOverNothingHeldStep
      /\ part = "calendar" => Calendar!NewConnectionSurvivesStep
      /\ part = "sheets" => Sheet!SuccessIsKeptStep
      /\ part = "store" => Store!SyncRepairsStep
      /\ part = "tiendanube" => Tiendanube!NoUseAfterDisconnectStep
      /\ part = "health" => Health!TelemetryLeftStep ]_vars
================================================================================
