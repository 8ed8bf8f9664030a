---------------------------- MODULE ConnectionHealth ----------------------------
(***************************************************************************)
(* What the integrations page says of the number of an organization        *)
(* (integrations/diagnostics.ts): its status, the steps of its diagnostic  *)
(* and the last error.  The page is computed from the row of the number    *)
(* and the attempt of the popup, which the three ways to connect, the      *)
(* test, the disconnection and the webhook write at their own times.       *)
(***************************************************************************)
EXTENDS Naturals, FiniteSets

CONSTANTS
  MaxSaves,   \* bound: writes of lastSyncedAt
  MaxStarts   \* bound: attempts of the popup

\* What the constants must be, for the instances of this module.
HealthAssumption == {MaxSaves, MaxStarts} \subseteq Nat

VARIABLES
  row,        \* the integration of the number
  attempt,    \* the attempt of the popup
  starts,     \* attempts so far
  session,    \* a test or reconnection: what it read of the row, and its operation
  jobs,       \* webhook requests that found the row and have not touched it yet
  subscribed, \* the account is subscribed to the webhook, at Meta
  received    \* history: the provider of the row sent an event since it has the number

vars == <<row, attempt, starts, session, jobs, subscribed, received>>

Providers == {"META_CLOUD", "YCLOUD"}
Ways == {"EMBEDDED_SIGNUP", "MANUAL", "COEXISTENCE"}
Errors == {"none", "permissions_pending", "webhook_pending", "connection_unavailable"}
NoRow == [status |-> "NONE", provider |-> "META_CLOUD", way |-> "MANUAL", error |-> "none",
          subscribed |-> FALSE, webhook |-> FALSE, scopes |-> FALSE, synced |-> 0]
NoAttempt == [status |-> "NONE", live |-> FALSE, error |-> "none"]
Idle == [op |-> "none", read |-> NoRow]

\* Row, attempt and session keep their types.
Rows ==
  [status : {"NONE", "CONNECTED", "ACTION_REQUIRED", "ERROR", "DISCONNECTED"},
   provider : Providers, way : Ways, error : Errors, subscribed : BOOLEAN, webhook : BOOLEAN,
   scopes : BOOLEAN, synced : 0 .. MaxSaves]
TypeOK ==
  /\ row \in Rows
  /\ attempt \in [status : {"NONE", "AWAITING_CODE", "PROCESSING", "SUCCEEDED", "FAILED"},
                  live : BOOLEAN, error : {"none", "signup_cancelled", "invalid_code"}]
  /\ starts \in 0 .. MaxStarts
  /\ session \in [op : {"none", "test", "reconnect"}, read : Rows]
  /\ jobs \subseteq Providers
  /\ {subscribed, received} \subseteq BOOLEAN

Init ==
  /\ row = NoRow /\ attempt = NoAttempt /\ starts = 0
  /\ session = Idle /\ jobs = {} /\ subscribed = FALSE /\ received = FALSE

------------------------------------------------------------------------------
\* Mutation: the last event stays whoever sent it.
Carried(provider) == row.webhook
\* The last event is kept only by a connection with the same provider.
Kept(provider) == row.webhook /\ row.provider = provider

\* The number is saved by one of the three connections.
Saves(provider, way) ==
  /\ row.synced < MaxSaves
  /\ row' = [status |-> "CONNECTED", provider |-> provider, way |-> way, error |-> "none",
             subscribed |-> provider = "META_CLOUD"
                            \/ (row.provider = "YCLOUD" /\ row.subscribed),
             webhook |-> Kept(provider), scopes |-> provider = "META_CLOUD",
             synced |-> row.synced + 1]
  /\ received' = (received /\ row.provider = provider)
  /\ subscribed' = (subscribed \/ provider = "META_CLOUD")

ConnectsManually ==
  /\ Saves("META_CLOUD", "MANUAL")
  /\ UNCHANGED <<attempt, starts, session, jobs>>
ConnectsYCloud ==
  /\ Saves("YCLOUD", "COEXISTENCE")
  /\ UNCHANGED <<attempt, starts, session, jobs>>

Open(status) == attempt.status = status /\ attempt.live
\* The popup: start, cancellation, the claim of the code, its end, and the ten minutes.
Starts ==
  /\ starts < MaxStarts /\ ~ Open("AWAITING_CODE") /\ ~ Open("PROCESSING")
  /\ attempt' = [status |-> "AWAITING_CODE", live |-> TRUE, error |-> "none"]
  /\ starts' = starts + 1
  /\ UNCHANGED <<row, session, jobs, subscribed, received>>
Cancels ==
  /\ attempt.status = "AWAITING_CODE"
  /\ attempt' = [status |-> "FAILED", live |-> FALSE, error |-> "signup_cancelled"]
  /\ UNCHANGED <<row, starts, session, jobs, subscribed, received>>
Claims ==
  /\ Open("AWAITING_CODE")
  /\ attempt' = [attempt EXCEPT !.status = "PROCESSING"]
  /\ UNCHANGED <<row, starts, session, jobs, subscribed, received>>
CompletesSignup ==
  /\ attempt.status = "PROCESSING"
  /\ Saves("META_CLOUD", "EMBEDDED_SIGNUP")
  /\ attempt' = [attempt EXCEPT !.status = "SUCCEEDED", !.error = "none"]
  /\ UNCHANGED <<starts, session, jobs>>
\* Mutation: the attempt fails without its code.
Unexplained == [attempt EXCEPT !.status = "FAILED"]
WithCode == [attempt EXCEPT !.status = "FAILED", !.error = "invalid_code"]
FailsSignup ==
  /\ attempt.status = "PROCESSING"
  /\ attempt' = WithCode
  /\ subscribed' \in {subscribed, TRUE}
  /\ UNCHANGED <<row, starts, session, jobs, received>>
Expires ==
  /\ attempt.live
  /\ attempt' = [attempt EXCEPT !.live = FALSE]
  /\ UNCHANGED <<row, starts, session, jobs, subscribed, received>>

\* Mutation: the error stays in the row that was disconnected.
WithError == [row EXCEPT !.status = "DISCONNECTED"]
\* Mutation: with a status the schema does not have.
Disabled == [row EXCEPT !.status = "DISABLED", !.error = "none"]
Cleared == [row EXCEPT !.status = "DISCONNECTED", !.error = "none"]
Disconnects ==
  /\ row.status \in {"CONNECTED", "ACTION_REQUIRED", "ERROR"}
  /\ row' = Cleared
  /\ UNCHANGED <<attempt, starts, session, jobs, subscribed, received>>

\* A test or reconnection reads the row and asks the provider.
Begins ==
  /\ session.op = "none" /\ row.status # "NONE"
  /\ \E op \in {"test", "reconnect"} : session' = [op |-> op, read |-> row]
  /\ UNCHANGED <<row, attempt, starts, jobs, subscribed, received>>

\* The row still has the status and the configuration that were read, with their date.
Same == \A field \in {"status", "provider", "way", "synced"} : row[field] = session.read[field]
Embedded == session.read.way = "EMBEDDED_SIGNUP"
\* The provider accepts: a test of the popup's connection needs the subscription, which a
\* reconnection makes again.
Accepted ==
  /\ session.op # "none" /\ row.synced < MaxSaves
  /\ Embedded => subscribed \/ session.op = "reconnect"
  /\ row' = IF Same
            THEN [row EXCEPT !.status = "CONNECTED", !.error = "none", !.synced = @ + 1,
                             !.subscribed = @ \/ Embedded, !.scopes = @ \/ Embedded]
            ELSE row
  /\ subscribed' = (subscribed \/ Embedded)
  /\ session' = Idle
  /\ UNCHANGED <<attempt, starts, jobs, received>>
\* It refuses, or does not answer: the reason and the status that follows from it.
Refused ==
  /\ session.op # "none"
  /\ \E error \in Errors \ {"none"} :
       /\ error = "webhook_pending" => Embedded /\ ~ subscribed /\ session.op = "test"
       /\ error = "permissions_pending" => Embedded
       /\ row' = IF Same
                 THEN [row EXCEPT !.error = error,
                         !.status = IF error = "connection_unavailable" THEN "ERROR"
                                    ELSE "ACTION_REQUIRED"]
                 ELSE row
  /\ session' = Idle
  /\ UNCHANGED <<attempt, starts, jobs, subscribed, received>>

\* The row of an event is the one of its number, when the provider is the row's.
Resolves(provider) == row.status # "NONE" /\ row.provider = provider

\* A signed event of a provider finds the row by its number and provider.
Arrives(provider) ==
  /\ Resolves(provider)
  /\ jobs' = jobs \cup {provider}
  /\ received' = TRUE
  /\ UNCHANGED <<row, attempt, starts, session, subscribed>>
\* touchWhatsappIntegration, at the end of the request.
Touches(provider) ==
  /\ provider \in jobs
  /\ jobs' = jobs \ {provider}
  /\ row' = [row EXCEPT !.webhook = TRUE]
  /\ UNCHANGED <<attempt, starts, session, subscribed, received>>

Unsubscribes ==
  /\ subscribed /\ subscribed' = FALSE
  /\ UNCHANGED <<row, attempt, starts, session, jobs, received>>

Next ==
  \/ ConnectsManually \/ ConnectsYCloud \/ Starts \/ Cancels \/ Claims \/ CompletesSignup
  \/ FailsSignup \/ Expires \/ Disconnects \/ Begins \/ Accepted \/ Refused \/ Unsubscribes
  \/ \E provider \in Providers : Arrives(provider) \/ Touches(provider)
Spec == Init /\ [][Next]_vars

------------------------------------------------------------------------------
(***************************************************************************)
(* The page.                                                               *)
(***************************************************************************)
\* Mutation: every number that was not disconnected.
NotDisconnected == row.status \notin {"NONE", "DISCONNECTED"}
Connected == row.status = "CONNECTED"
Active(status) == attempt.live /\ attempt.status = status

\* resolveWhatsappStatus, of a server that is configured.
Status ==
  IF Active("PROCESSING") \/ Active("AWAITING_CODE") THEN "connecting"
  ELSE IF Connected THEN "connected"
  ELSE IF row.status = "ERROR" THEN "error"
  ELSE IF row.status = "ACTION_REQUIRED" \/ Active("FAILED") THEN "action_required"
  ELSE IF row.status = "DISCONNECTED" THEN "disconnected" ELSE "not_connected"

\* The error of the row, else that of the attempt that failed.
LastError ==
  IF row.error # "none" THEN row.error
  ELSE IF Active("FAILED") THEN attempt.error ELSE "none"

WebhookReady ==
  row.status # "NONE" /\ (row.webhook \/ (row.provider = "META_CLOUD" /\ row.subscribed))
Permissions == row.scopes \/ (Connected /\ (row.provider = "YCLOUD" \/ row.way = "MANUAL"))
Steps ==
  IF row.provider = "YCLOUD" THEN {Connected, WebhookReady}
  ELSE {Permissions, Connected, WebhookReady}
\* diagnosticState.
Diagnostic ==
  IF row.status = "ERROR" THEN "error"
  ELSE IF FALSE \in Steps THEN "pending" ELSE "operational"

\* What the page says is bad comes with an error, whichever write made it so.
TroubleExplained == Status \in {"action_required", "error"} => LastError # "none"

\* A number that works, or that was disconnected, shows no error of an earlier check of it.
SettledIsClean == row.status \in {"CONNECTED", "DISCONNECTED"} => row.error = "none"

\* The page does not call a number operational while its last check says it is not.
OperationalIsChecked == Diagnostic = "operational" => row.error = "none"

\* A number that changes hands shows no event of the provider that had it.
TelemetryLeftStep ==
  row'.provider # row.provider => ~ row'.webhook
TelemetryLeft == [][TelemetryLeftStep]_vars

\* "VantixApp recibió eventos firmados de YCloud": it did.
YCloudEventsReceived ==
  row.provider = "YCLOUD" /\ WebhookReady => received

\* "La recepción de eventos está preparada": not while the last check found it pending.
WebhookOfCheck == row.error = "webhook_pending" => ~ WebhookReady
================================================================================
