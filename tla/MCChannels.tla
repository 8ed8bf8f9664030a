----------------------------- MODULE MCChannels -----------------------------
(***************************************************************************)
(* Instances for TLC of the channel, the conversations, the assistant and  *)
(* the batches of the automation.  The parts share no state: part chooses  *)
(* the one that moves.  Some of them are checked for what must happen in   *)
(* the end, under FairSpec.                                                *)
(***************************************************************************)
EXTENDS Integers, Sequences, FiniteSets, TLC

CONSTANTS
  Parts,     \* the parts that are checked
  Requests,  \* requests, turns, tabs or cards in progress at once
  None,
  \* The constants of the components, with a name each where two instances differ.
  LinkNumbers, LinkCodes, ConnectionClock, ConnectionSigners, ConnectionForeign,
  ConnectionAttempts, SignupClock, SignupForeign, SignupSessions, SignupAttempts,
  AssetWabas, AssetNumbers, AssetPage, AssetPages, AssetOperations, AssetChanges,
  PopupAttempts, PopupClicks,
  Phones, Customers, PayloadChanges, MaxTries,
  BatchLengths, ReceiptMessages, MaxConversations, IngestRetries, InboxSteps,
  MaxMessages, Webhooks,
  ChatTurns, PlanAnswers, TurnMonths, TurnSteps, QuotaSteps,
  TagNames, MoreNames, Tags, Targets, MaxTags, MaxApplied,
  Screeners, MaxTexts, ScreenRows, ScreenLimit,
  InboxSize, InboxPage, PagesTime,
  HistoryLength, RoundCalls, RoundTools, RoundAsks,
  BatchEvents, BatchSuspended, BatchLimit, BatchAttempts, BatchTime

\* Which request is which makes no difference to any part.
RequestsAlike == Permutations(Requests)
\* The batches of Meta, and those of YCloud, which bring one message each.
Batched == {[i \in 1 .. n |-> i] : n \in BatchLengths}
Single == {<<m>> : m \in 1 .. ReceiptMessages}
\* Who wrote the last messages of a conversation.
Beginnings == UNION {[1 .. n -> {"user", "assistant"}] : n \in 0 .. HistoryLength}

VARIABLES
  part,   \* the part that moves
  linkRow, pending, linkClock, linkAttempt, linkRequest, session, linkExchanged, connections,
  cancelled, renewed, dropped,
  home, granted, token, subscribed, check, changes, still, stayed,
  popupAttempt, jar, card, call, cancels, clicks, popupRunning, popupExchanged,
  body, next, events, answer, tries,
  inboxConversation, inboxRow, inboxRequest, inboxReader, receipts, answered, scheduled,
  inboxActions,
  message, sender, webhook, taken, reported,
  turnConversation, usage, month, turn, turnActions,
  name, applied, crmRequest, refused,
  rows, open, tab, written, erased,
  last, pagesClock, pagesReader,
  pc, runClock, calls, rounds, offered, log, ended, flag, handed, told,
  now, event, todo, batchRunning

linkVars == <<linkRow, pending, linkClock, linkAttempt, linkRequest, session, linkExchanged,
  connections, cancelled, renewed, dropped>>
assetsVars == <<home, granted, token, subscribed, check, changes, still, stayed>>
popupVars == <<popupAttempt, jar, card, call, cancels, clicks, popupRunning, popupExchanged>>
payloadVars == <<body, next, events, answer, tries>>
inboxVars == <<inboxConversation, inboxRow, inboxRequest, inboxReader, receipts, answered,
  scheduled, inboxActions>>
deliveryVars == <<message, sender, webhook, taken, reported>>
turnVars == <<turnConversation, usage, month, turn, turnActions>>
crmVars == <<name, applied, crmRequest, refused>>
threadVars == <<rows, open, tab, written, erased>>
pagesVars == <<last, pagesClock, pagesReader>>
runVars == <<pc, runClock, calls, rounds, offered, log, ended, flag, handed, told>>
batchVars == <<now, event, todo, batchRunning>>

vars == <<part, linkVars, assetsVars, popupVars, payloadVars, inboxVars, deliveryVars,
  turnVars, crmVars, threadVars, pagesVars, runVars, batchVars>>

Connections == INSTANCE WhatsappConnection WITH
  Numbers <- LinkNumbers, Foreign <- ConnectionForeign, Codes <- LinkCodes,
  Requests <- ConnectionSigners, Sessions <- Requests, MaxAttempts <- ConnectionAttempts,
  MaxClock <- ConnectionClock, row <- linkRow, clock <- linkClock,
  attempt <- linkAttempt, request <- linkRequest, exchanged <- linkExchanged
Signup == INSTANCE WhatsappConnection WITH
  Numbers <- LinkNumbers, Foreign <- SignupForeign, Codes <- LinkCodes,
  Requests <- Requests, Sessions <- SignupSessions, MaxAttempts <- SignupAttempts,
  MaxClock <- SignupClock, row <- linkRow, clock <- linkClock,
  attempt <- linkAttempt, request <- linkRequest, exchanged <- linkExchanged
Assets == INSTANCE ChannelAssets WITH
  Wabas <- AssetWabas, MaxNumber <- AssetNumbers, PageSize <- AssetPage, MaxPages <- AssetPages,
  Operations <- AssetOperations, MaxChanges <- AssetChanges
Popups == INSTANCE SignupPopup WITH
  Cards <- Requests, MaxAttempts <- PopupAttempts, MaxClicks <- PopupClicks,
  attempt <- popupAttempt, running <- popupRunning, exchanged <- popupExchanged
Payload == INSTANCE WebhookPayload WITH
  MaxChanges <- PayloadChanges
Inbox == INSTANCE WhatsappInbox WITH
  MaxActions <- InboxSteps, Retries <- IngestRetries, Provider <- "META_CLOUD", Batches <- Batched,
  conversation <- inboxConversation,
  row <- inboxRow, request <- inboxRequest, reader <- inboxReader, actions <- inboxActions
Receipts == INSTANCE WhatsappInbox WITH
  MaxActions <- InboxSteps, Retries <- IngestRetries, Provider <- "YCLOUD", Batches <- Single,
  conversation <- inboxConversation,
  row <- inboxRow, request <- inboxRequest, reader <- inboxReader, actions <- inboxActions
Delivery == INSTANCE MessageDelivery WITH
  Senders <- Requests, Provider <- "META_CLOUD"
Answers == INSTANCE AssistantTurn WITH
  WhatsappTurns <- Requests, Limit <- PlanAnswers, Months <- TurnMonths,
  MaxActions <- TurnSteps, conversation <- turnConversation, actions <- turnActions
Quota == INSTANCE AssistantTurn WITH
  WhatsappTurns <- Requests, Limit <- PlanAnswers, Months <- 1,
  MaxActions <- QuotaSteps, conversation <- turnConversation, actions <- turnActions
Tagging == INSTANCE CrmTags WITH
  Names <- TagNames, request <- crmRequest
OneTagging == INSTANCE CrmTags WITH
  Requests <- {"q"}, Names <- MoreNames, request <- crmRequest
Screens == INSTANCE ThreadView WITH
  Tabs <- Screeners, MaxRows <- ScreenRows, Limit <- ScreenLimit
Pages == INSTANCE InboxPages WITH
  Size <- InboxSize, PageSize <- InboxPage, MaxTime <- PagesTime,
  clock <- pagesClock, reader <- pagesReader
Rounds == INSTANCE AgentRun WITH
  Provider <- "anthropic", Histories <- Beginnings, CallTimes <- 0 .. RoundCalls,
  ToolTimes <- RoundTools, Deadline <- 25, MinCall <- 3, ToolsMin <- 12,
  MaxTools <- RoundAsks, clock <- runClock
Retried == INSTANCE AgentRun WITH
  Provider <- "openai", Histories <- {<<>>}, CallTimes <- {1, 60}, ToolTimes <- RoundTools,
  Deadline <- 25, MinCall <- 3, ToolsMin <- 12, MaxTools <- 1, clock <- runClock
Batches == INSTANCE DispatchBatch WITH
  Dispatchers <- {"d"}, Events <- BatchEvents, Suspended <- BatchSuspended,
  Limit <- BatchLimit, MaxAttempts <- BatchAttempts, MaxTime <- BatchTime, NoOne <- None,
  running <- batchRunning

AllParts == {"connections", "signup", "assets", "popups", "payloads", "inbox",
  "receipts", "delivery", "turns", "quota", "tagging", "tags", "screens", "pages",
  "rounds", "answer", "batches"}
ASSUME Bounds ==
  /\ Parts \subseteq AllParts
  /\ Connections!ConnectionAssumption
  /\ Signup!ConnectionAssumption
  /\ Assets!AssetsAssumption
  /\ Popups!PopupAssumption
  /\ Payload!PayloadAssumption
  /\ Inbox!InboxAssumption
  /\ Receipts!InboxAssumption
  /\ Delivery!DeliveryAssumption
  /\ Answers!TurnAssumption
  /\ Quota!TurnAssumption
  /\ Tagging!CrmTagsAssumption
  /\ OneTagging!CrmTagsAssumption
  /\ Screens!ThreadViewAssumption
  /\ Pages!InboxPagesAssumption
  /\ Rounds!RunAssumption
  /\ Retried!RunAssumption
  /\ Batches!DispatchBatchAssumption
  \* A tool of a run is a request of ten seconds and a transaction of five, at most.
  /\ RoundTools \subseteq 0 .. 15

Init ==
  /\ part \in Parts
  /\ CASE part = "signup" -> Signup!Init
       [] OTHER -> Connections!Init
  /\ IF part = "assets" THEN Assets!Init
     ELSE home = 0 /\ granted = {} /\ token = 0 /\ subscribed = {} /\ check = 0 /\ changes = 0 /\ still = TRUE /\ stayed = {}
  /\ Popups!Init
  /\ IF part = "payloads" THEN Payload!Init
     ELSE body = 0 /\ next = 0 /\ events = <<>> /\ answer = 0 /\ tries = 0
  /\ CASE part = "receipts" -> Receipts!Init
       [] OTHER -> Inbox!Init
  /\ Delivery!Init
  /\ CASE part = "quota" -> Quota!Init
       [] OTHER -> Answers!Init
  /\ CASE part = "tags" -> OneTagging!Init
       [] OTHER -> Tagging!Init
  /\ Screens!Init
  /\ IF part = "pages" THEN Pages!Init
     ELSE last = 0 /\ pagesClock = 0 /\ pagesReader = 0
  /\ CASE part = "rounds" -> Rounds!Init
       [] part = "answer" -> Retried!Init
       [] OTHER -> pc = "loop" /\ runClock = 0 /\ calls = 0 /\ rounds = 0 /\ offered = FALSE /\ log = <<Retried!Message("user", {}, {})>> /\ ended = {} /\ flag = FALSE /\ handed = FALSE /\ told = FALSE
  /\ Batches!Init

Next ==
  /\ part' = part
  /\ \/ /\ ((part = "connections" /\ Connections!Next) \/ (part = "signup" /\ Signup!Next))
        /\ UNCHANGED <<assetsVars, popupVars, payloadVars, inboxVars, deliveryVars, turnVars,
                       crmVars, threadVars, pagesVars, runVars, batchVars>>
     \/ /\ part = "assets" /\ Assets!Next
        /\ UNCHANGED <<linkVars, popupVars, payloadVars, inboxVars, deliveryVars, turnVars,
                       crmVars, threadVars, pagesVars, runVars, batchVars>>
     \/ /\ part = "popups" /\ Popups!Next
        /\ UNCHANGED <<linkVars, assetsVars, payloadVars, inboxVars, deliveryVars, turnVars,
                       crmVars, threadVars, pagesVars, runVars, batchVars>>
     \/ /\ part = "payloads" /\ Payload!Next
        /\ UNCHANGED <<linkVars, assetsVars, popupVars, inboxVars, deliveryVars, turnVars,
                       crmVars, threadVars, pagesVars, runVars, batchVars>>
     \/ /\ ((part = "inbox" /\ Inbox!Next) \/ (part = "receipts" /\ Receipts!Next))
        /\ UNCHANGED <<linkVars, assetsVars, popupVars, payloadVars, deliveryVars, turnVars,
                       crmVars, threadVars, pagesVars, runVars, batchVars>>
     \/ /\ part = "delivery" /\ Delivery!Next
        /\ UNCHANGED <<linkVars, assetsVars, popupVars, payloadVars, inboxVars, turnVars,
                       crmVars, threadVars, pagesVars, runVars, batchVars>>
     \/ /\ ((part = "turns" /\ Answers!Next) \/ (part = "quota" /\ Quota!Next))
        /\ UNCHANGED <<linkVars, assetsVars, popupVars, payloadVars, inboxVars, deliveryVars,
                       crmVars, threadVars, pagesVars, runVars, batchVars>>
     \/ /\ ((part = "tagging" /\ Tagging!Next) \/ (part = "tags" /\ OneTagging!Next))
        /\ UNCHANGED <<linkVars, assetsVars, popupVars, payloadVars, inboxVars, deliveryVars,
                       turnVars, threadVars, pagesVars, runVars, batchVars>>
     \/ /\ part = "screens" /\ Screens!Next
        /\ UNCHANGED <<linkVars, assetsVars, popupVars, payloadVars, inboxVars, deliveryVars,
                       turnVars, crmVars, pagesVars, runVars, batchVars>>
     \/ /\ part = "pages" /\ Pages!Next
        /\ UNCHANGED <<linkVars, assetsVars, popupVars, payloadVars, inboxVars, deliveryVars,
                       turnVars, crmVars, threadVars, runVars, batchVars>>
     \/ /\ ((part = "rounds" /\ Rounds!Next) \/ (part = "answer" /\ Retried!Next))
        /\ UNCHANGED <<linkVars, assetsVars, popupVars, payloadVars, inboxVars, deliveryVars,
                       turnVars, crmVars, threadVars, pagesVars, batchVars>>
     \/ /\ part = "batches" /\ Batches!Next
        /\ UNCHANGED <<linkVars, assetsVars, popupVars, payloadVars, inboxVars, deliveryVars,
                       turnVars, crmVars, threadVars, pagesVars, runVars>>

Spec == Init /\ [][Next]_vars

\* The fairness each part states, of the part that moves.
FairSpec ==
  /\ Spec
  /\ \A c \in Requests :
       /\ WF_popupVars(part = "popups" /\ Popups!Ends(c))
       /\ WF_popupVars(part = "popups" /\ Popups!Answered(c))
  /\ \A a \in 1 .. PopupAttempts : WF_popupVars(part = "popups" /\ \E ok \in BOOLEAN : Popups!Exchanged(a, ok))
  /\ WF_popupVars(part = "popups" /\ \E x \in cancels : Popups!Cancelled(x) \/ Popups!CancelLost(x))
  /\ \A m \in 1 .. ScreenRows : WF_threadVars(part = "screens" /\ Screens!Ends(m))
  /\ \A t \in Screeners :
       /\ SF_threadVars(part = "screens" /\ Screens!Refreshes(t))
       /\ SF_threadVars(part = "screens" /\ Screens!Renders(t))
       /\ SF_threadVars(part = "screens" /\ Screens!Answered(t))
       /\ WF_threadVars(part = "screens" /\ Screens!Request(t).kind # "refresh" /\ Screens!Fails(t))
  /\ WF_runVars(part = "answer" /\ Retried!Next)
  /\ WF_batchVars(part = "batches" /\ Batches!Tick)
  /\ WF_batchVars(part = "batches" /\ Batches!Starts("d"))
  /\ WF_batchVars(part = "batches" /\ Batches!Ends("d"))
  /\ \A e \in BatchEvents : /\ SF_batchVars(part = "batches" /\ Batches!Claims("d", e))
                             /\ WF_batchVars(part = "batches" /\ Batches!Answers("d", e))

------------------------------------------------------------------------------
\* Every part keeps the types of its state.
TypeOK ==
  /\ part = "connections" => Connections!TypeOK
  /\ part = "signup" => Signup!TypeOK
  /\ part = "assets" => Assets!TypeOK
  /\ part = "popups" => Popups!TypeOK
  /\ part = "payloads" => Payload!TypeOK
  /\ part = "inbox" => Inbox!TypeOK
  /\ part = "receipts" => Receipts!TypeOK
  /\ part = "delivery" => Delivery!TypeOK
  /\ part = "turns" => Answers!TypeOK
  /\ part = "quota" => Quota!TypeOK
  /\ part = "tagging" => Tagging!TypeOK
  /\ part = "tags" => OneTagging!TypeOK
  /\ part = "screens" => Screens!TypeOK
  /\ part = "pages" => Pages!TypeOK
  /\ part = "rounds" => Rounds!TypeOK
  /\ part = "answer" => Retried!TypeOK
  /\ part = "batches" => Batches!TypeOK

\* Connecting a number, from its popup to the row in force:
\* - However connections, tests and disconnections interleave, one number at most is in
\*   force: two would make every later operation refuse the organization as ambiguous.
\* - A number that is not connected leaves no follow-up waiting to be sent over it.
\* - A code is exchanged once in an attempt, and an attempt connects once, not at all when
\*   the user cancelled it: neither a late answer of Meta nor a second tab adds another.
\* - While nothing changes at the provider, an operation that accepts a connection is right
\*   about it: the token is valid and was granted the account, the number is of the account,
\*   the only one where the popup chose it, and the webhook receives its messages, except for
\*   the number that is only read.
\* - While nothing changes, an operation that refuses a connection has a reason: what it
\*   answers is wrong is wrong.
\* - A number the form names, that stays in its account while the pages are read and is within
\*   reach of them, is found however the other numbers come and go.
\* - An attempt is exchanged with Meta at most once, whatever the cards hand in.
ConnectionKept ==
  /\ part = "connections" => /\ Connections!OneActive
                             /\ Connections!NoFollowUpLeft
  /\ part = "signup" => Signup!OncePerAttempt
  /\ part = "assets" => /\ Assets!AcceptedIsTrue
                        /\ Assets!RefusedIsTrue
                        /\ Assets!WalkFindsWhatStays
  /\ part = "popups" => Popups!OneExchange

\* The messages that come in:
\* - A batch answered 200 gave one event for each message and status of its "messages"
\*   changes, in the order of the batch, and nothing for the other fields.
\* - A message whose sender is among the contacts of its change is of that customer,
\*   whoever else the change names.
\* - However often the provider repeats a batch, each message is answered by at
\*   most one run of the assistant.
\* - The counter of a conversation nobody is opening hides no message to read.
\* - The same of YCloud, whose deliveries bring one message each and have a receipt.
MessagesIn ==
  /\ part = "payloads" => /\ Payload!OneEventEach
                          /\ Payload!SenderKept
  /\ part = "inbox" => /\ Inbox!ScheduledOnce
                       /\ Inbox!NoneHidden
  /\ part = "receipts" => Receipts!ScheduledOnce

\* The answers that go out and the assistant that writes them:
\* - Whoever delivers a reserved message, and however many at once, the provider
\*   is given it once (the claim of deliverPreparedWhatsappMessage).
\* - Concurrent turns never get more answers out of a month than the plan includes.
\* - What the code says of a failure of the model: it consumes nothing of the plan.
\*   A month counts the turns it let run, less those that gave their unit back.
\* - What is sent to Anthropic begins with the customer, and every tool that was asked for has its
\*   result in the message that follows; it is refused otherwise.
\* - The last call offers no tools, so a run is three calls at most.
\* - A result that tells of the team never comes without the handoff.
\* - The run ends before the server is stopped at sixty seconds.
AnswersKept ==
  /\ part = "delivery" => Delivery!GivenOnce
  /\ part = "quota" => /\ Quota!WithinPlan
                       /\ Quota!FailuresFree
  /\ part = "rounds" => /\ Rounds!WellFormed
                        /\ Rounds!FewCalls
                        /\ Rounds!NeverToldAlone
                        /\ Rounds!EndsInTime

\* Tags, the thread on a screen and the pages of the inbox:
\* - No two tags of an organization have one name, whatever is created and renamed at once.
\* - What is applied is a tag of the catalogue, whatever is deleted at once.
\* - "Llegaste al máximo de ... etiquetas."
\* - "Una conversación puede tener hasta ... etiquetas."
\* - "El texto quedó guardado": what the composer erased, the provider took.
\* - A conversation without new messages is on some page, whatever moved around it.
InboxKept ==
  /\ part = "tagging" => /\ Tagging!UniqueNames
                         /\ Tagging!AppliedExists
  /\ part = "tags" => /\ OneTagging!CatalogueLimit
                      /\ OneTagging!AppliedLimit
  /\ part = "screens" => Screens!NothingLost
  /\ part = "pages" => Pages!QuietShown

\* What no step of the channel does:
\* - The verdict of a check is not written over a connection saved since it was read, whose
\*   credentials are others.
\* - The test of a stored connection changes nothing at the provider: only a connection that
\*   the user asked for subscribes the webhook to an account.
\* - A cancellation never touches an attempt whose code is being exchanged: what was claimed is
\*   ended by the request that claimed it.
\* - Two messages of a customer never open two conversations, and a repeated one
\*   opens none: a conversation is created when no other is open.
\* - What the README says of the statuses, of every write there is: they never go
\*   back, however the provider repeats and disorders them.
\* - Whoever takes a conversation while the model works is not talked over: the
\*   automatic answer to WhatsApp is not sent.
\* - A bubble of the screen goes only when the conversation has Limit newer messages.
\* - "Backoff exponencial": an event is not attempted before its time.
ChannelSteps ==
  [][ /\ part = "connections" => Connections!VerdictOfReadStep
      /\ part = "assets" => Assets!TestOnlyReadsStep
      /\ part = "popups" => Popups!ExchangeUndisturbedStep
      /\ part = "receipts" => Receipts!CreatedAloneStep
      /\ part = "delivery" => Delivery!NeverBackStep
      /\ part = "turns" => Answers!NotTalkedOverStep
      /\ part = "screens" => Screens!NeverHiddenStep
      /\ part = "batches" => Batches!BackoffKeptStep ]_vars

\* A card that works on a connection becomes usable again.
BusyEnds == part = "popups" => Popups!BusyEnds

\* "La bandeja se actualiza automáticamente": every message reaches every tab, or Limit
\* newer ones do.
Followed == part = "screens" => Screens!Followed

\* Every run ends.
Finishes == part = "answer" => Retried!Finishes

\* "evita ... starvation": an event of an organization with entitlement is attempted.
Attended == part = "batches" => Batches!Attended
================================================================================
