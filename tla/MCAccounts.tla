----------------------------- MODULE MCAccounts -----------------------------
(***************************************************************************)
(* Instances for TLC of accounts, organizations, plans and what the panel  *)
(* edits.  The parts share no state: part chooses the one that moves.      *)
(***************************************************************************)
EXTENDS Integers, Sequences, FiniteSets, TLC

CONSTANTS
  Parts,     \* the parts that are checked
  Requests,  \* requests in progress at once, in the parts that take more than one
  \* The constants of the components, with a name each where two instances differ.
  People, Founder, ManySeats, FewSeats, MaxInvitations,
  Limit, Window, ShortTime, LongTime, MaxCount,
  MaxVerifications, MaxResets,
  Persons, Orgs, InvitedOrgs, Duration, MemberTime, GuestTime, NoOne,
  TrialOrgs, Day, Hour, Ends,
  FewCheckouts, MaxCheckouts, MaxVersion, FewEvents, MaxEvents,
  MaxFiles,
  Fields, Refreshed, Values, MaxSaves,
  Configs, MaxProbes,
  CatalogMembers, MaxItems, MaxSubmits, FewSubmits, MaxChoices,
  Conversations, DayTicks, Offset, MonthDays, FiguresTime

\* Which request is which makes no difference to any part.
RequestsAlike == Permutations(Requests)

VARIABLES
  part,   \* the part that moves
  open, team, role, invitation, teamRequest,
  authNow, authRow, authRequest, allowed,
  link, last, issuer, consumer, uses, verified,
  firstNow, org, member, firstTrial, lock, firstRequest, opened,
  data, onboardingRow, onboardingRequest,
  reminderNow, reminderRow, end, reserved, mailed, job, ran,
  local, billingTrial, snapshot, remote, billingRequest, events,
  doc, files, uploads, knowledgeRequest,
  rule, panel,
  config, probe, connection, probesRequest,
  item, page, submits, filter, wanted, choices,
  metricsNow, conversation, passed

teamVars == <<open, team, role, invitation, teamRequest>>
authVars == <<authNow, authRow, authRequest, allowed>>
mailVars == <<link, last, issuer, consumer, uses, verified>>
firstVars == <<firstNow, org, member, firstTrial, lock, firstRequest, opened>>
onboardingVars == <<data, onboardingRow, onboardingRequest>>
reminderVars == <<reminderNow, reminderRow, end, reserved, mailed, job, ran>>
billingVars == <<local, billingTrial, snapshot, remote, billingRequest, events>>
knowledgeVars == <<doc, files, uploads, knowledgeRequest>>
rulesVars == <<rule, panel>>
probesVars == <<config, probe, connection, probesRequest>>
catalogVars == <<item, page, submits, filter, wanted, choices>>
metricsVars == <<metricsNow, conversation, passed>>

vars == <<part, teamVars, authVars, mailVars, firstVars, onboardingVars, reminderVars,
  billingVars, knowledgeVars, rulesVars, probesVars, catalogVars, metricsVars>>

Roster == INSTANCE Team WITH
  Requests <- {"q"}, Seats <- ManySeats, request <- teamRequest
Seated == INSTANCE Team WITH
  Requests <- {"q"}, Seats <- FewSeats, request <- teamRequest
Throttle == INSTANCE AuthThrottle WITH
  MaxTime <- ShortTime, now <- authNow, row <- authRow, request <- authRequest
Attempts == INSTANCE AuthThrottle WITH
  Requests <- {"q"}, MaxTime <- LongTime, now <- authNow, row <- authRow,
  request <- authRequest
Verification == INSTANCE EmailLinks WITH
  MaxLinks <- MaxVerifications, Issuers <- {"i"}, Consumers <- Requests, Kind <- "verification"
Reset == INSTANCE EmailLinks WITH
  MaxLinks <- MaxResets, Issuers <- {"i"}, Consumers <- Requests, Kind <- "reset"
First == INSTANCE FirstOrganization WITH
  Invited <- {}, MaxTime <- MemberTime, now <- firstNow, trial <- firstTrial,
  request <- firstRequest
Guest == INSTANCE FirstOrganization WITH
  Invited <- InvitedOrgs, Requests <- {"q"}, MaxTime <- GuestTime, now <- firstNow,
  trial <- firstTrial, request <- firstRequest
Onboarding == INSTANCE OnboardingProgress WITH
  row <- onboardingRow, request <- onboardingRequest
Skips == INSTANCE OnboardingProgress WITH
  Requests <- {"q"}, row <- onboardingRow, request <- onboardingRequest
Reminders == INSTANCE TrialReminders WITH
  Orgs <- TrialOrgs, Jobs <- Requests, Offsets <- {Hour},
  now <- reminderNow, row <- reminderRow
Subscription == INSTANCE Billing WITH
  MaxCheckouts <- FewCheckouts, MaxEvents <- FewEvents,
  Kinds <- {"updated", "pending", "rejected"}, trial <- billingTrial, request <- billingRequest
PlanChange == INSTANCE Billing WITH
  Requests <- {"q"},
  Kinds <- {"approved", "rejected"}, trial <- billingTrial, request <- billingRequest
Documents == INSTANCE KnowledgeDocument WITH
  request <- knowledgeRequest
Document == INSTANCE KnowledgeDocument WITH
  Requests <- {"q"}, request <- knowledgeRequest
Rules == INSTANCE RuleEditing WITH
  Editors <- Requests, MaxVersion <- MaxSaves
Probes == INSTANCE ConnectionProbe WITH
  Overlapping <- FALSE, request <- probesRequest
Catalog == INSTANCE CatalogPage WITH
  Members <- {"m"}, Patient <- TRUE, MaxChoices <- 0
Filters == INSTANCE CatalogPage WITH
  Members <- {"m"}, Patient <- TRUE, MaxItems <- 1, MaxSubmits <- 0
Catalogs == INSTANCE CatalogPage WITH
  Members <- CatalogMembers, Patient <- TRUE, MaxSubmits <- FewSubmits, MaxChoices <- 0
Figures == INSTANCE Metrics WITH
  MaxTime <- FiguresTime, now <- metricsNow

AllParts == {"team", "seats", "throttle", "attempts", "verification", "reset", "first",
  "invited", "onboarding", "skips", "reminders", "subscription", "plans", "documents",
  "document", "rules", "probes", "catalog", "filters", "catalogs", "figures"}
ASSUME Bounds ==
  /\ Parts \subseteq AllParts
  /\ Roster!TeamAssumption
  /\ Seated!TeamAssumption
  /\ Throttle!ThrottleAssumption
  /\ Attempts!ThrottleAssumption
  /\ Verification!LinksAssumption
  /\ Reset!LinksAssumption
  /\ First!FirstOrganizationAssumption
  /\ Guest!FirstOrganizationAssumption
  /\ Reminders!RemindersAssumption
  /\ Subscription!BillingAssumption
  /\ PlanChange!BillingAssumption
  /\ Documents!KnowledgeDocumentAssumption
  /\ Document!KnowledgeDocumentAssumption
  /\ Rules!RuleEditingAssumption
  /\ Probes!ConnectionProbeAssumption
  /\ Catalog!CatalogAssumption
  /\ Filters!CatalogAssumption
  /\ Catalogs!CatalogAssumption
  /\ Figures!MetricsAssumption

Init ==
  /\ part \in Parts
  /\ CASE part = "seats" -> Seated!Init
       [] OTHER -> Roster!Init
  /\ CASE part = "attempts" -> Attempts!Init
       [] OTHER -> Throttle!Init
  /\ CASE part = "reset" -> Reset!Init
       [] OTHER -> Verification!Init
  /\ CASE part = "invited" -> Guest!Init
       [] OTHER -> First!Init
  /\ CASE part = "onboarding" -> Onboarding!Init
       [] part = "skips" -> Skips!Init
       [] OTHER -> data = {} /\ onboardingRow = 0 /\ onboardingRequest = 0
  /\ IF part = "reminders" THEN Reminders!Init
     ELSE reminderNow = 0 /\ reminderRow = 0 /\ end = 0 /\ reserved = {} /\ mailed = 0 /\ job = 0 /\ ran = FALSE
  /\ CASE part = "plans" -> PlanChange!Init
       [] OTHER -> Subscription!Init
  /\ CASE part = "document" -> Document!Init
       [] OTHER -> Documents!Init
  /\ Rules!Init
  /\ IF part = "probes" THEN Probes!Init
     ELSE config = 0 /\ probe = <<>> /\ connection = 0 /\ probesRequest = 0
  /\ CASE part = "filters" -> Filters!Init
       [] part = "catalogs" -> Catalogs!Init
       [] OTHER -> Catalog!Init
  /\ Figures!Init

Next ==
  /\ part' = part
  /\ \/ /\ ((part = "team" /\ Roster!Next) \/ (part = "seats" /\ Seated!Next))
        /\ UNCHANGED <<authVars, mailVars, firstVars, onboardingVars, reminderVars,
                       billingVars, knowledgeVars, rulesVars, probesVars, catalogVars,
                       metricsVars>>
     \/ /\ ((part = "throttle" /\ Throttle!Next) \/ (part = "attempts" /\ Attempts!Next))
        /\ UNCHANGED <<teamVars, mailVars, firstVars, onboardingVars, reminderVars,
                       billingVars, knowledgeVars, rulesVars, probesVars, catalogVars,
                       metricsVars>>
     \/ /\ ((part = "verification" /\ Verification!Next) \/ (part = "reset" /\ Reset!Next))
        /\ UNCHANGED <<teamVars, authVars, firstVars, onboardingVars, reminderVars,
                       billingVars, knowledgeVars, rulesVars, probesVars, catalogVars,
                       metricsVars>>
     \/ /\ ((part = "first" /\ First!Next) \/ (part = "invited" /\ Guest!Next))
        /\ UNCHANGED <<teamVars, authVars, mailVars, onboardingVars, reminderVars, billingVars,
                       knowledgeVars, rulesVars, probesVars, catalogVars, metricsVars>>
     \/ /\ ((part = "onboarding" /\ Onboarding!Next) \/ (part = "skips" /\ Skips!Next))
        /\ UNCHANGED <<teamVars, authVars, mailVars, firstVars, reminderVars, billingVars,
                       knowledgeVars, rulesVars, probesVars, catalogVars, metricsVars>>
     \/ /\ part = "reminders" /\ Reminders!Next
        /\ UNCHANGED <<teamVars, authVars, mailVars, firstVars, onboardingVars, billingVars,
                       knowledgeVars, rulesVars, probesVars, catalogVars, metricsVars>>
     \/ /\ ((part = "subscription" /\ Subscription!Next) \/ (part = "plans" /\ PlanChange!Next))
        /\ UNCHANGED <<teamVars, authVars, mailVars, firstVars, onboardingVars, reminderVars,
                       knowledgeVars, rulesVars, probesVars, catalogVars, metricsVars>>
     \/ /\ ((part = "documents" /\ Documents!Next) \/ (part = "document" /\ Document!Next))
        /\ UNCHANGED <<teamVars, authVars, mailVars, firstVars, onboardingVars, reminderVars,
                       billingVars, rulesVars, probesVars, catalogVars, metricsVars>>
     \/ /\ part = "rules" /\ Rules!Next
        /\ UNCHANGED <<teamVars, authVars, mailVars, firstVars, onboardingVars, reminderVars,
                       billingVars, knowledgeVars, probesVars, catalogVars, metricsVars>>
     \/ /\ part = "probes" /\ Probes!Next
        /\ UNCHANGED <<teamVars, authVars, mailVars, firstVars, onboardingVars, reminderVars,
                       billingVars, knowledgeVars, rulesVars, catalogVars, metricsVars>>
     \/ /\ \/ part = "catalog" /\ Catalog!Next
           \/ part = "filters" /\ Filters!Next
           \/ part = "catalogs" /\ Catalogs!Next
        /\ UNCHANGED <<teamVars, authVars, mailVars, firstVars, onboardingVars, reminderVars,
                       billingVars, knowledgeVars, rulesVars, probesVars, metricsVars>>
     \/ /\ part = "figures" /\ Figures!Next
        /\ UNCHANGED <<teamVars, authVars, mailVars, firstVars, onboardingVars, reminderVars,
                       billingVars, knowledgeVars, rulesVars, probesVars, catalogVars>>

Spec == Init /\ [][Next]_vars

------------------------------------------------------------------------------
\* Every part keeps the types of its state.
TypeOK ==
  /\ part = "team" => Roster!TypeOK
  /\ part = "seats" => Seated!TypeOK
  /\ part = "throttle" => Throttle!TypeOK
  /\ part = "attempts" => Attempts!TypeOK
  /\ part = "verification" => Verification!TypeOK
  /\ part = "reset" => Reset!TypeOK
  /\ part = "first" => First!TypeOK
  /\ part = "invited" => Guest!TypeOK
  /\ part = "onboarding" => Onboarding!TypeOK
  /\ part = "skips" => Skips!TypeOK
  /\ part = "reminders" => Reminders!TypeOK
  /\ part = "subscription" => Subscription!TypeOK
  /\ part = "plans" => PlanChange!TypeOK
  /\ part = "documents" => Documents!TypeOK
  /\ part = "document" => Document!TypeOK
  /\ part = "rules" => Rules!TypeOK
  /\ part = "probes" => Probes!TypeOK
  /\ part = "catalog" => Catalog!TypeOK
  /\ part = "filters" => Filters!TypeOK
  /\ part = "catalogs" => Catalogs!TypeOK
  /\ part = "figures" => Figures!TypeOK

\* The team, its seats, and the ways into an account:
\* - "la transacción evita que la organización quede un instante con dos propietarios o con
\*   ninguno": whatever members join, change, leave or delete, there is one owner.
\* - "para que no se pueda superar el cupo invitando en paralelo": members and invitations
\*   that wait never need more seats than the plan has.
\* - Requests one after another: a window lets through as many attempts as its limit.
\* - "un único uso": whoever opens a link at once, it takes effect once.
\* - "el enlace viejo ... deja de servir en cuanto la persona pide otro": when no request is
\*   sending one, only the last link sent is valid,
\*   the one that verifies an address as the one that resets a password.
AccessKept ==
  /\ part = "team" => Roster!OneOwner
  /\ part = "seats" => Seated!SeatsKept
  /\ part = "attempts" => Attempts!WithinLimit
  /\ part = "verification" => /\ Verification!SingleUse
                              /\ Verification!OnlyNewest
  /\ part = "reset" => Reset!OnlyNewest

\* The first organization of an account and its onboarding:
\* - "En esta etapa cada usuario puede pertenecer a una sola": a person is a member of at
\*   most one organization.
\* - "la ventana de 5 días se fija la primera vez y nunca se reinicia": whatever a person
\*   deletes and opens again, the trial ends Duration after the first time.
\* - The same of a person who was invited and opens the page of the first organization.
\* - While the configuration is not finished, the page redirected to is shown.
\* - "los pasos opcionales no frenan la finalización": the last page is open exactly when
\*   the required steps are done.
OrganizationKept ==
  /\ part = "first" => /\ First!OneOrganization
                       /\ First!TrialOnce
  /\ part = "invited" => Guest!OneOrganization
  /\ part = "onboarding" => /\ Onboarding!RedirectEndsOpen
                            /\ Onboarding!FinishAgrees

\* The trial and the plan:
\* - "el segundo create choca contra el índice y no se manda el correo de nuevo".
\* - "A 2 días no se avisa: el hito de 3 ya salió": when the trial of an organization that
\*   has not paid is over, its notices of three days and one were reserved.
\* - Access is paid: an ACTIVE organization is one whose subscription in force the
\*   payer authorized, and its plan is the one of that checkout.
PlanKept ==
  /\ part = "reminders" => /\ Reminders!OnceEach
                           /\ Reminders!NoticesBeforeEnd
  /\ part = "plans" => PlanChange!ActiveWasPaid

\* The documents of the knowledge base:
\* - The file of a document is in the storage, whatever is replaced and deleted at once.
\* - "Un documento NUNCA queda READY sin que sus fragmentos estén guardados".
\* - "Reemplaza el archivo de un documento existente": what the agent finds in a document
\*   was taken from its file.
\* - "Activa o desactiva la disponibilidad": a document the page shows as inactive can be
\*   enabled, since its flag and its status agree.
KnowledgeKept ==
  /\ part = "documents" => Documents!RowHasFile
  /\ part = "document" => /\ Document!ReadyHasChunks
                          /\ Document!CurrentText
                          /\ Document!FlagAgrees

\* What the panel probes, shows and counts:
\* - "solo un callback exitoso del probe puede habilitarla": events are sent to n8n only if a
\*   probe of the current configuration succeeded.
\* - "Un probe nunca se reintenta automáticamente".
\* - "Sincroniza búsqueda y filtros de tablas con los parámetros de la URL": once nothing is on its
\*   way, the address has what the member chose last, when each choice waits for the former one.
\* - The days of the chart are the days that are asked for: a range of whole days holds the
\*   conversations that the query groups under them, and no other.
\* - "Hoy" is one day of the chart, and all of it so far.
\* - "Las conversaciones abiertas no se consideran resueltas", however often they were reopened.
PanelKept ==
  /\ part = "probes" => /\ Probes!ReadyByProbe
                        /\ Probes!SentOnce
  /\ part = "filters" => Filters!FollowsChoices
  /\ part = "figures" => /\ Figures!DayIsItsRange
                         /\ Figures!TodayIsOneDay
                         /\ Figures!ResolvedAreClosed

\* What no step of an account, of a team or of a plan does:
\* - "Las organizaciones compartidas nunca se destruyen": an organization with more people
\*   than the one who deletes the account only ends when its owner closes it.
\* - A person who joins has an invitation that was not revoked or refused.
\* - "windowEnd no se mueve: el bloqueo nunca se extiende solo": the end of a window in
\*   force moves only by a request that had found it over.
\* - The last link sent is not deleted by a request that sent an earlier one.
\* - "Marca un paso OPCIONAL como omitido": a step that was left out stays so.
\* - The end of a trial, noticed while its payment is confirmed, closes nothing
\*   that was paid.
\* - What the setup guide says of a change: the subscription in force is replaced
\*   by an explicit checkout, one that is still to be confirmed.
\* - What the panel says of a cancellation: it is there to stay, and access lasts
\*   until the paid period ends.
AccountSteps ==
  [][ /\ part = "team" => /\ Roster!SharedKeptStep
                          /\ Roster!JoinsByInvitationStep
      /\ part = "throttle" => Throttle!BlockNotExtendedStep
      /\ part = "reset" => Reset!LastWorksStep
      /\ part = "skips" => Skips!SkipsKeptStep
      /\ part = "subscription" => Subscription!PaidNotExpiredStep
      /\ part = "plans" => /\ PlanChange!ChangedByCheckoutStep
                           /\ PlanChange!CanceledForGoodStep ]_vars

\* What no step of the panel does:
\* - "La regla cambió mientras la estabas editando": the first save of a panel since its page
\*   was loaded changes the fields its editor touched, and no other.
\* - "no puede degradarla aunque los callbacks se crucen": a verified connection is lost only
\*   to a failure of the newest probe of its configuration, or to a deployment.
\* - A save overwrites the row its form was opened on, and no later one, when one member edits and
\*   waits for the answers: the form rewrites every field, the switch of the table among them.
\* - "Esta acción no se puede deshacer": what was deleted stays deleted, although another member
\*   has it in an open form or another browser has a request for it on its way.
PanelSteps ==
  [][ /\ part = "rules" => Rules!FirstSaveKeepsStep
      /\ part = "probes" => Probes!NotDegradedStep
      /\ part = "catalog" => Catalog!OverwritesWhatItShowedStep
      /\ part = "catalogs" => Catalogs!DeletedStaysStep ]_vars
================================================================================
