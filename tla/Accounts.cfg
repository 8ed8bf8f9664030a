SPECIFICATION Spec
CONSTANT Parts = {"team", "seats", "throttle", "attempts", "verification", "reset", "first", "invited", "onboarding", "skips", "reminders", "subscription", "plans", "documents", "document", "rules", "probes", "catalog", "filters", "catalogs", "figures"}
CONSTANT Requests = {q1, q2}
CONSTANT People = {"ana", "beto", "caro"}
CONSTANT Founder = "ana"
CONSTANT ManySeats = 3
CONSTANT FewSeats = 2
CONSTANT MaxInvitations = 2
CONSTANT Limit = 2
CONSTANT Window = 2
CONSTANT ShortTime = 4
CONSTANT LongTime = 8
CONSTANT MaxCount = 4
CONSTANT MaxVerifications = 3
CONSTANT MaxResets = 4
CONSTANT Persons = {"p1", "p2"}
CONSTANT Orgs = {"o1", "o2", "o3"}
CONSTANT InvitedOrgs = {"o1"}
CONSTANT Duration = 2
CONSTANT MemberTime = 3
CONSTANT GuestTime = 2
CONSTANT NoOne = "nobody"
CONSTANT TrialOrgs = {"o1"}
CONSTANT Day = 3
CONSTANT Hour = 1
CONSTANT Ends = {15, 16, 17}
CONSTANT FewCheckouts = 1
CONSTANT MaxCheckouts = 2
CONSTANT MaxVersion = 2
CONSTANT FewEvents = 2
CONSTANT MaxEvents = 3
CONSTANT MaxFiles = 3
CONSTANT Fields = {"on", "phones"}
CONSTANT Refreshed = {"phones"}
CONSTANT Values = {0, 1}
CONSTANT MaxSaves = 4
CONSTANT Configs = {1, 2}
CONSTANT MaxProbes = 2
CONSTANT CatalogMembers = {"m", "n"}
CONSTANT MaxItems = 2
CONSTANT MaxSubmits = 2
CONSTANT FewSubmits = 1
CONSTANT MaxChoices = 4
CONSTANT Conversations = {"c1", "c2"}
CONSTANT DayTicks = 3
CONSTANT Offset = 1
CONSTANT MonthDays = 2
CONSTANT FiguresTime = 6
SYMMETRY RequestsAlike
INVARIANTS TypeOK   PlanKept  PanelKept
PROPERTIES  PanelSteps
CHECK_DEADLOCK FALSE
