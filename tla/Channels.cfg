SPECIFICATION Spec
CONSTANT Parts = {"connections", "signup", "assets", "popups", "payloads", "inbox", "receipts", "delivery", "turns", "quota", "tagging", "tags", "screens", "pages", "rounds", "batches"}
CONSTANT Requests = {q1, q2}
CONSTANT None = None
CONSTANT LinkNumbers = {"n1", "n2"}
CONSTANT LinkCodes = {"c1", "c2"}
CONSTANT ConnectionClock = 3
CONSTANT ConnectionSigners = {}
CONSTANT ConnectionForeign = {}
CONSTANT ConnectionAttempts = 0
CONSTANT SignupClock = 2
CONSTANT SignupForeign = {"n2"}
CONSTANT SignupSessions = {"s"}
CONSTANT SignupAttempts = 2
CONSTANT AssetWabas = {"w1", "w2"}
CONSTANT AssetNumbers = 2
CONSTANT AssetPage = 1
CONSTANT AssetPages = 2
CONSTANT AssetOperations = {"signup", "manual", "test", "reconnect", "phone", "ycloud"}
CONSTANT AssetChanges = 1
CONSTANT PopupAttempts = 2
CONSTANT PopupClicks = 2
CONSTANT Phones = {"p1"}
CONSTANT Customers = {"a", "b"}
CONSTANT PayloadChanges = 2
CONSTANT MaxTries = 2
CONSTANT BatchLengths = {2}
CONSTANT ReceiptMessages = 2
CONSTANT MaxConversations = 2
CONSTANT IngestRetries = 2
CONSTANT InboxSteps = 2
CONSTANT MaxMessages = 2
CONSTANT Webhooks = {"w1", "w2"}
CONSTANT ChatTurns = {"chat"}
CONSTANT PlanAnswers = 1
CONSTANT TurnMonths = 2
CONSTANT TurnSteps = 1
CONSTANT QuotaSteps = 2
CONSTANT TagNames = {"a", "b"}
CONSTANT MoreNames = {"a", "b", "c"}
CONSTANT Tags = {"t1", "t2", "t3"}
CONSTANT Targets = {"x"}
CONSTANT MaxTags = 2
CONSTANT MaxApplied = 1
CONSTANT MaxTexts = 1
CONSTANT Screeners = {q1, q2}
CONSTANT ScreenRows = 2
CONSTANT ScreenLimit = 1
CONSTANT InboxSize = 4
CONSTANT InboxPage = 2
CONSTANT PagesTime = 3
CONSTANT HistoryLength = 2
CONSTANT RoundCalls = 20
CONSTANT RoundTools = {1, 15}
CONSTANT RoundAsks = 2
CONSTANT BatchEvents = {1, 2, 3}
CONSTANT BatchSuspended = {1}
CONSTANT BatchLimit = 2
CONSTANT BatchAttempts = 2
CONSTANT BatchTime = 3
SYMMETRY RequestsAlike
INVARIANTS TypeOK ConnectionKept MessagesIn  InboxKept
PROPERTIES ChannelSteps
CHECK_DEADLOCK FALSE
