SPECIFICATION Spec
CONSTANT Parts = {"booking", "slots", "calendar", "sheets", "store", "stores", "tiendanube", "health"}
CONSTANT Requests = {q1, q2}
CONSTANT Keys = {"k1", "k2"}
CONSTANT Users = {"u1", "u2"}
CONSTANT Accounts = {"a1", "a2"}
CONSTANT Sheets = {"s1"}
CONSTANT Tabs = {"t1", "t2"}
CONSTANT MaxRows = 2
CONSTANT MaxFlows = 2
CONSTANT MaxRuns = 2
CONSTANT MaxSaves = 3
CONSTANT MaxStarts = 2
CONSTANT BookingTurns = 3
CONSTANT BookingSlots = {1, 2}
CONSTANT SlotDay = 6
CONSTANT SlotDuration = 2
CONSTANT SlotHorizon = 14
CONSTANT SlotClock = {6}
CONSTANT SlotRangeDays = 2
CONSTANT SlotLimit = 3
CONSTANT ShopNames = {"sA"}
CONSTANT ShopProducts = 2
CONSTANT ShopEdits = 2
CONSTANT ShopLinks = 1
CONSTANT TwoShopNames = {"sA", "sB"}
CONSTANT TwoShopProducts = 1
CONSTANT TwoShopChanges = 1
CONSTANT TwoShopLinks = 2
CONSTANT TiendaOrgs = {"oA", "oB"}
CONSTANT TiendaShops = {"s1"}
CONSTANT TiendaStates = 2
CONSTANT TiendaEvents = 2
CONSTANT TiendaBuckets = 0
SYMMETRY RequestsAlike
INVARIANTS TypeOK BookingKept OffersKept GoogleKept StoresKept HealthKept
PROPERTIES IntegrationSteps
CHECK_DEADLOCK FALSE
