\* Two processes, two records of one automation and one of another.
CONSTANTS
    r1 = r1
    r2 = r2
    s1 = s1
    a = a
    b = b
    Procs = {p1, p2}
    Ids <- MCIds
    Automations = {a, b}
    AutomationOf <- MCAutomationOf
    All = All
    Cap <- MCCap
    TTL = 2
    Limit = 1
    Repeated = {s1}
    MaxLists = 1
    MaxTicks = 2
    MaxPurges <- MCMaxPurges
    MaxMishaps = 1
    Nobody = Nobody
CHECK_DEADLOCK FALSE
SPECIFICATION HistorySpec
SYMMETRY Symmetry
INVARIANTS
    HistoryInv
    LivingRecordsAreListed
    PurgesAreThorough
    ListsShowTheNewest
