\* Two callers at a time and an event hook among them, one failing KV call.
CONSTANTS
    Ids = {a1, a2}
    c1 = c1
    t1 = t1
    Channels = {c1}
    Teams = {t1}
    Triggers <- MCTriggers
    Events <- MCEvents
    Callers = {p, q}
    Hooks = {h1}
    Limit = 1
    MaxFaults = 1
    None = None
SPECIFICATION DispatchSpec
SYMMETRY Symmetry
CHECK_DEADLOCK FALSE
INVARIANTS
    IndexesMatchRecords
    SteadyListenersRun
    OnlyListenersRun
PROPERTY OnlyDisablingExceedsQuota
