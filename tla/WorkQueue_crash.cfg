\* One node, one crash, no failing KV call.
CONSTANTS
    Items = {i1, i2}
    Nodes = {n1}
    Slots = {s1}
    None = None
    MaxFaults = 0
    MaxCrashes = 1
SPECIFICATION Spec
INVARIANT EveryQueuedItemIsTracked
