\* Two nodes sharing one KV store.
CONSTANTS
    Items = {i1, i2}
    Nodes = {n1, n2}
    Slots = {s1, s2}
    None = None
    MaxFaults = 1
    MaxCrashes = 1
SPECIFICATION Spec
SYMMETRY Symmetry
INVARIANTS
    PendingHasNoRepeats
    UndisturbedQueueForgetsNothing
