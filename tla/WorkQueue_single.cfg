\* One node, failing KV calls and crashes.
CONSTANTS
    Items = {i1, i2, i3}
    Nodes = {n1}
    Slots = {s1, s2}
    None = None
    MaxFaults = 2
    MaxCrashes = 2
SPECIFICATION Spec
SYMMETRY Symmetry
INVARIANT SingleNodeInv
PROPERTY ImplementsJobQueue
