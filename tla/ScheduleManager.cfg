\* Two nodes, two calls at a time, one failing call.
CONSTANTS
    Ids = {a1}
    Schedules = {s1, s2}
    Nodes = {n1, n2}
    Callers = {p, q}
    Serials = {1, 2}
    MaxFaults = 1
    Off = Off
    None = None
SPECIFICATION Spec
SYMMETRY Symmetry
INVARIANTS
    SchedInv
    JobsFollowRecords
