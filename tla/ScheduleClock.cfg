\* Two nodes, two updates, two failing calls or crashes; no symmetry, for liveness.
CONSTANTS
    Nodes = {n1, n2}
    Longest = 3
    MaxStart = 2
    MaxEdits = 2
    MaxFaults = 2
    None = None
SPECIFICATION FairSpec
PROPERTIES
    RunsAreSpaced
    RunsAreOnTime
    KeepsFiring
