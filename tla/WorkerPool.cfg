\* One hook call, three items, two workers, a failing store call or a crash, an orderly shutdown.
CONSTANTS
    Jobs = {j1, j2, j3}
    Events <- OneEvent
    MaxWorkers = 2
    MaxMishaps = 1
    MaxStops = 1
SPECIFICATION Spec
SYMMETRY Symmetry
INVARIANTS
    PoolInv
    NoLostWakeup
    LossesAreBounded
