\* One hook call, two items, one worker, two mishaps, an orderly shutdown: liveness.
CONSTANTS
    Jobs = {j1, j2}
    Events <- OneEvent
    MaxWorkers = 1
    MaxMishaps = 2
    MaxStops = 1
SPECIFICATION FairSpec
PROPERTIES
    WaitingIsServed
    StopReturns
