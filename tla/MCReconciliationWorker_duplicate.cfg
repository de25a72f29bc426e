\* One event, a lease shorter than the build: two projections of one key.
SPECIFICATION Spec
CONSTANTS
    memory = memory
    block = block
    label = label
    Events = {e1}
    Types = {memory}
    Parents <- MCParents
    Buildable = {memory}
    Replayable = {memory}
    Migrating = {}
    Upserts = {}
    Blank = {}
    Debts <- MCDebts
    MaxAttempts = 2
    HoldFactor = 2
    Workers = {w1, w2}
    Client = client
    Nobody = nobody
    NoEvent = noEvent
    BatchSize = 2
    MaxCrashes = 0
    MaxClientCrashes = 1
    LeaseOutlastsBatch = FALSE
    Poison = {}
    NoJob = noJob
INVARIANT AtMostOnce
CHECK_DEADLOCK FALSE
