\* Two scans and their repairs, two workers, a forget and its lift, a crash of each.
SPECIFICATION DoctorFairSpec
CONSTANTS
    memory = memory
    block = block
    label = label
    Events = {e1}
    Types = {memory}
    Parents <- MCParents
    Buildable = {memory}
    Replayable = {memory}
    Migrating = {}
    Upserts <- MCUpserts
    Blank = {}
    Debts <- MCDebts
    MaxAttempts = 1
    HoldFactor = 1
    Workers = {w1, w2}
    Client = client
    Nobody = nobody
    NoEvent = noEvent
    BatchSize = 1
    MaxCrashes = 1
    MaxClientCrashes = 0
    LeaseOutlastsBatch = TRUE
    Poison = {}
    NoJob = noJob
    Memory = memory
    Subject = {e1}
    MaxForgets = 1
    MaxReplays = 0
    MaxDeaths = 1
    MaxScans = 2
    NoFinding = noFinding
INVARIANTS CoveredWasClean
PROPERTIES RepairedSettles
CHECK_DEADLOCK FALSE
