\* A forget, a replay, two workers, crashes: one window and no other.
SPECIFICATION ForgetFairSpec
CONSTANTS
    memory = memory
    label = label
    Events = {e1}
    Types = {memory}
    Parents <- MCParents
    Buildable = {memory}
    Replayable = {memory}
    Migrating = {}
    Upserts <- MCUpserts
    Blank = {}
    Debts <- MCDebts
    MaxAttempts = 1
    HoldFactor = 1
    Workers = {w1, w2}
    Client = client
    Nobody = nobody
    NoEvent = noEvent
    BatchSize = 2
    MaxCrashes = 1
    MaxClientCrashes = 0
    LeaseOutlastsBatch = FALSE
    Poison = {}
    NoJob = noJob
    Memory = memory
    Subject = {e1}
    MaxForgets = 1
    MaxReplays = 1
    MaxDeaths = 1
PROPERTIES OnlyLateWrites BuriedSettles
CHECK_DEADLOCK FALSE
