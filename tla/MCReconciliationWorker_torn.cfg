\* The first label a worker builds: the ledger row outlives the label.
SPECIFICATION Spec
CONSTANTS
    memory = memory
    block = block
    label = label
    Events = {e1}
    Types = {label}
    Parents <- MCParents
    Buildable = {label}
    Replayable = {label}
    Migrating = {label}
    Upserts = {label}
    Blank = {}
    Debts <- MCDebts
    MaxAttempts = 2
    HoldFactor = 2
    Workers = {w1, w2}
    Client = client
    Nobody = nobody
    NoEvent = noEvent
    BatchSize = 2
    MaxCrashes = 2
    MaxClientCrashes = 1
    LeaseOutlastsBatch = TRUE
    Poison = {}
    NoJob = noJob
INVARIANT LedgerPairsProjection
CHECK_DEADLOCK FALSE
