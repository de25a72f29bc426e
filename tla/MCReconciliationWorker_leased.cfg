\* Leases outlast batches: two workers, a memory and its child, crashes.
SPECIFICATION FairSpec
CONSTANTS
    memory = memory
    block = block
    label = label
    Events = {e1}
    Types = {memory, block}
    Parents <- MCParents
    Buildable = {memory, block}
    Replayable = {memory}
    Migrating = {}
    Upserts = {}
    Blank = {}
    Debts <- FamilyDebts
    MaxAttempts = 2
    HoldFactor = 2
    Workers = {w1, w2}
    Client = client
    Nobody = nobody
    NoEvent = noEvent
    BatchSize = 2
    MaxCrashes = 2
    MaxClientCrashes = 1
    LeaseOutlastsBatch = TRUE
    Poison = {}
    NoJob = noJob
INVARIANTS TypeOK LedgerBacked LedgerPairsProjection AtMostOnce DebtRecorded ParentsFirst DeadLetterUnbuilt
PROPERTY ImplementsPromise
CHECK_DEADLOCK FALSE
