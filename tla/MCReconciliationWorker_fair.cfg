\* Batches of one, labels: an event that kills every worker starves neither the
\* healthy one nor the one without content.
SPECIFICATION FairSpec
CONSTANTS
    memory = memory
    block = block
    label = label
    Events = {e1, e2, e3}
    Types = {label}
    Parents <- MCParents
    Buildable = {label}
    Replayable = {label}
    Migrating = {label}
    Upserts = {label}
    Blank = {e3}
    Debts <- MCDebts
    MaxAttempts = 1
    HoldFactor = 1
    Workers = {w1, w2}
    Client = client
    Nobody = nobody
    NoEvent = noEvent
    BatchSize = 1
    MaxCrashes = 0
    MaxClientCrashes = 0
    LeaseOutlastsBatch = FALSE
    Poison = {e1}
    NoJob = noJob
PROPERTY HealthySettles
CHECK_DEADLOCK FALSE
