\* Labels of three events, one blank; three statements on one slot and a restart;
\* two candidates and two processes; one item and two erasers; two compiles.
SPECIFICATION RecordsSpec
CONSTANTS
    memory = memory
    block = block
    label = label
    Events = {e1, e2, e3}
    Types = {label}
    Parents <- MCParents
    Buildable = {label}
    Replayable = {label}
    Migrating = {label}
    Upserts = {label}
    Blank = {e2}
    Debts <- MCDebts
    MaxAttempts = 1
    HoldFactor = 1
    Workers = {w1, w2}
    Client = client
    Nobody = nobody
    NoEvent = noEvent
    BatchSize = 1
    MaxCrashes = 1
    MaxClientCrashes = 0
    LeaseOutlastsBatch = FALSE
    Poison = {}
    NoJob = noJob

    Values = {"An", "Binh"}
    Kinds = {"one", "many", "fixed", "undeclared"}
    Horizon = 2
    MaxStatements = 3
    MaxReloads = 1
    MaxDeletions = 1

    Candidates = {c1, c2}
    Handles = {k1, k2}
    OpenAnytime = FALSE
    MaxInstalls = 1
    MaxGenerations = 5

    Items = {i1}
    Erasers = {p1, p2}
    NoItem = noItem
    MaxErases = 2
    MaxFaults = 1

    narrow = narrow
    wide = wide
    Memories = {narrow, wide}
    Workspaces = {a}
    Whole = whole
    ScopeOf <- MCScopeOf
    Simulated = {}
    Compilers = {c1, c2}
    NoPacket = noPacket
    MaxCompiles = 2
SYMMETRY ContentSymmetry
INVARIANTS
    RecordsTypeOK ProjectionRecorded TransitionsAreTrue NothingForced
    NoHybrid NoneOverwritten LogSealed CleanStaysGone
    PacketsAreCurrent
CHECK_DEADLOCK FALSE
