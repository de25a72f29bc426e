\* Every service by itself: the drain, the WAL, the canary, sleep, labels.
SPECIFICATION ServicesSpec
CONSTANTS
    memory = memory
    label_type = label_type
    Events = {e1}
    Types = {memory, label_type}
    Parents <- MCParents
    Buildable = {memory, label_type}
    Replayable = {memory, label_type}
    Migrating = {}
    Upserts = {}
    Blank = {}
    Debts <- MCDebts
    MaxAttempts = 1
    HoldFactor = 1
    Workers = {w1, drain}
    Client = client
    Nobody = nobody
    NoEvent = noEvent
    BatchSize = 1
    MaxCrashes = 1
    MaxClientCrashes = 0
    LeaseOutlastsBatch = TRUE
    Poison = {}
    NoJob = noJob
    Drainer = drain
    MaxPauses = 2
    MaxDrains = 1

    ResumeAt = 1
    Soft = 2
    Hard = 3
    Readers = {r1, h1}
    Hidden = {h1}
    MaxAppends = 4
    MaxReads = 3
    MaxRestarts = 1

    Producers = {p1, p2}
    Slots = {s1, s2}
    FirstSlot = s1
    LastSlot = s2
    MaxQueue = 1
    MaxDeaths = 2
    Failing = {"pause_and_drain", "probe"}

    bright = bright
    plain = plain
    slow = slow
    Entries = {bright, plain, slow}
    Worth <- MCWorth
    Cheap <- MCCheap
    Ttl = 2
    MaxEntries = 2
    MaxOutages = 1
    MaxSetbacks = 1

    Labels = {l1, l2, l3}
    Upgraders = {u1, u2}
    BatchLimit = 2
    Unlabelable = {l1}
    MaxRebuilds = 1
INVARIANTS
    ServicesTypeOK DrainedIsIdle OneManager EndsClean WorthSurvives AskedOnce
PROPERTIES
    PauseQuiesces LogComesBack DrainsByItself WorthIsKept
    GoodLabelKept BacklogDrains
CHECK_DEADLOCK FALSE
