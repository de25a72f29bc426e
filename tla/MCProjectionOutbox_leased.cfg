\* Leases outlast the work: who holds a job holds it alone.
\* The third job belongs to a tenant nobody serves.
SPECIFICATION Spec
CONSTANTS
    home = home
    away = away
    Jobs = {1, 2, 3}
    Tenants = {home, away}
    TenantOf <- MCForeign
    Workers = {w1, w2}
    Scope <- MCScope
    Nobody = nobody
    Limit = 2
    Lease = 2
    YieldBase = 1
    YieldCap = 2
    BackoffCap = 4
    FailLimits = {0, 2}
    LeaseOutlastsWork = TRUE
    MaxTime = 3
    MaxCrashes = 1
SYMMETRY WorkerSymmetry
INVARIANTS TypeOK ExclusiveLease GrantRecorded
PROPERTIES ClaimSparesLiveLeases ForeignTenantUntouched ImplementsLeases
CHECK_DEADLOCK FALSE
