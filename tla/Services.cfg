SPECIFICATION ServicesSpec
CONSTANTS
    \* Triggers: plans edited and fired by two processes, the clock set back once.
    i1 = i1
    i2 = i2
    Instances = {i1}
    Schedules = {s1}
    PlanSpecs <- Recurring
    DailyAt <- Days
    Procs = {hub, api}
    Lease = 1
    MaxTime = 3
    MaxRevision = 2
    MaxRollbacks = 1
    Interrupts = FALSE
    \* The LAN: two connections, one change of permissions or trust.
    Conns = {c1, c2}
    Grantable = {"remote_start", "messages"}
    LanHorizon = 1
    MaxChanges = 1
    \* One dispatch to the other host.
    Jobs = {d1}
    LeaseTicks = 1
    CommandTtl = 1
    MaxLost = 1
    MaxApiRestarts = 1
    MaxRecoveries = 1
    MaxUnwritten = 1
    \* Pairing: two devices compete for one code.
    Sessions = {n1}
    Devices = {a1, a2}
    Permissions = {"messages"}
    Confirmers = {k1, k2}
    CodeAttempts = 2
    MaxRevokes = 1
    \* One message to the other host.
    m1 = m1
    Flushers = {f1}
    Readers = {r1}
    Abroad = {r1}
    Copies = {m1}
    Batches <- OneCopy
    Remote = {m1}
    Ttl = 1
    LateHosts = TRUE
    \* Programs: an entry function, another one and a variable; two requests overlap.
    Functions = {main, e1}
    Variables = {v1}
    Entry = main
    Requests = {q1, q2}
    HistoryLimit = 1
    MaxRequests = 4
    FilesFail = TRUE
INVARIANTS
    DuePointsPartitioned OneRemoteRun CoordinatorIsRight TrustIsChosen ReportsAreTrue
    ReferencesResolve
PROPERTIES ReplacedIsArchived
CHECK_DEADLOCK FALSE
