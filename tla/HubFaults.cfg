\* Every write may fail, and the process may stop.
SPECIFICATION HubSpec
CONSTANTS
    i1 = i1
    i2 = i2
    hub = hub
    NoTarget = NoTarget
    TargetOf <- Shared
    LaunchFailures = {"transient", "permanent"}
    Instances = {i1}
    Schedules = {s1}
    PlanSpecs <- Pair
    DailyAt <- Days
    Procs = {hub}
    Lease = 1
    MaxTime = 1
    MaxRevision = 1
    MaxRollbacks = 0
    Interrupts = TRUE
    Faults = {"admission", "ack", "report"}
    AgentAlone = TRUE
    MaxCrashes = 1
PROPERTIES StartedOnce
