\* A restart after the hand-over lease has run out.
SPECIFICATION HubSpec
CONSTANTS
    i1 = i1
    i2 = i2
    hub = hub
    NoTarget = NoTarget
    TargetOf <- Untargeted
    LaunchFailures = {"transient", "permanent"}
    Instances = {i1, i2}
    Schedules = {s1}
    PlanSpecs <- Staggered
    DailyAt <- Days
    Procs = {hub}
    Lease = 1
    MaxTime = 3
    MaxRevision = 1
    MaxRollbacks = 0
    Interrupts = TRUE
    Faults = {}
    AgentAlone = FALSE
    MaxCrashes = 1
INVARIANTS RunsAreWatched
