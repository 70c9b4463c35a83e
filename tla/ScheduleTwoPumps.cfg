SPECIFICATION Spec
CONSTANTS
    i1 = i1
    i2 = i2
    Instances = {i1, i2}
    Schedules = {s1, s2}
    PlanSpecs <- Contended
    DailyAt <- Days
    Procs = {hub, api}
    Lease = 1
    MaxTime = 3
    MaxRevision = 1
    MaxRollbacks = 0
    Interrupts = FALSE
INVARIANTS SerialOccupancy
