\* One instance, overlapping batches, a process that stops; two runs on one target.
SPECIFICATION PlayerSpec
CONSTANTS
    i1 = i1
    i2 = i2
    hub = hub
    NoTarget = NoTarget
    TargetOf <- Untargeted
    LaunchFailures = {"transient", "permanent"}
    Instances = {i1}
    Schedules = {s1}
    PlanSpecs <- QueueTwoEntries
    DailyAt <- Days
    Procs = {hub}
    Lease = 1
    MaxTime = 4
    MaxRevision = 1
    MaxRollbacks = 0
    Interrupts = TRUE
    Faults = {}
    AgentAlone = FALSE
    MaxCrashes = 1
    \* Below the gateway: two executions, two commands, workers that die or stay.
    Runs = {x1, x2}
    Controls = {"cancel", "pause", "resume", "step"}
    MaxControls = 2
    MailSize = 1
    WorkersDie = TRUE
INVARIANTS ExclusiveRuns RunsAreWatched OneProgramPerTarget EndsAreTrue
