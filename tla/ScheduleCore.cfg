\* One schedule whose batches overlap on one instance.
SPECIFICATION FairSpec
CONSTANTS
    i1 = i1
    i2 = i2
    Instances = {i1}
    Schedules = {s1}
    PlanSpecs <- QueueTwoEntries
    DailyAt <- Days
    Procs = {hub}
    Lease = 1
    MaxTime = 4
    MaxRevision = 1
    MaxRollbacks = 0
    Interrupts = TRUE
INVARIANTS TypeOK SerialOccupancy BatchAgreement OneOccurrenceAtATime BatchOrder
PROPERTIES TerminalIsFinal AdmittedStaysAdmitted AllSettle
