\* Services of one host, each on its own.
SPECIFICATION HostSpec
CONSTANTS
    \* The journal: crashes and failed writes; backups can always be written back.
    Files = {f1, f2}
    Contents = {v1}
    Absent = Absent
    Txns = {t1, t2}
    Writers = {w1}
    Unlocked = {}
    WriteFaults = TRUE
    RestoreFaults = FALSE
    RemoveFaults = FALSE
    MaxCrashes = 2
    Callers = {r1, r2, r3}
    Keys = {k1, k2}
    Payloads = {b1, b2}
    KeepFor = 0
    LedgerSize = 1
    LedgerHorizon = 1
    Strategies = {"all_frames", "changed_frames", "diagnostic"}
    MaxCaptures = 5
    WriterQueue = 1
    RingSize = 2
    AfterMarker = 1
    MaxMarkers = 1
    ErrorLimit = 2
    DiskFails = TRUE
    HostStops = TRUE
    \* Content: two processes, two runs, a release that is broken.
    Players = {p1, p2}
    Hands = {1}
    Plays = {1, 2}
    Newest = 3
    Broken = {2}
    MaxFeeds = 2
    MaxStops = 1
    \* The application: two helpers, the power fails once.
    Helpers = {h1, h2}
    Starts = TRUE
    MaxOutages = 1
    \* The console: two consoles in turn, two threads, workers within their limits.
    Consoles = {1, 2}
    MaxWorkers = 3
    Calls = {q1, q2}
    Prompt = TRUE
    EndsStarting = FALSE
INVARIANTS WholeWhenIdle OneLeader AnswersAreEarned EveryCaptureAccounted
    ActiveIsHealthy PreviousIsKept HealthyIsTrue OneWorker
PROPERTIES Atomic MarkerIsFinal PolicyMovesForward RunsAreSpared
SYMMETRY Alike
CHECK_DEADLOCK FALSE
