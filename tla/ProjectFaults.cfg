\* What the IDE does for an open project, each part on its own.
SPECIFICATION ProjectSpec
CONSTANTS
    \* The journal: every fault, an unlocked writer.
    Files = {f1}
    Contents = {v1}
    Absent = Absent
    Txns = {t1, t2}
    Writers = {w1, w2}
    Unlocked = {w2}
    WriteFaults = TRUE
    RestoreFaults = TRUE
    RemoveFaults = TRUE
    MaxCrashes = 1
    \* The author's feed: one publisher, broken off once, keys rotated once.
    Publishers = {a1}
    MaxReleases = 2
    MaxCommits = 4
    MaxBreaks = 1
    MaxKeys = 2
    \* Triggers: the project is opened twice, edited once, starts two runs.
    MaxOpens = 2
    MaxHosts = 2
    MaxEdits = 1
    MaxTriggered = 2
    QuickStarts = TRUE
    \* Programs: one of six, beside a second run that borrows a target.
    r1 = r1
    r2 = r2
    desk = desk
    phone = phone
    pad = pad
    Runs = {r1, r2}
    EntriesOf <- TwoRuns
    Code <- Programs
    Targets = {desk, phone, pad}
    HomeOf <- Homes
    Cancellable = {r1}
    MaxDepth = 1
    MaxMessages = 1
INVARIANTS FeedIsWhole SkipMeansOne TargetsFollowScopes
PROPERTIES MarkerIsFinal ClosedStartsNothing CancelStops
CHECK_DEADLOCK FALSE
