\* Only crashes: no write ever fails.
SPECIFICATION Spec
CONSTANTS
    Files = {f1, f2}
    Contents = {v1}
    Absent = Absent
    Txns = {t1}
    Writers = {w1}
    Unlocked = {}
    WriteFaults = FALSE
    RestoreFaults = FALSE
    RemoveFaults = FALSE
    MaxCrashes = 1
INVARIANTS NeverRefused
